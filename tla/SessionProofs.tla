--------------------------- MODULE SessionProofs ----------------------------
(***************************************************************************)
(* Sessions of any clients, with any bounds on commands, attempts and      *)
(* restarts, over the network that loses, copies and reorders: a client    *)
(* never gets ahead of the server, is told the truth of every number it    *)
(* uses for the first time, and has its commands carried out at most once, *)
(* in order and funded; and the server is that of module Bank.             *)
(* And their processes: no line that was typed is slept through, and none  *)
(* is cut off by the end of the input.                                     *)
(***************************************************************************)
EXTENDS ClientProcess, LedgerProofs

\* A client that was told to advance was told by a server that had executed its
\* number.
AnswersTell ==
  \A m \in net : m.type = "TRANSACTION_ACK" /\ advances(m.status) =>
    m.seqn <= ledger.lastReq[m.client]

\* No more numbers are used than commands were issued.
NumbersBounded ==
  /\ \A c \in Clients :
       /\ Len(commands[c]) <= MaxSeqn
       /\ seqn[c] <= IF phase[c] = "waiting" THEN Len(commands[c]) ELSE Len(commands[c]) + 1
  /\ \A m \in net : m.type = "TRANSACTION_REQ" => m.seqn \in 1..MaxSeqn

IInv == TypeOK /\ NeverAhead /\ AnswersTell /\ NumbersBounded

-----------------------------------------------------------------------------
\* What a datagram of each type is.
LEMMA PacketTypes ==
  ASSUME TypeOK, NEW m \in net
  PROVE  /\ m.client \in Clients /\ m.port \in Nat
         /\ m.type = "TRANSACTION_REQ" =>
              m.id \in Nat /\ m.dest \in Clients /\ m.value \in Values /\ m.seqn \in Nat
         /\ m.type = "TRANSACTION_ACK" => m.seqn \in Nat /\ m.status \in Statuses
<1>1. m \in DiscoveryPackets \/ m \in RequestPackets \/ m \in AckPackets
  BY DEF TypeOK
<1>2. CASE m \in DiscoveryPackets
  BY <1>2 DEF DiscoveryPackets
<1>3. CASE m \in RequestPackets
  BY <1>3 DEF RequestPackets
<1>4. CASE m \in AckPackets
  BY <1>4 DEF AckPackets
<1>5. QED
  BY <1>1, <1>2, <1>3, <1>4

\* The command in progress is a command.
LEMMA CurrentType ==
  ASSUME IInv, NEW c \in Clients, phase[c] = "waiting"
  PROVE  /\ Len(commands[c]) \in 1..MaxSeqn
         /\ Current(c) \in Command
         /\ seqn[c] \in 1..MaxSeqn
<1>1. /\ commands[c] \in Seq(Command) /\ Len(commands[c]) \in Nat /\ seqn[c] \in Nat
  BY DEF IInv, TypeOK
<1>2. /\ 1 <= seqn[c] /\ seqn[c] <= Len(commands[c]) /\ Len(commands[c]) <= MaxSeqn
  <2>1. 1 <= seqn[c]
    BY DEF IInv, NeverAhead, TypeOK, LedgerType
  <2>2. QED
    BY <2>1 DEF IInv, NumbersBounded
<1>3. Len(commands[c]) \in 1..Len(commands[c])
  BY <1>1, <1>2
<1>4. QED
  BY <1>1, <1>2, <1>3, SessionAssumption DEF Current

\* Concluding a command replaces its outcome and nothing else.
LEMMA ConcludeType ==
  ASSUME IInv, NEW c \in Clients, NEW outcome \in Outcomes, Conclude(c, outcome)
  PROVE  /\ commands' \in [Clients -> Seq(Command)]
         /\ \A x \in Clients : Len(commands'[x]) = Len(commands[x])
<1>1. commands \in [Clients -> Seq(Command)]
  BY DEF IInv, TypeOK
<1>2. CASE phase[c] = "waiting"
  <2> DEFINE i == Len(commands[c])
             done == [Current(c) EXCEPT !.outcome = outcome]
             s == [commands[c] EXCEPT ![i] = done]
  <2>1. done \in Command
    BY <1>2, CurrentType DEF Command
  <2>2. i \in 1..Len(commands[c]) /\ commands[c] \in Seq(Command)
    BY <1>1, <1>2, CurrentType
  <2>3. s \in Seq(Command) /\ Len(s) = Len(commands[c])
    <3> HIDE DEF done, i
    <3> QED BY <2>1, <2>2
  <2>4. commands' = [commands EXCEPT ![c] = s]
    BY <1>2 DEF Conclude
  <2> HIDE DEF s
  <2>5. QED
    BY <1>1, <2>3, <2>4
<1>3. CASE phase[c] # "waiting"
  BY <1>1, <1>3 DEF Conclude
<1>4. QED
  BY <1>2, <1>3

-----------------------------------------------------------------------------
\* A step keeps the invariant if the book stays a book in which no client's last
\* request goes back, and every new datagram keeps what the invariant asks of it.
LEMMA ServerKeeps ==
  ASSUME IInv, ledger' \in LedgerType,
         \A c \in Clients : ledger'.lastReq[c] >= ledger.lastReq[c],
         NEW p \in DiscoveryPackets \cup AckPackets, Send(p),
         p.type = "TRANSACTION_ACK" =>
           /\ p.status # "ERROR_OUT_OF_SEQUENCE"
           /\ advances(p.status) => p.seqn <= ledger'.lastReq[p.client],
         executed' \in Seq([client : Clients, id : Nat]),
         UNCHANGED <<phase, seqn, retries, port, commands>>
  PROVE  IInv'
<1>1. net' = net \cup {p} /\ p.type # "TRANSACTION_REQ"
  BY DEF Send, DiscoveryPackets, AckPackets
<1>2. TypeOK'
  BY <1>1 DEF IInv, TypeOK
<1>3. /\ ledger.lastReq \in [Clients -> Nat] /\ ledger'.lastReq \in [Clients -> Nat]
      /\ seqn \in [Clients -> Nat]
  BY DEF IInv, TypeOK, LedgerType
<1>4. NeverAhead'
  <2>1. \A c \in Clients : seqn'[c] \in 1..ledger'.lastReq[c] + 1
    BY <1>3 DEF IInv, NeverAhead
  <2>2. ASSUME NEW m \in net', m.type = "TRANSACTION_REQ"
        PROVE  m.seqn <= ledger'.lastReq[m.client] + 1
    <3>1. m \in net
      BY <1>1, <2>2
    <3>2. m.client \in Clients /\ m.seqn \in Nat /\ m.seqn <= ledger.lastReq[m.client] + 1
      BY <2>2, <3>1, PacketTypes DEF IInv, NeverAhead
    <3>3. QED
      BY <1>3, <3>2
  <2>3. ASSUME NEW m \in net', m.type = "TRANSACTION_ACK"
        PROVE  m.status # "ERROR_OUT_OF_SEQUENCE"
    BY <1>1, <2>3 DEF IInv, NeverAhead
  <2>4. QED
    BY <2>1, <2>2, <2>3 DEF NeverAhead
<1>5. AnswersTell'
  <2> SUFFICES ASSUME NEW m \in net', m.type = "TRANSACTION_ACK", advances(m.status)
               PROVE  m.seqn <= ledger'.lastReq[m.client]
    BY DEF AnswersTell
  <2>1. CASE m \in net
    <3>1. m.client \in Clients /\ m.seqn \in Nat /\ m.seqn <= ledger.lastReq[m.client]
      BY <2>1, PacketTypes DEF IInv, AnswersTell
    <3>2. QED
      BY <1>3, <3>1
  <2>2. CASE m = p
    BY <2>2
  <2>3. QED
    BY <1>1, <2>1, <2>2
<1>6. NumbersBounded'
  <2>1. \A m \in net' : m.type = "TRANSACTION_REQ" => m.seqn \in 1..MaxSeqn
    BY <1>1 DEF IInv, NumbersBounded
  <2>2. QED
    BY <2>1 DEF IInv, NumbersBounded
<1>7. QED
  BY <1>2, <1>4, <1>5, <1>6 DEF IInv

\* What a client sends leaves the invariant as it is: the book does not change.
LEMMA ClientKeeps ==
  ASSUME IInv, ledger' = ledger, executed' = executed,
         NEW c \in Clients,
         phase' \in [Clients -> {"off", "discovering", "ready", "waiting"}],
         retries' \in [Clients -> 0..MaxRetries - 1], port' \in [Clients -> Nat],
         seqn' \in [Clients -> Nat], commands' \in [Clients -> Seq(Command)],
         \A x \in Clients \ {c} :
           phase'[x] = phase[x] /\ seqn'[x] = seqn[x] /\ Len(commands'[x]) = Len(commands[x]),
         seqn'[c] \in 1..ledger.lastReq[c] + 1,
         Len(commands'[c]) <= MaxSeqn,
         seqn'[c] <= IF phase'[c] = "waiting" THEN Len(commands'[c]) ELSE Len(commands'[c]) + 1,
         net' \in SUBSET (DiscoveryPackets \cup RequestPackets \cup AckPackets),
         \A m \in net' \ net :
           /\ m.type # "TRANSACTION_ACK"
           /\ m.type = "TRANSACTION_REQ" =>
                m.seqn <= ledger.lastReq[m.client] + 1 /\ m.seqn \in 1..MaxSeqn
  PROVE  IInv'
<1>1. TypeOK'
  BY DEF IInv, TypeOK
<1>2. NeverAhead'
  BY DEF IInv, NeverAhead
<1>3. AnswersTell'
  BY DEF IInv, AnswersTell
<1>4. NumbersBounded'
  BY DEF IInv, NumbersBounded
<1>5. QED
  BY <1>1, <1>2, <1>3, <1>4 DEF IInv

LEMMA DiscoveryServed ==
  ASSUME IInv, NEW m \in net, handleDiscoveryPacket(m)
  PROVE  IInv'
<1>1. m.client \in Clients /\ m.port \in Nat /\ ledger \in LedgerType
  BY PacketTypes DEF IInv, TypeOK
<1>2. ledger' \in LedgerType /\ ledger'.lastReq = ledger.lastReq
  BY <1>1, RegistrationEffect DEF handleDiscoveryPacket
<1>3. \A c \in Clients : ledger'.lastReq[c] >= ledger.lastReq[c]
  BY <1>1, <1>2 DEF LedgerType
<1>4. DiscoveryAck(m) \in DiscoveryPackets /\ DiscoveryAck(m).type # "TRANSACTION_ACK"
  BY <1>1 DEF DiscoveryAck, DiscoveryPackets
<1>5. executed' \in Seq([client : Clients, id : Nat])
  BY DEF handleDiscoveryPacket, IInv, TypeOK
<1>6. Send(DiscoveryAck(m)) /\ UNCHANGED <<phase, seqn, retries, port, commands>>
  BY DEF handleDiscoveryPacket
<1>7. QED
  BY <1>2, <1>3, <1>4, <1>5, <1>6, ServerKeeps

LEMMA RequestServed ==
  ASSUME IInv, NEW m \in net, handleTransactionRequest(m)
  PROVE  IInv'
<1> DEFINE r == handleTransactionLogic(ledger, m.client, m.dest, m.value, m.seqn)
<1>1. /\ m.client \in Clients /\ m.port \in Nat /\ m.id \in Nat /\ m.dest \in Clients
      /\ m.value \in Int /\ m.seqn \in Nat
      /\ ledger \in LedgerType
      /\ m.type = "TRANSACTION_REQ"
  BY PacketTypes, SessionAssumption DEF IInv, TypeOK, handleTransactionRequest
<1>2. /\ r.status \in Statuses
      /\ r.ledger \in LedgerType
      /\ r.status = "SUCCESS" =>
           /\ m.seqn = ledger.lastReq[m.client] + 1
           /\ \A c \in Clients : r.ledger.lastReq[c] = IF c = m.client THEN m.seqn
                                                       ELSE ledger.lastReq[c]
      /\ r.status # "SUCCESS" => r.ledger = ledger
      /\ r.status = "ERROR_DUPLICATE_REQUEST" => m.seqn <= ledger.lastReq[m.client]
      /\ r.status = "ERROR_OUT_OF_SEQUENCE" => m.seqn > ledger.lastReq[m.client] + 1
  <2> HIDE DEF r
  <2>1. r = handleTransactionLogic(ledger, m.client, m.dest, m.value, m.seqn)
    BY DEF r
  <2>2. QED
    BY <1>1, <2>1, StatusEffect
<1>3. /\ ledger' = r.ledger /\ Send(Ack(m, r.status))
      /\ executed' = IF r.status = "SUCCESS"
                     THEN Append(executed, [client |-> m.client, id |-> m.id]) ELSE executed
      /\ UNCHANGED <<phase, seqn, retries, port, commands>>
  BY DEF handleTransactionRequest, Serve
<1> HIDE DEF r
<1>4. /\ Ack(m, r.status) \in AckPackets
      /\ Ack(m, r.status).status = r.status /\ Ack(m, r.status).seqn = m.seqn
      /\ Ack(m, r.status).client = m.client
  BY <1>1, <1>2 DEF Ack, AckPackets
<1>5. \A c \in Clients : ledger.lastReq[c] \in Nat /\ ledger'.lastReq[c] \in Nat
  BY <1>1, <1>2, <1>3 DEF LedgerType
<1>6. \A c \in Clients : ledger'.lastReq[c] >= ledger.lastReq[c]
  BY <1>1, <1>2, <1>3, <1>5
<1>7. r.status # "ERROR_OUT_OF_SEQUENCE"
  <2>1. m.seqn <= ledger.lastReq[m.client] + 1
    BY <1>1 DEF IInv, NeverAhead
  <2>2. QED
    BY <1>1, <1>2, <1>5, <2>1
<1>8. advances(r.status) => m.seqn <= ledger'.lastReq[m.client]
  BY <1>1, <1>2, <1>3, <1>5 DEF advances
<1>9. executed' \in Seq([client : Clients, id : Nat])
  <2> DEFINE E == [client : Clients, id : Nat]
             e == [client |-> m.client, id |-> m.id]
  <2>1. executed \in Seq(E) /\ e \in E
    BY <1>1 DEF IInv, TypeOK
  <2>2. executed' = IF r.status = "SUCCESS" THEN Append(executed, e) ELSE executed
    BY <1>3
  <2> HIDE DEF E, e
  <2>3. executed' \in Seq(E)
    BY <2>1, <2>2
  <2>4. QED
    BY <2>3 DEF E
<1>10. ledger' \in LedgerType
  BY <1>2, <1>3
<1>11. QED
  BY <1>3, <1>4, <1>6, <1>7, <1>8, <1>9, <1>10, ServerKeeps

LEMMA ClientStarts ==
  ASSUME IInv, NEW c \in Clients, discoverServer(c)
  PROVE  IInv'
<1>1. /\ port' = [port EXCEPT ![c] = port[c] + 1] /\ seqn' = [seqn EXCEPT ![c] = 1]
      /\ phase' = [phase EXCEPT ![c] = "discovering"]
      /\ Conclude(c, "ABANDONED") /\ net' = net \cup {Discovery(c, port[c] + 1)}
      /\ UNCHANGED <<ledger, retries, executed>>
  BY DEF discoverServer, Send
<1>2. /\ commands' \in [Clients -> Seq(Command)]
      /\ \A x \in Clients : Len(commands'[x]) = Len(commands[x])
  BY <1>1, ConcludeType DEF Outcomes
<1>3. /\ phase' \in [Clients -> {"off", "discovering", "ready", "waiting"}]
      /\ retries' \in [Clients -> 0..MaxRetries - 1] /\ port' \in [Clients -> Nat]
      /\ seqn' \in [Clients -> Nat]
      /\ Discovery(c, port[c] + 1) \in DiscoveryPackets
  BY <1>1 DEF IInv, TypeOK, Discovery, DiscoveryPackets
<1>4. /\ ledger.lastReq[c] \in Nat /\ Len(commands[c]) \in Nat /\ Len(commands[c]) <= MaxSeqn
      /\ seqn'[c] = 1 /\ phase'[c] = "discovering"
      /\ \A x \in Clients \ {c} : phase'[x] = phase[x] /\ seqn'[x] = seqn[x]
  BY <1>1 DEF IInv, TypeOK, LedgerType, NumbersBounded
<1>5. net' \in SUBSET (DiscoveryPackets \cup RequestPackets \cup AckPackets)
  BY <1>1, <1>3 DEF IInv, TypeOK
<1>6. \A m \in net' \ net : m.type # "TRANSACTION_ACK" /\ m.type # "TRANSACTION_REQ"
  BY <1>1 DEF Discovery
<1>7. /\ seqn'[c] \in 1..ledger.lastReq[c] + 1 /\ Len(commands'[c]) <= MaxSeqn
      /\ seqn'[c] <= IF phase'[c] = "waiting" THEN Len(commands'[c]) ELSE Len(commands'[c]) + 1
      /\ \A x \in Clients \ {c} :
           phase'[x] = phase[x] /\ seqn'[x] = seqn[x] /\ Len(commands'[x]) = Len(commands[x])
  BY <1>2, <1>4
<1>8. ledger' = ledger /\ executed' = executed
  BY <1>1
<1>9. QED
  BY <1>2, <1>3, <1>5, <1>6, <1>7, <1>8, ClientKeeps

LEMMA ClientConnects ==
  ASSUME IInv, NEW c \in Clients, receiveDiscoveryAck(c)
  PROVE  IInv'
<1>1. /\ phase[c] = "discovering" /\ phase' = [phase EXCEPT ![c] = "ready"]
      /\ UNCHANGED <<ledger, seqn, retries, port, net, commands, executed>>
  BY DEF receiveDiscoveryAck
<1>2. /\ TypeOK' /\ NeverAhead' /\ AnswersTell'
  BY <1>1 DEF IInv, TypeOK, NeverAhead, AnswersTell
<1>3. NumbersBounded'
  BY <1>1 DEF IInv, TypeOK, NumbersBounded
<1>4. QED
  BY <1>2, <1>3 DEF IInv

LEMMA CommandIssued ==
  ASSUME IInv, NEW c \in Clients, NEW d \in Clients, NEW v \in Values,
         executeRequestWithRetries(c, d, v)
  PROVE  IInv'
<1> DEFINE new == [dest |-> d, value |-> v, seqn |-> seqn[c], port |-> port[c],
                   outcome |-> "PENDING"]
           s == Append(commands[c], new)
           p == Request(c, Len(commands[c]) + 1, d, v)
<1>1. /\ phase[c] = "ready" /\ Len(commands[c]) < MaxCommands[c]
      /\ commands' = [commands EXCEPT ![c] = s]
      /\ retries' = [retries EXCEPT ![c] = 0]
      /\ phase' = [phase EXCEPT ![c] = "waiting"]
      /\ net' = net \cup {p}
      /\ UNCHANGED <<ledger, seqn, port, executed>>
  BY DEF executeRequestWithRetries, Send
<1>2. /\ commands \in [Clients -> Seq(Command)] /\ seqn[c] \in Nat /\ port[c] \in Nat
      /\ Len(commands[c]) \in Nat /\ ledger.lastReq[c] \in Nat
  BY DEF IInv, TypeOK, LedgerType
<1>3. new \in Command /\ p \in RequestPackets /\ p.client = c /\ p.seqn = seqn[c]
      /\ p.type = "TRANSACTION_REQ"
  BY <1>2 DEF Command, Outcomes, Request, RequestPackets
<1>4. s \in Seq(Command) /\ Len(s) = Len(commands[c]) + 1
  <2> HIDE DEF new
  <2> QED BY <1>2, <1>3
<1> HIDE DEF new, s, p
<1>5. /\ commands' \in [Clients -> Seq(Command)] /\ commands'[c] = s
      /\ \A x \in Clients \ {c} : commands'[x] = commands[x]
  BY <1>1, <1>2, <1>4
<1>6. /\ phase' \in [Clients -> {"off", "discovering", "ready", "waiting"}]
      /\ retries' \in [Clients -> 0..MaxRetries - 1] /\ phase'[c] = "waiting"
      /\ \A x \in Clients \ {c} : phase'[x] = phase[x]
  BY <1>1, SessionAssumption DEF IInv, TypeOK
<1>7. Len(commands[c]) + 1 <= MaxSeqn
  BY <1>1, <1>2, SessionAssumption
<1>8. seqn[c] \in 1..ledger.lastReq[c] + 1 /\ seqn[c] <= Len(commands[c]) + 1
  BY <1>1 DEF IInv, NeverAhead, NumbersBounded
<1>9. seqn[c] \in 1..MaxSeqn
  BY <1>2, <1>7, <1>8, SessionAssumption
<1>10. net' \in SUBSET (DiscoveryPackets \cup RequestPackets \cup AckPackets)
  BY <1>1, <1>3 DEF IInv, TypeOK
<1>11. \A m \in net' \ net : m = p
  BY <1>1
<1>12. seqn' \in [Clients -> Nat] /\ port' \in [Clients -> Nat]
  BY <1>1 DEF IInv, TypeOK
<1>13. \A m \in net' \ net :
         /\ m.type # "TRANSACTION_ACK"
         /\ m.type = "TRANSACTION_REQ" =>
              m.seqn <= ledger.lastReq[m.client] + 1 /\ m.seqn \in 1..MaxSeqn
  BY <1>2, <1>3, <1>8, <1>9, <1>11
<1>14. /\ seqn'[c] \in 1..ledger.lastReq[c] + 1
       /\ Len(commands'[c]) <= MaxSeqn /\ seqn'[c] <= Len(commands'[c])
       /\ \A x \in Clients \ {c} :
            phase'[x] = phase[x] /\ seqn'[x] = seqn[x] /\ Len(commands'[x]) = Len(commands[x])
  BY <1>1, <1>4, <1>5, <1>6, <1>7, <1>8
<1>15. QED
  BY <1>1, <1>5, <1>6, <1>10, <1>12, <1>13, <1>14, ClientKeeps

LEMMA CommandRetried ==
  ASSUME IInv, NEW c \in Clients, retry(c)
  PROVE  IInv'
<1>1. phase[c] = "waiting" /\ UNCHANGED <<ledger, seqn, port, executed>>
  BY DEF retry
<1>2. CASE retries[c] + 1 < MaxRetries
  <2> DEFINE p == Request(c, Len(commands[c]), Current(c).dest, Current(c).value)
  <2>1. /\ retries' = [retries EXCEPT ![c] = retries[c] + 1] /\ net' = net \cup {p}
        /\ UNCHANGED <<phase, commands>>
    BY <1>2 DEF retry, Resend, Send
  <2>2. /\ retries' \in [Clients -> 0..MaxRetries - 1]
    BY <1>2, <2>1, SessionAssumption DEF IInv, TypeOK
  <2>3. /\ Current(c).dest \in Clients /\ Current(c).value \in Values
        /\ Len(commands[c]) \in Nat /\ seqn[c] \in 1..MaxSeqn
    <3>1. Current(c) \in Command /\ Len(commands[c]) \in 1..MaxSeqn /\ seqn[c] \in 1..MaxSeqn
      BY <1>1, CurrentType
    <3>2. QED
      BY <3>1 DEF Command
  <2>4. /\ p \in RequestPackets /\ p.client = c /\ p.seqn = seqn[c]
        /\ p.type = "TRANSACTION_REQ"
    BY <2>3 DEF Request, RequestPackets, IInv, TypeOK
  <2>5. seqn[c] <= ledger.lastReq[c] + 1
    BY DEF IInv, NeverAhead
  <2> HIDE DEF p
  <2>6. net' \in SUBSET (DiscoveryPackets \cup RequestPackets \cup AckPackets)
    BY <2>1, <2>4 DEF IInv, TypeOK
  <2>7. TypeOK'
    BY <1>1, <2>1, <2>2, <2>6 DEF IInv, TypeOK
  <2>8. NeverAhead'
    BY <1>1, <2>1, <2>4, <2>5 DEF IInv, NeverAhead
  <2>9. AnswersTell' /\ NumbersBounded'
    BY <1>1, <2>1, <2>3, <2>4 DEF IInv, AnswersTell, NumbersBounded
  <2>10. QED
    BY <2>7, <2>8, <2>9 DEF IInv
<1>3. CASE ~(retries[c] + 1 < MaxRetries)
  <2>1. /\ retries' = [retries EXCEPT ![c] = 0] /\ phase' = [phase EXCEPT ![c] = "ready"]
        /\ Conclude(c, "NO_RESPONSE") /\ UNCHANGED net
    BY <1>3 DEF retry
  <2>2. /\ commands' \in [Clients -> Seq(Command)]
        /\ \A x \in Clients : Len(commands'[x]) = Len(commands[x])
    BY <2>1, ConcludeType DEF Outcomes
  <2>3. TypeOK'
    <3>1. retries' \in [Clients -> 0..MaxRetries - 1]
      BY <2>1, SessionAssumption DEF IInv, TypeOK
    <3>2. phase' \in [Clients -> {"off", "discovering", "ready", "waiting"}]
      BY <2>1 DEF IInv, TypeOK
    <3>3. QED
      BY <1>1, <2>1, <2>2, <3>1, <3>2 DEF IInv, TypeOK
  <2>4. NeverAhead' /\ AnswersTell'
    BY <1>1, <2>1 DEF IInv, NeverAhead, AnswersTell
  <2>5. NumbersBounded'
    BY <1>1, <2>1, <2>2 DEF IInv, TypeOK, NumbersBounded
  <2>6. QED
    BY <2>3, <2>4, <2>5 DEF IInv
<1>4. QED
  BY <1>2, <1>3

LEMMA AnswerTaken ==
  ASSUME IInv, NEW c \in Clients, NEW m \in net, receiveResponse(c, m)
  PROVE  IInv'
<1>1. /\ phase[c] = "waiting" /\ phase' = [phase EXCEPT ![c] = "ready"]
      /\ m.type = "TRANSACTION_ACK" /\ m.client = c /\ m.seqn = seqn[c]
      /\ seqn' = IF advances(m.status) THEN [seqn EXCEPT ![c] = seqn[c] + 1] ELSE seqn
      /\ retries' = [retries EXCEPT ![c] = 0]
      /\ Conclude(c, m.status)
      /\ UNCHANGED <<ledger, port, net, executed>>
  BY DEF receiveResponse, answers
<1>2. m.status \in Outcomes
  BY <1>1, PacketTypes DEF IInv, Outcomes
<1>3. /\ commands' \in [Clients -> Seq(Command)]
      /\ \A x \in Clients : Len(commands'[x]) = Len(commands[x])
  BY <1>1, <1>2, ConcludeType
<1>4. TypeOK'
  <2>1. retries' \in [Clients -> 0..MaxRetries - 1]
    BY <1>1, SessionAssumption DEF IInv, TypeOK
  <2>2. phase' \in [Clients -> {"off", "discovering", "ready", "waiting"}]
    BY <1>1 DEF IInv, TypeOK
  <2>3. seqn' \in [Clients -> Nat]
    BY <1>1 DEF IInv, TypeOK
  <2>4. QED
    BY <1>1, <1>3, <2>1, <2>2, <2>3 DEF IInv, TypeOK
<1>5. /\ seqn \in [Clients -> Nat] /\ ledger.lastReq[c] \in Nat
      /\ seqn[c] \in 1..ledger.lastReq[c] + 1
      /\ advances(m.status) => seqn[c] <= ledger.lastReq[c]
  BY <1>1 DEF IInv, TypeOK, LedgerType, NeverAhead, AnswersTell
<1>6. NeverAhead'
  <2>1. \A x \in Clients : seqn'[x] \in 1..ledger.lastReq[x] + 1
    BY <1>1, <1>5 DEF IInv, NeverAhead
  <2>2. QED
    BY <1>1, <2>1 DEF IInv, NeverAhead
<1>7. AnswersTell'
  BY <1>1 DEF IInv, AnswersTell
<1>8. NumbersBounded'
  BY <1>1, <1>3, <1>5 DEF IInv, TypeOK, NumbersBounded
<1>9. QED
  BY <1>4, <1>6, <1>7, <1>8 DEF IInv

-----------------------------------------------------------------------------
LEMMA SessionInit == Init => IInv
<1> SUFFICES ASSUME Init
             PROVE  IInv
  OBVIOUS
<1>1. TypeOK
  BY EmptyLedgerType, SessionAssumption DEF Init, TypeOK
<1>2. \A c \in Clients : seqn[c] = 1 /\ ledger.lastReq[c] = 0 /\ Len(commands[c]) = 0
  BY DEF Init, EmptyLedger
<1>3. QED
  BY <1>1, <1>2, SessionAssumption
     DEF Init, IInv, NeverAhead, AnswersTell, NumbersBounded

LEMMA SessionStep == IInv /\ [Next]_vars => IInv'
<1> SUFFICES ASSUME IInv, [Next]_vars
             PROVE  IInv'
  OBVIOUS
<1>1. CASE UNCHANGED vars
  BY <1>1 DEF vars, IInv, TypeOK, NeverAhead, AnswersTell, NumbersBounded
<1>2. CASE Next
  BY <1>2, DiscoveryServed, RequestServed, ClientStarts, ClientConnects, CommandIssued,
     CommandRetried, AnswerTaken DEF Next, ClientStep
<1>3. QED
  BY <1>1, <1>2

LEMMA AlwaysIInv == Spec => []IInv
BY SessionInit, SessionStep, PTL DEF Spec

\* Whatever is lost, copied, delayed or restarted, for any number of clients and
\* commands: no request is ahead of the server, so a lone primary never answers
\* that one is out of sequence.
THEOREM ClientsNeverAhead == Spec => []NeverAhead
<1>1. IInv => NeverAhead
  BY DEF IInv
<1>2. QED
  BY <1>1, AlwaysIInv, PTL

\* The ledger operations of the instance of Bank are those of this module.
LEMMA SameOperations ==
  /\ \A L, c : B!wasClientAdded(L, c) = wasClientAdded(L, c)
  /\ \A L, s, d, v, n :
       B!handleTransactionLogic(L, s, d, v, n) = handleTransactionLogic(L, s, d, v, n)
<1>1. \A L, c : B!wasClientAdded(L, c) = wasClientAdded(L, c)
  BY DEF wasClientAdded, findClient, B!wasClientAdded, B!findClient
<1>2. \A L, s, d, v, n : B!validateTransaction(L, s, d, v, n) = validateTransaction(L, s, d, v, n)
  BY DEF validateTransaction, findClient, B!validateTransaction, B!findClient
<1>3. \A L, s, d, v, n : B!executeTransaction(L, s, d, v, n) = executeTransaction(L, s, d, v, n)
  BY DEF executeTransaction, setBalance, B!executeTransaction, B!setBalance
<1>4. \A L, s, d, v, n :
        B!updateAndLogTransaction(L, s, d, v, n) = updateAndLogTransaction(L, s, d, v, n)
  BY DEF updateAndLogTransaction, newTransaction, B!updateAndLogTransaction, B!newTransaction
<1>5. \A L, s, d, v, n :
        B!handleTransactionLogic(L, s, d, v, n) = handleTransactionLogic(L, s, d, v, n)
  BY <1>2, <1>3, <1>4 DEF handleTransactionLogic, B!handleTransactionLogic
<1>6. QED
  BY <1>1, <1>5

\* A session's server takes only the steps of module Bank, so what BankProofs
\* shows of any order of requests (the history without gaps, the solvency) holds
\* of every session.
THEOREM SessionImplementsBank == Spec => BankSpec
<1>1. Init => B!Init
  BY DEF Init, EmptyLedger, B!Init, B!EmptyLedger
<1>2. IInv /\ [Next]_vars => [B!Next]_ledger
  <2> SUFFICES ASSUME IInv, [Next]_vars
               PROVE  [B!Next]_ledger
    OBVIOUS
  <2>1. ASSUME NEW m \in net, handleDiscoveryPacket(m)
        PROVE  B!Next
    <3>1. m.client \in Clients /\ B!addClient(m.client)
      BY <2>1, PacketTypes, SameOperations DEF IInv, handleDiscoveryPacket, B!addClient
    <3>2. QED
      BY <3>1 DEF B!Next
  <2>2. ASSUME NEW m \in net, handleTransactionRequest(m)
        PROVE  B!Next
    <3>1. /\ m.client \in Clients /\ m.dest \in Clients /\ m.value \in Values
          /\ m.seqn \in 1..MaxSeqn
      BY <2>2, PacketTypes DEF IInv, NumbersBounded, handleTransactionRequest
    <3>2. B!processTransaction(m.client, m.dest, m.value, m.seqn)
      BY <2>2, SameOperations DEF handleTransactionRequest, Serve, B!processTransaction
    <3>3. QED
      BY <3>1, <3>2 DEF B!Next
  <2>3. CASE UNCHANGED ledger
    BY <2>3
  <2>4. QED
    BY <2>1, <2>2, <2>3
       DEF Next, ClientStep, discoverServer, receiveDiscoveryAck, executeRequestWithRetries,
           retry, receiveResponse, vars
<1>3. QED
  BY <1>1, <1>2, AlwaysIInv, PTL DEF Spec, BankSpec, B!Spec

-----------------------------------------------------------------------------
(* Commands without an outcome.                                            *)

\* Only the command in progress is pending.
OnlyLastPending ==
  \A c \in Clients : \A i \in DOMAIN commands[c] :
    commands[c][i].outcome = "PENDING" => phase[c] = "waiting" /\ i = Len(commands[c])

\* A command that is concluded leaves none that is pending.
LEMMA ConcludedPending ==
  ASSUME IInv, OnlyLastPending, NEW c \in Clients,
         NEW outcome \in Outcomes \ {"PENDING"}, Conclude(c, outcome)
  PROVE  /\ \A i \in DOMAIN commands'[c] : commands'[c][i].outcome # "PENDING"
         /\ \A x \in Clients \ {c} : commands'[x] = commands[x]
<1>1. commands \in [Clients -> Seq(Command)]
  BY DEF IInv, TypeOK
<1>2. CASE phase[c] = "waiting"
  <2> DEFINE n == Len(commands[c])
             done == [Current(c) EXCEPT !.outcome = outcome]
             s == [commands[c] EXCEPT ![n] = done]
  <2>1. done.outcome = outcome
    BY <1>2, CurrentType DEF Command
  <2>2. commands' = [commands EXCEPT ![c] = s]
    BY <1>2 DEF Conclude
  <2>3. DOMAIN s = DOMAIN commands[c]
    OBVIOUS
  <2>4. ASSUME NEW i \in DOMAIN s
        PROVE  s[i].outcome # "PENDING"
    <3>1. CASE i = n
      <4>1. s[i] = done
        BY <2>3, <3>1
      <4> HIDE DEF done, s
      <4>2. QED
        BY <2>1, <4>1
    <3>2. CASE i # n
      <4>1. s[i] = commands[c][i]
        BY <2>3, <3>2
      <4> HIDE DEF s
      <4>2. QED
        BY <2>3, <3>2, <4>1 DEF OnlyLastPending
    <3>3. QED
      BY <3>1, <3>2
  <2> HIDE DEF s
  <2>5. commands'[c] = s /\ \A x \in Clients \ {c} : commands'[x] = commands[x]
    BY <1>1, <2>2
  <2>6. QED
    BY <2>4, <2>5
<1>3. CASE phase[c] # "waiting"
  BY <1>3 DEF Conclude, OnlyLastPending
<1>4. QED
  BY <1>2, <1>3

LEMMA OnlyLastPendingStep == IInv /\ OnlyLastPending /\ [Next]_vars => OnlyLastPending'
<1> SUFFICES ASSUME IInv, OnlyLastPending, [Next]_vars PROVE OnlyLastPending'
  OBVIOUS
<1>0. /\ phase \in [Clients -> {"off", "discovering", "ready", "waiting"}]
      /\ commands \in [Clients -> Seq(Command)]
  BY DEF IInv, TypeOK
<1>1. ASSUME UNCHANGED <<phase, commands>>
      PROVE  OnlyLastPending'
  BY <1>1 DEF OnlyLastPending
<1>2. ASSUME NEW c \in Clients, NEW where \in {"discovering", "ready"},
             NEW outcome \in Outcomes \ {"PENDING"}, Conclude(c, outcome),
             phase' = [phase EXCEPT ![c] = where]
      PROVE  OnlyLastPending'
  <2>1. /\ \A i \in DOMAIN commands'[c] : commands'[c][i].outcome # "PENDING"
        /\ \A x \in Clients \ {c} : commands'[x] = commands[x] /\ phase'[x] = phase[x]
    BY <1>0, <1>2, ConcludedPending
  <2>2. QED
    BY <2>1 DEF OnlyLastPending
<1>3. ASSUME NEW c \in Clients, discoverServer(c)
      PROVE  OnlyLastPending'
  BY <1>2, <1>3 DEF discoverServer, Outcomes
<1>4. ASSUME NEW c \in Clients, receiveDiscoveryAck(c)
      PROVE  OnlyLastPending'
  BY <1>0, <1>4 DEF receiveDiscoveryAck, OnlyLastPending
<1>5. ASSUME NEW c \in Clients, NEW d \in Clients, NEW v \in Values,
             executeRequestWithRetries(c, d, v)
      PROVE  OnlyLastPending'
  <2> DEFINE new == [dest |-> d, value |-> v, seqn |-> seqn[c], port |-> port[c],
                     outcome |-> "PENDING"]
             s == Append(commands[c], new)
  <2>1. /\ phase[c] = "ready" /\ commands' = [commands EXCEPT ![c] = s]
        /\ phase' = [phase EXCEPT ![c] = "waiting"]
    BY <1>5 DEF executeRequestWithRetries
  <2>2. /\ commands[c] \in Seq(Command) /\ Len(s) = Len(commands[c]) + 1
        /\ DOMAIN s = 1..Len(commands[c]) + 1 /\ DOMAIN commands[c] = 1..Len(commands[c])
        /\ Len(commands[c]) \in Nat
        /\ \A i \in 1..Len(commands[c]) : s[i] = commands[c][i]
    BY <1>0
  <2> HIDE DEF s
  <2>3. \A i \in 1..Len(commands[c]) : s[i].outcome # "PENDING"
    BY <2>1, <2>2 DEF OnlyLastPending
  <2>4. /\ commands'[c] = s /\ phase'[c] = "waiting"
        /\ \A x \in Clients \ {c} : commands'[x] = commands[x] /\ phase'[x] = phase[x]
    BY <1>0, <2>1
  <2>5. \A i \in DOMAIN s : s[i].outcome = "PENDING" => i = Len(s)
    BY <2>2, <2>3
  <2>6. QED
    BY <2>4, <2>5 DEF OnlyLastPending
<1>6. ASSUME NEW c \in Clients, retry(c)
      PROVE  OnlyLastPending'
  <2>1. CASE retries[c] + 1 < MaxRetries
    BY <1>1, <1>6, <2>1 DEF retry
  <2>2. CASE ~(retries[c] + 1 < MaxRetries)
    BY <1>2, <1>6, <2>2 DEF retry, Outcomes
  <2>3. QED
    BY <2>1, <2>2
<1>7. ASSUME NEW c \in Clients, NEW m \in net, receiveResponse(c, m)
      PROVE  OnlyLastPending'
  <2>1. m.status \in Outcomes \ {"PENDING"}
    BY <1>7, PacketTypes DEF IInv, receiveResponse, answers, Outcomes, Statuses
  <2>2. QED
    BY <1>2, <1>7, <2>1 DEF receiveResponse
<1>8. ASSUME NEW m \in net, handleDiscoveryPacket(m) \/ handleTransactionRequest(m)
      PROVE  OnlyLastPending'
  BY <1>1, <1>8 DEF handleDiscoveryPacket, handleTransactionRequest, Serve
<1>9. CASE UNCHANGED vars
  BY <1>1, <1>9 DEF vars
<1>10. QED
  BY <1>3, <1>4, <1>5, <1>6, <1>7, <1>8, <1>9 DEF Next, ClientStep

LEMMA AlwaysOnlyLastPending == Spec => []OnlyLastPending
<1>1. Init => OnlyLastPending
  BY DEF Init, OnlyLastPending
<1>2. QED
  BY <1>1, OnlyLastPendingStep, AlwaysIInv, PTL DEF Spec

-----------------------------------------------------------------------------
(* What the users are told.                                                *)

\* Process p of client c gave the number n to a command that was executed.
ExecutedAs(c, p, n) ==
  \E j \in DOMAIN commands[c] :
    IsExecuted(c, j) /\ commands[c][j].port = p /\ commands[c][j].seqn = n

\* Every command has the port of a process that was started, the one in progress that of
\* the process that runs, and its number.
CommandsOfProcesses ==
  \A c \in Clients :
    /\ phase[c] # "off" => port[c] >= 1
    /\ \A i \in DOMAIN commands[c] : commands[c][i].port \in 1..port[c]
    /\ phase[c] = "waiting" => Current(c).port = port[c] /\ Current(c).seqn = seqn[c]

\* A request bears what its command says, with the command's port and number.
RequestsOfCommands ==
  \A m \in net : m.type = "TRANSACTION_REQ" =>
    /\ m.id \in DOMAIN commands[m.client]
    /\ commands[m.client][m.id].port = m.port /\ commands[m.client][m.id].seqn = m.seqn
    /\ commands[m.client][m.id].dest = m.dest /\ commands[m.client][m.id].value = m.value

\* What an answer says was so.  While the first process of a client runs, all its numbers
\* that the server executed were that process's.
AnswersTruthful ==
  /\ \A c \in Clients : port[c] <= 1 =>
       \A n \in 1..ledger.lastReq[c] : ExecutedAs(c, 1, n)
  /\ \A m \in net : m.type = "TRANSACTION_ACK" =>
       /\ m.status = "SUCCESS" => ExecutedAs(m.client, m.port, m.seqn)
       /\ m.status = "ERROR_DUPLICATE_REQUEST" /\ m.port = 1 /\ port[m.client] <= 1
            => ExecutedAs(m.client, 1, m.seqn)

\* A command that was said to be done, or done before, was done by then for one of its
\* number: itself or an earlier one.
Told(c, i) ==
  \/ commands[c][i].outcome = "SUCCESS"
  \/ commands[c][i].outcome = "ERROR_DUPLICATE_REQUEST" /\ commands[c][i].port = 1

OutcomesTruthful ==
  \A c \in Clients : \A i \in DOMAIN commands[c] : Told(c, i) =>
    \E j \in 1..i : /\ IsExecuted(c, j)
                    /\ commands[c][j].port = commands[c][i].port
                    /\ commands[c][j].seqn = commands[c][i].seqn

\* No command has a number beyond the next, and once one was executed it and all before it
\* have numbers the server is through with: what is executed after it was issued after it.
CommandsInOrder ==
  \A c \in Clients :
    /\ \A i \in DOMAIN commands[c] : commands[c][i].seqn <= ledger.lastReq[c] + 1
    /\ \A k \in DOMAIN executed : executed[k].client = c =>
         /\ executed[k].id \in DOMAIN commands[c]
         /\ \A i \in 1..executed[k].id : commands[c][i].seqn <= ledger.lastReq[c]

Truth ==
  /\ CommandsOfProcesses /\ RequestsOfCommands
  /\ AnswersTruthful /\ OutcomesTruthful
  /\ CommandsInOrder

\* Commands are not taken back and keep all but their outcome, what was executed stays so.
Stay ==
  \A c \in Clients :
    /\ DOMAIN commands[c] \subseteq DOMAIN commands'[c]
    /\ \A i \in DOMAIN commands[c] :
         /\ commands'[c][i].port = commands[c][i].port /\ commands'[c][i].seqn = commands[c][i].seqn
         /\ commands'[c][i].dest = commands[c][i].dest /\ commands'[c][i].value = commands[c][i].value
    /\ \A i \in DOMAIN commands[c] : IsExecuted(c, i) => IsExecuted(c, i)'

LEMMA ExecutedAsStays ==
  ASSUME Stay, NEW c \in Clients, NEW p, NEW n, ExecutedAs(c, p, n)
  PROVE  ExecutedAs(c, p, n)'
<1>1. PICK j \in DOMAIN commands[c] :
        IsExecuted(c, j) /\ commands[c][j].port = p /\ commands[c][j].seqn = n
  BY DEF ExecutedAs
<1>2. /\ j \in DOMAIN commands'[c] /\ IsExecuted(c, j)'
      /\ commands'[c][j].port = p /\ commands'[c][j].seqn = n
  BY <1>1 DEF Stay
<1>3. QED
  BY <1>2 DEF ExecutedAs

\* Steps that execute nothing and send no answer.
LEMMA AnswersKept ==
  ASSUME IInv, Stay, AnswersTruthful, UNCHANGED ledger.lastReq,
         \A c \in Clients : port'[c] <= 1 => port[c] <= 1,
         \A m \in net' \ net : m.type # "TRANSACTION_ACK"
  PROVE  AnswersTruthful'
<1>1. ASSUME NEW c \in Clients, port'[c] <= 1, NEW n \in 1..ledger.lastReq[c]
      PROVE  ExecutedAs(c, 1, n)'
  BY <1>1, ExecutedAsStays DEF AnswersTruthful
<1>2. ASSUME NEW m \in net', m.type = "TRANSACTION_ACK"
      PROVE  /\ m.status = "SUCCESS" => ExecutedAs(m.client, m.port, m.seqn)'
             /\ m.status = "ERROR_DUPLICATE_REQUEST" /\ m.port = 1 /\ port'[m.client] <= 1
                  => ExecutedAs(m.client, 1, m.seqn)'
  <2>1. m \in net /\ m.client \in Clients
    BY <1>2, PacketTypes DEF IInv
  <2>2. m.status = "SUCCESS" => ExecutedAs(m.client, m.port, m.seqn)'
    BY <1>2, <2>1, ExecutedAsStays DEF AnswersTruthful
  <2>3. ASSUME m.status = "ERROR_DUPLICATE_REQUEST", m.port = 1, port'[m.client] <= 1
        PROVE  ExecutedAs(m.client, 1, m.seqn)'
    <3>1. ExecutedAs(m.client, 1, m.seqn)
      BY <1>2, <2>1, <2>3 DEF AnswersTruthful
    <3>2. QED
      BY <2>1, <3>1, ExecutedAsStays
  <2>4. QED
    BY <2>2, <2>3
<1>3. QED
  BY <1>1, <1>2 DEF AnswersTruthful

LEMMA RequestsKept ==
  ASSUME IInv, Stay, RequestsOfCommands,
         \A m \in net' \ net : m.type = "TRANSACTION_REQ" =>
           /\ m.id \in DOMAIN commands'[m.client]
           /\ commands'[m.client][m.id].port = m.port /\ commands'[m.client][m.id].seqn = m.seqn
           /\ commands'[m.client][m.id].dest = m.dest /\ commands'[m.client][m.id].value = m.value
  PROVE  RequestsOfCommands'
<1> SUFFICES ASSUME NEW m \in net', m.type = "TRANSACTION_REQ"
             PROVE  /\ m.id \in DOMAIN commands'[m.client]
                    /\ commands'[m.client][m.id].port = m.port
                    /\ commands'[m.client][m.id].seqn = m.seqn
                    /\ commands'[m.client][m.id].dest = m.dest
                    /\ commands'[m.client][m.id].value = m.value
  BY DEF RequestsOfCommands
<1>1. CASE m \in net
  <2>1. m.client \in Clients
    BY <1>1, PacketTypes DEF IInv
  <2>2. QED
    BY <1>1, <2>1 DEF RequestsOfCommands, Stay
<1>2. QED
  BY <1>1

LEMMA OutcomesKept ==
  ASSUME IInv, Stay, OutcomesTruthful,
         \A c \in Clients : \A i \in DOMAIN commands'[c] : Told(c, i)' =>
           \/ i \in DOMAIN commands[c] /\ Told(c, i)
           \/ \E j \in 1..i : /\ IsExecuted(c, j)'
                              /\ commands'[c][j].port = commands'[c][i].port
                              /\ commands'[c][j].seqn = commands'[c][i].seqn
  PROVE  OutcomesTruthful'
<1> SUFFICES ASSUME NEW c \in Clients, NEW i \in DOMAIN commands[c], Told(c, i)
             PROVE  \E j \in 1..i : /\ IsExecuted(c, j)'
                                    /\ commands'[c][j].port = commands'[c][i].port
                                    /\ commands'[c][j].seqn = commands'[c][i].seqn
  BY DEF OutcomesTruthful
<1>1. PICK j \in 1..i : /\ IsExecuted(c, j)
                        /\ commands[c][j].port = commands[c][i].port
                        /\ commands[c][j].seqn = commands[c][i].seqn
  BY DEF OutcomesTruthful
<1>2. commands[c] \in Seq(Command)
  BY DEF IInv, TypeOK
<1>3. j \in DOMAIN commands[c]
  BY <1>2
<1>4. QED
  BY <1>1, <1>3 DEF Stay

LEMMA OrderKept ==
  ASSUME IInv, Stay, CommandsInOrder, UNCHANGED <<executed, ledger.lastReq>>,
         \A c \in Clients : \A i \in DOMAIN commands'[c] \ DOMAIN commands[c] :
           commands'[c][i].seqn <= ledger.lastReq[c] + 1
  PROVE  CommandsInOrder'
<1> SUFFICES ASSUME NEW c \in Clients
             PROVE  /\ \A i \in DOMAIN commands'[c] : commands'[c][i].seqn <= ledger.lastReq[c] + 1
                    /\ \A k \in DOMAIN executed : executed[k].client = c =>
                         /\ executed[k].id \in DOMAIN commands'[c]
                         /\ \A i \in 1..executed[k].id :
                              commands'[c][i].seqn <= ledger.lastReq[c]
  BY DEF CommandsInOrder
<1>1. \A i \in DOMAIN commands'[c] : commands'[c][i].seqn <= ledger.lastReq[c] + 1
  BY DEF CommandsInOrder, Stay
<1>2. ASSUME NEW k \in DOMAIN executed, executed[k].client = c
      PROVE  /\ executed[k].id \in DOMAIN commands'[c]
             /\ \A i \in 1..executed[k].id : commands'[c][i].seqn <= ledger.lastReq[c]
  <2>1. /\ executed[k].id \in DOMAIN commands[c]
        /\ \A i \in 1..executed[k].id : commands[c][i].seqn <= ledger.lastReq[c]
    BY <1>2 DEF CommandsInOrder
  <2>2. commands[c] \in Seq(Command)
    BY DEF IInv, TypeOK
  <2>3. \A i \in 1..executed[k].id : i \in DOMAIN commands[c]
    BY <2>1, <2>2
  <2>4. QED
    BY <2>1, <2>3 DEF Stay
<1>3. QED
  BY <1>1, <1>2

\* Concluding a command gives it its outcome and leaves all else.
LEMMA ConcludedCommand ==
  ASSUME IInv, NEW c \in Clients, NEW outcome \in Outcomes, Conclude(c, outcome)
  PROVE  /\ \A x \in Clients : DOMAIN commands'[x] = DOMAIN commands[x]
         /\ \A x \in Clients : \A i \in DOMAIN commands[x] :
              /\ commands'[x][i].port = commands[x][i].port
              /\ commands'[x][i].seqn = commands[x][i].seqn
              /\ commands'[x][i].dest = commands[x][i].dest
              /\ commands'[x][i].value = commands[x][i].value
              /\ \/ commands'[x][i] = commands[x][i]
                 \/ /\ phase[c] = "waiting" /\ x = c /\ i = Len(commands[c])
                    /\ commands'[x][i].outcome = outcome
<1>1. commands \in [Clients -> Seq(Command)]
  BY DEF IInv, TypeOK
<1>2. CASE phase[c] = "waiting"
  <2> DEFINE n == Len(commands[c])
             done == [Current(c) EXCEPT !.outcome = outcome]
             s == [commands[c] EXCEPT ![n] = done]
  <2>1. /\ done.outcome = outcome /\ done.port = Current(c).port /\ done.seqn = Current(c).seqn
        /\ done.dest = Current(c).dest /\ done.value = Current(c).value
    BY <1>2, CurrentType DEF Command
  <2>2. commands' = [commands EXCEPT ![c] = s]
    BY <1>2 DEF Conclude
  <2>3. DOMAIN s = DOMAIN commands[c]
    OBVIOUS
  <2>4. ASSUME NEW i \in DOMAIN commands[c]
        PROVE  /\ s[i].port = commands[c][i].port /\ s[i].seqn = commands[c][i].seqn
               /\ s[i].dest = commands[c][i].dest /\ s[i].value = commands[c][i].value
               /\ s[i] = commands[c][i] \/ (i = n /\ s[i].outcome = outcome)
    <3>1. CASE i = n
      <4>1. s[i] = done /\ Current(c) = commands[c][i]
        BY <3>1 DEF Current
      <4> HIDE DEF done, s
      <4>2. QED
        BY <2>1, <3>1, <4>1
    <3>2. CASE i # n
      <4>1. s[i] = commands[c][i]
        BY <3>2
      <4> HIDE DEF s
      <4>2. QED
        BY <4>1
    <3>3. QED
      BY <3>1, <3>2
  <2> HIDE DEF s
  <2>5. commands'[c] = s /\ \A x \in Clients \ {c} : commands'[x] = commands[x]
    BY <1>1, <2>2
  <2>6. QED
    BY <1>2, <2>3, <2>4, <2>5
<1>3. CASE phase[c] # "waiting"
  BY <1>3 DEF Conclude
<1>4. QED
  BY <1>2, <1>3

\* A client whose command is concluded has none in progress; the others go on.
LEMMA OthersInProgress ==
  ASSUME IInv, Truth, NEW c \in Clients, NEW outcome \in Outcomes, Conclude(c, outcome),
         phase[c] = "waiting", phase' = [phase EXCEPT ![c] = "ready"], UNCHANGED port,
         \A x \in Clients \ {c} : seqn'[x] = seqn[x]
  PROVE  CommandsOfProcesses'
<1>1. /\ commands \in [Clients -> Seq(Command)]
      /\ phase \in [Clients -> {"off", "discovering", "ready", "waiting"}]
  BY DEF IInv, TypeOK
<1>2. /\ \A x \in Clients : DOMAIN commands'[x] = DOMAIN commands[x]
      /\ \A x \in Clients : \A i \in DOMAIN commands[x] :
           commands'[x][i].port = commands[x][i].port
  BY ConcludedCommand
<1>3. \A x \in Clients \ {c} : commands'[x] = commands[x] /\ phase'[x] = phase[x]
  BY <1>1 DEF Conclude
<1>4. ASSUME NEW x \in Clients
      PROVE  /\ phase'[x] # "off" => port'[x] >= 1
             /\ \A i \in DOMAIN commands'[x] : commands'[x][i].port \in 1..port'[x]
  BY <1>2, <1>3 DEF Truth, CommandsOfProcesses
<1>5. ASSUME NEW x \in Clients, phase'[x] = "waiting"
      PROVE  Current(x)'.port = port'[x] /\ Current(x)'.seqn = seqn'[x]
  <2>1. x # c
    BY <1>1, <1>5
  <2>2. QED
    BY <1>3, <1>5, <2>1 DEF Truth, CommandsOfProcesses, Current
<1>6. QED
  BY <1>4, <1>5 DEF CommandsOfProcesses

-----------------------------------------------------------------------------
LEMMA DiscoveryTruth ==
  ASSUME IInv, Truth, NEW m \in net, handleDiscoveryPacket(m)
  PROVE  Truth'
<1>1. m.client \in Clients /\ ledger \in LedgerType
  BY PacketTypes DEF IInv, TypeOK
<1>2. ledger'.lastReq = ledger.lastReq
  BY <1>1, RegistrationEffect DEF handleDiscoveryPacket
<1>3. /\ net' = net \cup {DiscoveryAck(m)}
      /\ UNCHANGED <<phase, seqn, retries, port, commands, executed>>
  BY DEF handleDiscoveryPacket, Send
<1>4. DiscoveryAck(m).type = "DISCOVERY_ACK"
  BY DEF DiscoveryAck
<1>5. Stay
  BY <1>3 DEF Stay, IsExecuted
<1>6. CommandsOfProcesses'
  BY <1>3 DEF Truth, CommandsOfProcesses, Current
<1>7. RequestsOfCommands'
  BY <1>3, <1>4, <1>5, RequestsKept DEF Truth
<1>8. AnswersTruthful'
  BY <1>2, <1>3, <1>4, <1>5, AnswersKept DEF Truth
<1>9. OutcomesTruthful'
  BY <1>3, <1>5, OutcomesKept DEF Truth, Told
<1>10. CommandsInOrder'
  BY <1>2, <1>3, <1>5, OrderKept DEF Truth
<1>11. QED
  BY <1>6, <1>7, <1>8, <1>9, <1>10 DEF Truth

\* The server answers as it did: of success because it executes the command now, of a
\* duplicate because some command of that number was executed.
LEMMA RequestTruth ==
  ASSUME IInv, Truth, NEW m \in net, handleTransactionRequest(m)
  PROVE  Truth'
<1> DEFINE r == handleTransactionLogic(ledger, m.client, m.dest, m.value, m.seqn)
           e == [client |-> m.client, id |-> m.id]
           a == Ack(m, r.status)
<1>1. /\ m.client \in Clients /\ m.port \in Nat /\ m.id \in Nat /\ m.dest \in Clients
      /\ m.value \in Int /\ m.seqn \in Nat /\ m.seqn >= 1
      /\ ledger \in LedgerType
      /\ m.type = "TRANSACTION_REQ"
  <2>1. m.type = "TRANSACTION_REQ"
    BY DEF handleTransactionRequest
  <2>2. m.seqn \in 1..MaxSeqn /\ MaxSeqn \in Nat /\ Values \subseteq Int
    BY <2>1, SessionAssumption DEF IInv, NumbersBounded
  <2>3. m.seqn \in Nat /\ m.seqn >= 1
    BY <2>2
  <2>4. QED
    BY <2>1, <2>2, <2>3, PacketTypes DEF IInv, TypeOK
<1>2. /\ r.status = "SUCCESS" =>
           /\ m.seqn = ledger.lastReq[m.client] + 1
           /\ \A c \in Clients : r.ledger.lastReq[c] = IF c = m.client THEN m.seqn
                                                       ELSE ledger.lastReq[c]
      /\ r.status # "SUCCESS" => r.ledger = ledger
      /\ r.status = "ERROR_DUPLICATE_REQUEST" => m.seqn <= ledger.lastReq[m.client]
  <2> HIDE DEF r
  <2>1. r = handleTransactionLogic(ledger, m.client, m.dest, m.value, m.seqn)
    BY DEF r
  <2>2. QED
    BY <1>1, <2>1, StatusEffect
<1>3. /\ ledger' = r.ledger /\ net' = net \cup {a}
      /\ executed' = IF r.status = "SUCCESS" THEN Append(executed, e) ELSE executed
      /\ UNCHANGED <<phase, seqn, retries, port, commands>>
  BY DEF handleTransactionRequest, Serve, Send
<1> HIDE DEF r
<1>4. /\ a.type = "TRANSACTION_ACK" /\ a.status = r.status /\ a.seqn = m.seqn
      /\ a.client = m.client /\ a.port = m.port
  BY DEF Ack
<1>5. /\ m.id \in DOMAIN commands[m.client]
      /\ commands[m.client][m.id].port = m.port /\ commands[m.client][m.id].seqn = m.seqn
      /\ m.port \in 1..port[m.client]
      /\ commands[m.client] \in Seq(Command)
  BY <1>1 DEF IInv, TypeOK, Truth, RequestsOfCommands, CommandsOfProcesses
<1>6. /\ \A c, i : IsExecuted(c, i) => IsExecuted(c, i)'
      /\ r.status = "SUCCESS" => IsExecuted(m.client, m.id)'
  <2>1. executed \in Seq([client : Clients, id : Nat])
    BY DEF IInv, TypeOK
  <2> HIDE DEF e
  <2>2. CASE r.status = "SUCCESS"
    <3>1. executed' = Append(executed, e)
      BY <1>3, <2>2
    <3>2. /\ Len(executed) \in Nat /\ DOMAIN executed = 1..Len(executed)
          /\ DOMAIN executed' = 1..Len(executed) + 1
          /\ \A k \in 1..Len(executed) : executed'[k] = executed[k]
          /\ executed'[Len(executed) + 1] = e
      BY <2>1, <3>1
    <3>3. \A c, i : IsExecuted(c, i) => IsExecuted(c, i)'
      BY <3>2 DEF IsExecuted
    <3>4. Len(executed) + 1 \in DOMAIN executed'
      BY <3>2
    <3>5. IsExecuted(m.client, m.id)'
      BY <3>2, <3>4 DEF IsExecuted, e
    <3>6. QED
      BY <3>3, <3>5
  <2>3. CASE r.status # "SUCCESS"
    BY <1>3, <2>3 DEF IsExecuted
  <2>4. QED
    BY <2>2, <2>3
<1> HIDE DEF e, a
<1>7. Stay
  BY <1>3, <1>6 DEF Stay
<1>8. CommandsOfProcesses'
  BY <1>3 DEF Truth, CommandsOfProcesses, Current
<1>9. RequestsOfCommands'
  BY <1>3, <1>4, <1>7, RequestsKept DEF Truth
<1>10. r.status = "SUCCESS" => ExecutedAs(m.client, m.port, m.seqn)'
  BY <1>3, <1>5, <1>6 DEF ExecutedAs
<1>11. /\ ledger.lastReq \in [Clients -> Nat] /\ port[m.client] \in Nat
  BY <1>1 DEF LedgerType, IInv, TypeOK
<1>12. ASSUME NEW c \in Clients, port'[c] <= 1, NEW n \in 1..ledger'.lastReq[c]
       PROVE  ExecutedAs(c, 1, n)'
  <2>1. CASE n \in 1..ledger.lastReq[c]
    BY <1>3, <1>7, <1>12, <2>1, ExecutedAsStays DEF Truth, AnswersTruthful
  <2>2. CASE n \notin 1..ledger.lastReq[c]
    <3>1. r.status = "SUCCESS" /\ c = m.client
      BY <1>2, <1>3, <1>12, <2>2
    <3>2. n = m.seqn
      BY <1>1, <1>2, <1>3, <1>11, <1>12, <2>2, <3>1
    <3>3. m.port = 1
      BY <1>1, <1>3, <1>5, <1>11, <1>12, <3>1
    <3>4. QED
      BY <1>10, <3>1, <3>2, <3>3
  <2>3. QED
    BY <2>1, <2>2
<1>13. ASSUME NEW x \in net', x.type = "TRANSACTION_ACK"
       PROVE  /\ x.status = "SUCCESS" => ExecutedAs(x.client, x.port, x.seqn)'
              /\ x.status = "ERROR_DUPLICATE_REQUEST" /\ x.port = 1 /\ port'[x.client] <= 1
                   => ExecutedAs(x.client, 1, x.seqn)'
  <2>1. CASE x \in net
    <3>1. x.client \in Clients
      BY <2>1, PacketTypes DEF IInv
    <3>2. x.status = "SUCCESS" => ExecutedAs(x.client, x.port, x.seqn)'
      BY <1>7, <1>13, <2>1, <3>1, ExecutedAsStays DEF Truth, AnswersTruthful
    <3>3. x.status = "ERROR_DUPLICATE_REQUEST" /\ x.port = 1 /\ port[x.client] <= 1
            => ExecutedAs(x.client, 1, x.seqn)'
      BY <1>7, <1>13, <2>1, <3>1, ExecutedAsStays DEF Truth, AnswersTruthful
    <3>4. QED
      BY <1>3, <3>2, <3>3
  <2>2. CASE x = a
    <3>1. x.status = "SUCCESS" => ExecutedAs(x.client, x.port, x.seqn)'
      BY <1>4, <1>10, <2>2
    <3>2. ASSUME x.status = "ERROR_DUPLICATE_REQUEST", x.port = 1, port'[x.client] <= 1
          PROVE  ExecutedAs(x.client, 1, x.seqn)'
      <4>1. m.seqn \in 1..ledger.lastReq[m.client] /\ port[m.client] <= 1
        BY <1>1, <1>2, <1>3, <1>4, <1>11, <2>2, <3>2
      <4>2. ExecutedAs(m.client, 1, m.seqn)
        BY <1>1, <4>1 DEF Truth, AnswersTruthful
      <4>3. QED
        BY <1>1, <1>4, <1>7, <2>2, <4>2, ExecutedAsStays
    <3>3. QED
      BY <3>1, <3>2
  <2>3. QED
    BY <1>3, <2>1, <2>2
<1>14. AnswersTruthful'
  BY <1>12, <1>13 DEF AnswersTruthful
<1>15. OutcomesTruthful'
  BY <1>3, <1>7, OutcomesKept DEF Truth, Told
<1>16. CommandsInOrder'
  <2>1. CASE r.status = "SUCCESS"
    <3>1. /\ ledger'.lastReq[m.client] = m.seqn /\ m.seqn = ledger.lastReq[m.client] + 1
          /\ \A c \in Clients \ {m.client} : ledger'.lastReq[c] = ledger.lastReq[c]
      BY <1>1, <1>2, <1>3, <2>1
    <3>2. /\ executed' = Append(executed, e)
          /\ executed \in Seq([client : Clients, id : Nat])
          /\ e.client = m.client /\ e.id = m.id
      BY <1>3, <2>1 DEF IInv, TypeOK, e
    <3>3. \A k \in DOMAIN executed' :
            executed'[k] = e \/ (k \in DOMAIN executed /\ executed'[k] = executed[k])
      BY <3>2
    <3>4. \A i \in DOMAIN commands[m.client] : i \in 1..Len(commands[m.client])
      BY <1>5
    <3>5. \A c \in Clients : \A i \in DOMAIN commands[c] :
            commands[c][i].seqn \in Nat /\ ledger.lastReq[c] \in Nat
      <4>1. commands \in [Clients -> Seq(Command)] /\ ledger.lastReq \in [Clients -> Nat]
        BY DEF IInv, TypeOK, LedgerType
      <4>2. ASSUME NEW c \in Clients, NEW i \in DOMAIN commands[c]
            PROVE  commands[c][i] \in Command
        BY <4>1
      <4>3. QED
        BY <4>1, <4>2 DEF Command
    <3>6. ASSUME NEW c \in Clients, NEW i \in DOMAIN commands[c]
          PROVE  commands[c][i].seqn <= ledger'.lastReq[c] + 1
      BY <3>1, <3>5, <3>6 DEF Truth, CommandsInOrder
    <3>7. ASSUME NEW c \in Clients, NEW k \in DOMAIN executed', executed'[k].client = c
          PROVE  /\ executed'[k].id \in DOMAIN commands[c]
                 /\ \A i \in 1..executed'[k].id : commands[c][i].seqn <= ledger'.lastReq[c]
      <4>1. CASE executed'[k] = e
        <5>1. c = m.client /\ executed'[k].id = m.id
          BY <3>2, <3>7, <4>1
        <5>2. \A i \in 1..m.id : i \in DOMAIN commands[m.client]
          BY <1>5
        <5>3. QED
          BY <1>5, <3>1, <5>1, <5>2 DEF Truth, CommandsInOrder
      <4>2. CASE k \in DOMAIN executed /\ executed'[k] = executed[k]
        <5>1. /\ executed[k].id \in DOMAIN commands[c]
              /\ \A i \in 1..executed[k].id : commands[c][i].seqn <= ledger.lastReq[c]
          BY <3>7, <4>2 DEF Truth, CommandsInOrder
        <5>2. \A i \in 1..executed[k].id : i \in DOMAIN commands[c]
          <6>1. commands[c] \in Seq(Command)
            BY DEF IInv, TypeOK
          <6>2. QED
            BY <5>1, <6>1
        <5>3. ledger'.lastReq[c] >= ledger.lastReq[c]
          BY <1>11, <3>1
        <5>4. ledger'.lastReq[c] \in Nat
          BY <1>1, <1>11, <3>1
        <5>5. QED
          BY <3>5, <4>2, <5>1, <5>2, <5>3, <5>4
      <4>3. QED
        BY <3>3, <4>1, <4>2
    <3>8. QED
      BY <1>3, <3>6, <3>7 DEF CommandsInOrder
  <2>2. CASE r.status # "SUCCESS"
    BY <1>2, <1>3, <2>2 DEF Truth, CommandsInOrder
  <2>3. QED
    BY <2>1, <2>2
<1>17. QED
  BY <1>8, <1>9, <1>14, <1>15, <1>16 DEF Truth

LEMMA StartTruth ==
  ASSUME IInv, Truth, NEW c \in Clients, discoverServer(c)
  PROVE  Truth'
<1>1. /\ port' = [port EXCEPT ![c] = port[c] + 1] /\ seqn' = [seqn EXCEPT ![c] = 1]
      /\ phase' = [phase EXCEPT ![c] = "discovering"]
      /\ Conclude(c, "ABANDONED") /\ net' = net \cup {Discovery(c, port[c] + 1)}
      /\ UNCHANGED <<ledger, retries, executed>>
  BY DEF discoverServer, Send
<1>2. /\ \A x \in Clients : DOMAIN commands'[x] = DOMAIN commands[x]
      /\ \A x \in Clients : \A i \in DOMAIN commands[x] :
           /\ commands'[x][i].port = commands[x][i].port
           /\ commands'[x][i].seqn = commands[x][i].seqn
           /\ commands'[x][i].dest = commands[x][i].dest
           /\ commands'[x][i].value = commands[x][i].value
           /\ commands'[x][i] = commands[x][i] \/ commands'[x][i].outcome = "ABANDONED"
      /\ \A x \in Clients \ {c} : commands'[x] = commands[x]
  <2>1. commands \in [Clients -> Seq(Command)]
    BY DEF IInv, TypeOK
  <2>2. \A x \in Clients \ {c} : commands'[x] = commands[x]
    BY <1>1, <2>1 DEF Conclude
  <2>3. QED
    BY <1>1, <2>2, ConcludedCommand DEF Outcomes
<1>3. /\ port \in [Clients -> Nat] /\ phase \in [Clients -> {"off", "discovering", "ready", "waiting"}]
      /\ seqn \in [Clients -> Nat]
  BY DEF IInv, TypeOK
<1>4. Discovery(c, port[c] + 1).type = "DISCOVERY"
  BY DEF Discovery
<1>5. Stay
  BY <1>1, <1>2 DEF Stay, IsExecuted
<1>6. CommandsOfProcesses'
  <2>1. ASSUME NEW x \in Clients
        PROVE  /\ phase'[x] # "off" => port'[x] >= 1
               /\ \A i \in DOMAIN commands'[x] : commands'[x][i].port \in 1..port'[x]
    <3>1. port'[x] >= port[x] /\ port'[x] \in Nat /\ port[x] \in Nat
      BY <1>1, <1>3
    <3>2. phase'[x] # "off" => port'[x] >= 1
      BY <1>1, <1>3, <3>1 DEF Truth, CommandsOfProcesses
    <3>3. QED
      BY <1>2, <3>1, <3>2 DEF Truth, CommandsOfProcesses
  <2>2. ASSUME NEW x \in Clients, phase'[x] = "waiting"
        PROVE  Current(x)'.port = port'[x] /\ Current(x)'.seqn = seqn'[x]
    <3>1. x # c /\ phase[x] = "waiting"
      BY <1>1, <1>3, <2>2
    <3>2. commands'[x] = commands[x] /\ port'[x] = port[x] /\ seqn'[x] = seqn[x]
      BY <1>1, <1>2, <1>3, <3>1
    <3>3. QED
      BY <3>1, <3>2 DEF Truth, CommandsOfProcesses, Current
  <2>3. QED
    BY <2>1, <2>2 DEF CommandsOfProcesses
<1>7. RequestsOfCommands'
  BY <1>1, <1>4, <1>5, RequestsKept DEF Truth
<1>8. AnswersTruthful'
  <2>1. \A x \in Clients : port'[x] <= 1 => port[x] <= 1
    BY <1>1, <1>3
  <2>2. QED
    BY <1>1, <1>4, <1>5, <2>1, AnswersKept DEF Truth
<1>9. OutcomesTruthful'
  BY <1>2, <1>5, OutcomesKept DEF Truth, Told
<1>10. CommandsInOrder'
  BY <1>1, <1>2, <1>5, OrderKept DEF Truth
<1>11. QED
  BY <1>6, <1>7, <1>8, <1>9, <1>10 DEF Truth

LEMMA ConnectTruth ==
  ASSUME IInv, Truth, NEW c \in Clients, receiveDiscoveryAck(c)
  PROVE  Truth'
<1>1. /\ phase[c] = "discovering" /\ phase' = [phase EXCEPT ![c] = "ready"]
      /\ UNCHANGED <<ledger, seqn, retries, port, net, commands, executed>>
  BY DEF receiveDiscoveryAck
<1>2. phase \in [Clients -> {"off", "discovering", "ready", "waiting"}]
  BY DEF IInv, TypeOK
<1>3. CommandsOfProcesses'
  BY <1>1, <1>2 DEF Truth, CommandsOfProcesses, Current
<1>4. RequestsOfCommands'
  BY <1>1 DEF Truth, RequestsOfCommands
<1>5. AnswersTruthful'
  BY <1>1 DEF Truth, AnswersTruthful, ExecutedAs, IsExecuted
<1>6. OutcomesTruthful'
  BY <1>1 DEF Truth, OutcomesTruthful, Told, IsExecuted
<1>7. CommandsInOrder'
  BY <1>1 DEF Truth, CommandsInOrder
<1>8. QED
  BY <1>3, <1>4, <1>5, <1>6, <1>7 DEF Truth

LEMMA IssueTruth ==
  ASSUME IInv, Truth, NEW c \in Clients, NEW d \in Clients, NEW v \in Values,
         executeRequestWithRetries(c, d, v)
  PROVE  Truth'
<1> DEFINE new == [dest |-> d, value |-> v, seqn |-> seqn[c], port |-> port[c],
                   outcome |-> "PENDING"]
           s == Append(commands[c], new)
           p == Request(c, Len(commands[c]) + 1, d, v)
<1>1. /\ phase[c] = "ready" /\ commands' = [commands EXCEPT ![c] = s]
      /\ phase' = [phase EXCEPT ![c] = "waiting"]
      /\ net' = net \cup {p}
      /\ UNCHANGED <<ledger, seqn, port, executed>>
  BY DEF executeRequestWithRetries, Send
<1>2. /\ commands \in [Clients -> Seq(Command)] /\ port \in [Clients -> Nat]
      /\ phase \in [Clients -> {"off", "discovering", "ready", "waiting"}]
  BY DEF IInv, TypeOK
<1>3. /\ p.type = "TRANSACTION_REQ" /\ p.client = c /\ p.id = Len(commands[c]) + 1
      /\ p.port = port[c] /\ p.seqn = seqn[c] /\ p.dest = d /\ p.value = v
  BY DEF Request
<1>4. /\ new.port = port[c] /\ new.seqn = seqn[c] /\ new.outcome = "PENDING"
      /\ new.dest = d /\ new.value = v
  OBVIOUS
<1> HIDE DEF new, p
<1>5. /\ Len(commands[c]) \in Nat /\ DOMAIN commands[c] = 1..Len(commands[c])
      /\ Len(s) = Len(commands[c]) + 1 /\ DOMAIN s = 1..Len(commands[c]) + 1
      /\ \A i \in DOMAIN commands[c] : s[i] = commands[c][i]
      /\ s[Len(commands[c]) + 1] = new
  BY <1>2
<1> HIDE DEF s
<1>6. /\ commands'[c] = s /\ phase'[c] = "waiting"
      /\ \A x \in Clients \ {c} : commands'[x] = commands[x] /\ phase'[x] = phase[x]
  BY <1>1, <1>2
<1>7. Stay
  <2>1. ASSUME NEW x \in Clients
        PROVE  /\ DOMAIN commands[x] \subseteq DOMAIN commands'[x]
               /\ \A i \in DOMAIN commands[x] : commands'[x][i] = commands[x][i]
    BY <1>5, <1>6
  <2>2. \A x, i : IsExecuted(x, i) => IsExecuted(x, i)'
    BY <1>1 DEF IsExecuted
  <2>3. QED
    BY <2>1, <2>2 DEF Stay
<1>8. CommandsOfProcesses'
  <2>1. ASSUME NEW x \in Clients, x # c
        PROVE  /\ phase'[x] # "off" => port'[x] >= 1
               /\ \A i \in DOMAIN commands'[x] : commands'[x][i].port \in 1..port'[x]
               /\ phase'[x] = "waiting" => Current(x)'.port = port'[x] /\ Current(x)'.seqn = seqn'[x]
    BY <1>1, <1>6, <2>1 DEF Truth, CommandsOfProcesses, Current
  <2>2. port[c] >= 1 /\ port[c] \in Nat
    BY <1>1, <1>2 DEF Truth, CommandsOfProcesses
  <2>3. \A i \in DOMAIN s : s[i].port \in 1..port[c]
    BY <1>4, <1>5, <2>2 DEF Truth, CommandsOfProcesses
  <2>4. Current(c)' = new
    BY <1>5, <1>6 DEF Current
  <2>5. QED
    BY <1>1, <1>4, <1>6, <2>1, <2>2, <2>3, <2>4 DEF CommandsOfProcesses
<1>9. RequestsOfCommands'
  <2>1. \A m \in net' \ net : m = p
    BY <1>1
  <2>2. /\ p.id \in DOMAIN commands'[p.client]
        /\ commands'[p.client][p.id].port = p.port /\ commands'[p.client][p.id].seqn = p.seqn
        /\ commands'[p.client][p.id].dest = p.dest /\ commands'[p.client][p.id].value = p.value
    BY <1>3, <1>4, <1>5, <1>6
  <2>3. QED
    BY <1>7, <2>1, <2>2, RequestsKept DEF Truth
<1>10. AnswersTruthful'
  BY <1>1, <1>3, <1>7, AnswersKept DEF Truth
<1>11. OutcomesTruthful'
  <2>1. ASSUME NEW x \in Clients, NEW i \in DOMAIN commands'[x], Told(x, i)'
        PROVE  i \in DOMAIN commands[x] /\ Told(x, i)
    <3>1. CASE x # c
      BY <1>6, <2>1, <3>1 DEF Told
    <3>2. CASE x = c /\ i \in DOMAIN commands[c]
      BY <1>5, <1>6, <2>1, <3>2 DEF Told
    <3>3. CASE x = c /\ i \notin DOMAIN commands[c]
      <4>1. i = Len(commands[c]) + 1
        BY <1>5, <1>6, <2>1, <3>3
      <4>2. commands'[x][i].outcome = "PENDING"
        BY <1>4, <1>5, <1>6, <3>3, <4>1
      <4>3. QED
        BY <2>1, <4>2 DEF Told
    <3>4. QED
      BY <3>1, <3>2, <3>3
  <2>2. QED
    BY <1>7, <2>1, OutcomesKept DEF Truth
<1>12. CommandsInOrder'
  <2>1. seqn[c] <= ledger.lastReq[c] + 1
    BY DEF IInv, NeverAhead
  <2>2. ASSUME NEW x \in Clients, NEW i \in DOMAIN commands'[x] \ DOMAIN commands[x]
        PROVE  commands'[x][i].seqn <= ledger.lastReq[x] + 1
    <3>1. x = c /\ i = Len(commands[c]) + 1
      BY <1>5, <1>6, <2>2
    <3>2. QED
      BY <1>4, <1>5, <1>6, <2>1, <3>1
  <2>3. QED
    BY <1>1, <1>7, <2>2, OrderKept DEF Truth
<1>13. QED
  BY <1>8, <1>9, <1>10, <1>11, <1>12 DEF Truth

LEMMA RetryTruth ==
  ASSUME IInv, Truth, NEW c \in Clients, retry(c)
  PROVE  Truth'
<1>1. phase[c] = "waiting" /\ UNCHANGED <<ledger, seqn, port, executed>>
  BY DEF retry
<1>2. CASE retries[c] + 1 < MaxRetries
  <2> DEFINE p == Request(c, Len(commands[c]), Current(c).dest, Current(c).value)
  <2>1. net' = net \cup {p} /\ UNCHANGED <<phase, commands>>
    BY <1>2 DEF retry, Resend, Send
  <2>2. /\ p.type = "TRANSACTION_REQ" /\ p.client = c /\ p.id = Len(commands[c])
        /\ p.port = port[c] /\ p.seqn = seqn[c]
        /\ p.dest = Current(c).dest /\ p.value = Current(c).value
    BY DEF Request
  <2>3. /\ Len(commands[c]) \in DOMAIN commands[c]
        /\ commands[c][Len(commands[c])].port = port[c]
        /\ commands[c][Len(commands[c])].seqn = seqn[c]
        /\ commands[c][Len(commands[c])] = Current(c)
    <3>1. commands[c] \in Seq(Command) /\ Len(commands[c]) \in 1..MaxSeqn
      BY <1>1, CurrentType DEF IInv, TypeOK
    <3>2. QED
      BY <1>1, <3>1 DEF Truth, CommandsOfProcesses, Current
  <2> HIDE DEF p
  <2>4. Stay
    BY <1>1, <2>1 DEF Stay, IsExecuted
  <2>5. CommandsOfProcesses'
    BY <1>1, <2>1 DEF Truth, CommandsOfProcesses, Current
  <2>6. RequestsOfCommands'
    BY <2>1, <2>2, <2>3, <2>4, RequestsKept DEF Truth
  <2>7. AnswersTruthful'
    BY <1>1, <2>1, <2>2, <2>4, AnswersKept DEF Truth
  <2>8. OutcomesTruthful'
    BY <2>1, <2>4, OutcomesKept DEF Truth, Told
  <2>9. CommandsInOrder'
    BY <1>1, <2>1, <2>4, OrderKept DEF Truth
  <2>10. QED
    BY <2>5, <2>6, <2>7, <2>8, <2>9 DEF Truth
<1>3. CASE ~(retries[c] + 1 < MaxRetries)
  <2>1. /\ phase' = [phase EXCEPT ![c] = "ready"]
        /\ Conclude(c, "NO_RESPONSE") /\ UNCHANGED net
    BY <1>3 DEF retry
  <2>2. /\ commands' \in [Clients -> Seq(Command)]
        /\ \A x \in Clients : DOMAIN commands'[x] = DOMAIN commands[x]
        /\ \A x \in Clients : \A i \in DOMAIN commands[x] :
             /\ commands'[x][i].port = commands[x][i].port
             /\ commands'[x][i].seqn = commands[x][i].seqn
             /\ commands'[x][i].dest = commands[x][i].dest
             /\ commands'[x][i].value = commands[x][i].value
             /\ commands'[x][i] = commands[x][i] \/ commands'[x][i].outcome = "NO_RESPONSE"
    BY <2>1, ConcludedCommand, ConcludeType DEF Outcomes
  <2>3. Stay
    BY <1>1, <2>2 DEF Stay, IsExecuted
  <2>4. CommandsOfProcesses'
    BY <1>1, <2>1, OthersInProgress DEF Outcomes
  <2>5. RequestsOfCommands'
    BY <2>1, <2>3, RequestsKept DEF Truth
  <2>6. AnswersTruthful'
    BY <1>1, <2>1, <2>3, AnswersKept DEF Truth
  <2>7. OutcomesTruthful'
    BY <2>2, <2>3, OutcomesKept DEF Truth, Told
  <2>8. CommandsInOrder'
    BY <1>1, <2>2, <2>3, OrderKept DEF Truth
  <2>9. QED
    BY <2>4, <2>5, <2>6, <2>7, <2>8 DEF Truth
<1>4. QED
  BY <1>2, <1>3

\* The answer that is taken has the number and the port of the command in progress.
LEMMA AnswerTruth ==
  ASSUME IInv, Truth, NEW c \in Clients, NEW m \in net, receiveResponse(c, m)
  PROVE  Truth'
<1>1. /\ phase[c] = "waiting" /\ phase' = [phase EXCEPT ![c] = "ready"]
      /\ m.type = "TRANSACTION_ACK" /\ m.client = c /\ m.port = port[c] /\ m.seqn = seqn[c]
      /\ seqn' = IF advances(m.status) THEN [seqn EXCEPT ![c] = seqn[c] + 1] ELSE seqn
      /\ Conclude(c, m.status)
      /\ UNCHANGED <<ledger, port, net, executed>>
  BY DEF receiveResponse, answers
<1>2. m.status \in Outcomes
  BY <1>1, PacketTypes DEF IInv, Outcomes
<1>3. /\ \A x \in Clients : DOMAIN commands'[x] = DOMAIN commands[x]
      /\ \A x \in Clients : \A i \in DOMAIN commands[x] :
           /\ commands'[x][i].port = commands[x][i].port
           /\ commands'[x][i].seqn = commands[x][i].seqn
           /\ commands'[x][i].dest = commands[x][i].dest
           /\ commands'[x][i].value = commands[x][i].value
           /\ \/ commands'[x][i] = commands[x][i]
              \/ x = c /\ i = Len(commands[c]) /\ commands'[x][i].outcome = m.status
  BY <1>1, <1>2, ConcludedCommand
<1>4. \A x, i : IsExecuted(x, i)' = IsExecuted(x, i)
  BY <1>1 DEF IsExecuted
<1>5. Stay
  BY <1>3, <1>4 DEF Stay
<1>6. CommandsOfProcesses'
  <2>1. seqn \in [Clients -> Nat]
    BY DEF IInv, TypeOK
  <2>2. \A x \in Clients \ {c} : seqn'[x] = seqn[x]
    BY <1>1, <2>1
  <2>3. QED
    BY <1>1, <1>2, <2>2, OthersInProgress
<1>7. RequestsOfCommands'
  BY <1>1, <1>5, RequestsKept DEF Truth
<1>8. AnswersTruthful'
  BY <1>1, <1>5, AnswersKept DEF Truth
<1>9. OutcomesTruthful'
  <2> DEFINE n == Len(commands[c])
  <2>1. /\ commands[c] \in Seq(Command) /\ n \in 1..n /\ n \in Nat
        /\ DOMAIN commands[c] = 1..n
        /\ commands[c][n].port = port[c] /\ commands[c][n].seqn = seqn[c]
    <3>1. commands[c] \in Seq(Command) /\ n \in 1..MaxSeqn
      BY <1>1, CurrentType DEF IInv, TypeOK
    <3>2. Current(c).port = port[c] /\ Current(c).seqn = seqn[c]
      BY <1>1 DEF Truth, CommandsOfProcesses
    <3>3. n \in Nat /\ DOMAIN commands[c] = 1..n /\ n \in 1..n
      BY <3>1
    <3>4. QED
      BY <3>1, <3>2, <3>3 DEF Current
  <2>2. ASSUME NEW x \in Clients, NEW i \in DOMAIN commands'[x], Told(x, i)',
               ~(i \in DOMAIN commands[x] /\ Told(x, i))
        PROVE  \E j \in 1..i : /\ IsExecuted(x, j)'
                               /\ commands'[x][j].port = commands'[x][i].port
                               /\ commands'[x][j].seqn = commands'[x][i].seqn
    <3>1. i \in DOMAIN commands[x] /\ commands'[x][i] # commands[x][i]
      BY <1>3, <2>2 DEF Told
    <3>2. x = c /\ i = n /\ commands'[x][i].outcome = m.status
      BY <1>3, <3>1
    <3>3. commands'[c][n].port = port[c] /\ commands'[c][n].seqn = seqn[c]
      BY <1>3, <2>1
    <3>4. ExecutedAs(c, port[c], seqn[c])
      <4>1. CASE m.status = "SUCCESS"
        BY <1>1, <4>1 DEF Truth, AnswersTruthful
      <4>2. CASE m.status = "ERROR_DUPLICATE_REQUEST" /\ port[c] = 1
        BY <1>1, <4>2 DEF Truth, AnswersTruthful
      <4>3. QED
        BY <2>2, <3>2, <3>3, <4>1, <4>2 DEF Told
    <3>5. PICK j \in DOMAIN commands[c] :
            IsExecuted(c, j) /\ commands[c][j].port = port[c] /\ commands[c][j].seqn = seqn[c]
      BY <3>4 DEF ExecutedAs
    <3>6. /\ j \in 1..n /\ IsExecuted(c, j)'
          /\ commands'[c][j].port = port[c] /\ commands'[c][j].seqn = seqn[c]
      BY <1>3, <1>4, <2>1, <3>5
    <3>7. QED
      BY <3>2, <3>3, <3>6
  <2>3. QED
    BY <1>5, <2>2, OutcomesKept DEF Truth
<1>10. CommandsInOrder'
  BY <1>1, <1>3, <1>5, OrderKept DEF Truth
<1>11. QED
  BY <1>6, <1>7, <1>8, <1>9, <1>10 DEF Truth

LEMMA AlwaysTruth == Spec => []Truth
<1>1. Init => Truth
  <2> SUFFICES ASSUME Init PROVE Truth
    OBVIOUS
  <2>1. \A c \in Clients : phase[c] = "off" /\ ledger.lastReq[c] = 0
    BY DEF Init, EmptyLedger
  <2>2. \A m : m \notin net
    BY DEF Init
  <2>3. \A c \in Clients : \A i : i \notin DOMAIN commands[c] /\ i \notin 1..ledger.lastReq[c]
    <3>1. ASSUME NEW c \in Clients
          PROVE  DOMAIN commands[c] = 1..0
      BY DEF Init
    <3>2. QED
      BY <2>1, <3>1
  <2>4. CommandsOfProcesses
    <3> SUFFICES ASSUME NEW c \in Clients
                 PROVE  /\ phase[c] # "off" => port[c] >= 1
                        /\ \A i \in DOMAIN commands[c] : commands[c][i].port \in 1..port[c]
                        /\ phase[c] = "waiting" =>
                             Current(c).port = port[c] /\ Current(c).seqn = seqn[c]
      BY DEF CommandsOfProcesses
    <3>1. phase[c] = "off"
      BY <2>1
    <3>2. \A i : i \notin DOMAIN commands[c]
      BY <2>3
    <3>3. QED
      BY <3>1, <3>2
  <2>5. RequestsOfCommands
    BY <2>2 DEF RequestsOfCommands
  <2>6. AnswersTruthful
    BY <2>2, <2>3 DEF AnswersTruthful
  <2>7. OutcomesTruthful
    BY <2>3 DEF OutcomesTruthful
  <2>8. CommandsInOrder
    <3>1. DOMAIN executed = 1..0
      BY DEF Init
    <3>2. \A k : k \notin DOMAIN executed
      BY <3>1
    <3>3. QED
      BY <2>3, <3>2 DEF CommandsInOrder
  <2>9. QED
    BY <2>4, <2>5, <2>6, <2>7, <2>8 DEF Truth
<1>2. IInv /\ Truth /\ [Next]_vars => Truth'
  <2>1. ASSUME IInv, Truth, UNCHANGED vars
        PROVE  Truth'
    BY <2>1 DEF vars, Truth, CommandsOfProcesses, RequestsOfCommands, AnswersTruthful,
       OutcomesTruthful, CommandsInOrder, Told, ExecutedAs, IsExecuted, Current
  <2>2. QED
    BY <2>1, DiscoveryTruth, RequestTruth, StartTruth, ConnectTruth, IssueTruth, RetryTruth,
       AnswerTruth DEF Next, ClientStep
<1>3. QED
  BY <1>1, <1>2, AlwaysIInv, PTL DEF Spec

\* A user who is told that a command succeeded, or of the first process on an address
\* that it was a duplicate, was served, if its number was used for the first time:
\* whatever the network loses, copies and delays, and however often clients restart.
THEOREM FirstUsesAreTruthful == Spec => []FirstUseIsTruthful
<1>1. IInv /\ Truth => FirstUseIsTruthful
  <2> SUFFICES ASSUME IInv, Truth, NEW c \in Clients, NEW i \in DOMAIN commands[c],
                      FirstUse(c, i), Told(c, i)
               PROVE  IsExecuted(c, i)
    BY DEF FirstUseIsTruthful, Told
  <2>1. PICK j \in 1..i : /\ IsExecuted(c, j)
                          /\ commands[c][j].port = commands[c][i].port
                          /\ commands[c][j].seqn = commands[c][i].seqn
    BY DEF Truth, OutcomesTruthful
  <2>2. i \in Nat
    BY DEF IInv, TypeOK
  <2>3. j = i
    BY <2>1, <2>2 DEF FirstUse
  <2>4. QED
    BY <2>1, <2>3
<1>2. QED
  BY <1>1, AlwaysIInv, AlwaysTruth, PTL

-----------------------------------------------------------------------------
(* The service.                                                            *)

Issued ==
  [c \in Clients |-> [i \in DOMAIN commands[c] |->
     [dest |-> commands[c][i].dest, value |-> commands[c][i].value]]]

\* A command that ends is the same command.
LEMMA ConcludedIssued ==
  ASSUME IInv, NEW c \in Clients, NEW outcome \in Outcomes, Conclude(c, outcome)
  PROVE  Issued' = Issued
<1>1. \A x \in Clients : DOMAIN commands'[x] = DOMAIN commands[x]
  BY ConcludedCommand
<1>2. \A x \in Clients : \A i \in DOMAIN commands[x] :
        commands'[x][i].dest = commands[x][i].dest /\ commands'[x][i].value = commands[x][i].value
  BY ConcludedCommand
<1>3. QED
  BY <1>1, <1>2 DEF Issued

\* What is asked of the server changes nothing for the users, or carries out a command
\* that was issued after all that were carried out before.
LEMMA RequestService ==
  ASSUME IInv, Truth, NEW m \in net, handleTransactionRequest(m)
  PROVE  \/ UNCHANGED <<ledger, Issued, executed>>
         \/ m.client \in Clients /\ m.id \in DOMAIN Issued[m.client] /\ T!Execute(m.client, m.id)
<1> DEFINE r == handleTransactionLogic(ledger, m.client, m.dest, m.value, m.seqn)
           c == m.client
<1>1. /\ c \in Clients /\ m.dest \in Clients /\ m.value \in Int /\ m.seqn \in Nat
      /\ m.type = "TRANSACTION_REQ" /\ ledger \in LedgerType
  BY PacketTypes, SessionAssumption DEF IInv, TypeOK, handleTransactionRequest
<1>2. /\ ledger' = r.ledger /\ commands' = commands
      /\ executed' = IF r.status = "SUCCESS"
                     THEN Append(executed, [client |-> c, id |-> m.id]) ELSE executed
  BY DEF handleTransactionRequest, Serve
<1>3. Issued' = Issued
  BY <1>2 DEF Issued
<1>4. CASE r.status # "SUCCESS"
  <2>1. r.ledger = ledger
    <3> HIDE DEF r
    <3>1. r = handleTransactionLogic(ledger, m.client, m.dest, m.value, m.seqn)
      BY DEF r
    <3>2. QED
      BY <1>1, <1>4, <3>1, StatusEffect
  <2>2. QED
    BY <1>2, <1>3, <1>4, <2>1
<1>5. CASE r.status = "SUCCESS"
  <2> DEFINE M == updateAndLogTransaction(
                    executeTransaction(ledger, c, m.dest, m.value, m.seqn),
                    c, m.dest, m.value, m.seqn)
  <2>1. /\ c \in ledger.registered /\ m.dest \in ledger.registered
        /\ m.seqn = ledger.lastReq[c] + 1 /\ ledger.balance[c] >= m.value
        /\ ledger' = M
    <3>1. validateTransaction(ledger, c, m.dest, m.value, m.seqn) = "SUCCESS"
      BY <1>5 DEF handleTransactionLogic
    <3>2. /\ c \in ledger.registered /\ m.dest \in ledger.registered
          /\ ~ (m.seqn <= ledger.lastReq[c]) /\ ~ (m.seqn > ledger.lastReq[c] + 1)
          /\ ~ (ledger.balance[c] < m.value)
      BY <3>1 DEF validateTransaction, findClient
    <3>3. ledger.lastReq[c] \in Nat /\ ledger.balance[c] \in Int
      BY <1>1 DEF LedgerType
    <3>4. ledger' = M
      BY <1>2, <3>1 DEF handleTransactionLogic
    <3>5. QED
      BY <1>1, <3>2, <3>3, <3>4
  <2>2. /\ ledger'.registered = ledger.registered
        /\ ledger' \in LedgerType
        /\ \A x \in Clients : ledger'.balance[x] =
             IF x = c /\ x = m.dest THEN ledger.balance[x] - m.value + m.value
             ELSE IF x = c THEN ledger.balance[x] - m.value
             ELSE IF x = m.dest THEN ledger.balance[x] + m.value
             ELSE ledger.balance[x]
    BY <1>1, <2>1, ExecutionFields
  <2>3. /\ m.id \in DOMAIN commands[c]
        /\ commands[c][m.id].dest = m.dest /\ commands[c][m.id].value = m.value
        /\ commands[c][m.id].seqn = m.seqn
    BY <1>1 DEF Truth, RequestsOfCommands
  <2>4. /\ m.id \in DOMAIN Issued[c]
        /\ Issued[c][m.id].dest = m.dest /\ Issued[c][m.id].value = m.value
    BY <1>1, <2>3 DEF Issued
  <2>5. ASSUME NEW k \in DOMAIN executed, executed[k].client = c
        PROVE  executed[k].id < m.id
    <3>1. \A i \in 1..executed[k].id : commands[c][i].seqn <= ledger.lastReq[c]
      BY <1>1, <2>5 DEF Truth, CommandsInOrder
    <3>2. executed[k].id \in Nat /\ ledger.lastReq[c] \in Nat
      <4> DEFINE E == [client : Clients, id : Nat]
      <4>1. executed \in Seq(E)
        BY DEF IInv, TypeOK
      <4>2. executed[k] \in E
        <5> HIDE DEF E
        <5>1. QED
          BY <4>1
      <4>3. QED
        BY <1>1, <4>2 DEF LedgerType
    <3>3. m.id \in Nat /\ m.id >= 1
      <4> HIDE DEF c
      <4>1. commands \in [Clients -> Seq(Command)]
        BY DEF IInv, TypeOK
      <4>2. commands[c] \in Seq(Command)
        BY <1>1, <4>1
      <4>3. DOMAIN commands[c] = 1..Len(commands[c]) /\ Len(commands[c]) \in Nat
        BY <4>2
      <4>4. QED
        BY <2>3, <4>3
    <3>4. m.id \notin 1..executed[k].id
      BY <2>1, <2>3, <3>1, <3>2
    <3>5. QED
      BY <3>2, <3>3, <3>4
  <2>6. ledger'.balance = [x \in Clients |-> ledger.balance[x] - (IF x = c THEN m.value ELSE 0)
                                               + (IF x = m.dest THEN m.value ELSE 0)]
    <3>1. ledger.balance \in [Clients -> Int] /\ ledger'.balance \in [Clients -> Int]
      BY <1>1, <2>2 DEF LedgerType
    <3>2. \A x \in Clients : ledger'.balance[x] = ledger.balance[x]
              - (IF x = c THEN m.value ELSE 0) + (IF x = m.dest THEN m.value ELSE 0)
      BY <1>1, <2>2, <3>1
    <3>3. QED
      BY <3>1, <3>2
  <2>7. T!Execute(c, m.id)
    <3> HIDE DEF r, M, c
    <3>1. /\ ledger.balance[c] >= Issued[c][m.id].value
          /\ Issued[c][m.id].dest \in ledger.registered
      BY <2>1, <2>4
    <3>2. (ledger.balance)' = T!Transfer(c, Issued[c][m.id].dest, Issued[c][m.id].value)
      BY <2>4, <2>6 DEF T!Transfer
    <3>3. executed' = Append(executed, [client |-> c, id |-> m.id])
      BY <1>2, <1>5
    <3>4. UNCHANGED <<ledger.registered, Issued>>
      BY <1>3, <2>2
    <3>5. QED
      BY <2>1, <2>5, <3>1, <3>2, <3>3, <3>4 DEF T!Execute, Issued
  <2>8. QED
    BY <1>1, <2>4, <2>7
<1>6. QED
  BY <1>4, <1>5

\* A command that is typed is one more of its user's.
LEMMA CommandService ==
  ASSUME IInv, NEW c \in Clients, NEW d \in Clients, NEW v \in Values,
         executeRequestWithRetries(c, d, v)
  PROVE  T!Issue(c, d, v)
<1> DEFINE new == [dest |-> d, value |-> v, seqn |-> seqn[c], port |-> port[c],
                   outcome |-> "PENDING"]
           s == Append(commands[c], new)
           op == [dest |-> d, value |-> v]
           n == Len(commands[c])
<1>1. commands' = [commands EXCEPT ![c] = s] /\ UNCHANGED <<ledger, executed>>
  BY DEF executeRequestWithRetries
<1>2. commands \in [Clients -> Seq(Command)] /\ n \in Nat /\ DOMAIN commands[c] = 1..n
  BY DEF IInv, TypeOK
<1>3. /\ DOMAIN s = 1..n + 1 /\ s[n + 1].dest = d /\ s[n + 1].value = v
      /\ \A i \in 1..n : s[i] = commands[c][i]
  BY <1>2
<1>4. commands'[c] = s /\ \A x \in Clients \ {c} : commands'[x] = commands[x]
  BY <1>1, <1>2
<1> HIDE DEF new, s
<1>5. /\ Issued \in [Clients -> Seq([dest : Clients, value : Values])]
      /\ Len(Issued[c]) = n
      /\ \A x \in Clients : \A i \in DOMAIN commands[x] :
           Issued[x][i] = [dest |-> commands[x][i].dest, value |-> commands[x][i].value]
  <2>1. ASSUME NEW x \in Clients
        PROVE  /\ Issued[x] \in Seq([dest : Clients, value : Values])
               /\ Len(Issued[x]) = Len(commands[x])
    <3>1. Len(commands[x]) \in Nat /\ DOMAIN commands[x] = 1..Len(commands[x])
      BY <1>2
    <3>2. \A i \in DOMAIN commands[x] : commands[x][i] \in Command
      BY <1>2
    <3>3. Issued[x] = [i \in 1..Len(commands[x]) |->
                         [dest |-> commands[x][i].dest, value |-> commands[x][i].value]]
      BY <3>1 DEF Issued
    <3>4. \A i \in 1..Len(commands[x]) :
            [dest |-> commands[x][i].dest, value |-> commands[x][i].value]
              \in [dest : Clients, value : Values]
      BY <3>1, <3>2 DEF Command
    <3>5. QED
      BY <3>1, <3>3, <3>4
  <2>2. QED
    BY <2>1 DEF Issued
<1>6. Issued'[c] = Append(Issued[c], op)
  <2>1. Issued'[c] = [i \in 1..n + 1 |-> [dest |-> s[i].dest, value |-> s[i].value]]
    BY <1>3, <1>4 DEF Issued
  <2>2. Append(Issued[c], op) = [i \in 1..n + 1 |-> IF i <= n THEN Issued[c][i] ELSE op]
    BY <1>2, <1>5
  <2>3. ASSUME NEW i \in 1..n + 1
        PROVE  [dest |-> s[i].dest, value |-> s[i].value]
                 = IF i <= n THEN Issued[c][i] ELSE op
    <3>1. CASE i \in 1..n
      BY <1>2, <1>3, <1>5, <3>1
    <3>2. CASE i = n + 1
      BY <1>2, <1>3, <3>2
    <3>3. QED
      BY <1>2, <3>1, <3>2
  <2>4. QED
    BY <2>1, <2>2, <2>3
<1>7. \A x \in Clients \ {c} : Issued'[x] = Issued[x]
  BY <1>4 DEF Issued
<1>8. Issued' = [Issued EXCEPT ![c] = Append(Issued[c], op)]
  BY <1>6, <1>7 DEF Issued
<1>9. QED
  BY <1>1, <1>8 DEF T!Issue, Issued

\* Whatever is lost, copied, delayed or restarted, and however often a command is sent
\* again: it is carried out at most once, after those its user issued before and with the
\* funds there, and each execution is of a command as it was issued.
THEOREM SessionImplementsService == Spec => ServiceSpec
<1>1. Init => T!Init
  <2> SUFFICES ASSUME Init PROVE T!Init
    OBVIOUS
  <2>1. Issued = [c \in Clients |-> <<>>]
    <3>1. ASSUME NEW c \in Clients
          PROVE  Issued[c] = <<>>
      <4>1. commands[c] = <<>>
        BY DEF Init
      <4>2. DOMAIN Issued[c] = 1..0 /\ Issued[c] = [i \in 1..0 |-> Issued[c][i]]
        BY <4>1 DEF Issued
      <4>3. QED
        BY <4>2
    <3>2. QED
      BY <3>1 DEF Issued
  <2>2. QED
    BY <2>1 DEF Init, EmptyLedger, T!Init, Issued
<1>2. IInv /\ Truth /\ [Next]_vars => [T!Next]_(T!vars)
  <2> SUFFICES ASSUME IInv, Truth, [Next]_vars
               PROVE  T!Next \/ UNCHANGED <<ledger, Issued, executed>>
    BY DEF T!vars, Issued
  <2>1. ASSUME NEW m \in net, handleDiscoveryPacket(m)
        PROVE  T!Next
    <3>1. m.client \in Clients /\ ledger \in LedgerType
      BY PacketTypes DEF IInv, TypeOK
    <3>2. /\ ledger' = wasClientAdded(ledger, m.client) /\ UNCHANGED <<commands, executed>>
      BY <2>1 DEF handleDiscoveryPacket
    <3>3. T!Open(m.client)
      BY <3>1, <3>2, RegistrationEffect DEF T!Open
    <3>4. QED
      BY <3>1, <3>3 DEF T!Next
  <2>2. ASSUME NEW m \in net, handleTransactionRequest(m)
        PROVE  T!Next \/ UNCHANGED <<ledger, Issued, executed>>
    BY <2>2, RequestService DEF T!Next, Issued
  <2>3. ASSUME NEW c \in Clients, discoverServer(c)
        PROVE  UNCHANGED <<ledger, Issued, executed>>
    BY <2>3, ConcludedIssued DEF discoverServer, Outcomes
  <2>4. ASSUME NEW c \in Clients, receiveDiscoveryAck(c)
        PROVE  UNCHANGED <<ledger, Issued, executed>>
    BY <2>4 DEF receiveDiscoveryAck, Issued
  <2>5. ASSUME NEW c \in Clients, NEW d \in Clients, NEW v \in Values,
               executeRequestWithRetries(c, d, v)
        PROVE  T!Next
    BY <2>5, CommandService DEF T!Next
  <2>6. ASSUME NEW c \in Clients, retry(c)
        PROVE  UNCHANGED <<ledger, Issued, executed>>
    <3>1. UNCHANGED commands \/ Conclude(c, "NO_RESPONSE")
      BY <2>6 DEF retry
    <3>2. QED
      BY <2>6, <3>1, ConcludedIssued DEF retry, Outcomes, Issued
  <2>7. ASSUME NEW c \in Clients, NEW m \in net, receiveResponse(c, m)
        PROVE  UNCHANGED <<ledger, Issued, executed>>
    <3>1. m.status \in Outcomes
      BY <2>7, PacketTypes DEF IInv, receiveResponse, answers, Outcomes
    <3>2. QED
      BY <2>7, <3>1, ConcludedIssued DEF receiveResponse
  <2>8. CASE UNCHANGED vars
    BY <2>8 DEF vars, Issued
  <2>9. QED
    BY <2>1, <2>2, <2>3, <2>4, <2>5, <2>6, <2>7, <2>8 DEF Next, ClientStep
<1>3. QED
  BY <1>1, <1>2, AlwaysIInv, AlwaysTruth, PTL DEF Spec, ServiceSpec, T!Spec

-----------------------------------------------------------------------------
(* The threads of the processes.                                           *)

ThreadTypes ==
  /\ command_queue \in [Clients -> Seq(Lines)]
  /\ finished \in [Clients -> BOOLEAN]
  /\ input \in [Clients -> {"none", "reading", "notifying", "ending", "ended"}]
  /\ comm \in [Clients -> {"none", "taking", "asleep", "working", "ended"}]
  /\ sigint \in [Clients -> {"none", "ending", "handled"}]
  /\ typed \in [Clients -> Nat]

\* The communication thread is where the session is.
InStep ==
  \A c \in Clients :
    /\ comm[c] = "working" <=> phase[c] = "waiting"
    /\ comm[c] \in {"taking", "asleep", "ended"} <=> phase[c] = "ready"
    /\ input[c] = "none" <=> comm[c] = "none"

\* Without SIGINT only the end of the input sets finished, and the communication thread
\* has seen it beside an empty queue before it ended.
EndsByInput ==
  \A c \in Clients : sigint[c] = "none" =>
    /\ finished[c] => input[c] \in {"ending", "ended"}
    /\ comm[c] = "ended" => finished[c] /\ command_queue[c] = <<>>

ThreadInv == ThreadTypes /\ InStep /\ EndsByInput /\ SleepsOnlyWithoutWork

LEMMA LineType ==
  ASSUME NEW line \in Lines, line.valid
  PROVE  line.dest \in Clients /\ line.value \in Values
<1>1. CASE line \in [valid : {TRUE}, dest : Clients, value : Values]
  BY <1>1
<1>2. CASE line = Nonsense
  <2>1. line.valid = FALSE
    BY <1>2 DEF Nonsense
  <2>2. QED
    BY <2>1
<1>3. QED
  BY <1>1, <1>2 DEF Lines

\* A line that is carried out is a request for an amount to a client.
LEMMA LineCarriedOut ==
  ASSUME ThreadTypes, NEW c \in Clients, command_queue[c] # <<>>,
         processCommand(c, Head(command_queue[c]))
  PROVE  \/ \E d \in Clients, v \in Values :
              executeRequestWithRetries(c, d, v) /\ comm' = [comm EXCEPT ![c] = "working"]
         \/ UNCHANGED <<sessionVars, comm>>
<1> DEFINE line == Head(command_queue[c])
<1>1. line \in Lines
  BY DEF ThreadTypes
<1>2. CASE line.valid
  <2>1. line.dest \in Clients /\ line.value \in Values
    BY <1>1, <1>2, LineType
  <2>2. QED
    BY <1>2, <2>1 DEF processCommand
<1>3. CASE ~line.valid
  BY <1>3 DEF processCommand
<1>4. QED
  BY <1>2, <1>3

\* Every step of a process's threads is a step of the session or leaves it alone.
LEMMA StepOfSession == ThreadTypes /\ [ProcessNext]_processAndSessionVars => [Next]_vars
<1> SUFFICES ASSUME ThreadTypes, [ProcessNext]_processAndSessionVars PROVE [Next]_vars
  OBVIOUS
<1>1. ServerStep => Next
  BY DEF ServerStep, Next
<1>2. ASSUME NEW c \in Clients, main(c) \/ start(c)
      PROVE  Next
  BY <1>2 DEF main, start, Next
<1>3. ASSUME NEW c \in Clients, tryGetCommandFromQueue(c)
      PROVE  [Next]_vars
  BY <1>3, LineCarriedOut DEF tryGetCommandFromQueue, Next, sessionVars
<1>4. ASSUME NEW c \in Clients, processResponse(c)
      PROVE  Next
  BY <1>4 DEF processResponse, Next
<1>5. ASSUME NEW c \in Clients, NEW line \in Lines,
             \/ signalHandler(c) \/ signalHandlerNotifies(c) \/ userInputThread(c, line)
             \/ shutdown(c) \/ inputNotifies(c) \/ SpuriousWakeup(c)
      PROVE  UNCHANGED vars
  BY <1>5 DEF signalHandler, signalHandlerNotifies, userInputThread, shutdown,
              inputNotifies, SpuriousWakeup, sessionVars
<1>6. UNCHANGED processAndSessionVars => UNCHANGED vars
  BY DEF processAndSessionVars, sessionVars
<1>7. Lines # {}
  BY DEF Lines
<1>8. QED
  BY <1>1, <1>2, <1>3, <1>4, <1>5, <1>6, <1>7 DEF ProcessNext, communicationThread

\* Steps of the main thread and the input thread.
LEMMA InputKeeps ==
  ASSUME ThreadInv, IInv, NEW c \in Clients, NEW line \in Lines,
         \/ signalHandler(c) \/ signalHandlerNotifies(c) \/ userInputThread(c, line)
         \/ shutdown(c) \/ inputNotifies(c) \/ SpuriousWakeup(c)
  PROVE  ThreadInv'
<1> USE DEF ThreadInv, ThreadTypes
<1>0. UNCHANGED phase
  BY DEF signalHandler, signalHandlerNotifies, userInputThread, shutdown, inputNotifies,
         SpuriousWakeup, sessionVars, vars
<1>1. ThreadTypes'
  <2>1. CASE userInputThread(c, line)
    <3>1. Append(command_queue[c], line) \in Seq(Lines) /\ typed[c] + 1 \in Nat
      OBVIOUS
    <3>2. QED
      BY <2>1, <3>1 DEF userInputThread
  <2>2. CASE ~userInputThread(c, line)
    BY <2>2 DEF signalHandler, signalHandlerNotifies, shutdown, inputNotifies,
                SpuriousWakeup, Notify
  <2>3. QED
    BY <2>1, <2>2
<1>2. InStep'
  BY <1>0 DEF signalHandler, signalHandlerNotifies, userInputThread, shutdown,
              inputNotifies, SpuriousWakeup, Notify, InStep
<1>3. EndsByInput'
  BY DEF signalHandler, signalHandlerNotifies, userInputThread, shutdown, inputNotifies,
         SpuriousWakeup, Notify, EndsByInput
<1>4. SleepsOnlyWithoutWork'
  BY DEF signalHandler, signalHandlerNotifies, userInputThread, shutdown, inputNotifies,
         SpuriousWakeup, Notify, SleepsOnlyWithoutWork
<1>5. QED
  BY <1>1, <1>2, <1>3, <1>4

\* Steps of the session.
LEMMA SessionKeeps ==
  ASSUME ThreadInv, IInv, NEW c \in Clients,
         main(c) \/ start(c) \/ communicationThread(c)
  PROVE  ThreadInv'
<1> USE DEF ThreadInv, ThreadTypes
<1>0. phase \in [Clients -> {"off", "discovering", "ready", "waiting"}]
  BY DEF IInv, TypeOK
<1>1. CASE main(c)
  <2>1. phase' = [phase EXCEPT ![c] = "discovering"]
    BY <1>1 DEF main, discoverServer
  <2>2. QED
    BY <1>0, <1>1, <2>1 DEF main, InStep, EndsByInput, SleepsOnlyWithoutWork
<1>2. CASE start(c)
  <2>1. phase[c] = "discovering" /\ phase' = [phase EXCEPT ![c] = "ready"]
    BY <1>2 DEF start, receiveDiscoveryAck
  <2>2. input[c] = "none" /\ comm[c] = "none"
    BY <2>1 DEF InStep
  <2>3. QED
    BY <1>0, <1>2, <2>1, <2>2 DEF start, InStep, EndsByInput, SleepsOnlyWithoutWork
<1>3. CASE tryGetCommandFromQueue(c)
  <2>0. phase[c] = "ready" /\ comm[c] = "taking" /\ UNCHANGED <<finished, input, sigint, typed>>
    BY <1>3 DEF tryGetCommandFromQueue, InStep
  <2>1. CASE command_queue[c] # <<>>
    <3>1. /\ command_queue' = [command_queue EXCEPT ![c] = Tail(command_queue[c])]
          /\ Tail(command_queue[c]) \in Seq(Lines)
      BY <1>3, <2>1 DEF tryGetCommandFromQueue
    <3>2. \/ /\ phase' = [phase EXCEPT ![c] = "waiting"]
             /\ comm' = [comm EXCEPT ![c] = "working"]
          \/ UNCHANGED <<phase, comm>>
      BY <1>3, <2>1, LineCarriedOut
         DEF tryGetCommandFromQueue, executeRequestWithRetries, sessionVars, vars
    <3>3. ThreadTypes' /\ InStep'
      <4>1. command_queue' \in [Clients -> Seq(Lines)]
        BY <3>1
      <4>2. comm' \in [Clients -> {"none", "taking", "asleep", "working", "ended"}]
        BY <3>2
      <4>3. ThreadTypes'
        BY <2>0, <4>1, <4>2
      <4>4. InStep'
        BY <1>0, <2>0, <3>2 DEF InStep
      <4>5. QED
        BY <4>3, <4>4
    <3>4. comm'[c] \in {"taking", "working"} /\ \A x \in Clients \ {c} :
            comm'[x] = comm[x] /\ command_queue'[x] = command_queue[x]
      BY <2>0, <3>1, <3>2
    <3>5. EndsByInput' /\ SleepsOnlyWithoutWork'
      BY <2>0, <3>4 DEF EndsByInput, SleepsOnlyWithoutWork
    <3>6. QED
      BY <3>3, <3>5
  <2>2. CASE command_queue[c] = <<>>
    <3>1. /\ comm' = [comm EXCEPT ![c] = IF finished[c] THEN "ended" ELSE "asleep"]
          /\ UNCHANGED <<phase, command_queue>>
      BY <1>3, <2>2 DEF tryGetCommandFromQueue, sessionVars, vars
    <3>2. QED
      BY <1>0, <2>0, <2>2, <3>1 DEF InStep, EndsByInput, SleepsOnlyWithoutWork
  <2>3. QED
    BY <2>1, <2>2
<1>4. CASE processResponse(c)
  <2>1. /\ comm[c] = "working"
        /\ comm' = [comm EXCEPT ![c] = IF phase'[c] = "ready" THEN "taking" ELSE "working"]
        /\ UNCHANGED <<command_queue, finished, input, sigint, typed>>
    BY <1>4 DEF processResponse
  <2>2. phase[c] = "waiting" /\ (phase' = [phase EXCEPT ![c] = "ready"] \/ phase' = phase)
    BY <1>4 DEF processResponse, ClientStep, retry, receiveResponse
  <2>3. QED
    BY <1>0, <2>1, <2>2 DEF InStep, EndsByInput, SleepsOnlyWithoutWork
<1>5. QED
  BY <1>1, <1>2, <1>3, <1>4 DEF communicationThread

LEMMA ThreadStep ==
  ThreadInv /\ IInv /\ [ProcessNext]_processAndSessionVars => ThreadInv'
<1> SUFFICES ASSUME ThreadInv, IInv, [ProcessNext]_processAndSessionVars PROVE ThreadInv'
  OBVIOUS
<1>1. ASSUME UNCHANGED <<processVars, phase>>
      PROVE  ThreadInv'
  BY <1>1 DEF processVars, ThreadInv, ThreadTypes, InStep, EndsByInput, SleepsOnlyWithoutWork
<1>2. ServerStep => UNCHANGED <<processVars, phase>>
  BY DEF ServerStep, handleDiscoveryPacket, handleTransactionRequest, Serve
<1>3. UNCHANGED processAndSessionVars => UNCHANGED <<processVars, phase>>
  BY DEF processAndSessionVars, sessionVars, vars
<1>4. Lines # {}
  BY DEF Lines
<1>5. QED
  BY <1>1, <1>2, <1>3, <1>4, InputKeeps, SessionKeeps DEF ProcessNext

LEMMA AlwaysThreadInv == ProcessSpec => Spec /\ []ThreadInv
<1>1. ProcessInit => Init /\ ThreadInv
  <2>1. ProcessInit => ThreadTypes
    BY DEF ProcessInit, ThreadTypes
  <2>2. ProcessInit => InStep /\ EndsByInput /\ SleepsOnlyWithoutWork
    BY DEF ProcessInit, Init, InStep, EndsByInput, SleepsOnlyWithoutWork
  <2>3. QED
    BY <2>1, <2>2 DEF ProcessInit, ThreadInv
<1>2. ThreadInv /\ IInv /\ [ProcessNext]_processAndSessionVars
      => [Next]_vars /\ IInv' /\ ThreadInv'
  BY StepOfSession, SessionStep, ThreadStep DEF ThreadInv
<1>3. QED
  BY <1>1, <1>2, SessionInit, PTL DEF ProcessSpec, Spec

\* A client with its queue and threads is a client of the session: what is proved of the
\* session holds of it.
THEOREM ProcessImplementsSession == ProcessSpec => Spec
BY AlwaysThreadInv, PTL

\* Every variable has its type, and a communication thread is at work exactly while its
\* session has a command in progress.
THEOREM ProcessTypeCorrect == ProcessSpec => []ProcessTypeOK
<1>1. IInv /\ ThreadInv => ProcessTypeOK
  BY DEF IInv, ThreadInv, ThreadTypes, InStep, ProcessTypeOK
<1>2. QED
  BY <1>1, AlwaysThreadInv, AlwaysIInv, PTL

\* No wakeup is lost between the input thread, the handler of SIGINT and the
\* communication thread, for any number of lines.
THEOREM NobodySleepsThroughWork == ProcessSpec => []SleepsOnlyWithoutWork
<1>1. ThreadInv => SleepsOnlyWithoutWork
  BY DEF ThreadInv
<1>2. QED
  BY <1>1, AlwaysThreadInv, PTL

\* The end of the input cuts off no line and no command, whatever their number.
THEOREM EndOfInputCutsNothingOff == ProcessSpec => []EndOfInputFinishesWork
<1>1. ThreadInv /\ OnlyLastPending => EndOfInputFinishesWork
  BY DEF ThreadInv, InStep, EndsByInput, OnlyLastPending, EndOfInputFinishesWork
<1>2. QED
  BY <1>1, AlwaysThreadInv, AlwaysOnlyLastPending, PTL
=============================================================================
