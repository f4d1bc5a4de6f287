--------------------------- MODULE ClientSession ----------------------------
(***************************************************************************)
(* Clients that pay each other through one primary server over UDP.        *)
(*                                                                         *)
(* A client process asks for the server by broadcast, then takes the       *)
(* user's commands one at a time: it sends the request, waits for the      *)
(* answer with a timeout and sends it again, MAX_RETRIES times in all.     *)
(* The user may quit and start it again; the new process has a new port    *)
(* and numbers its requests from 1.  The server handles each datagram in a *)
(* thread of its own, so in any order.                                     *)
(*                                                                         *)
(* net holds every datagram ever sent: one that is never taken is lost,    *)
(* one taken again is a copy, one taken late is delayed or overtaken.      *)
(***************************************************************************)
EXTENDS Ledger, FiniteSets

CONSTANTS
  Values,       \* amounts the users ask for
  MaxRetries,   \* MAX_RETRIES, 5 in Client.cpp
  MaxSeqn,      \* bound: the most commands any client may have
  MaxCommands,  \* bound: the commands of each client
  MaxStarts     \* bound: the processes of each client, one after another

ASSUME SessionAssumption ==
  /\ Values \subseteq Int /\ MaxRetries \in Nat \ {0}
  /\ MaxSeqn \in Nat /\ MaxCommands \in [Clients -> 0..MaxSeqn]
  /\ MaxStarts \in [Clients -> Nat]

VARIABLES
  ledger,    \* the server's book
  phase,     \* per client: off, discovering, ready (for a command), waiting (for an answer)
  seqn,      \* Client::sequence_number
  retries,   \* of the command in progress
  port,      \* which process of this address is running: its sockets' port
  net,
  commands,  \* history: per client its commands with the number each used and its outcome
  executed   \* history: the commands carried out, as [client, id]

vars == <<ledger, phase, seqn, retries, port, net, commands, executed>>

Discovery(c, p) == [type |-> "DISCOVERY", client |-> c, port |-> p]

DiscoveryAck(m) == [type |-> "DISCOVERY_ACK", client |-> m.client, port |-> m.port]

\* id is not in the packet: it says which command the packet was sent for.
Request(c, i, d, v) ==
  [type |-> "TRANSACTION_REQ", client |-> c, port |-> port[c], id |-> i,
   dest |-> d, value |-> v, seqn |-> seqn[c]]

Ack(m, status) ==
  [type |-> "TRANSACTION_ACK", client |-> m.client, port |-> m.port,
   seqn |-> m.seqn, status |-> status]

Send(m) == net' = net \cup {m}

Init ==
  /\ ledger = EmptyLedger
  /\ phase = [c \in Clients |-> "off"]
  /\ seqn = [c \in Clients |-> 1]
  /\ retries = [c \in Clients |-> 0]
  /\ port = [c \in Clients |-> 0]
  /\ net = {}
  /\ commands = [c \in Clients |-> <<>>]
  /\ executed = <<>>

-----------------------------------------------------------------------------
(* The server.                                                             *)

\* Mutant: a client that comes back is registered afresh.
handleDiscoveryPacketAfresh(m) ==
  /\ m.type = "DISCOVERY"
  /\ ledger' = [wasClientAdded(ledger, m.client) EXCEPT !.lastReq[m.client] = 0]
  /\ Send(DiscoveryAck(m))
  /\ UNCHANGED <<phase, seqn, retries, port, commands, executed>>

handleDiscoveryPacket(m) ==
  /\ m.type = "DISCOVERY"
  /\ ledger' = wasClientAdded(ledger, m.client)
  /\ Send(DiscoveryAck(m))
  /\ UNCHANGED <<phase, seqn, retries, port, commands, executed>>

Serve(m, result) ==
  /\ ledger' = result.ledger
  /\ Send(Ack(m, result.status))
  /\ executed' = IF result.status = "SUCCESS"
                 THEN Append(executed, [client |-> m.client, id |-> m.id])
                 ELSE executed
  /\ UNCHANGED <<phase, seqn, retries, port, commands>>

handleTransactionRequest(m) ==
  /\ m.type = "TRANSACTION_REQ"
  /\ Serve(m, handleTransactionLogic(ledger, m.client, m.dest, m.value, m.seqn))

-----------------------------------------------------------------------------
(* The client.                                                             *)

Current(c) == commands[c][Len(commands[c])]

\* The outcome of the command in progress, if there is one.
Conclude(c, outcome) ==
  commands' =
    IF phase[c] = "waiting"
    THEN [commands EXCEPT ![c] = [commands[c] EXCEPT ![Len(commands[c])] =
                                   [Current(c) EXCEPT !.outcome = outcome]]]
    ELSE commands

\* A process starts: the first on this address, or one after the previous ended,
\* in the middle of a command or not.
discoverServer(c) ==
  /\ port[c] < MaxStarts[c]
  /\ port' = [port EXCEPT ![c] = port[c] + 1]
  /\ seqn' = [seqn EXCEPT ![c] = 1]
  /\ phase' = [phase EXCEPT ![c] = "discovering"]
  /\ Conclude(c, "ABANDONED")
  /\ Send(Discovery(c, port[c] + 1))
  /\ UNCHANGED <<ledger, retries, executed>>

\* Waiting for the server has no timeout: a lost datagram leaves the client there.
receiveDiscoveryAck(c) ==
  /\ phase[c] = "discovering"
  /\ [type |-> "DISCOVERY_ACK", client |-> c, port |-> port[c]] \in net
  /\ phase' = [phase EXCEPT ![c] = "ready"]
  /\ UNCHANGED <<ledger, seqn, retries, port, net, commands, executed>>

executeRequestWithRetries(c, d, v) ==
  /\ phase[c] = "ready"
  /\ Len(commands[c]) < MaxCommands[c]
  /\ commands' = [commands EXCEPT ![c] =
       Append(commands[c], [dest |-> d, value |-> v, seqn |-> seqn[c], port |-> port[c],
                            outcome |-> "PENDING"])]
  /\ retries' = [retries EXCEPT ![c] = 0]
  /\ phase' = [phase EXCEPT ![c] = "waiting"]
  /\ Send(Request(c, Len(commands[c]) + 1, d, v))
  /\ UNCHANGED <<ledger, seqn, port, executed>>

Resend(c) == Send(Request(c, Len(commands[c]), Current(c).dest, Current(c).value))

\* Mutant: the attempts are not counted.
retryForever(c) ==
  /\ phase[c] = "waiting"
  /\ Resend(c)
  /\ UNCHANGED <<ledger, phase, seqn, retries, port, commands, executed>>

\* Mutant: one attempt too many.
retryOnceMore(c) ==
  /\ phase[c] = "waiting"
  /\ IF retries[c] < MaxRetries
     THEN /\ retries' = [retries EXCEPT ![c] = retries[c] + 1]
          /\ Resend(c)
          /\ UNCHANGED <<phase, commands>>
     ELSE /\ retries' = [retries EXCEPT ![c] = 0]
          /\ phase' = [phase EXCEPT ![c] = "ready"]
          /\ Conclude(c, "NO_RESPONSE")
          /\ UNCHANGED net
  /\ UNCHANGED <<ledger, seqn, port, executed>>

\* The timeout, or a datagram that is no answer to this number: both cost an attempt.
retry(c) ==
  /\ phase[c] = "waiting"
  /\ IF retries[c] + 1 < MaxRetries
     THEN /\ retries' = [retries EXCEPT ![c] = retries[c] + 1]
          /\ Resend(c)
          /\ UNCHANGED <<phase, commands>>
     ELSE /\ retries' = [retries EXCEPT ![c] = 0]
          /\ phase' = [phase EXCEPT ![c] = "ready"]
          /\ Conclude(c, "NO_RESPONSE")
          /\ UNCHANGED net
  /\ UNCHANGED <<ledger, seqn, port, executed>>

\* Mutant: any answer will do.
answersAny(m, c) ==
  m.type = "TRANSACTION_ACK" /\ m.client = c /\ m.port = port[c]

\* An answer is taken for the command in progress if it bears its number.
answers(m, c) ==
  m.type = "TRANSACTION_ACK" /\ m.client = c /\ m.port = port[c] /\ m.seqn = seqn[c]

\* Mutant: a refused command uses its number up.
advancesAlways(status) == TRUE

\* The statuses after which processCommand calls incrementSequenceNumber.
advances(status) == status \in {"SUCCESS", "ERROR_DUPLICATE_REQUEST"}

receiveResponse(c, m) ==
  /\ phase[c] = "waiting"
  /\ answers(m, c)
  /\ seqn' = IF advances(m.status) THEN [seqn EXCEPT ![c] = seqn[c] + 1] ELSE seqn
  /\ retries' = [retries EXCEPT ![c] = 0]
  /\ phase' = [phase EXCEPT ![c] = "ready"]
  /\ Conclude(c, m.status)
  /\ UNCHANGED <<ledger, port, net, executed>>

ClientStep(c) == retry(c) \/ \E m \in net : receiveResponse(c, m)

Next ==
  \/ \E m \in net : handleDiscoveryPacket(m) \/ handleTransactionRequest(m)
  \/ \E c \in Clients :
       \/ discoverServer(c) \/ receiveDiscoveryAck(c)
       \/ \E d \in Clients, v \in Values : executeRequestWithRetries(c, d, v)
       \/ ClientStep(c)

Spec == Init /\ [][Next]_vars

-----------------------------------------------------------------------------
DiscoveryPackets ==
  [type : {"DISCOVERY", "DISCOVERY_ACK"}, client : Clients, port : Nat]

RequestPackets ==
  [type : {"TRANSACTION_REQ"}, client : Clients, port : Nat, id : Nat,
   dest : Clients, value : Values, seqn : Nat]

AckPackets ==
  [type : {"TRANSACTION_ACK"}, client : Clients, port : Nat, seqn : Nat, status : Statuses]

Outcomes == Statuses \cup {"PENDING", "NO_RESPONSE", "ABANDONED"}

Command == [dest : Clients, value : Values, seqn : Nat, port : Nat, outcome : Outcomes]

TypeOK ==
  /\ ledger \in LedgerType
  /\ phase \in [Clients -> {"off", "discovering", "ready", "waiting"}]
  /\ seqn \in [Clients -> Nat] /\ retries \in [Clients -> 0..MaxRetries - 1]
  /\ port \in [Clients -> Nat]
  /\ net \in SUBSET (DiscoveryPackets \cup RequestPackets \cup AckPackets)
  /\ commands \in [Clients -> Seq(Command)]
  /\ executed \in Seq([client : Clients, id : Nat])

\* A client is never ahead of the server: the number it uses, and every number
\* it ever sent, is at most one more than the last the server executed for its
\* address.  So a lone primary never answers that a request is out of sequence,
\* whatever was lost, copied, delayed or restarted.
NeverAhead ==
  /\ \A c \in Clients : seqn[c] \in 1..ledger.lastReq[c] + 1
  /\ \A m \in net : m.type = "TRANSACTION_REQ" =>
        m.seqn <= ledger.lastReq[m.client] + 1
  /\ \A m \in net : m.type = "TRANSACTION_ACK" =>
        m.status # "ERROR_OUT_OF_SEQUENCE"

IsExecuted(c, i) == \E k \in DOMAIN executed : executed[k] = [client |-> c, id |-> i]

\* No earlier command of the same process was given the number.
FirstUse(c, i) ==
  \A j \in 1..i - 1 :
    commands[c][j].port = commands[c][i].port => commands[c][j].seqn # commands[c][i].seqn

\* A user who is told of success was served, and one who is told of a duplicate
\* was served too, as long as the number was not used before: by an earlier
\* command of the process, whose late answers are taken for this one's, nor (for
\* duplicates) by an earlier process, whose numbers the server remembers.
FirstUseIsTruthful ==
  \A c \in Clients : \A i \in DOMAIN commands[c] :
    FirstUse(c, i) =>
      /\ commands[c][i].outcome = "SUCCESS" => IsExecuted(c, i)
      /\ commands[c][i].outcome = "ERROR_DUPLICATE_REQUEST" /\ commands[c][i].port = 1
           => IsExecuted(c, i)

\* What the client says of a duplicate: the server has already processed this
\* request.  Not so if it processed an earlier one that the client gave up, whose
\* number this one bears.
DuplicateMeansProcessed ==
  \A c \in Clients : \A i \in DOMAIN commands[c] :
    commands[c][i].outcome = "ERROR_DUPLICATE_REQUEST" => IsExecuted(c, i)

\* At most once, in order, funded: the session gives its users the service.
T == INSTANCE TransferService WITH
       open <- ledger.registered, accounts <- ledger.balance,
       issued <- [c \in Clients |-> [i \in DOMAIN commands[c] |->
                    [dest |-> commands[c][i].dest, value |-> commands[c][i].value]]]

ServiceSpec == T!Spec

\* The server in a session is the one of module Bank, so what is shown there of
\* any requests holds here.
B == INSTANCE Bank

BankSpec == B!Spec
=============================================================================
