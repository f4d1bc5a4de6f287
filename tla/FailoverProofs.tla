--------------------------- MODULE FailoverProofs ---------------------------
(***************************************************************************)
(* The servers with their books, for any servers, clients, requests and    *)
(* crashes, timely or not: they elect as Election says, so what is proved  *)
(* there holds here; every book, packet and list is of its type; no server *)
(* but a primary has anybody to send its updates to.  And as long as the   *)
(* line of succession is not broken, no payment that was confirmed is lost *)
(* or made again, and heirs have their primary's accounts.                 *)
(***************************************************************************)
EXTENDS Failover, ElectionProofs, LedgerProofs, SequenceTheorems

\* The state of the replication.
Books ==
  /\ book \in [Servers -> LedgerType]
  /\ syncing \in [Servers -> SUBSET Servers]
  /\ snapshot \in [Servers -> LedgerType]
  /\ chan \in [Servers -> Seq(Updates)]
  /\ requests \in [Servers -> SUBSET Requests]
  /\ confirmed \in SUBSET Requests

\* The set of Election is what stands in the vector.
Lists ==
  /\ enlisted \in [Servers -> [Servers -> Nat]]
  /\ \A s \in Servers : backup_servers[s] = {t \in Servers : enlisted[s][t] > 0}

Line ==
  /\ told \in SUBSET (Servers \X Servers)
  /\ outdated \in SUBSET Servers /\ heirs \in SUBSET Servers
  /\ broken \in BOOLEAN

-----------------------------------------------------------------------------
(* The election.                                                           *)

LEMMA ControlOfElection ==
  ASSUME NEW s \in Servers, controlOnly(s) \/ waits(s) \/ promote(s) \/ crash(s)
  PROVE  Next
<1>1. CASE controlOnly(s)
  BY <1>1 DEF controlOnly, ControlStep, Next
<1>2. CASE waits(s)
  BY <1>2 DEF waits, ControlStep, Next
<1>3. CASE promote(s)
  BY <1>3 DEF promote, ControlStep, Next
<1>4. CASE crash(s)
  BY <1>4 DEF crash, Next
<1>5. QED
  BY <1>1, <1>2, <1>3, <1>4

LEMMA DispatchOfElection ==
  ASSUME NEW m \in net, dispatchElection(m.to, m)
  PROVE  Next
<1>1. dispatch(m.to, m)
  BY DEF dispatchElection, enlist, depose, dispatch
<1>2. QED
  BY <1>1 DEF Next

LEMMA ServingIsNoElection ==
  ASSUME NEW s \in Servers, serve(s)
  PROVE  UNCHANGED electionVars
BY DEF serve, handleDiscoveryPacket, handleTransactionRequest, processTransaction,
       receiveUpdate, sendClientSnapshot, sendHistorySnapshot

LEMMA StepOfElection == [FailoverNext]_failoverVars => [Next]_vars
<1>1. FailoverNext => [Next]_vars
  BY ControlOfElection, DispatchOfElection, ServingIsNoElection DEF FailoverNext, electionVars
<1>2. UNCHANGED failoverVars => UNCHANGED vars
  BY DEF failoverVars, electionVars
<1>3. QED
  BY <1>1, <1>2

\* Servers that keep books elect as those without: whatever is promised of the election
\* holds of them.
THEOREM FailoverImplementsElection == FailoverSpec => Spec
<1>1. FailoverInit => Init
  BY DEF FailoverInit
<1>2. QED
  BY <1>1, StepOfElection, PTL DEF FailoverSpec, Spec

-----------------------------------------------------------------------------
(* Packets of the replication, and what a backup makes of them.            *)

LEMMA BookFields ==
  ASSUME NEW L \in LedgerType
  PROVE  /\ L.lastReq \in [Clients -> Nat] /\ L.balance \in [Clients -> Int]
         /\ L.registered \in SUBSET Clients /\ L.history \in Seq(Transaction)
         /\ L.numTransactions \in Nat /\ L.totalTransferred \in Int /\ L.totalBalance \in Int
BY DEF LedgerType

LEMMA ClientUpdateType ==
  ASSUME NEW L \in LedgerType, NEW c \in Clients
  PROVE  ClientUpdate(L, c) \in Updates
<1>1. L.balance[c] \in Int /\ L.lastReq[c] \in Nat
  BY BookFields
<1>2. QED
  BY <1>1 DEF ClientUpdate, ClientUpdates, Updates

LEMMA StateUpdateType ==
  ASSUME NEW L \in LedgerType, L.history # <<>>
  PROVE  StateUpdate(L) \in Updates
<1> DEFINE tx == L.history[Len(L.history)]
<1>1. tx \in Transaction
  BY BookFields
<1>2. tx.source \in Clients /\ tx.dest \in Clients
  BY <1>1 DEF Transaction
<1>3. L.balance[tx.source] \in Int /\ L.balance[tx.dest] \in Int
  BY <1>2, BookFields
<1>4. QED
  BY <1>1, <1>3 DEF StateUpdate, StateUpdates, Updates

LEMMA ClientUpdateHandledType ==
  ASSUME NEW L \in LedgerType, NEW m \in ClientUpdates
  PROVE  handleClientUpdate(L, m) \in LedgerType
<1> DEFINE clients == L.registered \cup {m.client}
           balance == [L.balance EXCEPT ![m.client] = m.balance]
           lastReq == [L.lastReq EXCEPT ![m.client] = m.lastReq]
           total == L.totalBalance + m.balance
           M == [L EXCEPT !.registered = clients, !.balance = balance,
                          !.lastReq = lastReq, !.totalBalance = total]
<1>1. /\ clients \in SUBSET Clients /\ balance \in [Clients -> Int]
      /\ lastReq \in [Clients -> Nat] /\ total \in Int
  BY BookFields DEF ClientUpdates
<1>2. M \in LedgerType
  <2> HIDE DEF clients, balance, lastReq, total
  <2> QED BY <1>1 DEF LedgerType
<1>3. handleClientUpdate(L, m) \in {L, M}
  BY DEF handleClientUpdate
<1>4. QED
  BY <1>2, <1>3

LEMMA HistoryEntryHandledType ==
  ASSUME NEW L \in LedgerType, NEW m, m.transaction \in Transaction
  PROVE  handleHistoryEntry(L, m) \in LedgerType
<1> DEFINE tx == m.transaction
           history == Append(L.history, tx)
           count == L.numTransactions + 1
           total == L.totalTransferred + tx.value
           M == handleHistoryEntry(L, m)
<1>1. tx.value \in Int
  BY DEF Transaction
<1>2. history \in Seq(Transaction)
  BY BookFields
<1>3. count \in Nat /\ total \in Int
  <2> HIDE DEF tx
  <2> QED BY <1>1, BookFields
<1>4. M = [L EXCEPT !.history = history, !.numTransactions = count, !.totalTransferred = total]
  BY DEF handleHistoryEntry
<1>5. M \in LedgerType
  <2> HIDE DEF history, count, total, M
  <2> QED BY <1>2, <1>3, <1>4 DEF LedgerType
<1>6. QED
  BY <1>5

LEMMA StateUpdateHandledType ==
  ASSUME NEW L \in LedgerType, NEW m \in StateUpdates, NEW N \in handleStateUpdate(L, m)
  PROVE  N \in LedgerType
<1> DEFINE s == m.transaction.source
           d == m.transaction.dest
           E == handleHistoryEntry(L, m)
           clients == L.registered \cup {s, d}
           A == [E EXCEPT !.registered = clients]
           one == setBalance(L.balance, d, m.destBalance)
           both == setBalance(setBalance(L.balance, s, m.sourceBalance), d, m.destBalance)
           lastReq == [L.lastReq EXCEPT ![s] = m.transaction.seqn]
           dangling == [A EXCEPT !.balance = one]
           written == [A EXCEPT !.balance = both, !.lastReq = lastReq]
<1>1. m.transaction \in Transaction /\ m.sourceBalance \in Int /\ m.destBalance \in Int
  BY DEF StateUpdates
<1>2. s \in Clients /\ d \in Clients /\ m.transaction.seqn \in Nat
  BY <1>1 DEF Transaction
<1>3. /\ clients \in SUBSET Clients /\ one \in [Clients -> Int]
      /\ both \in [Clients -> Int] /\ lastReq \in [Clients -> Nat]
  BY <1>1, <1>2, BookFields DEF setBalance
<1>4. E \in LedgerType
  BY <1>1, HistoryEntryHandledType
<1>5. A \in LedgerType
  <2> HIDE DEF E, clients
  <2> QED BY <1>3, <1>4 DEF LedgerType
<1>6. dangling \in LedgerType /\ written \in LedgerType
  <2> HIDE DEF A, one, both, lastReq
  <2> QED BY <1>3, <1>5 DEF LedgerType
<1>7. N \in {written, dangling}
  BY DEF handleStateUpdate
<1>8. QED
  BY <1>6, <1>7

LEMMA HandledType ==
  ASSUME NEW L \in LedgerType, NEW m \in Updates, NEW N \in Handled(L, m)
  PROVE  N \in LedgerType
<1>1. CASE m \in ClientUpdates
  <2>1. m.type = "ADD_CLIENT_UPDATE"
    BY <1>1 DEF ClientUpdates
  <2>2. QED
    BY <1>1, <2>1, ClientUpdateHandledType DEF Handled
<1>2. CASE m \in HistoryEntries
  <2>1. m.type = "ADD_HISTORY_ENTRY" /\ m.transaction \in Transaction
    BY <1>2 DEF HistoryEntries
  <2>2. QED
    BY <2>1, HistoryEntryHandledType DEF Handled
<1>3. CASE m \in StateUpdates
  <2>1. m.type = "STATE_UPDATE"
    BY <1>3 DEF StateUpdates
  <2>2. QED
    BY <1>3, <2>1, StateUpdateHandledType DEF Handled
<1>4. QED
  BY <1>1, <1>2, <1>3 DEF Updates

-----------------------------------------------------------------------------
(* Sending.                                                                *)

LEMMA CopiesType ==
  ASSUME NEW S, NEW n \in Nat, NEW m \in S
  PROVE  [k \in 1..n |-> m] \in Seq(S)
OBVIOUS

LEMMA PropagatedType ==
  ASSUME chan \in [Servers -> Seq(Updates)], Lists, NEW s \in Servers, NEW m \in Updates
  PROVE  Propagated(s, m) \in [Servers -> Seq(Updates)]
<1>1. ASSUME NEW t \in Servers
      PROVE  chan[t] \o [k \in 1..enlisted[s][t] |-> m] \in Seq(Updates)
  <2>1. enlisted[s][t] \in Nat /\ chan[t] \in Seq(Updates)
    BY DEF Lists
  <2>2. [k \in 1..enlisted[s][t] |-> m] \in Seq(Updates)
    BY <2>1, CopiesType
  <2>3. QED
    BY <2>1, <2>2, ConcatProperties
<1>2. QED
  BY <1>1 DEF Propagated

LEMMA SendOnType ==
  ASSUME Books, NEW s \in Servers, NEW b \in Servers, NEW rest \in LedgerType,
         SendOn(s, b, rest)
  PROVE  snapshot' \in [Servers -> LedgerType] /\ syncing' \in [Servers -> SUBSET Servers]
<1>1. /\ snapshot \in [Servers -> LedgerType] /\ syncing \in [Servers -> SUBSET Servers]
      /\ EmptyLedger \in LedgerType
  BY EmptyLedgerType DEF Books
<1>2. \/ /\ syncing' = [syncing EXCEPT ![s] = {}]
         /\ snapshot' = [snapshot EXCEPT ![s] = EmptyLedger]
      \/ /\ syncing' = [syncing EXCEPT ![s] = {b}]
         /\ snapshot' = [snapshot EXCEPT ![s] = rest]
  BY DEF SendOn
<1>3. QED
  BY <1>1, <1>2

-----------------------------------------------------------------------------
(* The types.                                                              *)

LEMMA ListsStep ==
  ASSUME TypeOK, Lists, FailoverNext
  PROVE  Lists'
<1> USE DEF Lists
<1>0. \A m \in net : m.to \in Servers /\ m.from \in Servers
  BY DEF TypeOK, Packets
<1>1. ASSUME UNCHANGED <<backup_servers, enlisted>>
      PROVE  Lists'
  BY <1>1
<1>2. ASSUME NEW s \in Servers, controlOnly(s) \/ waits(s)
      PROVE  Lists'
  <2>1. UNCHANGED enlisted
    BY <1>2 DEF controlOnly, waits, bookVars
  <2>2. UNCHANGED backup_servers
    BY <1>2 DEF controlOnly, waits, run_discovery_service_server, initPrimary, timeout,
                endOfWindow, watch, heard, startFirstElection, startElection, sendElection,
                giveUp, announceNewPrimary, heartbeat
  <2>3. QED
    BY <1>1, <2>1, <2>2
<1>3. ASSUME NEW s \in Servers, promote(s)
      PROVE  Lists'
  <2>1. /\ enlisted' = [enlisted EXCEPT ![s] = [t \in Servers |->
                          IF role[s] = "BACKUP" THEN 0 ELSE enlisted[s][t]]]
        /\ backup_servers' = IF role[s] = "BACKUP" THEN [backup_servers EXCEPT ![s] = {}]
                             ELSE backup_servers
    BY <1>3 DEF promote, promoteToPrimary
  <2>2. enlisted' \in [Servers -> [Servers -> Nat]]
    BY <2>1
  <2>3. backup_servers \in [Servers -> SUBSET Servers]
    BY DEF TypeOK
  <2>4. QED
    BY <2>1, <2>2, <2>3
<1>4. ASSUME NEW s \in Servers, crash(s)
      PROVE  Lists'
  <2>1. backup_servers \in [Servers -> SUBSET Servers]
    BY DEF TypeOK
  <2>2. QED
    BY <1>4, <2>1 DEF crash, Crash
<1>5. ASSUME NEW s \in Servers, serve(s)
      PROVE  Lists'
  <2>1. UNCHANGED backup_servers
    BY <1>5, ServingIsNoElection DEF electionVars, vars
  <2>2. UNCHANGED enlisted
    BY <1>5 DEF serve, handleDiscoveryPacket, handleTransactionRequest, processTransaction,
                receiveUpdate, sendClientSnapshot, sendHistorySnapshot
  <2>3. QED
    BY <1>1, <2>1, <2>2
<1>6. ASSUME NEW s \in Servers, NEW m \in net, enlist(s, m)
      PROVE  Lists'
  <2>0. backup_servers \in [Servers -> SUBSET Servers] /\ m.from \in Servers
    BY <1>0 DEF TypeOK
  <2>1. CASE role[s] = "PRIMARY"
    <3>1. /\ enlisted' = [enlisted EXCEPT ![s][m.from] = @ + 1]
          /\ backup_servers' = [backup_servers EXCEPT ![s] = @ \cup {m.from}]
      BY <1>6, <2>1 DEF enlist, registerBackup
    <3>a. /\ enlisted'[s] = [enlisted[s] EXCEPT ![m.from] = @ + 1]
          /\ \A p \in Servers \ {s} : enlisted'[p] = enlisted[p]
          /\ enlisted[s] \in [Servers -> Nat]
          /\ enlisted' = [enlisted EXCEPT ![s] = enlisted'[s]]
      BY <3>1
    <3>2. \A p, t \in Servers :
            enlisted'[p][t] = IF p = s /\ t = m.from THEN enlisted[p][t] + 1
                              ELSE enlisted[p][t]
      BY <2>0, <3>a
    <3>3. enlisted' \in [Servers -> [Servers -> Nat]]
      <4> DEFINE row == enlisted'[s]
      <4>1. row \in [Servers -> Nat] /\ enlisted' = [enlisted EXCEPT ![s] = row]
        BY <2>0, <3>a
      <4> HIDE DEF row
      <4>2. enlisted \in [Servers -> [Servers -> Nat]]
        OBVIOUS
      <4>3. QED
        BY <4>1, <4>2
    <3>4. \A p \in Servers :
            backup_servers'[p] = IF p = s THEN backup_servers[p] \cup {m.from}
                                 ELSE backup_servers[p]
      BY <2>0, <3>1
    <3>5. ASSUME NEW p \in Servers
          PROVE  backup_servers'[p] = {t \in Servers : enlisted'[p][t] > 0}
      <4>1. CASE p = s
        <5>1. ASSUME NEW t \in Servers
              PROVE  enlisted'[p][t] > 0 <=> t = m.from \/ enlisted[p][t] > 0
          <6>1. enlisted[p][t] \in Nat
            OBVIOUS
          <6>2. QED
            BY <3>2, <4>1, <6>1
        <5>2. QED
          BY <2>0, <3>4, <4>1, <5>1
      <4>2. CASE p # s
        <5>1. /\ backup_servers'[p] = backup_servers[p]
              /\ \A t \in Servers : enlisted'[p][t] = enlisted[p][t]
          BY <3>2, <3>4, <4>2
        <5>2. backup_servers[p] = {t \in Servers : enlisted[p][t] > 0}
          OBVIOUS
        <5>3. QED
          BY <5>1, <5>2
      <4>3. QED
        BY <4>1, <4>2
    <3>6. QED
      BY <3>3, <3>5
  <2>2. CASE role[s] # "PRIMARY"
    BY <1>1, <1>6, <2>2 DEF enlist, registerBackup
  <2>3. QED
    BY <2>1, <2>2
<1>7. ASSUME NEW s \in Servers, NEW m \in net, depose(s, m)
      PROVE  Lists'
  <2>1. backup_servers \in [Servers -> SUBSET Servers]
    BY DEF TypeOK
  <2>2. /\ enlisted' = [enlisted EXCEPT ![s] = [t \in Servers |->
                          IF server_id[m.from] # server_id[s] THEN 0 ELSE enlisted[s][t]]]
        /\ backup_servers' = [backup_servers EXCEPT
                                ![s] = IF server_id[m.from] # server_id[s] THEN {} ELSE @]
    BY <1>7 DEF depose, handleNewPrimaryAnnouncementPacket
  <2>3. enlisted' \in [Servers -> [Servers -> Nat]]
    BY <2>2
  <2>4. QED
    BY <2>1, <2>2, <2>3
<1>8. ASSUME NEW m \in net, dispatchElection(m.to, m)
      PROVE  Lists'
  <2>1. CASE enlist(m.to, m) \/ depose(m.to, m)
    BY <1>0, <1>6, <1>7, <2>1
  <2>2. CASE ~(enlist(m.to, m) \/ depose(m.to, m))
    <3>1. UNCHANGED <<backup_servers, enlisted>>
      BY <1>8, <2>2 DEF dispatchElection, bookVars, initBackup, discard, sendDiscoveryAck,
                        handleElectionPacket, handleElectionAnswerPacket
    <3>2. QED
      BY <1>1, <3>1
  <2>3. QED
    BY <2>1, <2>2
<1>9. QED
  BY <1>2, <1>3, <1>4, <1>5, <1>8 DEF FailoverNext

\* A request carried out by one server, whoever it is at the time.
LEMMA TransactionBooks ==
  ASSUME Books, Lists, NEW s \in Servers, NEW r \in Requests, processTransaction(s, r)
  PROVE  Books'
<1> DEFINE result == handleTransactionLogic(book[s], r.source, r.dest, r.value, r.seqn)
           M == updateAndLogTransaction(executeTransaction(book[s], r.source, r.dest, r.value, r.seqn),
                                        r.source, r.dest, r.value, r.seqn)
<1>1. /\ r.source \in Clients /\ r.dest \in Clients /\ r.value \in Int /\ r.seqn \in Nat
      /\ book[s] \in LedgerType
  BY FailoverAssumption DEF Books
<1>2. result.ledger \in LedgerType
  BY <1>1, StatusEffect
<1>3. result.status = "SUCCESS" => StateUpdate(result.ledger) \in Updates
  <2>1. ASSUME NEW N, N = M
        PROVE  N.history # <<>>
    <3>1. N.history = Append(book[s].history,
                             newTransaction(book[s], r.source, r.dest, r.value, r.seqn))
      BY <1>1, <2>1, ExecutionFields
    <3>2. book[s].history \in Seq(Transaction)
      BY <1>1, BookFields
    <3>3. QED
      BY <3>1, <3>2, AppendProperties
  <2>2. result.status = "SUCCESS" => result.ledger = M
    BY DEF handleTransactionLogic
  <2> HIDE DEF M
  <2>3. QED
    BY <1>2, <2>1, <2>2, StateUpdateType
<1> HIDE DEF M
<1>4. /\ requests' = [requests EXCEPT ![s] = @ \ {r}]
      /\ book' = [book EXCEPT ![s] = result.ledger]
      /\ chan' = IF result.status = "SUCCESS" /\ role[s] = "PRIMARY"
                 THEN Propagated(s, StateUpdate(result.ledger)) ELSE chan
      /\ confirmed' = IF result.status = "SUCCESS" THEN confirmed \cup {r} ELSE confirmed
      /\ UNCHANGED <<syncing, snapshot>>
  BY DEF processTransaction
<1> HIDE DEF result
<1>5. chan' \in [Servers -> Seq(Updates)]
  BY <1>3, <1>4, PropagatedType DEF Books
<1>6. QED
  BY <1>2, <1>4, <1>5 DEF Books

LEMMA ServiceBooks ==
  ASSUME Books, Lists, NEW s \in Servers, serve(s)
  PROVE  Books'
<1>1. ASSUME NEW c \in Clients, handleDiscoveryPacket(s, c)
      PROVE  Books'
  <2>1. wasClientAdded(book[s], c) \in LedgerType
    BY RegistrationEffect DEF Books
  <2>2. /\ book' = [book EXCEPT ![s] = wasClientAdded(book[s], c)]
        /\ chan' = IF findClient(book[s], c) THEN chan
                   ELSE Propagated(s, ClientUpdate(book'[s], c))
        /\ UNCHANGED <<syncing, snapshot, requests, confirmed>>
    BY <1>1 DEF handleDiscoveryPacket
  <2>3. book' \in [Servers -> LedgerType]
    BY <2>1, <2>2 DEF Books
  <2>4. ClientUpdate(book'[s], c) \in Updates
    BY <2>3, ClientUpdateType
  <2>5. chan' \in [Servers -> Seq(Updates)]
    BY <2>2, <2>4, PropagatedType DEF Books
  <2>6. QED
    BY <2>2, <2>3, <2>5 DEF Books
<1>2. ASSUME NEW r \in Requests, handleTransactionRequest(s, r)
      PROVE  Books'
  BY <1>2 DEF handleTransactionRequest, Books
<1>3. CASE receiveUpdate(s)
  <2>1. /\ chan[s] \in Seq(Updates) /\ chan[s] # <<>> /\ book[s] \in LedgerType
    BY <1>3 DEF receiveUpdate, Books
  <2>2. Head(chan[s]) \in Updates /\ Tail(chan[s]) \in Seq(Updates)
    BY <2>1
  <2>3. PICK L \in (IF role[s] = "BACKUP" THEN Handled(book[s], Head(chan[s])) ELSE {book[s]}) :
          book' = [book EXCEPT ![s] = L]
    BY <1>3 DEF receiveUpdate
  <2>4. L \in LedgerType
    BY <2>1, <2>2, <2>3, HandledType
  <2>5. /\ chan' = [chan EXCEPT ![s] = Tail(chan[s])]
        /\ UNCHANGED <<syncing, snapshot, requests, confirmed>>
    BY <1>3 DEF receiveUpdate
  <2>6. QED
    BY <2>2, <2>3, <2>4, <2>5 DEF Books
<1>4. ASSUME NEW b \in Servers, sendClientSnapshot(s, b)
      PROVE  Books'
  <2>1. PICK c \in snapshot[s].registered :
          /\ chan' = IF Up(b) THEN [chan EXCEPT ![b] = Append(@, ClientUpdate(snapshot[s], c))]
                     ELSE chan
          /\ SendOn(s, b, [snapshot[s] EXCEPT !.registered = @ \ {c}])
    BY <1>4 DEF sendClientSnapshot
  <2>2. snapshot[s] \in LedgerType
    BY DEF Books
  <2>3. [snapshot[s] EXCEPT !.registered = @ \ {c}] \in LedgerType /\ c \in Clients
    <3>1. snapshot[s].registered \ {c} \in SUBSET Clients /\ c \in Clients
      BY <2>2, BookFields
    <3>2. QED
      BY <2>2, <3>1 DEF LedgerType
  <2>4. ClientUpdate(snapshot[s], c) \in Updates
    BY <2>2, <2>3, ClientUpdateType
  <2>5. chan' \in [Servers -> Seq(Updates)]
    BY <2>1, <2>4 DEF Books
  <2>6. snapshot' \in [Servers -> LedgerType] /\ syncing' \in [Servers -> SUBSET Servers]
    BY <2>1, <2>3, SendOnType
  <2>7. UNCHANGED <<book, requests, confirmed>>
    BY <1>4 DEF sendClientSnapshot
  <2>8. QED
    BY <2>5, <2>6, <2>7 DEF Books
<1>5. ASSUME NEW b \in Servers, sendHistorySnapshot(s, b)
      PROVE  Books'
  <2>1. /\ snapshot[s].history # <<>>
        /\ chan' = IF Up(b)
                   THEN [chan EXCEPT ![b] = Append(@, HistoryEntry(Head(snapshot[s].history)))]
                   ELSE chan
        /\ SendOn(s, b, [snapshot[s] EXCEPT !.history = Tail(@)])
    BY <1>5 DEF sendHistorySnapshot
  <2>2. snapshot[s] \in LedgerType /\ snapshot[s].history \in Seq(Transaction)
    BY BookFields DEF Books
  <2>3. /\ Head(snapshot[s].history) \in Transaction
        /\ Tail(snapshot[s].history) \in Seq(Transaction)
    BY <2>1, <2>2
  <2>4. [snapshot[s] EXCEPT !.history = Tail(@)] \in LedgerType
    BY <2>2, <2>3 DEF LedgerType
  <2>5. HistoryEntry(Head(snapshot[s].history)) \in Updates
    BY <2>3 DEF HistoryEntry, HistoryEntries, Updates
  <2>6. chan' \in [Servers -> Seq(Updates)]
    BY <2>1, <2>5 DEF Books
  <2>7. snapshot' \in [Servers -> LedgerType] /\ syncing' \in [Servers -> SUBSET Servers]
    BY <2>1, <2>4, SendOnType
  <2>8. UNCHANGED <<book, requests, confirmed>>
    BY <1>5 DEF sendHistorySnapshot
  <2>9. QED
    BY <2>6, <2>7, <2>8 DEF Books
<1>6. QED
  BY <1>1, <1>2, <1>3, <1>4, <1>5, TransactionBooks DEF serve

LEMMA BooksStep ==
  ASSUME TypeOK, Books, Lists, FailoverNext
  PROVE  Books'
<1>0. \A m \in net : m.to \in Servers /\ m.from \in Servers
  BY DEF TypeOK, Packets
<1>1. ASSUME NEW s \in Servers, controlOnly(s) \/ waits(s) \/ promote(s)
      PROVE  Books'
  BY <1>1 DEF controlOnly, waits, promote, bookVars, Books
<1>2. ASSUME NEW s \in Servers, crash(s)
      PROVE  Books'
  <2>1. EmptyLedger \in LedgerType /\ <<>> \in Seq(Updates)
    BY EmptyLedgerType
  <2>2. QED
    BY <1>2, <2>1 DEF crash, Books
<1>3. ASSUME NEW m \in net, dispatchElection(m.to, m)
      PROVE  Books'
  <2>1. CASE enlist(m.to, m) /\ role[m.to] = "PRIMARY"
    <3>1. snapshot' \in [Servers -> LedgerType] /\ syncing' \in [Servers -> SUBSET Servers]
      <4>1. book[m.to] \in LedgerType
        BY <1>0 DEF Books
      <4>2. SendOn(m.to, m.from, book[m.to])
        BY <2>1 DEF enlist
      <4>3. QED
        BY <1>0, <4>1, <4>2, SendOnType
    <3>2. UNCHANGED <<book, chan, requests, confirmed>>
      BY <2>1 DEF enlist
    <3>3. QED
      BY <3>1, <3>2 DEF Books
  <2>2. CASE ~(enlist(m.to, m) /\ role[m.to] = "PRIMARY")
    BY <1>3, <2>2 DEF dispatchElection, enlist, depose, bookVars, Books
  <2>3. QED
    BY <2>1, <2>2
<1>4. QED
  BY <1>1, <1>2, <1>3, ServiceBooks DEF FailoverNext

LEMMA LineStep ==
  ASSUME Line, FailoverNext
  PROVE  Line'
<1>1. Succession
  BY DEF FailoverNext
<1>2. NewPrimaries \in SUBSET Servers /\ {b \in Servers : Settled(b)} \in SUBSET Servers
  BY DEF NewPrimaries
<1>3. told' \in SUBSET (Servers \X Servers) /\ outdated' \in SUBSET Servers
  BY <1>1 DEF Succession
<1>4. heirs' \in SUBSET Servers
  BY <1>1, <1>2 DEF Succession, Line
<1>5. broken' \in BOOLEAN
  BY <1>1 DEF Succession, Line
<1>6. QED
  BY <1>3, <1>4, <1>5 DEF Line

LEMMA FailoverStep == FailoverTypeOK /\ [FailoverNext]_failoverVars => FailoverTypeOK'
<1>1. FailoverTypeOK <=> TypeOK /\ Books /\ Lists /\ Line
  BY DEF FailoverTypeOK, Books, Lists, Line
<1>2. FailoverTypeOK' <=> TypeOK' /\ Books' /\ Lists' /\ Line'
  BY DEF FailoverTypeOK, Books, Lists, Line
<1>3. TypeOK /\ [FailoverNext]_failoverVars => TypeOK'
  BY StepOfElection, TypeCorrectStep
<1>4. CASE FailoverNext
  BY <1>1, <1>2, <1>3, <1>4, BooksStep, ListsStep, LineStep
<1>5. CASE UNCHANGED failoverVars
  <2>1. Books /\ Lists /\ Line => Books' /\ Lists' /\ Line'
    BY <1>5 DEF failoverVars, electionVars, vars, bookVars, Books, Lists, Line
  <2>2. QED
    BY <1>1, <1>2, <1>3, <1>5, <2>1
<1>6. QED
  BY <1>4, <1>5

\* Books, snapshots, packets and lists stay what they should be through elections, crashes
\* and restarts, of any number of servers; and the addresses a server sends to are those
\* that Election has on its list.
THEOREM FailoverTypeCorrect == FailoverSpec => []FailoverTypeOK
<1>1. FailoverInit => FailoverTypeOK
  <2>1. FailoverInit => TypeOK
    BY ElectionAssumption DEF FailoverInit, Init, TypeOK, Dispatching
  <2>2. FailoverInit => Books
    <3>1. <<>> \in Seq(Updates) /\ EmptyLedger \in LedgerType
      BY EmptyLedgerType
    <3>2. QED
      BY <3>1 DEF FailoverInit, Books
  <2>3. FailoverInit => Lists /\ Line
    <3> SUFFICES ASSUME FailoverInit PROVE Lists /\ Line
      OBVIOUS
    <3>1. /\ backup_servers = [s \in Servers |-> {}]
          /\ enlisted = [s \in Servers |-> [t \in Servers |-> 0]]
      BY DEF FailoverInit, Init
    <3>2. enlisted \in [Servers -> [Servers -> Nat]]
      BY <3>1
    <3>3. \A s, t \in Servers : ~(enlisted[s][t] > 0)
      BY <3>1
    <3>4. \A s \in Servers : backup_servers[s] = {t \in Servers : enlisted[s][t] > 0}
      BY <3>1, <3>3
    <3>5. Line
      BY DEF FailoverInit, Line
    <3>6. QED
      BY <3>2, <3>4, <3>5 DEF Lists
  <2>4. QED
    BY <2>1, <2>2, <2>3 DEF FailoverTypeOK, Books, Lists, Line
<1>2. QED
  BY <1>1, FailoverStep, PTL DEF FailoverSpec

\* A deposed primary whose threads still carry out requests, and any other server that is
\* not the primary, sends its updates to nobody.
THEOREM OnlyPrimariesPropagate ==
  FailoverSpec => [](\A s, t \in Servers : enlisted[s][t] > 0 => role[s] = "PRIMARY")
<1>1. /\ FailoverTypeOK /\ OnlyPrimariesEnlist
      => \A s, t \in Servers : enlisted[s][t] > 0 => role[s] = "PRIMARY"
  BY DEF FailoverTypeOK, OnlyPrimariesEnlist
<1>2. QED
  BY <1>1, FailoverTypeCorrect, FailoverImplementsElection, OnlyPrimariesHaveBackups, PTL

-----------------------------------------------------------------------------
(* The kinds of steps, by what they do to the roles and to the books.      *)

\* Nobody's role changes, nor any book; a process may start.
Still ==
  /\ UNCHANGED <<role, bookVars>>
  /\ \A s \in Servers : Up(s) => Up(s)'

UpAsBefore == \A s \in Servers : Up(s)' <=> Up(s)

\* The process at s knows its role for the first time.
Joins(s) ==
  /\ role[s] = "unset" /\ Up(s) /\ role' = [role EXCEPT ![s] = "BACKUP"]
  /\ UpAsBefore
  /\ UNCHANGED bookVars

TakesOver(s) ==
  /\ role[s] = "BACKUP" /\ role' = [role EXCEPT ![s] = "PRIMARY"]
  /\ UpAsBefore
  /\ UNCHANGED bookVars

\* p begins a snapshot for b.
Enlists(p, b) ==
  /\ role[p] = "PRIMARY" /\ syncing[p] = {}
  /\ enlisted' = [enlisted EXCEPT ![p][b] = @ + 1]
  /\ SendOn(p, b, book[p])
  /\ UpAsBefore
  /\ UNCHANGED <<role, book, chan, requests, confirmed>>

Kinds ==
  \/ Still
  \/ \E s \in Servers :
       \/ Joins(s) \/ TakesOver(s) \/ crash(s)
       \/ UNCHANGED electionVars /\ serve(s)
       \/ \E b \in Servers : Enlists(s, b)

LEMMA NoListIsEmptied ==
  ASSUME FailoverTypeOK, OnlyPrimariesEnlist, NEW s \in Servers, role[s] # "PRIMARY"
  PROVE  enlisted[s] = [t \in Servers |-> 0]
<1>1. enlisted[s] \in [Servers -> Nat]
  BY DEF FailoverTypeOK
<1>2. ASSUME NEW t \in Servers
      PROVE  enlisted[s][t] = 0
  <2>1. backup_servers[s] = {} /\ backup_servers[s] = {u \in Servers : enlisted[s][u] > 0}
    BY DEF FailoverTypeOK, OnlyPrimariesEnlist
  <2>2. ~(enlisted[s][t] > 0) /\ enlisted[s][t] \in Nat
    BY <1>1, <2>1
  <2>3. QED
    BY <2>2
<1>3. QED
  BY <1>1, <1>2

LEMMA KindOfControl ==
  ASSUME FailoverTypeOK, NEW s \in Servers, controlOnly(s) \/ waits(s)
  PROVE  Still \/ Joins(s)
<1>0. /\ control \in [Servers -> {"down", "discovering", "starting", "watching", "waiting",
           "electing", "window", "deciding", "promoted", "idle"}]
      /\ role \in [Servers -> {"PRIMARY", "BACKUP", "unset"}]
      /\ \A t \in Servers : Dispatching(t) <=> role[t] # "unset"
  BY DEF FailoverTypeOK, TypeOK
<1>1. CASE initPrimary(s) /\ waits(s)
  BY <1>0, <1>1 DEF initPrimary, waits, Goto, Joins, UpAsBefore, Up, Dispatching
<1>2. CASE ~(initPrimary(s) /\ waits(s))
  <2>1. UNCHANGED <<role, bookVars>>
    BY <1>2 DEF controlOnly, waits, run_discovery_service_server, timeout, endOfWindow, watch,
                heard, startFirstElection, startElection, sendElection, giveUp,
                announceNewPrimary, heartbeat
  <2>2. \A t \in Servers : Up(t) => Up(t)'
    BY <1>0, <1>2 DEF controlOnly, waits, run_discovery_service_server, timeout, endOfWindow,
                watch, heard, startFirstElection, startElection, sendElection, giveUp,
                announceNewPrimary, heartbeat, Goto, Up
  <2>3. QED
    BY <2>1, <2>2 DEF Still
<1>3. QED
  BY <1>1, <1>2

LEMMA KindOfPromotion ==
  ASSUME FailoverTypeOK, OnlyPrimariesEnlist, NEW s \in Servers, promote(s)
  PROVE  Still \/ TakesOver(s)
<1>0. /\ control \in [Servers -> {"down", "discovering", "starting", "watching", "waiting",
           "electing", "window", "deciding", "promoted", "idle"}]
      /\ enlisted \in [Servers -> [Servers -> Nat]]
  BY DEF FailoverTypeOK, TypeOK
<1>1. UpAsBefore
  BY <1>0 DEF promote, promoteToPrimary, Goto, UpAsBefore, Up
<1>2. UNCHANGED enlisted
  <2>1. CASE role[s] = "BACKUP"
    <3>1. enlisted[s] = [t \in Servers |-> 0]
      BY <2>1, NoListIsEmptied
    <3>2. enlisted' = [enlisted EXCEPT ![s] = [t \in Servers |-> 0]]
      BY <2>1 DEF promote
    <3>3. QED
      BY <1>0, <3>1, <3>2
  <2>2. CASE role[s] # "BACKUP"
    <3>1. enlisted' = [enlisted EXCEPT ![s] = [t \in Servers |-> enlisted[s][t]]]
      BY <2>2 DEF promote
    <3>2. enlisted[s] = [t \in Servers |-> enlisted[s][t]]
      BY <1>0
    <3>3. QED
      BY <1>0, <3>1, <3>2
  <2>3. QED
    BY <2>1, <2>2
<1>3. UNCHANGED bookVars
  BY <1>2 DEF promote, bookVars
<1>4. CASE role[s] = "BACKUP"
  BY <1>1, <1>3, <1>4 DEF promote, promoteToPrimary, TakesOver
<1>5. CASE role[s] # "BACKUP"
  BY <1>1, <1>3, <1>5 DEF promote, promoteToPrimary, Still, UpAsBefore
<1>6. QED
  BY <1>4, <1>5

\* Unless a primary is deposed.
LEMMA KindOfDispatch ==
  ASSUME FailoverTypeOK, OnlyPrimariesEnlist, NEW m \in net, dispatchElection(m.to, m),
         \A p \in Servers : ~(role[p] = "PRIMARY" /\ role'[p] = "BACKUP")
  PROVE  Still \/ Joins(m.to) \/ Enlists(m.to, m.from)
<1> DEFINE s == m.to
<1>0. /\ control \in [Servers -> {"down", "discovering", "starting", "watching", "waiting",
           "electing", "window", "deciding", "promoted", "idle"}]
      /\ role \in [Servers -> {"PRIMARY", "BACKUP", "unset"}]
      /\ \A t \in Servers : Dispatching(t) <=> role[t] # "unset"
      /\ enlisted \in [Servers -> [Servers -> Nat]]
      /\ m.to \in Servers /\ m.from \in Servers
  BY DEF FailoverTypeOK, TypeOK, Packets
<1>1. CASE initBackup(s, m) /\ UNCHANGED bookVars
  BY <1>0, <1>1 DEF initBackup, Joins, UpAsBefore, Up, Dispatching
<1>2. CASE enlist(s, m) /\ role[s] = "PRIMARY"
  <2>1. UpAsBefore /\ UNCHANGED role
    BY <1>2 DEF enlist, registerBackup, UpAsBefore, Up
  <2>2. QED
    BY <1>2, <2>1 DEF enlist, Enlists, dispatchElection
<1>3. CASE enlist(s, m) /\ role[s] # "PRIMARY"
  BY <1>3 DEF enlist, registerBackup, Still, Up, bookVars
<1>4. CASE depose(s, m)
  <2>1. UpAsBefore
    BY <1>4 DEF depose, handleNewPrimaryAnnouncementPacket, UpAsBefore, Up
  <2>2. CASE server_id[m.from] = server_id[s]
    <3>1. UNCHANGED role
      BY <1>0, <1>4, <2>2 DEF depose, handleNewPrimaryAnnouncementPacket
    <3>2. enlisted' = [enlisted EXCEPT ![s] = [t \in Servers |-> enlisted[s][t]]]
      BY <1>4, <2>2 DEF depose
    <3>3. enlisted[s] = [t \in Servers |-> enlisted[s][t]]
      BY <1>0
    <3>4. UNCHANGED enlisted
      BY <1>0, <3>2, <3>3
    <3>5. QED
      BY <1>4, <2>1, <3>1, <3>4 DEF depose, Still, bookVars, UpAsBefore
  <2>3. CASE server_id[m.from] # server_id[s]
    <3>1. role' = [role EXCEPT ![s] = "BACKUP"] /\ role[s] # "unset"
      BY <1>0, <1>4, <2>3 DEF depose, handleNewPrimaryAnnouncementPacket
    <3>2. role[s] = "BACKUP"
      BY <1>0, <3>1
    <3>3. UNCHANGED role
      BY <1>0, <3>1, <3>2
    <3>4. enlisted' = [enlisted EXCEPT ![s] = [t \in Servers |-> 0]]
      BY <1>4, <2>3 DEF depose
    <3>5. enlisted[s] = [t \in Servers |-> 0]
      BY <1>0, <3>2, NoListIsEmptied
    <3>6. UNCHANGED enlisted
      BY <1>0, <3>4, <3>5
    <3>7. QED
      BY <1>4, <2>1, <3>3, <3>6 DEF depose, Still, bookVars, UpAsBefore
  <2>4. QED
    BY <2>2, <2>3
<1>5. CASE /\ \/ discard(s, m) \/ sendDiscoveryAck(s, m)
              \/ handleElectionPacket(s, m) \/ handleElectionAnswerPacket(s, m)
           /\ UNCHANGED bookVars
  BY <1>5 DEF discard, sendDiscoveryAck, handleElectionPacket, handleElectionAnswerPacket,
              Still, Up
<1>6. QED
  BY <1>1, <1>2, <1>3, <1>4, <1>5 DEF dispatchElection

LEMMA KindOfStep ==
  ASSUME FailoverTypeOK, OnlyPrimariesEnlist, FailoverNext, ~broken'
  PROVE  Kinds
<1>1. \A p \in Servers : ~(role[p] = "PRIMARY" /\ role'[p] = "BACKUP")
  BY DEF FailoverNext, Succession
<1>2. \A m \in net : m.to \in Servers /\ m.from \in Servers
  BY DEF FailoverTypeOK, TypeOK, Packets
<1>3. ASSUME NEW s \in Servers, controlOnly(s) \/ waits(s) \/ promote(s)
      PROVE  Kinds
  BY <1>3, KindOfControl, KindOfPromotion DEF Kinds
<1>4. ASSUME NEW s \in Servers, serve(s)
      PROVE  Kinds
  BY <1>4, ServingIsNoElection DEF Kinds
<1>5. ASSUME NEW m \in net, dispatchElection(m.to, m)
      PROVE  Kinds
  BY <1>1, <1>2, <1>5, KindOfDispatch DEF Kinds
<1>6. QED
  BY <1>3, <1>4, <1>5 DEF FailoverNext, Kinds

-----------------------------------------------------------------------------
(* The line of succession, as long as it is not broken.                    *)

OneLeader == \A p, q \in Servers : role[p] = "PRIMARY" /\ role[q] = "PRIMARY" => p = q

LeadersInherit == \A p \in Servers : role[p] = "PRIMARY" => p \in heirs

HeirsServe == \A b \in heirs : role[b] # "unset"

OnlyLeadersWork ==
  \A s \in Servers : requests[s] # {} \/ syncing[s] # {} => role[s] = "PRIMARY"

ToldByLeader ==
  \A p, b \in Servers :
    <<p, b>> \in told => role[p] = "PRIMARY" /\ role[b] = "BACKUP" /\ enlisted[p][b] > 0

HeirsUpToDate == \A b \in heirs : role[b] = "BACKUP" => b \notin outdated

TellsTheTold ==
  \A p, b \in Servers : b \in syncing[p] /\ Up(b) /\ b \notin outdated => <<p, b>> \in told

NothingYet ==
  heirs = {} => confirmed = {} /\ \A s \in Servers : book[s] = EmptyLedger /\ chan[s] = <<>>

NothingAtTheDown == \A s \in Servers : ~Up(s) => chan[s] = <<>>

OneSnapshot == \A s \in Servers : \A b, c \in syncing[s] : b = c

LineOK ==
  /\ OneLeader /\ LeadersInherit /\ HeirsServe /\ OnlyLeadersWork /\ ToldByLeader
  /\ HeirsUpToDate /\ TellsTheTold /\ NothingYet /\ NothingAtTheDown /\ OneSnapshot

\* A step that does not break the line.
Advance ==
  /\ FailoverTypeOK /\ FailoverTypeOK' /\ OnlyPrimariesEnlist
  /\ Kinds /\ Succession
  /\ ~broken /\ ~broken'
  /\ LineOK

LEMMA RolesKnown ==
  ASSUME FailoverTypeOK
  PROVE  /\ role \in [Servers -> {"PRIMARY", "BACKUP", "unset"}]
         /\ \A s \in Servers : role[s] # "unset" => Up(s)
BY DEF FailoverTypeOK, TypeOK, Dispatching, Up

LEMMA CrashRoles ==
  ASSUME FailoverTypeOK, NEW s \in Servers, crash(s)
  PROVE  /\ role' = [role EXCEPT ![s] = "unset"]
         /\ \A t \in Servers : Up(t)' <=> Up(t) /\ t # s
<1>1. control' = [control EXCEPT ![s] = "down"] /\ role' = [role EXCEPT ![s] = "unset"]
  BY DEF crash, Crash
<1>2. control \in [Servers -> {"down", "discovering", "starting", "watching", "waiting",
           "electing", "window", "deciding", "promoted", "idle"}]
  BY DEF FailoverTypeOK, TypeOK
<1>3. QED
  BY <1>1, <1>2 DEF Up

LEMMA ServingRoles ==
  ASSUME UNCHANGED electionVars
  PROVE  UNCHANGED role /\ UpAsBefore
BY DEF electionVars, vars, UpAsBefore, Up

\* What becomes of the role of t, and whether it runs after the step.
RoleOf(t) ==
  /\ \/ role'[t] = role[t]
     \/ role'[t] = "unset" /\ ~Up(t)' /\ crash(t)
     \/ role[t] = "unset" /\ role'[t] = "BACKUP" /\ Joins(t)
     \/ role[t] = "BACKUP" /\ role'[t] = "PRIMARY" /\ TakesOver(t)
  /\ Up(t)' => Up(t) \/ (Still /\ role[t] = "unset" /\ role'[t] = "unset")

LEMMA RoleStep == ASSUME Advance, NEW t \in Servers PROVE RoleOf(t)
<1> USE DEF RoleOf
<1>0. FailoverTypeOK /\ Kinds
  BY DEF Advance
<1>1. CASE Still
  BY <1>0, <1>1, RolesKnown DEF Still
<1>2. ASSUME NEW s \in Servers, Joins(s) \/ TakesOver(s)
      PROVE  RoleOf(t)
  BY <1>0, <1>2, RolesKnown DEF Joins, TakesOver, UpAsBefore
<1>3. ASSUME NEW s \in Servers, crash(s)
      PROVE  RoleOf(t)
  BY <1>0, <1>3, CrashRoles, RolesKnown
<1>4. ASSUME NEW s \in Servers, UNCHANGED electionVars /\ serve(s)
      PROVE  RoleOf(t)
  BY <1>4, ServingRoles DEF UpAsBefore
<1>5. ASSUME NEW s \in Servers, NEW b \in Servers, Enlists(s, b)
      PROVE  RoleOf(t)
  BY <1>5 DEF Enlists, UpAsBefore
<1>6. QED
  BY <1>0, <1>1, <1>2, <1>3, <1>4, <1>5 DEF Kinds

\* Whom the snapshots and the lists of a step are for.
LEMMA Listing ==
  ASSUME Advance, NEW p \in Servers, NEW b \in Servers
  PROVE  /\ enlisted'[p][b] > enlisted[p][b] => Enlists(p, b)
         /\ enlisted'[p][b] >= enlisted[p][b] \/ crash(p)
         /\ b \in syncing'[p] => (b \in syncing[p] \/ Enlists(p, b)) /\ ~crash(p)
         /\ crash(p) => enlisted'[p][b] = 0
<1> DEFINE Goal == /\ enlisted'[p][b] > enlisted[p][b] => Enlists(p, b)
                   /\ enlisted'[p][b] >= enlisted[p][b] \/ crash(p)
                   /\ b \in syncing'[p] => b \in syncing[p] \/ Enlists(p, b)
<1>0. /\ FailoverTypeOK /\ Kinds
      /\ enlisted \in [Servers -> [Servers -> Nat]] /\ enlisted[p][b] \in Nat
      /\ syncing \in [Servers -> SUBSET Servers]
  <2>1. /\ FailoverTypeOK /\ Kinds
        /\ enlisted \in [Servers -> [Servers -> Nat]]
        /\ syncing \in [Servers -> SUBSET Servers]
    BY DEF Advance, FailoverTypeOK
  <2>2. QED
    BY <2>1
<1>1. ASSUME UNCHANGED <<enlisted, syncing>>
      PROVE  Goal
  BY <1>0, <1>1
<1>2. ASSUME NEW s \in Servers, crash(s)
      PROVE  Goal
  <2>1. CASE s = p
    BY <1>0, <1>2, <2>1 DEF crash
  <2>2. CASE s # p
    <3>1. enlisted'[p] = enlisted[p] /\ syncing'[p] = syncing[p]
      BY <1>0, <1>2, <2>2 DEF crash
    <3>2. QED
      BY <1>0, <3>1
  <2>3. QED
    BY <2>1, <2>2
<1>3. ASSUME NEW s \in Servers, serve(s)
      PROVE  Goal
  <2>1. UNCHANGED enlisted
    BY <1>3 DEF serve, handleDiscoveryPacket, handleTransactionRequest, processTransaction,
                receiveUpdate, sendClientSnapshot, sendHistorySnapshot
  <2>2. \/ UNCHANGED syncing
        \/ \E c \in syncing[s] : syncing' = [syncing EXCEPT ![s] = {}]
                                 \/ syncing' = [syncing EXCEPT ![s] = {c}]
    BY <1>3 DEF serve, handleDiscoveryPacket, handleTransactionRequest, processTransaction,
                receiveUpdate, sendClientSnapshot, sendHistorySnapshot, SendOn
  <2>3. b \in syncing'[p] => b \in syncing[p]
    BY <1>0, <2>2
  <2>4. QED
    BY <1>0, <2>1, <2>3
<1>4. ASSUME NEW s \in Servers, NEW t \in Servers, Enlists(s, t)
      PROVE  Goal
  <2>1. /\ enlisted' = [enlisted EXCEPT ![s][t] = @ + 1]
        /\ \/ syncing' = [syncing EXCEPT ![s] = {}]
           \/ syncing' = [syncing EXCEPT ![s] = {t}]
    BY <1>4 DEF Enlists, SendOn
  <2>2. enlisted'[p][b] = IF p = s /\ b = t THEN enlisted[p][b] + 1 ELSE enlisted[p][b]
    BY <1>0, <2>1
  <2>3. b \in syncing'[p] => b \in syncing[p] \/ (p = s /\ b = t)
    BY <1>0, <2>1
  <2>4. QED
    BY <1>0, <1>4, <2>2, <2>3
<1>5. Goal
  <2>1. CASE Still
    BY <1>1, <2>1 DEF Still, bookVars
  <2>2. ASSUME NEW s \in Servers, Joins(s) \/ TakesOver(s)
        PROVE  Goal
    BY <1>1, <2>2 DEF Joins, TakesOver, bookVars
  <2> HIDE DEF Goal
  <2>3. QED
    BY <1>0, <1>2, <1>3, <1>4, <2>1, <2>2 DEF Kinds
<1>6. crash(p) => enlisted'[p][b] = 0 /\ syncing'[p] = {}
  BY <1>0 DEF crash
<1>7. QED
  BY <1>5, <1>6

\* Whom the line continues with.
LEMMA HeirStep ==
  ASSUME Advance, NEW b \in heirs'
  PROVE  /\ b \in Servers /\ Up(b)'
         /\ \A p \in Servers : ~Leaves(p, b)
         /\ b \in heirs \/ Settled(b) \/ (b \in NewPrimaries /\ Founding)
<1>1. heirs' = {s \in (IF Founding THEN NewPrimaries ELSE heirs) \cup {t \in Servers : Settled(t)} :
                  Up(s)' /\ \A p \in Servers : ~Leaves(p, s)}
  BY DEF Advance, Succession
<1>2. NewPrimaries \subseteq Servers /\ heirs \subseteq Servers
  BY DEF NewPrimaries, Advance, FailoverTypeOK
<1>3. QED
  BY <1>1, <1>2

\* Who remains in the line.
LEMMA HeirStays ==
  ASSUME Advance, NEW b \in Servers, Up(b)', \A p \in Servers : ~Leaves(p, b),
         IF heirs = {} THEN b \in NewPrimaries ELSE b \in heirs
  PROVE  b \in heirs'
BY DEF Advance, Succession, Founding

LEMMA Promotion ==
  ASSUME Advance, NEW s \in Servers, TakesOver(s)
  PROVE  /\ s \in NewPrimaries
         /\ \A p \in Servers : role[p] # "PRIMARY"
         /\ heirs # {} => s \in heirs /\ HasAll(s)
<1>1. /\ role \in [Servers -> {"PRIMARY", "BACKUP", "unset"}]
      /\ role[s] = "BACKUP" /\ role' = [role EXCEPT ![s] = "PRIMARY"]
  BY RolesKnown DEF Advance, TakesOver
<1>2. s \in NewPrimaries
  BY <1>1 DEF NewPrimaries
<1>3. Founding \/ InTurn
  BY <1>2 DEF Advance, Succession
<1>4. QED
  BY <1>2, <1>3 DEF Founding, InTurn, Advance, LineOK, LeadersInherit

LEMMA OneLeaderStep == ASSUME Advance PROVE OneLeader'
<1> SUFFICES ASSUME NEW p \in Servers, NEW q \in Servers,
                    role'[p] = "PRIMARY", role'[q] = "PRIMARY"
             PROVE  p = q
  BY DEF OneLeader
<1>1. RoleOf(p) /\ RoleOf(q)
  BY RoleStep
<1>2. CASE TakesOver(p)
  BY <1>1, <1>2, Promotion, RolesKnown DEF TakesOver, Advance
<1>3. CASE TakesOver(q)
  BY <1>1, <1>3, Promotion, RolesKnown DEF TakesOver, Advance
<1>4. CASE ~TakesOver(p) /\ ~TakesOver(q)
  BY <1>1, <1>4 DEF RoleOf, Advance, LineOK, OneLeader
<1>5. QED
  BY <1>2, <1>3, <1>4

LEMMA LeadersInheritStep == ASSUME Advance PROVE LeadersInherit'
<1> SUFFICES ASSUME NEW p \in Servers, role'[p] = "PRIMARY"
             PROVE  p \in heirs'
  BY DEF LeadersInherit
<1>1. Up(p)'
  <2>1. FailoverTypeOK'
    BY DEF Advance
  <2>2. QED
    BY <2>1 DEF FailoverTypeOK, TypeOK, Dispatching, Up
<1>2. RoleOf(p)
  BY RoleStep
<1>3. CASE TakesOver(p)
  <2>1. \A q \in Servers : ~Leaves(q, p)
    BY <1>3, Promotion DEF Leaves, Transacts
  <2>2. QED
    BY <1>1, <1>3, <2>1, Promotion, HeirStays
<1>4. CASE role[p] = "PRIMARY"
  <2>1. p \in heirs /\ \A q \in Servers : role[q] = "PRIMARY" => q = p
    BY <1>4 DEF Advance, LineOK, LeadersInherit, OneLeader
  <2>2. \A q \in Servers : ~Leaves(q, p)
    BY <2>1 DEF Leaves, Transacts
  <2>3. QED
    BY <1>1, <2>1, <2>2, HeirStays
<1>5. QED
  BY <1>2, <1>3, <1>4 DEF RoleOf

LEMMA HeirsServeStep == ASSUME Advance PROVE HeirsServe'
<1> SUFFICES ASSUME NEW b \in heirs'
             PROVE  role'[b] # "unset"
  BY DEF HeirsServe
<1>1. /\ b \in Servers /\ Up(b)'
      /\ b \in heirs \/ Settled(b) \/ b \in NewPrimaries
  BY HeirStep
<1>2. RoleOf(b)
  BY <1>1, RoleStep
<1>3. b \in heirs \/ Settled(b) => role[b] # "unset"
  BY DEF Advance, LineOK, HeirsServe, Settled
<1>4. b \in NewPrimaries => role'[b] # "unset"
  BY DEF NewPrimaries
<1>5. QED
  BY <1>1, <1>2, <1>3, <1>4 DEF RoleOf

LEMMA ToldByLeaderStep == ASSUME Advance PROVE ToldByLeader'
<1> SUFFICES ASSUME NEW p \in Servers, NEW b \in Servers, <<p, b>> \in told'
             PROVE  role'[p] = "PRIMARY" /\ role'[b] = "BACKUP" /\ enlisted'[p][b] > 0
  BY DEF ToldByLeader
<1>1. /\ Up(b)' /\ enlisted'[p][b] > 0
      /\ \/ <<p, b>> \in told
         \/ role[b] = "BACKUP" /\ enlisted'[p][b] > enlisted[p][b]
  BY DEF Advance, Succession
<1>2. role[p] = "PRIMARY" /\ role[b] = "BACKUP"
  <2>1. CASE <<p, b>> \in told
    BY <2>1 DEF Advance, LineOK, ToldByLeader
  <2>2. CASE role[b] = "BACKUP" /\ enlisted'[p][b] > enlisted[p][b]
    BY <2>2, Listing DEF Enlists
  <2>3. QED
    BY <1>1, <2>1, <2>2
<1>3. RoleOf(p) /\ RoleOf(b)
  BY RoleStep
<1>4. role'[p] = "PRIMARY"
  BY <1>1, <1>2, <1>3, Listing DEF RoleOf
<1>5. ~TakesOver(b)
  BY <1>2, Promotion
<1>6. QED
  BY <1>1, <1>2, <1>3, <1>4, <1>5 DEF RoleOf

\* A backup that is being sent a snapshot.
LEMMA ToldDuringSnapshot ==
  ASSUME Advance, NEW p \in Servers, NEW b \in Servers, b \in syncing'[p],
         Up(b)', role[b] = "BACKUP", b \notin outdated, ~Leaves(p, b)
  PROVE  <<p, b>> \in told'
<1>0. told' = {pair \in Servers \X Servers : LET q == pair[1] c == pair[2] IN
        /\ Up(c)' /\ enlisted'[q][c] > 0
        /\ \/ pair \in told /\ ~Leaves(q, c)
           \/ role[c] = "BACKUP" /\ enlisted'[q][c] > enlisted[q][c]}
  BY DEF Advance, Succession
<1>1. b \in syncing[p] \/ Enlists(p, b)
  BY Listing
<1>2. enlisted \in [Servers -> [Servers -> Nat]] /\ enlisted' \in [Servers -> [Servers -> Nat]]
  BY DEF Advance, FailoverTypeOK
<1>3. enlisted[p][b] \in Nat /\ enlisted'[p][b] \in Nat
  BY <1>2
<1>4. CASE Enlists(p, b)
  <2>1. enlisted'[p][b] = enlisted[p][b] + 1
    BY <1>2, <1>4 DEF Enlists
  <2>2. QED
    BY <1>0, <1>3, <2>1
<1>5. CASE b \in syncing[p]
  <2>1. Up(b)
    BY RolesKnown DEF Advance
  <2>2. <<p, b>> \in told /\ enlisted[p][b] > 0
    BY <1>5, <2>1 DEF Advance, LineOK, TellsTheTold, ToldByLeader
  <2>3. enlisted'[p][b] > 0
    <3>1. enlisted'[p][b] >= enlisted[p][b]
      BY Listing
    <3>2. QED
      BY <1>3, <2>2, <3>1
  <2>4. QED
    BY <1>0, <2>2, <2>3
<1>6. QED
  BY <1>1, <1>4, <1>5

LEMMA OutdatedStep ==
  ASSUME Advance, NEW b \in Servers
  PROVE  b \in outdated' <=>
           /\ Up(b)'
           /\ \/ b \in outdated
              \/ \E p \in Servers : \/ Leaves(p, b) /\ (enlisted[p][b] > 0 \/ HasHeard(b))
                                    \/ b \in syncing'[p] /\ <<p, b>> \notin told'
BY DEF Advance, Succession

LEMMA HeirsUpToDateStep == ASSUME Advance PROVE HeirsUpToDate'
<1> SUFFICES ASSUME NEW b \in heirs', role'[b] = "BACKUP"
             PROVE  b \notin outdated'
  BY DEF HeirsUpToDate
<1>1. /\ b \in Servers /\ Up(b)'
      /\ \A p \in Servers : ~Leaves(p, b)
      /\ b \in heirs \/ Settled(b) \/ b \in NewPrimaries
  BY HeirStep
<1>2. b \in heirs \/ Settled(b)
  BY <1>1 DEF NewPrimaries
<1>3. RoleOf(b)
  BY <1>1, RoleStep
<1>4. role[b] = "BACKUP"
  BY <1>2, <1>3 DEF RoleOf, Settled, Advance, LineOK, HeirsServe
<1>5. b \notin outdated
  BY <1>2, <1>4 DEF Settled, Advance, LineOK, HeirsUpToDate
<1>6. \A p \in Servers : b \in syncing'[p] => <<p, b>> \in told'
  BY <1>1, <1>4, <1>5, ToldDuringSnapshot
<1>7. QED
  BY <1>1, <1>5, <1>6, OutdatedStep

LEMMA TellsTheToldStep == ASSUME Advance PROVE TellsTheTold'
BY OutdatedStep DEF TellsTheTold

\* What a step leaves of the threads and of the packets to one server.
LEMMA OnlyLeadersWorkStep == ASSUME Advance PROVE OnlyLeadersWork'
<1> SUFFICES ASSUME NEW s \in Servers, requests'[s] # {} \/ syncing'[s] # {}
             PROVE  role'[s] = "PRIMARY"
  BY DEF OnlyLeadersWork
<1>0. /\ Kinds /\ syncing \in [Servers -> SUBSET Servers]
      /\ syncing' \in [Servers -> SUBSET Servers]
      /\ requests \in [Servers -> SUBSET Requests]
  BY DEF Advance, FailoverTypeOK
<1>1. ~crash(s)
  BY <1>0 DEF crash
<1>2. role[s] = "PRIMARY"
  <2>1. CASE requests[s] # {} \/ syncing[s] # {}
    BY <2>1 DEF Advance, LineOK, OnlyLeadersWork
  <2>2. CASE syncing[s] = {} /\ syncing'[s] # {}
    <3>1. PICK b \in Servers : b \in syncing'[s]
      BY <1>0, <2>2
    <3>2. Enlists(s, b)
      BY <2>2, <3>1, Listing
    <3>3. QED
      BY <3>2 DEF Enlists
  <2>3. CASE requests[s] = {} /\ requests'[s] # {}
    <3>1. PICK t \in Servers : serve(t)
      BY <1>0, <2>3 DEF Kinds, Still, Joins, TakesOver, Enlists, crash, bookVars
    <3>2. PICK r \in Requests : handleTransactionRequest(t, r) \/ processTransaction(t, r)
      BY <2>3, <3>1 DEF serve, handleDiscoveryPacket, receiveUpdate, sendClientSnapshot,
                        sendHistorySnapshot
    <3>3. handleTransactionRequest(t, r)
      BY <1>0, <2>3, <3>2 DEF processTransaction
    <3>4. t = s
      BY <1>0, <2>3, <3>3 DEF handleTransactionRequest
    <3>5. QED
      BY <3>3, <3>4 DEF handleTransactionRequest
  <2>4. QED
    BY <2>1, <2>2, <2>3
<1>3. QED
  BY <1>1, <1>2, RoleStep DEF RoleOf

LEMMA NothingYetStep == ASSUME Advance PROVE NothingYet'
<1> SUFFICES ASSUME heirs' = {}
             PROVE  confirmed' = {} /\ \A s \in Servers : book'[s] = EmptyLedger /\ chan'[s] = <<>>
  BY DEF NothingYet
<1>0. /\ Kinds /\ FailoverTypeOK
      /\ book \in [Servers -> LedgerType] /\ chan \in [Servers -> Seq(Updates)]
  BY DEF Advance, FailoverTypeOK
<1>1. heirs = {}
  BY DEF Advance, Succession
<1>2. /\ confirmed = {} /\ \A s \in Servers : book[s] = EmptyLedger /\ chan[s] = <<>>
      /\ \A s \in Servers : role[s] # "PRIMARY" /\ requests[s] = {} /\ syncing[s] = {}
  BY <1>1 DEF Advance, LineOK, NothingYet, LeadersInherit, OnlyLeadersWork
<1>3. ASSUME NEW s \in Servers
      PROVE  ~serve(s)
  BY <1>2 DEF serve, handleDiscoveryPacket, handleTransactionRequest, processTransaction,
              receiveUpdate, sendClientSnapshot, sendHistorySnapshot
<1>4. \A s, b \in Servers : ~Enlists(s, b)
  BY <1>2 DEF Enlists
<1>5. CASE UNCHANGED <<book, chan, confirmed>>
  BY <1>2, <1>5
<1>6. ASSUME NEW s \in Servers, crash(s)
      PROVE  confirmed' = {} /\ \A t \in Servers : book'[t] = EmptyLedger /\ chan'[t] = <<>>
  BY <1>0, <1>2, <1>6 DEF crash
<1>7. QED
  BY <1>0, <1>3, <1>4, <1>5, <1>6 DEF Kinds, Still, Joins, TakesOver, bookVars

LEMMA PropagatedAt ==
  ASSUME NEW s, NEW m, NEW t \in Servers
  PROVE  /\ ~Up(t) => Propagated(s, m)[t] = chan[t]
         /\ Up(t) => Propagated(s, m)[t] = chan[t] \o [k \in 1..enlisted[s][t] |-> m]
BY DEF Propagated

LEMMA NothingAtTheDownStep == ASSUME Advance PROVE NothingAtTheDown'
<1> SUFFICES ASSUME NEW t \in Servers, ~Up(t)'
             PROVE  chan'[t] = <<>>
  BY DEF NothingAtTheDown
<1>0. /\ Kinds /\ FailoverTypeOK
      /\ chan \in [Servers -> Seq(Updates)] /\ chan' \in [Servers -> Seq(Updates)]
      /\ ~Up(t) => chan[t] = <<>>
  BY DEF Advance, FailoverTypeOK, LineOK, NothingAtTheDown
<1>1. CASE Still
  BY <1>0, <1>1 DEF Still, bookVars
<1>2. ASSUME NEW s \in Servers, Joins(s) \/ TakesOver(s)
      PROVE  chan'[t] = <<>>
  BY <1>0, <1>2 DEF Joins, TakesOver, UpAsBefore, bookVars
<1>3. ASSUME NEW s \in Servers, crash(s)
      PROVE  chan'[t] = <<>>
  BY <1>0, <1>3, CrashRoles DEF crash
<1>4. ASSUME NEW s \in Servers, UNCHANGED electionVars, serve(s)
      PROVE  chan'[t] = <<>>
  <2>1. ~Up(t) /\ chan[t] = <<>>
    BY <1>0, <1>4, ServingRoles DEF UpAsBefore
  <2>2. ASSUME NEW c \in Clients, handleDiscoveryPacket(s, c)
        PROVE  chan'[t] = <<>>
    BY <2>1, <2>2 DEF handleDiscoveryPacket, Propagated
  <2>3. ASSUME NEW r \in Requests, handleTransactionRequest(s, r) \/ processTransaction(s, r)
        PROVE  chan'[t] = <<>>
    BY <2>1, <2>3 DEF handleTransactionRequest, processTransaction, Propagated
  <2>4. receiveUpdate(s) => chan'[t] = <<>>
    BY <1>0, <2>1 DEF receiveUpdate
  <2>5. ASSUME NEW b \in Servers, sendClientSnapshot(s, b) \/ sendHistorySnapshot(s, b)
        PROVE  chan'[t] = <<>>
    BY <1>0, <2>1, <2>5 DEF sendClientSnapshot, sendHistorySnapshot
  <2>6. QED
    BY <1>4, <2>2, <2>3, <2>4, <2>5 DEF serve
<1>5. ASSUME NEW s \in Servers, NEW b \in Servers, Enlists(s, b)
      PROVE  chan'[t] = <<>>
  BY <1>0, <1>5 DEF Enlists, UpAsBefore
<1>6. QED
  BY <1>0, <1>1, <1>2, <1>3, <1>4, <1>5 DEF Kinds

LEMMA OneSnapshotStep == ASSUME Advance PROVE OneSnapshot'
<1> SUFFICES ASSUME NEW p \in Servers, NEW b \in syncing'[p], NEW c \in syncing'[p]
             PROVE  b = c
  BY DEF OneSnapshot
<1>0. /\ Kinds /\ syncing \in [Servers -> SUBSET Servers]
      /\ \A x, y \in syncing[p] : x = y
  BY DEF Advance, FailoverTypeOK, LineOK, OneSnapshot
<1>1. CASE UNCHANGED syncing
  BY <1>0, <1>1
<1>2. ASSUME NEW s \in Servers, NEW t, \/ syncing' = [syncing EXCEPT ![s] = {}]
                                        \/ syncing' = [syncing EXCEPT ![s] = {t}]
      PROVE  b = c
  BY <1>0, <1>2
<1>3. ASSUME NEW s \in Servers, serve(s)
      PROVE  b = c
  BY <1>1, <1>2, <1>3 DEF serve, handleDiscoveryPacket, handleTransactionRequest,
       processTransaction, receiveUpdate, sendClientSnapshot, sendHistorySnapshot, SendOn
<1>4. QED
  BY <1>0, <1>1, <1>2, <1>3 DEF Kinds, Still, Joins, TakesOver, crash, Enlists, SendOn, bookVars

LEMMA LineOfSuccessionStep == ASSUME Advance PROVE LineOK'
BY OneLeaderStep, LeadersInheritStep, HeirsServeStep, OnlyLeadersWorkStep, ToldByLeaderStep,
   HeirsUpToDateStep, TellsTheToldStep, NothingYetStep, NothingAtTheDownStep, OneSnapshotStep
   DEF LineOK

-----------------------------------------------------------------------------
(* What a server that serves does to the books, as long as the line is not *)
(* broken: the primary registers a client, accepts a request, carries one  *)
(* out or refuses it, or goes on with a snapshot; anybody handles an       *)
(* update.                                                                 *)

Refuses(p, r) ==
  /\ r \in requests[p] /\ requests' = [requests EXCEPT ![p] = @ \ {r}]
  /\ UNCHANGED <<electionVars, book, enlisted, syncing, snapshot, chan, confirmed>>

\* M is the book that carrying r out leaves.
CarriesOut(p, r, M) ==
  /\ handleTransactionLogic(book[p], r.source, r.dest, r.value, r.seqn).status = "SUCCESS"
  /\ M = updateAndLogTransaction(
           executeTransaction(book[p], r.source, r.dest, r.value, r.seqn),
           r.source, r.dest, r.value, r.seqn)
  /\ r \in requests[p] /\ requests' = [requests EXCEPT ![p] = @ \ {r}]
  /\ book' = [book EXCEPT ![p] = M]
  /\ chan' = Propagated(p, StateUpdate(M))
  /\ confirmed' = confirmed \cup {r}
  /\ UNCHANGED <<electionVars, enlisted, syncing, snapshot>>

LeaderServes(p) ==
  /\ role[p] = "PRIMARY"
  /\ \/ \E c \in Clients : handleDiscoveryPacket(p, c)
     \/ \E r \in Requests :
          \/ handleTransactionRequest(p, r) \/ Refuses(p, r)
          \/ \E M \in LedgerType : CarriesOut(p, r, M)
     \/ \E b \in syncing[p] : sendClientSnapshot(p, b) \/ sendHistorySnapshot(p, b)

LEMMA RequestParts ==
  ASSUME NEW r \in Requests
  PROVE  r.source \in Clients /\ r.dest \in Clients /\ r.value \in Int /\ r.seqn \in Nat
BY FailoverAssumption

LEMMA ServingKinds ==
  ASSUME Advance, NEW s \in Servers, serve(s)
  PROVE  receiveUpdate(s) \/ LeaderServes(s)
<1>0. /\ book \in [Servers -> LedgerType] /\ syncing \in [Servers -> SUBSET Servers]
      /\ requests[s] # {} \/ syncing[s] # {} => role[s] = "PRIMARY"
  BY DEF Advance, FailoverTypeOK, LineOK, OnlyLeadersWork
<1>1. ASSUME NEW r \in Requests, processTransaction(s, r)
      PROVE  LeaderServes(s)
  <2> DEFINE result == handleTransactionLogic(book[s], r.source, r.dest, r.value, r.seqn)
             M == updateAndLogTransaction(
                    executeTransaction(book[s], r.source, r.dest, r.value, r.seqn),
                    r.source, r.dest, r.value, r.seqn)
  <2>1. /\ r \in requests[s] /\ requests' = [requests EXCEPT ![s] = @ \ {r}]
        /\ book' = [book EXCEPT ![s] = result.ledger]
        /\ chan' = IF result.status = "SUCCESS" /\ role[s] = "PRIMARY"
                   THEN Propagated(s, StateUpdate(result.ledger)) ELSE chan
        /\ confirmed' = IF result.status = "SUCCESS" THEN confirmed \cup {r} ELSE confirmed
        /\ UNCHANGED <<electionVars, enlisted, syncing, snapshot>>
    BY <1>1 DEF processTransaction
  <2>2. role[s] = "PRIMARY"
    BY <1>0, <2>1
  <2>3. result.status = "SUCCESS" => result.ledger = M
    BY DEF handleTransactionLogic
  <2>4. result.ledger \in LedgerType /\ (result.status # "SUCCESS" => result.ledger = book[s])
    BY <1>0, RequestParts, StatusEffect
  <2>5. CASE result.status = "SUCCESS"
    <3>1. M \in LedgerType
      BY <2>3, <2>4, <2>5
    <3>2. CarriesOut(s, r, M)
      BY <2>1, <2>2, <2>3, <2>5 DEF CarriesOut
    <3> HIDE DEF M
    <3>3. QED
      BY <2>2, <3>1, <3>2 DEF LeaderServes
  <2>6. CASE result.status # "SUCCESS"
    <3>1. book' = book /\ chan' = chan /\ confirmed' = confirmed
      BY <1>0, <2>1, <2>4, <2>6
    <3>2. Refuses(s, r)
      BY <2>1, <3>1 DEF Refuses
    <3>3. QED
      BY <2>2, <3>2 DEF LeaderServes
  <2>7. QED
    BY <2>5, <2>6
<1>2. ASSUME NEW b \in Servers, sendClientSnapshot(s, b) \/ sendHistorySnapshot(s, b)
      PROVE  LeaderServes(s)
  <2>1. b \in syncing[s]
    BY <1>2 DEF sendClientSnapshot, sendHistorySnapshot
  <2>2. QED
    BY <1>0, <1>2, <2>1 DEF LeaderServes
<1>3. ASSUME NEW c \in Clients, handleDiscoveryPacket(s, c)
      PROVE  LeaderServes(s)
  BY <1>3 DEF LeaderServes, handleDiscoveryPacket
<1>4. ASSUME NEW r \in Requests, handleTransactionRequest(s, r)
      PROVE  LeaderServes(s)
  BY <1>4 DEF LeaderServes, handleTransactionRequest
<1>5. QED
  BY <1>1, <1>2, <1>3, <1>4 DEF serve

-----------------------------------------------------------------------------
(* What was confirmed is in the book of the primary; an heir has it, or    *)
(* has been sent it; and of what a backup has been told, only the rest of  *)
(* the snapshot is still to be sent.                                       *)

\* Packet m brings the transaction of request r.
Carries(m, r) ==
  /\ m.type \in {"STATE_UPDATE", "ADD_HISTORY_ENTRY"}
  /\ m.transaction.source = r.source /\ m.transaction.seqn = r.seqn
  /\ m.transaction.dest = r.dest /\ m.transaction.value = r.value

Brings(q, r) == \E i \in DOMAIN q : Carries(q[i], r)

Keeps(b, r) == IsIn(r, book[b]) \/ Brings(chan[b], r)

LeadersKeep == \A p \in Servers, r \in confirmed : role[p] = "PRIMARY" => IsIn(r, book[p])

HeirsKeep == \A b \in heirs, r \in confirmed : role[b] = "BACKUP" => Keeps(b, r)

ToldKeep ==
  \A p, b \in Servers, r \in confirmed :
    <<p, b>> \in told /\ b \notin outdated =>
      Keeps(b, r) \/ (b \in syncing[p] /\ IsIn(r, snapshot[p]))

PaymentsKept == LeadersKeep /\ HeirsKeep /\ ToldKeep

LEMMA IsInLonger ==
  ASSUME NEW L \in LedgerType, NEW tx, NEW N, N.history = Append(L.history, tx), NEW r
  PROVE  /\ IsIn(r, L) => IsIn(r, N)
         /\ /\ tx.source = r.source /\ tx.seqn = r.seqn
            /\ tx.dest = r.dest /\ tx.value = r.value
            => IsIn(r, N)
         /\ Len(N.history) = Len(L.history) + 1
<1> DEFINE h == L.history
           k == Append(h, tx)
<1>1. h \in Seq(Transaction)
  BY BookFields
<1>2. /\ Len(k) = Len(h) + 1 /\ DOMAIN k = 1..Len(h) + 1 /\ DOMAIN h = 1..Len(h)
      /\ \A i \in 1..Len(h) : k[i] = h[i]
      /\ k[Len(h) + 1] = tx
      /\ Len(h) \in Nat
  <2> HIDE DEF h
  <2> QED BY <1>1
<1>3. N.history = k
  OBVIOUS
<1> HIDE DEF k
<1>4. IsIn(r, L) => IsIn(r, N)
  BY <1>2, <1>3 DEF IsIn
<1>5. tx.source = r.source /\ tx.seqn = r.seqn /\ tx.dest = r.dest /\ tx.value = r.value
      => IsIn(r, N)
  BY <1>2, <1>3 DEF IsIn
<1>6. QED
  BY <1>2, <1>3, <1>4, <1>5

\* What handling a packet does to the history.
LEMMA HandledHistory ==
  ASSUME NEW L \in LedgerType, NEW m \in Updates, NEW N \in Handled(L, m)
  PROVE  /\ m.type = "ADD_CLIENT_UPDATE" => N.history = L.history
         /\ m.type \in {"STATE_UPDATE", "ADD_HISTORY_ENTRY"}
            => N.history = Append(L.history, m.transaction)
<1>1. CASE m.type = "ADD_CLIENT_UPDATE"
  <2>1. N = handleClientUpdate(L, m)
    BY <1>1 DEF Handled
  <2>2. N.history = L.history
    BY <2>1 DEF handleClientUpdate, LedgerType
  <2>3. QED
    BY <1>1, <2>2
<1>2. CASE m.type = "ADD_HISTORY_ENTRY"
  <2>1. N = handleHistoryEntry(L, m)
    BY <1>2 DEF Handled
  <2>2. N.history = Append(L.history, m.transaction)
    BY <2>1 DEF handleHistoryEntry, LedgerType
  <2>3. QED
    BY <1>2, <2>2
<1>3. CASE m.type = "STATE_UPDATE"
  <2>1. N \in handleStateUpdate(L, m)
    BY <1>3 DEF Handled
  <2>2. \E x, y, z : N = [handleHistoryEntry(L, m) EXCEPT !.registered = x, !.balance = y]
                     \/ N = [handleHistoryEntry(L, m) EXCEPT !.registered = x, !.balance = y,
                                                             !.lastReq = z]
    BY <2>1 DEF handleStateUpdate
  <2>3. handleHistoryEntry(L, m).history = Append(L.history, m.transaction)
    BY DEF handleHistoryEntry, LedgerType
  <2>4. N.history = handleHistoryEntry(L, m).history
    BY <2>2 DEF handleHistoryEntry, LedgerType
  <2>5. QED
    BY <1>3, <2>3, <2>4
<1>4. QED
  BY <1>1, <1>2, <1>3 DEF Updates, ClientUpdates, HistoryEntries, StateUpdates

\* A packet that is handled passes what it brings to the book.
LEMMA KeptByHandling ==
  ASSUME NEW L \in LedgerType, NEW q \in Seq(Updates), q # <<>>,
         NEW N \in Handled(L, Head(q)), NEW r, IsIn(r, L) \/ Brings(q, r)
  PROVE  IsIn(r, N) \/ Brings(Tail(q), r)
<1> DEFINE m == Head(q)
<1>1. m \in Updates /\ m = q[1]
  OBVIOUS
<1>2. /\ DOMAIN q = 1..Len(q) /\ DOMAIN Tail(q) = 1..(Len(q) - 1) /\ Len(q) \in Nat
      /\ \A i \in 1..(Len(q) - 1) : Tail(q)[i] = q[i + 1]
  OBVIOUS
<1>3. IsIn(r, L) => IsIn(r, N)
  <2>1. CASE m.type = "ADD_CLIENT_UPDATE"
    BY <1>1, <2>1, HandledHistory DEF IsIn
  <2>2. CASE m.type # "ADD_CLIENT_UPDATE"
    <3>1. m.type \in {"STATE_UPDATE", "ADD_HISTORY_ENTRY"}
      BY <1>1, <2>2 DEF Updates, ClientUpdates, HistoryEntries, StateUpdates
    <3>2. N.history = Append(L.history, m.transaction)
      BY <1>1, <3>1, HandledHistory
    <3>3. QED
      BY <3>2, IsInLonger
  <2>3. QED
    BY <2>1, <2>2
<1>4. ASSUME Carries(m, r)
      PROVE  IsIn(r, N)
  <2>1. N.history = Append(L.history, m.transaction)
    BY <1>1, <1>4, HandledHistory DEF Carries
  <2>2. QED
    BY <1>4, <2>1, IsInLonger DEF Carries
<1>5. ASSUME NEW i \in DOMAIN q, Carries(q[i], r), i # 1
      PROVE  Brings(Tail(q), r)
  <2>1. i - 1 \in 1..(Len(q) - 1) /\ Tail(q)[i - 1] = q[i]
    BY <1>2, <1>5
  <2>2. QED
    BY <1>2, <1>5, <2>1 DEF Brings
<1>6. QED
  BY <1>1, <1>3, <1>4, <1>5 DEF Brings

\* More packets bring no less.
LEMMA BroughtWithMore ==
  ASSUME NEW q \in Seq(Updates), NEW n \in Nat, NEW m, NEW r
  PROVE  /\ Brings(q, r) => Brings(q \o [k \in 1..n |-> m], r)
         /\ Carries(m, r) /\ n > 0 => Brings(q \o [k \in 1..n |-> m], r)
<1> DEFINE w == [k \in 1..n |-> m]
<1>1. w \in Seq({m}) /\ Len(w) = n
  OBVIOUS
<1>2. /\ Len(q \o w) = Len(q) + n /\ DOMAIN (q \o w) = 1..(Len(q) + n)
      /\ DOMAIN q = 1..Len(q) /\ Len(q) \in Nat
      /\ \A i \in 1..(Len(q) + n) :
           (q \o w)[i] = IF i <= Len(q) THEN q[i] ELSE w[i - Len(q)]
  <2> HIDE DEF w
  <2> QED BY <1>1
<1>3. n > 0 => (q \o w)[Len(q) + 1] = m /\ Len(q) + 1 \in DOMAIN (q \o w)
  BY <1>2
<1> HIDE DEF w
<1>4. Brings(q, r) => Brings(q \o w, r)
  BY <1>2 DEF Brings
<1>5. Carries(m, r) /\ n > 0 => Brings(q \o w, r)
  BY <1>3 DEF Brings
<1>6. QED
  BY <1>4, <1>5 DEF w

LEMMA BroughtWithOneMore ==
  ASSUME NEW q \in Seq(Updates), NEW m, NEW r
  PROVE  /\ Brings(q, r) => Brings(Append(q, m), r)
         /\ Carries(m, r) => Brings(Append(q, m), r)
BY DEF Brings

\* The steps in which a book or a packet under way changes.
LEMMA BookStep ==
  ASSUME Advance
  PROVE  \/ UNCHANGED <<book, chan, confirmed>>
         \/ \E s \in Servers : \/ crash(s) \/ receiveUpdate(s)
                               \/ UNCHANGED electionVars /\ LeaderServes(s)
<1>1. Kinds
  BY DEF Advance
<1>2. CASE Still
  BY <1>2 DEF Still, bookVars
<1>3. ASSUME NEW s \in Servers, Joins(s) \/ TakesOver(s)
      PROVE  UNCHANGED <<book, chan, confirmed>>
  BY <1>3 DEF Joins, TakesOver, bookVars
<1>4. ASSUME NEW s \in Servers, NEW b \in Servers, Enlists(s, b)
      PROVE  UNCHANGED <<book, chan, confirmed>>
  BY <1>4 DEF Enlists
<1>5. ASSUME NEW s \in Servers, UNCHANGED electionVars, serve(s)
      PROVE  receiveUpdate(s) \/ LeaderServes(s)
  BY <1>5, ServingKinds
<1>6. QED
  BY <1>1, <1>2, <1>3, <1>4, <1>5 DEF Kinds

LEMMA RequestCarriedOut ==
  ASSUME Advance, NEW p \in Servers, NEW r \in Requests, NEW M \in LedgerType, CarriesOut(p, r, M)
  PROVE  /\ M.history = Append(book[p].history,
                           newTransaction(book[p], r.source, r.dest, r.value, r.seqn))
         /\ IsIn(r, M) /\ \A q : IsIn(q, book[p]) => IsIn(q, M)
         /\ Len(M.history) = Len(book[p].history) + 1
         /\ Carries(StateUpdate(M), r)
         /\ book' = [book EXCEPT ![p] = M] /\ book'[p] = M
<1> DEFINE tx == newTransaction(book[p], r.source, r.dest, r.value, r.seqn)
<1>1. book \in [Servers -> LedgerType]
  BY DEF Advance, FailoverTypeOK
<1>2. M.history = Append(book[p].history, tx)
  <2>1. M = updateAndLogTransaction(
              executeTransaction(book[p], r.source, r.dest, r.value, r.seqn),
              r.source, r.dest, r.value, r.seqn)
    BY DEF CarriesOut
  <2>2. QED
    BY <1>1, <2>1, RequestParts, ExecutionFields
<1>3. tx.source = r.source /\ tx.seqn = r.seqn /\ tx.dest = r.dest /\ tx.value = r.value
  BY DEF newTransaction
<1>4. M.history[Len(M.history)] = tx
  <2>1. book[p].history \in Seq(Transaction) /\ M.history \in Seq(Transaction)
    BY <1>1, BookFields
  <2> HIDE DEF tx
  <2>2. \A h \in Seq(Transaction) : Append(h, tx)[Len(h) + 1] = tx /\ Len(Append(h, tx)) = Len(h) + 1
    OBVIOUS
  <2>3. QED
    BY <1>2, <2>1, <2>2
<1> HIDE DEF tx
<1>5. Carries(StateUpdate(M), r)
  BY <1>3, <1>4 DEF Carries, StateUpdate
<1>6. book' = [book EXCEPT ![p] = M]
  BY DEF CarriesOut
<1>7. ASSUME NEW q
      PROVE  /\ IsIn(q, book[p]) => IsIn(q, M)
             /\ tx.source = q.source /\ tx.seqn = q.seqn /\ tx.dest = q.dest /\ tx.value = q.value
                => IsIn(q, M)
             /\ Len(M.history) = Len(book[p].history) + 1
  BY <1>1, <1>2, IsInLonger
<1>8. IsIn(r, M) /\ Len(M.history) = Len(book[p].history) + 1
  BY <1>3, <1>7
<1>9. book'[p] = M
  BY <1>1, <1>6
<1>10. QED
  BY <1>2, <1>5, <1>6, <1>7, <1>8, <1>9 DEF tx

\* No server that runs on forgets a transaction.
LEMMA TransactionStays ==
  ASSUME Advance, NEW s \in Servers, ~crash(s), NEW r, IsIn(r, book[s])
  PROVE  IsIn(r, book'[s])
<1>0. /\ book \in [Servers -> LedgerType] /\ chan \in [Servers -> Seq(Updates)]
      /\ book' \in [Servers -> LedgerType]
  BY DEF Advance, FailoverTypeOK
<1>1. CASE UNCHANGED book
  BY <1>1
<1>2. ASSUME NEW t \in Servers, crash(t)
      PROVE  IsIn(r, book'[s])
  <2>1. t # s /\ book' = [book EXCEPT ![t] = EmptyLedger]
    BY <1>2 DEF crash
  <2>2. QED
    BY <1>0, <2>1
<1>3. ASSUME NEW t \in Servers, receiveUpdate(t)
      PROVE  IsIn(r, book'[s])
  <2>1. PICK L \in (IF role[t] = "BACKUP" THEN Handled(book[t], Head(chan[t])) ELSE {book[t]}) :
          book' = [book EXCEPT ![t] = L]
    BY <1>3 DEF receiveUpdate
  <2>2. chan[t] # <<>> /\ Head(chan[t]) \in Updates
    BY <1>0, <1>3 DEF receiveUpdate
  <2>3. CASE t = s /\ role[t] = "BACKUP"
    <3>1. L \in Handled(book[s], Head(chan[s])) /\ book'[s] = L
      BY <1>0, <2>1, <2>3
    <3>2. L.history = book[s].history \/ \E tx : L.history = Append(book[s].history, tx)
      BY <1>0, <2>2, <2>3, <3>1, HandledHistory
         DEF Updates, ClientUpdates, HistoryEntries, StateUpdates
    <3>3. L.history = book[s].history => IsIn(r, L)
      BY DEF IsIn
    <3>4. ASSUME NEW tx, L.history = Append(book[s].history, tx)
          PROVE  IsIn(r, L)
      BY <1>0, <3>4, IsInLonger
    <3>5. QED
      BY <3>1, <3>2, <3>3, <3>4
  <2>4. CASE ~(t = s /\ role[t] = "BACKUP")
    <3>1. book'[s] = book[s]
      BY <1>0, <2>1, <2>4
    <3>2. QED
      BY <3>1
  <2>5. QED
    BY <2>3, <2>4
<1>4. ASSUME NEW p \in Servers, LeaderServes(p)
      PROVE  IsIn(r, book'[s])
  <2>1. ASSUME NEW c \in Clients, handleDiscoveryPacket(p, c)
        PROVE  IsIn(r, book'[s])
    <3>1. book' = [book EXCEPT ![p] = wasClientAdded(book[p], c)]
      BY <2>1 DEF handleDiscoveryPacket
    <3>2. wasClientAdded(book[p], c).history = book[p].history
      BY <1>0, RegistrationEffect
    <3>3. book'[s].history = book[s].history
      BY <1>0, <3>1, <3>2
    <3>4. QED
      BY <3>3 DEF IsIn
  <2>2. ASSUME NEW q \in Requests, NEW M \in LedgerType, CarriesOut(p, q, M)
        PROVE  IsIn(r, book'[s])
    <3>1. CASE s = p
      BY <2>2, <3>1, RequestCarriedOut
    <3>2. CASE s # p
      <4>1. book'[s] = book[s]
        BY <1>0, <2>2, <3>2 DEF CarriesOut
      <4>2. QED
        BY <4>1
    <3>3. QED
      BY <3>1, <3>2
  <2>3. QED
    BY <1>1, <1>4, <2>1, <2>2 DEF LeaderServes, handleTransactionRequest, Refuses,
                                  sendClientSnapshot, sendHistorySnapshot
<1>5. QED
  BY <1>1, <1>2, <1>3, <1>4, BookStep

\* What a primary that serves sends.
LEMMA LeaderSends ==
  ASSUME Advance, NEW p \in Servers, LeaderServes(p), NEW s \in Servers
  PROVE  \/ chan'[s] = chan[s]
         \/ \E m : \/ chan'[s] = chan[s] \o [k \in 1..enlisted[p][s] |-> m]
                   \/ chan'[s] = Append(chan[s], m)
<1>0. chan \in [Servers -> Seq(Updates)]
  BY DEF Advance, FailoverTypeOK
<1> DEFINE Goal == \/ chan'[s] = chan[s]
                   \/ \E m : \/ chan'[s] = chan[s] \o [k \in 1..enlisted[p][s] |-> m]
                             \/ chan'[s] = Append(chan[s], m)
<1>1. ASSUME NEW m, chan' = Propagated(p, m)
      PROVE  Goal
  <2>1. CASE ~Up(s)
    BY <1>1, <2>1 DEF Propagated
  <2>2. CASE Up(s)
    <3>1. chan'[s] = chan[s] \o [k \in 1..enlisted[p][s] |-> m]
      BY <1>1, <2>2 DEF Propagated
    <3>2. QED
      BY <3>1
  <2>3. QED
    BY <2>1, <2>2
<1>2. ASSUME NEW c \in Clients, handleDiscoveryPacket(p, c)
      PROVE  Goal
  BY <1>1, <1>2 DEF handleDiscoveryPacket
<1>3. ASSUME NEW r \in Requests, NEW M \in LedgerType, CarriesOut(p, r, M)
      PROVE  Goal
  BY <1>1, <1>3 DEF CarriesOut
<1>4. ASSUME NEW b \in syncing[p], sendClientSnapshot(p, b) \/ sendHistorySnapshot(p, b)
      PROVE  Goal
  <2>1. chan' = chan \/ \E m : chan' = [chan EXCEPT ![b] = Append(@, m)]
    BY <1>4 DEF sendClientSnapshot, sendHistorySnapshot
  <2>2. QED
    BY <1>0, <2>1
<1> HIDE DEF Goal
<1>5. ASSUME NEW r \in Requests, handleTransactionRequest(p, r) \/ Refuses(p, r)
      PROVE  Goal
  BY <1>5 DEF handleTransactionRequest, Refuses, Goal
<1>6. Goal
  BY <1>2, <1>3, <1>4, <1>5 DEF LeaderServes
<1>7. QED
  BY <1>6 DEF Goal

\* No backup that runs on loses what it was sent.
LEMMA BackupKeeps ==
  ASSUME Advance, NEW s \in Servers, role[s] = "BACKUP", ~crash(s), NEW r, Keeps(s, r)
  PROVE  Keeps(s, r)'
<1>0. /\ book \in [Servers -> LedgerType] /\ chan \in [Servers -> Seq(Updates)]
      /\ enlisted \in [Servers -> [Servers -> Nat]]
  BY DEF Advance, FailoverTypeOK
<1>1. CASE UNCHANGED <<book, chan, confirmed>>
  BY <1>1 DEF Keeps
<1>2. ASSUME NEW t \in Servers, crash(t)
      PROVE  Keeps(s, r)'
  <2>1. t # s /\ book' = [book EXCEPT ![t] = EmptyLedger] /\ chan' = [chan EXCEPT ![t] = <<>>]
    BY <1>2 DEF crash
  <2>2. book'[s] = book[s] /\ chan'[s] = chan[s]
    BY <1>0, <2>1
  <2>3. QED
    BY <2>2 DEF Keeps
<1>3. ASSUME NEW t \in Servers, receiveUpdate(t)
      PROVE  Keeps(s, r)'
  <2>1. PICK L \in (IF role[t] = "BACKUP" THEN Handled(book[t], Head(chan[t])) ELSE {book[t]}) :
          book' = [book EXCEPT ![t] = L]
    BY <1>3 DEF receiveUpdate
  <2>2. chan[t] # <<>> /\ chan' = [chan EXCEPT ![t] = Tail(chan[t])]
    BY <1>3 DEF receiveUpdate
  <2>3. CASE t = s
    <3>1. L \in Handled(book[s], Head(chan[s])) /\ book'[s] = L /\ chan'[s] = Tail(chan[s])
      BY <1>0, <2>1, <2>2, <2>3
    <3>2. IsIn(r, L) \/ Brings(Tail(chan[s]), r)
      BY <1>0, <2>2, <2>3, <3>1, KeptByHandling DEF Keeps
    <3>3. QED
      BY <3>1, <3>2 DEF Keeps
  <2>4. CASE t # s
    <3>1. book'[s] = book[s] /\ chan'[s] = chan[s]
      BY <1>0, <2>1, <2>2, <2>4
    <3>2. QED
      BY <3>1 DEF Keeps
  <2>5. QED
    BY <2>3, <2>4
<1>4. ASSUME NEW p \in Servers, LeaderServes(p)
      PROVE  Keeps(s, r)'
  <2>1. IsIn(r, book[s]) => IsIn(r, book'[s])
    BY TransactionStays
  <2>2. Brings(chan[s], r) => Brings(chan'[s], r)
    <3>1. enlisted[p][s] \in Nat /\ chan[s] \in Seq(Updates)
      BY <1>0
    <3>2. QED
      BY <1>4, <3>1, LeaderSends, BroughtWithMore, BroughtWithOneMore
  <2>3. QED
    BY <2>1, <2>2 DEF Keeps
<1>5. QED
  BY <1>1, <1>2, <1>3, <1>4, BookStep

\* A payment is confirmed by the primary, which adds it to its own book and sends it to all
\* that it does not leave behind.
LEMMA NewlyConfirmed ==
  ASSUME Advance, NEW r \in confirmed', r \notin confirmed
  PROVE  \E p \in Servers :
           /\ role[p] = "PRIMARY" /\ UNCHANGED electionVars /\ UNCHANGED <<syncing, snapshot>>
           /\ IsIn(r, book'[p])
           /\ \A b \in Servers : role[b] = "BACKUP" /\ ~Leaves(p, b) => Keeps(b, r)'
<1>0. /\ book \in [Servers -> LedgerType] /\ chan \in [Servers -> Seq(Updates)]
      /\ enlisted \in [Servers -> [Servers -> Nat]]
  BY DEF Advance, FailoverTypeOK
<1>1. PICK p \in Servers : UNCHANGED electionVars /\ LeaderServes(p)
  BY BookStep DEF crash, receiveUpdate
<1>2. PICK q \in Requests, M \in LedgerType : CarriesOut(p, q, M)
  BY <1>1 DEF LeaderServes, handleDiscoveryPacket, handleTransactionRequest, Refuses,
              sendClientSnapshot, sendHistorySnapshot
<1>3. q = r /\ UNCHANGED <<syncing, snapshot>> /\ chan' = Propagated(p, StateUpdate(M))
  BY <1>2 DEF CarriesOut
<1>4. /\ IsIn(r, book'[p]) /\ Carries(StateUpdate(M), r)
      /\ Len(book'[p].history) = Len(book[p].history) + 1
  BY <1>2, <1>3, RequestCarriedOut
<1>5. Transacts(p)
  <2>1. book[p].history \in Seq(Transaction)
    BY <1>0, BookFields
  <2>2. Len(book'[p].history) > Len(book[p].history)
    BY <1>4, <2>1
  <2>3. QED
    BY <1>1, <2>2 DEF Transacts, LeaderServes
<1>6. ASSUME NEW b \in Servers, role[b] = "BACKUP", ~Leaves(p, b)
      PROVE  Keeps(b, r)'
  <2>1. p # b
    BY <1>1, <1>6 DEF LeaderServes
  <2>2. <<p, b>> \in told
    BY <1>5, <1>6, <2>1 DEF Leaves, Told
  <2>3. enlisted[p][b] > 0 /\ enlisted[p][b] \in Nat
    BY <1>0, <2>2 DEF Advance, LineOK, ToldByLeader
  <2>4. Up(b)
    BY <1>6, RolesKnown DEF Advance
  <2>5. chan'[b] = chan[b] \o [k \in 1..enlisted[p][b] |-> StateUpdate(M)]
    BY <1>3, <2>4 DEF Propagated
  <2>6. Brings(chan'[b], r)
    <3>1. ASSUME NEW m, Carries(m, r)
          PROVE  Brings(chan[b] \o [k \in 1..enlisted[p][b] |-> m], r)
      <4>1. chan[b] \in Seq(Updates)
        BY <1>0
      <4>2. QED
        BY <2>3, <3>1, <4>1, BroughtWithMore
    <3>2. QED
      BY <1>4, <2>5, <3>1
  <2>7. QED
    BY <2>6 DEF Keeps
<1>7. QED
  BY <1>1, <1>3, <1>4, <1>6 DEF LeaderServes

LEMMA LeadersKeepStep == ASSUME Advance, PaymentsKept PROVE LeadersKeep'
<1> SUFFICES ASSUME NEW p \in Servers, NEW r \in confirmed', role'[p] = "PRIMARY"
             PROVE  IsIn(r, book'[p])
  BY DEF LeadersKeep
<1>1. RoleOf(p)
  BY RoleStep
<1>2. CASE TakesOver(p)
  <2>1. r \in confirmed /\ book'[p] = book[p] /\ role[p] = "BACKUP"
    BY <1>2 DEF TakesOver, bookVars
  <2>2. heirs # {}
    BY <2>1 DEF Advance, LineOK, NothingYet
  <2>3. p \in heirs /\ chan[p] = <<>>
    BY <1>2, <2>2, Promotion DEF HasAll
  <2>4. Keeps(p, r) /\ ~Brings(chan[p], r)
    BY <2>1, <2>3 DEF PaymentsKept, HeirsKeep, Brings
  <2>5. QED
    BY <2>1, <2>4 DEF Keeps
<1>3. CASE role[p] = "PRIMARY"
  <2>1. CASE r \in confirmed
    <3>1. IsIn(r, book[p])
      BY <1>3, <2>1 DEF PaymentsKept, LeadersKeep
    <3>2. ~crash(p)
      BY CrashRoles, RolesKnown DEF Advance
    <3>3. QED
      BY <3>1, <3>2, TransactionStays
  <2>2. CASE r \notin confirmed
    <3>1. PICK q \in Servers : role[q] = "PRIMARY" /\ IsIn(r, book'[q])
      BY <2>2, NewlyConfirmed
    <3>2. q = p
      BY <1>3, <3>1 DEF Advance, LineOK, OneLeader
    <3>3. QED
      BY <3>1, <3>2
  <2>3. QED
    BY <2>1, <2>2
<1>4. QED
  BY <1>1, <1>2, <1>3 DEF RoleOf

LEMMA HeirsKeepStep == ASSUME Advance, PaymentsKept PROVE HeirsKeep'
<1> SUFFICES ASSUME NEW b \in heirs', NEW r \in confirmed', role'[b] = "BACKUP"
             PROVE  Keeps(b, r)'
  BY DEF HeirsKeep
<1>1. /\ b \in Servers /\ Up(b)'
      /\ \A p \in Servers : ~Leaves(p, b)
      /\ b \in heirs \/ Settled(b) \/ b \in NewPrimaries
  BY HeirStep
<1>2. b \in heirs \/ Settled(b)
  BY <1>1 DEF NewPrimaries
<1>3. role[b] = "BACKUP"
  <2>1. RoleOf(b)
    BY <1>1, RoleStep
  <2>2. QED
    BY <1>2, <2>1 DEF RoleOf, Settled, Advance, LineOK, HeirsServe
<1>4. CASE r \in confirmed
  <2>1. Keeps(b, r)
    <3>1. CASE b \in heirs
      BY <1>3, <1>4, <3>1 DEF PaymentsKept, HeirsKeep
    <3>2. CASE Settled(b)
      <4>1. PICK p \in heirs : role[p] = "PRIMARY" /\ Told(p, b)
        BY <3>2 DEF Settled
      <4>2. p \in Servers
        BY DEF Advance, FailoverTypeOK
      <4>3. QED
        BY <1>1, <1>4, <3>2, <4>1, <4>2 DEF Settled, Told, PaymentsKept, ToldKeep
    <3>3. QED
      BY <1>2, <3>1, <3>2
  <2>2. ~crash(b)
    BY <1>1, CrashRoles DEF Advance
  <2>3. QED
    BY <1>1, <1>3, <2>1, <2>2, BackupKeeps
<1>5. CASE r \notin confirmed
  <2>1. PICK p \in Servers : \A c \in Servers : role[c] = "BACKUP" /\ ~Leaves(p, c) => Keeps(c, r)'
    BY <1>5, NewlyConfirmed
  <2>2. QED
    BY <1>1, <1>3, <2>1
<1>6. QED
  BY <1>4, <1>5

\* What a snapshot still holds is sent or remains.
LEMMA SnapshotStep ==
  ASSUME Advance, NEW p \in Servers, NEW b \in Servers, b \in syncing[p], role[b] = "BACKUP",
         ~crash(p), NEW r, IsIn(r, snapshot[p])
  PROVE  Brings(chan'[b], r) \/ (b \in syncing'[p] /\ IsIn(r, snapshot'[p]))
<1>0. /\ Kinds /\ FailoverTypeOK
      /\ syncing \in [Servers -> SUBSET Servers] /\ snapshot \in [Servers -> LedgerType]
      /\ chan \in [Servers -> Seq(Updates)] /\ syncing' \in [Servers -> SUBSET Servers]
  BY DEF Advance, FailoverTypeOK
<1>1. CASE syncing'[p] = syncing[p] /\ snapshot'[p] = snapshot[p]
  BY <1>1
<1>2. ASSUME NEW s \in Servers, NEW c, NEW rest, SendOn(s, c, rest), s # p
      PROVE  syncing'[p] = syncing[p] /\ snapshot'[p] = snapshot[p]
  BY <1>0, <1>2 DEF SendOn
<1>3. ASSUME NEW s \in Servers, crash(s)
      PROVE  syncing'[p] = syncing[p] /\ snapshot'[p] = snapshot[p]
  BY <1>0, <1>3 DEF crash
<1>4. ASSUME NEW s \in Servers, NEW c \in Servers, Enlists(s, c)
      PROVE  s # p /\ SendOn(s, c, book[s])
  BY <1>4 DEF Enlists
<1>5. ASSUME NEW s \in Servers, serve(s), s # p
      PROVE  syncing'[p] = syncing[p] /\ snapshot'[p] = snapshot[p]
  BY <1>2, <1>5 DEF serve, handleDiscoveryPacket, handleTransactionRequest,
       processTransaction, receiveUpdate, sendClientSnapshot, sendHistorySnapshot
<1>6. ASSUME NEW c \in Servers, sendClientSnapshot(p, c)
      PROVE  b \in syncing'[p] /\ IsIn(r, snapshot'[p])
  <2>1. c = b
    BY <1>6 DEF sendClientSnapshot, Advance, LineOK, OneSnapshot
  <2>2. PICK d : SendOn(p, b, [snapshot[p] EXCEPT !.registered = @ \ {d}])
    BY <1>6, <2>1 DEF sendClientSnapshot
  <2> DEFINE rest == [snapshot[p] EXCEPT !.registered = @ \ {d}]
  <2>3. rest.history = snapshot[p].history
    BY <1>0 DEF LedgerType
  <2>4. IsIn(r, rest) /\ rest.history # <<>>
    BY <2>3 DEF IsIn
  <2>5. /\ syncing' = [syncing EXCEPT ![p] = {b}]
        /\ snapshot' = [snapshot EXCEPT ![p] = rest]
    BY <2>2, <2>4 DEF SendOn
  <2> HIDE DEF rest
  <2>6. QED
    BY <1>0, <2>4, <2>5
<1>7. ASSUME NEW c \in Servers, sendHistorySnapshot(p, c)
      PROVE  Brings(chan'[b], r) \/ (b \in syncing'[p] /\ IsIn(r, snapshot'[p]))
  <2> DEFINE h == snapshot[p].history
             rest == [snapshot[p] EXCEPT !.history = Tail(@)]
  <2>1. c = b /\ h # <<>>
    BY <1>7 DEF sendHistorySnapshot, Advance, LineOK, OneSnapshot
  <2>2. Up(b)
    BY RolesKnown DEF Advance
  <2>3. SendOn(p, b, rest) /\ chan' = [chan EXCEPT ![b] = Append(@, HistoryEntry(Head(h)))]
    BY <1>7, <2>1, <2>2 DEF sendHistorySnapshot
  <2>4. rest.history = Tail(h) /\ h \in Seq(Transaction)
    BY <1>0, BookFields DEF LedgerType
  <2>5. PICK i \in DOMAIN h : /\ h[i].source = r.source /\ h[i].seqn = r.seqn
                              /\ h[i].dest = r.dest /\ h[i].value = r.value
    BY DEF IsIn
  <2>6. CASE i = 1
    <3>1. HistoryEntry(Head(h)).type = "ADD_HISTORY_ENTRY"
          /\ HistoryEntry(Head(h)).transaction = h[1]
      BY <2>1, <2>4 DEF HistoryEntry
    <3>2. Carries(HistoryEntry(Head(h)), r)
      BY <2>5, <2>6, <3>1 DEF Carries
    <3>3. chan'[b] = Append(chan[b], HistoryEntry(Head(h)))
      BY <1>0, <2>3
    <3>4. QED
      BY <1>0, <3>2, <3>3, BroughtWithOneMore
  <2>7. CASE i # 1
    <3> HIDE DEF h
    <3>1. i - 1 \in DOMAIN Tail(h) /\ Tail(h)[i - 1] = h[i]
      BY <2>1, <2>4, <2>5, <2>7
    <3>2. IsIn(r, rest) /\ rest.history # <<>>
      BY <2>4, <2>5, <3>1 DEF IsIn
    <3>3. /\ syncing' = [syncing EXCEPT ![p] = {b}]
          /\ snapshot' = [snapshot EXCEPT ![p] = rest]
      BY <2>3, <3>2 DEF SendOn
    <3> HIDE DEF rest
    <3>4. QED
      BY <1>0, <3>2, <3>3
  <2>8. QED
    BY <2>6, <2>7
<1>8. ASSUME serve(p)
      PROVE  Brings(chan'[b], r) \/ (b \in syncing'[p] /\ IsIn(r, snapshot'[p]))
  BY <1>1, <1>6, <1>7, <1>8 DEF serve, handleDiscoveryPacket, handleTransactionRequest,
       processTransaction, receiveUpdate
<1>9. QED
  BY <1>0, <1>1, <1>2, <1>3, <1>4, <1>5, <1>8 DEF Kinds, Still, Joins, TakesOver, bookVars

\* The step in which <<p, b>> is told: a snapshot begins, or has begun.
LEMMA ToldStep ==
  ASSUME Advance, NEW p \in Servers, NEW b \in Servers, <<p, b>> \in told', b \notin outdated'
  PROVE  /\ Up(b)' /\ b \notin outdated /\ ~crash(p) /\ ~crash(b)
         /\ role[p] = "PRIMARY" /\ role[b] = "BACKUP"
         /\ Enlists(p, b) \/ (<<p, b>> \in told /\ ~Leaves(p, b))
<1>1. /\ Up(b)' /\ enlisted'[p][b] > 0
      /\ \/ <<p, b>> \in told /\ ~Leaves(p, b)
         \/ role[b] = "BACKUP" /\ enlisted'[p][b] > enlisted[p][b]
  BY DEF Advance, Succession
<1>2. b \notin outdated
  BY <1>1, OutdatedStep
<1>3. ~crash(b) /\ ~crash(p)
  BY <1>1, CrashRoles, Listing DEF Advance
<1>4. CASE <<p, b>> \in told /\ ~Leaves(p, b)
  BY <1>1, <1>2, <1>3, <1>4 DEF Advance, LineOK, ToldByLeader
<1>5. CASE role[b] = "BACKUP" /\ enlisted'[p][b] > enlisted[p][b]
  BY <1>1, <1>2, <1>3, <1>5, Listing DEF Enlists
<1>6. QED
  BY <1>1, <1>4, <1>5

LEMMA ToldKeepStep == ASSUME Advance, PaymentsKept PROVE ToldKeep'
<1> SUFFICES ASSUME NEW p \in Servers, NEW b \in Servers, NEW r \in confirmed',
                    <<p, b>> \in told', b \notin outdated'
             PROVE  Keeps(b, r)' \/ (b \in syncing'[p] /\ IsIn(r, snapshot'[p]))
  BY DEF ToldKeep
<1>0. /\ syncing \in [Servers -> SUBSET Servers] /\ snapshot \in [Servers -> LedgerType]
  BY DEF Advance, FailoverTypeOK
<1>1. /\ b \notin outdated /\ ~crash(p) /\ ~crash(b)
      /\ role[p] = "PRIMARY" /\ role[b] = "BACKUP"
      /\ Enlists(p, b) \/ (<<p, b>> \in told /\ ~Leaves(p, b))
  BY ToldStep
<1>2. CASE Enlists(p, b)
  <2>1. r \in confirmed /\ SendOn(p, b, book[p])
    BY <1>2 DEF Enlists
  <2>2. IsIn(r, book[p])
    BY <1>1, <2>1 DEF PaymentsKept, LeadersKeep
  <2>3. book[p].history # <<>>
    BY <2>2 DEF IsIn
  <2>4. syncing' = [syncing EXCEPT ![p] = {b}] /\ snapshot' = [snapshot EXCEPT ![p] = book[p]]
    BY <2>1, <2>3 DEF SendOn
  <2>5. QED
    BY <1>0, <2>2, <2>4
<1>3. CASE <<p, b>> \in told /\ ~Leaves(p, b) /\ r \in confirmed
  <2>1. Keeps(b, r) \/ (b \in syncing[p] /\ IsIn(r, snapshot[p]))
    BY <1>1, <1>3 DEF PaymentsKept, ToldKeep
  <2>2. Keeps(b, r) => Keeps(b, r)'
    BY <1>1, BackupKeeps
  <2>3. b \in syncing[p] /\ IsIn(r, snapshot[p])
        => Brings(chan'[b], r) \/ (b \in syncing'[p] /\ IsIn(r, snapshot'[p]))
    BY <1>1, SnapshotStep
  <2>4. QED
    BY <2>1, <2>2, <2>3 DEF Keeps
<1>4. CASE <<p, b>> \in told /\ ~Leaves(p, b) /\ r \notin confirmed
  <2>1. PICK q \in Servers :
          /\ role[q] = "PRIMARY"
          /\ \A c \in Servers : role[c] = "BACKUP" /\ ~Leaves(q, c) => Keeps(c, r)'
    BY <1>4, NewlyConfirmed
  <2>2. q = p
    BY <1>1, <2>1 DEF Advance, LineOK, OneLeader
  <2>3. QED
    BY <1>1, <1>4, <2>1, <2>2
<1>5. QED
  BY <1>1, <1>2, <1>3, <1>4

LEMMA PaymentsKeptStep == ASSUME Advance, PaymentsKept PROVE PaymentsKept'
BY LeadersKeepStep, HeirsKeepStep, ToldKeepStep DEF PaymentsKept

-----------------------------------------------------------------------------
(* The accounts that a backup will have when it has handled what is under  *)
(* way to it.                                                              *)

\* An address that is not registered counts as a new client.
Untouched(L) ==
  \A c \in Clients \ L.registered : L.balance[c] = InitialBalance /\ L.lastReq[c] = 0

Alike(L, M) == L.registered = M.registered /\ L.balance = M.balance /\ L.lastReq = M.lastReq

\* f: the accounts of L, and after each of the packets q, which leave no choice.
Replay(f, L, q) ==
  /\ f \in [1..(Len(q) + 1) -> LedgerType]
  /\ \A i \in 1..(Len(q) + 1) : Untouched(f[i])
  /\ Alike(f[1], L)
  /\ \A i \in 1..Len(q) : \A N \in Handled(f[i], q[i]) : Alike(N, f[i + 1])

Ends(L, q, F) == \E f : Replay(f, L, q) /\ f[Len(q) + 1] = F

LEMMA AlikeTransitive ==
  ASSUME NEW L, NEW M, NEW N
  PROVE  Alike(L, L) /\ (Alike(L, M) => Alike(M, L)) /\ (Alike(L, M) /\ Alike(M, N) => Alike(L, N))
BY DEF Alike

\* A packet does the same to accounts that are alike.
LEMMA HandledAlike ==
  ASSUME NEW L \in LedgerType, NEW M \in LedgerType, Alike(L, M), NEW m \in Updates,
         NEW N \in Handled(L, m)
  PROVE  \E P \in Handled(M, m) : Alike(N, P)
<1>1. CASE m.type = "ADD_CLIENT_UPDATE"
  <2>1. N = handleClientUpdate(L, m) /\ handleClientUpdate(M, m) \in Handled(M, m)
    BY <1>1 DEF Handled
  <2>2. Alike(handleClientUpdate(L, m), handleClientUpdate(M, m))
    BY DEF handleClientUpdate, Alike, findClient, LedgerType
  <2>3. QED
    BY <2>1, <2>2
<1>2. CASE m.type = "ADD_HISTORY_ENTRY"
  <2>1. N = handleHistoryEntry(L, m) /\ handleHistoryEntry(M, m) \in Handled(M, m)
    BY <1>2 DEF Handled
  <2>2. Alike(handleHistoryEntry(L, m), handleHistoryEntry(M, m))
    BY DEF handleHistoryEntry, Alike, LedgerType
  <2>3. QED
    BY <2>1, <2>2
<1>3. CASE m.type = "STATE_UPDATE"
  <2> DEFINE s == m.transaction.source
             d == m.transaction.dest
             A(K) == [handleHistoryEntry(K, m) EXCEPT !.registered = K.registered \cup {s, d}]
             one(K) == setBalance(K.balance, d, m.destBalance)
             both(K) == setBalance(setBalance(K.balance, s, m.sourceBalance), d, m.destBalance)
             lastReq(K) == [K.lastReq EXCEPT ![s] = m.transaction.seqn]
             dangling(K) == [A(K) EXCEPT !.balance = one(K)]
             written(K) == [A(K) EXCEPT !.balance = both(K), !.lastReq = lastReq(K)]
  <2>1. ASSUME NEW K \in LedgerType
        PROVE  /\ Handled(K, m) = IF d \in K.registered \cup {s} THEN {written(K)}
                                  ELSE {written(K), dangling(K)}
               /\ A(K).registered = K.registered \cup {s, d} /\ A(K).lastReq = K.lastReq
               /\ DOMAIN A(K) = DOMAIN K
    BY <1>3 DEF Handled, handleStateUpdate, handleHistoryEntry, LedgerType
  <2>2. ASSUME NEW K \in LedgerType
        PROVE  /\ dangling(K).registered = K.registered \cup {s, d}
               /\ written(K).registered = K.registered \cup {s, d}
               /\ dangling(K).balance = one(K) /\ dangling(K).lastReq = K.lastReq
               /\ written(K).balance = both(K) /\ written(K).lastReq = lastReq(K)
    <3>1. \A x, y : /\ [A(K) EXCEPT !.balance = x].registered = A(K).registered
                    /\ [A(K) EXCEPT !.balance = x].lastReq = A(K).lastReq
                    /\ [A(K) EXCEPT !.balance = x].balance = x
                    /\ [A(K) EXCEPT !.balance = x, !.lastReq = y].registered = A(K).registered
                    /\ [A(K) EXCEPT !.balance = x, !.lastReq = y].balance = x
                    /\ [A(K) EXCEPT !.balance = x, !.lastReq = y].lastReq = y
      <4> HIDE DEF A
      <4> QED BY <2>1 DEF LedgerType
    <3>2. A(K).registered = K.registered \cup {s, d} /\ A(K).lastReq = K.lastReq
      BY <2>1
    <3> HIDE DEF A, one, both, lastReq
    <3>3. QED
      BY <3>1, <3>2
  <2>3. one(L) = one(M) /\ both(L) = both(M) /\ lastReq(L) = lastReq(M)
    BY DEF Alike
  <2> HIDE DEF A, one, both, lastReq, dangling, written
  <2>4. Alike(dangling(L), dangling(M)) /\ Alike(written(L), written(M))
    BY <2>2, <2>3 DEF Alike
  <2>5. QED
    BY <2>1, <2>4 DEF Alike
<1>4. QED
  BY <1>1, <1>2, <1>3 DEF Updates, ClientUpdates, HistoryEntries, StateUpdates

LEMMA EndsAtOnce ==
  ASSUME NEW L \in LedgerType, Untouched(L)
  PROVE  Ends(L, <<>>, L)
<1>1. Replay([i \in 1..1 |-> L], L, <<>>)
  BY AlikeTransitive DEF Replay
<1>2. QED
  BY <1>1 DEF Ends

LEMMA EndsThere ==
  ASSUME NEW L, NEW F, Ends(L, <<>>, F)
  PROVE  Alike(F, L)
BY DEF Ends, Replay

LEMMA EndsInBook ==
  ASSUME NEW L, NEW q \in Seq(Updates), NEW F, Ends(L, q, F)
  PROVE  F \in LedgerType /\ Untouched(F)
<1>1. PICK f : Replay(f, L, q) /\ f[Len(q) + 1] = F
  BY DEF Ends
<1>2. Len(q) + 1 \in 1..(Len(q) + 1)
  OBVIOUS
<1>3. QED
  BY <1>1, <1>2 DEF Replay

LEMMA EndsAfterOne ==
  ASSUME NEW L \in LedgerType, NEW q \in Seq(Updates), q # <<>>, NEW F, Ends(L, q, F),
         NEW N \in Handled(L, Head(q))
  PROVE  Ends(N, Tail(q), F)
<1>1. PICK f : Replay(f, L, q) /\ f[Len(q) + 1] = F
  BY DEF Ends
<1>2. /\ Len(q) \in Nat /\ Len(q) > 0 /\ Len(Tail(q)) = Len(q) - 1
      /\ \A i \in 1..(Len(q) - 1) : Tail(q)[i] = q[i + 1]
      /\ Head(q) = q[1] /\ Head(q) \in Updates
  OBVIOUS
<1> DEFINE g == [i \in 1..Len(q) |-> f[i + 1]]
<1>3. 1 \in 1..(Len(q) + 1) /\ f[1] \in LedgerType
  BY <1>1, <1>2 DEF Replay
<1>4. Alike(N, f[2])
  <2>1. Alike(L, f[1])
    BY <1>1, AlikeTransitive DEF Replay
  <2>2. PICK P \in Handled(f[1], Head(q)) : Alike(N, P)
    BY <1>2, <1>3, <2>1, HandledAlike
  <2>3. Alike(P, f[2])
    <3>1. 1 \in 1..Len(q) /\ 1 + 1 = 2
      BY <1>2
    <3>2. \A i \in 1..Len(q) : \A M \in Handled(f[i], q[i]) : Alike(M, f[i + 1])
      BY <1>1 DEF Replay
    <3>3. \A M \in Handled(f[1], q[1]) : Alike(M, f[1 + 1])
      BY <3>1, <3>2
    <3>4. QED
      BY <1>2, <3>1, <3>3
  <2>4. QED
    BY <2>2, <2>3, AlikeTransitive
<1>5. Replay(g, N, Tail(q))
  <2>1. \A i \in 1..Len(q) : i + 1 \in 1..(Len(q) + 1)
    BY <1>2
  <2>2. g \in [1..Len(q) -> LedgerType] /\ \A i \in 1..Len(q) : Untouched(g[i])
    BY <1>1, <2>1 DEF Replay
  <2>3. Alike(g[1], N)
    BY <1>2, <1>4, AlikeTransitive
  <2>4. ASSUME NEW i \in 1..(Len(q) - 1), NEW P \in Handled(g[i], Tail(q)[i])
        PROVE  Alike(P, g[i + 1])
    <3>1. g[i] = f[i + 1] /\ g[i + 1] = f[(i + 1) + 1] /\ i + 1 \in 1..Len(q)
          /\ Tail(q)[i] = q[i + 1]
      BY <1>2
    <3> HIDE DEF g
    <3>2. QED
      BY <1>1, <2>4, <3>1 DEF Replay
  <2>5. (Len(q) - 1) + 1 = Len(q)
    BY <1>2
  <2> HIDE DEF g
  <2>6. QED
    BY <1>2, <2>2, <2>3, <2>4, <2>5 DEF Replay
<1>6. g[Len(Tail(q)) + 1] = F
  BY <1>1, <1>2
<1>7. QED
  BY <1>5, <1>6 DEF Ends

Copies(m, n) == [k \in 1..n |-> m]

\* n packets that are alike: after the first, the accounts are those of T and stay so.
LEMMA EndsAfterCopies ==
  ASSUME NEW L, NEW q \in Seq(Updates), NEW F, Ends(L, q, F),
         NEW T \in LedgerType, Untouched(T), NEW m, NEW n \in Nat,
         \A N \in Handled(F, m) : Alike(N, T),
         n > 1 => \A N \in Handled(T, m) : Alike(N, T)
  PROVE  Ends(L, q \o Copies(m, n), IF n = 0 THEN F ELSE T)
<1>1. PICK f : Replay(f, L, q) /\ f[Len(q) + 1] = F
  BY DEF Ends
<1> DEFINE w == [k \in 1..n |-> m]
           l == Len(q)
           g == [i \in 1..(l + n + 1) |-> IF i <= l + 1 THEN f[i] ELSE T]
<1>2. w \in Seq({m}) /\ Len(w) = n /\ \A k \in 1..n : w[k] = m
  OBVIOUS
<1>3. /\ Len(q \o w) = l + n /\ l \in Nat
      /\ \A i \in 1..(l + n) : (q \o w)[i] = IF i <= l THEN q[i] ELSE w[i - l]
  <2> HIDE DEF w
  <2> QED BY <1>2
<1>4. \A i \in 1..(l + n) : (q \o w)[i] = IF i <= l THEN q[i] ELSE m
  BY <1>2, <1>3
<1> HIDE DEF w, l
<1>5. /\ f \in [1..(l + 1) -> LedgerType] /\ \A i \in 1..(l + 1) : Untouched(f[i])
      /\ Alike(f[1], L)
      /\ \A i \in 1..l : \A N \in Handled(f[i], q[i]) : Alike(N, f[i + 1])
      /\ f[l + 1] = F
  BY <1>1 DEF Replay, l
<1>6. g \in [1..(l + n + 1) -> LedgerType] /\ \A i \in 1..(l + n + 1) : Untouched(g[i])
  BY <1>3, <1>5
<1>7. Alike(g[1], L)
  BY <1>3, <1>5
<1>8. ASSUME NEW i \in 1..(l + n), NEW N \in Handled(g[i], (q \o w)[i])
      PROVE  Alike(N, g[i + 1])
  <2>1. CASE i <= l
    <3>1. g[i] = f[i] /\ g[i + 1] = f[i + 1] /\ (q \o w)[i] = q[i] /\ i \in 1..l
      BY <1>3, <1>4, <2>1
    <3> HIDE DEF g
    <3>2. QED
      BY <1>5, <1>8, <3>1
  <2>2. CASE i = l + 1
    <3>1. g[i] = F /\ g[i + 1] = T /\ (q \o w)[i] = m
      BY <1>3, <1>4, <1>5, <2>2
    <3> HIDE DEF g
    <3>2. QED
      BY <1>8, <3>1
  <2>3. CASE i > l + 1
    <3>1. g[i] = T /\ g[i + 1] = T /\ (q \o w)[i] = m /\ n > 1
      BY <1>3, <1>4, <2>3
    <3> HIDE DEF g
    <3>2. QED
      BY <1>8, <3>1
  <2>4. QED
    BY <1>3, <2>1, <2>2, <2>3
<1>9. g[l + n + 1] = IF n = 0 THEN F ELSE T
  BY <1>3, <1>5
<1> HIDE DEF g
<1>10. Replay(g, L, q \o w)
  BY <1>3, <1>6, <1>7, <1>8 DEF Replay
<1>11. QED
  BY <1>3, <1>9, <1>10 DEF Ends, w, Copies

LEMMA EndsAfterPacket ==
  ASSUME NEW L, NEW q \in Seq(Updates), NEW F, Ends(L, q, F),
         NEW T \in LedgerType, Untouched(T), NEW m, \A N \in Handled(F, m) : Alike(N, T)
  PROVE  Ends(L, Append(q, m), T)
<1>1. Ends(L, q \o Copies(m, 1), T)
  <2>1. 1 \in Nat /\ ~(1 > 1) /\ (IF 1 = 0 THEN F ELSE T) = T
    OBVIOUS
  <2>2. Ends(L, q \o Copies(m, 1), IF 1 = 0 THEN F ELSE T)
    BY <2>1, EndsAfterCopies
  <2>3. QED
    BY <2>1, <2>2
<1>2. q \o Copies(m, 1) = Append(q, m)
  BY DEF Copies
<1>3. QED
  BY <1>1, <1>2

LEMMA StateUpdateFields ==
  ASSUME NEW K \in LedgerType, NEW m \in StateUpdates, NEW N \in Handled(K, m)
  PROVE  LET s == m.transaction.source
             d == m.transaction.dest
             one == setBalance(K.balance, d, m.destBalance)
             both == setBalance(setBalance(K.balance, s, m.sourceBalance), d, m.destBalance) IN
         /\ N.registered = K.registered \cup {s, d}
         /\ \/ N.balance = both /\ N.lastReq = [K.lastReq EXCEPT ![s] = m.transaction.seqn]
            \/ d \notin K.registered /\ N.balance = one /\ N.lastReq = K.lastReq
<1> DEFINE s == m.transaction.source
           d == m.transaction.dest
           A == [handleHistoryEntry(K, m) EXCEPT !.registered = K.registered \cup {s, d}]
           one == setBalance(K.balance, d, m.destBalance)
           both == setBalance(setBalance(K.balance, s, m.sourceBalance), d, m.destBalance)
           lastReq == [K.lastReq EXCEPT ![s] = m.transaction.seqn]
<1>1. m.type = "STATE_UPDATE"
  BY DEF StateUpdates
<1>2. \/ N = [A EXCEPT !.balance = both, !.lastReq = lastReq]
      \/ d \notin K.registered /\ N = [A EXCEPT !.balance = one]
  BY <1>1 DEF Handled, handleStateUpdate
<1>3. /\ A.registered = K.registered \cup {s, d} /\ A.lastReq = K.lastReq
      /\ DOMAIN A = DOMAIN K
  BY DEF handleHistoryEntry, LedgerType
<1> HIDE DEF A, one, both, lastReq, s, d
<1>4. /\ N.registered = K.registered \cup {s, d}
      /\ \/ N.balance = both /\ N.lastReq = lastReq
         \/ d \notin K.registered /\ N.balance = one /\ N.lastReq = K.lastReq
  BY <1>2, <1>3 DEF LedgerType
<1>5. QED
  BY <1>4 DEF one, both, lastReq, s, d

\* A packet leaves those that it is not about as they were.
LEMMA HandledUntouched ==
  ASSUME NEW L \in LedgerType, Untouched(L), NEW m \in Updates, NEW N \in Handled(L, m)
  PROVE  Untouched(N)
<1>0. L.balance \in [Clients -> Int] /\ L.lastReq \in [Clients -> Nat]
  BY BookFields
<1>1. CASE m \in ClientUpdates
  <2>1. m.type = "ADD_CLIENT_UPDATE"
    BY <1>1 DEF ClientUpdates
  <2>2. N = handleClientUpdate(L, m)
    BY <2>1 DEF Handled
  <2>3. \/ N = L
        \/ /\ N.registered = L.registered \cup {m.client}
           /\ N.balance = [L.balance EXCEPT ![m.client] = m.balance]
           /\ N.lastReq = [L.lastReq EXCEPT ![m.client] = m.lastReq]
    BY <2>2 DEF handleClientUpdate, LedgerType
  <2>4. QED
    BY <1>0, <2>3 DEF Untouched
<1>2. CASE m \in HistoryEntries
  <2>1. m.type = "ADD_HISTORY_ENTRY"
    BY <1>2 DEF HistoryEntries
  <2>2. N.registered = L.registered /\ N.balance = L.balance /\ N.lastReq = L.lastReq
    BY <2>1 DEF Handled, handleHistoryEntry, LedgerType
  <2>3. QED
    BY <2>2 DEF Untouched
<1>3. CASE m \in StateUpdates
  <2> DEFINE s == m.transaction.source
             d == m.transaction.dest
  <2>1. /\ N.registered = L.registered \cup {s, d}
        /\ \/ N.balance = setBalance(setBalance(L.balance, s, m.sourceBalance), d, m.destBalance)
           \/ N.balance = setBalance(L.balance, d, m.destBalance)
        /\ N.lastReq = [L.lastReq EXCEPT ![s] = m.transaction.seqn] \/ N.lastReq = L.lastReq
    BY <1>3, StateUpdateFields
  <2> HIDE DEF s, d
  <2>2. ASSUME NEW c \in Clients \ N.registered
        PROVE  N.balance[c] = L.balance[c] /\ N.lastReq[c] = L.lastReq[c] /\ c \notin L.registered
    BY <1>0, <2>1, <2>2 DEF setBalance
  <2>3. QED
    BY <2>2 DEF Untouched
<1>4. QED
  BY <1>1, <1>2, <1>3 DEF Updates

LEMMA ClientTold ==
  ASSUME NEW F \in LedgerType, Untouched(F), NEW m \in ClientUpdates
  PROVE  \E T \in LedgerType :
           /\ Untouched(T)
           /\ \A N \in Handled(F, m) : Alike(N, T)
           /\ \A N \in Handled(T, m) : Alike(N, T)
           /\ T.registered = F.registered \cup {m.client}
           /\ \A c \in Clients : c \in F.registered \/ c # m.client =>
                T.balance[c] = F.balance[c] /\ T.lastReq[c] = F.lastReq[c]
           /\ m.client \notin F.registered =>
                T.balance[m.client] = m.balance /\ T.lastReq[m.client] = m.lastReq
<1> DEFINE T == handleClientUpdate(F, m)
<1>1. m.type = "ADD_CLIENT_UPDATE" /\ m \in Updates /\ m.client \in Clients
  BY DEF ClientUpdates, Updates
<1>2. \A K : Handled(K, m) = {handleClientUpdate(K, m)}
  BY <1>1 DEF Handled
<1>3. T \in LedgerType /\ Untouched(T)
  BY <1>1, <1>2, ClientUpdateHandledType, HandledUntouched
<1>4. /\ m.client \in F.registered => T = F
      /\ m.client \notin F.registered =>
           /\ T.registered = F.registered \cup {m.client}
           /\ T.balance = [F.balance EXCEPT ![m.client] = m.balance]
           /\ T.lastReq = [F.lastReq EXCEPT ![m.client] = m.lastReq]
  BY DEF handleClientUpdate, findClient, LedgerType
<1> HIDE DEF T
<1>5. T.registered = F.registered \cup {m.client}
  BY <1>4
<1>6. handleClientUpdate(T, m) = T
  BY <1>5 DEF handleClientUpdate, findClient
<1>7. F.balance \in [Clients -> Int] /\ F.lastReq \in [Clients -> Nat]
  BY BookFields
<1>8. /\ \A N \in Handled(F, m) : Alike(N, T)
      /\ \A N \in Handled(T, m) : Alike(N, T)
  BY <1>2, <1>6, AlikeTransitive DEF T
<1>9. /\ \A c \in Clients : c \in F.registered \/ c # m.client =>
           T.balance[c] = F.balance[c] /\ T.lastReq[c] = F.lastReq[c]
      /\ m.client \notin F.registered =>
           T.balance[m.client] = m.balance /\ T.lastReq[m.client] = m.lastReq
  BY <1>1, <1>4, <1>7
<1>10. QED
  BY <1>3, <1>5, <1>8, <1>9

LEMMA EntryTold ==
  ASSUME NEW F \in LedgerType, NEW m, m.type = "ADD_HISTORY_ENTRY", NEW N \in Handled(F, m)
  PROVE  Alike(N, F)
BY DEF Handled, handleHistoryEntry, Alike, LedgerType

\* What a transaction needs, and what it does to the accounts.
LEMMA RequestAccounts ==
  ASSUME Advance, NEW p \in Servers, NEW r \in Requests, NEW M \in LedgerType, CarriesOut(p, r, M)
  PROVE  LET L == book[p] s == r.source d == r.dest IN
         /\ s \in L.registered /\ d \in L.registered /\ M.registered = L.registered
         /\ r.seqn = L.lastReq[s] + 1
         /\ M.lastReq = [L.lastReq EXCEPT ![s] = r.seqn]
         /\ \A c \in Clients \ {s, d} : M.balance[c] = L.balance[c]
         /\ StateUpdate(M).type = "STATE_UPDATE"
         /\ StateUpdate(M).transaction.source = s /\ StateUpdate(M).transaction.dest = d
         /\ StateUpdate(M).transaction.seqn = r.seqn
         /\ StateUpdate(M).sourceBalance = M.balance[s]
         /\ StateUpdate(M).destBalance = M.balance[d]
         /\ StateUpdate(M) \in StateUpdates
<1> DEFINE L == book[p]
           s == r.source
           d == r.dest
           v == r.value
           n == r.seqn
<1>0. L \in LedgerType
  BY DEF Advance, FailoverTypeOK
<1>1. s \in Clients /\ d \in Clients /\ v \in Int /\ n \in Nat
  BY RequestParts
<1>2. /\ handleTransactionLogic(L, s, d, v, n).status = "SUCCESS"
      /\ M = updateAndLogTransaction(executeTransaction(L, s, d, v, n), s, d, v, n)
  BY DEF CarriesOut
<1>3. validateTransaction(L, s, d, v, n) = "SUCCESS"
  BY <1>2 DEF handleTransactionLogic
<1>4. L.lastReq \in [Clients -> Nat] /\ L.lastReq[s] \in Nat
  BY <1>0, <1>1, BookFields
<1>5. s \in L.registered /\ d \in L.registered /\ n = L.lastReq[s] + 1
  BY <1>1, <1>3, <1>4 DEF validateTransaction, findClient
<1>6. /\ M.registered = L.registered
      /\ \A c \in Clients : M.lastReq[c] = IF c = s THEN n ELSE L.lastReq[c]
      /\ \A c \in Clients \ {s, d} : M.balance[c] = L.balance[c]
  BY <1>0, <1>1, <1>2, ExecutionFields
<1>7. M.lastReq = [L.lastReq EXCEPT ![s] = n]
  <2>1. M.lastReq \in [Clients -> Nat]
    BY BookFields
  <2>2. QED
    BY <1>4, <1>6, <2>1
<1>8. Carries(StateUpdate(M), r) /\ M.history # <<>>
  <2>1. M.history = Append(L.history, newTransaction(L, s, d, v, n)) /\ Carries(StateUpdate(M), r)
    BY RequestCarriedOut
  <2>2. L.history \in Seq(Transaction) /\ M.history \in Seq(Transaction)
    BY <1>0, BookFields
  <2>3. QED
    BY <2>1, <2>2, AppendProperties
<1>9. StateUpdate(M) \in StateUpdates
  <2>1. StateUpdate(M) \in Updates
    BY <1>8, StateUpdateType
  <2>2. QED
    BY <2>1 DEF StateUpdate, Updates, ClientUpdates, HistoryEntries
<1>10. /\ StateUpdate(M).sourceBalance = M.balance[StateUpdate(M).transaction.source]
       /\ StateUpdate(M).destBalance = M.balance[StateUpdate(M).transaction.dest]
       /\ StateUpdate(M).type = "STATE_UPDATE"
  BY DEF StateUpdate
<1>11. QED
  BY <1>5, <1>6, <1>7, <1>8, <1>9, <1>10 DEF Carries

\* Accounts that are those of the primary follow it through a transaction.
LEMMA TransactionTold ==
  ASSUME Advance, NEW p \in Servers, NEW r \in Requests, NEW M \in LedgerType, CarriesOut(p, r, M),
         NEW F \in LedgerType, Untouched(F), book[p].registered \subseteq F.registered,
         F.balance = book[p].balance, F.lastReq = book[p].lastReq
  PROVE  \E T \in LedgerType :
           /\ Untouched(T)
           /\ \A N \in Handled(F, StateUpdate(M)) : Alike(N, T)
           /\ \A N \in Handled(T, StateUpdate(M)) : Alike(N, T)
           /\ T.registered = F.registered /\ T.balance = M.balance /\ T.lastReq = M.lastReq
<1> DEFINE m == StateUpdate(M)
           s == r.source
           d == r.dest
           T == [F EXCEPT !.balance = M.balance, !.lastReq = M.lastReq]
<1>1. /\ s \in book[p].registered /\ d \in book[p].registered
      /\ M.lastReq = [book[p].lastReq EXCEPT ![s] = r.seqn]
      /\ \A c \in Clients \ {s, d} : M.balance[c] = book[p].balance[c]
      /\ m.transaction.source = s /\ m.transaction.dest = d
      /\ m.transaction.seqn = r.seqn
      /\ m.sourceBalance = M.balance[s] /\ m.destBalance = M.balance[d]
      /\ m \in StateUpdates
  BY RequestAccounts
<1>2. /\ F.balance \in [Clients -> Int] /\ F.lastReq \in [Clients -> Nat]
      /\ M.balance \in [Clients -> Int] /\ M.lastReq \in [Clients -> Nat]
      /\ s \in Clients /\ d \in Clients
  BY BookFields, RequestParts
<1>3. /\ T \in LedgerType /\ T.registered = F.registered
      /\ T.balance = M.balance /\ T.lastReq = M.lastReq
  BY <1>2 DEF LedgerType
<1> HIDE DEF m, T, s, d
<1>4. Untouched(T)
  BY <1>1, <1>2, <1>3 DEF Untouched
<1>5. ASSUME NEW K \in LedgerType, K.registered = F.registered,
             K.balance \in [Clients -> Int], K.lastReq \in [Clients -> Nat],
             \A c \in Clients \ {s, d} : K.balance[c] = M.balance[c],
             [K.lastReq EXCEPT ![s] = r.seqn] = M.lastReq,
             NEW N \in Handled(K, m)
      PROVE  Alike(N, T)
  <2>1. /\ N.registered = K.registered \cup {s, d}
        /\ \/ /\ N.balance = setBalance(setBalance(K.balance, s, M.balance[s]), d, M.balance[d])
              /\ N.lastReq = [K.lastReq EXCEPT ![s] = r.seqn]
           \/ d \notin K.registered
    <3>1. /\ m \in StateUpdates /\ m.transaction.source = s /\ m.transaction.dest = d
          /\ m.transaction.seqn = r.seqn
          /\ m.sourceBalance = M.balance[s] /\ m.destBalance = M.balance[d]
      BY <1>1
    <3>2. LET x == m.transaction.source
              y == m.transaction.dest
              both == setBalance(setBalance(K.balance, x, m.sourceBalance), y, m.destBalance) IN
          /\ N.registered = K.registered \cup {x, y}
          /\ \/ N.balance = both /\ N.lastReq = [K.lastReq EXCEPT ![x] = m.transaction.seqn]
             \/ y \notin K.registered
      <4>1. m \in StateUpdates
        BY <3>1
      <4>2. QED
        BY <1>5, <4>1, StateUpdateFields
    <3>3. QED
      BY <3>1, <3>2
  <2>2. N.registered = F.registered /\ d \in K.registered
    BY <1>1, <1>5, <2>1
  <2>3. setBalance(setBalance(K.balance, s, M.balance[s]), d, M.balance[d]) = M.balance
    BY <1>2, <1>5 DEF setBalance
  <2>4. QED
    BY <1>3, <1>5, <2>1, <2>2, <2>3 DEF Alike
<1>6. \A N \in Handled(F, m) : Alike(N, T)
  BY <1>1, <1>2, <1>5
<1>7. \A N \in Handled(T, m) : Alike(N, T)
  <2>1. [T.lastReq EXCEPT ![s] = r.seqn] = M.lastReq
    BY <1>1, <1>2, <1>3
  <2>2. QED
    BY <1>2, <1>3, <1>5, <2>1
<1>8. QED
  BY <1>3, <1>4, <1>6, <1>7 DEF m

-----------------------------------------------------------------------------
(* The accounts: balance and lastReq are those of the last primary.        *)

FreshBooks ==
  \A s \in Servers : Untouched(book[s]) /\ (role[s] = "unset" => book[s] = EmptyLedger)

CopiesCurrent ==
  \A p, b \in Servers :
    <<p, b>> \in told /\ b \notin outdated /\ b \in syncing[p] =>
      snapshot[p].balance = book[p].balance /\ snapshot[p].lastReq = book[p].lastReq

\* F is what b will have.
Follows(b, F, balance, lastReq) ==
  /\ Ends(book[b], chan[b], F)
  /\ \A c \in F.registered : F.balance[c] = balance[c] /\ F.lastReq[c] = lastReq[c]
  /\ b \in heirs => F.balance = balance /\ F.lastReq = lastReq
  /\ \A p \in Servers : <<p, b>> \in told =>
       book[p].registered \subseteq
         F.registered \cup (IF b \in syncing[p] THEN snapshot[p].registered ELSE {})

Harmless(m, balance, lastReq) ==
  \/ m.type = "ADD_HISTORY_ENTRY"
  \/ /\ m.type = "ADD_CLIENT_UPDATE"
     /\ m.balance = balance[m.client] /\ m.lastReq = lastReq[m.client]

LeadersHave(balance, lastReq) ==
  \A p \in Servers : role[p] = "PRIMARY" =>
    book[p].balance = balance /\ book[p].lastReq = lastReq

BackupsFollow(balance, lastReq) ==
  \A b \in Servers : role[b] = "BACKUP" /\ b \notin outdated =>
    \E F \in LedgerType : Follows(b, F, balance, lastReq)

NewcomersUnharmed(balance, lastReq) ==
  \A b \in Servers : role[b] = "unset" /\ b \notin outdated =>
    \A i \in DOMAIN chan[b] : Harmless(chan[b][i], balance, lastReq)

AccountsAt(balance, lastReq) ==
  /\ heirs = {} => balance = EmptyLedger.balance /\ lastReq = EmptyLedger.lastReq
  /\ \A q \in confirmed : q.seqn <= lastReq[q.source]
  /\ LeadersHave(balance, lastReq)
  /\ BackupsFollow(balance, lastReq)
  /\ NewcomersUnharmed(balance, lastReq)

AccountsKept ==
  \E balance \in [Clients -> Int], lastReq \in [Clients -> Nat] : AccountsAt(balance, lastReq)

LEMMA EmptyLedgerUntouched == Untouched(EmptyLedger)
BY DEF Untouched, EmptyLedger

LEMMA FreshBooksStep == ASSUME Advance, FreshBooks PROVE FreshBooks'
<1> SUFFICES ASSUME NEW s \in Servers
             PROVE  Untouched(book'[s]) /\ (role'[s] = "unset" => book'[s] = EmptyLedger)
  BY DEF FreshBooks
<1>0. /\ book \in [Servers -> LedgerType] /\ book' \in [Servers -> LedgerType]
      /\ chan \in [Servers -> Seq(Updates)]
      /\ Untouched(book[s]) /\ (role[s] = "unset" => book[s] = EmptyLedger)
  BY DEF Advance, FailoverTypeOK, FreshBooks
<1>1. CASE crash(s)
  BY <1>0, <1>1, EmptyLedgerUntouched DEF crash
<1>2. CASE ~crash(s)
  <2>1. role'[s] = "unset" => role[s] = "unset"
    BY <1>2, RoleStep DEF RoleOf
  <2>2. CASE book'[s] = book[s]
    BY <1>0, <2>1, <2>2
  <2>3. ASSUME NEW t \in Servers, crash(t)
        PROVE  book'[s] = book[s]
    BY <1>0, <1>2, <2>3 DEF crash
  <2>4. ASSUME NEW t \in Servers, receiveUpdate(t), book'[s] # book[s]
        PROVE  Untouched(book'[s]) /\ role[s] # "unset"
    <3>1. PICK L \in (IF role[t] = "BACKUP" THEN Handled(book[t], Head(chan[t])) ELSE {book[t]}) :
            book' = [book EXCEPT ![t] = L]
      BY <2>4 DEF receiveUpdate
    <3>2. t = s /\ role[s] = "BACKUP" /\ L \in Handled(book[s], Head(chan[s])) /\ book'[s] = L
      BY <1>0, <2>4, <3>1
    <3>3. Head(chan[s]) \in Updates
      BY <1>0, <2>4, <3>2 DEF receiveUpdate
    <3>4. QED
      BY <1>0, <3>2, <3>3, HandledUntouched
  <2>5. ASSUME NEW p \in Servers, LeaderServes(p), book'[s] # book[s]
        PROVE  Untouched(book'[s]) /\ role[s] # "unset"
    <3>1. ASSUME NEW c \in Clients, handleDiscoveryPacket(p, c)
          PROVE  Untouched(book'[s]) /\ role[s] # "unset"
      <4>1. book' = [book EXCEPT ![p] = wasClientAdded(book[p], c)]
        BY <3>1 DEF handleDiscoveryPacket
      <4>2. s = p /\ role[s] = "PRIMARY"
        BY <1>0, <2>5, <4>1 DEF LeaderServes
      <4>3. /\ book'[s].registered = book[s].registered \cup {c}
            /\ book'[s].lastReq = book[s].lastReq /\ book'[s].balance = book[s].balance
        BY <1>0, <4>1, <4>2, RegistrationEffect
      <4>4. QED
        BY <1>0, <4>2, <4>3 DEF Untouched
    <3>2. ASSUME NEW r \in Requests, NEW M \in LedgerType, CarriesOut(p, r, M)
          PROVE  Untouched(book'[s]) /\ role[s] # "unset"
      <4>1. s = p /\ book'[s] = M
        BY <1>0, <2>5, <3>2 DEF CarriesOut
      <4>2. /\ r.source \in book[p].registered /\ r.dest \in book[p].registered
            /\ M.registered = book[p].registered
            /\ M.lastReq = [book[p].lastReq EXCEPT ![r.source] = r.seqn]
            /\ \A c \in Clients \ {r.source, r.dest} : M.balance[c] = book[p].balance[c]
        BY <3>2, RequestAccounts
      <4>3. book[p].lastReq \in [Clients -> Nat]
        BY <1>0, BookFields
      <4>4. QED
        BY <1>0, <2>5, <4>1, <4>2, <4>3 DEF Untouched, LeaderServes
    <3>3. QED
      BY <2>5, <3>1, <3>2 DEF LeaderServes, handleTransactionRequest, Refuses,
                              sendClientSnapshot, sendHistorySnapshot
  <2>6. QED
    BY <2>1, <2>2, <2>3, <2>4, <2>5, BookStep
<1>3. QED
  BY <1>1, <1>2

\* Whoever carries out a transaction leaves behind those to whom it is sending a snapshot.
LEMMA TransactionLeaves ==
  ASSUME Advance, NEW p \in Servers, NEW r \in Requests, NEW M \in LedgerType,
         CarriesOut(p, r, M), role[p] = "PRIMARY", NEW b \in Servers, b # p
  PROVE  Leaves(p, b) <=> ~Told(p, b)
<1>1. book[p].history \in Seq(Transaction)
  BY BookFields DEF Advance, FailoverTypeOK
<1>2. Len(book'[p].history) > Len(book[p].history)
  BY <1>1, RequestCarriedOut
<1>3. QED
  BY <1>2 DEF Leaves, Transacts

\* What a step leaves of the book of a primary, and of its snapshot for a backup.
LEMMA CopiesCurrentStep == ASSUME Advance, CopiesCurrent PROVE CopiesCurrent'
<1> SUFFICES ASSUME NEW p \in Servers, NEW b \in Servers,
                    <<p, b>> \in told', b \notin outdated', b \in syncing'[p]
             PROVE  snapshot'[p].balance = book'[p].balance /\ snapshot'[p].lastReq = book'[p].lastReq
  BY DEF CopiesCurrent
<1>0. /\ syncing \in [Servers -> SUBSET Servers] /\ snapshot \in [Servers -> LedgerType]
      /\ book \in [Servers -> LedgerType] /\ book' \in [Servers -> LedgerType]
      /\ Kinds
  BY DEF Advance, FailoverTypeOK
<1>1. /\ b \notin outdated /\ ~crash(p) /\ ~crash(b)
      /\ role[p] = "PRIMARY" /\ role[b] = "BACKUP"
      /\ Enlists(p, b) \/ (<<p, b>> \in told /\ ~Leaves(p, b))
  BY ToldStep
<1>2. CASE Enlists(p, b)
  <2>1. snapshot' = [snapshot EXCEPT ![p] = book[p]] /\ book' = book
    BY <1>0, <1>2 DEF Enlists, SendOn
  <2>2. QED
    BY <1>0, <2>1
<1>3. CASE <<p, b>> \in told /\ ~Leaves(p, b) /\ ~Enlists(p, b)
  <2>1. b \in syncing[p]
    BY <1>3, Listing
  <2>2. snapshot[p].balance = book[p].balance /\ snapshot[p].lastReq = book[p].lastReq
    BY <1>1, <1>3, <2>1 DEF CopiesCurrent
  <2>3. book'[p].balance = book[p].balance /\ book'[p].lastReq = book[p].lastReq
    <3>1. ASSUME NEW t \in Servers, crash(t)
          PROVE  book'[p] = book[p]
      BY <1>0, <1>1, <3>1 DEF crash
    <3>2. ASSUME NEW t \in Servers, receiveUpdate(t)
          PROVE  book'[p] = book[p]
      BY <1>0, <1>1, <3>2 DEF receiveUpdate
    <3>3. ASSUME NEW t \in Servers, LeaderServes(t)
          PROVE  book'[p] = book[p]
      <4>1. t = p
        BY <1>1, <3>3 DEF LeaderServes, Advance, LineOK, OneLeader
      <4>2. ASSUME NEW c \in Clients, handleDiscoveryPacket(t, c)
            PROVE  FALSE
        BY <2>1, <4>1, <4>2 DEF handleDiscoveryPacket
      <4>3. ASSUME NEW r \in Requests, NEW M \in LedgerType, CarriesOut(t, r, M)
            PROVE  FALSE
        <5>1. b # p
          BY <1>1
        <5>2. QED
          BY <1>1, <1>3, <2>1, <4>1, <4>3, <5>1, TransactionLeaves DEF Told
      <4>4. QED
        BY <3>3, <4>2, <4>3 DEF LeaderServes, handleTransactionRequest, Refuses,
                                sendClientSnapshot, sendHistorySnapshot
    <3>4. QED
      BY <3>1, <3>2, <3>3, BookStep
  <2>4. snapshot'[p].balance = snapshot[p].balance /\ snapshot'[p].lastReq = snapshot[p].lastReq
    <3>1. CASE snapshot'[p] = snapshot[p]
      BY <3>1
    <3>2. ASSUME NEW s \in Servers, NEW c, NEW rest, SendOn(s, c, rest), s # p
          PROVE  snapshot'[p] = snapshot[p]
      BY <1>0, <3>2 DEF SendOn
    <3>3. ASSUME NEW c, NEW rest, SendOn(p, c, rest), rest.balance = snapshot[p].balance,
                 rest.lastReq = snapshot[p].lastReq
          PROVE  snapshot'[p].balance = snapshot[p].balance /\ snapshot'[p].lastReq = snapshot[p].lastReq
      <4>1. snapshot' = [snapshot EXCEPT ![p] = rest]
        BY <1>0, <3>3 DEF SendOn
      <4>2. QED
        BY <1>0, <3>3, <4>1
    <3>4. ASSUME NEW s \in Servers, crash(s)
          PROVE  snapshot'[p] = snapshot[p]
      BY <1>0, <1>1, <3>4 DEF crash
    <3>5. ASSUME NEW s \in Servers, NEW c \in Servers, Enlists(s, c)
          PROVE  s # p /\ SendOn(s, c, book[s])
      BY <2>1, <3>5 DEF Enlists
    <3>6. ASSUME NEW s \in Servers, serve(s), s # p
          PROVE  snapshot'[p] = snapshot[p]
      BY <3>2, <3>6 DEF serve, handleDiscoveryPacket, handleTransactionRequest,
           processTransaction, receiveUpdate, sendClientSnapshot, sendHistorySnapshot
    <3>7. ASSUME NEW c \in Servers, sendClientSnapshot(p, c) \/ sendHistorySnapshot(p, c)
          PROVE  \E rest : /\ SendOn(p, c, rest) /\ rest.balance = snapshot[p].balance
                           /\ rest.lastReq = snapshot[p].lastReq
      <4>1. snapshot[p] \in LedgerType
        BY <1>0
      <4>2. \A x : /\ [snapshot[p] EXCEPT !.registered = x].balance = snapshot[p].balance
                   /\ [snapshot[p] EXCEPT !.registered = x].lastReq = snapshot[p].lastReq
                   /\ [snapshot[p] EXCEPT !.history = x].balance = snapshot[p].balance
                   /\ [snapshot[p] EXCEPT !.history = x].lastReq = snapshot[p].lastReq
        BY <4>1 DEF LedgerType
      <4>3. \E x : \/ SendOn(p, c, [snapshot[p] EXCEPT !.registered = x])
                   \/ SendOn(p, c, [snapshot[p] EXCEPT !.history = x])
        BY <3>7 DEF sendClientSnapshot, sendHistorySnapshot
      <4>4. QED
        BY <4>2, <4>3
    <3>8. ASSUME serve(p)
          PROVE  \/ snapshot'[p] = snapshot[p]
                 \/ \E c \in Servers : sendClientSnapshot(p, c) \/ sendHistorySnapshot(p, c)
      BY <3>8 DEF serve, handleDiscoveryPacket, handleTransactionRequest,
           processTransaction, receiveUpdate
    <3>9. QED
      BY <1>0, <3>1, <3>2, <3>3, <3>4, <3>5, <3>6, <3>7, <3>8
         DEF Kinds, Still, Joins, TakesOver, bookVars
  <2>5. QED
    BY <2>2, <2>3, <2>4
<1>4. QED
  BY <1>1, <1>2, <1>3

\* Two books that hold the same for the clients of one, and nothing for others, have the
\* same accounts.
LEMMA WholeAccounts ==
  ASSUME NEW L \in LedgerType, NEW F \in LedgerType, Untouched(L), Untouched(F),
         L.registered \subseteq F.registered,
         \A c \in F.registered : F.balance[c] = L.balance[c] /\ F.lastReq[c] = L.lastReq[c]
  PROVE  F.balance = L.balance /\ F.lastReq = L.lastReq
<1>1. /\ F.balance \in [Clients -> Int] /\ F.lastReq \in [Clients -> Nat]
      /\ L.balance \in [Clients -> Int] /\ L.lastReq \in [Clients -> Nat]
  BY BookFields
<1>2. \A c \in Clients : F.balance[c] = L.balance[c] /\ F.lastReq[c] = L.lastReq[c]
  BY DEF Untouched
<1>3. QED
  BY <1>1, <1>2

LEMMA HeirHasAll ==
  ASSUME Advance, FreshBooks, NEW balance, NEW lastReq, LeadersHave(balance, lastReq),
         NEW b \in Servers, b \in heirs \/ Settled(b),
         NEW F \in LedgerType, Follows(b, F, balance, lastReq)
  PROVE  F.balance = balance /\ F.lastReq = lastReq
<1>1. CASE b \in heirs
  BY <1>1 DEF Follows
<1>2. CASE Settled(b)
  <2>1. PICK p \in heirs : role[p] = "PRIMARY" /\ Told(p, b)
    BY <1>2 DEF Settled
  <2>2. p \in Servers /\ book[p] \in LedgerType /\ chan[b] \in Seq(Updates)
    BY DEF Advance, FailoverTypeOK
  <2>3. book[p].registered \subseteq F.registered
    BY <2>1, <2>2 DEF Follows, Told
  <2>4. book[p].balance = balance /\ book[p].lastReq = lastReq
    BY <2>1, <2>2 DEF LeadersHave
  <2>5. Untouched(book[p]) /\ Untouched(F)
    BY <2>2, EndsInBook DEF FreshBooks, Follows
  <2>6. \A c \in F.registered : F.balance[c] = book[p].balance[c] /\ F.lastReq[c] = book[p].lastReq[c]
    BY <2>4 DEF Follows
  <2>7. QED
    BY <2>2, <2>3, <2>4, <2>5, <2>6, WholeAccounts
<1>3. QED
  BY <1>1, <1>2

\* The copy for b stays, but for a client that is sent.
LEMMA CopyStays ==
  ASSUME Advance, NEW p \in Servers, NEW b \in Servers, b \in syncing[p], ~crash(p),
         ~sendClientSnapshot(p, b), NEW c \in snapshot[p].registered
  PROVE  b \in syncing'[p] /\ c \in snapshot'[p].registered
<1>0. /\ Kinds
      /\ syncing \in [Servers -> SUBSET Servers] /\ snapshot \in [Servers -> LedgerType]
  BY DEF Advance, FailoverTypeOK
<1>1. CASE syncing'[p] = syncing[p] /\ snapshot'[p] = snapshot[p]
  BY <1>1
<1>2. ASSUME NEW s \in Servers, NEW d, NEW rest, SendOn(s, d, rest), s # p
      PROVE  syncing'[p] = syncing[p] /\ snapshot'[p] = snapshot[p]
  BY <1>0, <1>2 DEF SendOn
<1>3. ASSUME NEW s \in Servers, crash(s)
      PROVE  syncing'[p] = syncing[p] /\ snapshot'[p] = snapshot[p]
  BY <1>0, <1>3 DEF crash
<1>4. ASSUME NEW s \in Servers, NEW d \in Servers, Enlists(s, d)
      PROVE  s # p /\ SendOn(s, d, book[s])
  BY <1>4 DEF Enlists
<1>5. ASSUME NEW s \in Servers, serve(s), s # p
      PROVE  syncing'[p] = syncing[p] /\ snapshot'[p] = snapshot[p]
  BY <1>2, <1>5 DEF serve, handleDiscoveryPacket, handleTransactionRequest,
       processTransaction, receiveUpdate, sendClientSnapshot, sendHistorySnapshot
<1>6. ASSUME NEW d \in Servers, sendClientSnapshot(p, d) \/ sendHistorySnapshot(p, d)
      PROVE  FALSE
  <2>1. d = b
    BY <1>6 DEF sendClientSnapshot, sendHistorySnapshot, Advance, LineOK, OneSnapshot
  <2>2. QED
    BY <1>6, <2>1 DEF sendHistorySnapshot
<1>7. ASSUME serve(p)
      PROVE  syncing'[p] = syncing[p] /\ snapshot'[p] = snapshot[p]
  BY <1>6, <1>7 DEF serve, handleDiscoveryPacket, handleTransactionRequest,
       processTransaction, receiveUpdate
<1>8. QED
  BY <1>0, <1>1, <1>2, <1>3, <1>4, <1>5, <1>7 DEF Kinds, Still, Joins, TakesOver, bookVars

\* Which clients a primary comes to know.
LEMMA ClientStep ==
  ASSUME Advance, NEW p \in Servers, role[p] = "PRIMARY", ~crash(p), NEW c \in book'[p].registered
  PROVE  c \in book[p].registered \/ (c \in Clients /\ handleDiscoveryPacket(p, c))
<1>0. /\ book \in [Servers -> LedgerType] /\ book' \in [Servers -> LedgerType]
  BY DEF Advance, FailoverTypeOK
<1>1. CASE book'[p] = book[p]
  BY <1>1
<1>2. ASSUME NEW t \in Servers, crash(t)
      PROVE  book'[p] = book[p]
  BY <1>0, <1>2 DEF crash
<1>3. ASSUME NEW t \in Servers, receiveUpdate(t)
      PROVE  book'[p] = book[p]
  BY <1>0, <1>3 DEF receiveUpdate
<1>4. ASSUME NEW t \in Servers, LeaderServes(t)
      PROVE  c \in book[p].registered \/ (c \in Clients /\ handleDiscoveryPacket(p, c))
  <2>1. t = p
    BY <1>4 DEF LeaderServes, Advance, LineOK, OneLeader
  <2>2. ASSUME NEW d \in Clients, handleDiscoveryPacket(p, d)
        PROVE  c \in book[p].registered \/ c = d
    <3>1. book'[p] = wasClientAdded(book[p], d)
      BY <1>0, <2>2 DEF handleDiscoveryPacket
    <3>2. wasClientAdded(book[p], d).registered = book[p].registered \cup {d}
      BY <1>0, RegistrationEffect
    <3>3. QED
      BY <3>1, <3>2
  <2>3. ASSUME NEW r \in Requests, NEW M \in LedgerType, CarriesOut(p, r, M)
        PROVE  c \in book[p].registered
    <3>1. book'[p] = M
      BY <2>3, RequestCarriedOut
    <3>2. M.registered = book[p].registered
      BY <2>3, RequestAccounts
    <3>3. QED
      BY <3>1, <3>2
  <2>4. QED
    BY <1>1, <1>4, <2>1, <2>2, <2>3 DEF LeaderServes, handleTransactionRequest, Refuses,
                                        sendClientSnapshot, sendHistorySnapshot
<1>5. QED
  BY <1>1, <1>2, <1>3, <1>4, BookStep

\* What b has been told of the primary's clients, or is yet to be told.
LEMMA ToldOn ==
  ASSUME Advance, NEW balance, NEW lastReq, NEW b \in Servers, NEW F, Follows(b, F, balance, lastReq),
         b \notin outdated', NEW p \in Servers, <<p, b>> \in told', ~sendClientSnapshot(p, b),
         NEW S, F.registered \subseteq S,
         \A c \in Clients : handleDiscoveryPacket(p, c) => c \in S \cup book[p].registered
  PROVE  book'[p].registered \subseteq
           S \cup (IF b \in syncing'[p] THEN snapshot'[p].registered ELSE {})
<1>0. /\ syncing \in [Servers -> SUBSET Servers] /\ snapshot \in [Servers -> LedgerType]
  BY DEF Advance, FailoverTypeOK
<1>1. /\ ~crash(p) /\ role[p] = "PRIMARY"
      /\ Enlists(p, b) \/ <<p, b>> \in told
  BY ToldStep
<1>2. CASE Enlists(p, b)
  <2>1. book' = book /\ SendOn(p, b, book[p])
    BY <1>2 DEF Enlists
  <2>2. CASE book[p].registered = {}
    BY <2>1, <2>2
  <2>3. CASE book[p].registered # {}
    <3>1. syncing' = [syncing EXCEPT ![p] = {b}] /\ snapshot' = [snapshot EXCEPT ![p] = book[p]]
      BY <2>1, <2>3 DEF SendOn
    <3>2. QED
      BY <1>0, <2>1, <3>1
  <2>4. QED
    BY <2>2, <2>3
<1>3. CASE <<p, b>> \in told
  <2>1. ASSUME NEW c \in book'[p].registered
        PROVE  c \in S \/ (b \in syncing'[p] /\ c \in snapshot'[p].registered)
    <3>1. c \in S \/ c \in book[p].registered
      BY <1>1, ClientStep
    <3>2. c \in book[p].registered =>
            c \in F.registered \/ (b \in syncing[p] /\ c \in snapshot[p].registered)
      BY <1>3 DEF Follows
    <3>3. b \in syncing[p] /\ c \in snapshot[p].registered =>
            b \in syncing'[p] /\ c \in snapshot'[p].registered
      BY <1>1, CopyStays
    <3>4. QED
      BY <3>1, <3>2, <3>3
  <2>2. QED
    BY <2>1
<1>4. QED
  BY <1>1, <1>2, <1>3

\* b goes on following where no transaction is carried out.
LEMMA FollowsOn ==
  ASSUME Advance, FreshBooks,
         NEW balance \in [Clients -> Int], NEW lastReq \in [Clients -> Nat],
         LeadersHave(balance, lastReq), NEW b \in Servers, role'[b] = "BACKUP",
         NEW F \in LedgerType, Follows(b, F, balance, lastReq),
         NEW G \in LedgerType, Ends(book'[b], chan'[b], G), F.registered \subseteq G.registered,
         \A c \in G.registered : G.balance[c] = balance[c] /\ G.lastReq[c] = lastReq[c],
         \A p \in Servers : <<p, b>> \in told' =>
           book'[p].registered \subseteq
             G.registered \cup (IF b \in syncing'[p] THEN snapshot'[p].registered ELSE {})
  PROVE  Follows(b, G, balance, lastReq)'
<1>1. ASSUME b \in heirs'
      PROVE  G.balance = balance /\ G.lastReq = lastReq
  <2>1. b \in heirs \/ Settled(b)
    BY <1>1, HeirStep DEF NewPrimaries
  <2>2. F.balance = balance /\ F.lastReq = lastReq
    BY <2>1, HeirHasAll
  <2>3. chan[b] \in Seq(Updates) /\ chan'[b] \in Seq(Updates)
    BY DEF Advance, FailoverTypeOK
  <2>4. Untouched(F) /\ Untouched(G)
    BY <2>3, EndsInBook DEF Follows
  <2>5. \A c \in G.registered : G.balance[c] = F.balance[c] /\ G.lastReq[c] = F.lastReq[c]
    BY <2>2
  <2>6. QED
    BY <2>2, <2>4, <2>5, WholeAccounts
<1>2. QED
  BY <1>1 DEF Follows

\* A client of the snapshot for b is sent.
LEMMA FollowsSnapshot ==
  ASSUME Advance, FreshBooks, CopiesCurrent,
         NEW balance \in [Clients -> Int], NEW lastReq \in [Clients -> Nat],
         LeadersHave(balance, lastReq),
         NEW b \in Servers, role[b] = "BACKUP", role'[b] = "BACKUP", b \notin outdated',
         NEW F \in LedgerType, Follows(b, F, balance, lastReq),
         NEW p \in Servers, sendClientSnapshot(p, b)
  PROVE  \E G \in LedgerType : Follows(b, G, balance, lastReq)'
<1>0. /\ snapshot \in [Servers -> LedgerType] /\ chan \in [Servers -> Seq(Updates)]
      /\ syncing \in [Servers -> SUBSET Servers] /\ Up(b) /\ Up(b)'
      /\ b \in syncing[p] /\ role[p] = "PRIMARY" /\ Untouched(F) /\ book' = book
  <2>1. /\ FailoverTypeOK /\ FailoverTypeOK' /\ chan[b] \in Seq(Updates)
    BY DEF Advance, FailoverTypeOK
  <2>2. Untouched(F)
    BY <2>1, EndsInBook DEF Follows
  <2>3. Up(b)
    BY <2>1, RolesKnown
  <2>4. Up(b)'
    BY <2>3 DEF sendClientSnapshot, electionVars, vars, Up
  <2>5. QED
    BY <2>1, <2>2, <2>3, <2>4 DEF FailoverTypeOK, sendClientSnapshot, Advance, LineOK, OnlyLeadersWork
<1>1. PICK c \in snapshot[p].registered :
        /\ chan' = [chan EXCEPT ![b] = Append(@, ClientUpdate(snapshot[p], c))]
        /\ SendOn(p, b, [snapshot[p] EXCEPT !.registered = @ \ {c}])
  BY <1>0 DEF sendClientSnapshot
<1>2. /\ <<p, b>> \in told /\ snapshot[p].balance = balance /\ snapshot[p].lastReq = lastReq
  <2>1. b \notin outdated
    BY <1>0, OutdatedStep
  <2>2. <<p, b>> \in told
    BY <1>0, <2>1 DEF Advance, LineOK, TellsTheTold
  <2>3. QED
    BY <1>0, <2>1, <2>2 DEF CopiesCurrent, LeadersHave
<1> DEFINE m == ClientUpdate(snapshot[p], c)
<1>3. /\ m \in ClientUpdates /\ m.client = c /\ m.balance = balance[c] /\ m.lastReq = lastReq[c]
      /\ c \in Clients
  <2>1. c \in Clients /\ snapshot[p] \in LedgerType
    BY <1>0, BookFields
  <2>2. QED
    BY <1>2, <2>1 DEF ClientUpdate, ClientUpdates
<1> HIDE DEF m
<1>4. PICK G \in LedgerType :
        /\ Untouched(G) /\ \A N \in Handled(F, m) : Alike(N, G)
        /\ G.registered = F.registered \cup {m.client}
        /\ \A x \in Clients : x \in F.registered \/ x # m.client =>
             G.balance[x] = F.balance[x] /\ G.lastReq[x] = F.lastReq[x]
        /\ m.client \notin F.registered =>
             G.balance[m.client] = m.balance /\ G.lastReq[m.client] = m.lastReq
  BY <1>0, <1>3, ClientTold
<1>5. Ends(book'[b], chan'[b], G)
  <2>1. Ends(book[b], chan[b], F) /\ chan[b] \in Seq(Updates)
    BY <1>0 DEF Follows
  <2>2. Ends(book[b], Append(chan[b], m), G)
    BY <1>4, <2>1, EndsAfterPacket
  <2>3. chan'[b] = Append(chan[b], m)
    BY <1>0, <1>1 DEF m
  <2>4. QED
    BY <1>0, <2>2, <2>3
<1>6. \A x \in G.registered : G.balance[x] = balance[x] /\ G.lastReq[x] = lastReq[x]
  <2>1. F.registered \subseteq Clients
    BY BookFields
  <2>2. \A x \in F.registered : F.balance[x] = balance[x] /\ F.lastReq[x] = lastReq[x]
    BY DEF Follows
  <2>3. QED
    BY <1>3, <1>4, <2>1, <2>2
<1>7. ASSUME NEW q \in Servers, <<q, b>> \in told'
      PROVE  book'[q].registered \subseteq
               G.registered \cup (IF b \in syncing'[q] THEN snapshot'[q].registered ELSE {})
  <2>1. q = p
    BY <1>0, <1>7, ToldStep DEF Advance, LineOK, OneLeader
  <2>2. book[p].registered \subseteq F.registered \cup snapshot[p].registered
    BY <1>0, <1>2 DEF Follows
  <2> DEFINE rest == [snapshot[p] EXCEPT !.registered = @ \ {c}]
  <2>3. rest.registered = snapshot[p].registered \ {c}
    BY <1>0 DEF LedgerType
  <2>4. SendOn(p, b, rest)
    BY <1>1
  <2> HIDE DEF rest
  <2>5. \/ rest.registered = {}
        \/ b \in syncing'[p] /\ snapshot'[p] = rest
    BY <1>0, <2>4 DEF SendOn
  <2>6. G.registered = F.registered \cup {c} /\ book'[q].registered = book[p].registered
    BY <1>0, <1>3, <1>4, <2>1
  <2>7. book[p].registered \subseteq
          G.registered \cup (IF b \in syncing'[p] THEN snapshot'[p].registered ELSE {})
    <3>1. book[p].registered \subseteq G.registered \cup rest.registered
      BY <2>2, <2>3, <2>6
    <3>2. QED
      BY <2>5, <3>1
  <2>8. QED
    BY <2>1, <2>6, <2>7
<1>8. F.registered \subseteq G.registered
  BY <1>4
<1>9. QED
  BY <1>5, <1>6, <1>7, <1>8, FollowsOn

\* A client is registered that was not known.
LEMMA FollowsRegistration ==
  ASSUME Advance, FreshBooks,
         NEW balance \in [Clients -> Int], NEW lastReq \in [Clients -> Nat],
         LeadersHave(balance, lastReq),
         NEW b \in Servers, role[b] = "BACKUP", role'[b] = "BACKUP", b \notin outdated',
         NEW F \in LedgerType, Follows(b, F, balance, lastReq),
         NEW p \in Servers, NEW c \in Clients, handleDiscoveryPacket(p, c),
         c \notin book[p].registered, \A q \in Servers : ~sendClientSnapshot(q, b)
  PROVE  \E G \in LedgerType : Follows(b, G, balance, lastReq)'
<1>0. /\ book \in [Servers -> LedgerType] /\ chan \in [Servers -> Seq(Updates)]
      /\ enlisted \in [Servers -> [Servers -> Nat]] /\ Up(b)
      /\ role[p] = "PRIMARY" /\ b # p /\ Untouched(F)
  <2>1. /\ FailoverTypeOK /\ chan[b] \in Seq(Updates) /\ role[p] = "PRIMARY"
    BY DEF Advance, FailoverTypeOK, handleDiscoveryPacket
  <2>2. Untouched(F)
    BY <2>1, EndsInBook DEF Follows
  <2>3. QED
    BY <2>1, <2>2, RolesKnown DEF FailoverTypeOK
<1>1. /\ book'[p].registered = book[p].registered \cup {c}
      /\ book'[p].balance = book[p].balance /\ book'[p].lastReq = book[p].lastReq
      /\ book'[p] \in LedgerType
  BY <1>0, RegistrationEffect DEF handleDiscoveryPacket
<1>m. PICK m : m = ClientUpdate(book'[p], c)
  OBVIOUS
<1>n. PICK n \in Nat : n = enlisted[p][b]
  BY <1>0
<1>2. book'[b] = book[b] /\ chan'[b] = chan[b] \o Copies(m, n)
  <2>1. chan' = Propagated(p, m)
    <3>1. chan' = Propagated(p, ClientUpdate(book'[p], c))
      BY DEF handleDiscoveryPacket, findClient
    <3>2. QED
      BY <1>m, <3>1
  <2>2. book' = [book EXCEPT ![p] = wasClientAdded(book[p], c)]
    BY DEF handleDiscoveryPacket
  <2>3. QED
    BY <1>0, <1>n, <2>1, <2>2 DEF Propagated, Copies
<1>3. m \in ClientUpdates /\ m.client = c /\ m.balance = balance[c] /\ m.lastReq = lastReq[c]
  <2>1. book[p].balance = balance /\ book[p].lastReq = lastReq
    BY <1>0 DEF LeadersHave
  <2>2. QED
    BY <1>1, <1>m, <2>1 DEF ClientUpdate, ClientUpdates
<1>4. PICK T \in LedgerType :
        /\ Untouched(T)
        /\ \A N \in Handled(F, m) : Alike(N, T)
        /\ \A N \in Handled(T, m) : Alike(N, T)
        /\ T.registered = F.registered \cup {m.client}
        /\ \A x \in Clients : x \in F.registered \/ x # m.client =>
             T.balance[x] = F.balance[x] /\ T.lastReq[x] = F.lastReq[x]
        /\ m.client \notin F.registered =>
             T.balance[m.client] = m.balance /\ T.lastReq[m.client] = m.lastReq
  BY <1>0, <1>3, ClientTold
<1> DEFINE G == IF n = 0 THEN F ELSE T
<1>5. Ends(book'[b], chan'[b], G)
  <2>1. Ends(book[b], chan[b], F) /\ chan[b] \in Seq(Updates)
    BY <1>0 DEF Follows
  <2>2. /\ \A N \in Handled(F, m) : Alike(N, T)
        /\ n > 1 => \A N \in Handled(T, m) : Alike(N, T)
        /\ Untouched(T)
    BY <1>4
  <2>4. Ends(book[b], chan[b] \o Copies(m, n), IF n = 0 THEN F ELSE T)
    BY <2>1, <2>2, EndsAfterCopies
  <2>3. QED
    BY <1>2, <2>4
<1>6. \A x \in G.registered : G.balance[x] = balance[x] /\ G.lastReq[x] = lastReq[x]
  <2>1. F.registered \subseteq Clients
    BY BookFields
  <2>2. \A x \in F.registered : F.balance[x] = balance[x] /\ F.lastReq[x] = lastReq[x]
    BY DEF Follows
  <2>3. \A x \in T.registered : T.balance[x] = balance[x] /\ T.lastReq[x] = lastReq[x]
    BY <1>3, <1>4, <2>1, <2>2
  <2>4. QED
    BY <2>2, <2>3
<1>7. ASSUME NEW q \in Servers, <<q, b>> \in told'
      PROVE  book'[q].registered \subseteq
               G.registered \cup (IF b \in syncing'[q] THEN snapshot'[q].registered ELSE {})
  <2>1. q = p
    BY <1>0, <1>7, ToldStep DEF Advance, LineOK, OneLeader
  <2>2. <<p, b>> \in told
    <3>1. book' # book
      BY <1>1
    <3>2. QED
      BY <1>7, <2>1, <3>1, ToldStep DEF Enlists
  <2>3. n > 0
    BY <1>n, <2>2 DEF Advance, LineOK, ToldByLeader
  <2>4. G = T
    BY <2>3
  <2>5. \A x \in Clients : handleDiscoveryPacket(q, x) => x \in G.registered \cup book[q].registered
    <3>1. ASSUME NEW x \in Clients, handleDiscoveryPacket(p, x)
          PROVE  x \in book'[p].registered
      <4>1. book'[p] = wasClientAdded(book[p], x)
        BY <1>0, <3>1 DEF handleDiscoveryPacket
      <4>2. wasClientAdded(book[p], x).registered = book[p].registered \cup {x}
        <5>1. book[p] \in LedgerType
          BY <1>0
        <5>2. QED
          BY <5>1, RegistrationEffect
      <4>3. QED
        BY <4>1, <4>2
    <3>2. QED
      BY <1>1, <1>3, <1>4, <2>1, <2>4, <3>1
  <2>6. F.registered \subseteq G.registered
    BY <1>4
  <2> HIDE DEF G
  <2>7. QED
    BY <1>7, <2>5, <2>6, ToldOn
<1>8. F.registered \subseteq G.registered /\ G \in LedgerType
  BY <1>4
<1> HIDE DEF G
<1>9. QED
  BY <1>5, <1>6, <1>7, <1>8, FollowsOn

\* p carries out a transaction.
Commits(p) == \E r \in Requests, M \in LedgerType : CarriesOut(p, r, M)

LEMMA FollowsWithoutTransaction ==
  ASSUME Advance, FreshBooks, CopiesCurrent,
         NEW balance \in [Clients -> Int], NEW lastReq \in [Clients -> Nat],
         LeadersHave(balance, lastReq),
         NEW b \in Servers, role[b] = "BACKUP", role'[b] = "BACKUP", b \notin outdated',
         NEW F \in LedgerType, Follows(b, F, balance, lastReq),
         \A p \in Servers : ~Commits(p)
  PROVE  \E G \in LedgerType : Follows(b, G, balance, lastReq)'
<1>0. /\ book \in [Servers -> LedgerType] /\ chan \in [Servers -> Seq(Updates)] /\ Up(b)
      /\ syncing \in [Servers -> SUBSET Servers]
  BY RolesKnown DEF Advance, FailoverTypeOK
<1>1. CASE \E p \in Servers : sendClientSnapshot(p, b)
  BY <1>1, FollowsSnapshot
<1>2. CASE /\ \A p \in Servers : ~sendClientSnapshot(p, b)
           /\ \E p \in Servers, c \in Clients :
                handleDiscoveryPacket(p, c) /\ c \notin book[p].registered
  BY <1>2, FollowsRegistration
<1>3. CASE /\ \A p \in Servers : ~sendClientSnapshot(p, b)
           /\ \A p \in Servers, c \in Clients :
                handleDiscoveryPacket(p, c) => c \in book[p].registered
  <2>1. Ends(book[b], chan[b], F) /\ chan[b] \in Seq(Updates) /\ Untouched(F)
    BY <1>0, EndsInBook DEF Follows
  <2>2. Ends(book'[b], chan'[b], F)
    <3>1. CASE book'[b] = book[b] /\ chan'[b] = chan[b]
      BY <2>1, <3>1
    <3>2. ASSUME NEW s \in Servers, crash(s)
          PROVE  book'[b] = book[b] /\ chan'[b] = chan[b]
      <4>1. s # b
        BY <3>2, CrashRoles, RolesKnown DEF Advance
      <4>2. QED
        BY <1>0, <3>2, <4>1 DEF crash
    <3>3. ASSUME NEW s \in Servers, receiveUpdate(s), s # b
          PROVE  book'[b] = book[b] /\ chan'[b] = chan[b]
      BY <1>0, <3>3 DEF receiveUpdate
    <3>4. CASE receiveUpdate(b)
      <4>1. PICK N \in Handled(book[b], Head(chan[b])) : book' = [book EXCEPT ![b] = N]
        BY <3>4 DEF receiveUpdate
      <4>2. book'[b] = N /\ chan'[b] = Tail(chan[b]) /\ chan[b] # <<>> /\ book[b] \in LedgerType
        BY <1>0, <3>4, <4>1 DEF receiveUpdate
      <4>3. Ends(N, Tail(chan[b]), F)
        BY <2>1, <4>1, <4>2, EndsAfterOne
      <4>4. QED
        BY <4>2, <4>3
    <3>5. ASSUME NEW p \in Servers, NEW d \in Servers, sendHistorySnapshot(p, d)
          PROVE  Ends(book'[b], chan'[b], F)
      <4>1. CASE d # b
        BY <1>0, <2>1, <3>5, <4>1 DEF sendHistorySnapshot
      <4>2. CASE d = b
        <5>1. PICK m : m = HistoryEntry(Head(snapshot[p].history))
          OBVIOUS
        <5>2. book'[b] = book[b] /\ chan'[b] = Append(chan[b], m)
          BY <1>0, <3>5, <4>2, <5>1 DEF sendHistorySnapshot
        <5>3. \A N \in Handled(F, m) : Alike(N, F)
          BY <5>1, EntryTold DEF HistoryEntry
        <5>4. Ends(book[b], Append(chan[b], m), F)
          BY <2>1, <5>3, EndsAfterPacket
        <5>5. QED
          BY <5>2, <5>4
      <4>3. QED
        BY <4>1, <4>2
    <3>6. ASSUME NEW p \in Servers, NEW d \in Servers, sendClientSnapshot(p, d)
          PROVE  book'[b] = book[b] /\ chan'[b] = chan[b]
      <4>1. d # b
        BY <1>3, <3>6
      <4>2. QED
        BY <1>0, <3>6, <4>1 DEF sendClientSnapshot
    <3>7. ASSUME NEW p \in Servers, NEW c \in Clients, handleDiscoveryPacket(p, c)
          PROVE  book'[b] = book[b] /\ chan'[b] = chan[b]
      <4>1. c \in book[p].registered
        BY <1>3, <3>7
      <4>2. wasClientAdded(book[p], c) = book[p]
        BY <4>1 DEF wasClientAdded, findClient
      <4>3. QED
        BY <1>0, <3>7, <4>1, <4>2 DEF handleDiscoveryPacket, findClient
    <3>8. ASSUME NEW p \in Servers, LeaderServes(p)
          PROVE  Ends(book'[b], chan'[b], F)
      <4>1. ASSUME NEW r \in Requests, handleTransactionRequest(p, r) \/ Refuses(p, r)
            PROVE  book'[b] = book[b] /\ chan'[b] = chan[b]
        BY <4>1 DEF handleTransactionRequest, Refuses
      <4>2. QED
        <5>1. CASE book'[b] = book[b] /\ chan'[b] = chan[b]
          BY <3>1, <5>1
        <5>2. syncing[p] \subseteq Servers
          BY <1>0
        <5>3. QED
          BY <3>5, <3>6, <3>7, <3>8, <4>1, <5>1, <5>2 DEF LeaderServes, Commits
    <3>9. QED
      BY <3>1, <3>2, <3>3, <3>4, <3>8, BookStep
  <2>3. ASSUME NEW p \in Servers, <<p, b>> \in told'
        PROVE  book'[p].registered \subseteq
                 F.registered \cup (IF b \in syncing'[p] THEN snapshot'[p].registered ELSE {})
    BY <1>3, <2>3, ToldOn
  <2>4. \A c \in F.registered : F.balance[c] = balance[c] /\ F.lastReq[c] = lastReq[c]
    BY DEF Follows
  <2>5. Follows(b, F, balance, lastReq)'
    BY <2>2, <2>3, <2>4, FollowsOn
  <2>6. QED
    BY <2>5
<1>4. QED
  BY <1>1, <1>2, <1>3

\* b is a backup for which p does not leave off, or one that has heard nothing.
LEMMA FollowsTransaction ==
  ASSUME Advance, FreshBooks,
         NEW balance \in [Clients -> Int], NEW lastReq \in [Clients -> Nat],
         LeadersHave(balance, lastReq),
         NEW b \in Servers, role[b] = "BACKUP", role'[b] = "BACKUP", b \notin outdated',
         NEW F \in LedgerType, Follows(b, F, balance, lastReq),
         NEW p \in Servers, role[p] = "PRIMARY",
         NEW r \in Requests, NEW M \in LedgerType, CarriesOut(p, r, M)
  PROVE  \E G \in LedgerType : Follows(b, G, M.balance, M.lastReq)'
<1>0. /\ book \in [Servers -> LedgerType] /\ chan \in [Servers -> Seq(Updates)] /\ Up(b)
      /\ enlisted \in [Servers -> [Servers -> Nat]] /\ b # p
  BY RolesKnown DEF Advance, FailoverTypeOK
<1>1. /\ book'[b] = book[b] /\ book'[p] = M /\ M.registered = book[p].registered
      /\ \A q \in Servers : <<q, b>> \in told' =>
           q = p /\ <<p, b>> \in told /\ Told(p, b) /\ b \notin syncing'[p]
  <2>1. book'[b] = book[b] /\ book'[p] = M
    BY <1>0 DEF CarriesOut
  <2>2. M.registered = book[p].registered
    BY RequestAccounts
  <2>3. ASSUME NEW q \in Servers, <<q, b>> \in told'
        PROVE  q = p /\ <<p, b>> \in told /\ Told(p, b) /\ b \notin syncing'[p]
    <3>1. q = p
      BY <2>3, ToldStep DEF Advance, LineOK, OneLeader
    <3>2. ~Enlists(p, b)
      <4>1. enlisted' = enlisted
        BY DEF CarriesOut
      <4>2. QED
        BY <1>0, <4>1 DEF Enlists
    <3>3. <<p, b>> \in told /\ ~Leaves(p, b)
      BY <2>3, <3>1, <3>2, ToldStep
    <3>4. Told(p, b)
      BY <1>0, <3>3, TransactionLeaves
    <3>5. QED
      BY <3>1, <3>3, <3>4 DEF Told, CarriesOut
  <2>4. QED
    BY <2>1, <2>2, <2>3
<1>2. CASE Told(p, b)
  <2>1. /\ <<p, b>> \in told /\ book[p].registered \subseteq F.registered
        /\ enlisted[p][b] > 0
    BY <1>2 DEF Told, Follows, Advance, LineOK, ToldByLeader
  <2>2. F.balance = book[p].balance /\ F.lastReq = book[p].lastReq
    <3>1. book[p].balance = balance /\ book[p].lastReq = lastReq
      BY DEF LeadersHave
    <3>2. Untouched(book[p]) /\ Untouched(F) /\ book[p] \in LedgerType
      BY <1>0, EndsInBook DEF FreshBooks, Follows
    <3>3. \A c \in F.registered : F.balance[c] = book[p].balance[c] /\ F.lastReq[c] = book[p].lastReq[c]
      BY <3>1 DEF Follows
    <3>4. QED
      BY <2>1, <3>2, <3>3, WholeAccounts
  <2>3. Untouched(F) /\ Ends(book[b], chan[b], F) /\ chan[b] \in Seq(Updates)
    BY <1>0, EndsInBook DEF Follows
  <2>4. PICK G \in LedgerType :
          /\ Untouched(G)
          /\ \A N \in Handled(F, StateUpdate(M)) : Alike(N, G)
          /\ \A N \in Handled(G, StateUpdate(M)) : Alike(N, G)
          /\ G.registered = F.registered /\ G.balance = M.balance /\ G.lastReq = M.lastReq
    BY <2>1, <2>2, <2>3, TransactionTold
  <2>5. PICK n \in Nat : n = enlisted[p][b]
    BY <1>0
  <2>6. chan'[b] = chan[b] \o Copies(StateUpdate(M), n)
    BY <1>0, <2>5 DEF CarriesOut, Propagated, Copies
  <2>7. Ends(book'[b], chan'[b], G)
    <3>1. Ends(book[b], chan[b] \o Copies(StateUpdate(M), n), IF n = 0 THEN F ELSE G)
      BY <2>3, <2>4, EndsAfterCopies
    <3>2. n # 0
      BY <2>1, <2>5
    <3>3. QED
      BY <1>1, <2>6, <3>1, <3>2
  <2>8. Follows(b, G, M.balance, M.lastReq)'
    BY <1>1, <2>1, <2>4, <2>7 DEF Follows
  <2>9. QED
    BY <2>8
<1>3. CASE ~Told(p, b)
  <2>1. Leaves(p, b)
    BY <1>0, <1>3, TransactionLeaves
  <2>2. Up(b)'
    BY <1>0, ServingRoles DEF CarriesOut, UpAsBefore
  <2>3. ~(enlisted[p][b] > 0) /\ book[b].registered = {} /\ chan[b] = <<>>
    BY <2>1, <2>2, OutdatedStep DEF HasHeard
  <2>4. chan'[b] = <<>>
    <3>1. chan'[b] = chan[b] \o Copies(StateUpdate(M), enlisted[p][b])
      BY <1>0 DEF CarriesOut, Propagated, Copies
    <3>2. enlisted[p][b] = 0
      BY <1>0, <2>3
    <3>3. Copies(StateUpdate(M), 0) = <<>>
      BY DEF Copies
    <3>4. <<>> \o <<>> = <<>>
      OBVIOUS
    <3>5. QED
      BY <2>3, <3>1, <3>2, <3>3, <3>4
  <2>5. PICK G \in LedgerType : G = book[b]
    BY <1>0
  <2>6. Ends(book'[b], chan'[b], G)
    BY <1>1, <2>4, <2>5, EndsAtOnce DEF FreshBooks
  <2>7. b \notin heirs'
    BY <2>1, HeirStep
  <2>8. Follows(b, G, M.balance, M.lastReq)'
    BY <1>1, <1>3, <2>3, <2>5, <2>6, <2>7 DEF Follows
  <2>9. QED
    BY <2>8
<1>4. QED
  BY <1>2, <1>3

\* The accounts balance and lastReq of the clients R.
AccountsFor(R, balance, lastReq) ==
  [EmptyLedger EXCEPT !.registered = R,
     !.balance = [c \in Clients |-> IF c \in R THEN balance[c] ELSE InitialBalance],
     !.lastReq = [c \in Clients |-> IF c \in R THEN lastReq[c] ELSE 0]]

LEMMA AccountsForFields ==
  ASSUME NEW balance \in [Clients -> Int], NEW lastReq \in [Clients -> Nat], NEW R \in SUBSET Clients,
         NEW A, A = AccountsFor(R, balance, lastReq)
  PROVE  /\ A \in LedgerType
         /\ A.registered = R
         /\ \A c \in R : A.balance[c] = balance[c] /\ A.lastReq[c] = lastReq[c]
         /\ Untouched(A)
<1>1. EmptyLedger \in LedgerType
  BY EmptyLedgerType
<1>2. /\ [c \in Clients |-> IF c \in R THEN balance[c] ELSE InitialBalance] \in [Clients -> Int]
      /\ [c \in Clients |-> IF c \in R THEN lastReq[c] ELSE 0] \in [Clients -> Nat]
  BY InitialBalanceAssumption
<1>3. QED
  BY <1>1, <1>2 DEF AccountsFor, LedgerType, Untouched

LEMMA HarmlessHandled ==
  ASSUME NEW balance \in [Clients -> Int], NEW lastReq \in [Clients -> Nat], NEW R \in SUBSET Clients,
         NEW m \in Updates, Harmless(m, balance, lastReq),
         NEW S, S = IF m.type = "ADD_CLIENT_UPDATE" THEN R \cup {m.client} ELSE R,
         NEW N \in Handled(AccountsFor(R, balance, lastReq), m)
  PROVE  Alike(N, AccountsFor(S, balance, lastReq))
<1>1. CASE m.type = "ADD_HISTORY_ENTRY"
  BY <1>1, AccountsForFields, EntryTold
<1>2. CASE m.type = "ADD_CLIENT_UPDATE"
  <2>1. m.client \in Clients /\ m.balance = balance[m.client] /\ m.lastReq = lastReq[m.client]
    BY <1>2 DEF Harmless, Updates, ClientUpdates, HistoryEntries, StateUpdates
  <2>2. PICK c \in Clients : c = m.client
    BY <2>1
  <2>3. PICK L \in LedgerType : L = AccountsFor(R, balance, lastReq)
    BY AccountsForFields
  <2>4. N = handleClientUpdate(L, m)
    BY <1>2, <2>3 DEF Handled
  <2>5. S = R \cup {c} /\ S \in SUBSET Clients /\ L.registered = R
    <3>1. S = R \cup {c} /\ S \in SUBSET Clients
      BY <1>2, <2>2
    <3>2. L.registered = R
      BY <2>3, AccountsForFields
    <3>3. QED
      BY <3>1, <3>2
  <2>6. CASE c \in R
    BY <2>2, <2>3, <2>4, <2>5, <2>6 DEF handleClientUpdate, findClient, Alike
  <2>7. CASE c \notin R
    <3>1. /\ N.registered = S
          /\ N.balance = [L.balance EXCEPT ![c] = balance[c]]
          /\ N.lastReq = [L.lastReq EXCEPT ![c] = lastReq[c]]
      BY <2>1, <2>2, <2>4, <2>5, <2>7 DEF handleClientUpdate, findClient, LedgerType
    <3>s. PICK T \in SUBSET Clients : T = S
      BY <2>5
    <3>2. PICK M \in LedgerType : M = AccountsFor(T, balance, lastReq)
      BY AccountsForFields
    <3>3. /\ L.balance \in [Clients -> Int] /\ L.lastReq \in [Clients -> Nat]
          /\ M.balance \in [Clients -> Int] /\ M.lastReq \in [Clients -> Nat]
      BY BookFields
    <3>4. /\ Untouched(L) /\ \A x \in R : L.balance[x] = balance[x] /\ L.lastReq[x] = lastReq[x]
      BY <2>3, AccountsForFields
    <3>5. /\ M.registered = S /\ Untouched(M)
          /\ \A x \in S : M.balance[x] = balance[x] /\ M.lastReq[x] = lastReq[x]
      BY <3>s, <3>2, AccountsForFields
    <3>6. \A x \in Clients : N.balance[x] = M.balance[x] /\ N.lastReq[x] = M.lastReq[x]
      BY <2>5, <3>1, <3>3, <3>4, <3>5 DEF Untouched
    <3>7. N.balance = M.balance /\ N.lastReq = M.lastReq
      BY <3>1, <3>3, <3>6
    <3>8. QED
      BY <3>s, <3>1, <3>2, <3>5, <3>7 DEF Alike
  <2>8. QED
    BY <2>6, <2>7
<1>3. QED
  BY <1>1, <1>2 DEF Harmless

\* Packets of a snapshot that has been cut off make a new book follow.
LEMMA HarmlessEnds ==
  ASSUME NEW balance \in [Clients -> Int], NEW lastReq \in [Clients -> Nat],
         NEW q \in Seq(Updates), \A i \in DOMAIN q : Harmless(q[i], balance, lastReq)
  PROVE  \E F \in LedgerType :
           /\ Ends(EmptyLedger, q, F)
           /\ \A c \in F.registered : F.balance[c] = balance[c] /\ F.lastReq[c] = lastReq[c]
<1>1. PICK l \in Nat : l = Len(q)
  OBVIOUS
<1>2. \A i \in 1..l : q[i] \in Updates /\ Harmless(q[i], balance, lastReq)
  BY <1>1
<1> DEFINE R(i) == {c \in Clients : \E j \in 1..l :
                      j < i /\ q[j].type = "ADD_CLIENT_UPDATE" /\ q[j].client = c}
           f == [i \in 1..(l + 1) |-> AccountsFor(R(i), balance, lastReq)]
<1>3. \A i \in 1..(l + 1) : R(i) \in SUBSET Clients
  OBVIOUS
<1>4. ASSUME NEW i \in 1..l
      PROVE  R(i + 1) = IF q[i].type = "ADD_CLIENT_UPDATE" THEN R(i) \cup {q[i].client} ELSE R(i)
  <2>1. q[i].type = "ADD_CLIENT_UPDATE" => q[i].client \in Clients
    BY <1>2 DEF Updates, ClientUpdates, HistoryEntries, StateUpdates
  <2>2. \A j \in 1..l : j < i + 1 <=> j < i \/ j = i
    OBVIOUS
  <2>3. QED
    BY <2>1, <2>2
<1>5. R(1) = {}
  OBVIOUS
<1> HIDE DEF R
<1>6. /\ f \in [1..(l + 1) -> LedgerType]
      /\ \A i \in 1..(l + 1) : Untouched(f[i]) /\ f[i] = AccountsFor(R(i), balance, lastReq)
  BY <1>3, AccountsForFields
<1> HIDE DEF f
<1>7. Alike(f[1], EmptyLedger)
  <2>1. f[1] = AccountsFor({}, balance, lastReq)
    <3>1. 1 \in 1..(l + 1)
      OBVIOUS
    <3>2. f[1] = AccountsFor(R(1), balance, lastReq)
      BY <1>6, <3>1
    <3>3. QED
      BY <1>5, <3>2
  <2>2. /\ AccountsFor({}, balance, lastReq).registered = {}
        /\ AccountsFor({}, balance, lastReq).balance = [c \in Clients |-> InitialBalance]
        /\ AccountsFor({}, balance, lastReq).lastReq = [c \in Clients |-> 0]
    BY DEF AccountsFor, EmptyLedger
  <2>3. QED
    BY <2>1, <2>2 DEF Alike, EmptyLedger
<1>8. ASSUME NEW i \in 1..l, NEW N \in Handled(f[i], q[i])
      PROVE  Alike(N, f[i + 1])
  <2>1. f[i] = AccountsFor(R(i), balance, lastReq) /\ R(i) \in SUBSET Clients
    BY <1>3, <1>6
  <2>2. f[i + 1] = AccountsFor(R(i + 1), balance, lastReq)
    BY <1>6
  <2>3. PICK m \in Updates : m = q[i] /\ Harmless(m, balance, lastReq)
    BY <1>2
  <2>4. PICK S : S = R(i) /\ S \in SUBSET Clients
    BY <2>1
  <2>5. PICK Z : Z = R(i + 1)
    OBVIOUS
  <2>6. Z = IF m.type = "ADD_CLIENT_UPDATE" THEN S \cup {m.client} ELSE S
    BY <1>4, <2>3, <2>4, <2>5
  <2>7. N \in Handled(AccountsFor(S, balance, lastReq), m)
    BY <1>8, <2>1, <2>3, <2>4
  <2>8. Alike(N, AccountsFor(Z, balance, lastReq))
    BY <2>3, <2>4, <2>6, <2>7, HarmlessHandled
  <2>9. QED
    BY <2>2, <2>5, <2>8
<1>9. Ends(EmptyLedger, q, f[l + 1])
  BY <1>1, <1>6, <1>7, <1>8 DEF Ends, Replay
<1>10. PICK S \in SUBSET Clients : S = R(l + 1)
  BY <1>3
<1>11. PICK F \in LedgerType : F = f[l + 1] /\ F = AccountsFor(S, balance, lastReq)
  BY <1>6, <1>10
<1>12. \A c \in F.registered : F.balance[c] = balance[c] /\ F.lastReq[c] = lastReq[c]
  <2>1. F = AccountsFor(S, balance, lastReq)
    BY <1>11
  <2>2. F.registered = S /\ \A c \in S : F.balance[c] = balance[c] /\ F.lastReq[c] = lastReq[c]
    BY <2>1, AccountsForFields
  <2>3. QED
    BY <2>2
<1>13. QED
  BY <1>9, <1>11, <1>12

\* A server that has just found its primary.
LEMMA FollowsFromNow ==
  ASSUME Advance, FreshBooks,
         NEW balance \in [Clients -> Int], NEW lastReq \in [Clients -> Nat],
         NewcomersUnharmed(balance, lastReq),
         NEW b \in Servers, Joins(b), b \notin outdated, b \notin outdated'
  PROVE  \E G \in LedgerType : Follows(b, G, balance, lastReq)'
<1>0. /\ chan \in [Servers -> Seq(Updates)] /\ role[b] = "unset"
      /\ book'[b] = EmptyLedger /\ chan'[b] = chan[b]
  BY DEF Advance, FailoverTypeOK, FreshBooks, Joins, bookVars
<1>1. PICK G \in LedgerType :
        /\ Ends(EmptyLedger, chan[b], G)
        /\ \A c \in G.registered : G.balance[c] = balance[c] /\ G.lastReq[c] = lastReq[c]
  <2>1. \A i \in DOMAIN chan[b] : Harmless(chan[b][i], balance, lastReq)
    BY <1>0 DEF NewcomersUnharmed
  <2>2. PICK q \in Seq(Updates) : q = chan[b]
    BY <1>0
  <2>3. \A i \in DOMAIN q : Harmless(q[i], balance, lastReq)
    BY <2>1, <2>2
  <2>4. \E G \in LedgerType :
          /\ Ends(EmptyLedger, q, G)
          /\ \A c \in G.registered : G.balance[c] = balance[c] /\ G.lastReq[c] = lastReq[c]
    BY <2>3, HarmlessEnds
  <2>5. QED
    BY <2>2, <2>4
<1>2. b \notin heirs'
  <2>1. b \notin heirs
    BY <1>0 DEF Advance, LineOK, HeirsServe
  <2>2. QED
    BY <1>0, <2>1, HeirStep DEF NewPrimaries, Settled, Joins
<1>3. \A p \in Servers : <<p, b>> \notin told'
  BY <1>0, ToldStep
<1>4. Follows(b, G, balance, lastReq)'
  BY <1>0, <1>1, <1>2, <1>3 DEF Follows
<1>5. QED
  BY <1>4

LEMMA HarmlessCopies ==
  ASSUME NEW balance, NEW lastReq, NEW q \in Seq(Updates), NEW m, NEW n \in Nat,
         \A i \in DOMAIN q : Harmless(q[i], balance, lastReq), Harmless(m, balance, lastReq)
  PROVE  \A i \in DOMAIN (q \o Copies(m, n)) : Harmless((q \o Copies(m, n))[i], balance, lastReq)
<1> DEFINE w == Copies(m, n)
<1>1. w \in Seq({m}) /\ Len(w) = n /\ \A k \in 1..n : w[k] = m
  BY DEF Copies
<1> HIDE DEF w
<1>2. /\ DOMAIN (q \o w) = 1..(Len(q) + n)
      /\ \A i \in 1..(Len(q) + n) : (q \o w)[i] = IF i <= Len(q) THEN q[i] ELSE w[i - Len(q)]
  BY <1>1
<1>3. ASSUME NEW i \in 1..(Len(q) + n)
      PROVE  Harmless((q \o w)[i], balance, lastReq)
  <2>1. CASE i <= Len(q)
    <3>1. (q \o w)[i] = q[i] /\ i \in DOMAIN q
      BY <1>2, <2>1
    <3>2. QED
      BY <3>1
  <2>2. CASE i > Len(q)
    <3>1. (q \o w)[i] = m
      BY <1>1, <1>2, <2>2
    <3>2. QED
      BY <3>1
  <2>3. i <= Len(q) \/ i > Len(q)
    OBVIOUS
  <2>4. QED
    BY <2>1, <2>2, <2>3
<1>4. QED
  BY <1>2, <1>3 DEF w

LEMMA HarmlessTail ==
  ASSUME NEW balance, NEW lastReq, NEW q \in Seq(Updates), q # <<>>,
         \A i \in DOMAIN q : Harmless(q[i], balance, lastReq)
  PROVE  \A i \in DOMAIN Tail(q) : Harmless(Tail(q)[i], balance, lastReq)
<1>1. \A i \in DOMAIN Tail(q) : Tail(q)[i] = q[i + 1] /\ i + 1 \in DOMAIN q
  OBVIOUS
<1>2. QED
  BY <1>1

LEMMA NewcomersWithoutTransaction ==
  ASSUME Advance, NEW balance, NEW lastReq,
         LeadersHave(balance, lastReq), NewcomersUnharmed(balance, lastReq),
         \A p \in Servers : ~Commits(p)
  PROVE  NewcomersUnharmed(balance, lastReq)'
<1> SUFFICES ASSUME NEW b \in Servers, role'[b] = "unset", b \notin outdated'
             PROVE  \A i \in DOMAIN chan'[b] : Harmless(chan'[b][i], balance, lastReq)
  BY DEF NewcomersUnharmed, Harmless
<1>0. /\ book \in [Servers -> LedgerType] /\ chan \in [Servers -> Seq(Updates)]
      /\ enlisted \in [Servers -> [Servers -> Nat]]
  BY DEF Advance, FailoverTypeOK
<1>1. CASE ~Up(b)'
  <2>1. chan'[b] = <<>>
    BY <1>1, NothingAtTheDownStep DEF NothingAtTheDown
  <2>2. DOMAIN chan'[b] = {}
    BY <2>1
  <2>3. QED
    BY <2>2
<1>2. CASE Up(b)'
  <2>1. b \notin outdated
    BY <1>2, OutdatedStep
  <2>2. role[b] = "unset" /\ ~crash(b)
    BY <1>2, RoleStep, CrashRoles DEF RoleOf, Advance
  <2>3. \A i \in DOMAIN chan[b] : Harmless(chan[b][i], balance, lastReq)
    BY <2>1, <2>2 DEF NewcomersUnharmed
  <2>4. CASE chan'[b] = chan[b]
    BY <2>3, <2>4
  <2>5. ASSUME NEW s \in Servers, crash(s)
        PROVE  chan'[b] = chan[b]
    BY <1>0, <2>2, <2>5 DEF crash
  <2>6. ASSUME NEW s \in Servers, receiveUpdate(s)
        PROVE  \A i \in DOMAIN chan'[b] : Harmless(chan'[b][i], balance, lastReq)
    <3>1. CASE s # b
      BY <1>0, <2>4, <2>6, <3>1 DEF receiveUpdate
    <3>2. CASE s = b
      <4>1. chan'[b] = Tail(chan[b]) /\ chan[b] # <<>> /\ chan[b] \in Seq(Updates)
        BY <1>0, <2>6, <3>2 DEF receiveUpdate
      <4>2. QED
        BY <2>3, <4>1, HarmlessTail
    <3>3. QED
      BY <3>1, <3>2
  <2>7. ASSUME NEW p \in Servers, role[p] = "PRIMARY", NEW c \in Clients, handleDiscoveryPacket(p, c)
        PROVE  \A i \in DOMAIN chan'[b] : Harmless(chan'[b][i], balance, lastReq)
    <3>1. PICK m : m = ClientUpdate(book'[p], c)
      OBVIOUS
    <3>2. Harmless(m, balance, lastReq)
      <4>1. book[p].balance = balance /\ book[p].lastReq = lastReq
        BY <2>7 DEF LeadersHave
      <4>2. book'[p].balance = book[p].balance /\ book'[p].lastReq = book[p].lastReq
        BY <1>0, <2>7, RegistrationEffect DEF handleDiscoveryPacket
      <4>3. QED
        BY <3>1, <4>1, <4>2 DEF Harmless, ClientUpdate
    <3>3. chan' = chan \/ chan' = Propagated(p, m)
      <4>1. chan' = chan \/ chan' = Propagated(p, ClientUpdate(book'[p], c))
        BY <2>7 DEF handleDiscoveryPacket
      <4>2. QED
        BY <3>1, <4>1
    <3>4. PICK n \in Nat : n = enlisted[p][b]
      BY <1>0
    <3>5. chan'[b] = chan[b] \/ chan'[b] = chan[b] \o Copies(m, n)
      BY <1>0, <3>3, <3>4 DEF Propagated, Copies
    <3>6. chan[b] \in Seq(Updates)
      BY <1>0
    <3>7. QED
      BY <2>3, <3>2, <3>5, <3>6, HarmlessCopies
  <2>8. ASSUME NEW p \in Servers, NEW d \in syncing[p],
               sendClientSnapshot(p, d) \/ sendHistorySnapshot(p, d)
        PROVE  chan'[b] = chan[b]
    <3>1. CASE d = b /\ Up(b)
      <4>1. <<p, b>> \in told
        BY <2>1, <2>8, <3>1 DEF Advance, LineOK, TellsTheTold
      <4>2. QED
        BY <2>2, <4>1 DEF Advance, LineOK, ToldByLeader
    <3>2. CASE d # b \/ ~Up(b)
      <4>1. d \in Servers
        BY <2>8 DEF Advance, FailoverTypeOK
      <4>2. QED
        BY <1>0, <2>8, <3>2, <4>1 DEF sendClientSnapshot, sendHistorySnapshot
    <3>3. QED
      BY <3>1, <3>2
  <2>9. ASSUME NEW p \in Servers, LeaderServes(p)
        PROVE  \A i \in DOMAIN chan'[b] : Harmless(chan'[b][i], balance, lastReq)
    <3>1. ASSUME NEW r \in Requests, handleTransactionRequest(p, r) \/ Refuses(p, r)
          PROVE  chan'[b] = chan[b]
      BY <3>1 DEF handleTransactionRequest, Refuses
    <3>2. QED
      BY <2>4, <2>7, <2>8, <2>9, <3>1 DEF LeaderServes, Commits
  <2>10. QED
    BY <2>4, <2>5, <2>6, <2>9, BookStep
<1>3. QED
  BY <1>1, <1>2

LEMMA LeadersWithoutTransaction ==
  ASSUME Advance, FreshBooks, NEW balance, NEW lastReq,
         heirs = {} => balance = EmptyLedger.balance /\ lastReq = EmptyLedger.lastReq,
         LeadersHave(balance, lastReq), BackupsFollow(balance, lastReq),
         \A p \in Servers : ~Commits(p)
  PROVE  LeadersHave(balance, lastReq)'
<1> SUFFICES ASSUME NEW p \in Servers, role'[p] = "PRIMARY"
             PROVE  book'[p].balance = balance /\ book'[p].lastReq = lastReq
  BY DEF LeadersHave
<1>0. book \in [Servers -> LedgerType]
  BY DEF Advance, FailoverTypeOK
<1>1. CASE TakesOver(p)
  <2>1. book'[p] = book[p] /\ role[p] = "BACKUP"
    BY <1>1 DEF TakesOver, bookVars
  <2>2. CASE heirs = {}
    BY <2>1, <2>2 DEF Advance, LineOK, NothingYet
  <2>3. CASE heirs # {}
    <3>1. p \in heirs /\ chan[p] = <<>>
      BY <1>1, <2>3, Promotion DEF HasAll
    <3>2. p \notin outdated
      BY <2>1, <3>1 DEF Advance, LineOK, HeirsUpToDate
    <3>3. PICK F \in LedgerType : Follows(p, F, balance, lastReq)
      BY <2>1, <3>2 DEF BackupsFollow
    <3>4. Alike(F, book[p])
      BY <3>1, <3>3, EndsThere DEF Follows
    <3>5. QED
      BY <2>1, <3>1, <3>3, <3>4 DEF Follows, Alike
  <2>4. QED
    BY <2>2, <2>3
<1>2. CASE ~TakesOver(p)
  <2>1. role[p] = "PRIMARY" /\ ~crash(p)
    <3>1. ~crash(p)
      BY CrashRoles, RolesKnown DEF Advance
    <3>2. QED
      BY <1>2, <3>1, RoleStep DEF RoleOf
  <2>2. book[p].balance = balance /\ book[p].lastReq = lastReq
    BY <2>1 DEF LeadersHave
  <2>3. CASE book'[p] = book[p]
    BY <2>2, <2>3
  <2>4. ASSUME NEW s \in Servers, crash(s) \/ receiveUpdate(s)
        PROVE  book'[p] = book[p]
    BY <1>0, <2>1, <2>4 DEF crash, receiveUpdate
  <2>5. ASSUME NEW s \in Servers, NEW c \in Clients, handleDiscoveryPacket(s, c)
        PROVE  book'[p].balance = book[p].balance /\ book'[p].lastReq = book[p].lastReq
    <3>1. book' = [book EXCEPT ![s] = wasClientAdded(book[s], c)]
      BY <2>5 DEF handleDiscoveryPacket
    <3>2. CASE s = p
      BY <1>0, <3>1, <3>2, RegistrationEffect
    <3>3. CASE s # p
      BY <1>0, <3>1, <3>3
    <3>4. QED
      BY <3>2, <3>3
  <2>6. ASSUME NEW s \in Servers, LeaderServes(s)
        PROVE  book'[p].balance = balance /\ book'[p].lastReq = lastReq
    BY <2>2, <2>3, <2>5, <2>6 DEF LeaderServes, Commits, handleTransactionRequest, Refuses,
                                  sendClientSnapshot, sendHistorySnapshot
  <2>7. QED
    BY <2>3, <2>4, <2>6, BookStep
<1>3. QED
  BY <1>1, <1>2

LEMMA AccountsWithoutTransaction ==
  ASSUME Advance, FreshBooks, CopiesCurrent,
         NEW balance \in [Clients -> Int], NEW lastReq \in [Clients -> Nat],
         AccountsAt(balance, lastReq), \A p \in Servers : ~Commits(p)
  PROVE  AccountsAt(balance, lastReq)'
<1>1. /\ heirs = {} => balance = EmptyLedger.balance /\ lastReq = EmptyLedger.lastReq
      /\ \A q \in confirmed : q.seqn <= lastReq[q.source]
      /\ LeadersHave(balance, lastReq)
      /\ BackupsFollow(balance, lastReq)
      /\ NewcomersUnharmed(balance, lastReq)
  BY DEF AccountsAt
<1>2. heirs' = {} => heirs = {}
  BY DEF Advance, Succession
<1>3. confirmed' = confirmed
  <2>1. ASSUME NEW s \in Servers, crash(s) \/ receiveUpdate(s)
        PROVE  confirmed' = confirmed
    BY <2>1 DEF crash, receiveUpdate
  <2>2. ASSUME NEW s \in Servers, LeaderServes(s)
        PROVE  confirmed' = confirmed
    BY <2>2 DEF LeaderServes, Commits, handleTransactionRequest, Refuses, handleDiscoveryPacket,
                sendClientSnapshot, sendHistorySnapshot
  <2>3. QED
    BY <2>1, <2>2, BookStep
<1>4. LeadersHave(balance, lastReq)'
  BY <1>1, LeadersWithoutTransaction
<1>5. NewcomersUnharmed(balance, lastReq)'
  BY <1>1, NewcomersWithoutTransaction
<1>6. ASSUME NEW b \in Servers, role'[b] = "BACKUP", b \notin outdated'
      PROVE  \E G \in LedgerType : Follows(b, G, balance, lastReq)'
  <2>1. Up(b)'
    BY <1>6 DEF Advance, FailoverTypeOK, TypeOK, Dispatching, Up
  <2>2. b \notin outdated
    BY <1>6, <2>1, OutdatedStep
  <2>3. CASE role[b] = "BACKUP"
    <3>1. PICK F \in LedgerType : Follows(b, F, balance, lastReq)
      BY <1>1, <2>2, <2>3 DEF BackupsFollow
    <3>2. QED
      BY <1>1, <1>6, <2>3, <3>1, FollowsWithoutTransaction
  <2>4. CASE role[b] # "BACKUP"
    <3>1. Joins(b)
      BY <1>6, <2>4, RoleStep DEF RoleOf
    <3>2. QED
      BY <1>1, <1>6, <2>2, <3>1, FollowsFromNow
  <2>5. QED
    BY <2>3, <2>4
<1>7. BackupsFollow(balance, lastReq)'
  BY <1>6 DEF BackupsFollow
<1>8. QED
  BY <1>1, <1>2, <1>3, <1>4, <1>5, <1>7 DEF AccountsAt

LEMMA AccountsWithTransaction ==
  ASSUME Advance, FreshBooks,
         NEW balance \in [Clients -> Int], NEW lastReq \in [Clients -> Nat],
         AccountsAt(balance, lastReq), NEW p \in Servers,
         NEW r \in Requests, NEW M \in LedgerType, CarriesOut(p, r, M)
  PROVE  AccountsAt(M.balance, M.lastReq)'
<1>0. /\ LeadersHave(balance, lastReq) /\ BackupsFollow(balance, lastReq)
      /\ \A q \in confirmed : q.seqn <= lastReq[q.source]
      /\ role[p] = "PRIMARY" /\ role' = role /\ confirmed' = confirmed \cup {r}
      /\ book \in [Servers -> LedgerType] /\ chan \in [Servers -> Seq(Updates)]
      /\ enlisted \in [Servers -> [Servers -> Nat]]
      /\ confirmed \subseteq Requests
      /\ \A s \in Servers : Up(s)' <=> Up(s)
  <2>1. role[p] = "PRIMARY"
    BY DEF CarriesOut, Advance, LineOK, OnlyLeadersWork
  <2>2. role' = role /\ \A s \in Servers : Up(s)' <=> Up(s)
    BY ServingRoles DEF CarriesOut, UpAsBefore
  <2>3. QED
    BY <2>1, <2>2 DEF AccountsAt, CarriesOut, Advance, FailoverTypeOK
<1>1. heirs' # {}
  BY <1>0, LeadersInheritStep DEF LeadersInherit
<1>2. ASSUME NEW q \in confirmed'
      PROVE  q.seqn <= M.lastReq[q.source]
  <2>1. /\ book[p].lastReq = lastReq /\ r.seqn = lastReq[r.source] + 1
        /\ M.lastReq = [lastReq EXCEPT ![r.source] = r.seqn]
    <3>1. book[p].lastReq = lastReq
      BY <1>0 DEF LeadersHave
    <3>2. r.seqn = book[p].lastReq[r.source] + 1
      BY RequestAccounts
    <3>3. M.lastReq = [book[p].lastReq EXCEPT ![r.source] = r.seqn]
      BY RequestAccounts
    <3>4. QED
      BY <3>1, <3>2, <3>3
  <2>2. r.source \in Clients /\ r.seqn \in Nat
    BY RequestParts
  <2>3. CASE q = r
    BY <2>1, <2>2, <2>3
  <2>4. CASE q \in confirmed
    <3>1. q.seqn <= lastReq[q.source] /\ q.source \in Clients /\ q.seqn \in Nat
      BY <1>0, <2>4, RequestParts
    <3>2. QED
      BY <2>1, <2>2, <3>1
  <2>5. QED
    BY <1>0, <1>2, <2>3, <2>4
<1>3. ASSUME NEW q \in Servers, role'[q] = "PRIMARY"
      PROVE  book'[q].balance = M.balance /\ book'[q].lastReq = M.lastReq
  <2>1. q = p
    BY <1>0, <1>3 DEF Advance, LineOK, OneLeader
  <2>2. book'[p] = M
    BY <1>0 DEF CarriesOut
  <2>3. QED
    BY <2>1, <2>2
<1>4. ASSUME NEW b \in Servers, role'[b] = "BACKUP", b \notin outdated'
      PROVE  \E G \in LedgerType : Follows(b, G, M.balance, M.lastReq)'
  <2>1. Up(b)'
    BY <1>4 DEF Advance, FailoverTypeOK, TypeOK, Dispatching, Up
  <2>2. b \notin outdated /\ role[b] = "BACKUP"
    BY <1>0, <1>4, <2>1, OutdatedStep
  <2>3. PICK F \in LedgerType : Follows(b, F, balance, lastReq)
    BY <1>0, <2>2 DEF BackupsFollow
  <2>4. QED
    BY <1>0, <1>4, <2>2, <2>3, FollowsTransaction
<1>5. ASSUME NEW b \in Servers, role'[b] = "unset", b \notin outdated'
      PROVE  chan'[b] = <<>>
  <2>1. CASE ~Up(b)'
    BY <2>1, NothingAtTheDownStep DEF NothingAtTheDown
  <2>2. CASE Up(b)'
    <3>1. b # p /\ ~Told(p, b)
      BY <1>0, <1>5 DEF Told, Advance, LineOK, ToldByLeader
    <3>2. Leaves(p, b)
      BY <1>0, <3>1, TransactionLeaves
    <3>3. ~(enlisted[p][b] > 0) /\ chan[b] = <<>>
      BY <1>5, <2>2, <3>2, OutdatedStep DEF HasHeard
    <3>4. chan'[b] = chan[b] \o Copies(StateUpdate(M), enlisted[p][b])
      BY <1>0, <2>2 DEF CarriesOut, Propagated, Copies
    <3>5. enlisted[p][b] = 0
      BY <1>0, <3>3
    <3>6. Copies(StateUpdate(M), 0) = <<>>
      BY DEF Copies
    <3>7. <<>> \o <<>> = <<>>
      OBVIOUS
    <3>8. QED
      BY <3>3, <3>4, <3>5, <3>6, <3>7
  <2>3. QED
    BY <2>1, <2>2
<1>6. ASSUME NEW b \in Servers, role'[b] = "unset", b \notin outdated'
      PROVE  DOMAIN chan'[b] = {}
  BY <1>5, <1>6
<1>7. QED
  BY <1>1, <1>2, <1>3, <1>4, <1>6
     DEF AccountsAt, LeadersHave, BackupsFollow, NewcomersUnharmed

LEMMA AccountsKeptStep ==
  ASSUME Advance, FreshBooks, CopiesCurrent, AccountsKept
  PROVE  AccountsKept'
<1>1. PICK balance \in [Clients -> Int], lastReq \in [Clients -> Nat] : AccountsAt(balance, lastReq)
  BY DEF AccountsKept
<1>2. CASE \A p \in Servers : ~Commits(p)
  BY <1>1, <1>2, AccountsWithoutTransaction DEF AccountsKept
<1>3. CASE \E p \in Servers : Commits(p)
  <2>1. PICK p \in Servers, r \in Requests, M \in LedgerType : CarriesOut(p, r, M)
    BY <1>3 DEF Commits
  <2>2. AccountsAt(M.balance, M.lastReq)'
    BY <1>1, <2>1, AccountsWithTransaction
  <2>3. M.balance \in [Clients -> Int] /\ M.lastReq \in [Clients -> Nat]
    BY BookFields
  <2>4. QED
    BY <2>2, <2>3 DEF AccountsKept
<1>4. QED
  BY <1>2, <1>3

-----------------------------------------------------------------------------
(* The invariant, and what follows from it.                                *)

Kept == ~broken => LineOK /\ PaymentsKept /\ FreshBooks /\ CopiesCurrent /\ AccountsKept

LEMMA KeptAtFirst == FailoverInit => Kept
<1> SUFFICES ASSUME FailoverInit PROVE LineOK /\ PaymentsKept /\ FreshBooks /\ CopiesCurrent /\ AccountsKept
  BY DEF Kept
<1>1. /\ role = [s \in Servers |-> "unset"]
      /\ book = [s \in Servers |-> EmptyLedger] /\ chan = [s \in Servers |-> <<>>]
      /\ syncing = [s \in Servers |-> {}] /\ requests = [s \in Servers |-> {}]
      /\ confirmed = {} /\ told = {} /\ outdated = {} /\ heirs = {}
  BY DEF FailoverInit, Init
<1>2. LineOK
  BY <1>1 DEF LineOK, OneLeader, LeadersInherit, HeirsServe, OnlyLeadersWork, ToldByLeader,
       HeirsUpToDate, TellsTheTold, NothingYet, NothingAtTheDown, OneSnapshot
<1>3. PaymentsKept
  BY <1>1 DEF PaymentsKept, LeadersKeep, HeirsKeep, ToldKeep
<1>4. FreshBooks /\ CopiesCurrent
  BY <1>1, EmptyLedgerUntouched DEF FreshBooks, CopiesCurrent
<1>5. AccountsKept
  <2>1. EmptyLedger.balance \in [Clients -> Int] /\ EmptyLedger.lastReq \in [Clients -> Nat]
    BY EmptyLedgerType, BookFields
  <2>2. \A s \in Servers : DOMAIN chan[s] = {} /\ role[s] = "unset"
    BY <1>1
  <2>3. AccountsAt(EmptyLedger.balance, EmptyLedger.lastReq)
    BY <1>1, <2>2 DEF AccountsAt, LeadersHave, BackupsFollow, NewcomersUnharmed
  <2>4. QED
    BY <2>1, <2>3 DEF AccountsKept
<1>6. QED
  BY <1>2, <1>3, <1>4, <1>5

LEMMA KeptStep ==
  FailoverTypeOK /\ FailoverTypeOK' /\ OnlyPrimariesEnlist /\ Kept /\ [FailoverNext]_failoverVars
  => Kept'
<1> SUFFICES ASSUME FailoverTypeOK, FailoverTypeOK', OnlyPrimariesEnlist, Kept,
                    [FailoverNext]_failoverVars
             PROVE  Kept'
  OBVIOUS
<1>1. CASE FailoverNext
  <2>1. CASE broken'
    BY <2>1 DEF Kept
  <2>2. CASE ~broken'
    <3>1. Succession /\ ~broken
      BY <1>1, <2>2 DEF FailoverNext, Succession
    <3>2. Kinds
      BY <1>1, <2>2, KindOfStep
    <3>3. LineOK /\ PaymentsKept /\ FreshBooks /\ CopiesCurrent /\ AccountsKept
      BY <3>1 DEF Kept
    <3>4. Advance
      BY <2>2, <3>1, <3>2, <3>3 DEF Advance
    <3>5. QED
      BY <3>3, <3>4, LineOfSuccessionStep, PaymentsKeptStep, FreshBooksStep, CopiesCurrentStep,
         AccountsKeptStep DEF Kept
  <2>3. QED
    BY <2>1, <2>2
<1>2. CASE UNCHANGED failoverVars
  <2>1. /\ UNCHANGED <<role, control, enlisted, book, chan, syncing, snapshot, requests, confirmed>>
        /\ UNCHANGED <<told, outdated, heirs, broken>>
    BY <1>2 DEF failoverVars, electionVars, vars, bookVars
  <2>2. LineOK => LineOK'
    BY <2>1 DEF LineOK, OneLeader, LeadersInherit, HeirsServe, OnlyLeadersWork, ToldByLeader,
         HeirsUpToDate, TellsTheTold, NothingYet, NothingAtTheDown, OneSnapshot, Up
  <2>3. PaymentsKept => PaymentsKept'
    BY <2>1 DEF PaymentsKept, LeadersKeep, HeirsKeep, ToldKeep, Keeps
  <2>4. (FreshBooks => FreshBooks') /\ (CopiesCurrent => CopiesCurrent')
    BY <2>1 DEF FreshBooks, CopiesCurrent
  <2>5. AccountsKept => AccountsKept'
    <3>1. ASSUME NEW balance, NEW lastReq, AccountsAt(balance, lastReq)
          PROVE  AccountsAt(balance, lastReq)'
      <4>1. ASSUME NEW b \in Servers, NEW F \in LedgerType, Follows(b, F, balance, lastReq)
            PROVE  Follows(b, F, balance, lastReq)'
        BY <2>1, <4>1 DEF Follows
      <4>2. BackupsFollow(balance, lastReq)'
        BY <2>1, <3>1, <4>1 DEF AccountsAt, BackupsFollow
      <4>3. LeadersHave(balance, lastReq)' /\ NewcomersUnharmed(balance, lastReq)'
        BY <2>1, <3>1 DEF AccountsAt, LeadersHave, NewcomersUnharmed
      <4>4. QED
        BY <2>1, <3>1, <4>2, <4>3 DEF AccountsAt
    <3>2. QED
      BY <3>1 DEF AccountsKept
  <2>6. QED
    BY <2>1, <2>2, <2>3, <2>4, <2>5 DEF Kept
<1>3. QED
  BY <1>1, <1>2

LEMMA AlwaysKept == FailoverSpec => [](FailoverTypeOK /\ Kept)
<1>1. FailoverTypeOK /\ [FailoverNext]_failoverVars => FailoverTypeOK'
  BY FailoverStep
<1>2. QED
  BY <1>1, KeptAtFirst, KeptStep, FailoverTypeCorrect, FailoverImplementsElection,
     OnlyPrimariesHaveBackups, PTL DEF FailoverSpec

\* A payment that a client was told is done is in the book of whoever is primary, however
\* many servers have ended and taken over since, timely or not, as long as the line of
\* succession is not broken.
THEOREM NoConfirmedPaymentLost == FailoverSpec => []ConfirmedSurvives
<1>1. Kept => ConfirmedSurvives
  BY DEF Kept, PaymentsKept, LeadersKeep, ConfirmedSurvives
<1>2. QED
  BY <1>1, AlwaysKept, PTL

\* An heir that has handled all that was sent to it has its primary's accounts.
THEOREM HeirsHaveTheAccounts == FailoverSpec => []HeirsAgree
<1>1. FailoverTypeOK /\ Kept => HeirsAgree
  <2> SUFFICES ASSUME FailoverTypeOK, Kept, ~broken, NEW p \in heirs, NEW b \in heirs,
                      role[p] = "PRIMARY", Told(p, b), HasAll(b)
               PROVE  AccountsOf(book[b], book[p])
    BY DEF HeirsAgree
  <2>1. p \in Servers /\ b \in Servers /\ book \in [Servers -> LedgerType]
    BY DEF FailoverTypeOK
  <2>2. role[b] = "BACKUP" /\ b \notin outdated
    BY <2>1 DEF Told, Kept, LineOK, ToldByLeader, HeirsUpToDate
  <2>3. PICK balance \in [Clients -> Int], lastReq \in [Clients -> Nat] : AccountsAt(balance, lastReq)
    BY DEF Kept, AccountsKept
  <2>4. PICK F \in LedgerType : Follows(b, F, balance, lastReq)
    BY <2>1, <2>2, <2>3 DEF AccountsAt, BackupsFollow
  <2>5. Alike(F, book[b])
    BY <2>4, EndsThere DEF Follows, HasAll
  <2>6. book[p].balance = balance /\ book[p].lastReq = lastReq
    BY <2>1, <2>3 DEF AccountsAt, LeadersHave
  <2>7. /\ F.balance = balance /\ F.lastReq = lastReq
        /\ book[p].registered \subseteq F.registered
    BY <2>1, <2>4 DEF Follows, Told
  <2>8. QED
    BY <2>5, <2>6, <2>7 DEF Alike, AccountsOf
<1>2. QED
  BY <1>1, AlwaysKept, PTL

\* No successor carries out again what was confirmed.
THEOREM PaidOnce == FailoverSpec => NoPaymentTwice
<1> DEFINE Once == \A s \in Servers, r \in Requests :
                     processTransaction(s, r) /\ ~broken
                     /\ (\E q \in confirmed : q.source = r.source /\ q.seqn = r.seqn)
                       => UNCHANGED book
<1>1. FailoverTypeOK /\ Kept => Once
  <2> SUFFICES ASSUME FailoverTypeOK, Kept, NEW s \in Servers, NEW r \in Requests,
                      processTransaction(s, r), ~broken,
                      NEW q \in confirmed, q.source = r.source, q.seqn = r.seqn
               PROVE  book' = book
    OBVIOUS
  <2>1. /\ book \in [Servers -> LedgerType] /\ role[s] = "PRIMARY"
        /\ r.source \in Clients /\ r.seqn \in Nat
    BY RequestParts DEF FailoverTypeOK, Kept, LineOK, OnlyLeadersWork, processTransaction
  <2>2. r.seqn <= book[s].lastReq[r.source]
    BY <2>1 DEF Kept, AccountsKept, AccountsAt, LeadersHave
  <2>3. validateTransaction(book[s], r.source, r.dest, r.value, r.seqn) # "SUCCESS"
    BY <2>2 DEF validateTransaction
  <2>4. handleTransactionLogic(book[s], r.source, r.dest, r.value, r.seqn).ledger = book[s]
    BY <2>3 DEF handleTransactionLogic
  <2>5. QED
    BY <2>1, <2>4 DEF processTransaction
<1>2. QED
  BY <1>1, AlwaysKept, PTL DEF NoPaymentTwice
=============================================================================
