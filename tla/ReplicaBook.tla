---------------------------- MODULE ReplicaBook -----------------------------
(***************************************************************************)
(* What servers tell each other about their books: the packets of the      *)
(* replication, and what a backup's handlers make of them.  State machines *)
(* keep the books and the packets under way in their variables.            *)
(***************************************************************************)
EXTENDS Ledger

\* Mutant: the number of the client's last request is not passed on.
ClientUpdateWithoutNumber(L, c) ==
  [type |-> "ADD_CLIENT_UPDATE", client |-> c, balance |-> L.balance[c], lastReq |-> 0]

ClientUpdate(L, c) ==
  [type |-> "ADD_CLIENT_UPDATE", client |-> c, balance |-> L.balance[c], lastReq |-> L.lastReq[c]]

HistoryEntry(tx) == [type |-> "ADD_HISTORY_ENTRY", transaction |-> tx]

StateUpdate(L) ==
  LET tx == L.history[Len(L.history)] IN
    [type |-> "STATE_UPDATE", transaction |-> tx,
     sourceBalance |-> L.balance[tx.source], destBalance |-> L.balance[tx.dest]]

-----------------------------------------------------------------------------
(* A backup: the books that handling a packet may leave.                   *)

\* Mutant: a client that is known already is overwritten by the update.
handleClientUpdateAnyway(L, m) ==
  [L EXCEPT !.registered = @ \cup {m.client},
            !.balance[m.client] = m.balance, !.lastReq[m.client] = m.lastReq,
            !.totalBalance = IF findClient(L, m.client) THEN @ ELSE @ + m.balance]

handleClientUpdate(L, m) ==
  IF findClient(L, m.client) THEN L
  ELSE [L EXCEPT !.registered = @ \cup {m.client},
                 !.balance[m.client] = m.balance, !.lastReq[m.client] = m.lastReq,
                 !.totalBalance = @ + m.balance]

handleHistoryEntry(L, m) ==
  [L EXCEPT !.history = Append(@, m.transaction), !.numTransactions = @ + 1,
            !.totalTransferred = @ + m.transaction.value]

\* Mutant: the number of the request is noted for its destination.
handleStateUpdateOfDest(L, m) ==
  LET s == m.transaction.source
      d == m.transaction.dest
      added == [handleHistoryEntry(L, m) EXCEPT !.registered = @ \cup {s, d}] IN
    {[added EXCEPT !.balance = setBalance(setBalance(@, s, m.sourceBalance), d, m.destBalance),
                   !.lastReq[d] = m.transaction.seqn]}

\* Clients the backup has not heard of are added with the balance of a new one.
\* Adding the destination may move the vector; source_it then points to where the
\* source was, and what is written through it is lost.
handleStateUpdate(L, m) ==
  LET s == m.transaction.source
      d == m.transaction.dest
      added == [handleHistoryEntry(L, m) EXCEPT !.registered = L.registered \cup {s, d}]
      paid == setBalance(L.balance, s, m.sourceBalance)
      dangling == [added EXCEPT !.balance = setBalance(L.balance, d, m.destBalance)]
      written == [added EXCEPT !.balance = setBalance(paid, d, m.destBalance),
                               !.lastReq = [L.lastReq EXCEPT ![s] = m.transaction.seqn]] IN
    IF d \in L.registered \cup {s} THEN {written} ELSE {written, dangling}

Handled(L, m) ==
  CASE m.type = "ADD_CLIENT_UPDATE" -> {handleClientUpdate(L, m)}
    [] m.type = "ADD_HISTORY_ENTRY" -> {handleHistoryEntry(L, m)}
    [] m.type = "STATE_UPDATE" -> handleStateUpdate(L, m)

-----------------------------------------------------------------------------
ClientUpdates ==
  [type : {"ADD_CLIENT_UPDATE"}, client : Clients, balance : Int, lastReq : Nat]

HistoryEntries == [type : {"ADD_HISTORY_ENTRY"}, transaction : Transaction]

StateUpdates ==
  [type : {"STATE_UPDATE"}, transaction : Transaction, sourceBalance : Int, destBalance : Int]

Updates == ClientUpdates \cup HistoryEntries \cup StateUpdates

Accounts(L) == <<L.registered, L.balance, L.lastReq, L.totalBalance>>
=============================================================================
