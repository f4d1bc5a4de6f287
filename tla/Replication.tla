---------------------------- MODULE Replication -----------------------------
(***************************************************************************)
(* A primary server and its backups: how a backup that registers is given  *)
(* what the primary holds, and how it is kept up to date.                  *)
(*                                                                         *)
(* On the primary the dispatch thread serves discovery and registration,   *)
(* one datagram after another, and each transaction has its own thread.    *)
(* registerBackup copies the book and enlists the backup under the lock    *)
(* but sends the copy after it released it, so transactions go on between  *)
(* two packets of a snapshot.  A backup handles what it receives in its    *)
(* one dispatch thread.                                                    *)
(*                                                                         *)
(* On a local network datagrams arrive as they were sent.  They may also   *)
(* be lost, copied or overtaken, and a backup may be started again with    *)
(* nothing in its memory: those are faults, and they are counted.          *)
(***************************************************************************)
EXTENDS ReplicaBook, FiniteSets

CONSTANTS
  Backups,           \* addresses of servers that run as backups
  Values,            \* amounts the users ask for
  MaxSeqn,           \* bound: the largest request number of each client
  MaxRegistrations,  \* bound: the times a backup registers
  MaxFaults          \* bound: the faults that befall a backup

ASSUME ReplicationAssumption ==
  /\ Values \subseteq Int
  /\ MaxSeqn \in [Clients -> Nat] /\ MaxRegistrations \in Nat /\ MaxFaults \in Nat

VARIABLES
  ledger,          \* the primary's book
  backup_servers,  \* how often each address stands in the vector of that name
  syncing,         \* {} or the one backup the dispatch thread sends a snapshot to
  snapshot,        \* what is left to send of the copy: client_snapshot, history_snapshot
  chan,            \* per backup, the packets under way from the primary
  book,            \* the book of each backup
  overtaken,       \* history: backups that were sent a transaction before all of their
                   \* first snapshot
  faults           \* history: how many faults befell a backup

vars == <<ledger, backup_servers, syncing, snapshot, chan, book, overtaken, faults>>

Init ==
  /\ ledger = EmptyLedger
  /\ backup_servers = [b \in Backups |-> 0]
  /\ syncing = {}
  /\ snapshot = EmptyLedger
  /\ chan = [b \in Backups |-> <<>>]
  /\ book = [b \in Backups |-> EmptyLedger]
  /\ overtaken = {}
  /\ faults = [b \in Backups |-> 0]

-----------------------------------------------------------------------------
(* The primary.                                                            *)

\* Mutant: an address that was enlisted twice is sent the packet once.
propagateOnce(m) ==
  chan' = [b \in Backups |-> IF backup_servers[b] > 0 THEN Append(chan[b], m) ELSE chan[b]]

\* To each element of backup_servers.
propagate(m) ==
  chan' = [b \in Backups |-> chan[b] \o [k \in 1..backup_servers[b] |-> m]]

addClient(c) ==
  /\ syncing = {}
  /\ ledger' = wasClientAdded(ledger, c)
  /\ IF findClient(ledger, c) THEN UNCHANGED chan ELSE propagate(ClientUpdate(ledger', c))
  /\ UNCHANGED <<backup_servers, syncing, snapshot, book, overtaken, faults>>

processTransaction(s, d, v, n) ==
  LET result == handleTransactionLogic(ledger, s, d, v, n) IN
    /\ ledger' = result.ledger
    /\ IF result.status = "SUCCESS"
       THEN /\ propagate(StateUpdate(ledger'))
            /\ overtaken' = overtaken \cup {b \in syncing : backup_servers[b] = 1}
       ELSE UNCHANGED <<chan, overtaken>>
    /\ UNCHANGED <<backup_servers, syncing, snapshot, book, faults>>

\* The loops over the copy go on while something is left to send.
SendOn(b, rest) ==
  IF rest.registered = {} /\ rest.history = <<>>
  THEN syncing' = {} /\ snapshot' = EmptyLedger
  ELSE syncing' = {b} /\ snapshot' = rest

\* A backup registers when it starts and whenever it hears the primary announced,
\* and nobody looks whether it is enlisted already.
registerBackup(b) ==
  /\ syncing = {}
  /\ backup_servers[b] < MaxRegistrations
  /\ backup_servers' = [backup_servers EXCEPT ![b] = @ + 1]
  /\ SendOn(b, ledger)
  /\ UNCHANGED <<ledger, chan, book, overtaken, faults>>

\* First the clients (in the order of the vector, which the model does not keep).
sendClientSnapshot(b) ==
  /\ b \in syncing
  /\ \E c \in snapshot.registered :
       /\ chan' = [chan EXCEPT ![b] = Append(@, ClientUpdate(snapshot, c))]
       /\ SendOn(b, [snapshot EXCEPT !.registered = @ \ {c}])
  /\ UNCHANGED <<ledger, backup_servers, book, overtaken, faults>>

sendHistorySnapshot(b) ==
  /\ b \in syncing
  /\ snapshot.registered = {} /\ snapshot.history # <<>>
  /\ chan' = [chan EXCEPT ![b] = Append(@, HistoryEntry(Head(snapshot.history)))]
  /\ SendOn(b, [snapshot EXCEPT !.history = Tail(@)])
  /\ UNCHANGED <<ledger, backup_servers, book, overtaken, faults>>

Handle(b, m) == \E L \in Handled(book[b], m) : book' = [book EXCEPT ![b] = L]

Without(s, i) == SubSeq(s, 1, i - 1) \o SubSeq(s, i + 1, Len(s))

receive(b) ==
  /\ chan[b] # <<>>
  /\ Handle(b, Head(chan[b]))
  /\ chan' = [chan EXCEPT ![b] = Tail(@)]
  /\ UNCHANGED <<ledger, backup_servers, syncing, snapshot, overtaken, faults>>

-----------------------------------------------------------------------------
(* Faults.                                                                 *)

Fault(b) ==
  /\ faults[b] < MaxFaults
  /\ faults' = [faults EXCEPT ![b] = @ + 1]
  /\ UNCHANGED <<ledger, backup_servers, syncing, snapshot, overtaken>>

Lose(b, i) ==
  /\ Fault(b)
  /\ chan' = [chan EXCEPT ![b] = Without(@, i)]
  /\ UNCHANGED book

Copy(b, i) ==
  /\ Fault(b)
  /\ Handle(b, chan[b][i])
  /\ UNCHANGED chan

Overtake(b, i) ==
  /\ Fault(b)
  /\ i > 1
  /\ Handle(b, chan[b][i])
  /\ chan' = [chan EXCEPT ![b] = Without(@, i)]

\* The process ends and is started again; it will register as any other.
Restart(b) ==
  /\ Fault(b)
  /\ book' = [book EXCEPT ![b] = EmptyLedger]
  /\ UNCHANGED chan

Next ==
  \/ \E c \in Clients : addClient(c)
  \/ \E s, d \in Clients, v \in Values : \E n \in 1..MaxSeqn[s] : processTransaction(s, d, v, n)
  \/ \E b \in Backups :
       \/ registerBackup(b) \/ sendClientSnapshot(b) \/ sendHistorySnapshot(b)
       \/ receive(b) \/ Restart(b)
       \/ \E i \in DOMAIN chan[b] : Lose(b, i) \/ Copy(b, i) \/ Overtake(b, i)

Spec == Init /\ [][Next]_vars

-----------------------------------------------------------------------------
TypeOK ==
  /\ ledger \in LedgerType /\ snapshot \in LedgerType
  /\ backup_servers \in [Backups -> Nat]
  /\ syncing \in SUBSET Backups /\ overtaken \in SUBSET Backups
  /\ chan \in [Backups -> Seq(Updates)]
  /\ book \in [Backups -> LedgerType]
  /\ faults \in [Backups -> 0..MaxFaults]

\* The places of s that hold tx, or a packet with it.
Places(s, tx) == {i \in DOMAIN s : s[i] = tx}
Carriers(s, tx) ==
  {i \in DOMAIN s : s[i].type # "ADD_CLIENT_UPDATE" /\ s[i].transaction = tx}

CopiesOf(b, tx) ==
  Cardinality(Places(book[b].history, tx)) + Cardinality(Carriers(chan[b], tx))
    + (IF b \in syncing THEN Cardinality(Places(snapshot.history, tx)) ELSE 0)

\* The snapshot and the updates fit together: as long as nothing goes wrong on the
\* way, each transaction is in a backup's history or on its way there once for each
\* time the backup is enlisted, though transactions run between the packets
\* of a snapshot.  None falls between the copy and the first update.
NothingForgotten ==
  \A b \in Backups : faults[b] = 0 =>
    \A i \in DOMAIN ledger.history : CopiesOf(b, ledger.history[i]) = backup_servers[b]

Settled(b) == faults[b] = 0 /\ backup_servers[b] > 0 /\ b \notin syncing /\ chan[b] = <<>>

\* A backup that has received everything has the primary's accounts, and the whole
\* book if it registered once, unless a transaction was sent in the middle of its first
\* snapshot.  Later snapshots do no harm to the accounts, at whatever moment they are made.
SyncedUnlessOvertaken ==
  \A b \in Backups : Settled(b) /\ b \notin overtaken =>
    /\ Accounts(book[b]) = Accounts(ledger)
    /\ backup_servers[b] = 1 => book[b] = ledger

\* What the primary says when registerBackup is through: the backup is synchronised.
SyncConcluded ==
  \A b \in Backups : Settled(b) /\ backup_servers[b] = 1 => book[b] = ledger

\* The book L holds nothing that P has not: no larger request number, and a history
\* made of entries of P's.
Recorded(tx, P) == tx.id \in DOMAIN P.history /\ P.history[tx.id] = tx

Behind(L, P) ==
  /\ \A c \in Clients : L.lastReq[c] <= P.lastReq[c]
  /\ \A i \in DOMAIN L.history : Recorded(L.history[i], P)

\* A backup knows nothing that the primary did not do, whatever the faults, and
\* whatever order the packets come in.  So one that is promoted takes no new request
\* for a duplicate, and no client is answered that a request was processed that was not.
BackupNeverAhead == \A b \in Backups : Behind(book[b], ledger)
=============================================================================
