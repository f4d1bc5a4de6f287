------------------------- MODULE ReplicationProofs --------------------------
(***************************************************************************)
(* For any clients, backups, amounts and any number of faults: what a      *)
(* backup holds is always something the primary did.  If no fault befell   *)
(* it, everything the primary did gets there, once for each time it is     *)
(* enlisted; and if no transaction overtook its first snapshot either, it  *)
(* ends with the primary's accounts.                                       *)
(***************************************************************************)
EXTENDS Replication, LedgerProofs, SequenceTheorems

\* What the content of a packet owes to the primary's book P.
Sound(m, P) ==
  /\ m.type = "ADD_CLIENT_UPDATE" => m.lastReq <= P.lastReq[m.client]
  /\ m.type # "ADD_CLIENT_UPDATE" => Recorded(m.transaction, P)
  /\ m.type = "STATE_UPDATE" => m.transaction.seqn <= P.lastReq[m.transaction.source]

SoundPackets(P) == {m \in Updates : Sound(m, P)}

BooksBehind(P) == {L \in LedgerType : Behind(L, P)}

\* Entries are numbered by their place.
Numbered(L) ==
  /\ L.numTransactions = Len(L.history)
  /\ \A i \in DOMAIN L.history : L.history[i].id = i

IInv ==
  /\ ledger \in LedgerType /\ Numbered(ledger)
  /\ snapshot \in BooksBehind(ledger)
  /\ book \in [Backups -> BooksBehind(ledger)]
  /\ chan \in [Backups -> Seq(SoundPackets(ledger))]
  /\ backup_servers \in [Backups -> Nat]
  /\ syncing \in SUBSET Backups /\ overtaken \in SUBSET Backups
  /\ faults \in [Backups -> 0..MaxFaults]

\* N is what P may become: numbers and history only grow.
Grows(P, N) ==
  /\ \A c \in Clients : P.lastReq[c] <= N.lastReq[c]
  /\ \A i \in DOMAIN P.history : i \in DOMAIN N.history /\ N.history[i] = P.history[i]

-----------------------------------------------------------------------------
LEMMA FieldTypes ==
  ASSUME NEW L \in LedgerType
  PROVE  /\ L.lastReq \in [Clients -> Nat] /\ L.balance \in [Clients -> Int]
         /\ L.registered \in SUBSET Clients
         /\ L.history \in Seq(Transaction)
         /\ DOMAIN L.history = 1..Len(L.history) /\ Len(L.history) \in Nat
         /\ L.numTransactions \in Nat /\ L.totalTransferred \in Int /\ L.totalBalance \in Int
BY DEF LedgerType

\* What was behind the primary, or sound, stays so as the primary goes on.
LEMMA GrowthKeeps ==
  ASSUME NEW P \in LedgerType, NEW N \in LedgerType, Grows(P, N)
  PROVE  /\ BooksBehind(P) \subseteq BooksBehind(N)
         /\ Seq(SoundPackets(P)) \subseteq Seq(SoundPackets(N))
<1>1. /\ P.lastReq \in [Clients -> Nat] /\ N.lastReq \in [Clients -> Nat]
  BY FieldTypes
<1>2. ASSUME NEW tx, Recorded(tx, P)
      PROVE  Recorded(tx, N)
  BY <1>2 DEF Recorded, Grows
<1>3. ASSUME NEW L \in LedgerType, Behind(L, P)
      PROVE  Behind(L, N)
  <2>1. ASSUME NEW c \in Clients
        PROVE  L.lastReq[c] <= N.lastReq[c]
    <3>1. L.lastReq[c] \in Nat /\ P.lastReq[c] \in Nat /\ N.lastReq[c] \in Nat
      BY <1>1, FieldTypes
    <3>2. L.lastReq[c] <= P.lastReq[c] /\ P.lastReq[c] <= N.lastReq[c]
      BY <1>3 DEF Behind, Grows
    <3>3. QED
      BY <3>1, <3>2
  <2>2. QED
    BY <1>2, <1>3, <2>1 DEF Behind
<1>4. ASSUME NEW m \in Updates, Sound(m, P)
      PROVE  Sound(m, N)
  <2>1. ASSUME NEW c \in Clients, NEW n \in Nat, n <= P.lastReq[c]
        PROVE  n <= N.lastReq[c]
    <3>1. P.lastReq[c] \in Nat /\ N.lastReq[c] \in Nat /\ P.lastReq[c] <= N.lastReq[c]
      BY <1>1 DEF Grows
    <3>2. QED
      BY <2>1, <3>1
  <2>2. m.type = "ADD_CLIENT_UPDATE" => m.client \in Clients /\ m.lastReq \in Nat
    BY DEF Updates, ClientUpdates, HistoryEntries, StateUpdates
  <2>3. m.type = "STATE_UPDATE" => m.transaction \in Transaction
    BY DEF Updates, ClientUpdates, HistoryEntries, StateUpdates
  <2>4. m.type = "STATE_UPDATE" => m.transaction.source \in Clients /\ m.transaction.seqn \in Nat
    BY <2>3 DEF Transaction
  <2>5. QED
    BY <1>2, <1>4, <2>1, <2>2, <2>4 DEF Sound
<1>5. SoundPackets(P) \subseteq SoundPackets(N)
  BY <1>4 DEF SoundPackets
<1>6. ASSUME NEW s \in Seq(SoundPackets(P))
      PROVE  s \in Seq(SoundPackets(N))
  BY <1>5, SeqMonotonic
<1>7. QED
  BY <1>3, <1>6 DEF BooksBehind

\* The primary's own book is behind itself.
LEMMA BehindItself ==
  ASSUME NEW P \in LedgerType, Numbered(P)
  PROVE  P \in BooksBehind(P)
BY FieldTypes DEF BooksBehind, Behind, Recorded, Numbered

-----------------------------------------------------------------------------
(* What the primary sends is sound.                                        *)

LEMMA ClientUpdateSound ==
  ASSUME NEW P \in LedgerType, NEW L \in BooksBehind(P), NEW c \in Clients
  PROVE  ClientUpdate(L, c) \in SoundPackets(P)
<1>1. L \in LedgerType /\ L.lastReq[c] <= P.lastReq[c]
  BY DEF BooksBehind, Behind
<1>2. L.balance[c] \in Int /\ L.lastReq[c] \in Nat
  BY <1>1, FieldTypes
<1>3. ClientUpdate(L, c) \in ClientUpdates
  BY <1>2 DEF ClientUpdate, ClientUpdates
<1>4. Sound(ClientUpdate(L, c), P)
  BY <1>1 DEF ClientUpdate, Sound
<1>5. QED
  BY <1>3, <1>4 DEF SoundPackets, Updates

LEMMA HistoryEntrySound ==
  ASSUME NEW P \in LedgerType, NEW tx \in Transaction, Recorded(tx, P)
  PROVE  HistoryEntry(tx) \in SoundPackets(P)
BY DEF HistoryEntry, HistoryEntries, SoundPackets, Updates, Sound

LEMMA StateUpdateSound ==
  ASSUME NEW P \in LedgerType, Numbered(P), P.history # <<>>,
         LET tx == P.history[Len(P.history)] IN tx.seqn <= P.lastReq[tx.source]
  PROVE  StateUpdate(P) \in SoundPackets(P)
<1> DEFINE tx == P.history[Len(P.history)]
           m == StateUpdate(P)
<1>1. tx \in Transaction /\ Recorded(tx, P) /\ tx.seqn <= P.lastReq[tx.source]
  BY FieldTypes DEF Numbered, Recorded
<1>2. /\ m = [type |-> "STATE_UPDATE", transaction |-> tx,
              sourceBalance |-> P.balance[tx.source], destBalance |-> P.balance[tx.dest]]
  BY DEF StateUpdate
<1> HIDE DEF tx, m
<1>3. P.balance[tx.source] \in Int /\ P.balance[tx.dest] \in Int
  BY <1>1, FieldTypes DEF Transaction
<1>4. m \in StateUpdates
  BY <1>1, <1>2, <1>3 DEF StateUpdates
<1>5. Sound(m, P)
  BY <1>1, <1>2 DEF Sound
<1>6. m \in SoundPackets(P)
  BY <1>4, <1>5 DEF SoundPackets, Updates
<1>7. QED
  BY <1>6 DEF m

-----------------------------------------------------------------------------
(* Handling a sound packet leaves a book that is behind the primary.       *)

LEMMA ClientUpdateHandled ==
  ASSUME NEW P \in LedgerType, NEW L \in BooksBehind(P), NEW m \in SoundPackets(P),
         m.type = "ADD_CLIENT_UPDATE"
  PROVE  handleClientUpdate(L, m) \in BooksBehind(P)
<1> DEFINE c == m.client
           clients == L.registered \cup {c}
           balance == [L.balance EXCEPT ![c] = m.balance]
           lastReq == [L.lastReq EXCEPT ![c] = m.lastReq]
           total == L.totalBalance + m.balance
           M == [L EXCEPT !.registered = clients, !.balance = balance,
                          !.lastReq = lastReq, !.totalBalance = total]
<1>1. m \in ClientUpdates /\ m.lastReq <= P.lastReq[c]
  BY DEF SoundPackets, Updates, ClientUpdates, HistoryEntries, StateUpdates, Sound
<1>2. c \in Clients /\ m.balance \in Int /\ m.lastReq \in Nat
  BY <1>1 DEF ClientUpdates
<1>3. L \in LedgerType /\ Behind(L, P)
  BY DEF BooksBehind
<1>4. /\ clients \in SUBSET Clients /\ balance \in [Clients -> Int]
      /\ lastReq \in [Clients -> Nat] /\ total \in Int
  BY <1>2, <1>3, FieldTypes
<1>5. \A x \in Clients : lastReq[x] <= P.lastReq[x]
  BY <1>1, <1>2, <1>3, FieldTypes DEF Behind
<1>6. M \in LedgerType /\ M.lastReq = lastReq /\ M.history = L.history
  <2> HIDE DEF clients, balance, lastReq, total
  <2> QED BY <1>3, <1>4 DEF LedgerType
<1>7. M \in BooksBehind(P)
  <2> HIDE DEF M, lastReq
  <2> QED BY <1>3, <1>5, <1>6 DEF BooksBehind, Behind
<1>8. handleClientUpdate(L, m) \in {L, M}
  BY DEF handleClientUpdate
<1>9. QED
  BY <1>7, <1>8

\* An entry that the primary recorded is added to the history.
LEMMA HistoryEntryHandled ==
  ASSUME NEW P \in LedgerType, NEW L \in BooksBehind(P), NEW m,
         m.transaction \in Transaction, Recorded(m.transaction, P)
  PROVE  /\ handleHistoryEntry(L, m) \in BooksBehind(P)
         /\ handleHistoryEntry(L, m).registered = L.registered
         /\ handleHistoryEntry(L, m).balance = L.balance
         /\ handleHistoryEntry(L, m).lastReq = L.lastReq
<1> DEFINE tx == m.transaction
           history == Append(L.history, tx)
           count == L.numTransactions + 1
           total == L.totalTransferred + tx.value
           M == handleHistoryEntry(L, m)
<1>1. L \in LedgerType /\ Behind(L, P)
  BY DEF BooksBehind
<1>2. history \in Seq(Transaction) /\ count \in Nat /\ total \in Int
  <2>1. /\ L.history \in Seq(Transaction)
        /\ L.numTransactions \in Nat /\ L.totalTransferred \in Int
    BY <1>1, FieldTypes
  <2>2. tx \in Transaction /\ tx.value \in Int
    BY DEF Transaction
  <2> HIDE DEF tx
  <2>3. QED
    BY <2>1, <2>2
<1>3. \A i \in DOMAIN history : Recorded(history[i], P)
  BY <1>1, FieldTypes DEF Behind
<1>4. M = [L EXCEPT !.history = history, !.numTransactions = count, !.totalTransferred = total]
  BY DEF handleHistoryEntry
<1>5. /\ M \in LedgerType /\ M.registered = L.registered /\ M.balance = L.balance
      /\ M.lastReq = L.lastReq /\ M.history = history
  <2> HIDE DEF history, count, total, M
  <2> QED BY <1>1, <1>2, <1>4 DEF LedgerType
<1>6. M \in BooksBehind(P)
  <2> HIDE DEF history, M
  <2> QED BY <1>1, <1>3, <1>5 DEF BooksBehind, Behind
<1>7. QED
  BY <1>5, <1>6

LEMMA StateUpdateHandled ==
  ASSUME NEW P \in LedgerType, NEW L \in BooksBehind(P), NEW m \in SoundPackets(P),
         m.type = "STATE_UPDATE", NEW N \in handleStateUpdate(L, m)
  PROVE  N \in BooksBehind(P)
<1> DEFINE s == m.transaction.source
           d == m.transaction.dest
           E == handleHistoryEntry(L, m)
           clients == L.registered \cup {s, d}
           A == [E EXCEPT !.registered = clients]
           one == setBalance(L.balance, d, m.destBalance)
           both == setBalance(setBalance(L.balance, s, m.sourceBalance), d, m.destBalance)
           lastReq == [L.lastReq EXCEPT ![s] = m.transaction.seqn]
           dangling == [A EXCEPT !.balance = one]
           written == [A EXCEPT !.balance = both, !.lastReq = lastReq]
<1>1. /\ m \in StateUpdates /\ Recorded(m.transaction, P)
      /\ m.transaction.seqn <= P.lastReq[s]
  BY DEF SoundPackets, Updates, ClientUpdates, HistoryEntries, StateUpdates, Sound
<1>2. m.transaction \in Transaction /\ m.sourceBalance \in Int /\ m.destBalance \in Int
  BY <1>1 DEF StateUpdates
<1>3. s \in Clients /\ d \in Clients /\ m.transaction.seqn \in Nat
  BY <1>2 DEF Transaction
<1>4. /\ E \in BooksBehind(P) /\ E.registered = L.registered
      /\ E.balance = L.balance /\ E.lastReq = L.lastReq
  BY <1>1, <1>2, HistoryEntryHandled
<1>5. E \in LedgerType /\ Behind(E, P)
  BY <1>4 DEF BooksBehind
<1>6. L.balance \in [Clients -> Int] /\ L.lastReq \in [Clients -> Nat]
      /\ L.registered \in SUBSET Clients
  BY FieldTypes DEF BooksBehind
<1>7. /\ clients \in SUBSET Clients /\ one \in [Clients -> Int]
      /\ both \in [Clients -> Int] /\ lastReq \in [Clients -> Nat]
  BY <1>2, <1>3, <1>6 DEF setBalance
<1>8. /\ \A x \in Clients : lastReq[x] <= P.lastReq[x]
      /\ \A x \in Clients : E.lastReq[x] <= P.lastReq[x]
  <2>1. \A x \in Clients : E.lastReq[x] <= P.lastReq[x]
    <3> HIDE DEF E
    <3> QED BY <1>5 DEF Behind
  <2>2. \A x \in Clients : lastReq[x] = IF x = s THEN m.transaction.seqn ELSE L.lastReq[x]
    BY <1>6
  <2> HIDE DEF E, lastReq
  <2>3. QED
    BY <1>1, <1>4, <2>1, <2>2
<1>9. /\ A \in LedgerType /\ A.balance = L.balance /\ A.lastReq = L.lastReq
      /\ A.history = E.history
  <2> HIDE DEF E, clients
  <2> QED BY <1>4, <1>5, <1>7 DEF LedgerType
<1>10. N \in {written, dangling}
  BY DEF handleStateUpdate
<1>11. /\ dangling \in LedgerType /\ dangling.lastReq = E.lastReq
       /\ dangling.history = E.history
  <2> HIDE DEF A, one, E
  <2> QED BY <1>4, <1>7, <1>9 DEF LedgerType
<1>12. /\ written \in LedgerType /\ written.lastReq = lastReq
       /\ written.history = E.history
  <2> HIDE DEF A, both, lastReq, E
  <2> QED BY <1>7, <1>9 DEF LedgerType
<1>13. QED
  <2> HIDE DEF dangling, written, E, lastReq
  <2> QED BY <1>5, <1>8, <1>10, <1>11, <1>12 DEF BooksBehind, Behind

LEMMA HandledBehind ==
  ASSUME NEW P \in LedgerType, NEW L \in BooksBehind(P), NEW m \in SoundPackets(P),
         NEW N \in Handled(L, m)
  PROVE  N \in BooksBehind(P)
<1>1. m \in Updates /\ Sound(m, P)
  BY DEF SoundPackets
<1>2. m.type \in {"ADD_CLIENT_UPDATE", "ADD_HISTORY_ENTRY", "STATE_UPDATE"}
  BY <1>1 DEF Updates, ClientUpdates, HistoryEntries, StateUpdates
<1>3. CASE m.type = "ADD_CLIENT_UPDATE"
  BY <1>3, ClientUpdateHandled DEF Handled
<1>4. CASE m.type = "ADD_HISTORY_ENTRY"
  <2>1. m.transaction \in Transaction /\ Recorded(m.transaction, P)
    BY <1>1, <1>4 DEF Updates, ClientUpdates, HistoryEntries, StateUpdates, Sound
  <2>2. QED
    BY <1>4, <2>1, HistoryEntryHandled DEF Handled
<1>5. CASE m.type = "STATE_UPDATE"
  BY <1>5, StateUpdateHandled DEF Handled
<1>6. QED
  BY <1>2, <1>3, <1>4, <1>5

-----------------------------------------------------------------------------
(* Channels.                                                               *)

LEMMA WithoutType ==
  ASSUME NEW S, NEW s \in Seq(S), NEW i \in DOMAIN s
  PROVE  Without(s, i) \in Seq(S) /\ s[i] \in S
<1>1. i \in 1..Len(s) /\ Len(s) \in Nat /\ \A j \in 1..Len(s) : s[j] \in S
  BY LenProperties, ElementOfSeq
<1>2. SubSeq(s, 1, i - 1) \in Seq(S)
  BY <1>1, SubSeqProperties
<1>3. SubSeq(s, i + 1, Len(s)) \in Seq(S)
  BY <1>1, SubSeqProperties
<1>4. QED
  BY <1>1, <1>2, <1>3, ConcatProperties DEF Without

\* Sending a packet to all that are enlisted appends nothing but that packet.
LEMMA PropagateType ==
  ASSUME NEW S, chan \in [Backups -> Seq(S)], backup_servers \in [Backups -> Nat],
         NEW m \in S, propagate(m)
  PROVE  chan' \in [Backups -> Seq(S)]
<1>1. ASSUME NEW b \in Backups
      PROVE  chan[b] \o [k \in 1..backup_servers[b] |-> m] \in Seq(S)
  <2>1. backup_servers[b] \in Nat /\ chan[b] \in Seq(S)
    OBVIOUS
  <2>2. [k \in 1..backup_servers[b] |-> m] \in Seq(S)
    BY <2>1
  <2>3. QED
    BY <2>1, <2>2, ConcatProperties
<1>2. QED
  BY <1>1 DEF propagate

-----------------------------------------------------------------------------
(* The invariant.                                                          *)

\* The primary's book grows, and what is sent is sound by the new book.
LEMMA InvAfterGrowth ==
  ASSUME IInv, ledger' \in LedgerType, Grows(ledger, ledger'),
         UNCHANGED <<snapshot, book>>,
         chan' = chan \/ \E m \in SoundPackets(ledger') : propagate(m)
  PROVE  /\ snapshot' \in BooksBehind(ledger')
         /\ book' \in [Backups -> BooksBehind(ledger')]
         /\ chan' \in [Backups -> Seq(SoundPackets(ledger'))]
<1> DEFINE S == SoundPackets(ledger')
           B == BooksBehind(ledger')
<1>1. ledger \in LedgerType /\ backup_servers \in [Backups -> Nat]
  BY DEF IInv
<1>2. BooksBehind(ledger) \subseteq B /\ Seq(SoundPackets(ledger)) \subseteq Seq(S)
  BY <1>1, GrowthKeeps
<1>3. snapshot \in B /\ book \in [Backups -> B]
  BY <1>2 DEF IInv
<1>4. chan \in [Backups -> Seq(S)]
  BY <1>2 DEF IInv
<1>5. chan' \in [Backups -> Seq(S)]
  <2> HIDE DEF S
  <2>1. CASE chan' = chan
    BY <1>4, <2>1
  <2>2. CASE \E m \in S : propagate(m)
    BY <1>1, <1>4, <2>2, PropagateType
  <2>3. QED
    BY <2>1, <2>2 DEF S
<1>6. QED
  BY <1>3, <1>5

\* Registration and execution grow the book and number the entries.
LEMMA RegistrationGrows ==
  ASSUME NEW P \in LedgerType, Numbered(P), NEW c \in Clients,
         NEW N, N = wasClientAdded(P, c)
  PROVE  N \in LedgerType /\ Numbered(N) /\ Grows(P, N)
<1>1. /\ N \in LedgerType /\ N.lastReq = P.lastReq /\ N.history = P.history
      /\ N.numTransactions = P.numTransactions
  BY RegistrationEffect
<1>2. \A x \in Clients : P.lastReq[x] \in Nat
  BY FieldTypes
<1>3. QED
  BY <1>1, <1>2 DEF Numbered, Grows

LEMMA TransactionGrows ==
  ASSUME NEW P \in LedgerType, Numbered(P), NEW s \in Clients, NEW d \in Clients,
         NEW v \in Int, NEW n \in Nat, NEW r, r = handleTransactionLogic(P, s, d, v, n)
  PROVE  /\ r.ledger \in LedgerType /\ Numbered(r.ledger) /\ Grows(P, r.ledger)
         /\ r.status = "SUCCESS" =>
              StateUpdate(r.ledger) \in SoundPackets(r.ledger)
<1> DEFINE N == r.ledger
           entry == newTransaction(P, s, d, v, n)
<1>1. /\ N \in LedgerType
      /\ r.status = "SUCCESS" =>
           /\ n = P.lastReq[s] + 1
           /\ \A c \in Clients : N.lastReq[c] = IF c = s THEN n ELSE P.lastReq[c]
      /\ r.status # "SUCCESS" => N = P
  BY StatusEffect
<1>2. \A c \in Clients : P.lastReq[c] \in Nat
  BY FieldTypes
<1>3. CASE r.status # "SUCCESS"
  BY <1>1, <1>2, <1>3 DEF Grows
<1>4. CASE r.status = "SUCCESS"
  <2>1. N = updateAndLogTransaction(executeTransaction(P, s, d, v, n), s, d, v, n)
    BY <1>4 DEF handleTransactionLogic
  <2>2. N.history = Append(P.history, entry) /\ N.numTransactions = P.numTransactions + 1
    BY <2>1, ExecutionFields
  <2>3. entry.id = P.numTransactions + 1 /\ entry.source = s /\ entry.seqn = n
    BY DEF newTransaction
  <2>4. P.history \in Seq(Transaction) /\ Len(P.history) \in Nat
        /\ DOMAIN P.history = 1..Len(P.history)
    BY FieldTypes
  <2> HIDE DEF N, entry
  <2>5. /\ Len(N.history) = Len(P.history) + 1
        /\ DOMAIN N.history = 1..Len(P.history) + 1
        /\ \A i \in 1..Len(P.history) : N.history[i] = P.history[i]
        /\ N.history[Len(P.history) + 1] = entry
    BY <2>2, <2>4
  <2>6. Numbered(N)
    BY <2>2, <2>3, <2>4, <2>5 DEF Numbered
  <2>7. Grows(P, N)
    BY <1>1, <1>2, <1>4, <2>4, <2>5 DEF Grows
  <2>8. N.history # <<>> /\ N.history[Len(N.history)] = entry
    BY <2>4, <2>5
  <2>9. entry.seqn <= N.lastReq[entry.source]
    BY <1>1, <1>4, <2>3
  <2>10. StateUpdate(N) \in SoundPackets(N)
    BY <1>1, <2>6, <2>8, <2>9, StateUpdateSound
  <2>11. QED
    BY <1>1, <2>6, <2>7, <2>10 DEF N
<1>5. QED
  BY <1>3, <1>4

\* What is left of a snapshot is behind the primary as the whole was.
LEMMA SendOnType ==
  ASSUME IInv, NEW b \in Backups, NEW rest \in BooksBehind(ledger), SendOn(b, rest)
  PROVE  snapshot' \in BooksBehind(ledger) /\ syncing' \in SUBSET Backups
<1>1. EmptyLedger \in BooksBehind(ledger)
  <2>1. \A c \in Clients : ledger.lastReq[c] \in Nat
    BY FieldTypes DEF IInv
  <2>2. (\A c \in Clients : EmptyLedger.lastReq[c] = 0) /\ EmptyLedger.history = <<>>
    BY DEF EmptyLedger
  <2>3. QED
    BY <2>1, <2>2, EmptyLedgerType DEF BooksBehind, Behind
<1>2. QED
  BY <1>1 DEF SendOn

LEMMA RestOfSnapshot ==
  ASSUME NEW P \in LedgerType, NEW L \in BooksBehind(P)
  PROVE  /\ \A c : [L EXCEPT !.registered = @ \ {c}] \in BooksBehind(P)
         /\ L.history # <<>> =>
              /\ [L EXCEPT !.history = Tail(@)] \in BooksBehind(P)
              /\ HistoryEntry(Head(L.history)) \in SoundPackets(P)
<1>1. L \in LedgerType /\ Behind(L, P)
  BY DEF BooksBehind
<1>2. ASSUME NEW c
      PROVE  [L EXCEPT !.registered = @ \ {c}] \in BooksBehind(P)
  <2> DEFINE clients == L.registered \ {c}
             M == [L EXCEPT !.registered = clients]
  <2>1. clients \in SUBSET Clients
    BY <1>1, FieldTypes
  <2>2. M \in LedgerType /\ M.lastReq = L.lastReq /\ M.history = L.history
    <3> HIDE DEF clients
    <3> QED BY <1>1, <2>1 DEF LedgerType
  <2>3. M \in BooksBehind(P)
    <3> HIDE DEF M
    <3> QED BY <1>1, <2>2 DEF BooksBehind, Behind
  <2>4. QED
    BY <2>3
<1>3. ASSUME L.history # <<>>
      PROVE  /\ [L EXCEPT !.history = Tail(@)] \in BooksBehind(P)
             /\ HistoryEntry(Head(L.history)) \in SoundPackets(P)
  <2> DEFINE h == L.history
             t == Tail(h)
             M == [L EXCEPT !.history = t]
  <2>1. h \in Seq(Transaction) /\ h # <<>> /\ DOMAIN h = 1..Len(h) /\ Len(h) \in Nat
    BY <1>1, <1>3, FieldTypes
  <2>2. \A i \in DOMAIN h : h[i] \in Transaction /\ Recorded(h[i], P)
    BY <1>1, <2>1 DEF Behind
  <2> HIDE DEF h
  <2>3. t \in Seq(Transaction) /\ \A i \in DOMAIN t : Recorded(t[i], P)
    BY <2>1, <2>2
  <2>4. Head(h) \in Transaction /\ Recorded(Head(h), P)
    BY <2>1, <2>2
  <2>5. M \in LedgerType /\ M.lastReq = L.lastReq /\ M.history = t
    <3> HIDE DEF t
    <3> QED BY <1>1, <2>3 DEF LedgerType
  <2>6. M \in BooksBehind(P)
    <3> HIDE DEF M, t
    <3> QED BY <1>1, <2>3, <2>5 DEF BooksBehind, Behind
  <2>7. QED
    BY <2>4, <2>6, HistoryEntrySound DEF h
<1>4. QED
  BY <1>2, <1>3

-----------------------------------------------------------------------------
LEMMA InitInv == Init => IInv
<1> SUFFICES ASSUME Init PROVE IInv
  OBVIOUS
<1>1. ledger \in LedgerType /\ ledger.history = <<>> /\ ledger.numTransactions = 0
  BY EmptyLedgerType DEF Init, EmptyLedger
<1>2. Numbered(ledger)
  BY <1>1 DEF Numbered
<1>3. ledger \in BooksBehind(ledger)
  BY <1>1, <1>2, BehindItself
<1>4. book \in [Backups -> BooksBehind(ledger)]
  BY <1>3 DEF Init
<1>5. chan \in [Backups -> Seq(SoundPackets(ledger))]
  BY DEF Init
<1>6. QED
  BY <1>1, <1>2, <1>3, <1>4, <1>5, ReplicationAssumption DEF Init, IInv

\* The primary serves a client.
LEMMA ServiceKeeps ==
  ASSUME IInv, \/ \E c \in Clients : addClient(c)
               \/ \E s, d \in Clients, v \in Values : \E n \in 1..MaxSeqn[s] :
                    processTransaction(s, d, v, n)
  PROVE  IInv'
<1>1. ledger \in LedgerType /\ Numbered(ledger)
  BY DEF IInv
<1>2. ASSUME NEW c \in Clients, addClient(c)
      PROVE  IInv'
  <2>1. ledger' \in LedgerType /\ Numbered(ledger') /\ Grows(ledger, ledger')
    BY <1>1, <1>2, RegistrationGrows DEF addClient
  <2>2. ClientUpdate(ledger', c) \in SoundPackets(ledger')
    BY <2>1, BehindItself, ClientUpdateSound
  <2>3. chan' = chan \/ \E m \in SoundPackets(ledger') : propagate(m)
    BY <1>2, <2>2 DEF addClient
  <2>4. UNCHANGED <<backup_servers, syncing, snapshot, book, overtaken, faults>>
    BY <1>2 DEF addClient
  <2>5. QED
    BY <2>1, <2>3, <2>4, InvAfterGrowth DEF IInv
<1>3. ASSUME NEW s \in Clients, NEW d \in Clients, NEW v \in Values, NEW n \in 1..MaxSeqn[s],
             processTransaction(s, d, v, n)
      PROVE  IInv'
  <2> DEFINE r == handleTransactionLogic(ledger, s, d, v, n)
  <2>1. v \in Int /\ n \in Nat
    BY ReplicationAssumption
  <2>2. /\ r.ledger \in LedgerType /\ Numbered(r.ledger) /\ Grows(ledger, r.ledger)
        /\ r.status = "SUCCESS" => StateUpdate(r.ledger) \in SoundPackets(r.ledger)
    BY <1>1, <2>1, TransactionGrows
  <2>3. /\ ledger' = r.ledger
        /\ chan' = chan \/ (r.status = "SUCCESS" /\ propagate(StateUpdate(ledger')))
        /\ overtaken' \in {overtaken, overtaken \cup {b \in syncing : backup_servers[b] = 1}}
        /\ UNCHANGED <<backup_servers, syncing, snapshot, book, faults>>
    BY <1>3 DEF processTransaction
  <2> HIDE DEF r
  <2>4. chan' = chan \/ \E m \in SoundPackets(ledger') : propagate(m)
    BY <2>2, <2>3
  <2>5. overtaken' \in SUBSET Backups
    BY <2>3 DEF IInv
  <2>6. QED
    BY <2>2, <2>3, <2>4, <2>5, InvAfterGrowth DEF IInv
<1>4. QED
  BY <1>2, <1>3

\* The primary enlists a backup or sends it a part of the snapshot.
LEMMA SynchronisationKeeps ==
  ASSUME IInv, NEW b \in Backups,
         registerBackup(b) \/ sendClientSnapshot(b) \/ sendHistorySnapshot(b)
  PROVE  IInv'
<1>1. /\ ledger \in LedgerType /\ Numbered(ledger) /\ snapshot \in BooksBehind(ledger)
      /\ chan \in [Backups -> Seq(SoundPackets(ledger))]
  BY DEF IInv
<1>2. ASSUME NEW m \in SoundPackets(ledger), chan' = [chan EXCEPT ![b] = Append(@, m)]
      PROVE  chan' \in [Backups -> Seq(SoundPackets(ledger))]
  <2>1. Append(chan[b], m) \in Seq(SoundPackets(ledger))
    BY <1>1, AppendProperties
  <2>2. QED
    BY <1>1, <1>2, <2>1
<1>3. CASE registerBackup(b)
  <2>1. snapshot' \in BooksBehind(ledger) /\ syncing' \in SUBSET Backups
    BY <1>1, <1>3, BehindItself, SendOnType DEF registerBackup
  <2>2. backup_servers' \in [Backups -> Nat]
    BY <1>3 DEF registerBackup, IInv
  <2>3. QED
    BY <1>3, <2>1, <2>2 DEF registerBackup, IInv
<1>4. CASE sendClientSnapshot(b)
  <2>1. PICK c \in snapshot.registered :
          /\ chan' = [chan EXCEPT ![b] = Append(@, ClientUpdate(snapshot, c))]
          /\ SendOn(b, [snapshot EXCEPT !.registered = @ \ {c}])
    BY <1>4 DEF sendClientSnapshot
  <2>2. c \in Clients
    BY <1>1, FieldTypes DEF BooksBehind
  <2>3. snapshot' \in BooksBehind(ledger) /\ syncing' \in SUBSET Backups
    BY <1>1, <2>1, RestOfSnapshot, SendOnType
  <2>4. chan' \in [Backups -> Seq(SoundPackets(ledger))]
    BY <1>1, <1>2, <2>1, <2>2, ClientUpdateSound
  <2>5. QED
    BY <1>4, <2>3, <2>4 DEF sendClientSnapshot, IInv
<1>5. CASE sendHistorySnapshot(b)
  <2>1. snapshot.history # <<>>
    BY <1>5 DEF sendHistorySnapshot
  <2>2. snapshot' \in BooksBehind(ledger) /\ syncing' \in SUBSET Backups
    BY <1>1, <1>5, <2>1, RestOfSnapshot, SendOnType DEF sendHistorySnapshot
  <2>3. chan' \in [Backups -> Seq(SoundPackets(ledger))]
    BY <1>1, <1>2, <1>5, <2>1, RestOfSnapshot DEF sendHistorySnapshot
  <2>4. QED
    BY <1>5, <2>2, <2>3 DEF sendHistorySnapshot, IInv
<1>6. QED
  BY <1>3, <1>4, <1>5

\* A backup handles a packet or a fault befalls it: its book is replaced by one
\* behind the primary, and packets only leave its channel.
LEMMA BackupKeeps ==
  ASSUME IInv, NEW b \in Backups,
         \/ receive(b) \/ Restart(b)
         \/ \E i \in DOMAIN chan[b] : Lose(b, i) \/ Copy(b, i) \/ Overtake(b, i)
  PROVE  IInv'
<1> DEFINE S == SoundPackets(ledger)
           B == BooksBehind(ledger)
<1>1. /\ ledger \in LedgerType /\ book \in [Backups -> B] /\ chan \in [Backups -> Seq(S)]
      /\ chan[b] \in Seq(S) /\ book[b] \in B
  BY DEF IInv
<1> HIDE DEF S, B
<1>2. ASSUME NEW m \in S, Handle(b, m)
      PROVE  book' \in [Backups -> B]
  <2>1. PICK L \in Handled(book[b], m) : book' = [book EXCEPT ![b] = L]
    BY <1>2 DEF Handle
  <2>2. L \in B
    BY <1>1, <2>1, HandledBehind DEF S, B
  <2>3. QED
    BY <1>1, <2>1, <2>2
<1>3. ASSUME NEW s \in Seq(S), chan' = [chan EXCEPT ![b] = s]
      PROVE  chan' \in [Backups -> Seq(S)]
  BY <1>1, <1>3
<1>4. ASSUME book' \in [Backups -> B], chan' \in [Backups -> Seq(S)],
             faults' \in [Backups -> 0..MaxFaults],
             UNCHANGED <<ledger, backup_servers, syncing, snapshot, overtaken>>
      PROVE  IInv'
  BY <1>4 DEF IInv, S, B
<1>5. ASSUME Fault(b)
      PROVE  /\ faults' \in [Backups -> 0..MaxFaults]
             /\ UNCHANGED <<ledger, backup_servers, syncing, snapshot, overtaken>>
  <2>1. faults[b] + 1 \in 0..MaxFaults
    BY <1>5, ReplicationAssumption DEF Fault, IInv
  <2>2. QED
    BY <1>5, <2>1 DEF Fault, IInv
<1>6. CASE receive(b)
  <2>1. chan[b] # <<>> /\ Handle(b, Head(chan[b])) /\ chan' = [chan EXCEPT ![b] = Tail(chan[b])]
    BY <1>6 DEF receive
  <2>2. Head(chan[b]) \in S /\ Tail(chan[b]) \in Seq(S)
    BY <1>1, <2>1, HeadTailProperties
  <2>3. book' \in [Backups -> B] /\ chan' \in [Backups -> Seq(S)]
    BY <1>2, <1>3, <2>1, <2>2
  <2>4. QED
    BY <1>4, <1>6, <2>3 DEF receive, IInv
<1>7. CASE Restart(b)
  <2>1. EmptyLedger \in B
    <3>1. EmptyLedger.history = <<>> /\ \A c \in Clients : EmptyLedger.lastReq[c] = 0
      BY DEF EmptyLedger
    <3>2. \A c \in Clients : ledger.lastReq[c] \in Nat
      BY <1>1, FieldTypes
    <3>3. QED
      BY <3>1, <3>2, EmptyLedgerType DEF B, BooksBehind, Behind
  <2>2. book' \in [Backups -> B] /\ chan' = chan
    BY <1>1, <1>7, <2>1 DEF Restart
  <2>3. QED
    BY <1>1, <1>4, <1>5, <1>7, <2>2 DEF Restart
<1>8. ASSUME NEW i \in DOMAIN chan[b], Lose(b, i) \/ Copy(b, i) \/ Overtake(b, i)
      PROVE  IInv'
  <2>1. Without(chan[b], i) \in Seq(S) /\ chan[b][i] \in S
    BY <1>1, WithoutType
  <2>2. Fault(b)
    BY <1>8 DEF Lose, Copy, Overtake
  <2>3. book' = book \/ Handle(b, chan[b][i])
    BY <1>8 DEF Lose, Copy, Overtake
  <2>4. chan' = chan \/ chan' = [chan EXCEPT ![b] = Without(chan[b], i)]
    BY <1>8 DEF Lose, Copy, Overtake
  <2>5. book' \in [Backups -> B]
    BY <1>1, <1>2, <2>1, <2>3
  <2>6. chan' \in [Backups -> Seq(S)]
    BY <1>1, <1>3, <2>1, <2>4
  <2>7. QED
    BY <1>4, <1>5, <2>2, <2>5, <2>6
<1>9. QED
  BY <1>6, <1>7, <1>8

LEMMA NextInv == IInv /\ [Next]_vars => IInv'
<1> SUFFICES ASSUME IInv, [Next]_vars PROVE IInv'
  OBVIOUS
<1>1. CASE UNCHANGED vars
  BY <1>1 DEF vars, IInv
<1>2. CASE Next
  BY <1>2, ServiceKeeps, SynchronisationKeeps, BackupKeeps DEF Next
<1>3. QED
  BY <1>1, <1>2

\* The parts of the state stay of their types, whatever the faults.
THEOREM ReplicationTypeCorrect == Spec => []TypeOK
<1>1. IInv => TypeOK
  <2> SUFFICES ASSUME IInv PROVE TypeOK
    OBVIOUS
  <2>1. ASSUME NEW b \in Backups
        PROVE  book[b] \in LedgerType /\ chan[b] \in Seq(Updates)
    <3>1. book[b] \in BooksBehind(ledger) /\ chan[b] \in Seq(SoundPackets(ledger))
      BY DEF IInv
    <3>2. SoundPackets(ledger) \subseteq Updates
      BY DEF SoundPackets
    <3>3. QED
      BY <3>1, <3>2, SeqMonotonic DEF BooksBehind
  <2>2. book \in [Backups -> LedgerType] /\ chan \in [Backups -> Seq(Updates)]
    BY <2>1 DEF IInv
  <2>3. QED
    BY <2>2 DEF IInv, TypeOK, BooksBehind
<1>2. QED
  BY <1>1, InitInv, NextInv, PTL DEF Spec

\* For any clients, backups and amounts, and any number of lost, copied and
\* overtaken packets, restarts and registrations: no backup holds a request number or
\* an entry of the history that the primary does not.
THEOREM BackupsNeverAhead == Spec => []BackupNeverAhead
<1>1. IInv => BackupNeverAhead
  BY DEF IInv, BackupNeverAhead, BooksBehind
<1>2. QED
  BY <1>1, InitInv, NextInv, PTL DEF Spec

-----------------------------------------------------------------------------
(* Counting in sequences.                                                  *)

At(s, A) == {i \in DOMAIN s : s[i] \in A}

\* How many elements of s are in A.
Count(s, A) == Cardinality(At(s, A))

LEMMA AtFinite ==
  ASSUME NEW S, NEW s \in Seq(S), NEW A
  PROVE  /\ At(s, A) \subseteq 1..Len(s) /\ Len(s) \in Nat
         /\ IsFiniteSet(At(s, A)) /\ Count(s, A) \in Nat
<1>1. DOMAIN s = 1..Len(s) /\ Len(s) \in Nat
  BY LenProperties
<1>2. At(s, A) \subseteq 1..Len(s)
  BY <1>1 DEF At
<1>3. IsFiniteSet(1..Len(s))
  BY <1>1, FS_Interval
<1>4. IsFiniteSet(At(s, A))
  BY <1>2, <1>3, FS_Subset
<1>5. QED
  BY <1>1, <1>2, <1>4, FS_CardinalityType DEF Count

LEMMA CountNone ==
  ASSUME NEW s, NEW A, \A i \in DOMAIN s : s[i] \notin A
  PROVE  Count(s, A) = 0
<1>1. At(s, A) = {}
  BY DEF At
<1>2. QED
  BY <1>1, FS_EmptySet DEF Count

LEMMA CountAppend ==
  ASSUME NEW S, NEW s \in Seq(S), NEW e \in S, NEW A
  PROVE  Count(Append(s, e), A) = Count(s, A) + (IF e \in A THEN 1 ELSE 0)
<1> DEFINE t == Append(s, e)
           n == Len(s)
<1>1. /\ t \in Seq(S) /\ Len(t) = n + 1 /\ n \in Nat
      /\ \A i \in 1..n : t[i] = s[i]
      /\ t[n + 1] = e
      /\ DOMAIN s = 1..n /\ DOMAIN t = 1..(n + 1)
  BY AppendProperties, LenProperties
<1> HIDE DEF t, n
<1>2. At(t, A) = IF e \in A THEN At(s, A) \cup {n + 1} ELSE At(s, A)
  <2>1. 1..(n + 1) = (1..n) \cup {n + 1}
    BY <1>1
  <2>2. QED
    BY <1>1, <2>1 DEF At
<1>3. /\ IsFiniteSet(At(s, A)) /\ n + 1 \notin At(s, A) /\ Count(s, A) \in Nat
  <2>1. At(s, A) \subseteq 1..n /\ IsFiniteSet(At(s, A)) /\ Count(s, A) \in Nat
    BY AtFinite DEF n
  <2>2. n + 1 \notin 1..n
    BY <1>1
  <2>3. QED
    BY <2>1, <2>2
<1>4. Cardinality(At(s, A) \cup {n + 1}) = Cardinality(At(s, A)) + 1
  BY <1>3, FS_AddElement
<1>5. QED
  BY <1>2, <1>3, <1>4 DEF Count, t

\* The first element, and those that follow.
LEMMA CountTail ==
  ASSUME NEW S, NEW s \in Seq(S), s # <<>>, NEW A
  PROVE  Count(s, A) = Count(Tail(s), A) + (IF Head(s) \in A THEN 1 ELSE 0)
<1> DEFINE t == Tail(s)
           n == Len(s)
           X == At(s, A) \ {1}
           f == [i \in At(t, A) |-> i + 1]
<1>1. /\ t \in Seq(S) /\ Len(t) = n - 1 /\ n \in Nat /\ n # 0
      /\ \A i \in 1..(n - 1) : t[i] = s[i + 1]
      /\ Head(s) = s[1]
      /\ DOMAIN s = 1..n /\ DOMAIN t = 1..(n - 1)
  BY HeadTailProperties, LenProperties, EmptySeq
<1> HIDE DEF t, n
<1>2. /\ At(s, A) \subseteq 1..n /\ IsFiniteSet(At(s, A)) /\ Count(s, A) \in Nat
      /\ At(t, A) \subseteq 1..(n - 1) /\ IsFiniteSet(At(t, A)) /\ Count(t, A) \in Nat
  <2>1. At(s, A) \subseteq 1..n /\ IsFiniteSet(At(s, A)) /\ Count(s, A) \in Nat
    BY AtFinite DEF n
  <2>2. At(t, A) \subseteq 1..Len(t) /\ IsFiniteSet(At(t, A)) /\ Count(t, A) \in Nat
    BY <1>1, AtFinite
  <2>3. QED
    BY <1>1, <2>1, <2>2
<1>3. \A i \in 1..(n - 1) : i \in At(t, A) <=> i + 1 \in X
  BY <1>1 DEF At
<1>4. \A j \in X : j - 1 \in 1..(n - 1) /\ (j - 1) + 1 = j
  BY <1>1, <1>2
<1>5. f \in Bijection(At(t, A), X)
  <2> HIDE DEF X
  <2>1. f \in [At(t, A) -> X]
    BY <1>2, <1>3
  <2>2. \A i, j \in At(t, A) : f[i] = f[j] => i = j
    BY <1>1, <1>2
  <2>3. \A j \in X : \E i \in At(t, A) : f[i] = j
    <3>1. ASSUME NEW j \in X PROVE \E i \in At(t, A) : f[i] = j
      <4>1. j - 1 \in At(t, A)
        BY <1>3, <1>4
      <4>2. f[j - 1] = j
        BY <1>4, <4>1
      <4>3. QED
        BY <4>1, <4>2
    <3>2. QED
      BY <3>1
  <2> HIDE DEF f
  <2>4. QED
    BY <2>1, <2>2, <2>3 DEF Bijection, Injection, Surjection, IsInjective
<1>6. Cardinality(X) = Cardinality(At(t, A))
  <2> HIDE DEF f, X
  <2> QED BY <1>2, <1>5, FS_Bijection DEF ExistsBijection
<1>7. Cardinality(X) = IF 1 \in At(s, A) THEN Cardinality(At(s, A)) - 1 ELSE Cardinality(At(s, A))
  BY <1>2, FS_RemoveElement
<1>8. 1 \in At(s, A) <=> Head(s) \in A
  BY <1>1 DEF At
<1> HIDE DEF X
<1>9. QED
  BY <1>2, <1>6, <1>7, <1>8 DEF Count, t

\* n copies of an element at the end.
LEMMA CountCopies ==
  ASSUME NEW S, NEW s \in Seq(S), NEW e \in S, NEW n \in Nat, NEW A
  PROVE  Count(s \o [k \in 1..n |-> e], A) = Count(s, A) + (IF e \in A THEN n ELSE 0)
<1> DEFINE c == [k \in 1..n |-> e]
           t == s \o c
           l == Len(s)
<1>1. c \in Seq(S) /\ Len(c) = n /\ \A k \in 1..n : c[k] = e
  OBVIOUS
<1>2. l \in Nat /\ DOMAIN s = 1..l
  BY LenProperties
<1> HIDE DEF c
<1>3. /\ t \in Seq(S) /\ Len(t) = l + n
      /\ \A i \in 1..(l + n) : t[i] = IF i <= l THEN s[i] ELSE c[i - l]
  BY <1>1, ConcatProperties
<1>4. DOMAIN t = 1..(l + n)
  BY <1>3, LenProperties
<1> HIDE DEF l, t
<1>5. \A i \in (l + 1)..(l + n) : t[i] = e
  <2>1. \A i \in (l + 1)..(l + n) : i \in 1..(l + n) /\ ~(i <= l) /\ i - l \in 1..n
    BY <1>2
  <2>2. QED
    BY <1>1, <1>3, <2>1
<1>6. \A i \in 1..l : t[i] = s[i]
  BY <1>2, <1>3
<1>7. 1..(l + n) = (1..l) \cup ((l + 1)..(l + n))
  BY <1>2
<1>8. At(t, A) = IF e \in A THEN At(s, A) \cup ((l + 1)..(l + n)) ELSE At(s, A)
  BY <1>2, <1>4, <1>5, <1>6, <1>7 DEF At
<1>9. IsFiniteSet(At(s, A)) /\ At(s, A) \subseteq 1..l /\ Count(s, A) \in Nat
  BY AtFinite DEF l
<1>10. IsFiniteSet((l + 1)..(l + n)) /\ Cardinality((l + 1)..(l + n)) = n
  <2>1. Cardinality((l + 1)..(l + n)) = IF l + 1 > l + n THEN 0 ELSE (l + n) - (l + 1) + 1
    BY <1>2, FS_Interval
  <2>2. IsFiniteSet((l + 1)..(l + n))
    BY <1>2, FS_Interval
  <2>3. QED
    BY <1>2, <2>1, <2>2
<1>11. At(s, A) \cap ((l + 1)..(l + n)) = {}
  BY <1>2, <1>9
<1>12. Cardinality(At(s, A) \cup ((l + 1)..(l + n))) = Cardinality(At(s, A)) + n
  <2> DEFINE E == (l + 1)..(l + n)
  <2>1. IsFiniteSet(E) /\ At(s, A) \cap E = {} /\ Cardinality(E) = n
    BY <1>10, <1>11
  <2> HIDE DEF E
  <2>2. Cardinality(At(s, A) \cup E)
          = Cardinality(At(s, A)) + Cardinality(E) - Cardinality(At(s, A) \cap E)
    BY <1>9, <2>1, FS_Union
  <2>3. Cardinality(At(s, A) \cup E) = Cardinality(At(s, A)) + n
    <3>1. Cardinality(At(s, A)) \in Nat
      BY <1>9 DEF Count
    <3>2. Cardinality(At(s, A) \cap E) = 0
      BY <2>1, FS_EmptySet
    <3>3. QED
      BY <2>1, <2>2, <3>1, <3>2
  <2>4. QED
    BY <2>3 DEF E
<1>13. QED
  BY <1>8, <1>9, <1>12 DEF Count, t, c

-----------------------------------------------------------------------------
(* What becomes of a transaction on its way to a backup.                   *)

\* The packets that bring tx.
Bringing(tx) == {m \in Updates : m.type # "ADD_CLIENT_UPDATE" /\ m.transaction = tx}

\* What the snapshot still holds for b.
Left(b) == IF b \in syncing THEN snapshot.history ELSE <<>>

Copies(h, q, l, tx) == Count(h, {tx}) + Count(q, Bringing(tx)) + Count(l, {tx})

\* One backup at a time is sent a snapshot.
OneAtATime == \A x, y \in syncing : x = y

\* The backup's history, channel and part of the snapshot, when it is free of faults.
Counted(b) ==
  /\ book[b].history \in Seq(Transaction)
  /\ chan[b] \in Seq(Updates)
  /\ Left(b) \in Seq(Transaction)
  /\ \A tx : CopiesOf(b, tx) = Copies(book[b].history, chan[b], Left(b), tx)

AllCounted == \A b \in Backups : Counted(b)

LEMMA CopiesCounted == IInv => AllCounted
<1> SUFFICES ASSUME IInv, NEW b \in Backups PROVE Counted(b)
  BY DEF AllCounted
<1>1. book[b].history \in Seq(Transaction) /\ snapshot.history \in Seq(Transaction)
  BY FieldTypes DEF IInv, BooksBehind
<1>2. chan[b] \in Seq(Updates)
  <2>1. chan[b] \in Seq(SoundPackets(ledger)) /\ SoundPackets(ledger) \subseteq Updates
    BY DEF IInv, SoundPackets
  <2>2. QED
    BY <2>1, SeqMonotonic
<1>3. Left(b) \in Seq(Transaction)
  BY <1>1 DEF Left
<1>4. ASSUME NEW tx
      PROVE  CopiesOf(b, tx) = Copies(book[b].history, chan[b], Left(b), tx)
  <2>1. \A s : Places(s, tx) = At(s, {tx})
    BY DEF Places, At
  <2>2. Carriers(chan[b], tx) = At(chan[b], Bringing(tx))
    <3>1. \A i \in DOMAIN chan[b] : chan[b][i] \in Updates
      BY <1>2
    <3>2. QED
      BY <3>1 DEF Carriers, At, Bringing
  <2>3. (IF b \in syncing THEN Cardinality(Places(snapshot.history, tx)) ELSE 0)
          = Count(Left(b), {tx})
    <3>1. Count(<<>>, {tx}) = 0
      BY CountNone
    <3>2. QED
      BY <2>1, <3>1 DEF Left, Count
  <2>4. QED
    BY <2>1, <2>2, <2>3 DEF CopiesOf, Copies, Count
<1>5. QED
  BY <1>1, <1>2, <1>3, <1>4 DEF Counted

LEMMA CopiesCountedNext == IInv' => AllCounted'
BY CopiesCounted, PTL

\* Handling a packet adds to the history what the packet brings.
LEMMA HandledHistory ==
  ASSUME NEW L \in LedgerType, NEW m \in Updates, NEW N \in Handled(L, m)
  PROVE  N.history = IF m.type = "ADD_CLIENT_UPDATE" THEN L.history
                     ELSE Append(L.history, m.transaction)
<1>1. m.type \in {"ADD_CLIENT_UPDATE", "ADD_HISTORY_ENTRY", "STATE_UPDATE"}
  BY DEF Updates, ClientUpdates, HistoryEntries, StateUpdates
<1>2. handleClientUpdate(L, m).history = L.history
  BY DEF handleClientUpdate, LedgerType
<1>3. handleHistoryEntry(L, m).history = Append(L.history, m.transaction)
  BY DEF handleHistoryEntry, LedgerType
<1>4. ASSUME NEW M \in handleStateUpdate(L, m)
      PROVE  M.history = Append(L.history, m.transaction)
  <2> DEFINE h == Append(L.history, m.transaction)
             E == [L EXCEPT !.history = h, !.numTransactions = L.numTransactions + 1,
                            !.totalTransferred = L.totalTransferred + m.transaction.value]
             A == [E EXCEPT !.registered = L.registered \cup {m.transaction.source, m.transaction.dest}]
  <2>1. E = handleHistoryEntry(L, m)
    BY DEF handleHistoryEntry
  <2>2. \E x, y : M = [A EXCEPT !.balance = x] \/ M = [A EXCEPT !.balance = x, !.lastReq = y]
    BY <2>1 DEF handleStateUpdate
  <2>3. /\ A.history = h
        /\ DOMAIN A = {"registered", "balance", "lastReq", "history", "numTransactions",
                       "totalTransferred", "totalBalance"}
    BY DEF LedgerType
  <2> HIDE DEF A, h
  <2>4. M.history = h
    BY <2>2, <2>3
  <2>5. QED
    BY <2>4 DEF h
<1>5. QED
  BY <1>1, <1>2, <1>3, <1>4 DEF Handled

\* The packet is sent, to one backup or as often as the address is enlisted.
LEMMA CopiesAfterAppend ==
  ASSUME NEW h \in Seq(Transaction), NEW q \in Seq(Updates), NEW l \in Seq(Transaction),
         NEW m \in Updates, NEW tx
  PROVE  Copies(h, Append(q, m), l, tx)
           = Copies(h, q, l, tx) + (IF m \in Bringing(tx) THEN 1 ELSE 0)
<1>1. /\ Count(h, {tx}) \in Nat /\ Count(q, Bringing(tx)) \in Nat /\ Count(l, {tx}) \in Nat
  BY AtFinite
<1>2. Count(Append(q, m), Bringing(tx))
        = Count(q, Bringing(tx)) + (IF m \in Bringing(tx) THEN 1 ELSE 0)
  BY CountAppend
<1>3. QED
  BY <1>1, <1>2 DEF Copies

Sent(q, m, n) == q \o [k \in 1..n |-> m]

LEMMA CopiesAfterPropagate ==
  ASSUME NEW h \in Seq(Transaction), NEW q \in Seq(Updates), NEW l \in Seq(Transaction),
         NEW m \in Updates, NEW n \in Nat, NEW tx
  PROVE  Copies(h, Sent(q, m, n), l, tx)
           = Copies(h, q, l, tx) + (IF m \in Bringing(tx) THEN n ELSE 0)
<1>1. /\ Count(h, {tx}) \in Nat /\ Count(q, Bringing(tx)) \in Nat /\ Count(l, {tx}) \in Nat
  BY AtFinite
<1>2. Count(Sent(q, m, n), Bringing(tx))
        = Count(q, Bringing(tx)) + (IF m \in Bringing(tx) THEN n ELSE 0)
  BY CountCopies DEF Sent
<1>3. QED
  BY <1>1, <1>2 DEF Copies

\* SendOn leaves to b what is left, and nothing to others.
LEMMA LeftAfterSendOn ==
  ASSUME NEW b \in Backups, NEW rest, rest.history \in Seq(Transaction), SendOn(b, rest),
         syncing \subseteq {b}
  PROVE  /\ Left(b)' = rest.history
         /\ \A x : x # b => Left(x)' = <<>> /\ Left(x) = <<>>
         /\ OneAtATime'
<1>1. CASE rest.registered = {} /\ rest.history = <<>>
  BY <1>1 DEF SendOn, Left, OneAtATime
<1>2. CASE ~(rest.registered = {} /\ rest.history = <<>>)
  BY <1>2 DEF SendOn, Left, OneAtATime
<1>3. QED
  BY <1>1, <1>2

\* A transaction that is recorded as the next is nowhere yet.
LEMMA NewIsNowhere ==
  ASSUME IInv, NEW b \in Backups, NEW tx, tx.id = Len(ledger.history) + 1
  PROVE  Copies(book[b].history, chan[b], Left(b), tx) = 0
<1>1. ledger \in LedgerType /\ DOMAIN ledger.history = 1..Len(ledger.history)
      /\ Len(ledger.history) \in Nat
  BY FieldTypes DEF IInv
<1>2. ~Recorded(tx, ledger)
  BY <1>1 DEF Recorded
<1>3. \A i \in DOMAIN book[b].history : book[b].history[i] \notin {tx}
  BY <1>2 DEF IInv, BooksBehind, Behind
<1>4. \A i \in DOMAIN Left(b) : Left(b)[i] \notin {tx}
  <2>1. CASE b \in syncing
    BY <1>2, <2>1 DEF Left, IInv, BooksBehind, Behind
  <2>2. CASE b \notin syncing
    BY <2>2 DEF Left
  <2>3. QED
    BY <2>1, <2>2
<1>5. \A i \in DOMAIN chan[b] : chan[b][i] \notin Bringing(tx)
  <2>1. chan[b] \in Seq(SoundPackets(ledger))
    BY DEF IInv
  <2>2. \A i \in DOMAIN chan[b] : chan[b][i] \in SoundPackets(ledger)
    <3> HIDE DEF SoundPackets
    <3> QED BY <2>1, LenProperties, ElementOfSeq
  <2>3. QED
    BY <1>2, <2>2 DEF SoundPackets, Sound, Bringing
<1>6. QED
  BY <1>3, <1>4, <1>5, CountNone DEF Copies

-----------------------------------------------------------------------------
(* Nothing is forgotten.                                                   *)

Forgetless == IInv /\ OneAtATime /\ NothingForgotten

\* What must be shown of a step that leaves the primary's history alone.
LEMMA ForgetlessStep ==
  ASSUME Forgetless, IInv', OneAtATime', ledger'.history = ledger.history,
         \A b \in Backups : faults'[b] = 0 =>
            /\ faults[b] = 0
            /\ \A i \in DOMAIN ledger.history :
                 LET tx == ledger.history[i] IN
                   Copies(book'[b].history, chan'[b], Left(b)', tx) - backup_servers'[b]
                     = Copies(book[b].history, chan[b], Left(b), tx) - backup_servers[b]
  PROVE  Forgetless'
<1> SUFFICES ASSUME NEW b \in Backups, faults'[b] = 0, NEW i \in DOMAIN ledger.history
             PROVE  CopiesOf(b, ledger.history[i])' = backup_servers'[b]
  BY DEF Forgetless, NothingForgotten
<1> DEFINE tx == ledger.history[i]
           c == Copies(book[b].history, chan[b], Left(b), tx)
           d == Copies(book'[b].history, chan'[b], Left(b)', tx)
<1>1. CopiesOf(b, tx) = c /\ c \in Nat
  <2>1. /\ book[b].history \in Seq(Transaction)
        /\ chan[b] \in Seq(Updates)
        /\ Left(b) \in Seq(Transaction)
        /\ CopiesOf(b, tx) = c
    BY CopiesCounted DEF Forgetless, AllCounted, Counted
  <2>2. QED
    BY <2>1, AtFinite DEF Copies
<1>2. CopiesOf(b, ledger.history[i])' = d /\ d \in Nat
  <2>1. Counted(b)'
    BY CopiesCountedNext DEF AllCounted
  <2>2. /\ book'[b].history \in Seq(Transaction)
        /\ chan'[b] \in Seq(Updates)
        /\ Left(b)' \in Seq(Transaction)
        /\ CopiesOf(b, ledger.history[i])' = d
    BY <2>1 DEF Counted
  <2>3. QED
    BY <2>2, AtFinite DEF Copies
<1>3. c = backup_servers[b] /\ d - backup_servers'[b] = c - backup_servers[b]
  BY <1>1 DEF Forgetless, NothingForgotten
<1>4. backup_servers[b] \in Nat /\ backup_servers'[b] \in Nat
  BY DEF IInv, Forgetless
<1> HIDE DEF c, d
<1>5. QED
  BY <1>2, <1>3, <1>4

\* The primary serves a client: an update about the client is no transaction, and a
\* new transaction goes out once for each time a backup is enlisted.
LEMMA ForgetlessService ==
  ASSUME Forgetless, \/ \E c \in Clients : addClient(c)
                     \/ \E s, d \in Clients, v \in Values : \E n \in 1..MaxSeqn[s] :
                          processTransaction(s, d, v, n)
  PROVE  Forgetless'
<1>1. IInv' /\ ledger \in LedgerType /\ Numbered(ledger)
  BY ServiceKeeps DEF Forgetless, IInv
<1>2. \A b \in Backups : Counted(b) /\ backup_servers[b] \in Nat
  BY CopiesCounted DEF Forgetless, IInv, AllCounted
<1>3. ASSUME NEW m \in Updates, propagate(m), UNCHANGED <<book, syncing, snapshot>>,
             NEW b \in Backups, NEW tx
      PROVE  Copies(book'[b].history, chan'[b], Left(b)', tx)
               = Copies(book[b].history, chan[b], Left(b), tx)
                   + (IF m \in Bringing(tx) THEN backup_servers[b] ELSE 0)
  <2>1. /\ chan'[b] = Sent(chan[b], m, backup_servers[b])
        /\ book'[b] = book[b] /\ Left(b)' = Left(b)
    BY <1>3 DEF propagate, Sent, Left
  <2>2. /\ book[b].history \in Seq(Transaction) /\ chan[b] \in Seq(Updates)
        /\ Left(b) \in Seq(Transaction) /\ backup_servers[b] \in Nat
    BY <1>2 DEF Counted
  <2>3. Copies(book[b].history, Sent(chan[b], m, backup_servers[b]), Left(b), tx)
          = Copies(book[b].history, chan[b], Left(b), tx)
              + (IF m \in Bringing(tx) THEN backup_servers[b] ELSE 0)
    BY <2>2, CopiesAfterPropagate
  <2>4. QED
    BY <2>1, <2>3
<1>4. ASSUME NEW c \in Clients, addClient(c)
      PROVE  Forgetless'
  <2>1. /\ ledger'.history = ledger.history
        /\ UNCHANGED <<backup_servers, syncing, snapshot, book, faults>>
        /\ chan' = chan \/ propagate(ClientUpdate(ledger', c))
    BY <1>1, <1>4, RegistrationEffect DEF addClient
  <2>2. ClientUpdate(ledger', c) \in Updates /\ \A tx : ClientUpdate(ledger', c) \notin Bringing(tx)
    <3>1. ledger' \in BooksBehind(ledger')
      BY <1>1, BehindItself DEF IInv
    <3>2. ClientUpdate(ledger', c) \in SoundPackets(ledger')
      BY <1>1, <3>1, ClientUpdateSound DEF IInv
    <3>3. QED
      BY <3>2 DEF SoundPackets, Bringing, ClientUpdate
  <2>3. ASSUME NEW b \in Backups, NEW tx
        PROVE  Copies(book'[b].history, chan'[b], Left(b)', tx)
                 = Copies(book[b].history, chan[b], Left(b), tx)
    <3>1. CASE chan' = chan
      BY <2>1, <3>1 DEF Left
    <3>2. CASE propagate(ClientUpdate(ledger', c))
      <4>1. Copies(book[b].history, chan[b], Left(b), tx) \in Nat
        BY <1>2, AtFinite DEF Counted, Copies
      <4>2. QED
        BY <1>3, <2>1, <2>2, <3>2, <4>1
    <3>3. QED
      BY <2>1, <3>1, <3>2
  <2>4. OneAtATime'
    BY <2>1 DEF Forgetless, OneAtATime
  <2>5. QED
    BY <1>1, <2>1, <2>3, <2>4, ForgetlessStep
<1>5. ASSUME NEW s \in Clients, NEW d \in Clients, NEW v \in Values, NEW n \in 1..MaxSeqn[s],
             processTransaction(s, d, v, n)
      PROVE  Forgetless'
  <2> DEFINE r == handleTransactionLogic(ledger, s, d, v, n)
             entry == newTransaction(ledger, s, d, v, n)
             m == StateUpdate(ledger')
             h == ledger.history
             g == ledger'.history
  <2>1. UNCHANGED <<backup_servers, syncing, snapshot, book, faults>> /\ ledger' = r.ledger
    BY <1>5 DEF processTransaction
  <2>2. v \in Int /\ n \in Nat
    BY ReplicationAssumption
  <2>3. OneAtATime'
    BY <2>1 DEF Forgetless, OneAtATime
  <2>4. CASE r.status # "SUCCESS"
    <3>1. chan' = chan /\ ledger' = ledger
      BY <1>1, <1>5, <2>1, <2>2, <2>4, StatusEffect DEF processTransaction
    <3>2. \A b \in Backups : Left(b)' = Left(b) /\ book'[b] = book[b]
      BY <2>1 DEF Left
    <3>3. QED
      BY <1>1, <2>1, <2>3, <3>1, <3>2, ForgetlessStep
  <2>5. CASE r.status = "SUCCESS"
    <3>1. propagate(m)
      BY <1>5, <2>5 DEF processTransaction
    <3>2. ledger' = updateAndLogTransaction(executeTransaction(ledger, s, d, v, n), s, d, v, n)
      BY <2>1, <2>5 DEF handleTransactionLogic
    <3>3. g = Append(h, entry)
      <4> HIDE DEF g, h, r, m, entry
      <4>1. ledger \in LedgerType /\ v \in Int /\ n \in Nat
        BY <1>1, <2>2
      <4>2. ledger'.history = Append(ledger.history, newTransaction(ledger, s, d, v, n))
        BY <3>2, <4>1, ExecutionFields
      <4>3. QED
        BY <4>2 DEF g, h, entry
    <3>4. entry.id = Len(h) + 1
      BY <1>1 DEF newTransaction, Numbered
    <3>5. h \in Seq(Transaction) /\ Len(h) \in Nat /\ DOMAIN h = 1..Len(h)
      BY <1>1, FieldTypes
    <3> HIDE DEF entry
    <3>6. /\ Len(g) = Len(h) + 1 /\ DOMAIN g = 1..(Len(h) + 1)
          /\ \A i \in 1..Len(h) : g[i] = h[i]
          /\ g[Len(h) + 1] = entry
      <4> HIDE DEF h, g
      <4> QED BY <3>3, <3>5
    <3>7. m \in SoundPackets(ledger')
      BY <1>1, <2>1, <2>2, <2>5, TransactionGrows
    <3>8. m \in Updates /\ m.type # "ADD_CLIENT_UPDATE" /\ m.transaction = entry
      BY <3>6, <3>7 DEF SoundPackets, StateUpdate
    <3>9. \A tx : m \in Bringing(tx) <=> tx = entry
      BY <3>8 DEF Bringing
    <3> HIDE DEF m, g
    <3>10. ASSUME NEW b \in Backups, faults'[b] = 0, NEW i \in DOMAIN g, NEW tx, tx = g[i]
           PROVE  CopiesOf(b, tx)' = backup_servers'[b]
      <4> DEFINE c == Copies(book[b].history, chan[b], Left(b), tx)
                 e == Copies(book'[b].history, chan'[b], Left(b)', tx)
      <4>1. Counted(b) /\ Counted(b)'
        BY <1>1, <1>2, CopiesCountedNext DEF AllCounted
      <4>2. e = c + (IF tx = entry THEN backup_servers[b] ELSE 0)
        BY <1>3, <2>1, <3>1, <3>8, <3>9
      <4>3. CopiesOf(b, tx)' = e
        BY <4>1 DEF Counted
      <4>4. CASE i = Len(h) + 1
        <5>1. tx = entry
          BY <3>6, <3>10, <4>4
        <5>2. c = 0
          BY <3>4, <5>1, NewIsNowhere DEF Forgetless
        <5> HIDE DEF c, e
        <5>3. QED
          BY <1>2, <2>1, <4>2, <4>3, <5>1, <5>2
      <4>5. CASE i \in 1..Len(h)
        <5>1. tx = h[i] /\ faults[b] = 0
          BY <2>1, <3>6, <3>10, <4>5
        <5>2. c = backup_servers[b]
          BY <3>5, <4>1, <4>5, <5>1 DEF Forgetless, NothingForgotten, Counted
        <5>3. tx # entry
          BY <1>1, <3>4, <3>5, <4>5, <5>1 DEF Numbered
        <5> HIDE DEF c, e
        <5>4. QED
          BY <1>2, <2>1, <4>2, <4>3, <5>2, <5>3
      <4>6. QED
        BY <3>5, <3>6, <3>10, <4>4, <4>5
    <3>11. NothingForgotten'
      <4>1. \A b \in Backups : faults'[b] = 0 =>
              \A i \in DOMAIN ledger'.history :
                CopiesOf(b, ledger.history[i])' = backup_servers'[b]
        BY <3>10 DEF g
      <4>2. QED
        BY <4>1 DEF NothingForgotten
    <3>12. QED
      BY <1>1, <2>3, <3>11 DEF Forgetless
  <2>6. QED
    BY <2>4, <2>5
<1>6. QED
  BY <1>4, <1>5

\* The snapshot: what is enlisted once more gets the whole history once more, and what
\* is sent leaves the snapshot for the channel.
LEMMA ForgetlessSync ==
  ASSUME Forgetless, NEW b \in Backups,
         registerBackup(b) \/ sendClientSnapshot(b) \/ sendHistorySnapshot(b)
  PROVE  Forgetless'
<1>1. IInv' /\ ledger \in LedgerType /\ Numbered(ledger) /\ snapshot \in BooksBehind(ledger)
  BY SynchronisationKeeps DEF Forgetless, IInv
<1>2. \A x \in Backups : Counted(x) /\ backup_servers[x] \in Nat
  BY CopiesCounted DEF Forgetless, IInv, AllCounted
<1>4. syncing \subseteq {b}
  BY DEF Forgetless, OneAtATime, registerBackup, sendClientSnapshot, sendHistorySnapshot
<1>5. /\ ledger' = ledger /\ book' = book /\ faults' = faults
      /\ \A x \in Backups \ {b} : chan'[x] = chan[x] /\ backup_servers'[x] = backup_servers[x]
  BY <1>1 DEF registerBackup, sendClientSnapshot, sendHistorySnapshot, Forgetless, IInv
<1>6. ASSUME NEW rest, rest.history \in Seq(Transaction), SendOn(b, rest),
             \A i \in DOMAIN ledger.history :
               LET tx == ledger.history[i] IN
                 Copies(book[b].history, chan'[b], rest.history, tx) - backup_servers'[b]
                   = Copies(book[b].history, chan[b], Left(b), tx) - backup_servers[b]
      PROVE  Forgetless'
  <2>1. /\ Left(b)' = rest.history
        /\ \A x : x # b => Left(x)' = <<>> /\ Left(x) = <<>>
        /\ OneAtATime'
    BY <1>4, <1>6, LeftAfterSendOn
  <2>2. ASSUME NEW x \in Backups, NEW i \in DOMAIN ledger.history
        PROVE  LET tx == ledger.history[i] IN
                 Copies(book'[x].history, chan'[x], Left(x)', tx) - backup_servers'[x]
                   = Copies(book[x].history, chan[x], Left(x), tx) - backup_servers[x]
    <3>1. CASE x = b
      BY <1>5, <1>6, <2>1, <3>1
    <3>2. CASE x # b
      BY <1>5, <2>1, <3>2
    <3>3. QED
      BY <3>1, <3>2
  <2>3. QED
    BY <1>1, <1>5, <2>1, <2>2, ForgetlessStep
<1> DEFINE h == book[b].history
           q == chan[b]
           n == backup_servers[b]
<1>7. h \in Seq(Transaction) /\ q \in Seq(Updates) /\ Left(b) \in Seq(Transaction) /\ n \in Nat
  BY <1>2 DEF Counted
<1>8. CASE registerBackup(b)
  <2>1. /\ chan'[b] = q /\ backup_servers'[b] = n + 1 /\ SendOn(b, ledger)
        /\ Left(b) = <<>>
    BY <1>8 DEF registerBackup, Left, Forgetless, IInv
  <2>2. ASSUME NEW i \in DOMAIN ledger.history
        PROVE  Count(ledger.history, {ledger.history[i]}) = 1
    <3>1. At(ledger.history, {ledger.history[i]}) = {i}
      BY <1>1 DEF At, Numbered
    <3>2. QED
      BY <3>1, FS_Singleton DEF Count
  <2>3. ASSUME NEW tx
        PROVE  Count(<<>>, {tx}) = 0 /\ Count(h, {tx}) \in Nat /\ Count(q, Bringing(tx)) \in Nat
    <3>1. Count(<<>>, {tx}) = 0
      BY CountNone
    <3>2. QED
      BY <1>7, <3>1, AtFinite
  <2>4. ASSUME NEW i \in DOMAIN ledger.history
        PROVE  LET tx == ledger.history[i] IN
                 Copies(h, chan'[b], ledger.history, tx) - backup_servers'[b]
                   = Copies(h, q, Left(b), tx) - n
    <3> DEFINE tx == ledger.history[i]
    <3>1. /\ Copies(h, chan'[b], ledger.history, tx) = Count(h, {tx}) + Count(q, Bringing(tx)) + 1
          /\ Copies(h, q, Left(b), tx) = Count(h, {tx}) + Count(q, Bringing(tx)) + 0
      BY <2>1, <2>2, <2>3 DEF Copies
    <3>2. Count(h, {tx}) \in Nat /\ Count(q, Bringing(tx)) \in Nat
      BY <2>3
    <3> HIDE DEF tx, h, q, n
    <3>3. Copies(h, chan'[b], ledger.history, tx) - backup_servers'[b]
                   = Copies(h, q, Left(b), tx) - n
      BY <1>7, <2>1, <3>1, <3>2
    <3>4. QED
      BY <3>3 DEF tx
  <2>5. ledger.history \in Seq(Transaction)
    BY <1>1, FieldTypes
  <2>6. QED
    BY <1>6, <2>1, <2>4, <2>5
<1>9. CASE sendClientSnapshot(b)
  <2>1. PICK c \in snapshot.registered :
          /\ chan' = [chan EXCEPT ![b] = Append(@, ClientUpdate(snapshot, c))]
          /\ SendOn(b, [snapshot EXCEPT !.registered = @ \ {c}])
          /\ backup_servers' = backup_servers /\ b \in syncing
    BY <1>9 DEF sendClientSnapshot
  <2> DEFINE m == ClientUpdate(snapshot, c)
             rest == [snapshot EXCEPT !.registered = @ \ {c}]
  <2>2. c \in Clients /\ snapshot \in LedgerType
    BY <1>1, FieldTypes DEF BooksBehind
  <2>3. m \in Updates /\ \A tx : m \notin Bringing(tx)
    <3>1. m \in SoundPackets(ledger)
      BY <1>1, <2>2, ClientUpdateSound
    <3>2. QED
      BY <3>1 DEF SoundPackets, Bringing, ClientUpdate
  <2>4. rest.history = snapshot.history /\ rest.history \in Seq(Transaction)
    BY <2>2 DEF LedgerType
  <2>5. Left(b) = snapshot.history /\ chan'[b] = Append(q, m)
    BY <2>1 DEF Left, Forgetless, IInv
  <2> HIDE DEF m, rest
  <2>6. \A tx : Copies(h, Append(q, m), Left(b), tx) = Copies(h, q, Left(b), tx)
    <3>1. ASSUME NEW tx
          PROVE  Copies(h, Append(q, m), Left(b), tx) = Copies(h, q, Left(b), tx)
      <4> HIDE DEF h, q
      <4>1. Copies(h, Append(q, m), Left(b), tx)
              = Copies(h, q, Left(b), tx) + (IF m \in Bringing(tx) THEN 1 ELSE 0)
        BY <1>7, <2>3, CopiesAfterAppend
      <4>2. Copies(h, q, Left(b), tx) \in Nat
        BY <1>7, AtFinite DEF Copies
      <4>3. QED
        BY <2>3, <4>1, <4>2
    <3>2. QED
      BY <3>1
  <2>7. SendOn(b, rest)
    BY <2>1 DEF rest
  <2>8. QED
    BY <1>6, <2>1, <2>4, <2>5, <2>6, <2>7
<1>10. CASE sendHistorySnapshot(b)
  <2> DEFINE l == snapshot.history
             m == HistoryEntry(Head(l))
             rest == [snapshot EXCEPT !.history = Tail(@)]
  <2>1. /\ chan' = [chan EXCEPT ![b] = Append(@, m)] /\ SendOn(b, rest)
        /\ backup_servers' = backup_servers /\ b \in syncing /\ l # <<>>
    BY <1>10 DEF sendHistorySnapshot
  <2>2. snapshot \in LedgerType /\ l \in Seq(Transaction)
    BY <1>1, FieldTypes DEF BooksBehind
  <2>3. Left(b) = l /\ chan'[b] = Append(q, m)
    BY <2>1 DEF Left, Forgetless, IInv
  <2>4. rest.history = Tail(l) /\ Tail(l) \in Seq(Transaction) /\ Head(l) \in Transaction
    BY <2>1, <2>2, HeadTailProperties DEF LedgerType
  <2>5. m \in Updates /\ \A tx : m \in Bringing(tx) <=> tx = Head(l)
    BY <2>4 DEF HistoryEntry, HistoryEntries, Updates, Bringing
  <2>6. ASSUME NEW tx
        PROVE  Copies(h, Append(q, m), Tail(l), tx) = Copies(h, q, l, tx)
    <3> HIDE DEF h, q, l, m, rest, n
    <3>0. h \in Seq(Transaction) /\ q \in Seq(Updates) /\ Tail(l) \in Seq(Transaction)
          /\ m \in Updates
      BY <1>7, <2>4, <2>5
    <3> DEFINE t == Tail(l)
    <3> HIDE DEF t
    <3>1. Copies(h, Append(q, m), t, tx)
            = Copies(h, q, t, tx) + (IF m \in Bringing(tx) THEN 1 ELSE 0)
      <4>1. t \in Seq(Transaction)
        BY <3>0 DEF t
      <4>2. QED
        BY <3>0, <4>1, CopiesAfterAppend
    <3>2. Count(l, {tx}) = Count(Tail(l), {tx}) + (IF Head(l) \in {tx} THEN 1 ELSE 0)
      BY <2>1, <2>2, CountTail
    <3>3. /\ Count(h, {tx}) \in Nat /\ Count(q, Bringing(tx)) \in Nat
          /\ Count(Tail(l), {tx}) \in Nat
      BY <1>7, <2>4, AtFinite
    <3>4. QED
      BY <2>5, <3>1, <3>2, <3>3 DEF Copies, t
  <2> HIDE DEF m, l, rest
  <2>7. QED
    BY <1>6, <2>1, <2>3, <2>4, <2>6
<1>11. QED
  BY <1>8, <1>9, <1>10

\* A backup that handles a packet moves what it brings from its channel to its history.
LEMMA ForgetlessBackup ==
  ASSUME Forgetless, NEW b \in Backups,
         \/ receive(b) \/ Restart(b)
         \/ \E i \in DOMAIN chan[b] : Lose(b, i) \/ Copy(b, i) \/ Overtake(b, i)
  PROVE  Forgetless'
<1>1. IInv' /\ \A x \in Backups : Counted(x) /\ book[x] \in LedgerType
  BY BackupKeeps, CopiesCounted DEF Forgetless, IInv, AllCounted, BooksBehind
<1>2. UNCHANGED <<ledger, backup_servers, syncing, snapshot>>
  BY DEF receive, Restart, Lose, Copy, Overtake, Fault
<1>3. /\ OneAtATime' /\ \A x : Left(x)' = Left(x)
  BY <1>2 DEF Forgetless, OneAtATime, Left
<1>4. ASSUME NEW x \in Backups \ {b}
      PROVE  book'[x] = book[x] /\ chan'[x] = chan[x] /\ faults'[x] = faults[x]
  BY DEF receive, Restart, Lose, Copy, Overtake, Fault, Handle, Forgetless, IInv
<1>5. CASE Fault(b)
  <2>1. faults[b] \in Nat /\ faults'[b] = faults[b] + 1
    BY <1>5 DEF Fault, Forgetless, IInv
  <2>2. faults'[b] # 0
    BY <2>1
  <2>3. QED
    BY <1>1, <1>2, <1>3, <1>4, <2>2, ForgetlessStep
<1>6. CASE receive(b)
  <2> DEFINE h == book[b].history
             q == chan[b]
             m == Head(q)
  <2>1. PICK L \in Handled(book[b], m) : book' = [book EXCEPT ![b] = L]
    BY <1>6 DEF receive, Handle
  <2>2. q \in Seq(Updates) /\ q # <<>> /\ h \in Seq(Transaction) /\ Left(b) \in Seq(Transaction)
    BY <1>1, <1>6 DEF receive, Counted
  <2>3. chan'[b] = Tail(q) /\ book'[b] = L /\ faults' = faults
    BY <1>6, <2>1 DEF receive, Forgetless, IInv
  <2>4. m \in Updates /\ Tail(q) \in Seq(Updates)
    BY <2>2, HeadTailProperties
  <2>5. L.history = IF m.type = "ADD_CLIENT_UPDATE" THEN h ELSE Append(h, m.transaction)
    BY <1>1, <2>1, <2>4, HandledHistory
  <2> HIDE DEF h, q, m
  <2>6. ASSUME NEW tx
        PROVE  Copies(L.history, Tail(q), Left(b), tx) = Copies(h, q, Left(b), tx)
    <3>1. Count(q, Bringing(tx))
            = Count(Tail(q), Bringing(tx)) + (IF m \in Bringing(tx) THEN 1 ELSE 0)
      BY <2>2, CountTail DEF m
    <3>2. /\ Count(h, {tx}) \in Nat /\ Count(Tail(q), Bringing(tx)) \in Nat
          /\ Count(Left(b), {tx}) \in Nat
      BY <2>2, <2>4, AtFinite
    <3>3. CASE m.type = "ADD_CLIENT_UPDATE"
      <4>1. m \notin Bringing(tx) /\ L.history = h
        BY <2>5, <3>3 DEF Bringing
      <4>2. QED
        BY <3>1, <3>2, <4>1 DEF Copies
    <3>4. CASE m.type # "ADD_CLIENT_UPDATE"
      <4>1. (m \in Bringing(tx) <=> m.transaction = tx) /\ L.history = Append(h, m.transaction)
        BY <2>4, <2>5, <3>4 DEF Bringing
      <4>2. m.transaction \in Transaction
        BY <2>4, <3>4 DEF Updates, ClientUpdates, HistoryEntries, StateUpdates
      <4>3. Count(L.history, {tx}) = Count(h, {tx}) + (IF m.transaction \in {tx} THEN 1 ELSE 0)
        BY <2>2, <4>1, <4>2, CountAppend
      <4>4. QED
        BY <3>1, <3>2, <4>1, <4>3 DEF Copies
    <3>5. QED
      BY <3>3, <3>4
  <2>7. ASSUME NEW x \in Backups, NEW tx
        PROVE  Copies(book'[x].history, chan'[x], Left(x)', tx)
                 = Copies(book[x].history, chan[x], Left(x), tx)
    <3>1. CASE x = b
      BY <1>3, <2>3, <2>6, <3>1 DEF h, q
    <3>2. CASE x # b
      BY <1>3, <1>4, <3>2
    <3>3. QED
      BY <3>1, <3>2
  <2>8. QED
    BY <1>1, <1>2, <1>3, <2>3, <2>7, ForgetlessStep
<1>7. QED
  BY <1>5, <1>6 DEF Restart, Lose, Copy, Overtake

LEMMA ForgetlessAtFirst == Init => Forgetless
<1> SUFFICES ASSUME Init PROVE Forgetless
  OBVIOUS
<1>1. syncing = {} /\ ledger.history = <<>>
  BY DEF Init, EmptyLedger
<1>2. QED
  BY <1>1, InitInv DEF Forgetless, OneAtATime, NothingForgotten

\* Every step keeps it.
LEMMA ForgetlessNext == Forgetless /\ [Next]_vars => Forgetless'
<1>1. ASSUME Forgetless, Next PROVE Forgetless'
  BY <1>1, ForgetlessService, ForgetlessSync, ForgetlessBackup DEF Next
<1>2. ASSUME Forgetless, UNCHANGED vars PROVE Forgetless'
  <2>1. IInv' /\ OneAtATime'
    BY <1>2, NextInv DEF Forgetless, OneAtATime, vars
  <2>2. NothingForgotten'
    BY <1>2 DEF Forgetless, NothingForgotten, CopiesOf, Places, Carriers, vars
  <2>3. QED
    BY <2>1, <2>2 DEF Forgetless
<1>3. QED
  BY <1>1, <1>2

\* The snapshot and the updates fit together, for any clients, backups, amounts and
\* registrations: to a backup that no fault befell each transaction of the primary is
\* brought, or is on its way, exactly once for each time it is enlisted.
THEOREM NoTransactionForgotten == Spec => []NothingForgotten
<1>1. Forgetless => NothingForgotten
  BY DEF Forgetless
<1>2. QED
  BY <1>1, ForgetlessAtFirst, ForgetlessNext, PTL DEF Spec

-----------------------------------------------------------------------------
(* What the packets under way will make of a backup's accounts.            *)

\* m introduces x; it carries a transaction x is a party of; one x asked for.
About(m, x) == m.type = "ADD_CLIENT_UPDATE" /\ m.client = x
Pays(m, x) == m.type = "STATE_UPDATE" /\ x \in {m.transaction.source, m.transaction.dest}
Orders(m, x) == m.type = "STATE_UPDATE" /\ x = m.transaction.source

\* The balance a transaction leaves one of its parties.
Leaves(m, x) == IF x = m.transaction.dest THEN m.destBalance ELSE m.sourceBalance

\* r is q with m after it, once or more than once.
Extended(q, r, m) ==
  /\ Len(q) \in Nat /\ DOMAIN q = 1..Len(q)
  /\ Len(r) \in Nat /\ DOMAIN r = 1..Len(r) /\ Len(q) < Len(r)
  /\ \A i \in 1..Len(r) : r[i] = IF i <= Len(q) THEN q[i] ELSE m

\* r is q without its first element m.
Shortened(q, r, m) ==
  /\ Len(q) \in Nat /\ DOMAIN q = 1..Len(q) /\ Len(q) > 0
  /\ Len(r) = Len(q) - 1 /\ DOMAIN r = 1..Len(r)
  /\ q[1] = m /\ \A i \in 1..Len(r) : r[i] = q[i + 1]

\* A packet that is sent n times, or once; the first that is taken.
LEMMA SentExtends ==
  ASSUME NEW S, NEW q \in Seq(S), NEW m \in S, NEW n \in Nat \ {0}
  PROVE  Extended(q, Sent(q, m, n), m) /\ Len(Sent(q, m, n)) = Len(q) + n
<1> DEFINE c == [k \in 1..n |-> m]
           r == q \o c
<1>1. c \in Seq(S) /\ Len(c) = n /\ \A k \in 1..n : c[k] = m
  OBVIOUS
<1>2. Len(q) \in Nat /\ DOMAIN q = 1..Len(q)
  BY LenProperties
<1> HIDE DEF c
<1>3. /\ r \in Seq(S) /\ Len(r) = Len(q) + n
      /\ \A i \in 1..(Len(q) + n) : r[i] = IF i <= Len(q) THEN q[i] ELSE c[i - Len(q)]
  BY <1>1, ConcatProperties
<1>4. DOMAIN r = 1..Len(r)
  BY <1>3, LenProperties
<1>5. Sent(q, m, n) = r
  BY DEF Sent, c
<1> HIDE DEF r
<1>6. \A i \in 1..Len(r) : r[i] = IF i <= Len(q) THEN q[i] ELSE m
  <2>1. \A i \in 1..Len(r) : ~(i <= Len(q)) => i - Len(q) \in 1..n
    BY <1>2, <1>3
  <2>2. QED
    BY <1>1, <1>3, <2>1
<1>7. QED
  BY <1>2, <1>3, <1>4, <1>5, <1>6 DEF Extended

LEMMA AppendExtends ==
  ASSUME NEW S, NEW q \in Seq(S), NEW m \in S
  PROVE  Extended(q, Append(q, m), m) /\ Len(Append(q, m)) = Len(q) + 1
<1>1. /\ Append(q, m) \in Seq(S) /\ Len(Append(q, m)) = Len(q) + 1
      /\ \A i \in 1..Len(q) : Append(q, m)[i] = q[i]
      /\ Append(q, m)[Len(q) + 1] = m
  BY AppendProperties
<1>2. /\ Len(q) \in Nat /\ DOMAIN q = 1..Len(q)
      /\ DOMAIN Append(q, m) = 1..Len(Append(q, m))
  BY <1>1, LenProperties
<1>3. QED
  BY <1>1, <1>2 DEF Extended

LEMMA TailShortens ==
  ASSUME NEW S, NEW q \in Seq(S), q # <<>>
  PROVE  Shortened(q, Tail(q), Head(q)) /\ Head(q) \in S /\ Tail(q) \in Seq(S)
<1>1. /\ Tail(q) \in Seq(S) /\ Len(Tail(q)) = Len(q) - 1 /\ Head(q) \in S
      /\ \A i \in 1..(Len(q) - 1) : Tail(q)[i] = q[i + 1]
      /\ Head(q) = q[1]
  BY HeadTailProperties
<1>2. /\ Len(q) \in Nat /\ DOMAIN q = 1..Len(q) /\ Len(q) # 0
      /\ DOMAIN Tail(q) = 1..Len(Tail(q))
  BY <1>1, LenProperties, EmptySeq
<1>3. QED
  BY <1>1, <1>2 DEF Shortened

-----------------------------------------------------------------------------
\* v is what the backup has of each client, or learns first: who is not in its book L yet
\* is introduced with that.
Introduced(q, L, v) ==
  \A x \in Clients \ L.registered : \A i \in DOMAIN q :
    About(q[i], x) /\ (\A j \in 1..(i - 1) : ~About(q[j], x))
      => q[i].balance = v.balance[x] /\ q[i].lastReq = v.lastReq[x]

\* The last transaction of x that is under way leaves it the primary's balance; if there
\* is none, v has that balance.
Balances(q, v, P) ==
  \A x \in Clients :
    /\ (\A i \in DOMAIN q : ~Pays(q[i], x)) => v.balance[x] = P.balance[x]
    /\ \A i \in DOMAIN q : Pays(q[i], x) /\ (\A j \in (i + 1)..Len(q) : ~Pays(q[j], x))
         => Leaves(q[i], x) = P.balance[x]

\* The same of the request numbers.
Numbers(q, v, P) ==
  \A x \in Clients :
    /\ (\A i \in DOMAIN q : ~Orders(q[i], x)) => v.lastReq[x] = P.lastReq[x]
    /\ \A i \in DOMAIN q : Orders(q[i], x) /\ (\A j \in (i + 1)..Len(q) : ~Orders(q[j], x))
         => q[i].transaction.seqn = P.lastReq[x]

\* Clients are introduced before their transactions.
Ordered(q, L, P) ==
  \A x \in Clients : \A i \in DOMAIN q :
    /\ About(q[i], x) => x \in P.registered
    /\ Pays(q[i], x) => x \in L.registered \/ \E j \in 1..(i - 1) : About(q[j], x)

\* All clients are, except those of S.
Complete(q, L, P, S) ==
  \A x \in P.registered \ (L.registered \cup S) : \E i \in DOMAIN q : About(q[i], x)

\* v is what the book L holds, or what a new client has; the balances to come are what is
\* missing in its total.
Stored(L, v, P) ==
  /\ L.registered \subseteq P.registered
  /\ \A x \in Clients : x \in L.registered \/ x \notin P.registered
       => v.balance[x] = L.balance[x] /\ v.lastReq[x] = L.lastReq[x]
  /\ L.totalBalance + SumFunctionOnSet(v.balance, P.registered \ L.registered)
       = P.totalBalance

\* What a backup may have of every client.
Views == [balance : [Clients -> Int], lastReq : [Clients -> Nat]]

\* The packets q, with the clients S, make of the book L one with P's accounts.
Tells(q, L, v, P, S) ==
  /\ Introduced(q, L, v) /\ Balances(q, v, P) /\ Numbers(q, v, P)
  /\ Ordered(q, L, P) /\ Complete(q, L, P, S) /\ Stored(L, v, P)

\* A packet that is sent to the backup while the primary's book goes from P to N and the
\* clients still to be introduced from S to T.
Fits(q, L, v, P, S, m, N, T) ==
  /\ \A x \in Clients : About(m, x) => x \in N.registered
  /\ \A x \in Clients \ L.registered : About(m, x) =>
       \/ \E i \in DOMAIN q : About(q[i], x)
       \/ m.balance = v.balance[x] /\ m.lastReq = v.lastReq[x]
  /\ \A x \in Clients : Pays(m, x) =>
       x \in L.registered \/ \E i \in DOMAIN q : About(q[i], x)
  /\ \A x \in Clients : N.balance[x] = IF Pays(m, x) THEN Leaves(m, x) ELSE P.balance[x]
  /\ \A x \in Clients : N.lastReq[x] = IF Orders(m, x) THEN m.transaction.seqn ELSE P.lastReq[x]
  /\ P.registered \subseteq N.registered
  /\ \A x \in N.registered \ (L.registered \cup T) :
       About(m, x) \/ x \in P.registered \ (L.registered \cup S)

\* So do they with one more packet that fits.
LEMMA TellsExtended ==
  ASSUME NEW q, NEW L, NEW v, NEW P, NEW S, NEW m, NEW N, NEW T, NEW r,
         Tells(q, L, v, P, S), Fits(q, L, v, P, S, m, N, T), Extended(q, r, m),
         Stored(L, v, N)
  PROVE  Tells(r, L, v, N, T)
<1>e. /\ Len(q) \in Nat /\ DOMAIN q = 1..Len(q)
      /\ Len(r) \in Nat /\ DOMAIN r = 1..Len(r) /\ Len(q) < Len(r)
      /\ \A i \in 1..Len(q) : r[i] = q[i]
      /\ \A i \in 1..Len(r) : ~(i <= Len(q)) => r[i] = m
      /\ r[Len(r)] = m
  BY DEF Extended
<1>p. /\ \A i \in DOMAIN q : i \in DOMAIN r
      /\ \A i \in DOMAIN r : i \in DOMAIN q \/ ~(i <= Len(q))
      /\ \A i \in DOMAIN q : 1..(i - 1) \subseteq DOMAIN q
      /\ \A i \in DOMAIN r : ~(i <= Len(q)) => DOMAIN q \subseteq 1..(i - 1)
      /\ Len(r) \in DOMAIN r
  BY <1>e
<1>1. Introduced(r, L, v)
  <2> SUFFICES ASSUME NEW x \in Clients \ L.registered, NEW i \in DOMAIN r,
                      About(r[i], x), \A j \in 1..(i - 1) : ~About(r[j], x)
               PROVE  r[i].balance = v.balance[x] /\ r[i].lastReq = v.lastReq[x]
    BY DEF Introduced
  <2>1. CASE i \in DOMAIN q
    <3>1. r[i] = q[i] /\ \A j \in 1..(i - 1) : r[j] = q[j]
      BY <1>e, <1>p, <2>1
    <3>2. QED
      BY <2>1, <3>1 DEF Tells, Introduced
  <2>2. CASE ~(i <= Len(q))
    <3>1. r[i] = m /\ \A j \in DOMAIN q : ~About(q[j], x)
      BY <1>e, <1>p, <2>2
    <3>2. QED
      BY <3>1 DEF Fits
  <2>3. QED
    BY <1>p, <2>1, <2>2
<1>2. Balances(r, v, N)
  <2> SUFFICES ASSUME NEW x \in Clients
               PROVE  /\ (\A i \in DOMAIN r : ~Pays(r[i], x)) => v.balance[x] = N.balance[x]
                      /\ \A i \in DOMAIN r :
                           Pays(r[i], x) /\ (\A j \in (i + 1)..Len(r) : ~Pays(r[j], x))
                             => Leaves(r[i], x) = N.balance[x]
    BY DEF Balances
  <2>1. N.balance[x] = IF Pays(m, x) THEN Leaves(m, x) ELSE P.balance[x]
    BY DEF Fits
  <2>2. CASE Pays(m, x)
    <3>1. ASSUME NEW i \in DOMAIN r, \A j \in (i + 1)..Len(r) : ~Pays(r[j], x)
          PROVE  r[i] = m
      <4>1. Len(r) \notin (i + 1)..Len(r)
        BY <1>e, <2>2, <3>1
      <4>2. i = Len(r)
        BY <1>e, <4>1
      <4>3. QED
        BY <1>e, <4>2
    <3>2. QED
      BY <1>e, <1>p, <2>1, <2>2, <3>1
  <2>3. CASE ~Pays(m, x)
    <3>1. /\ (\A i \in DOMAIN q : ~Pays(q[i], x)) => v.balance[x] = P.balance[x]
          /\ \A i \in DOMAIN q :
               Pays(q[i], x) /\ (\A j \in (i + 1)..Len(q) : ~Pays(q[j], x))
                 => Leaves(q[i], x) = P.balance[x]
      BY DEF Tells, Balances
    <3>2. \A i \in DOMAIN r : Pays(r[i], x) => i \in DOMAIN q
      BY <1>e, <2>3
    <3>3. \A i \in DOMAIN q : \A j \in (i + 1)..Len(q) : j \in (i + 1)..Len(r) /\ r[j] = q[j]
      BY <1>e
    <3>4. QED
      BY <1>e, <1>p, <2>1, <2>3, <3>1, <3>2, <3>3
  <2>4. QED
    BY <2>2, <2>3
<1>3. Numbers(r, v, N)
  <2> SUFFICES ASSUME NEW x \in Clients
               PROVE  /\ (\A i \in DOMAIN r : ~Orders(r[i], x)) => v.lastReq[x] = N.lastReq[x]
                      /\ \A i \in DOMAIN r :
                           Orders(r[i], x) /\ (\A j \in (i + 1)..Len(r) : ~Orders(r[j], x))
                             => r[i].transaction.seqn = N.lastReq[x]
    BY DEF Numbers
  <2>1. N.lastReq[x] = IF Orders(m, x) THEN m.transaction.seqn ELSE P.lastReq[x]
    BY DEF Fits
  <2>2. CASE Orders(m, x)
    <3>1. ASSUME NEW i \in DOMAIN r, \A j \in (i + 1)..Len(r) : ~Orders(r[j], x)
          PROVE  r[i] = m
      <4>1. Len(r) \notin (i + 1)..Len(r)
        BY <1>e, <2>2, <3>1
      <4>2. i = Len(r)
        BY <1>e, <4>1
      <4>3. QED
        BY <1>e, <4>2
    <3>2. QED
      BY <1>e, <1>p, <2>1, <2>2, <3>1
  <2>3. CASE ~Orders(m, x)
    <3>1. /\ (\A i \in DOMAIN q : ~Orders(q[i], x)) => v.lastReq[x] = P.lastReq[x]
          /\ \A i \in DOMAIN q :
               Orders(q[i], x) /\ (\A j \in (i + 1)..Len(q) : ~Orders(q[j], x))
                 => q[i].transaction.seqn = P.lastReq[x]
      BY DEF Tells, Numbers
    <3>2. \A i \in DOMAIN r : Orders(r[i], x) => i \in DOMAIN q
      BY <1>e, <2>3
    <3>3. \A i \in DOMAIN q : \A j \in (i + 1)..Len(q) : j \in (i + 1)..Len(r) /\ r[j] = q[j]
      BY <1>e
    <3>4. QED
      BY <1>e, <1>p, <2>1, <2>3, <3>1, <3>2, <3>3
  <2>4. QED
    BY <2>2, <2>3
<1>4. Ordered(r, L, N)
  <2> SUFFICES ASSUME NEW x \in Clients, NEW i \in DOMAIN r
               PROVE  /\ About(r[i], x) => x \in N.registered
                      /\ Pays(r[i], x) =>
                           x \in L.registered \/ \E j \in 1..(i - 1) : About(r[j], x)
    BY DEF Ordered
  <2>1. CASE i \in DOMAIN q
    <3>1. r[i] = q[i] /\ \A j \in 1..(i - 1) : r[j] = q[j]
      BY <1>e, <1>p, <2>1
    <3>2. QED
      BY <2>1, <3>1 DEF Tells, Ordered, Fits
  <2>2. CASE ~(i <= Len(q))
    <3>1. r[i] = m /\ \A j \in DOMAIN q : j \in 1..(i - 1) /\ r[j] = q[j]
      BY <1>e, <1>p, <2>2
    <3>2. QED
      BY <3>1 DEF Fits
  <2>3. QED
    BY <1>p, <2>1, <2>2
<1>5. Complete(r, L, N, T)
  BY <1>e, <1>p DEF Complete, Tells, Fits
<1>6. QED
  BY <1>1, <1>2, <1>3, <1>4, <1>5 DEF Tells

\* The backup handles m, which makes N of its book and w of the view.
Learns(L, v, m, N, w) ==
  /\ \A x \in Clients : x \in N.registered <=> x \in L.registered \/ About(m, x)
  /\ \A x \in Clients : w.balance[x] = IF Pays(m, x) THEN Leaves(m, x) ELSE v.balance[x]
  /\ \A x \in Clients :
       w.lastReq[x] = IF Orders(m, x) THEN m.transaction.seqn ELSE v.lastReq[x]

\* What is left does, when the first is handled.
LEMMA TellsShortened ==
  ASSUME NEW q, NEW L, NEW v, NEW P, NEW S, NEW m, NEW N, NEW w, NEW r,
         Tells(q, L, v, P, S), Shortened(q, r, m), Learns(L, v, m, N, w), Stored(N, w, P),
         P.registered \subseteq Clients
  PROVE  Tells(r, N, w, P, S)
<1>e. /\ Len(q) \in Nat /\ DOMAIN q = 1..Len(q) /\ 1 \in DOMAIN q
      /\ Len(r) = Len(q) - 1 /\ DOMAIN r = 1..Len(r)
      /\ q[1] = m /\ \A i \in DOMAIN r : i + 1 \in DOMAIN q /\ r[i] = q[i + 1]
  BY DEF Shortened
<1>p. \A i \in DOMAIN q : i = 1 \/ (i - 1 \in DOMAIN r /\ q[i] = r[i - 1])
  <2>1. \A i \in DOMAIN q : i # 1 => i - 1 \in DOMAIN r /\ (i - 1) + 1 = i
    BY <1>e
  <2>2. QED
    BY <1>e, <2>1
<1>b. ASSUME NEW i \in DOMAIN r
      PROVE  /\ \A j \in 1..((i + 1) - 1) : j = 1 \/ (j - 1 \in 1..(i - 1) /\ q[j] = r[j - 1])
             /\ \A j \in 1..(i - 1) : j + 1 \in 1..((i + 1) - 1) /\ r[j] = q[j + 1]
  <2>1. \A j \in 1..((i + 1) - 1) : j \in DOMAIN q /\ (j = 1 \/ j - 1 \in 1..(i - 1))
    BY <1>e
  <2>2. \A j \in 1..(i - 1) : j \in DOMAIN r /\ j + 1 \in 1..((i + 1) - 1)
    BY <1>e
  <2>3. QED
    BY <1>e, <1>p, <2>1, <2>2
<1>a. ASSUME NEW i \in DOMAIN r
      PROVE  \A j \in ((i + 1) + 1)..Len(q) : j - 1 \in (i + 1)..Len(r) /\ q[j] = r[j - 1]
  <2>1. \A j \in ((i + 1) + 1)..Len(q) : j \in DOMAIN q /\ j # 1 /\ j - 1 \in (i + 1)..Len(r)
    BY <1>e
  <2>2. QED
    BY <1>p, <2>1
<1>h. \A j \in 2..Len(q) : j \in DOMAIN q /\ j # 1 /\ j - 1 \in DOMAIN r /\ q[j] = r[j - 1]
  <2>1. \A j \in 2..Len(q) : j \in DOMAIN q /\ j # 1
    BY <1>e
  <2>2. QED
    BY <1>p, <2>1
<1>1. Introduced(r, N, w)
  <2> SUFFICES ASSUME NEW x \in Clients \ N.registered, NEW i \in DOMAIN r,
                      About(r[i], x), \A j \in 1..(i - 1) : ~About(r[j], x)
               PROVE  r[i].balance = w.balance[x] /\ r[i].lastReq = w.lastReq[x]
    BY DEF Introduced
  <2>1. x \notin L.registered /\ ~About(m, x)
    BY DEF Learns
  <2>2. \A j \in 1..((i + 1) - 1) : ~About(q[j], x)
    BY <1>b, <1>e, <2>1
  <2>3. About(q[i + 1], x) /\ i + 1 \in DOMAIN q
    BY <1>e
  <2>4. r[i].balance = v.balance[x] /\ r[i].lastReq = v.lastReq[x]
    BY <1>e, <2>1, <2>2, <2>3 DEF Tells, Introduced
  <2>5. ~Pays(m, x) /\ ~Orders(m, x)
    <3>1. Pays(m, x) => x \in L.registered \/ \E j \in 1..(1 - 1) : About(q[j], x)
      BY <1>e DEF Tells, Ordered
    <3>2. 1..(1 - 1) = {}
      OBVIOUS
    <3>3. QED
      BY <2>1, <3>1, <3>2 DEF Pays, Orders
  <2>6. QED
    BY <2>4, <2>5 DEF Learns
<1>2. Balances(r, w, P)
  <2> SUFFICES ASSUME NEW x \in Clients
               PROVE  /\ (\A i \in DOMAIN r : ~Pays(r[i], x)) => w.balance[x] = P.balance[x]
                      /\ \A i \in DOMAIN r :
                           Pays(r[i], x) /\ (\A j \in (i + 1)..Len(r) : ~Pays(r[j], x))
                             => Leaves(r[i], x) = P.balance[x]
    BY DEF Balances
  <2>1. /\ (\A i \in DOMAIN q : ~Pays(q[i], x)) => v.balance[x] = P.balance[x]
        /\ \A i \in DOMAIN q :
             Pays(q[i], x) /\ (\A j \in (i + 1)..Len(q) : ~Pays(q[j], x))
               => Leaves(q[i], x) = P.balance[x]
    BY DEF Tells, Balances
  <2>2. w.balance[x] = IF Pays(m, x) THEN Leaves(m, x) ELSE v.balance[x]
    BY DEF Learns
  <2>3. ASSUME \A i \in DOMAIN r : ~Pays(r[i], x) PROVE w.balance[x] = P.balance[x]
    <3>1. \A j \in (1 + 1)..Len(q) : ~Pays(q[j], x)
      BY <1>h, <2>3
    <3>2. ~Pays(m, x) => \A i \in DOMAIN q : ~Pays(q[i], x)
      BY <1>e, <1>p, <2>3
    <3>3. QED
      BY <1>e, <2>1, <2>2, <3>1, <3>2
  <2>4. ASSUME NEW i \in DOMAIN r, Pays(r[i], x), \A j \in (i + 1)..Len(r) : ~Pays(r[j], x)
        PROVE  Leaves(r[i], x) = P.balance[x]
    BY <1>a, <1>e, <2>1, <2>4
  <2>5. QED
    BY <2>3, <2>4
<1>3. Numbers(r, w, P)
  <2> SUFFICES ASSUME NEW x \in Clients
               PROVE  /\ (\A i \in DOMAIN r : ~Orders(r[i], x)) => w.lastReq[x] = P.lastReq[x]
                      /\ \A i \in DOMAIN r :
                           Orders(r[i], x) /\ (\A j \in (i + 1)..Len(r) : ~Orders(r[j], x))
                             => r[i].transaction.seqn = P.lastReq[x]
    BY DEF Numbers
  <2>1. /\ (\A i \in DOMAIN q : ~Orders(q[i], x)) => v.lastReq[x] = P.lastReq[x]
        /\ \A i \in DOMAIN q :
             Orders(q[i], x) /\ (\A j \in (i + 1)..Len(q) : ~Orders(q[j], x))
               => q[i].transaction.seqn = P.lastReq[x]
    BY DEF Tells, Numbers
  <2>2. w.lastReq[x] = IF Orders(m, x) THEN m.transaction.seqn ELSE v.lastReq[x]
    BY DEF Learns
  <2>3. ASSUME \A i \in DOMAIN r : ~Orders(r[i], x) PROVE w.lastReq[x] = P.lastReq[x]
    <3>1. \A j \in (1 + 1)..Len(q) : ~Orders(q[j], x)
      BY <1>h, <2>3
    <3>2. ~Orders(m, x) => \A i \in DOMAIN q : ~Orders(q[i], x)
      BY <1>e, <1>p, <2>3
    <3>3. QED
      BY <1>e, <2>1, <2>2, <3>1, <3>2
  <2>4. ASSUME NEW i \in DOMAIN r, Orders(r[i], x), \A j \in (i + 1)..Len(r) : ~Orders(r[j], x)
        PROVE  r[i].transaction.seqn = P.lastReq[x]
    BY <1>a, <1>e, <2>1, <2>4
  <2>5. QED
    BY <2>3, <2>4
<1>4. Ordered(r, N, P)
  <2> SUFFICES ASSUME NEW x \in Clients, NEW i \in DOMAIN r
               PROVE  /\ About(r[i], x) => x \in P.registered
                      /\ Pays(r[i], x) =>
                           x \in N.registered \/ \E j \in 1..(i - 1) : About(r[j], x)
    BY DEF Ordered
  <2>1. i + 1 \in DOMAIN q /\ r[i] = q[i + 1]
    BY <1>e
  <2>2. /\ About(q[i + 1], x) => x \in P.registered
        /\ Pays(q[i + 1], x) =>
             x \in L.registered \/ \E j \in 1..((i + 1) - 1) : About(q[j], x)
    BY <2>1 DEF Tells, Ordered
  <2>3. x \in N.registered <=> x \in L.registered \/ About(m, x)
    BY DEF Learns
  <2>4. QED
    BY <1>b, <1>e, <2>1, <2>2, <2>3
<1>5. Complete(r, N, P, S)
  BY <1>e, <1>p DEF Complete, Tells, Learns
<1>6. QED
  BY <1>1, <1>2, <1>3, <1>4, <1>5 DEF Tells

\* A client that is introduced takes its part of the sum with it.
LEMMA StoredIntroduction ==
  ASSUME NEW L \in LedgerType, NEW v \in Views, NEW P \in LedgerType, IsFiniteSet(P.registered),
         Stored(L, v, P), NEW c \in P.registered \ L.registered,
         NEW N \in LedgerType, N.registered = L.registered \cup {c},
         \A x \in Clients \ {c} : N.balance[x] = L.balance[x] /\ N.lastReq[x] = L.lastReq[x],
         N.balance[c] = v.balance[c], N.lastReq[c] = v.lastReq[c],
         N.totalBalance = L.totalBalance + v.balance[c]
  PROVE  Stored(N, v, P)
<1> DEFINE M == P.registered \ L.registered
           f == v.balance
<1>1. P.registered \subseteq Clients /\ f \in [Clients -> Int] /\ L.totalBalance \in Int
  BY FieldTypes DEF Views
<1>2. IsFiniteSet(M) /\ IsFiniteSet(M \ {c})
  BY FS_Subset
<1>3. \A x \in M : f[x] \in Int
  BY <1>1
<1>4. SumFunctionOnSet(f, M) = f[c] + SumFunctionOnSet(f, M \ {c})
  <2> HIDE DEF f
  <2> QED BY <1>2, <1>3, SumRemove
<1>5. SumFunctionOnSet(f, M \ {c}) \in Int
  <2> HIDE DEF f
  <2> QED BY <1>2, <1>3, SumType
<1>6. P.registered \ N.registered = M \ {c}
  OBVIOUS
<1>7. L.totalBalance + SumFunctionOnSet(f, M) = P.totalBalance
  BY DEF Stored
<1>8. N.totalBalance + SumFunctionOnSet(f, P.registered \ N.registered) = P.totalBalance
  <2>1. f[c] \in Int /\ N.totalBalance = L.totalBalance + f[c]
    BY <1>3
  <2>2. SumFunctionOnSet(f, P.registered \ N.registered) = SumFunctionOnSet(f, M \ {c})
    BY <1>6
  <2> DEFINE rest == SumFunctionOnSet(f, M \ {c})
  <2>3. rest \in Int /\ L.totalBalance + (f[c] + rest) = P.totalBalance
    BY <1>4, <1>5, <1>7
  <2> HIDE DEF f, M, rest
  <2>4. N.totalBalance + rest = P.totalBalance
    BY <1>1, <2>1, <2>3
  <2>5. QED
    BY <2>2, <2>4 DEF rest
<1>9. N.registered \subseteq P.registered
  BY DEF Stored
<1>10. ASSUME NEW x \in Clients, x \in N.registered \/ x \notin P.registered
       PROVE  v.balance[x] = N.balance[x] /\ v.lastReq[x] = N.lastReq[x]
  BY <1>10 DEF Stored
<1>11. QED
  BY <1>8, <1>9, <1>10 DEF Stored

\* The view after a packet from what its handler does to the accounts.
LEMMA ClientUpdateLearnt ==
  ASSUME NEW q \in Seq(Updates), NEW L \in LedgerType, NEW v \in Views, NEW P \in LedgerType,
         NEW S, IsFiniteSet(P.registered), Tells(q, L, v, P, S), NEW m, NEW r,
         Shortened(q, r, m), m \in ClientUpdates,
         NEW N, N = handleClientUpdate(L, m)
  PROVE  Learns(L, v, m, N, v) /\ Stored(N, v, P)
<1>1. m.type = "ADD_CLIENT_UPDATE" /\ m.client \in Clients /\ m.balance \in Int /\ m.lastReq \in Nat
  BY DEF ClientUpdates
<1>2. 1 \in DOMAIN q /\ q[1] = m
  BY DEF Shortened
<1>3. Stored(L, v, P) /\ m.client \in P.registered
  BY <1>1, <1>2 DEF Tells, Ordered, About
<1>4. \A x \in Clients : ~Pays(m, x) /\ ~Orders(m, x) /\ (About(m, x) <=> x = m.client)
  BY <1>1 DEF Pays, Orders, About
<1>5. CASE m.client \in L.registered
  <2>1. N = L
    BY <1>5 DEF handleClientUpdate, findClient
  <2>2. QED
    BY <1>3, <1>4, <1>5, <2>1 DEF Learns
<1>6. CASE m.client \notin L.registered
  <2>1. m.balance = v.balance[m.client] /\ m.lastReq = v.lastReq[m.client]
    <3>1. 1..(1 - 1) = {}
      OBVIOUS
    <3>2. QED
      BY <1>1, <1>2, <1>4, <1>6, <3>1 DEF Tells, Introduced
  <2>2. N = [L EXCEPT !.registered = L.registered \cup {m.client},
                      !.balance[m.client] = m.balance, !.lastReq[m.client] = m.lastReq,
                      !.totalBalance = L.totalBalance + m.balance]
    BY <1>6 DEF handleClientUpdate, findClient
  <2>3. /\ N \in LedgerType /\ N.registered = L.registered \cup {m.client}
        /\ N.balance = [L.balance EXCEPT ![m.client] = m.balance]
        /\ N.lastReq = [L.lastReq EXCEPT ![m.client] = m.lastReq]
        /\ N.totalBalance = L.totalBalance + m.balance
    <3> DEFINE registered == L.registered \cup {m.client}
               balance == [L.balance EXCEPT ![m.client] = m.balance]
               lastReq == [L.lastReq EXCEPT ![m.client] = m.lastReq]
               total == L.totalBalance + m.balance
    <3>1. /\ registered \in SUBSET Clients /\ balance \in [Clients -> Int]
          /\ lastReq \in [Clients -> Nat] /\ total \in Int
      BY <1>1, FieldTypes
    <3>2. N = [L EXCEPT !.registered = registered, !.balance = balance,
                        !.lastReq = lastReq, !.totalBalance = total]
      BY <2>2 DEF LedgerType
    <3> HIDE DEF registered, balance, lastReq, total
    <3>3. QED
      BY <3>1, <3>2 DEF LedgerType, registered, balance, lastReq, total
  <2>4. L.balance \in [Clients -> Int] /\ L.lastReq \in [Clients -> Nat]
    BY FieldTypes
  <2>5. /\ \A x \in Clients \ {m.client} :
               N.balance[x] = L.balance[x] /\ N.lastReq[x] = L.lastReq[x]
        /\ N.balance[m.client] = v.balance[m.client]
        /\ N.lastReq[m.client] = v.lastReq[m.client]
    BY <1>1, <2>1, <2>3, <2>4
  <2>6. Stored(N, v, P)
    <3> DEFINE c == m.client
    <3>1. /\ c \in P.registered \ L.registered
          /\ N.totalBalance = L.totalBalance + v.balance[c]
      BY <1>3, <1>6, <2>1, <2>3
    <3>2. /\ N \in LedgerType /\ N.registered = L.registered \cup {c}
          /\ \A x \in Clients \ {c} : N.balance[x] = L.balance[x] /\ N.lastReq[x] = L.lastReq[x]
          /\ N.balance[c] = v.balance[c] /\ N.lastReq[c] = v.lastReq[c]
      BY <2>3, <2>5
    <3> HIDE DEF c
    <3>3. QED
      BY <1>3, <3>1, <3>2, StoredIntroduction
  <2>7. QED
    BY <1>4, <2>3, <2>6 DEF Learns
<1>7. QED
  BY <1>5, <1>6

\* An entry of the history changes no account.
LEMMA HistoryEntryLearnt ==
  ASSUME NEW L \in LedgerType, NEW v, NEW P, Stored(L, v, P),
         NEW m, m.type = "ADD_HISTORY_ENTRY", NEW N, N = handleHistoryEntry(L, m)
  PROVE  Learns(L, v, m, N, v) /\ Stored(N, v, P)
<1>1. /\ N.registered = L.registered /\ N.balance = L.balance /\ N.lastReq = L.lastReq
      /\ N.totalBalance = L.totalBalance
  BY DEF handleHistoryEntry, LedgerType
<1>2. QED
  BY <1>1 DEF Learns, Stored, About, Pays, Orders

\* A transaction is about clients the backup has; it takes the balances and the number.
LEMMA StateUpdateLearnt ==
  ASSUME NEW L \in LedgerType, NEW v \in Views, NEW P \in LedgerType, Stored(L, v, P),
         IsFiniteSet(P.registered),
         NEW m \in StateUpdates, \A x \in Clients : Pays(m, x) => x \in L.registered,
         NEW N \in handleStateUpdate(L, m)
  PROVE  \E w \in Views : Learns(L, v, m, N, w) /\ Stored(N, w, P)
<1> DEFINE s == m.transaction.source
           d == m.transaction.dest
           w == [balance |-> [x \in Clients |-> IF Pays(m, x) THEN Leaves(m, x) ELSE v.balance[x]],
                 lastReq |-> [x \in Clients |-> IF Orders(m, x) THEN m.transaction.seqn
                                                ELSE v.lastReq[x]]]
           paid == setBalance(setBalance(L.balance, s, m.sourceBalance), d, m.destBalance)
           noted == [L.lastReq EXCEPT ![s] = m.transaction.seqn]
<1>1. /\ m.type = "STATE_UPDATE" /\ s \in Clients /\ d \in Clients
      /\ m.transaction.seqn \in Nat /\ m.sourceBalance \in Int /\ m.destBalance \in Int
  BY DEF StateUpdates, Transaction
<1>2. s \in L.registered /\ d \in L.registered
  BY <1>1 DEF Pays
<1>3. L.balance \in [Clients -> Int] /\ L.lastReq \in [Clients -> Nat] /\ L.registered \subseteq Clients
  BY FieldTypes
<1>4. /\ N.registered = L.registered /\ N.totalBalance = L.totalBalance
      /\ N.balance = paid /\ N.lastReq = noted
  <2> DEFINE E == handleHistoryEntry(L, m)
             clients == L.registered \cup {s, d}
             A == [E EXCEPT !.registered = clients]
             written == [A EXCEPT !.balance = paid, !.lastReq = noted]
  <2>1. clients = L.registered
    BY <1>2
  <2>2. /\ E = [L EXCEPT !.history = Append(L.history, m.transaction),
                         !.numTransactions = L.numTransactions + 1,
                         !.totalTransferred = L.totalTransferred + m.transaction.value]
    BY DEF handleHistoryEntry
  <2>3. DOMAIN L = {"registered", "balance", "lastReq", "history", "numTransactions",
                    "totalTransferred", "totalBalance"}
    BY DEF LedgerType
  <2>4. /\ DOMAIN E = DOMAIN L
        /\ E.totalBalance = L.totalBalance /\ E.balance = L.balance /\ E.lastReq = L.lastReq
    BY <2>2, <2>3
  <2>5. N = written
    <3> HIDE DEF paid, noted
    <3>1. d \in L.registered \cup {s}
      BY <1>2
    <3>2. E.balance = L.balance
      BY <2>4
    <3>3. QED
      BY <3>1, <3>2 DEF handleStateUpdate, paid, noted
  <2> HIDE DEF E, clients, paid, noted
  <2>6. /\ written.registered = clients /\ written.totalBalance = E.totalBalance
        /\ written.balance = paid /\ written.lastReq = noted
    BY <2>3, <2>4
  <2>7. QED
    BY <2>1, <2>4, <2>5, <2>6
<1>5. v.balance \in [Clients -> Int] /\ v.lastReq \in [Clients -> Nat]
  BY DEF Views
<1>6. w \in Views
  BY <1>1, <1>5 DEF Views, Leaves
<1>7. ASSUME NEW x \in Clients
      PROVE  /\ w.balance[x] = IF Pays(m, x) THEN Leaves(m, x) ELSE v.balance[x]
             /\ w.lastReq[x] = IF Orders(m, x) THEN m.transaction.seqn ELSE v.lastReq[x]
             /\ paid[x] = IF Pays(m, x) THEN Leaves(m, x) ELSE L.balance[x]
             /\ noted[x] = IF Orders(m, x) THEN m.transaction.seqn ELSE L.lastReq[x]
  BY <1>1, <1>3 DEF Pays, Orders, Leaves, setBalance
<1>8. Learns(L, v, m, N, w)
  <2> HIDE DEF w
  <2> QED BY <1>1, <1>4, <1>7 DEF Learns, About
<1>9. Stored(N, w, P)
  <2> HIDE DEF w, paid, noted
  <2>1. \A x \in Clients \ L.registered : w.balance[x] = v.balance[x] /\ w.lastReq[x] = v.lastReq[x]
    BY <1>1, <1>7 DEF Orders, Pays
  <2>2. SumFunctionOnSet(w.balance, P.registered \ L.registered)
          = SumFunctionOnSet(v.balance, P.registered \ L.registered)
    <3>1. IsFiniteSet(P.registered \ L.registered) /\ P.registered \subseteq Clients
      BY FieldTypes, FS_Subset
    <3>2. \A x \in P.registered \ L.registered : w.balance[x] = v.balance[x]
      BY <2>1, <3>1
    <3>3. QED
      BY <3>1, <3>2, SumSame
  <2>3. \A x \in Clients : x \in L.registered \/ x \notin P.registered
          => w.balance[x] = paid[x] /\ w.lastReq[x] = noted[x]
    BY <1>1, <1>7 DEF Stored
  <2>4. QED
    BY <1>4, <2>2, <2>3 DEF Stored
<1>10. QED
  BY <1>6, <1>8, <1>9

\* A backup that handles a packet is told the rest.
LEMMA TellsReceived ==
  ASSUME NEW q \in Seq(Updates), q # <<>>, NEW L \in LedgerType, NEW v \in Views,
         NEW P \in LedgerType, IsFiniteSet(P.registered), NEW S, Tells(q, L, v, P, S),
         NEW N \in Handled(L, Head(q))
  PROVE  \E w \in Views : Tells(Tail(q), N, w, P, S)
<1> DEFINE m == Head(q)
           r == Tail(q)
<1>1. Shortened(q, r, m) /\ m \in Updates
  BY TailShortens
<1>2. P.registered \subseteq Clients /\ Stored(L, v, P)
  BY FieldTypes DEF Tells
<1> HIDE DEF m, r
<1>3. SUFFICES \E w \in Views : Learns(L, v, m, N, w) /\ Stored(N, w, P)
  BY <1>1, <1>2, TellsShortened DEF m, r
<1>4. CASE m \in ClientUpdates
  <2>1. N = handleClientUpdate(L, m)
    BY <1>4 DEF Handled, ClientUpdates, m
  <2>2. QED
    BY <1>1, <1>4, <2>1, ClientUpdateLearnt
<1>5. CASE m \in HistoryEntries
  <2>1. m.type = "ADD_HISTORY_ENTRY"
    BY <1>5 DEF HistoryEntries
  <2>2. N = handleHistoryEntry(L, m)
    BY <2>1 DEF Handled, m
  <2>3. QED
    BY <1>2, <2>1, <2>2, HistoryEntryLearnt
<1>6. CASE m \in StateUpdates
  <2>1. m.type = "STATE_UPDATE"
    BY <1>6 DEF StateUpdates
  <2>2. N \in handleStateUpdate(L, m)
    BY <2>1 DEF Handled, m
  <2>3. \A x \in Clients : Pays(m, x) => x \in L.registered
    <3>1. 1 \in DOMAIN q /\ q[1] = m
      BY <1>1 DEF Shortened
    <3>2. 1..(1 - 1) = {}
      OBVIOUS
    <3>3. QED
      BY <3>1, <3>2 DEF Tells, Ordered
  <2>4. QED
    BY <1>2, <1>6, <2>2, <2>3, StateUpdateLearnt
<1>7. QED
  BY <1>1, <1>4, <1>5, <1>6 DEF Updates

-----------------------------------------------------------------------------
\* The primary's accounts add up, and who is not registered has what a new client has.
Balanced(P) ==
  /\ IsFiniteSet(P.registered)
  /\ SumFunctionOnSet(P.balance, P.registered) = P.totalBalance
  /\ \A c \in Clients \ P.registered : P.balance[c] = InitialBalance /\ P.lastReq[c] = 0

\* A book is so at first, and after every operation.
LEMMA BalancedAtFirst == Balanced(EmptyLedger)
<1>1. /\ EmptyLedger.registered = {} /\ EmptyLedger.totalBalance = 0
      /\ \A c \in Clients : EmptyLedger.balance[c] = InitialBalance /\ EmptyLedger.lastReq[c] = 0
  BY DEF EmptyLedger
<1>2. QED
  BY <1>1, FS_EmptySet, SumEmpty DEF Balanced

LEMMA BalancedRegistration ==
  ASSUME NEW P \in LedgerType, Balanced(P), NEW c \in Clients,
         NEW N, N = wasClientAdded(P, c)
  PROVE  Balanced(N)
<1>1. CASE c \in P.registered
  <2>1. N = P
    BY <1>1 DEF wasClientAdded, findClient
  <2>2. QED
    BY <2>1
<1>2. CASE c \notin P.registered
  <2>1. /\ N.registered = P.registered \cup {c} /\ N.balance = P.balance
        /\ N.lastReq = P.lastReq /\ N.totalBalance = P.totalBalance + InitialBalance
    BY <1>2, RegistrationEffect
  <2>2. /\ IsFiniteSet(P.registered) /\ P.balance[c] = InitialBalance
        /\ SumFunctionOnSet(P.balance, P.registered) = P.totalBalance
    BY <1>2 DEF Balanced
  <2>3. P.balance \in [Clients -> Int] /\ P.registered \subseteq Clients /\ P.totalBalance \in Int
    BY FieldTypes
  <2>4. \A x \in P.registered \cup {c} : P.balance[x] \in Int
    BY <2>3
  <2>5. SumFunctionOnSet(P.balance, P.registered \cup {c}) = InitialBalance + P.totalBalance
    BY <1>2, <2>2, <2>4, SumAdd
  <2>6. SumFunctionOnSet(N.balance, N.registered) = N.totalBalance
    BY <2>1, <2>3, <2>5, InitialBalanceAssumption
  <2>7. IsFiniteSet(N.registered)
    BY <2>1, <2>2, FS_AddElement
  <2>8. \A x \in Clients \ N.registered : N.balance[x] = InitialBalance /\ N.lastReq[x] = 0
    BY <2>1 DEF Balanced
  <2>9. QED
    BY <2>6, <2>7, <2>8 DEF Balanced
<1>3. QED
  BY <1>1, <1>2

\* What an execution does to the book.
Executes(P, N, s, d, v, n) ==
  /\ N \in LedgerType
  /\ s \in P.registered /\ d \in P.registered
  /\ N.registered = P.registered /\ N.totalBalance = P.totalBalance
  /\ \A c \in Clients : N.lastReq[c] = IF c = s THEN n ELSE P.lastReq[c]
  /\ \A c \in Clients : N.balance[c] = IF c = s /\ c = d THEN P.balance[c] - v + v
                                       ELSE IF c = s THEN P.balance[c] - v
                                       ELSE IF c = d THEN P.balance[c] + v
                                       ELSE P.balance[c]
  /\ N.history = Append(P.history, newTransaction(P, s, d, v, n))
  /\ N.numTransactions = P.numTransactions + 1
  /\ N.totalTransferred = P.totalTransferred + v

LEMMA SuccessExecutes ==
  ASSUME NEW P \in LedgerType, NEW s \in Clients, NEW d \in Clients, NEW v \in Int,
         NEW n \in Nat, NEW r, r = handleTransactionLogic(P, s, d, v, n), r.status = "SUCCESS"
  PROVE  Executes(P, r.ledger, s, d, v, n)
<1>1. /\ r.ledger = updateAndLogTransaction(executeTransaction(P, s, d, v, n), s, d, v, n)
      /\ s \in P.registered /\ d \in P.registered
  <2>1. validateTransaction(P, s, d, v, n) = "SUCCESS"
    BY DEF handleTransactionLogic
  <2>2. QED
    BY <2>1 DEF handleTransactionLogic, validateTransaction, findClient
<1>2. QED
  BY <1>1, ExecutionFields DEF Executes

LEMMA BalancedExecution ==
  ASSUME NEW P \in LedgerType, Balanced(P), NEW s \in Clients, NEW d \in Clients,
         NEW v \in Int, NEW n, NEW N, Executes(P, N, s, d, v, n)
  PROVE  Balanced(N)
<1> DEFINE R == P.registered
           b == P.balance
           w == N.balance
<1>1. R \subseteq Clients /\ b \in [Clients -> Int]
  BY FieldTypes
<1>2. IsFiniteSet(R) /\ s \in R /\ d \in R
  BY DEF Balanced, Executes
<1>3. \A c \in Clients : w[c] = IF c = s /\ c = d THEN b[c] - v + v
                                ELSE IF c = s THEN b[c] - v
                                ELSE IF c = d THEN b[c] + v
                                ELSE b[c]
  BY DEF Executes
<1>4. SumFunctionOnSet(w, R) = SumFunctionOnSet(b, R)
  <2> HIDE DEF R, b, w
  <2> QED BY <1>1, <1>2, <1>3, SumOfTransfer
<1>5. N.registered = R /\ N.totalBalance = P.totalBalance
  BY DEF Executes
<1>6. ASSUME NEW c \in Clients \ R
      PROVE  w[c] = InitialBalance /\ N.lastReq[c] = 0
  <2>1. c # s /\ c # d /\ b[c] = InitialBalance /\ P.lastReq[c] = 0
    BY <1>2 DEF Balanced
  <2>2. QED
    BY <2>1, <1>3 DEF Executes
<1>7. QED
  BY <1>2, <1>4, <1>5, <1>6 DEF Balanced

\* m is the packet that tells the backups.
Announces(P, N, s, d, v, n, m) ==
  /\ m.type = "STATE_UPDATE" /\ m.transaction = newTransaction(P, s, d, v, n)
  /\ m.transaction.source = s /\ m.transaction.dest = d /\ m.transaction.seqn = n
  /\ m.transaction.id = P.numTransactions + 1
  /\ m.sourceBalance = N.balance[s] /\ m.destBalance = N.balance[d]

LEMMA UpdateOfExecution ==
  ASSUME NEW P \in LedgerType, NEW s \in Clients, NEW d \in Clients,
         NEW v \in Int, NEW n \in Nat, NEW N, Executes(P, N, s, d, v, n)
  PROVE  Announces(P, N, s, d, v, n, StateUpdate(N))
<1> DEFINE e == newTransaction(P, s, d, v, n)
<1>1. /\ e.source = s /\ e.dest = d /\ e.seqn = n /\ e.id = P.numTransactions + 1
      /\ e.value = v
  BY DEF newTransaction
<1>2. P.history \in Seq(Transaction)
  BY FieldTypes
<1>3. N.history = Append(P.history, e)
  BY DEF Executes
<1> HIDE DEF e
<1>4. N.history[Len(N.history)] = e
  BY <1>2, <1>3
<1>5. /\ StateUpdate(N).type = "STATE_UPDATE" /\ StateUpdate(N).transaction = e
      /\ StateUpdate(N).sourceBalance = N.balance[e.source]
      /\ StateUpdate(N).destBalance = N.balance[e.dest]
  BY <1>4 DEF StateUpdate
<1>6. QED
  BY <1>1, <1>5 DEF e, Announces

-----------------------------------------------------------------------------
\* A client is registered and all backups are told.
LEMMA TellsRegistration ==
  ASSUME NEW q, NEW L \in LedgerType, NEW v \in Views, NEW P \in LedgerType, Balanced(P),
         Tells(q, L, v, P, {}), NEW c \in Clients \ P.registered,
         NEW N, N = wasClientAdded(P, c),
         NEW m, m = ClientUpdate(N, c), NEW r, Extended(q, r, m)
  PROVE  Tells(r, L, v, N, {})
<1>1. /\ N.registered = P.registered \cup {c} /\ N.balance = P.balance
      /\ N.lastReq = P.lastReq /\ N.totalBalance = P.totalBalance + InitialBalance
  BY RegistrationEffect
<1>2. /\ m.type = "ADD_CLIENT_UPDATE" /\ m.client = c
      /\ m.balance = P.balance[c] /\ m.lastReq = P.lastReq[c]
  BY <1>1 DEF ClientUpdate
<1>3. L.registered \subseteq P.registered /\ P.registered \subseteq Clients
  BY FieldTypes DEF Tells, Stored
<1>4. \A i \in DOMAIN q : ~Pays(q[i], c) /\ ~Orders(q[i], c)
  <2>1. \A i \in DOMAIN q : 1..(i - 1) \subseteq DOMAIN q
    BY DEF Extended
  <2>2. \A i \in DOMAIN q : ~About(q[i], c)
    BY DEF Tells, Ordered
  <2>3. \A i \in DOMAIN q : ~Pays(q[i], c)
    BY <1>3, <2>1, <2>2 DEF Tells, Ordered
  <2>4. QED
    BY <2>3 DEF Pays, Orders
<1>5. v.balance[c] = P.balance[c] /\ v.lastReq[c] = P.lastReq[c]
  BY <1>4 DEF Tells, Balances, Numbers
<1>6. v.balance[c] = InitialBalance
  BY <1>5 DEF Balanced
<1>7. Stored(L, v, N)
  <2> DEFINE M == P.registered \ L.registered
  <2>1. v.balance \in [Clients -> Int] /\ IsFiniteSet(M) /\ c \notin M /\ M \subseteq Clients
    BY <1>3, FS_Subset DEF Views, Balanced
  <2>2. SumFunctionOnSet(v.balance, M \cup {c}) = v.balance[c] + SumFunctionOnSet(v.balance, M)
    <3>1. \A x \in M \cup {c} : v.balance[x] \in Int
      BY <2>1
    <3> HIDE DEF M
    <3>2. QED
      BY <2>1, <3>1, SumAdd
  <2>3. N.registered \ L.registered = M \cup {c}
    BY <1>1, <1>3
  <2>4. SumFunctionOnSet(v.balance, M) \in Int
    <3>1. \A x \in M : v.balance[x] \in Int
      BY <2>1
    <3> HIDE DEF M
    <3>2. QED
      BY <2>1, <3>1, SumType
  <2>5. L.totalBalance \in Int /\ L.totalBalance + SumFunctionOnSet(v.balance, M) = P.totalBalance
    BY FieldTypes DEF Tells, Stored
  <2>6. L.totalBalance + SumFunctionOnSet(v.balance, M \cup {c}) = N.totalBalance
    <3> HIDE DEF M
    <3> QED BY <1>1, <1>6, <2>2, <2>4, <2>5, InitialBalanceAssumption
  <2>7. L.totalBalance + SumFunctionOnSet(v.balance, N.registered \ L.registered) = N.totalBalance
    BY <2>3, <2>6
  <2>8. \A x \in Clients : x \in L.registered \/ x \notin N.registered
          => v.balance[x] = L.balance[x] /\ v.lastReq[x] = L.lastReq[x]
    BY <1>1 DEF Tells, Stored
  <2>9. L.registered \subseteq N.registered
    BY <1>1, <1>3
  <2>10. QED
    BY <2>7, <2>8, <2>9 DEF Stored
<1>8. Fits(q, L, v, P, {}, m, N, {})
  BY <1>1, <1>2, <1>3, <1>5 DEF Fits, About, Pays, Orders
<1>9. QED
  BY <1>7, <1>8, TellsExtended

\* A transaction is executed and all backups are told.
LEMMA TellsExecution ==
  ASSUME NEW q, NEW L \in LedgerType, NEW v \in Views, NEW P \in LedgerType,
         Tells(q, L, v, P, {}), NEW s \in Clients, NEW d \in Clients, NEW a \in Int,
         NEW n \in Nat, NEW N, Executes(P, N, s, d, a, n),
         NEW m, m = StateUpdate(N), NEW r, Extended(q, r, m)
  PROVE  Tells(r, L, v, N, {})
<1>1. /\ m.type = "STATE_UPDATE" /\ m.transaction.source = s /\ m.transaction.dest = d
      /\ m.transaction.seqn = n
      /\ m.sourceBalance = N.balance[s] /\ m.destBalance = N.balance[d]
  <2>1. Announces(P, N, s, d, a, n, StateUpdate(N))
    BY UpdateOfExecution
  <2>2. QED
    BY <2>1 DEF Announces
<1>2. /\ s \in P.registered /\ d \in P.registered
      /\ N.registered = P.registered /\ N.totalBalance = P.totalBalance
      /\ \A c \in Clients : N.lastReq[c] = IF c = s THEN n ELSE P.lastReq[c]
      /\ \A c \in Clients \ {s, d} : N.balance[c] = P.balance[c]
  BY DEF Executes
<1>3. /\ \A x \in Clients : ~About(m, x)
      /\ \A x \in Clients : Pays(m, x) <=> x \in {s, d}
      /\ \A x \in Clients : Orders(m, x) <=> x = s
      /\ \A x \in {s, d} : Leaves(m, x) = N.balance[x]
  BY <1>1 DEF About, Pays, Orders, Leaves
<1>4. Stored(L, v, N)
  BY <1>2 DEF Tells, Stored
<1>5. \A x \in P.registered : x \in L.registered \/ \E i \in DOMAIN q : About(q[i], x)
  BY DEF Tells, Complete
<1>6. Fits(q, L, v, P, {}, m, N, {})
  BY <1>1, <1>2, <1>3, <1>5 DEF Fits
<1>7. QED
  BY <1>4, <1>6, TellsExtended

\* One client of a snapshot: of the first, or of a later one.
LEMMA TellsSnapshot ==
  ASSUME NEW q, NEW L, NEW v, NEW P \in LedgerType, NEW S, Tells(q, L, v, P, S),
         NEW K, NEW c \in P.registered,
         c \in S => K.balance[c] = v.balance[c] /\ K.lastReq[c] = v.lastReq[c],
         NEW m, m = ClientUpdate(K, c), NEW r, Extended(q, r, m)
  PROVE  Tells(r, L, v, P, S \ {c})
<1>1. /\ m.type = "ADD_CLIENT_UPDATE" /\ m.client = c
      /\ m.balance = K.balance[c] /\ m.lastReq = K.lastReq[c]
  BY DEF ClientUpdate
<1>2. c \notin S /\ c \notin L.registered => \E i \in DOMAIN q : About(q[i], c)
  BY DEF Tells, Complete
<1>3. Fits(q, L, v, P, S, m, P, S \ {c})
  BY <1>1, <1>2 DEF Fits, About, Pays, Orders
<1>4. Stored(L, v, P)
  BY DEF Tells
<1>5. QED
  BY <1>3, <1>4, TellsExtended

\* One entry of the history of a snapshot.
LEMMA TellsEntry ==
  ASSUME NEW q, NEW L, NEW v, NEW P, NEW S, Tells(q, L, v, P, S),
         NEW tx, NEW m, m = HistoryEntry(tx), NEW r, Extended(q, r, m)
  PROVE  Tells(r, L, v, P, S)
<1>1. m.type = "ADD_HISTORY_ENTRY"
  BY DEF HistoryEntry
<1>2. Fits(q, L, v, P, S, m, P, S)
  BY <1>1 DEF Fits, About, Pays, Orders
<1>3. Stored(L, v, P)
  BY DEF Tells
<1>4. QED
  BY <1>2, <1>3, TellsExtended

\* A backup that registers for the first time knows nobody.
LEMMA TellsAtFirst ==
  ASSUME NEW P \in LedgerType, Balanced(P)
  PROVE  \E v \in Views : Tells(<<>>, EmptyLedger, v, P, P.registered)
<1> DEFINE v == [balance |-> P.balance, lastReq |-> P.lastReq]
<1>1. v \in Views /\ P.totalBalance \in Int
  BY FieldTypes DEF Views
<1>2. /\ EmptyLedger.registered = {} /\ EmptyLedger.totalBalance = 0
      /\ \A c \in Clients : EmptyLedger.balance[c] = InitialBalance /\ EmptyLedger.lastReq[c] = 0
  BY DEF EmptyLedger
<1>3. v.balance = P.balance /\ v.lastReq = P.lastReq
  OBVIOUS
<1> HIDE DEF v
<1>4. P.registered \ EmptyLedger.registered = P.registered
  BY <1>2
<1>5. Stored(EmptyLedger, v, P)
  <2>1. EmptyLedger.totalBalance + SumFunctionOnSet(v.balance, P.registered \ EmptyLedger.registered)
          = P.totalBalance
    BY <1>1, <1>2, <1>3, <1>4 DEF Balanced
  <2>2. \A x \in Clients : x \notin P.registered
          => v.balance[x] = EmptyLedger.balance[x] /\ v.lastReq[x] = EmptyLedger.lastReq[x]
    BY <1>2, <1>3 DEF Balanced
  <2>3. QED
    BY <1>2, <2>1, <2>2 DEF Stored
<1>6. DOMAIN <<>> = {}
  OBVIOUS
<1>7. Tells(<<>>, EmptyLedger, v, P, P.registered)
  BY <1>3, <1>5, <1>6 DEF Tells, Introduced, Balances, Numbers, Ordered, Complete
<1>8. QED
  BY <1>1, <1>7

\* A backup that has been told everything has the primary's accounts.
LEMMA TellsAtLast ==
  ASSUME NEW P \in LedgerType, NEW L \in LedgerType, NEW v \in Views, Tells(<<>>, L, v, P, {})
  PROVE  Accounts(L) = Accounts(P)
<1>1. DOMAIN <<>> = {}
  OBVIOUS
<1>2. /\ L.registered \subseteq P.registered /\ P.registered \subseteq L.registered
  BY <1>1 DEF Tells, Complete, Stored
<1>3. L.registered = P.registered
  BY <1>2
<1>4. /\ L.balance \in [Clients -> Int] /\ P.balance \in [Clients -> Int]
      /\ L.lastReq \in [Clients -> Nat] /\ P.lastReq \in [Clients -> Nat]
      /\ L.totalBalance \in Int
  BY FieldTypes
<1>5. \A x \in Clients : L.balance[x] = P.balance[x] /\ L.lastReq[x] = P.lastReq[x]
  <2>1. \A x \in Clients : v.balance[x] = P.balance[x] /\ v.lastReq[x] = P.lastReq[x]
    BY <1>1 DEF Tells, Balances, Numbers
  <2>2. \A x \in Clients : v.balance[x] = L.balance[x] /\ v.lastReq[x] = L.lastReq[x]
    BY <1>3 DEF Tells, Stored
  <2>3. QED
    BY <2>1, <2>2
<1>6. L.balance = P.balance /\ L.lastReq = P.lastReq
  BY <1>4, <1>5
<1>7. L.totalBalance = P.totalBalance
  <2>1. P.registered \ L.registered = {}
    BY <1>3
  <2>2. SumFunctionOnSet(v.balance, P.registered \ L.registered) = 0
    BY <2>1, SumEmpty
  <2>3. QED
    BY <1>4, <2>2 DEF Tells, Stored
<1>8. QED
  BY <1>3, <1>6, <1>7 DEF Accounts

-----------------------------------------------------------------------------
(* What the packets under way will make of the history of a backup that is *)
(* enlisted once.                                                          *)

\* m carries a transaction.
Bears(m) == m.type # "ADD_CLIENT_UPDATE"

\* The first k entries of P's history are in L or under way, in their order, each once.
Recounts(q, L, P, k) ==
  /\ Len(L.history) <= k
  /\ \A i \in 1..Len(L.history) : L.history[i] = P.history[i]
  /\ \A i \in DOMAIN q : Bears(q[i]) =>
       /\ q[i].transaction.id \in (Len(L.history) + 1)..k
       /\ q[i].transaction = P.history[q[i].transaction.id]
  /\ \A i, j \in DOMAIN q : i < j /\ Bears(q[i]) /\ Bears(q[j]) =>
       q[i].transaction.id < q[j].transaction.id
  /\ \A t \in (Len(L.history) + 1)..k : \E i \in DOMAIN q : Bears(q[i]) /\ q[i].transaction.id = t

\* The packet with the next entry is sent.
LEMMA RecountsBearing ==
  ASSUME NEW q, NEW L, NEW P, NEW k \in Nat, Recounts(q, L, P, k), Len(L.history) \in Nat,
         NEW m, Bears(m), m.transaction.id = k + 1,
         NEW N, \A i \in 1..k : N.history[i] = P.history[i], N.history[k + 1] = m.transaction,
         NEW r, Extended(q, r, m), Len(r) = Len(q) + 1
  PROVE  Recounts(r, L, N, k + 1)
<1> DEFINE h == Len(L.history)
           id(i) == r[i].transaction.id
           last == Len(q) + 1
<1>1. /\ Len(q) \in Nat /\ DOMAIN q = 1..Len(q) /\ DOMAIN r = 1..last
      /\ \A i \in DOMAIN q : r[i] = q[i]
      /\ r[last] = m
  BY DEF Extended
<1>2. /\ last \in DOMAIN r /\ \A i \in DOMAIN q : i \in DOMAIN r
      /\ \A i \in DOMAIN r : i \in DOMAIN q \/ i = last
  BY <1>1
<1>3. /\ h \in Nat /\ h <= k
      /\ \A i \in DOMAIN q : Bears(r[i]) => id(i) \in (h + 1)..k /\ r[i].transaction = P.history[id(i)]
      /\ \A i, j \in DOMAIN q : i < j /\ Bears(r[i]) /\ Bears(r[j]) => id(i) < id(j)
      /\ \A t \in (h + 1)..k : \E i \in DOMAIN q : Bears(r[i]) /\ id(i) = t
      /\ id(last) = k + 1
  <2>1. /\ h \in Nat /\ h <= k
        /\ \A i \in DOMAIN q : Bears(q[i]) =>
             /\ q[i].transaction.id \in (h + 1)..k
             /\ q[i].transaction = P.history[q[i].transaction.id]
        /\ \A i, j \in DOMAIN q : i < j /\ Bears(q[i]) /\ Bears(q[j]) =>
             q[i].transaction.id < q[j].transaction.id
        /\ \A t \in (h + 1)..k : \E i \in DOMAIN q : Bears(q[i]) /\ q[i].transaction.id = t
    BY DEF Recounts
  <2>2. /\ \A i \in DOMAIN q : r[i] = q[i] /\ id(i) = q[i].transaction.id
        /\ id(last) = k + 1
    BY <1>1
  <2> HIDE DEF h, id, last
  <2>3. \A i \in DOMAIN q : Bears(r[i]) => id(i) \in (h + 1)..k /\ r[i].transaction = P.history[id(i)]
    BY <2>1, <2>2
  <2>4. \A i, j \in DOMAIN q : i < j /\ Bears(r[i]) /\ Bears(r[j]) => id(i) < id(j)
    BY <2>1, <2>2
  <2>5. \A t \in (h + 1)..k : \E i \in DOMAIN q : Bears(r[i]) /\ id(i) = t
    BY <2>1, <2>2
  <2>6. QED
    BY <2>1, <2>2, <2>3, <2>4, <2>5
<1>4. \A i \in 1..h : L.history[i] = P.history[i] /\ i \in 1..k
  BY <1>3 DEF Recounts
<1> HIDE DEF h
<1>5. \A i \in DOMAIN r : Bears(r[i]) =>
        id(i) \in (h + 1)..(k + 1) /\ r[i].transaction = N.history[id(i)]
  <2>1. ASSUME NEW i \in DOMAIN q, Bears(r[i])
        PROVE  id(i) \in (h + 1)..(k + 1) /\ r[i].transaction = N.history[id(i)]
    <3>1. id(i) \in (h + 1)..k /\ r[i].transaction = P.history[id(i)]
      BY <1>3, <2>1
    <3>2. id(i) \in 1..k /\ id(i) \in (h + 1)..(k + 1)
      BY <1>3, <3>1
    <3>3. QED
      BY <3>1, <3>2
  <2>2. id(last) \in (h + 1)..(k + 1) /\ r[last].transaction = N.history[id(last)]
    <3>1. k + 1 \in (h + 1)..(k + 1)
      BY <1>3
    <3>2. QED
      BY <1>1, <1>3, <3>1
  <2>3. QED
    BY <1>2, <2>1, <2>2
<1> HIDE DEF id
<1>6. \A i, j \in DOMAIN r : i < j /\ Bears(r[i]) /\ Bears(r[j]) => id(i) < id(j)
  <2> SUFFICES ASSUME NEW i \in DOMAIN r, NEW j \in DOMAIN r, i < j, Bears(r[i]), Bears(r[j])
               PROVE  id(i) < id(j)
    OBVIOUS
  <2>1. i \in DOMAIN q
    BY <1>1
  <2>2. id(i) \in (h + 1)..k
    BY <1>3, <2>1
  <2>3. CASE j \in DOMAIN q
    BY <1>3, <2>1, <2>3
  <2>4. CASE j = last
    BY <1>3, <2>2, <2>4
  <2>5. QED
    BY <1>2, <2>3, <2>4
<1>7. \A t \in (h + 1)..(k + 1) : \E i \in DOMAIN r : Bears(r[i]) /\ id(i) = t
  <2>1. \A t \in (h + 1)..(k + 1) : t \in (h + 1)..k \/ t = k + 1
    BY <1>3
  <2>2. QED
    BY <1>1, <1>2, <1>3, <2>1
<1>8. h <= k + 1 /\ \A i \in 1..h : L.history[i] = N.history[i]
  BY <1>3, <1>4
<1>9. QED
  BY <1>5, <1>6, <1>7, <1>8 DEF Recounts, h, id

\* A packet without a transaction is sent.
LEMMA RecountsOther ==
  ASSUME NEW q, NEW L, NEW P, NEW k, Recounts(q, L, P, k),
         NEW m, ~Bears(m), NEW N, N.history = P.history, NEW r, Extended(q, r, m)
  PROVE  Recounts(r, L, N, k)
<1>1. /\ DOMAIN q \subseteq DOMAIN r
      /\ \A i \in DOMAIN r : Bears(r[i]) => i \in DOMAIN q
      /\ \A i \in DOMAIN q : r[i] = q[i]
  BY DEF Extended
<1>2. QED
  BY <1>1 DEF Recounts

\* A packet is handled: the first that carries a transaction carries the next entry.
LEMMA RecountsShortened ==
  ASSUME NEW q, NEW L, NEW P, NEW k \in Nat, Recounts(q, L, P, k), L.history \in Seq(Transaction),
         NEW m, Bears(m) => m.transaction \in Transaction,
         NEW N, N.history = IF Bears(m) THEN Append(L.history, m.transaction) ELSE L.history,
         NEW r, Shortened(q, r, m)
  PROVE  Recounts(r, N, P, k)
<1> DEFINE h == Len(L.history)
           id(i) == q[i].transaction.id
<1>1. /\ Len(q) \in Nat /\ DOMAIN q = 1..Len(q) /\ 1 \in DOMAIN q /\ q[1] = m
      /\ Len(r) = Len(q) - 1 /\ DOMAIN r = 1..Len(r)
      /\ \A i \in DOMAIN r : i + 1 \in DOMAIN q /\ 1 < i + 1 /\ r[i] = q[i + 1]
  BY DEF Shortened
<1>2. \A i \in DOMAIN q : i = 1 \/ (1 < i /\ i - 1 \in DOMAIN r /\ r[i - 1] = q[i])
  <2>1. \A i \in DOMAIN q : i # 1 => 1 < i /\ i - 1 \in DOMAIN r /\ (i - 1) + 1 = i
    BY <1>1
  <2>2. QED
    BY <1>1, <2>1
<1>3. /\ h \in Nat /\ h <= k
      /\ \A i \in 1..h : L.history[i] = P.history[i]
      /\ \A i \in DOMAIN q : Bears(q[i]) => id(i) \in (h + 1)..k /\ q[i].transaction = P.history[id(i)]
      /\ \A i, j \in DOMAIN q : i < j /\ Bears(q[i]) /\ Bears(q[j]) => id(i) < id(j)
      /\ \A t \in (h + 1)..k : \E i \in DOMAIN q : Bears(q[i]) /\ id(i) = t
  BY LenProperties DEF Recounts
<1>4. CASE ~Bears(m)
  <2>1. N.history = L.history
    BY <1>4
  <2> HIDE DEF h
  <2>2. \A i \in DOMAIN r : Bears(r[i]) =>
          r[i].transaction.id \in (h + 1)..k /\ r[i].transaction = P.history[r[i].transaction.id]
    BY <1>1, <1>3
  <2>3. \A i, j \in DOMAIN r : i < j /\ Bears(r[i]) /\ Bears(r[j]) =>
          r[i].transaction.id < r[j].transaction.id
    <3>1. \A i, j \in DOMAIN r : i < j => i + 1 < j + 1
      BY <1>1
    <3>2. QED
      BY <1>1, <1>3, <3>1
  <2>4. \A t \in (h + 1)..k : \E i \in DOMAIN r : Bears(r[i]) /\ r[i].transaction.id = t
    <3> HIDE DEF id
    <3> SUFFICES ASSUME NEW t \in (h + 1)..k
                 PROVE  \E i \in DOMAIN r : Bears(r[i]) /\ r[i].transaction.id = t
      OBVIOUS
    <3>1. PICK i \in DOMAIN q : Bears(q[i]) /\ id(i) = t
      BY <1>3
    <3>2. i # 1
      BY <1>1, <1>4, <3>1
    <3>3. QED
      BY <1>2, <3>1, <3>2 DEF id
  <2>5. QED
    BY <1>3, <2>1, <2>2, <2>3, <2>4 DEF Recounts, h
<1>5. CASE Bears(m)
  <2> HIDE DEF id
  <2>1. id(1) \in (h + 1)..k /\ m.transaction = P.history[id(1)] /\ h + 1 \in (h + 1)..k
    BY <1>1, <1>3, <1>5
  <2>2. id(1) = h + 1
    <3>1. PICK i \in DOMAIN q : Bears(q[i]) /\ id(i) = h + 1
      BY <1>3, <2>1
    <3>2. CASE i = 1
      BY <3>1, <3>2
    <3>3. CASE 1 < i
      <4>1. id(1) < h + 1
        BY <1>1, <1>3, <1>5, <3>1, <3>3
      <4>2. QED
        BY <1>3, <2>1, <4>1
    <3>4. QED
      BY <1>2, <3>2, <3>3
  <2>3. /\ Len(N.history) = h + 1
        /\ \A i \in 1..h : N.history[i] = L.history[i]
        /\ N.history[h + 1] = m.transaction
    BY <1>5, AppendProperties
  <2> HIDE DEF h
  <2>4. \A i \in 1..(h + 1) : N.history[i] = P.history[i]
    <3>1. \A i \in 1..(h + 1) : i \in 1..h \/ i = h + 1
      BY <1>3
    <3>2. QED
      BY <1>3, <2>1, <2>2, <2>3, <3>1
  <2>5. \A i \in DOMAIN r : Bears(r[i]) =>
          /\ r[i].transaction.id \in ((h + 1) + 1)..k
          /\ r[i].transaction = P.history[r[i].transaction.id]
    <3> SUFFICES ASSUME NEW i \in DOMAIN r, Bears(r[i])
                 PROVE  /\ r[i].transaction.id \in ((h + 1) + 1)..k
                        /\ r[i].transaction = P.history[r[i].transaction.id]
      OBVIOUS
    <3>1. i + 1 \in DOMAIN q /\ 1 < i + 1 /\ r[i] = q[i + 1]
      BY <1>1
    <3>2. /\ id(i + 1) \in (h + 1)..k /\ id(1) < id(i + 1)
          /\ q[i + 1].transaction = P.history[id(i + 1)]
      BY <1>1, <1>3, <1>5, <3>1
    <3>3. id(i + 1) \in ((h + 1) + 1)..k
      BY <1>3, <2>2, <3>2
    <3>4. QED
      BY <3>1, <3>2, <3>3 DEF id
  <2>6. \A i, j \in DOMAIN r : i < j /\ Bears(r[i]) /\ Bears(r[j]) =>
          r[i].transaction.id < r[j].transaction.id
    <3>1. \A i, j \in DOMAIN r : i < j => i + 1 < j + 1
      BY <1>1
    <3>2. QED
      BY <1>1, <1>3, <3>1 DEF id
  <2>7. \A t \in ((h + 1) + 1)..k : \E i \in DOMAIN r : Bears(r[i]) /\ r[i].transaction.id = t
    <3> SUFFICES ASSUME NEW t \in ((h + 1) + 1)..k
                 PROVE  \E i \in DOMAIN r : Bears(r[i]) /\ r[i].transaction.id = t
      OBVIOUS
    <3>1. t \in (h + 1)..k /\ t # h + 1
      BY <1>3
    <3>2. PICK i \in DOMAIN q : Bears(q[i]) /\ id(i) = t
      BY <1>3, <3>1
    <3>3. i # 1
      BY <2>2, <3>1, <3>2
    <3>4. QED
      BY <1>2, <3>2, <3>3 DEF id
  <2>8. h + 1 <= k
    BY <1>3, <2>1
  <2>9. QED
    BY <2>3, <2>4, <2>5, <2>6, <2>7, <2>8 DEF Recounts
<1>6. QED
  BY <1>4, <1>5

-----------------------------------------------------------------------------
\* A book's totals are those of its history.
Amount(h) == [i \in DOMAIN h |-> h[i].value]

Summed(L) ==
  /\ L.numTransactions = Len(L.history)
  /\ L.totalTransferred = SumFunctionOnSet(Amount(L.history), DOMAIN L.history)

\* A book is so at first, and after every operation.
LEMMA SummedAtFirst == Summed(EmptyLedger)
<1>1. /\ EmptyLedger.history = <<>> /\ EmptyLedger.numTransactions = 0
      /\ EmptyLedger.totalTransferred = 0
  BY DEF EmptyLedger
<1>2. DOMAIN <<>> = {} /\ Len(<<>>) = 0
  OBVIOUS
<1>3. QED
  BY <1>1, <1>2, SumEmpty DEF Summed

\* An entry is added with its value.
LEMMA SummedEntry ==
  ASSUME NEW L, L.history \in Seq(Transaction), Summed(L), NEW tx \in Transaction,
         NEW N, N.history = Append(L.history, tx), N.numTransactions = L.numTransactions + 1,
         N.totalTransferred = L.totalTransferred + tx.value
  PROVE  Summed(N)
<1> DEFINE h == L.history
           g == N.history
           D == DOMAIN h
           f == Amount(h)
           w == Amount(g)
           last == Len(h) + 1
<1>1. /\ Len(h) \in Nat /\ D = 1..Len(h) /\ Len(g) = last /\ DOMAIN g = 1..last
      /\ \A i \in 1..Len(h) : g[i] = h[i] /\ h[i] \in Transaction
      /\ g[last] = tx
  <2>1. Len(h) \in Nat /\ D = 1..Len(h) /\ \A i \in 1..Len(h) : h[i] \in Transaction
    BY LenProperties, ElementOfSeq
  <2>2. /\ Append(h, tx) \in Seq(Transaction) /\ Len(Append(h, tx)) = last
        /\ \A i \in 1..Len(h) : Append(h, tx)[i] = h[i]
        /\ Append(h, tx)[last] = tx
    BY AppendProperties
  <2>3. DOMAIN Append(h, tx) = 1..Len(Append(h, tx))
    BY <2>2, LenProperties
  <2>4. QED
    BY <2>1, <2>2, <2>3
<1>2. \A t \in Transaction : t.value \in Int
  BY DEF Transaction
<1>3. /\ \A i \in D : f[i] = h[i].value
      /\ \A i \in DOMAIN g : w[i] = g[i].value
  BY DEF Amount
<1> HIDE DEF h, g, f, w, D
<1>4. IsFiniteSet(D) /\ last \notin D /\ DOMAIN g = D \cup {last}
  <2>1. last \notin 1..Len(h) /\ 1..last = (1..Len(h)) \cup {last}
    BY <1>1
  <2>2. IsFiniteSet(1..Len(h))
    BY <1>1, FS_Interval
  <2> HIDE DEF last
  <2>3. QED
    BY <1>1, <2>1, <2>2
<1>5. /\ \A i \in D : f[i] \in Int /\ w[i] = f[i]
      /\ w[last] = tx.value /\ tx.value \in Int
  BY <1>1, <1>2, <1>3, <1>4
<1> HIDE DEF last
<1>6. SumFunctionOnSet(w, D) = SumFunctionOnSet(f, D)
  BY <1>4, <1>5, SumSame
<1>7. SumFunctionOnSet(w, D \cup {last}) = w[last] + SumFunctionOnSet(w, D)
  <2>1. \A i \in D \cup {last} : w[i] \in Int
    BY <1>5
  <2>2. QED
    BY <1>4, <2>1, SumAdd
<1>8. SumFunctionOnSet(f, D) \in Int
  BY <1>4, <1>5, SumType
<1>9. L.totalTransferred = SumFunctionOnSet(f, D) /\ L.numTransactions = Len(h)
  BY DEF Summed, f, D, h
<1>10. N.totalTransferred = SumFunctionOnSet(w, DOMAIN g)
  <2>1. SumFunctionOnSet(w, DOMAIN g) = SumFunctionOnSet(w, D \cup {last})
    BY <1>4
  <2>2. QED
    BY <1>5, <1>6, <1>7, <1>8, <1>9, <2>1
<1>11. N.numTransactions = Len(g)
  BY <1>1, <1>9 DEF last
<1>12. QED
  BY <1>10, <1>11 DEF Summed, g, w

\* Handling a packet counts what it adds to the history.
LEMMA SummedHandled ==
  ASSUME NEW L \in LedgerType, Summed(L), NEW m \in Updates, NEW N \in Handled(L, m)
  PROVE  Summed(N)
<1> DEFINE tx == m.transaction
           E == handleHistoryEntry(L, m)
<1>1. /\ m.type \in {"ADD_CLIENT_UPDATE", "ADD_HISTORY_ENTRY", "STATE_UPDATE"}
      /\ m.type # "ADD_CLIENT_UPDATE" => tx \in Transaction
  BY DEF Updates, ClientUpdates, HistoryEntries, StateUpdates
<1>2. N.history = IF m.type = "ADD_CLIENT_UPDATE" THEN L.history ELSE Append(L.history, tx)
  BY HandledHistory
<1>3. CASE m.type = "ADD_CLIENT_UPDATE"
  <2>1. N = handleClientUpdate(L, m)
    BY <1>3 DEF Handled
  <2>2. N.numTransactions = L.numTransactions /\ N.totalTransferred = L.totalTransferred
    BY <2>1 DEF handleClientUpdate, LedgerType
  <2>3. QED
    BY <1>2, <1>3, <2>2 DEF Summed
<1>4. CASE m.type # "ADD_CLIENT_UPDATE"
  <2>1. /\ E.numTransactions = L.numTransactions + 1
        /\ E.totalTransferred = L.totalTransferred + tx.value
        /\ DOMAIN E = {"registered", "balance", "lastReq", "history", "numTransactions",
                       "totalTransferred", "totalBalance"}
    BY DEF handleHistoryEntry, LedgerType
  <2>2. N.numTransactions = E.numTransactions /\ N.totalTransferred = E.totalTransferred
    <3>1. CASE m.type = "ADD_HISTORY_ENTRY"
      BY <3>1 DEF Handled
    <3>2. CASE m.type = "STATE_UPDATE"
      <4> DEFINE A == [E EXCEPT !.registered = L.registered \cup {tx.source, tx.dest}]
      <4>1. N \in handleStateUpdate(L, m)
        BY <3>2 DEF Handled
      <4>2. \E x, y : N = [A EXCEPT !.balance = x] \/ N = [A EXCEPT !.balance = x, !.lastReq = y]
        BY <4>1 DEF handleStateUpdate
      <4> HIDE DEF E, tx
      <4>3. QED
        BY <2>1, <4>2
    <3>3. QED
      BY <1>1, <1>4, <3>1, <3>2
  <2>3. L.history \in Seq(Transaction) /\ tx \in Transaction /\ N.history = Append(L.history, tx)
    BY <1>1, <1>2, <1>4, FieldTypes
  <2>4. QED
    BY <2>1, <2>2, <2>3, SummedEntry
<1>5. QED
  BY <1>3, <1>4

\* An execution counts the entry it adds.
LEMMA SummedExecution ==
  ASSUME NEW P \in LedgerType, Summed(P), NEW s \in Clients, NEW d \in Clients, NEW v \in Int,
         NEW n \in Nat, NEW N, Executes(P, N, s, d, v, n)
  PROVE  Summed(N)
<1> DEFINE tx == newTransaction(P, s, d, v, n)
<1>1. tx.value = v
  BY DEF newTransaction
<1>2. tx \in Transaction /\ P.history \in Seq(Transaction)
  <2>1. P.history \in Seq(Transaction) /\ P.numTransactions + 1 \in Nat
    BY FieldTypes
  <2>2. QED
    BY <2>1 DEF newTransaction, Transaction
<1>3. /\ N.history = Append(P.history, tx) /\ N.numTransactions = P.numTransactions + 1
      /\ N.totalTransferred = P.totalTransferred + tx.value
  BY <1>1 DEF Executes
<1> HIDE DEF tx
<1>4. QED
  BY <1>2, <1>3, SummedEntry

-----------------------------------------------------------------------------
(* What holds of a backup that nothing went wrong with and that no         *)
(* transaction overtook: packets q under way and book L, enlisted n times, *)
(* with the clients S of its first snapshot and the entries l still to be  *)
(* sent of the copy K.                                                     *)

\* How many entries are sent, when l are left.
Covered(P, l) == Len(P.history) - Len(l)

\* Who never registered was sent nothing.
Unmet(q, L, n, S, l) == n = 0 => q = <<>> /\ L = EmptyLedger /\ S = {} /\ l = <<>>

\* Until all clients of the first snapshot are sent, the copy is the primary's.
CopyHolds(q, P, S, K) ==
  S # {} => /\ K.balance = P.balance /\ K.lastReq = P.lastReq
            /\ \A i \in DOMAIN q : q[i].type # "STATE_UPDATE"

\* The accounts are there, or on their way, for whoever is enlisted.
KnowsAccounts(q, L, P, n, S) == n > 0 => \E v \in Views : Tells(q, L, v, P, S)

\* The history is, entry by entry, for who is enlisted once.
KnowsHistory(q, L, P, n, l) ==
  n = 1 => /\ Recounts(q, L, P, Covered(P, l))
           /\ \A i \in DOMAIN l : l[i] = P.history[Covered(P, l) + i]

Current(q, L, P, n, S, K, l) ==
  /\ Unmet(q, L, n, S, l) /\ CopyHolds(q, P, S, K)
  /\ KnowsAccounts(q, L, P, n, S) /\ KnowsHistory(q, L, P, n, l) /\ Summed(L)

\* What becomes of a channel when m is sent n times.
LEMMA SentTo ==
  ASSUME NEW q \in Seq(Updates), NEW m \in Updates, NEW n \in Nat
  PROVE  /\ n > 0 => Extended(q, Sent(q, m, n), m)
         /\ Len(Sent(q, m, n)) = Len(q) + n
         /\ n = 0 => Sent(q, m, n) = q
<1>1. CASE n = 0
  <2> DEFINE c == [k \in 1..n |-> m]
  <2>1. c = <<>>
    BY <1>1
  <2> HIDE DEF c
  <2>2. q \o c = q /\ Len(q) \in Nat
    BY <2>1
  <2>3. Sent(q, m, n) = q
    BY <2>2 DEF Sent, c
  <2>4. QED
    BY <1>1, <2>2, <2>3
<1>2. CASE n # 0
  <2>1. n \in Nat \ {0}
    BY <1>2
  <2>2. QED
    BY <1>2, <2>1, SentExtends
<1>3. QED
  BY <1>1, <1>2

\* A client is registered.
LEMMA CurrentRegistration ==
  ASSUME NEW q \in Seq(Updates), NEW L \in LedgerType, NEW P \in LedgerType, NEW n \in Nat,
         NEW K, NEW l, l = <<>>, Current(q, L, P, n, {}, K, l), Balanced(P),
         NEW c \in Clients \ P.registered, NEW N, N = wasClientAdded(P, c),
         NEW m \in Updates, m = ClientUpdate(N, c)
  PROVE  Current(Sent(q, m, n), L, N, n, {}, K, l)
<1> DEFINE r == Sent(q, m, n)
<1>1. /\ n > 0 => Extended(q, r, m)
      /\ n = 0 => r = q
  BY SentTo
<1> HIDE DEF r
<1>2. N.history = P.history
  BY RegistrationEffect
<1>3. m.type = "ADD_CLIENT_UPDATE"
  BY DEF ClientUpdate
<1>4. KnowsAccounts(r, L, N, n, {})
  <2> SUFFICES ASSUME n > 0 PROVE \E v \in Views : Tells(r, L, v, N, {})
    BY DEF KnowsAccounts
  <2>1. PICK v \in Views : Tells(q, L, v, P, {})
    BY DEF Current, KnowsAccounts
  <2>2. Tells(r, L, v, N, {})
    BY <1>1, <2>1, TellsRegistration
  <2>3. QED
    BY <2>2
<1>5. KnowsHistory(r, L, N, n, l)
  <2> SUFFICES ASSUME n = 1
               PROVE  /\ Recounts(r, L, N, Covered(N, l))
                      /\ \A i \in DOMAIN l : l[i] = N.history[Covered(N, l) + i]
    BY DEF KnowsHistory
  <2>1. Covered(N, l) = Covered(P, l)
    BY <1>2 DEF Covered
  <2> DEFINE k == Covered(P, l)
  <2>2. /\ Recounts(q, L, P, k)
        /\ \A i \in DOMAIN l : l[i] = P.history[k + i]
    BY DEF Current, KnowsHistory
  <2>3. Extended(q, r, m) /\ ~Bears(m)
    BY <1>1, <1>3 DEF Bears
  <2> HIDE DEF k
  <2>4. Recounts(r, L, N, k)
    BY <1>2, <2>2, <2>3, RecountsOther
  <2>5. QED
    BY <1>2, <2>1, <2>2, <2>4 DEF k
<1>6. Unmet(r, L, n, {}, l) /\ CopyHolds(r, N, {}, K) /\ Summed(L)
  BY <1>1 DEF Current, Unmet, CopyHolds
<1>7. QED
  BY <1>4, <1>5, <1>6 DEF Current, r

\* A transaction is executed.
LEMMA CurrentExecution ==
  ASSUME NEW q \in Seq(Updates), NEW L \in LedgerType, NEW P \in LedgerType, NEW n \in Nat,
         NEW K, NEW l, n = 1 => l = <<>>, Current(q, L, P, n, {}, K, l), Numbered(P), Summed(P),
         NEW s \in Clients, NEW d \in Clients, NEW a \in Int, NEW e \in Nat,
         NEW N, Executes(P, N, s, d, a, e), NEW m \in Updates, m = StateUpdate(N)
  PROVE  Current(Sent(q, m, n), L, N, n, {}, K, l)
<1> DEFINE r == Sent(q, m, n)
           k == Len(P.history)
<1>1. /\ n > 0 => Extended(q, r, m)
      /\ n = 0 => r = q
      /\ Len(r) = Len(q) + n
  BY SentTo
<1> HIDE DEF r
<1>2. Announces(P, N, s, d, a, e, StateUpdate(N))
  BY UpdateOfExecution
<1>3. /\ m.type = "STATE_UPDATE" /\ m.transaction = newTransaction(P, s, d, a, e)
      /\ m.transaction.id = P.numTransactions + 1
  BY <1>2 DEF Announces
<1>4. N.history = Append(P.history, m.transaction)
  BY <1>3 DEF Executes
<1>5. P.history \in Seq(Transaction) /\ k \in Nat /\ P.numTransactions = k
  BY FieldTypes DEF Numbered
<1>6. /\ Len(N.history) = k + 1 /\ N.history[k + 1] = m.transaction
      /\ \A i \in 1..k : N.history[i] = P.history[i]
  <2> DEFINE h == P.history
             tx == m.transaction
  <2>1. tx \in Transaction
    BY <1>3 DEF Updates, ClientUpdates, HistoryEntries, StateUpdates
  <2> HIDE DEF h, tx
  <2>2. h \in Seq(Transaction) /\ N.history = Append(h, tx) /\ k = Len(h)
    BY <1>4, <1>5 DEF h, tx
  <2> HIDE DEF k
  <2>3. /\ Len(N.history) = k + 1 /\ N.history[k + 1] = tx
        /\ \A i \in 1..k : N.history[i] = h[i]
    BY <2>1, <2>2, AppendProperties
  <2>4. QED
    BY <2>3 DEF h, tx
<1> HIDE DEF k
<1>7. KnowsAccounts(r, L, N, n, {})
  <2> SUFFICES ASSUME n > 0 PROVE \E v \in Views : Tells(r, L, v, N, {})
    BY DEF KnowsAccounts
  <2>1. PICK v \in Views : Tells(q, L, v, P, {})
    BY DEF Current, KnowsAccounts
  <2>2. Tells(r, L, v, N, {})
    BY <1>1, <2>1, TellsExecution
  <2>3. QED
    BY <2>2
<1>8. KnowsHistory(r, L, N, n, l)
  <2> SUFFICES ASSUME n = 1
               PROVE  /\ Recounts(r, L, N, Covered(N, l))
                      /\ \A i \in DOMAIN l : l[i] = N.history[Covered(N, l) + i]
    BY DEF KnowsHistory
  <2>1. Len(<<>>) = 0 /\ DOMAIN <<>> = {}
    OBVIOUS
  <2>2. Covered(P, l) = k /\ Covered(N, l) = k + 1 /\ DOMAIN l = {}
    <3>1. Covered(P, l) = k - 0 /\ Covered(N, l) = (k + 1) - 0
      BY <1>6, <2>1 DEF Covered, k
    <3>2. QED
      BY <1>5, <2>1, <3>1
  <2>3. Recounts(q, L, P, k)
    BY <2>2 DEF Current, KnowsHistory
  <2>4. Extended(q, r, m) /\ Bears(m) /\ Len(r) = Len(q) + 1 /\ m.transaction.id = k + 1
    BY <1>1, <1>3, <1>5 DEF Bears
  <2>5. Len(L.history) \in Nat
    BY FieldTypes
  <2>6. Recounts(r, L, N, k + 1)
    BY <1>5, <1>6, <2>3, <2>4, <2>5, RecountsBearing
  <2>7. QED
    BY <2>2, <2>6
<1>9. Unmet(r, L, n, {}, l) /\ CopyHolds(r, N, {}, K) /\ Summed(L)
  BY <1>1 DEF Current, Unmet, CopyHolds
<1>10. QED
  BY <1>7, <1>8, <1>9 DEF Current, r

\* The backup registers for the first time.
LEMMA CurrentFirst ==
  ASSUME NEW q, NEW L, NEW P \in LedgerType, NEW S, NEW K, NEW l,
         Current(q, L, P, 0, S, K, l), Balanced(P)
  PROVE  Current(q, L, P, 1, P.registered, P, P.history)
<1>1. q = <<>> /\ L = EmptyLedger /\ Summed(L)
  BY DEF Current, Unmet
<1>2. \E v \in Views : Tells(q, L, v, P, P.registered)
  BY <1>1, TellsAtFirst
<1>3. DOMAIN <<>> = {} /\ Len(<<>>) = 0
  OBVIOUS
<1>4. L.history = <<>>
  BY <1>1 DEF EmptyLedger
<1>5. Covered(P, P.history) = 0
  BY FieldTypes DEF Covered
<1>6. \A i \in DOMAIN P.history : Covered(P, P.history) + i = i
  BY <1>5, FieldTypes
<1>7. Recounts(q, L, P, 0)
  BY <1>1, <1>3, <1>4 DEF Recounts
<1>8. KnowsHistory(q, L, P, 1, P.history)
  BY <1>5, <1>6, <1>7 DEF KnowsHistory
<1>9. QED
  BY <1>1, <1>2, <1>3, <1>8 DEF Current, Unmet, CopyHolds, KnowsAccounts

\* It registers again, or what is left to send of a copy is all sent.
LEMMA CurrentAgain ==
  ASSUME NEW q, NEW L, NEW P, NEW n \in Nat, n > 0, NEW K, NEW l,
         Current(q, L, P, n, {}, K, l), NEW M, NEW j
  PROVE  Current(q, L, P, n + 1, {}, M, j)
BY DEF Current, Unmet, CopyHolds, KnowsAccounts, KnowsHistory

\* A client of the copy is sent.
LEMMA CurrentClient ==
  ASSUME NEW q \in Seq(Updates), NEW L, NEW P \in LedgerType, NEW n \in Nat, n > 0,
         NEW K, NEW l, NEW c \in P.registered, NEW S, S = {} \/ c \in S,
         Current(q, L, P, n, S, K, l),
         NEW m \in Updates, m = ClientUpdate(K, c),
         NEW M, S \ {c} # {} => M.balance = K.balance /\ M.lastReq = K.lastReq
  PROVE  Current(Append(q, m), L, P, n, S \ {c}, M, l)
<1> DEFINE r == Append(q, m)
<1>1. Extended(q, r, m)
  BY AppendExtends
<1> HIDE DEF r
<1>2. m.type = "ADD_CLIENT_UPDATE"
  BY DEF ClientUpdate
<1>3. KnowsAccounts(r, L, P, n, S \ {c})
  <2>1. PICK v \in Views : Tells(q, L, v, P, S)
    BY DEF Current, KnowsAccounts
  <2>2. ASSUME c \in S PROVE K.balance[c] = v.balance[c] /\ K.lastReq[c] = v.lastReq[c]
    <3>1. c \in Clients
      BY FieldTypes
    <3>2. /\ K.balance = P.balance /\ K.lastReq = P.lastReq
          /\ \A i \in DOMAIN q : ~Pays(q[i], c) /\ ~Orders(q[i], c)
      BY <2>2 DEF Current, CopyHolds, Pays, Orders
    <3>3. v.balance[c] = P.balance[c] /\ v.lastReq[c] = P.lastReq[c]
      BY <2>1, <3>1, <3>2 DEF Tells, Balances, Numbers
    <3>4. QED
      BY <3>2, <3>3
  <2>3. Tells(r, L, v, P, S \ {c})
    BY <1>1, <2>1, <2>2, TellsSnapshot
  <2>4. QED
    BY <2>3 DEF KnowsAccounts
<1>4. KnowsHistory(r, L, P, n, l)
  <2> SUFFICES ASSUME n = 1
               PROVE  /\ Recounts(r, L, P, Covered(P, l))
                      /\ \A i \in DOMAIN l : l[i] = P.history[Covered(P, l) + i]
    BY DEF KnowsHistory
  <2>1. /\ Recounts(q, L, P, Covered(P, l))
        /\ \A i \in DOMAIN l : l[i] = P.history[Covered(P, l) + i]
    BY DEF Current, KnowsHistory
  <2>2. ~Bears(m)
    BY <1>2 DEF Bears
  <2>3. Recounts(r, L, P, Covered(P, l))
    BY <1>1, <2>1, <2>2, RecountsOther
  <2>4. QED
    BY <2>1, <2>3
<1>5. CopyHolds(r, P, S \ {c}, M)
  <2>1. \A i \in DOMAIN r : (i \in DOMAIN q /\ r[i] = q[i]) \/ r[i] = m
    BY <1>1 DEF Extended
  <2>2. QED
    BY <1>2, <2>1 DEF Current, CopyHolds
<1>6. Unmet(r, L, n, S \ {c}, l) /\ Summed(L)
  BY DEF Current, Unmet
<1>7. QED
  BY <1>3, <1>4, <1>5, <1>6 DEF Current, r

\* An entry of the history is sent.
LEMMA CurrentEntry ==
  ASSUME NEW q \in Seq(Updates), NEW L \in LedgerType, NEW P \in LedgerType, Numbered(P),
         NEW n \in Nat, n > 0, NEW K, NEW l \in Seq(Transaction), l # <<>>,
         Current(q, L, P, n, {}, K, l),
         NEW m \in Updates, m = HistoryEntry(Head(l)), NEW M
  PROVE  Current(Append(q, m), L, P, n, {}, M, Tail(l))
<1> DEFINE r == Append(q, m)
           j == Tail(l)
<1>1. Extended(q, r, m) /\ Len(r) = Len(q) + 1
  BY AppendExtends
<1>2. /\ Len(l) \in Nat /\ Len(l) > 0 /\ DOMAIN l = 1..Len(l)
      /\ Len(j) = Len(l) - 1 /\ DOMAIN j = 1..Len(j)
      /\ l[1] = Head(l) /\ \A i \in 1..Len(j) : j[i] = l[i + 1]
  BY TailShortens DEF Shortened
<1> HIDE DEF r, j
<1>3. m.type = "ADD_HISTORY_ENTRY" /\ m.transaction = l[1]
  BY <1>2 DEF HistoryEntry
<1>4. KnowsAccounts(r, L, P, n, {})
  <2>1. PICK v \in Views : Tells(q, L, v, P, {})
    BY DEF Current, KnowsAccounts
  <2>2. Tells(r, L, v, P, {})
    BY <1>1, <2>1, TellsEntry
  <2>3. QED
    BY <2>2 DEF KnowsAccounts
<1>5. KnowsHistory(r, L, P, n, j)
  <2> SUFFICES ASSUME n = 1
               PROVE  /\ Recounts(r, L, P, Covered(P, j))
                      /\ \A i \in DOMAIN j : j[i] = P.history[Covered(P, j) + i]
    BY DEF KnowsHistory
  <2> DEFINE k == Covered(P, l)
             H == Len(P.history)
  <2>1. /\ Recounts(q, L, P, k)
        /\ \A i \in DOMAIN l : l[i] = P.history[k + i]
    BY DEF Current, KnowsHistory
  <2>2. H \in Nat /\ DOMAIN P.history = 1..H /\ Len(L.history) \in Nat
    BY FieldTypes
  <2>3. k = H - Len(l) /\ Covered(P, j) = H - (Len(l) - 1)
    BY <1>2 DEF Covered
  <2>4. Len(L.history) <= k
    BY <2>1 DEF Recounts
  <2> HIDE DEF k, H
  <2>5. /\ k \in Nat /\ Covered(P, j) = k + 1 /\ k + 1 \in 1..H
    BY <1>2, <2>2, <2>3, <2>4
  <2>6. m.transaction = P.history[k + 1] /\ m.transaction.id = k + 1
    <3>1. 1 \in DOMAIN l
      BY <1>2
    <3>2. l[1] = P.history[k + 1]
      BY <2>1, <3>1
    <3>3. P.history[k + 1].id = k + 1
      BY <2>2, <2>5 DEF Numbered
    <3>4. QED
      BY <1>3, <3>2, <3>3
  <2>7. Bears(m)
    BY <1>3 DEF Bears
  <2>8. Recounts(r, L, P, k + 1)
    BY <1>1, <2>1, <2>2, <2>5, <2>6, <2>7, RecountsBearing
  <2>9. ASSUME NEW i \in DOMAIN j
        PROVE  j[i] = P.history[(k + 1) + i]
    <3>1. i \in 1..Len(j) /\ j[i] = l[i + 1]
      BY <1>2
    <3> DEFINE a == Len(j)
               b == Len(l)
    <3>2. a = b - 1 /\ b \in Nat /\ i \in 1..a /\ DOMAIN l = 1..b
      BY <1>2, <3>1
    <3> HIDE DEF a, b
    <3>3. i + 1 \in DOMAIN l /\ k + (i + 1) = (k + 1) + i
      BY <2>5, <3>2
    <3>4. QED
      BY <2>1, <3>1, <3>3
  <2>10. QED
    BY <2>5, <2>8, <2>9
<1>6. Unmet(r, L, n, {}, j) /\ CopyHolds(r, P, {}, M) /\ Summed(L)
  BY DEF Current, Unmet, CopyHolds
<1>7. QED
  BY <1>4, <1>5, <1>6 DEF Current, r, j

\* The backup handles a packet.
LEMMA CurrentReceived ==
  ASSUME NEW q \in Seq(Updates), q # <<>>, NEW L \in LedgerType, NEW P \in LedgerType,
         Balanced(P), NEW n \in Nat, NEW S, NEW K, NEW l \in Seq(Transaction),
         Current(q, L, P, n, S, K, l), NEW N \in Handled(L, Head(q))
  PROVE  Current(Tail(q), N, P, n, S, K, l)
<1> DEFINE r == Tail(q)
           m == Head(q)
<1>1. Shortened(q, r, m) /\ m \in Updates
  BY TailShortens
<1>2. n > 0
  BY DEF Current, Unmet
<1>3. KnowsAccounts(r, N, P, n, S)
  <2>1. PICK v \in Views : Tells(q, L, v, P, S)
    BY <1>2 DEF Current, KnowsAccounts
  <2>2. \E w \in Views : Tells(r, N, w, P, S)
    BY <2>1, TellsReceived DEF Balanced
  <2>3. QED
    BY <2>2 DEF KnowsAccounts
<1> HIDE DEF r
<1>4. KnowsHistory(r, N, P, n, l)
  <2> SUFFICES ASSUME n = 1
               PROVE  /\ Recounts(r, N, P, Covered(P, l))
                      /\ \A i \in DOMAIN l : l[i] = P.history[Covered(P, l) + i]
    BY DEF KnowsHistory
  <2> DEFINE k == Covered(P, l)
  <2>1. /\ Recounts(q, L, P, k)
        /\ \A i \in DOMAIN l : l[i] = P.history[k + i]
    BY DEF Current, KnowsHistory
  <2>2. k \in Nat
    <3>1. Len(L.history) \in Nat /\ Len(P.history) \in Nat /\ Len(l) \in Nat
      BY FieldTypes, LenProperties
    <3>2. Len(L.history) <= Len(P.history) - Len(l)
      BY <2>1 DEF Recounts, Covered
    <3>3. QED
      BY <3>1, <3>2 DEF Covered
  <2> HIDE DEF k
  <2>3. /\ L.history \in Seq(Transaction)
        /\ Bears(m) => m.transaction \in Transaction
        /\ N.history = IF Bears(m) THEN Append(L.history, m.transaction) ELSE L.history
    <3>1. L.history \in Seq(Transaction)
      BY FieldTypes
    <3>2. Bears(m) => m.transaction \in Transaction
      BY <1>1 DEF Bears, Updates, ClientUpdates, HistoryEntries, StateUpdates
    <3>3. N.history = IF m.type = "ADD_CLIENT_UPDATE" THEN L.history
                      ELSE Append(L.history, m.transaction)
      BY <1>1, HandledHistory
    <3>4. QED
      BY <3>1, <3>2, <3>3 DEF Bears
  <2> HIDE DEF m
  <2>4. Recounts(r, N, P, k)
    BY <1>1, <2>1, <2>2, <2>3, RecountsShortened
  <2>5. QED
    BY <2>1, <2>4 DEF k
<1>5. CopyHolds(r, P, S, K)
  <2>1. \A i \in DOMAIN r : i + 1 \in DOMAIN q /\ r[i] = q[i + 1]
    BY <1>1 DEF Shortened
  <2>2. CopyHolds(q, P, S, K)
    BY DEF Current
  <2>3. QED
    BY <2>1, <2>2 DEF CopyHolds
<1>6. Unmet(r, N, n, S, l)
  BY <1>2 DEF Unmet
<1>7. Summed(N)
  BY <1>1, SummedHandled DEF Current
<1>8. QED
  BY <1>3, <1>4, <1>5, <1>6, <1>7 DEF Current, r

\* The backup has all, when there is no more to come.
LEMMA CurrentAtLast ==
  ASSUME NEW L \in LedgerType, NEW P \in LedgerType, Summed(P), NEW n \in Nat, n > 0,
         NEW K, Current(<<>>, L, P, n, {}, K, <<>>)
  PROVE  /\ Accounts(L) = Accounts(P)
         /\ n = 1 => L = P
<1>1. Accounts(L) = Accounts(P)
  <2>1. PICK v \in Views : Tells(<<>>, L, v, P, {})
    BY DEF Current, KnowsAccounts
  <2>2. QED
    BY <2>1, TellsAtLast
<1>2. ASSUME n = 1
      PROVE  L = P
  <2> DEFINE h == L.history
             g == P.history
             k == Covered(P, <<>>)
  <2>1. DOMAIN <<>> = {} /\ Len(<<>>) = 0
    OBVIOUS
  <2>2. /\ h \in Seq(Transaction) /\ g \in Seq(Transaction) /\ Len(h) \in Nat /\ Len(g) \in Nat
    BY FieldTypes
  <2>3. k = Len(g)
    BY <2>1, <2>2 DEF Covered
  <2>4. /\ Len(h) <= k /\ \A i \in 1..Len(h) : h[i] = g[i]
        /\ \A t \in (Len(h) + 1)..k : FALSE
    BY <1>2, <2>1 DEF Current, KnowsHistory, Recounts
  <2> HIDE DEF h, g, k
  <2>5. Len(h) = Len(g)
    <3>1. Len(h) < k => Len(h) + 1 \in (Len(h) + 1)..k
      BY <2>2, <2>3
    <3>2. QED
      BY <2>2, <2>3, <2>4, <3>1
  <2>6. h = g
    BY <2>2, <2>4, <2>5, SeqEqual
  <2>7. L.history = P.history
    BY <2>6 DEF h, g
  <2>8. L.numTransactions = P.numTransactions /\ L.totalTransferred = P.totalTransferred
    BY <2>7 DEF Summed, Current
  <2>9. /\ L.registered = P.registered /\ L.balance = P.balance /\ L.lastReq = P.lastReq
        /\ L.totalBalance = P.totalBalance
    BY <1>1 DEF Accounts
  <2>10. ASSUME NEW M \in LedgerType
         PROVE  M = [registered |-> M.registered, balance |-> M.balance, lastReq |-> M.lastReq,
                     history |-> M.history, numTransactions |-> M.numTransactions,
                     totalTransferred |-> M.totalTransferred, totalBalance |-> M.totalBalance]
    BY <2>10 DEF LedgerType
  <2>11. QED
    BY <2>7, <2>8, <2>9, <2>10
<1>3. QED
  BY <1>1, <1>2

-----------------------------------------------------------------------------
\* Nothing went wrong with b, and no transaction overtook its first snapshot.
Fair(b) == faults[b] = 0 /\ b \notin overtaken

\* The clients of b's first snapshot that are still to be sent.
Rest(b) == IF b \in syncing /\ backup_servers[b] = 1 THEN snapshot.registered ELSE {}

\* What holds of b then.
UpToDate(b) ==
  Current(chan[b], book[b], ledger, backup_servers[b], Rest(b), snapshot, Left(b))

\* Who is sent a snapshot is enlisted, and the snapshot has no client the primary has not.
Underway ==
  \A b \in syncing : backup_servers[b] > 0 /\ snapshot.registered \subseteq ledger.registered

\* The invariant that keeps backups in step.
SyncInv ==
  /\ Forgetless /\ Underway /\ Balanced(ledger) /\ Summed(ledger)
  /\ \A b \in Backups : Fair(b) => UpToDate(b)

\* Types of what the invariant says of a backup.
Typed(b) ==
  /\ chan[b] \in Seq(Updates) /\ book[b] \in LedgerType /\ backup_servers[b] \in Nat
  /\ Left(b) \in Seq(Transaction)

LEMMA SyncTypes ==
  ASSUME SyncInv
  PROVE  /\ ledger \in LedgerType /\ Numbered(ledger)
         /\ \A b \in Backups : Typed(b)
<1>1. IInv
  BY DEF SyncInv, Forgetless
<1>2. \A b \in Backups : Counted(b)
  BY <1>1, CopiesCounted DEF AllCounted
<1>3. QED
  BY <1>1, <1>2 DEF Typed, Counted, IInv, BooksBehind

\* It holds at first.
LEMMA SyncAtFirst == Init => SyncInv
<1> SUFFICES ASSUME Init PROVE SyncInv
  OBVIOUS
<1>1. Balanced(ledger) /\ Summed(ledger)
  BY BalancedAtFirst, SummedAtFirst DEF Init
<1>2. Underway
  BY DEF Init, Underway
<1>3. ASSUME NEW b \in Backups
      PROVE  UpToDate(b)
  <2>1. /\ chan[b] = <<>> /\ book[b] = EmptyLedger /\ backup_servers[b] = 0
        /\ Rest(b) = {} /\ Left(b) = <<>>
    BY <1>3 DEF Init, Rest, Left
  <2>2. Current(<<>>, EmptyLedger, ledger, 0, {}, snapshot, <<>>)
    BY SummedAtFirst DEF Current, Unmet, CopyHolds, KnowsAccounts, KnowsHistory
  <2>3. QED
    BY <2>1, <2>2 DEF UpToDate
<1>4. QED
  BY <1>1, <1>2, <1>3, ForgetlessAtFirst DEF SyncInv

\* The primary registers a client.
LEMMA SyncRegistration ==
  ASSUME SyncInv, NEW c \in Clients, addClient(c), Forgetless'
  PROVE  SyncInv'
<1>1. ledger \in LedgerType /\ Numbered(ledger) /\ \A b \in Backups : Typed(b)
  BY SyncTypes
<1>2. /\ syncing = {} /\ ledger' = wasClientAdded(ledger, c)
      /\ UNCHANGED <<backup_servers, syncing, snapshot, book, overtaken, faults>>
      /\ IF c \in ledger.registered THEN chan' = chan ELSE propagate(ClientUpdate(ledger', c))
  BY DEF addClient, findClient
<1>3. Balanced(ledger')
  BY <1>1, <1>2, BalancedRegistration DEF SyncInv
<1>4. Summed(ledger')
  <2>1. /\ ledger'.history = ledger.history
        /\ ledger'.numTransactions = ledger.numTransactions
        /\ ledger'.totalTransferred = ledger.totalTransferred
    BY <1>1, <1>2, RegistrationEffect
  <2>2. QED
    BY <2>1 DEF SyncInv, Summed
<1>5. ASSUME NEW b \in Backups, Fair(b)'
      PROVE  UpToDate(b)'
  <2>1. /\ Rest(b) = {} /\ Left(b) = <<>> /\ Rest(b)' = {} /\ Left(b)' = <<>>
    BY <1>2 DEF Rest, Left
  <2>2. Fair(b) /\ Typed(b)
    BY <1>1, <1>2, <1>5 DEF Fair
  <2>3. Current(chan[b], book[b], ledger, backup_servers[b], {}, snapshot, <<>>)
    BY <2>1, <2>2 DEF SyncInv, UpToDate
  <2>4. Current(chan'[b], book[b], ledger', backup_servers[b], {}, snapshot, <<>>)
    <3>1. CASE c \in ledger.registered
      <4>1. ledger' = ledger /\ chan' = chan
        BY <1>2, <3>1 DEF wasClientAdded, findClient
      <4>2. QED
        BY <2>3, <4>1
    <3>2. CASE c \notin ledger.registered
      <4> DEFINE m == ClientUpdate(ledger', c)
      <4>1. chan'[b] = Sent(chan[b], m, backup_servers[b])
        BY <1>2, <3>2 DEF propagate, Sent
      <4>2. m \in Updates
        <5>1. ledger' \in LedgerType /\ ledger' \in BooksBehind(ledger')
          BY BehindItself DEF Forgetless, IInv
        <5>2. m \in SoundPackets(ledger')
          BY <5>1, ClientUpdateSound
        <5>3. QED
          BY <5>2 DEF SoundPackets
      <4>3. /\ chan[b] \in Seq(Updates) /\ book[b] \in LedgerType /\ backup_servers[b] \in Nat
            /\ Balanced(ledger)
        BY <2>2 DEF Typed, SyncInv
      <4> HIDE DEF m
      <4>4. Current(Sent(chan[b], m, backup_servers[b]), book[b], ledger', backup_servers[b],
                    {}, snapshot, <<>>)
        BY <1>1, <1>2, <2>3, <3>2, <4>2, <4>3, CurrentRegistration DEF m
      <4>5. QED
        BY <4>1, <4>4
    <3>3. QED
      BY <3>1, <3>2
  <2>5. QED
    BY <1>2, <2>1, <2>4 DEF UpToDate
<1>6. Underway'
  BY <1>2 DEF Underway
<1>7. QED
  BY <1>3, <1>4, <1>5, <1>6 DEF SyncInv

\* It executes a transaction, or refuses it.
LEMMA SyncExecution ==
  ASSUME SyncInv, NEW s \in Clients, NEW d \in Clients, NEW v \in Values,
         NEW n \in 1..MaxSeqn[s], processTransaction(s, d, v, n), Forgetless'
  PROVE  SyncInv'
<1>1. ledger \in LedgerType /\ Numbered(ledger) /\ \A b \in Backups : Typed(b)
  BY SyncTypes
<1> DEFINE r == handleTransactionLogic(ledger, s, d, v, n)
<1>2. /\ UNCHANGED <<backup_servers, syncing, snapshot, book, faults>> /\ ledger' = r.ledger
      /\ r.status = "SUCCESS" =>
           /\ propagate(StateUpdate(ledger'))
           /\ overtaken' = overtaken \cup {b \in syncing : backup_servers[b] = 1}
      /\ r.status # "SUCCESS" => UNCHANGED <<chan, overtaken>>
  BY DEF processTransaction
<1>3. v \in Int /\ n \in Nat
  BY ReplicationAssumption
<1>4. CASE r.status # "SUCCESS"
  <2>1. ledger' = ledger
    BY <1>1, <1>2, <1>3, <1>4, StatusEffect
  <2>2. Underway' /\ \A b \in Backups : Fair(b)' => UpToDate(b)'
    BY <1>2, <1>4, <2>1 DEF SyncInv, Underway, Fair, UpToDate, Rest, Left
  <2>3. QED
    BY <2>1, <2>2 DEF SyncInv
<1>5. CASE r.status = "SUCCESS"
  <2>1. Executes(ledger, ledger', s, d, v, n)
    BY <1>1, <1>2, <1>3, <1>5, SuccessExecutes
  <2> HIDE DEF r
  <2>2. Balanced(ledger) /\ Summed(ledger)
    BY DEF SyncInv
  <2>3. Balanced(ledger') /\ Summed(ledger')
    BY <1>1, <1>3, <2>1, <2>2, BalancedExecution, SummedExecution
  <2>4. Underway'
    BY <1>2, <2>1 DEF SyncInv, Underway, Executes
  <2> DEFINE m == StateUpdate(ledger')
  <2>5. m \in Updates
    <3>1. StateUpdate(handleTransactionLogic(ledger, s, d, v, n).ledger)
            \in SoundPackets(handleTransactionLogic(ledger, s, d, v, n).ledger)
      BY <1>1, <1>3, <1>5, TransactionGrows DEF r
    <3>2. QED
      BY <1>2, <3>1 DEF SoundPackets, r
  <2> HIDE DEF m
  <2>6. ASSUME NEW b \in Backups, Fair(b)'
        PROVE  UpToDate(b)'
    <3>1. Fair(b) /\ Typed(b) /\ ~(b \in syncing /\ backup_servers[b] = 1)
      BY <1>1, <1>2, <1>5, <2>6 DEF Fair
    <3>2. /\ Rest(b) = {} /\ Rest(b)' = {} /\ Left(b)' = Left(b)
          /\ backup_servers[b] = 1 => Left(b) = <<>>
      BY <1>2, <3>1 DEF Rest, Left
    <3>3. Current(chan[b], book[b], ledger, backup_servers[b], {}, snapshot, Left(b))
      BY <3>1, <3>2 DEF SyncInv, UpToDate
    <3>4. chan'[b] = Sent(chan[b], m, backup_servers[b])
      BY <1>2, <1>5 DEF propagate, Sent, m
    <3>5. chan[b] \in Seq(Updates) /\ book[b] \in LedgerType /\ backup_servers[b] \in Nat
      BY <3>1 DEF Typed
    <3>6. Current(Sent(chan[b], m, backup_servers[b]), book[b], ledger', backup_servers[b], {},
                  snapshot, Left(b))
      BY <1>1, <1>3, <2>1, <2>2, <2>5, <3>2, <3>3, <3>5, CurrentExecution DEF m
    <3>7. QED
      BY <1>2, <3>2, <3>4, <3>6 DEF UpToDate
  <2>7. QED
    BY <2>3, <2>4, <2>6 DEF SyncInv
<1>6. QED
  BY <1>4, <1>5

-----------------------------------------------------------------------------
\* What SendOn leaves of the copy: all of it, or nothing when there is nothing left.
LEMMA SendsOn ==
  ASSUME NEW b, NEW K \in LedgerType, SendOn(b, K)
  PROVE  /\ syncing' \subseteq {b} /\ snapshot' \in {K, EmptyLedger}
         /\ b \in syncing' => snapshot' = K
         /\ b \notin syncing' => K.registered = {} /\ K.history = <<>>
         /\ Left(b)' = K.history
BY DEF SendOn, Left

\* What must be shown of a step that sends b a part of the copy, or begins to.
LEMMA SyncStep ==
  ASSUME SyncInv, Forgetless', NEW b \in Backups, syncing \subseteq {b},
         NEW K \in LedgerType, SendOn(b, K), K.registered \subseteq ledger.registered,
         UNCHANGED <<ledger, book, overtaken, faults>>, backup_servers'[b] > 0,
         \A x \in Backups \ {b} : chan'[x] = chan[x] /\ backup_servers'[x] = backup_servers[x],
         Fair(b) =>
           Current(chan'[b], book[b], ledger, backup_servers'[b],
                   IF backup_servers'[b] = 1 THEN K.registered ELSE {}, snapshot', K.history)
  PROVE  SyncInv'
<1>1. /\ syncing' \subseteq {b} /\ snapshot' \in {K, EmptyLedger}
      /\ b \in syncing' => snapshot' = K
      /\ b \notin syncing' => K.registered = {} /\ K.history = <<>>
      /\ Left(b)' = K.history
  BY SendsOn
<1>2. Underway'
  BY <1>1 DEF Underway
<1>3. Balanced(ledger') /\ Summed(ledger')
  BY DEF SyncInv
<1>4. ASSUME NEW x \in Backups, Fair(x)'
      PROVE  UpToDate(x)'
  <2>1. Fair(x)
    BY <1>4 DEF Fair
  <2>2. CASE x = b
    <3>1. Rest(b)' = IF backup_servers'[b] = 1 THEN K.registered ELSE {}
      BY <1>1 DEF Rest
    <3>2. QED
      BY <1>1, <2>1, <2>2, <3>1 DEF UpToDate
  <2>3. CASE x # b
    <3>1. /\ Rest(x) = {} /\ Left(x) = <<>> /\ Rest(x)' = {} /\ Left(x)' = <<>>
      BY <1>1, <2>3 DEF Rest, Left
    <3>2. Current(chan[x], book[x], ledger, backup_servers[x], {}, snapshot, <<>>)
      BY <2>1, <3>1 DEF SyncInv, UpToDate
    <3>3. Current(chan[x], book[x], ledger, backup_servers[x], {}, snapshot', <<>>)
      BY <3>2 DEF Current, CopyHolds
    <3>4. chan'[x] = chan[x] /\ backup_servers'[x] = backup_servers[x] /\ book' = book
      BY <2>3
    <3>5. QED
      BY <3>1, <3>3, <3>4 DEF UpToDate
  <2>4. QED
    BY <2>2, <2>3
<1>5. QED
  BY <1>2, <1>3, <1>4 DEF SyncInv

\* It enlists a backup.
LEMMA SyncEnlisting ==
  ASSUME SyncInv, NEW b \in Backups, registerBackup(b), Forgetless'
  PROVE  SyncInv'
<1>1. ledger \in LedgerType /\ Typed(b) /\ Balanced(ledger)
  BY SyncTypes DEF SyncInv
<1>2. /\ syncing = {} /\ SendOn(b, ledger) /\ chan' = chan
      /\ backup_servers' = [backup_servers EXCEPT ![b] = backup_servers[b] + 1]
      /\ UNCHANGED <<ledger, chan, book, overtaken, faults>>
  BY DEF registerBackup
<1> DEFINE n == backup_servers[b]
<1>3. /\ n \in Nat /\ backup_servers'[b] = n + 1
      /\ \A x \in Backups \ {b} : backup_servers'[x] = backup_servers[x]
  BY <1>1, <1>2 DEF Typed, SyncInv, Forgetless, IInv
<1> HIDE DEF n
<1>4. ASSUME Fair(b)
      PROVE  Current(chan[b], book[b], ledger, n + 1,
                     IF n + 1 = 1 THEN ledger.registered ELSE {}, snapshot', ledger.history)
  <2>1. Current(chan[b], book[b], ledger, n, {}, snapshot, <<>>)
    <3>1. Rest(b) = {} /\ Left(b) = <<>>
      BY <1>2 DEF Rest, Left
    <3>2. QED
      BY <1>4, <3>1 DEF SyncInv, UpToDate, n
  <2>2. CASE n = 0
    <3>1. Current(chan[b], book[b], ledger, 0, {}, snapshot, <<>>)
      BY <2>1, <2>2
    <3>2. Current(chan[b], book[b], ledger, 1, ledger.registered, ledger, ledger.history)
      BY <1>1, <3>1, CurrentFirst
    <3>3. ledger.registered # {} => snapshot' = ledger
      BY <1>1, <1>2, SendsOn
    <3>4. Current(chan[b], book[b], ledger, 1, ledger.registered, snapshot', ledger.history)
      BY <3>2, <3>3 DEF Current, CopyHolds
    <3>5. QED
      BY <2>2, <3>4
  <2>3. CASE n # 0
    <3>1. Current(chan[b], book[b], ledger, n + 1, {}, snapshot', ledger.history)
      BY <1>3, <2>1, <2>3, CurrentAgain
    <3>2. n + 1 # 1
      BY <1>3, <2>3
    <3>3. QED
      BY <3>1, <3>2
  <2>4. QED
    BY <2>2, <2>3
<1>5. n + 1 > 0
  BY <1>3
<1>6. QED
  BY <1>1, <1>2, <1>3, <1>4, <1>5, SyncStep

\* It sends a client of the copy.
LEMMA SyncClient ==
  ASSUME SyncInv, NEW b \in Backups, sendClientSnapshot(b), Forgetless'
  PROVE  SyncInv'
<1>1. ledger \in LedgerType /\ Typed(b) /\ snapshot \in BooksBehind(ledger) /\ snapshot \in LedgerType
  BY SyncTypes DEF SyncInv, Forgetless, IInv, BooksBehind
<1>2. PICK c \in snapshot.registered :
        /\ chan' = [chan EXCEPT ![b] = Append(chan[b], ClientUpdate(snapshot, c))]
        /\ SendOn(b, [snapshot EXCEPT !.registered = snapshot.registered \ {c}])
        /\ UNCHANGED <<ledger, backup_servers, book, overtaken, faults>>
        /\ b \in syncing
  BY DEF sendClientSnapshot
<1> DEFINE clients == snapshot.registered \ {c}
           K == [snapshot EXCEPT !.registered = clients]
           m == ClientUpdate(snapshot, c)
           n == backup_servers[b]
           S == Rest(b)
<1>3. /\ K \in LedgerType /\ K.registered = clients /\ K.history = snapshot.history
      /\ K.balance = snapshot.balance /\ K.lastReq = snapshot.lastReq
  <2>1. clients \in SUBSET Clients
    BY <1>1, FieldTypes
  <2> HIDE DEF clients
  <2>2. QED
    BY <1>1, <2>1 DEF LedgerType
<1>4. SendOn(b, K)
  BY <1>2
<1>5. syncing \subseteq {b}
  BY <1>2 DEF SyncInv, Forgetless, OneAtATime
<1>6. n > 0 /\ snapshot.registered \subseteq ledger.registered /\ n \in Nat
  BY <1>1, <1>2 DEF SyncInv, Underway, Typed
<1>7. m \in Updates
  <2>1. c \in Clients
    BY <1>1, FieldTypes
  <2>2. QED
    BY <1>1, <2>1, ClientUpdateSound DEF SoundPackets
<1> HIDE DEF K, m
<1>8. /\ chan'[b] = Append(chan[b], m)
      /\ \A x \in Backups \ {b} : chan'[x] = chan[x]
  BY <1>2 DEF SyncInv, Forgetless, IInv, m
<1>9. ASSUME Fair(b)
      PROVE  Current(chan'[b], book[b], ledger, n,
                     IF n = 1 THEN K.registered ELSE {}, snapshot', K.history)
  <2>1. S = IF n = 1 THEN snapshot.registered ELSE {}
    BY <1>2 DEF Rest
  <2>2. Left(b) = snapshot.history
    BY <1>2 DEF Left
  <2>3. S = {} \/ c \in S
    BY <2>1
  <2>4. S \ {c} = IF n = 1 THEN K.registered ELSE {}
    BY <1>3, <2>1
  <2>5. S \ {c} # {} => snapshot'.balance = snapshot.balance /\ snapshot'.lastReq = snapshot.lastReq
    <3>1. K.registered # {} => snapshot' = K
      BY <1>3, <1>4, SendsOn
    <3>2. QED
      BY <1>3, <2>4, <3>1
  <2>6. Current(chan[b], book[b], ledger, n, S, snapshot, snapshot.history)
    BY <1>9, <2>2 DEF SyncInv, UpToDate
  <2> HIDE DEF S, n
  <2>7. chan[b] \in Seq(Updates) /\ c \in ledger.registered
    BY <1>1, <1>6 DEF Typed
  <2>8. Current(Append(chan[b], m), book[b], ledger, n, S \ {c}, snapshot', snapshot.history)
    BY <1>1, <1>6, <1>7, <2>3, <2>5, <2>6, <2>7, CurrentClient DEF m
  <2>9. QED
    BY <1>3, <1>8, <2>4, <2>8
<1>10. QED
  BY <1>2, <1>3, <1>4, <1>5, <1>6, <1>8, <1>9, SyncStep

\* It sends an entry of the copy.
LEMMA SyncEntry ==
  ASSUME SyncInv, NEW b \in Backups, sendHistorySnapshot(b), Forgetless'
  PROVE  SyncInv'
<1> DEFINE l == snapshot.history
           rest == Tail(l)
           K == [snapshot EXCEPT !.history = rest]
           m == HistoryEntry(Head(l))
           n == backup_servers[b]
<1>1. /\ ledger \in LedgerType /\ Numbered(ledger) /\ Typed(b)
      /\ snapshot \in BooksBehind(ledger) /\ snapshot \in LedgerType
  BY SyncTypes DEF SyncInv, Forgetless, IInv, BooksBehind
<1>2. /\ snapshot.registered = {} /\ l # <<>> /\ b \in syncing
      /\ chan' = [chan EXCEPT ![b] = Append(chan[b], m)]
      /\ SendOn(b, K)
      /\ UNCHANGED <<ledger, backup_servers, book, overtaken, faults>>
  BY DEF sendHistorySnapshot
<1>3. l \in Seq(Transaction) /\ rest \in Seq(Transaction)
  BY <1>1, <1>2, FieldTypes, HeadTailProperties
<1>4. K \in LedgerType /\ K.registered = {} /\ K.history = rest
  <2> HIDE DEF rest
  <2> QED BY <1>1, <1>2, <1>3 DEF LedgerType
<1>5. syncing \subseteq {b}
  BY <1>2 DEF SyncInv, Forgetless, OneAtATime
<1>6. n > 0 /\ n \in Nat
  BY <1>1, <1>2 DEF SyncInv, Underway, Typed
<1>7. m \in Updates
  BY <1>1, <1>2, RestOfSnapshot DEF SoundPackets
<1> HIDE DEF K, m, n
<1>8. /\ chan'[b] = Append(chan[b], m)
      /\ \A x \in Backups \ {b} : chan'[x] = chan[x]
  BY <1>2 DEF SyncInv, Forgetless, IInv
<1>9. ASSUME Fair(b)
      PROVE  Current(chan'[b], book[b], ledger, n,
                     IF n = 1 THEN K.registered ELSE {}, snapshot', K.history)
  <2>1. Rest(b) = {} /\ Left(b) = l
    BY <1>2 DEF Rest, Left
  <2>2. Current(chan[b], book[b], ledger, n, {}, snapshot, l)
    BY <1>9, <2>1 DEF SyncInv, UpToDate, n
  <2>3. chan[b] \in Seq(Updates) /\ book[b] \in LedgerType
    BY <1>1 DEF Typed
  <2> HIDE DEF l, rest
  <2>4. Current(Append(chan[b], m), book[b], ledger, n, {}, snapshot', Tail(l))
    BY <1>1, <1>2, <1>3, <1>6, <1>7, <2>2, <2>3, CurrentEntry DEF m
  <2>5. QED
    BY <1>4, <1>8, <2>4 DEF rest
<1>10. QED
  BY <1>2, <1>4, <1>5, <1>6, <1>8, <1>9, SyncStep DEF n

\* A backup handles a packet, or a fault befalls it.
LEMMA SyncBackup ==
  ASSUME SyncInv, NEW b \in Backups, Forgetless',
         \/ receive(b) \/ Restart(b)
         \/ \E i \in DOMAIN chan[b] : Lose(b, i) \/ Copy(b, i) \/ Overtake(b, i)
  PROVE  SyncInv'
<1>1. /\ ledger \in LedgerType /\ Balanced(ledger) /\ Typed(b)
      /\ faults \in [Backups -> 0..MaxFaults]
      /\ book \in [Backups -> BooksBehind(ledger)]
      /\ chan \in [Backups -> Seq(SoundPackets(ledger))]
  BY SyncTypes DEF SyncInv, Forgetless, IInv
<1>2. /\ UNCHANGED <<ledger, backup_servers, syncing, snapshot, overtaken>>
      /\ \A x \in Backups \ {b} :
           chan'[x] = chan[x] /\ book'[x] = book[x] /\ faults'[x] = faults[x]
  BY <1>1 DEF receive, Restart, Lose, Copy, Overtake, Fault, Handle
<1>3. Balanced(ledger') /\ Summed(ledger') /\ Underway'
  BY <1>2 DEF SyncInv, Underway
<1>4. \A x : Rest(x)' = Rest(x) /\ Left(x)' = Left(x)
  BY <1>2 DEF Rest, Left
<1>5. ASSUME NEW x \in Backups, x # b, Fair(x)'
      PROVE  UpToDate(x)'
  <2>1. Fair(x)
    BY <1>2, <1>5 DEF Fair
  <2>2. chan'[x] = chan[x] /\ book'[x] = book[x]
    BY <1>2, <1>5
  <2>3. QED
    BY <1>2, <1>4, <2>1, <2>2 DEF SyncInv, UpToDate
<1>6. CASE receive(b)
  <2>1. PICK N \in Handled(book[b], Head(chan[b])) :
          /\ chan[b] # <<>> /\ book' = [book EXCEPT ![b] = N]
          /\ chan' = [chan EXCEPT ![b] = Tail(chan[b])] /\ faults' = faults
    BY <1>6 DEF receive, Handle
  <2>2. chan'[b] = Tail(chan[b]) /\ book'[b] = N
    BY <1>1, <2>1
  <2>3. ASSUME Fair(b)'
        PROVE  UpToDate(b)'
    <3>1. Current(chan[b], book[b], ledger, backup_servers[b], Rest(b), snapshot, Left(b))
      BY <1>2, <2>1, <2>3 DEF SyncInv, UpToDate, Fair
    <3>2. /\ chan[b] \in Seq(Updates) /\ book[b] \in LedgerType /\ backup_servers[b] \in Nat
          /\ Left(b) \in Seq(Transaction)
      BY <1>1 DEF Typed
    <3>3. Current(Tail(chan[b]), N, ledger, backup_servers[b], Rest(b), snapshot, Left(b))
      BY <1>1, <2>1, <3>1, <3>2, CurrentReceived
    <3>4. QED
      BY <1>2, <1>4, <2>2, <3>3 DEF UpToDate
  <2>4. QED
    BY <1>3, <1>5, <2>3 DEF SyncInv
<1>7. CASE Fault(b)
  <2>1. faults'[b] = faults[b] + 1 /\ faults[b] \in 0..MaxFaults
    BY <1>1, <1>7 DEF Fault
  <2>2. ~Fair(b)'
    BY <2>1, ReplicationAssumption DEF Fair
  <2>3. QED
    BY <1>3, <1>5, <2>2 DEF SyncInv
<1>8. QED
  BY <1>6, <1>7 DEF Restart, Lose, Copy, Overtake

\* For any clients, backups, amounts and registrations: a backup that has received
\* everything has the primary's accounts, and the whole book if it registered once,
\* unless a transaction overtook its first snapshot or a fault befell it.
THEOREM BackupsInStep == Spec => []SyncedUnlessOvertaken
<1>1. SyncInv /\ [Next]_vars => SyncInv'
  <2> SUFFICES ASSUME SyncInv, [Next]_vars PROVE SyncInv'
    OBVIOUS
  <2>1. Forgetless'
    BY ForgetlessNext DEF SyncInv
  <2>2. CASE UNCHANGED vars
    BY <2>1, <2>2 DEF SyncInv, Underway, Fair, UpToDate, Rest, Left, vars
  <2>3. CASE Next
    BY <2>1, <2>3, SyncRegistration, SyncExecution, SyncEnlisting, SyncClient, SyncEntry,
       SyncBackup DEF Next
  <2>4. QED
    BY <2>2, <2>3
<1>2. SyncInv => SyncedUnlessOvertaken
  <2> SUFFICES ASSUME SyncInv, NEW b \in Backups, Settled(b), b \notin overtaken
               PROVE  /\ Accounts(book[b]) = Accounts(ledger)
                      /\ backup_servers[b] = 1 => book[b] = ledger
    BY DEF SyncedUnlessOvertaken
  <2>1. Rest(b) = {} /\ Left(b) = <<>> /\ chan[b] = <<>> /\ Fair(b)
    BY DEF Settled, Rest, Left, Fair
  <2>2. Current(<<>>, book[b], ledger, backup_servers[b], {}, snapshot, <<>>)
    BY <2>1 DEF SyncInv, UpToDate
  <2>3. /\ ledger \in LedgerType /\ book[b] \in LedgerType /\ backup_servers[b] \in Nat
        /\ backup_servers[b] > 0 /\ Summed(ledger)
    BY SyncTypes DEF Typed, Settled, SyncInv
  <2>4. QED
    BY <2>2, <2>3, CurrentAtLast
<1>3. QED
  BY <1>1, <1>2, SyncAtFirst, PTL DEF Spec
=============================================================================
