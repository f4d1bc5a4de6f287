----------------------------- MODULE BankProofs -----------------------------
(***************************************************************************)
(* What holds of the account book for any set of clients, any amounts and  *)
(* any initial balance.                                                    *)
(***************************************************************************)
EXTENDS Bank, LedgerProofs

-----------------------------------------------------------------------------
\* Every step of the server leaves the book as it is, registers a client, or
\* executes one transaction that was due and could be paid for.
Executed(s, d, v, n) ==
  /\ s \in ledger.registered /\ d \in ledger.registered
  /\ n = ledger.lastReq[s] + 1
  /\ ledger.balance[s] >= v
  /\ \A c \in Clients : ledger'.lastReq[c] = IF c = s THEN n ELSE ledger.lastReq[c]
  /\ \A c \in Clients : ledger'.balance[c] =
        IF c = s /\ c = d THEN ledger.balance[c] - v + v
        ELSE IF c = s THEN ledger.balance[c] - v
        ELSE IF c = d THEN ledger.balance[c] + v
        ELSE ledger.balance[c]
  /\ ledger'.history = Append(ledger.history, newTransaction(ledger, s, d, v, n))
  /\ ledger'.numTransactions = ledger.numTransactions + 1
  /\ ledger'.totalTransferred = ledger.totalTransferred + v
  /\ ledger'.registered = ledger.registered
  /\ ledger'.totalBalance = ledger.totalBalance

Joined(c) ==
  /\ ledger'.registered = ledger.registered \cup {c}
  /\ ledger'.totalBalance = ledger.totalBalance + InitialBalance

Kept ==
  /\ ledger'.lastReq = ledger.lastReq /\ ledger'.balance = ledger.balance
  /\ ledger'.history = ledger.history
  /\ ledger'.numTransactions = ledger.numTransactions
  /\ ledger'.totalTransferred = ledger.totalTransferred
  /\ \/ ledger'.registered = ledger.registered /\ ledger'.totalBalance = ledger.totalBalance
     \/ \E c \in Clients \ ledger.registered : Joined(c)

LEMMA StepEffect ==
  ASSUME TypeOK, Next
  PROVE  /\ TypeOK'
         /\ Kept \/ \E s, d \in Clients, v \in Int, n \in Nat : Executed(s, d, v, n)
<1>1. ASSUME NEW c \in Clients, addClient(c)
      PROVE  TypeOK' /\ Kept
  <2>1. ledger \in LedgerType /\ ledger' = wasClientAdded(ledger, c)
    BY <1>1 DEF addClient, TypeOK
  <2>2. CASE c \in ledger.registered
    <3>1. ledger' = ledger
      BY <2>1, <2>2 DEF wasClientAdded, findClient
    <3>2. QED
      BY <2>1, <3>1 DEF TypeOK, Kept
  <2>3. CASE c \notin ledger.registered
    <3>1. Joined(c)
      BY <2>1, <2>3, RegistrationEffect DEF Joined
    <3>2. QED
      BY <2>1, <2>3, <3>1, RegistrationEffect DEF TypeOK, Kept
  <2>4. QED
    BY <2>2, <2>3
<1>2. ASSUME NEW s \in Clients, NEW d \in Clients, NEW v \in Values, NEW n \in 1..MaxSeqn,
             processTransaction(s, d, v, n)
      PROVE  TypeOK' /\ (Kept \/ Executed(s, d, v, n))
  <2>1. v \in Int /\ n \in Nat /\ ledger \in LedgerType
    BY ValuesAssumption DEF TypeOK
  <2>2. CASE ledger' = ledger
    BY <2>2 DEF TypeOK, Kept
  <2>3. CASE ledger' # ledger
    <3>1. /\ ledger' = updateAndLogTransaction(executeTransaction(ledger, s, d, v, n), s, d, v, n)
          /\ s \in ledger.registered /\ d \in ledger.registered
          /\ n = ledger.lastReq[s] + 1
          /\ ledger.balance[s] >= v
      BY <1>2, <2>1, <2>3, RequestEffect DEF processTransaction
    <3>2. QED
      BY <2>1, <3>1, ExecutionFields DEF TypeOK, Executed
  <2>4. QED
    BY <2>2, <2>3
<1>3. QED
  <2>1. CASE \E c \in Clients : addClient(c)
    BY <1>1, <2>1
  <2>2. CASE \E s, d \in Clients, v \in Values, n \in 1..MaxSeqn : processTransaction(s, d, v, n)
    <3>1. PICK s \in Clients, d \in Clients, v \in Values, n \in 1..MaxSeqn :
                 processTransaction(s, d, v, n)
      BY <2>2
    <3>2. v \in Int /\ n \in Nat
      BY ValuesAssumption
    <3>3. QED
      BY <1>2, <3>1, <3>2
  <2>3. QED
    BY <2>1, <2>2 DEF Next

\* The parts of the book stay of their types, for any amounts and any number
\* of requests.
THEOREM TypeCorrect == Spec => []TypeOK
<1>1. Init => TypeOK
  BY EmptyLedgerType DEF Init, TypeOK
<1>2. TypeOK /\ [Next]_ledger => TypeOK'
  BY StepEffect DEF TypeOK
<1>3. QED
  BY <1>1, <1>2, PTL DEF Spec

\* At most once, in order, with no gap: whatever requests are repeated, lost or
\* reordered on the way, the history holds each client's numbers 1, 2, ... up to
\* its last request, each once and in that order.
THEOREM HistoryIsGapless == Spec => []GaplessHistory
<1>1. Init => GaplessHistory
  BY DEF Init, GaplessHistory, Entries, EmptyLedger
<1>2. TypeOK /\ GaplessHistory /\ [Next]_ledger => GaplessHistory'
  <2> SUFFICES ASSUME TypeOK, GaplessHistory, Next
               PROVE  GaplessHistory'
    BY DEF GaplessHistory, Entries
  <2>1. CASE Kept
    BY <2>1 DEF Kept, GaplessHistory, Entries
  <2>2. ASSUME NEW s \in Clients, NEW d \in Clients, NEW v \in Int, NEW n \in Nat,
               Executed(s, d, v, n)
        PROVE  GaplessHistory'
    <3> DEFINE h == ledger.history
               entry == newTransaction(ledger, s, d, v, n)
               last == Len(h) + 1
    <3> DEFINE g == ledger'.history
               old == ledger.lastReq
               new == ledger'.lastReq
    <3>1. /\ h \in Seq(Transaction) /\ Len(h) \in Nat
          /\ old \in [Clients -> Nat]
          /\ \A i \in 1..Len(h) : h[i].source \in Clients /\ h[i].seqn \in Nat
      <4>1. h \in Seq(Transaction) /\ old \in [Clients -> Nat]
        BY DEF TypeOK, LedgerType
      <4>2. \A i \in 1..Len(h) : h[i] \in Transaction
        BY <4>1
      <4>3. Len(h) \in Nat
        BY <4>1
      <4>4. \A t \in Transaction : t.source \in Clients /\ t.seqn \in Nat
        BY DEF Transaction
      <4> HIDE DEF h, old
      <4>5. QED
        BY <4>1, <4>2, <4>3, <4>4
    <3>2. /\ g = Append(h, entry)
          /\ n = old[s] + 1
          /\ \A c \in Clients : new[c] = IF c = s THEN n ELSE old[c]
      BY <2>2 DEF Executed
    <3>3. /\ DOMAIN h = 1..Len(h) /\ DOMAIN g = 1..last
          /\ \A i \in 1..Len(h) : g[i] = h[i]
          /\ g[last] = entry
      <4> HIDE DEF h, entry, g
      <4> QED BY <3>1, <3>2
    <3>4. g[last].source = s /\ g[last].seqn = n
      BY <3>3 DEF newTransaction
    <3>5. /\ \A i \in 1..Len(h) : h[i].seqn \in 1..old[h[i].source]
          /\ \A i, j \in 1..Len(h) :
                i < j /\ h[i].source = h[j].source => h[i].seqn < h[j].seqn
          /\ \A c \in Clients : \A k \in 1..old[c] :
                \E i \in 1..Len(h) : h[i].source = c /\ h[i].seqn = k
      <4>1. Entries = 1..Len(h)
        BY <3>1 DEF Entries
      <4>2. QED
        BY <4>1 DEF GaplessHistory
    <3>6. \A c \in Clients : new[c] = IF c = s THEN old[c] + 1 ELSE old[c]
      BY <3>1, <3>2
    <3>7. /\ \A i \in 1..last : i \in 1..Len(h) \/ i = last
          /\ last \in 1..last /\ 1..Len(h) \subseteq 1..last
      BY <3>1
    <3> HIDE DEF entry, h, g, old, new, last
    <3>8. ASSUME NEW i \in 1..last
          PROVE  g[i].seqn \in 1..new[g[i].source]
      <4>1. CASE i = last
        BY <4>1, <3>1, <3>2, <3>4, <3>6
      <4>2. CASE i \in 1..Len(h)
        <5>1. h[i].seqn \in 1..old[h[i].source] /\ h[i].source \in Clients /\ g[i] = h[i]
          BY <4>2, <3>1, <3>3, <3>5
        <5>2. ASSUME NEW c \in Clients
              PROVE  old[c] \in Nat /\ new[c] \in Nat /\ old[c] <= new[c]
          <6>1. old[c] \in Nat
            BY <3>1
          <6>2. new[c] = IF c = s THEN old[c] + 1 ELSE old[c]
            BY <3>6
          <6>3. QED
            BY <6>1, <6>2
        <5>3. QED
          BY <5>1, <5>2
      <4>3. QED
        BY <4>1, <4>2, <3>7
    <3>9. ASSUME NEW i \in 1..last, NEW j \in 1..last, i < j, g[i].source = g[j].source
          PROVE  g[i].seqn < g[j].seqn
      <4>1. i \in 1..Len(h) /\ g[i] = h[i]
        BY <3>9, <3>1, <3>3 DEF last
      <4>2. CASE j = last
        <5>1. h[i].seqn \in 1..old[s] /\ h[i].seqn \in Nat
          BY <4>1, <4>2, <3>9, <3>1, <3>4, <3>5
        <5>2. QED
          BY <4>1, <4>2, <5>1, <3>1, <3>2, <3>4
      <4>3. CASE j \in 1..Len(h)
        BY <3>9, <4>1, <4>3, <3>3, <3>5
      <4>4. QED
        BY <4>2, <4>3, <3>7
    <3>10. ASSUME NEW c \in Clients, NEW k \in 1..new[c]
           PROVE  \E i \in 1..last : g[i].source = c /\ g[i].seqn = k
      <4>1. CASE c = s /\ k = n
        BY <4>1, <3>4, <3>7
      <4>2. CASE ~(c = s /\ k = n)
        <5>1. k \in 1..old[c]
          BY <4>2, <3>1, <3>2, <3>6
        <5>2. PICK i \in 1..Len(h) : h[i].source = c /\ h[i].seqn = k
          BY <5>1, <3>5
        <5>3. QED
          BY <5>2, <3>3, <3>7
      <4>3. QED
        BY <4>1, <4>2
    <3>11. Entries' = 1..last
      BY <3>3 DEF Entries, g
    <3>12. QED
      BY <3>8, <3>9, <3>10, <3>11 DEF GaplessHistory, g, new
  <2>3. QED
    BY <2>1, <2>2, StepEffect
<1>3. QED
  BY <1>1, <1>2, TypeCorrect, PTL DEF Spec

\* As long as nobody is paid a negative amount, no account is overdrawn.
THEOREM Solvency == Spec => []SolventUnlessNegative
<1>1. Init => SolventUnlessNegative
  <2> SUFFICES ASSUME Init, NEW c \in Clients
               PROVE  ledger.balance[c] >= 0
    BY DEF SolventUnlessNegative
  <2>1. ledger.balance = [x \in Clients |-> InitialBalance]
    BY DEF Init, EmptyLedger
  <2>2. QED
    BY <2>1, InitialBalanceAssumption
<1>2. TypeOK /\ SolventUnlessNegative /\ [Next]_ledger => SolventUnlessNegative'
  <2> SUFFICES ASSUME TypeOK, SolventUnlessNegative, Next
               PROVE  SolventUnlessNegative'
    BY DEF SolventUnlessNegative, Entries
  <2>1. CASE Kept
    BY <2>1 DEF Kept, SolventUnlessNegative, Entries
  <2>2. ASSUME NEW s \in Clients, NEW d \in Clients, NEW v \in Int, NEW n \in Nat,
               Executed(s, d, v, n)
        PROVE  SolventUnlessNegative'
    <3> DEFINE h == ledger.history
               entry == newTransaction(ledger, s, d, v, n)
               last == Len(h) + 1
    <3>1. h \in Seq(Transaction) /\ Len(h) \in Nat /\ ledger.balance \in [Clients -> Int]
      BY DEF TypeOK, LedgerType
    <3>2. ledger'.history = Append(h, entry)
      BY <2>2 DEF Executed
    <3>3. /\ DOMAIN h = 1..Len(h) /\ DOMAIN ledger'.history = 1..last
          /\ \A i \in 1..Len(h) : ledger'.history[i] = h[i]
          /\ ledger'.history[last] = entry
      <4> HIDE DEF h, entry
      <4> QED BY <3>1, <3>2
    <3>4. entry.value = v
      BY DEF newTransaction
    <3> HIDE DEF entry
    <3>5. ASSUME \A i \in Entries' : ledger'.history[i].value >= 0, NEW c \in Clients
          PROVE  ledger'.balance[c] >= 0
      <4>1. v >= 0 /\ \A i \in Entries : ledger.history[i].value >= 0
        <5>1. Entries = 1..Len(h) /\ Entries' = 1..last
          BY <3>3 DEF Entries
        <5>2. last \in Entries' /\ Entries \subseteq Entries'
          BY <3>1, <5>1
        <5>3. v >= 0
          BY <3>3, <3>4, <3>5, <5>2
        <5>4. ASSUME NEW i \in Entries
              PROVE  ledger.history[i].value >= 0
          BY <3>3, <3>5, <5>1, <5>2
        <5>5. QED
          BY <5>3, <5>4
      <4>2. ledger.balance[c] >= 0 /\ ledger.balance[c] \in Int
        BY <4>1, <3>1 DEF SolventUnlessNegative
      <4>3. QED
        BY <2>2, <4>1, <4>2 DEF Executed
    <3>6. QED
      BY <3>5 DEF SolventUnlessNegative
  <2>3. QED
    BY <2>1, <2>2, StepEffect
<1>3. QED
  BY <1>1, <1>2, TypeCorrect, PTL DEF Spec

-----------------------------------------------------------------------------
(* The money.                                                              *)

\* Who is not registered has what registration will give.
MoneyInv ==
  /\ MoneyConserved
  /\ IsFiniteSet(ledger.registered)
  /\ \A c \in Clients \ ledger.registered : ledger.balance[c] = InitialBalance

LEMMA MoneyAtFirst == Init => MoneyInv
<1> SUFFICES ASSUME Init PROVE MoneyInv
  OBVIOUS
<1>1. /\ ledger.registered = {} /\ ledger.totalBalance = 0
      /\ \A c \in Clients : ledger.balance[c] = InitialBalance
  BY DEF Init, EmptyLedger
<1>2. IsFiniteSet({}) /\ Cardinality({}) = 0
  BY FS_EmptySet
<1>3. QED
  BY <1>1, <1>2, SumEmpty, InitialBalanceAssumption DEF MoneyInv, MoneyConserved

\* A registration adds an account with its initial balance.
LEMMA MoneyOfRegistration ==
  ASSUME TypeOK, MoneyInv, Kept
  PROVE  MoneyInv'
<1> DEFINE R == ledger.registered
           b == ledger.balance
<1>1. /\ R \subseteq Clients /\ b \in [Clients -> Int] /\ ledger.totalBalance \in Int
      /\ InitialBalance \in Int
  BY InitialBalanceAssumption DEF TypeOK, LedgerType
<1>2. CASE ledger'.registered = R /\ ledger'.totalBalance = ledger.totalBalance
  BY <1>2 DEF Kept, MoneyInv, MoneyConserved
<1>3. ASSUME NEW c \in Clients \ R, Joined(c)
      PROVE  MoneyInv'
  <2>1. b[c] = InitialBalance /\ IsFiniteSet(R)
    BY DEF MoneyInv
  <2>2. \A x \in R \cup {c} : b[x] \in Int
    BY <1>1
  <2>3. SumFunctionOnSet(b, R \cup {c}) = InitialBalance + SumFunctionOnSet(b, R)
    BY <2>1, <2>2, SumAdd
  <2>4. /\ IsFiniteSet(R \cup {c})
        /\ Cardinality(R \cup {c}) = Cardinality(R) + 1
        /\ Cardinality(R) \in Nat
    BY <2>1, FS_AddElement, FS_CardinalityType
  <2>5. /\ SumFunctionOnSet(b, R) = ledger.totalBalance
        /\ ledger.totalBalance = InitialBalance * Cardinality(R)
    BY DEF MoneyInv, MoneyConserved
  <2>6. InitialBalance * (Cardinality(R) + 1) = InitialBalance * Cardinality(R) + InitialBalance
    BY <1>1, <2>4
  <2>7. /\ ledger'.registered = R \cup {c} /\ ledger'.balance = b
        /\ ledger'.totalBalance = ledger.totalBalance + InitialBalance
    BY <1>3 DEF Joined, Kept
  <2>8. MoneyConserved'
    <3> HIDE DEF R, b
    <3> QED BY <1>1, <2>3, <2>4, <2>5, <2>6, <2>7 DEF MoneyConserved
  <2>9. QED
    BY <2>4, <2>7, <2>8 DEF MoneyInv
<1>4. QED
  BY <1>2, <1>3 DEF Kept

\* A transfer leaves the sum as it is.
LEMMA MoneyOfTransfer ==
  ASSUME TypeOK, MoneyInv, NEW s \in Clients, NEW d \in Clients, NEW v \in Int, NEW n \in Nat,
         Executed(s, d, v, n)
  PROVE  MoneyInv'
<1> DEFINE R == ledger.registered
           b == ledger.balance
           w == ledger'.balance
<1>1. R \subseteq Clients /\ b \in [Clients -> Int]
  BY DEF TypeOK, LedgerType
<1>2. IsFiniteSet(R) /\ s \in R /\ d \in R
  BY DEF MoneyInv, Executed
<1>3. \A c \in Clients : w[c] = IF c = s /\ c = d THEN b[c] - v + v
                                ELSE IF c = s THEN b[c] - v
                                ELSE IF c = d THEN b[c] + v
                                ELSE b[c]
  BY DEF Executed
<1>4. SumFunctionOnSet(w, R) = SumFunctionOnSet(b, R)
  <2> HIDE DEF R, b, w
  <2> QED BY <1>1, <1>2, <1>3, SumOfTransfer
<1>5. ledger'.registered = R /\ ledger'.totalBalance = ledger.totalBalance
  BY DEF Executed
<1>6. ASSUME NEW c \in Clients \ R
      PROVE  w[c] = InitialBalance
  <2>1. c # s /\ c # d /\ b[c] = InitialBalance
    BY <1>2 DEF MoneyInv
  <2>2. QED
    BY <2>1, <1>3
<1>7. QED
  BY <1>2, <1>4, <1>5, <1>6 DEF MoneyInv, MoneyConserved

\* No money is made or lost: the accounts hold what registration put there and what
\* the server prints, for any amounts, transfers to oneself and refusals included.
THEOREM MoneyIsConserved == Spec => []MoneyConserved
<1>1. TypeOK /\ MoneyInv /\ [Next]_ledger => MoneyInv'
  <2>1. ASSUME TypeOK, MoneyInv, Next PROVE MoneyInv'
    BY <2>1, StepEffect, MoneyOfRegistration, MoneyOfTransfer
  <2>2. ASSUME MoneyInv, UNCHANGED ledger PROVE MoneyInv'
    BY <2>2 DEF MoneyInv, MoneyConserved
  <2>3. QED
    BY <2>1, <2>2
<1>2. MoneyInv => MoneyConserved
  BY DEF MoneyInv
<1>3. QED
  BY <1>1, <1>2, MoneyAtFirst, TypeCorrect, PTL DEF Spec

-----------------------------------------------------------------------------
(* The history.                                                            *)

LastPlace == Len(ledger.history) + 1

\* The history after an execution: the old entries and one for the transaction.
LEMMA EntriesOfExecution ==
  ASSUME TypeOK, NEW s \in Clients, NEW d \in Clients, NEW v \in Int, NEW n \in Nat,
         Executed(s, d, v, n), NEW last, last = LastPlace
  PROVE  /\ Entries' = Entries \cup {last} /\ last \notin Entries
         /\ IsFiniteSet(Entries)
         /\ \A i \in Entries : ledger'.history[i] = ledger.history[i]
         /\ ledger'.history[last] = newTransaction(ledger, s, d, v, n)
         /\ \A i \in Entries : amounts[i] \in Int /\ amounts'[i] = amounts[i]
         /\ amounts'[last] = v
<1> DEFINE h == ledger.history
           entry == newTransaction(ledger, s, d, v, n)
<1>1. h \in Seq(Transaction) /\ Len(h) \in Nat /\ last = Len(h) + 1
  BY DEF TypeOK, LedgerType, LastPlace
<1>2. ledger'.history = Append(h, entry)
  BY DEF Executed
<1>3. /\ Entries = 1..Len(h) /\ Entries' = 1..last
      /\ \A i \in 1..Len(h) : ledger'.history[i] = h[i]
      /\ ledger'.history[last] = entry
  <2> HIDE DEF h, entry
  <2> QED BY <1>1, <1>2 DEF Entries, h
<1>4. Entries' = Entries \cup {last} /\ last \notin Entries
  <2> HIDE DEF h
  <2> QED BY <1>1, <1>3 DEF h
<1>5. IsFiniteSet(Entries)
  BY <1>1, <1>3, FS_Interval
<1>6. \A i \in Entries : h[i] \in Transaction
  BY <1>1 DEF Entries
<1>7. \A i \in Entries : amounts[i] \in Int /\ amounts'[i] = amounts[i]
  <2>1. \A t \in Transaction : t.value \in Int
    BY DEF Transaction
  <2>2. ASSUME NEW i \in Entries
        PROVE  amounts[i] = h[i].value /\ amounts'[i] = ledger'.history[i].value
    BY <1>4 DEF amounts
  <2> HIDE DEF h
  <2>3. QED
    BY <1>3, <1>6, <2>1, <2>2
<1>8. amounts'[last] = v
  <2>1. last \in Entries' /\ entry.value = v
    BY <1>4 DEF newTransaction
  <2>2. amounts'[last] = ledger'.history[last].value
    BY <2>1 DEF amounts
  <2>3. QED
    BY <1>3, <2>1, <2>2
<1>9. QED
  <2> HIDE DEF entry
  <2> QED BY <1>3, <1>4, <1>5, <1>7, <1>8 DEF entry

\* What one more entry adds to the sum over those of which P holds.
LEMMA SumOfEntries ==
  ASSUME NEW E, IsFiniteSet(E), NEW last, last \notin E, NEW f, NEW g,
         \A i \in E : f[i] \in Int /\ g[i] = f[i], g[last] \in Int,
         NEW S, S \subseteq E, NEW yes \in BOOLEAN,
         NEW T, T = IF yes THEN S \cup {last} ELSE S
  PROVE  /\ SumFunctionOnSet(g, T)
               = (IF yes THEN g[last] ELSE 0) + SumFunctionOnSet(f, S)
         /\ SumFunctionOnSet(f, S) \in Int
<1>1. IsFiniteSet(S) /\ last \notin S
  BY FS_Subset
<1>2. \A i \in S : f[i] \in Int /\ g[i] = f[i]
  OBVIOUS
<1>3. SumFunctionOnSet(g, S) = SumFunctionOnSet(f, S)
  BY <1>1, <1>2, SumSame
<1>4. SumFunctionOnSet(f, S) \in Int
  BY <1>1, <1>2, SumType
<1>5. CASE yes
  <2>1. \A i \in S \cup {last} : g[i] \in Int
    BY <1>2
  <2>2. SumFunctionOnSet(g, S \cup {last}) = g[last] + SumFunctionOnSet(g, S)
    BY <1>1, <2>1, SumAdd
  <2>3. QED
    BY <1>3, <1>4, <1>5, <2>2
<1>6. CASE ~yes
  BY <1>3, <1>4, <1>6
<1>7. QED
  BY <1>5, <1>6

\* The book can be computed from the history: every balance, the total of what was
\* transferred and the ids, whatever was asked for and in whatever order.
THEOREM BookIsExplained == Spec => []HistoryExplainsBook
<1>1. Init => HistoryExplainsBook
  <2> SUFFICES ASSUME Init PROVE HistoryExplainsBook
    OBVIOUS
  <2>1. /\ ledger.history = <<>> /\ ledger.totalTransferred = 0 /\ ledger.numTransactions = 0
        /\ \A c \in Clients : ledger.balance[c] = InitialBalance
    BY DEF Init, EmptyLedger
  <2>2. Entries = {} /\ Len(ledger.history) = 0
    BY <2>1 DEF Entries
  <2>3. \A c \in Clients : Receipts(c) = {} /\ Payments(c) = {}
    BY <2>2 DEF Receipts, Payments
  <2>4. SumFunctionOnSet(amounts, {}) = 0
    BY SumEmpty
  <2>5. ASSUME NEW c \in Clients
        PROVE  ledger.balance[c] = InitialBalance + SumFunctionOnSet(amounts, Receipts(c))
                                                  - SumFunctionOnSet(amounts, Payments(c))
    <3>1. /\ SumFunctionOnSet(amounts, Receipts(c)) = 0
          /\ SumFunctionOnSet(amounts, Payments(c)) = 0
      BY <2>3, <2>4
    <3>2. ledger.balance[c] = InitialBalance /\ InitialBalance \in Int
      BY <2>1, InitialBalanceAssumption
    <3>3. QED
      BY <3>1, <3>2
  <2>6. QED
    BY <2>1, <2>2, <2>4, <2>5 DEF HistoryExplainsBook
<1>2. ASSUME TypeOK, HistoryExplainsBook, NEW s \in Clients, NEW d \in Clients,
             NEW v \in Int, NEW n \in Nat, Executed(s, d, v, n)
      PROVE  HistoryExplainsBook'
  <2> DEFINE last == LastPlace
             entry == newTransaction(ledger, s, d, v, n)
             h == ledger.history
             g == ledger'.history
             Sum(S) == SumFunctionOnSet(amounts, S)
             SumNow(S) == SumFunctionOnSet(amounts', S)
  <2>1. /\ Entries' = Entries \cup {last} /\ last \notin Entries
        /\ IsFiniteSet(Entries)
        /\ \A i \in Entries : g[i] = h[i]
        /\ g[last] = entry
        /\ \A i \in Entries : amounts[i] \in Int /\ amounts'[i] = amounts[i]
        /\ amounts'[last] = v
    BY <1>2, EntriesOfExecution
  <2>2. /\ entry.source = s /\ entry.dest = d /\ entry.id = ledger.numTransactions + 1
    BY DEF newTransaction
  <2>3. /\ h \in Seq(Transaction) /\ Len(h) \in Nat
        /\ ledger.balance \in [Clients -> Int] /\ ledger.totalTransferred \in Int
        /\ InitialBalance \in Int
    BY <1>2, InitialBalanceAssumption DEF TypeOK, LedgerType
  <2> HIDE DEF last, entry, h, g
  <2>4. ASSUME NEW S, S \subseteq Entries, NEW yes \in BOOLEAN,
               NEW T, T = IF yes THEN S \cup {last} ELSE S
        PROVE  SumNow(T) = (IF yes THEN v ELSE 0) + Sum(S) /\ Sum(S) \in Int
    BY <2>1, <2>4, SumOfEntries
  <2>5. ASSUME NEW c \in Clients
        PROVE  /\ SumNow(Receipts(c)') = (IF c = d THEN v ELSE 0) + Sum(Receipts(c))
               /\ Sum(Receipts(c)) \in Int
    <3>1. Receipts(c)' = IF c = d THEN Receipts(c) \cup {last} ELSE Receipts(c)
      BY <2>1, <2>2 DEF Receipts, g, h
    <3>2. Receipts(c) \subseteq Entries
      BY DEF Receipts
    <3> HIDE DEF Sum, SumNow
    <3>3. QED
      BY <2>4, <3>1, <3>2
  <2>6. ASSUME NEW c \in Clients
        PROVE  /\ SumNow(Payments(c)') = (IF c = s THEN v ELSE 0) + Sum(Payments(c))
               /\ Sum(Payments(c)) \in Int
    <3>1. Payments(c)' = IF c = s THEN Payments(c) \cup {last} ELSE Payments(c)
      BY <2>1, <2>2 DEF Payments, g, h
    <3>2. Payments(c) \subseteq Entries
      BY DEF Payments
    <3> HIDE DEF Sum, SumNow
    <3>3. QED
      BY <2>4, <3>1, <3>2
  <2>7. SumNow(Entries') = v + Sum(Entries) /\ Sum(Entries) \in Int
    <3> HIDE DEF Sum, SumNow
    <3> QED BY <2>1, <2>4
  <2>8. ASSUME NEW c \in Clients
        PROVE  ledger'.balance[c] = InitialBalance + SumNow(Receipts(c)') - SumNow(Payments(c)')
    <3>1. ledger.balance[c] = InitialBalance + Sum(Receipts(c)) - Sum(Payments(c))
      BY <1>2 DEF HistoryExplainsBook
    <3>2. ledger'.balance[c] = IF c = s /\ c = d THEN ledger.balance[c] - v + v
                               ELSE IF c = s THEN ledger.balance[c] - v
                               ELSE IF c = d THEN ledger.balance[c] + v
                               ELSE ledger.balance[c]
      BY <1>2 DEF Executed
    <3> HIDE DEF Sum, SumNow
    <3>3. QED
      BY <2>3, <2>5, <2>6, <3>1, <3>2
  <2>9. ledger'.totalTransferred = SumNow(Entries')
    BY <1>2, <2>3, <2>7 DEF HistoryExplainsBook, Executed
  <2>10. ledger'.numTransactions = Len(ledger'.history)
    <3>1. ledger'.history = Append(h, entry) /\ ledger'.numTransactions = ledger.numTransactions + 1
      BY <1>2 DEF Executed, h, entry
    <3>2. ledger.numTransactions = Len(h)
      BY <1>2 DEF HistoryExplainsBook, h
    <3>3. QED
      BY <2>3, <3>1, <3>2
  <2>11. ASSUME NEW i \in Entries'
         PROVE  ledger'.history[i].id = i
    <3>1. ledger.numTransactions + 1 = last /\ \A j \in Entries : h[j].id = j
      BY <1>2 DEF HistoryExplainsBook, h, last, LastPlace
    <3>2. QED
      BY <2>1, <2>2, <3>1 DEF g
  <2>12. QED
    BY <2>8, <2>9, <2>10, <2>11 DEF HistoryExplainsBook
<1>3. ASSUME HistoryExplainsBook, Kept
      PROVE  HistoryExplainsBook'
  <2>1. /\ Entries' = Entries /\ amounts' = amounts
        /\ \A c \in Clients : Receipts(c)' = Receipts(c) /\ Payments(c)' = Payments(c)
    BY <1>3 DEF Kept, Entries, amounts, Receipts, Payments
  <2>2. /\ ledger'.balance = ledger.balance /\ ledger'.history = ledger.history
        /\ ledger'.numTransactions = ledger.numTransactions
        /\ ledger'.totalTransferred = ledger.totalTransferred
    BY <1>3 DEF Kept
  <2>3. QED
    BY <1>3, <2>1, <2>2 DEF HistoryExplainsBook
<1>4. TypeOK /\ HistoryExplainsBook /\ [Next]_ledger => HistoryExplainsBook'
  <2>1. UNCHANGED ledger => Kept
    BY DEF Kept
  <2>2. QED
    BY <1>2, <1>3, <2>1, StepEffect
<1>5. QED
  BY <1>1, <1>4, TypeCorrect, PTL DEF Spec
=============================================================================
