---------------------------- MODULE LedgerProofs ----------------------------
(***************************************************************************)
(* What the server's operations do to a ledger, for any ledger: the facts  *)
(* the proofs about the state machines that keep one rest on.              *)
(***************************************************************************)
EXTENDS Ledger, Functions, FiniteSetTheorems, TLAPS

-----------------------------------------------------------------------------
(* Sums of the values of a function, of an account's balance or an entry's *)
(* amount.  The community modules compute them by a recursive function, so *)
(* a sum is taken apart by way of a smallest set that would be an          *)
(* exception.                                                              *)

Pick(s) == CHOOSE x \in s : TRUE

\* g sums f over each subset of S, one picked element after another.
IsSum(g, f, S) ==
  g = [s \in SUBSET S |-> IF s = {} THEN 0 ELSE f[Pick(s)] + g[s \ {Pick(s)}]]

\* Among some subsets of a finite set one has no strict subset among them.
LEMMA SmallestSubset ==
  ASSUME NEW S, IsFiniteSet(S), NEW T, T \subseteq SUBSET S, T # {}
  PROVE  \E x \in T : \A y \in T : y \subseteq x => y = x
<1> DEFINE R == StrictSubsetOrdering(S)
<1>1. IsWellFoundedOn(R, SUBSET S)
  BY FS_StrictSubsetOrderingWellFounded, FS_FiniteSubsetsOfFinite
<1>2. \E x \in T : \A y \in T : <<y, x>> \notin R
  <2> HIDE DEF R
  <2>1. QED
    BY <1>1, WFMin
<1>3. ASSUME NEW x \in T, NEW y \in T, y \subseteq x, y # x
      PROVE  <<y, x>> \in R
  BY <1>3 DEF StrictSubsetOrdering
<1> HIDE DEF R
<1>4. QED
  BY <1>2, <1>3

\* What is picked from a set is in it.
LEMMA PickIn == ASSUME NEW s, s # {} PROVE Pick(s) \in s
BY DEF Pick

\* Such a function at one of the sets.
LEMMA SumAt ==
  ASSUME NEW g, NEW f, NEW S, IsSum(g, f, S), NEW s, s \subseteq S
  PROVE  g[s] = IF s = {} THEN 0 ELSE f[Pick(s)] + g[s \ {Pick(s)}]
BY DEF IsSum

\* Whatever set they were made for, two such functions agree.
LEMMA SumUnique ==
  ASSUME NEW f, NEW S, NEW U, NEW g, NEW h, IsSum(g, f, S), IsSum(h, f, U),
         IsFiniteSet(S), NEW s, s \subseteq S, s \subseteq U
  PROVE  g[s] = h[s]
<1> DEFINE T == {t \in SUBSET s : g[t] # h[t]}
<1>1. SUFFICES T = {}
  OBVIOUS
<1>2. SUFFICES ASSUME T # {} PROVE FALSE
  OBVIOUS
<1>3. T \subseteq SUBSET S
  OBVIOUS
<1>4. PICK t \in T : \A y \in T : y \subseteq t => y = t
  <2> HIDE DEF T
  <2>1. QED
    BY <1>2, <1>3, SmallestSubset
<1>5. t \subseteq S /\ t \subseteq U /\ t \subseteq s /\ g[t] # h[t]
  OBVIOUS
<1>6. /\ g[t] = IF t = {} THEN 0 ELSE f[Pick(t)] + g[t \ {Pick(t)}]
      /\ h[t] = IF t = {} THEN 0 ELSE f[Pick(t)] + h[t \ {Pick(t)}]
  BY <1>5, SumAt
<1>7. CASE t = {}
  BY <1>5, <1>6, <1>7
<1>8. CASE t # {}
  <2> DEFINE u == t \ {Pick(t)}
  <2>1. u \subseteq t /\ u # t
    BY <1>8, PickIn
  <2>2. u \notin T
    BY <1>4, <2>1
  <2>3. g[u] = h[u]
    BY <2>1, <2>2, <1>5
  <2>4. QED
    BY <1>5, <1>6, <1>8, <2>3
<1>9. QED
  BY <1>7, <1>8

\* There is such a function: a smallest set without one would get it from its subsets.
LEMMA SumExists ==
  ASSUME NEW f, NEW S, IsFiniteSet(S)
  PROVE  \E g : IsSum(g, f, S)
<1> DEFINE T == {t \in SUBSET S : ~ \E g : IsSum(g, f, t)}
<1>1. SUFFICES ASSUME T # {} PROVE FALSE
  OBVIOUS
<1>2. PICK t \in T : \A y \in T : y \subseteq t => y = t
  <2>1. T \subseteq SUBSET S
    OBVIOUS
  <2> HIDE DEF T
  <2>2. QED
    BY <1>1, <2>1, SmallestSubset
<1> DEFINE G(u) == CHOOSE g : IsSum(g, f, u)
           rest(s) == s \ {Pick(s)}
           h == [s \in SUBSET t |-> IF s = {} THEN 0 ELSE f[Pick(s)] + G(rest(s))[rest(s)]]
<1>3. t \subseteq S /\ IsFiniteSet(t)
  BY FS_Subset
<1>4. ASSUME NEW u, u \subseteq t, u # t
      PROVE  IsSum(G(u), f, u)
  <2>1. u \notin T
    BY <1>2, <1>4
  <2>2. \E g : IsSum(g, f, u)
    BY <1>3, <1>4, <2>1
  <2>3. QED
    BY <2>2
<1> HIDE DEF G, T
<1>5. ASSUME NEW s, s \subseteq t, s # {}
      PROVE  h[rest(s)] = G(rest(s))[rest(s)]
  <2> DEFINE u == rest(s)
             w == rest(u)
  <2>1. u \subseteq t /\ u # t /\ IsFiniteSet(u)
    BY <1>3, <1>5, PickIn, FS_Subset
  <2>2. IsSum(G(u), f, u)
    BY <1>4, <2>1
  <2>3. G(u)[u] = IF u = {} THEN 0 ELSE f[Pick(u)] + G(u)[w]
    <3>1. w = u \ {Pick(u)}
      OBVIOUS
    <3> HIDE DEF u, w
    <3>2. u \subseteq u
      OBVIOUS
    <3>3. G(u)[u] = IF u = {} THEN 0 ELSE f[Pick(u)] + G(u)[u \ {Pick(u)}]
      BY <2>2, <3>2, SumAt, ZenonT(30)
    <3>4. QED
      BY <3>1, <3>3
  <2>4. h[u] = IF u = {} THEN 0 ELSE f[Pick(u)] + G(w)[w]
    BY <2>1
  <2>5. ASSUME u # {}
        PROVE  G(u)[w] = G(w)[w]
    <3>1. w \subseteq u /\ w \subseteq t /\ w # t
      BY <2>1
    <3>2. IsSum(G(w), f, w)
      BY <1>4, <3>1
    <3> HIDE DEF u, w
    <3>3. QED
      BY <2>1, <2>2, <3>1, <3>2, SumUnique
  <2>6. QED
    BY <2>3, <2>4, <2>5
<1>6. h = [s \in SUBSET t |-> IF s = {} THEN 0 ELSE f[Pick(s)] + h[s \ {Pick(s)}]]
  <2>1. ASSUME NEW s \in SUBSET t
        PROVE  h[s] = IF s = {} THEN 0 ELSE f[Pick(s)] + h[s \ {Pick(s)}]
    BY <1>5
  <2>2. h = [s \in SUBSET t |-> h[s]]
    OBVIOUS
  <2> HIDE DEF h
  <2>3. QED
    BY <2>1, <2>2
<1>7. IsSum(h, f, t)
  <2> HIDE DEF h
  <2>1. QED
    BY <1>6 DEF IsSum
<1>8. QED
  BY <1>7 DEF T

\* The sum over a set that is not empty is a value and the sum over the others.
LEMMA SumPicked ==
  ASSUME NEW f, NEW S, IsFiniteSet(S)
  PROVE  SumFunctionOnSet(f, S)
           = IF S = {} THEN 0 ELSE f[Pick(S)] + SumFunctionOnSet(f, S \ {Pick(S)})
<1> DEFINE G(u) == CHOOSE g : IsSum(g, f, u)
           R == S \ {Pick(S)}
<1>1. \A u : SumFunctionOnSet(f, u) = G(u)[u]
  BY DEF SumFunctionOnSet, FoldFunctionOnSet, MapThenFoldSet, IsSum, Pick
<1>2. IsSum(G(S), f, S)
  BY SumExists
<1>3. IsFiniteSet(R)
  BY FS_Subset
<1>4. IsSum(G(R), f, R)
  BY <1>3, SumExists
<1> HIDE DEF G
<1>5. G(S)[R] = G(R)[R]
  BY <1>2, <1>4, SumUnique
<1>6. G(S)[S] = IF S = {} THEN 0 ELSE f[Pick(S)] + G(S)[R]
  BY <1>2, SumAt
<1>7. QED
  BY <1>1, <1>5, <1>6

\* A sum of integers is one.
LEMMA SumType ==
  ASSUME NEW f, NEW S, IsFiniteSet(S), \A x \in S : f[x] \in Int
  PROVE  SumFunctionOnSet(f, S) \in Int
<1> DEFINE T == {t \in SUBSET S : SumFunctionOnSet(f, t) \notin Int}
<1>1. SUFFICES ASSUME T # {} PROVE FALSE
  OBVIOUS
<1>2. PICK t \in T : \A y \in T : y \subseteq t => y = t
  <2>1. T \subseteq SUBSET S
    OBVIOUS
  <2> HIDE DEF T
  <2>2. QED
    BY <1>1, <2>1, SmallestSubset
<1>3. t \subseteq S /\ IsFiniteSet(t) /\ SumFunctionOnSet(f, t) \notin Int
  BY FS_Subset
<1>4. SumFunctionOnSet(f, t)
        = IF t = {} THEN 0 ELSE f[Pick(t)] + SumFunctionOnSet(f, t \ {Pick(t)})
  BY <1>3, SumPicked
<1>5. t # {}
  BY <1>3, <1>4
<1>6. Pick(t) \in t /\ t \ {Pick(t)} \subseteq S
  BY <1>3, <1>5, PickIn
<1>7. t \ {Pick(t)} \notin T
  BY <1>2, <1>6
<1>8. SumFunctionOnSet(f, t \ {Pick(t)}) \in Int
  BY <1>6, <1>7
<1>9. QED
  BY <1>3, <1>4, <1>5, <1>6, <1>8

\* Any element may be taken first.
LEMMA SumRemove ==
  ASSUME NEW f, NEW S, IsFiniteSet(S), \A x \in S : f[x] \in Int, NEW a \in S
  PROVE  SumFunctionOnSet(f, S) = f[a] + SumFunctionOnSet(f, S \ {a})
<1> DEFINE Sum(u) == SumFunctionOnSet(f, u)
           T == {t \in SUBSET S : \E x \in t : Sum(t) # f[x] + Sum(t \ {x})}
<1>1. SUFFICES ASSUME T # {} PROVE FALSE
  OBVIOUS
<1>2. PICK t \in T : \A y \in T : y \subseteq t => y = t
  <2>1. T \subseteq SUBSET S
    OBVIOUS
  <2> HIDE DEF T
  <2>2. QED
    BY <1>1, <2>1, SmallestSubset
<1>3. t \subseteq S /\ IsFiniteSet(t)
  BY FS_Subset
<1>4. PICK x \in t : Sum(t) # f[x] + Sum(t \ {x})
  OBVIOUS
<1>5. \A u \in SUBSET S : u \subseteq t /\ u # t => \A y \in u : Sum(u) = f[y] + Sum(u \ {y})
  BY <1>2
<1>6. \A u \in SUBSET S : Sum(u) \in Int
  <2>1. ASSUME NEW u \in SUBSET S
        PROVE  IsFiniteSet(u) /\ \A y \in u : f[y] \in Int
    BY FS_Subset
  <2>2. QED
    BY <2>1, SumType
<1> DEFINE p == Pick(t)
<1>7. p \in t
  BY <1>4, PickIn
<1>8. Sum(t) = f[p] + Sum(t \ {p})
  BY <1>3, <1>4, SumPicked
<1>9. p # x
  BY <1>4, <1>8
<1> HIDE DEF p, Sum, T
<1>10. Sum(t \ {p}) = f[x] + Sum((t \ {p}) \ {x})
  <2>1. t \ {p} \in SUBSET S /\ t \ {p} # t /\ x \in t \ {p}
    BY <1>3, <1>7, <1>9
  <2>2. QED
    BY <1>5, <2>1
<1>11. Sum(t \ {x}) = f[p] + Sum((t \ {x}) \ {p})
  <2>1. t \ {x} \in SUBSET S /\ t \ {x} # t /\ p \in t \ {x}
    BY <1>3, <1>7, <1>9
  <2>2. QED
    BY <1>5, <2>1
<1>12. (t \ {x}) \ {p} = (t \ {p}) \ {x}
  OBVIOUS
<1>13. /\ f[p] \in Int /\ f[x] \in Int
       /\ Sum((t \ {p}) \ {x}) \in Int
  <2>1. (t \ {p}) \ {x} \in SUBSET S
    BY <1>3
  <2>2. QED
    BY <1>3, <1>6, <1>7, <2>1
<1> DEFINE r == Sum((t \ {p}) \ {x})
<1>14. Sum(t) = f[p] + (f[x] + r) /\ Sum(t \ {x}) = f[p] + r /\ r \in Int
  BY <1>8, <1>10, <1>11, <1>12, <1>13
<1> HIDE DEF r
<1>15. QED
  BY <1>4, <1>13, <1>14

\* One more element adds its value.
LEMMA SumAdd ==
  ASSUME NEW f, NEW S, IsFiniteSet(S), NEW a, a \notin S, \A x \in S \cup {a} : f[x] \in Int
  PROVE  SumFunctionOnSet(f, S \cup {a}) = f[a] + SumFunctionOnSet(f, S)
<1>1. IsFiniteSet(S \cup {a})
  BY FS_AddElement
<1>2. (S \cup {a}) \ {a} = S
  OBVIOUS
<1>3. SumFunctionOnSet(f, S \cup {a}) = f[a] + SumFunctionOnSet(f, (S \cup {a}) \ {a})
  BY <1>1, SumRemove
<1>4. QED
  BY <1>2, <1>3

\* Functions that agree on a set have the same sum there.
LEMMA SumSame ==
  ASSUME NEW f, NEW g, NEW S, IsFiniteSet(S), \A x \in S : f[x] = g[x]
  PROVE  SumFunctionOnSet(f, S) = SumFunctionOnSet(g, S)
<1> DEFINE T == {t \in SUBSET S : SumFunctionOnSet(f, t) # SumFunctionOnSet(g, t)}
<1>1. SUFFICES ASSUME T # {} PROVE FALSE
  OBVIOUS
<1>2. PICK t \in T : \A y \in T : y \subseteq t => y = t
  <2>1. T \subseteq SUBSET S
    OBVIOUS
  <2> HIDE DEF T
  <2>2. QED
    BY <1>1, <2>1, SmallestSubset
<1>3. t \subseteq S /\ IsFiniteSet(t) /\ SumFunctionOnSet(f, t) # SumFunctionOnSet(g, t)
  BY FS_Subset
<1> DEFINE u == t \ {Pick(t)}
<1>4. /\ SumFunctionOnSet(f, t) = IF t = {} THEN 0 ELSE f[Pick(t)] + SumFunctionOnSet(f, u)
      /\ SumFunctionOnSet(g, t) = IF t = {} THEN 0 ELSE g[Pick(t)] + SumFunctionOnSet(g, u)
  BY <1>3, SumPicked
<1>5. t # {}
  BY <1>3, <1>4
<1>6. Pick(t) \in t /\ Pick(t) \in S /\ u \subseteq S /\ u \subseteq t /\ u # t
  BY <1>3, <1>5, PickIn
<1>7. SumFunctionOnSet(f, u) = SumFunctionOnSet(g, u)
  BY <1>2, <1>6
<1>8. QED
  BY <1>3, <1>4, <1>5, <1>6, <1>7

\* No elements, no sum.
LEMMA SumEmpty == ASSUME NEW f PROVE SumFunctionOnSet(f, {}) = 0
BY SumPicked, FS_EmptySet

\* A value that changes changes the sum by the difference.
LEMMA SumUpdate ==
  ASSUME NEW f, NEW g, NEW S, IsFiniteSet(S), NEW a \in S,
         \A x \in S : f[x] \in Int /\ g[x] \in Int,
         \A x \in S \ {a} : g[x] = f[x]
  PROVE  SumFunctionOnSet(g, S) = SumFunctionOnSet(f, S) - f[a] + g[a]
<1> DEFINE R == S \ {a}
<1>1. IsFiniteSet(R)
  BY FS_Subset
<1>2. SumFunctionOnSet(f, R) \in Int
  BY <1>1, SumType
<1>3. SumFunctionOnSet(g, R) = SumFunctionOnSet(f, R)
  BY <1>1, SumSame
<1>4. SumFunctionOnSet(f, S) = f[a] + SumFunctionOnSet(f, R)
  BY SumRemove
<1>5. SumFunctionOnSet(g, S) = g[a] + SumFunctionOnSet(g, R)
  BY SumRemove
<1>6. f[a] \in Int /\ g[a] \in Int
  OBVIOUS
<1> HIDE DEF R
<1>7. QED
  BY <1>2, <1>3, <1>4, <1>5, <1>6

\* What one term loses another gets, the same one perhaps.
LEMMA SumOfTransfer ==
  ASSUME NEW S, NEW b \in [S -> Int], NEW w, NEW R, R \subseteq S, IsFiniteSet(R),
         NEW s \in R, NEW d \in R, NEW v \in Int,
         \A c \in S : w[c] = IF c = s /\ c = d THEN b[c] - v + v
                             ELSE IF c = s THEN b[c] - v
                             ELSE IF c = d THEN b[c] + v
                             ELSE b[c]
  PROVE  SumFunctionOnSet(w, R) = SumFunctionOnSet(b, R)
<1> DEFINE debited == [b EXCEPT ![s] = b[s] - v]
<1>1. debited \in [S -> Int] /\ debited[s] = b[s] - v
  OBVIOUS
<1>2. \A c \in S : /\ w[c] = IF c = d THEN debited[c] + v ELSE debited[c]
                   /\ w[c] \in Int
  <2>1. \A c \in S : /\ b[c] \in Int
                     /\ debited[c] = IF c = s THEN b[c] - v ELSE b[c]
    OBVIOUS
  <2> HIDE DEF debited
  <2>2. QED
    BY <2>1
<1>3. SumFunctionOnSet(debited, R) = SumFunctionOnSet(b, R) - b[s] + debited[s]
  <2>1. \A x \in R : b[x] \in Int /\ debited[x] \in Int
    BY <1>1
  <2>2. \A x \in R \ {s} : debited[x] = b[x]
    OBVIOUS
  <2> HIDE DEF debited
  <2>3. QED
    BY <2>1, <2>2, SumUpdate
<1>4. SumFunctionOnSet(w, R) = SumFunctionOnSet(debited, R) - debited[d] + w[d]
  <2>1. \A x \in R : debited[x] \in Int /\ w[x] \in Int
    BY <1>1, <1>2
  <2>2. \A x \in R \ {d} : w[x] = debited[x]
    BY <1>2
  <2> HIDE DEF debited
  <2>3. QED
    BY <2>1, <2>2, SumUpdate
<1>5. /\ b[s] \in Int /\ debited[d] \in Int /\ w[d] = debited[d] + v
      /\ SumFunctionOnSet(b, R) \in Int
  BY <1>1, <1>2, SumType
<1> HIDE DEF debited
<1>6. QED
  BY <1>1, <1>3, <1>4, <1>5

-----------------------------------------------------------------------------
(* The operations. *)

\* What a request does to the book: nothing, or exactly one execution by
\* registered clients of the number that is due, with the funds there.
LEMMA RequestEffect ==
  ASSUME NEW L \in LedgerType, NEW s \in Clients, NEW d \in Clients,
         NEW v \in Int, NEW n \in Nat
  PROVE  \/ handleTransactionLogic(L, s, d, v, n).ledger = L
         \/ /\ handleTransactionLogic(L, s, d, v, n).ledger
                 = updateAndLogTransaction(executeTransaction(L, s, d, v, n), s, d, v, n)
            /\ s \in L.registered /\ d \in L.registered
            /\ n = L.lastReq[s] + 1
            /\ L.balance[s] >= v
<1> DEFINE st == validateTransaction(L, s, d, v, n)
<1>1. handleTransactionLogic(L, s, d, v, n).ledger
        = IF st = "SUCCESS"
          THEN updateAndLogTransaction(executeTransaction(L, s, d, v, n), s, d, v, n)
          ELSE L
  BY DEF handleTransactionLogic
<1>2. L.lastReq[s] \in Nat /\ L.balance[s] \in Int
  BY DEF LedgerType
<1>3. ASSUME st = "SUCCESS"
      PROVE  /\ s \in L.registered /\ d \in L.registered
             /\ n = L.lastReq[s] + 1
             /\ L.balance[s] >= v
  BY <1>2, <1>3 DEF validateTransaction, findClient
<1>4. QED
  BY <1>1, <1>3

\* The book an execution leaves, field by field.
LEMMA ExecutionFields ==
  ASSUME NEW L \in LedgerType, NEW s \in Clients, NEW d \in Clients,
         NEW v \in Int, NEW n \in Nat,
         NEW M, M = updateAndLogTransaction(executeTransaction(L, s, d, v, n), s, d, v, n)
  PROVE  /\ M \in LedgerType
         /\ M.registered = L.registered
         /\ \A c \in Clients : M.lastReq[c] = IF c = s THEN n ELSE L.lastReq[c]
         /\ \A c \in Clients : M.balance[c] =
               IF c = s /\ c = d THEN L.balance[c] - v + v
               ELSE IF c = s THEN L.balance[c] - v
               ELSE IF c = d THEN L.balance[c] + v
               ELSE L.balance[c]
         /\ M.history = Append(L.history, newTransaction(L, s, d, v, n))
         /\ M.numTransactions = L.numTransactions + 1
         /\ M.totalTransferred = L.totalTransferred + v
         /\ M.totalBalance = L.totalBalance
<1> DEFINE debited == setBalance(L.balance, s, L.balance[s] - v)
           book == setBalance(debited, d, debited[d] + v)
           lastReq == [L.lastReq EXCEPT ![s] = n]
           entry == newTransaction(L, s, d, v, n)
           E == executeTransaction(L, s, d, v, n)
<1>1. debited \in [Clients -> Int] /\ book \in [Clients -> Int]
  BY DEF LedgerType, setBalance
<1>2. lastReq \in [Clients -> Nat]
  BY DEF LedgerType
<1>3. E = [L EXCEPT !.balance = book, !.lastReq = lastReq]
  BY DEF LedgerType, executeTransaction, setBalance
<1>4. /\ E.registered = L.registered /\ E.history = L.history
      /\ E.numTransactions = L.numTransactions
      /\ E.totalTransferred = L.totalTransferred
      /\ E.totalBalance = L.totalBalance
      /\ E.lastReq = lastReq
      /\ E.balance = book
  <2> HIDE DEF book, lastReq, E
  <2> QED BY <1>3 DEF LedgerType
<1>5. E \in LedgerType
  <2> HIDE DEF book, lastReq, E
  <2> QED BY <1>1, <1>2, <1>3 DEF LedgerType
<1>6. entry \in Transaction
  BY DEF LedgerType, Transaction, newTransaction
<1>7. Append(L.history, entry) \in Seq(Transaction)
  BY <1>6 DEF LedgerType
<1>8. M = [E EXCEPT !.numTransactions = L.numTransactions + 1,
                    !.totalTransferred = L.totalTransferred + v,
                    !.history = Append(L.history, entry)]
  BY <1>4 DEF updateAndLogTransaction, newTransaction
<1>9. /\ M.registered = L.registered
      /\ M.lastReq = lastReq
      /\ M.balance = book
      /\ M.history = Append(L.history, entry)
      /\ M.numTransactions = L.numTransactions + 1
      /\ M.totalTransferred = L.totalTransferred + v
      /\ M.totalBalance = L.totalBalance
  <2> HIDE DEF book, lastReq, E, entry
  <2> QED BY <1>4, <1>5, <1>8 DEF LedgerType
<1>10. M \in LedgerType
  <2> DEFINE h == Append(L.history, entry)
             count == L.numTransactions + 1
             total == L.totalTransferred + v
  <2>1. h \in Seq(Transaction) /\ count \in Nat /\ total \in Int
    BY <1>7 DEF LedgerType
  <2>2. M = [E EXCEPT !.numTransactions = count, !.totalTransferred = total, !.history = h]
    BY <1>8
  <2> HIDE DEF book, lastReq, E, entry, h, count, total
  <2> QED BY <1>5, <2>1, <2>2 DEF LedgerType
<1>11. ASSUME NEW c \in Clients
       PROVE  book[c] = IF c = s /\ c = d THEN L.balance[c] - v + v
                        ELSE IF c = s THEN L.balance[c] - v
                        ELSE IF c = d THEN L.balance[c] + v
                        ELSE L.balance[c]
  BY DEF setBalance, LedgerType
<1>12. ASSUME NEW c \in Clients
       PROVE  lastReq[c] = IF c = s THEN n ELSE L.lastReq[c]
  BY DEF LedgerType
<1>13. QED
  <2> HIDE DEF book, lastReq, entry
  <2> QED BY <1>9, <1>10, <1>11, <1>12 DEF entry

\* Registering an address keeps the book a book and touches no account.
LEMMA RegistrationEffect ==
  ASSUME NEW L \in LedgerType, NEW c \in Clients
  PROVE  /\ wasClientAdded(L, c) \in LedgerType
         /\ wasClientAdded(L, c).registered = L.registered \cup {c}
         /\ wasClientAdded(L, c).lastReq = L.lastReq
         /\ wasClientAdded(L, c).balance = L.balance
         /\ wasClientAdded(L, c).history = L.history
         /\ wasClientAdded(L, c).numTransactions = L.numTransactions
         /\ wasClientAdded(L, c).totalTransferred = L.totalTransferred
         /\ wasClientAdded(L, c).totalBalance =
              IF c \in L.registered THEN L.totalBalance ELSE L.totalBalance + InitialBalance
<1>1. CASE findClient(L, c)
  BY <1>1 DEF wasClientAdded, findClient, LedgerType
<1>2. CASE ~findClient(L, c)
  <2> DEFINE more == L.registered \cup {c}
             total == L.totalBalance + InitialBalance
             M == wasClientAdded(L, c)
  <2>1. more \in SUBSET Clients /\ total \in Int
    BY InitialBalanceAssumption DEF LedgerType
  <2>2. M = [L EXCEPT !.registered = more, !.totalBalance = total]
    BY <1>2 DEF wasClientAdded
  <2> HIDE DEF more, total, M
  <2>3. /\ M \in LedgerType /\ M.registered = more /\ M.lastReq = L.lastReq
        /\ M.balance = L.balance /\ M.history = L.history
        /\ M.numTransactions = L.numTransactions
        /\ M.totalTransferred = L.totalTransferred /\ M.totalBalance = total
    BY <2>1, <2>2 DEF LedgerType
  <2>4. QED
    BY <1>2, <2>3 DEF more, total, M, findClient
<1>3. QED
  BY <1>1, <1>2

LEMMA EmptyLedgerType == EmptyLedger \in LedgerType
BY InitialBalanceAssumption DEF EmptyLedger, LedgerType

\* The status of an answer tells what the request's number was, and whether the
\* book changed.
LEMMA StatusEffect ==
  ASSUME NEW L \in LedgerType, NEW s \in Clients, NEW d \in Clients,
         NEW v \in Int, NEW n \in Nat,
         NEW r, r = handleTransactionLogic(L, s, d, v, n)
  PROVE  /\ r.status \in Statuses
         /\ r.ledger \in LedgerType
         /\ r.status = "SUCCESS" =>
              /\ n = L.lastReq[s] + 1
              /\ \A c \in Clients : r.ledger.lastReq[c] = IF c = s THEN n ELSE L.lastReq[c]
         /\ r.status # "SUCCESS" => r.ledger = L
         /\ r.status = "ERROR_DUPLICATE_REQUEST" => n <= L.lastReq[s]
         /\ r.status = "ERROR_OUT_OF_SEQUENCE" => n > L.lastReq[s] + 1
<1> DEFINE st == validateTransaction(L, s, d, v, n)
           M == updateAndLogTransaction(executeTransaction(L, s, d, v, n), s, d, v, n)
<1>1. /\ r.status = st
      /\ st = "SUCCESS" => r.ledger = M
      /\ st # "SUCCESS" => r.ledger = L
  BY DEF handleTransactionLogic
<1>2. L.lastReq[s] \in Nat /\ L.balance[s] \in Int
  BY DEF LedgerType
<1>3. /\ st \in Statuses
      /\ st = "SUCCESS" => n = L.lastReq[s] + 1
      /\ st = "ERROR_DUPLICATE_REQUEST" => n <= L.lastReq[s]
      /\ st = "ERROR_OUT_OF_SEQUENCE" => n > L.lastReq[s] + 1
  BY <1>2 DEF validateTransaction, findClient, Statuses
<1>4. /\ M \in LedgerType
      /\ \A c \in Clients : M.lastReq[c] = IF c = s THEN n ELSE L.lastReq[c]
  <2>1. ASSUME NEW N, N = updateAndLogTransaction(executeTransaction(L, s, d, v, n), s, d, v, n)
        PROVE  /\ N \in LedgerType
               /\ \A c \in Clients : N.lastReq[c] = IF c = s THEN n ELSE L.lastReq[c]
    BY <2>1, ExecutionFields
  <2>2. QED
    BY <2>1
<1>5. QED
  BY <1>1, <1>3, <1>4
=============================================================================
