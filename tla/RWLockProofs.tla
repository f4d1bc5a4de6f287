---------------------------- MODULE RWLockProofs ----------------------------
(***************************************************************************)
(* The readers-writer lock for any finite set of threads: the fields tell  *)
(* the truth, a writer is alone, no wakeup is lost, and the lock is the    *)
(* one module ReadersWriters specifies.  Then the display, whose threads   *)
(* do with the data's lock what RWLock allows, so that what is proved of   *)
(* the lock holds there: no change stays unseen.                           *)
(***************************************************************************)
EXTENDS Display, FiniteSetTheorems, TLAPS

IInv ==
  /\ TypeOK /\ FieldsTellTheTruth /\ MutualExclusion
  /\ NoStrandedWriter /\ NoStrandedReader

\* The threads that may move while t does: sleepers that t wakes.
OthersSleepOrWake(t) ==
  \A u \in Threads \ {t} :
    \/ pc'[u] = pc[u]
    \/ pc[u] = "rwait" /\ pc'[u] = "rwoken"
    \/ pc[u] = "wwait" /\ pc'[u] = "wwoken"

-----------------------------------------------------------------------------
\* The three sets are finite, so that the counters can count them.
LEMMA FiniteSets ==
  /\ IsFiniteSet(Reading) /\ IsFiniteSet(Writing) /\ IsFiniteSet(WaitingWriters)
  /\ Cardinality(Reading) \in Nat /\ Cardinality(WaitingWriters) \in Nat
<1>1. Reading \in SUBSET Threads /\ Writing \in SUBSET Threads /\ WaitingWriters \in SUBSET Threads
  BY DEF Reading, Writing, WaitingWriters
<1>2. IsFiniteSet(Reading) /\ IsFiniteSet(Writing) /\ IsFiniteSet(WaitingWriters)
  BY <1>1, ThreadsAssumption, FS_Subset
<1>3. QED
  BY <1>2, FS_CardinalityType

\* Whoever is woken on the way stays in the set it was in: the sets change by the
\* thread that moves.
LEMMA SetsOfMove ==
  ASSUME NEW t \in Threads, pc'[t] \in Places, OthersSleepOrWake(t)
  PROVE  /\ Reading' = IF pc'[t] = "reading" THEN Reading \cup {t} ELSE Reading \ {t}
         /\ Writing' = IF pc'[t] = "writing" THEN Writing \cup {t} ELSE Writing \ {t}
         /\ WaitingWriters' = IF pc'[t] \in {"wwait", "wwoken"}
                              THEN WaitingWriters \cup {t} ELSE WaitingWriters \ {t}
<1>1. Reading' = IF pc'[t] = "reading" THEN Reading \cup {t} ELSE Reading \ {t}
  BY DEF OthersSleepOrWake, Reading
<1>2. Writing' = IF pc'[t] = "writing" THEN Writing \cup {t} ELSE Writing \ {t}
  BY DEF OthersSleepOrWake, Writing
<1>3. WaitingWriters' = IF pc'[t] \in {"wwait", "wwoken"}
                        THEN WaitingWriters \cup {t} ELSE WaitingWriters \ {t}
  BY DEF OthersSleepOrWake, WaitingWriters
<1>4. QED
  BY <1>1, <1>2, <1>3

\* What the counters have to become when t moves.
LEMMA CountsOfMove ==
  ASSUME NEW t \in Threads, pc'[t] \in Places, OthersSleepOrWake(t)
  PROVE  /\ Cardinality(Reading') =
              IF pc'[t] = "reading"
              THEN IF t \in Reading THEN Cardinality(Reading) ELSE Cardinality(Reading) + 1
              ELSE IF t \in Reading THEN Cardinality(Reading) - 1 ELSE Cardinality(Reading)
         /\ Cardinality(WaitingWriters') =
              IF pc'[t] \in {"wwait", "wwoken"}
              THEN IF t \in WaitingWriters THEN Cardinality(WaitingWriters)
                   ELSE Cardinality(WaitingWriters) + 1
              ELSE IF t \in WaitingWriters THEN Cardinality(WaitingWriters) - 1
                   ELSE Cardinality(WaitingWriters)
<1>1. /\ Cardinality(Reading \cup {t}) =
           IF t \in Reading THEN Cardinality(Reading) ELSE Cardinality(Reading) + 1
      /\ Cardinality(Reading \ {t}) =
           IF t \in Reading THEN Cardinality(Reading) - 1 ELSE Cardinality(Reading)
  BY FiniteSets, FS_AddElement, FS_RemoveElement
<1>2. /\ Cardinality(WaitingWriters \cup {t}) =
           IF t \in WaitingWriters THEN Cardinality(WaitingWriters)
           ELSE Cardinality(WaitingWriters) + 1
      /\ Cardinality(WaitingWriters \ {t}) =
           IF t \in WaitingWriters THEN Cardinality(WaitingWriters) - 1
           ELSE Cardinality(WaitingWriters)
  BY FiniteSets, FS_AddElement, FS_RemoveElement
<1>3. QED
  BY <1>1, <1>2, SetsOfMove

\* The predicates of the waits, in terms of the threads.
LEMMA PredicatesRead ==
  ASSUME IInv
  PROVE  /\ readersMayEnter <=> Writing = {} /\ WaitingWriters = {}
         /\ writerMayEnter <=> Reading = {} /\ Writing = {}
         /\ writers_waiting > 0 <=> WaitingWriters # {}
         /\ readers_count > 0 <=> Reading # {}
<1>1. /\ Cardinality(Reading) = 0 <=> Reading = {}
      /\ Cardinality(WaitingWriters) = 0 <=> WaitingWriters = {}
  BY FiniteSets, FS_EmptySet
<1>2. QED
  BY <1>1, FiniteSets DEF IInv, TypeOK, FieldsTellTheTruth, readersMayEnter, writerMayEnter

\* A notification wakes sleepers and moves nobody else.
LEMMA Notifications ==
  ASSUME TypeOK, NEW t \in Threads, pc[t] \in {"reading", "writing"}
  PROVE  /\ NotifyWriter(t) =>
              /\ pc' \in [Threads -> Places] /\ pc'[t] = "idle" /\ OthersSleepOrWake(t)
              /\ Sleeping("rwait")' = Sleeping("rwait")
              /\ Sleeping("wwait") # {} => \E w \in Threads : pc'[w] = "wwoken"
              /\ Sleeping("wwait") = {} => Sleeping("wwait")' = {}
         /\ NotifyReaders(t) =>
              /\ pc' \in [Threads -> Places] /\ pc'[t] = "idle" /\ OthersSleepOrWake(t)
              /\ Sleeping("rwait")' = {}
              /\ Sleeping("wwait")' = Sleeping("wwait")
<1>1. ASSUME NotifyWriter(t)
      PROVE  /\ pc' \in [Threads -> Places] /\ pc'[t] = "idle" /\ OthersSleepOrWake(t)
             /\ Sleeping("rwait")' = Sleeping("rwait")
             /\ Sleeping("wwait") # {} => \E w \in Threads : pc'[w] = "wwoken"
             /\ Sleeping("wwait") = {} => Sleeping("wwait")' = {}
  <2>1. CASE Sleeping("wwait") = {}
    <3>1. pc' = [pc EXCEPT ![t] = "idle"]
      BY <1>1, <2>1 DEF NotifyWriter
    <3>2. QED
      BY <2>1, <3>1 DEF TypeOK, Places, OthersSleepOrWake, Sleeping
  <2>2. CASE Sleeping("wwait") # {}
    <3>1. PICK w \in Sleeping("wwait") : pc' = [[pc EXCEPT ![t] = "idle"] EXCEPT ![w] = "wwoken"]
      BY <1>1, <2>2 DEF NotifyWriter
    <3>2. w \in Threads /\ pc[w] = "wwait" /\ w # t
      BY <3>1 DEF Sleeping
    <3>3. /\ pc' \in [Threads -> Places]
          /\ \A u \in Threads : pc'[u] = IF u = w THEN "wwoken"
                                         ELSE IF u = t THEN "idle" ELSE pc[u]
      BY <3>1, <3>2 DEF TypeOK, Places
    <3>4. QED
      BY <2>2, <3>2, <3>3 DEF OthersSleepOrWake, Sleeping
  <2>3. QED
    BY <2>1, <2>2
<1>2. ASSUME NotifyReaders(t)
      PROVE  /\ pc' \in [Threads -> Places] /\ pc'[t] = "idle" /\ OthersSleepOrWake(t)
             /\ Sleeping("rwait")' = {}
             /\ Sleeping("wwait")' = Sleeping("wwait")
  <2>1. \A u \in Threads : pc'[u] = IF u = t THEN "idle"
                                    ELSE IF pc[u] = "rwait" THEN "rwoken" ELSE pc[u]
    BY <1>2 DEF NotifyReaders
  <2>2. pc' \in [Threads -> Places]
    BY <1>2 DEF NotifyReaders, TypeOK, Places
  <2>3. QED
    BY <2>1, <2>2 DEF OthersSleepOrWake, Sleeping
<1>3. QED
  BY <1>1, <1>2

\* A thread that moves without waking anybody.
LEMMA Going ==
  ASSUME TypeOK, NEW t \in Threads, NEW where \in Places, Go(t, where)
  PROVE  /\ pc' \in [Threads -> Places] /\ pc'[t] = where /\ OthersSleepOrWake(t)
         /\ \A u \in Threads \ {t} : pc'[u] = pc[u]
BY DEF Go, TypeOK, OthersSleepOrWake

-----------------------------------------------------------------------------
LEMMA ReaderLock ==
  ASSUME IInv, NEW t \in Threads, reader_lock(t)
  PROVE  IInv'
<1>1. CASE readersMayEnter
  <2>1. /\ Go(t, "reading") /\ readers_count' = readers_count + 1
        /\ UNCHANGED <<writer_active, writers_waiting>>
        /\ pc[t] \in {"idle", "rwoken"}
    BY <1>1 DEF reader_lock
  <2>2. /\ pc' \in [Threads -> Places] /\ pc'[t] = "reading" /\ OthersSleepOrWake(t)
        /\ \A u \in Threads \ {t} : pc'[u] = pc[u]
    BY <2>1, Going DEF IInv, Places
  <2>3. Writing = {} /\ WaitingWriters = {} /\ t \notin Reading
    BY <1>1, <2>1, PredicatesRead DEF Reading
  <2>4. /\ Reading' = Reading \cup {t} /\ Writing' = {} /\ WaitingWriters' = {}
        /\ Cardinality(Reading') = Cardinality(Reading) + 1
        /\ Cardinality(WaitingWriters') = Cardinality(WaitingWriters)
    BY <2>2, <2>3, SetsOfMove, CountsOfMove
  <2>5. Sleeping("rwait")' = {}
    BY <2>2, <2>3 DEF IInv, NoStrandedReader, Sleeping
  <2>6. TypeOK'
    BY <2>1, <2>2 DEF IInv, TypeOK
  <2>7. FieldsTellTheTruth'
    BY <2>1, <2>3, <2>4 DEF IInv, FieldsTellTheTruth
  <2>8. QED
    BY <2>4, <2>5, <2>6, <2>7 DEF IInv, MutualExclusion, NoStrandedWriter, NoStrandedReader
<1>2. CASE ~readersMayEnter
  <2>1. /\ Go(t, "rwait") /\ UNCHANGED <<readers_count, writer_active, writers_waiting>>
        /\ pc[t] \in {"idle", "rwoken"}
    BY <1>2 DEF reader_lock
  <2>2. /\ pc' \in [Threads -> Places] /\ pc'[t] = "rwait" /\ OthersSleepOrWake(t)
        /\ \A u \in Threads \ {t} : pc'[u] = pc[u]
    BY <2>1, Going DEF IInv, Places
  <2>3. t \notin Reading /\ t \notin Writing /\ t \notin WaitingWriters
    BY <2>1 DEF Reading, Writing, WaitingWriters
  <2>4. Reading' = Reading /\ Writing' = Writing /\ WaitingWriters' = WaitingWriters
    BY <2>2, <2>3, SetsOfMove
  <2>5. Writing \cup WaitingWriters # {}
    BY <1>2, PredicatesRead
  <2>6. \A u \in Threads : pc'[u] = "wwait" <=> pc[u] = "wwait"
    BY <2>1, <2>2
  <2>7. \A u \in Threads : pc'[u] = "wwoken" <=> pc[u] = "wwoken"
    BY <2>1, <2>2
  <2>8. NoStrandedWriter'
    BY <2>4, <2>6, <2>7 DEF IInv, NoStrandedWriter, Sleeping
  <2>9. TypeOK' /\ FieldsTellTheTruth'
    BY <2>1, <2>2, <2>4 DEF IInv, TypeOK, FieldsTellTheTruth
  <2>10. QED
    BY <2>4, <2>5, <2>8, <2>9 DEF IInv, MutualExclusion, NoStrandedReader
<1>3. QED
  BY <1>1, <1>2

LEMMA ReaderUnlock ==
  ASSUME IInv, NEW t \in Threads, reader_unlock(t)
  PROVE  IInv'
<1>1. /\ pc[t] = "reading" /\ readers_count' = readers_count - 1
      /\ UNCHANGED <<writer_active, writers_waiting>>
      /\ t \in Reading /\ t \notin Writing /\ t \notin WaitingWriters
  BY DEF reader_unlock, Reading, Writing, WaitingWriters
<1>2. readers_count > 0 /\ readers_count \in Nat
  BY <1>1, PredicatesRead DEF IInv, TypeOK
<1>3. /\ pc' \in [Threads -> Places] /\ pc'[t] = "idle" /\ OthersSleepOrWake(t)
      /\ Sleeping("rwait")' = Sleeping("rwait")
      /\ \/ readers_count = 1 /\ (Sleeping("wwait")' # {} => \E w \in Threads : pc'[w] = "wwoken")
         \/ readers_count # 1
  <2>1. CASE readers_count = 1
    BY <1>1, <2>1, Notifications DEF IInv, reader_unlock
  <2>2. CASE readers_count # 1
    <3>1. Go(t, "idle") /\ "idle" \in Places
      BY <2>2 DEF reader_unlock, Places
    <3>2. QED
      BY <1>1, <2>2, <3>1, Going DEF IInv, Sleeping
  <2>3. QED
    BY <2>1, <2>2
<1>4. /\ Reading' = Reading \ {t} /\ Writing' = Writing /\ WaitingWriters' = WaitingWriters
      /\ Cardinality(Reading') = Cardinality(Reading) - 1
  <2>1. Reading' = Reading \ {t} /\ Writing' = Writing /\ WaitingWriters' = WaitingWriters
    BY <1>1, <1>3, SetsOfMove
  <2>2. Cardinality(Reading') = Cardinality(Reading) - 1
    BY <1>1, <1>3, CountsOfMove
  <2>3. QED
    BY <2>1, <2>2
<1>5. TypeOK' /\ FieldsTellTheTruth'
  BY <1>1, <1>2, <1>3, <1>4 DEF IInv, TypeOK, FieldsTellTheTruth
<1>6. Reading' = {} => readers_count = 1
  <2>1. IsFiniteSet(Reading') /\ (Cardinality(Reading') = 0 <=> Reading' = {})
    BY <1>4, FiniteSets, FS_EmptySet, FS_RemoveElement
  <2>2. QED
    BY <1>2, <1>4, <2>1 DEF IInv, FieldsTellTheTruth
<1>7. MutualExclusion' /\ NoStrandedReader'
  BY <1>1, <1>3, <1>4 DEF IInv, MutualExclusion, NoStrandedReader
<1>8. NoStrandedWriter'
  BY <1>3, <1>6 DEF NoStrandedWriter
<1>9. QED
  BY <1>5, <1>7, <1>8 DEF IInv

LEMMA WriterLock ==
  ASSUME IInv, NEW t \in Threads, writer_lock(t) \/ writer_relock(t)
  PROVE  IInv'
<1>1. CASE writerMayEnter
  <2>1. /\ Go(t, "writing") /\ writer_active' = TRUE /\ readers_count' = readers_count
        /\ \/ pc[t] = "idle" /\ writers_waiting' = writers_waiting
           \/ pc[t] = "wwoken" /\ writers_waiting' = writers_waiting - 1
    BY <1>1 DEF writer_lock, writer_relock
  <2>2. /\ pc' \in [Threads -> Places] /\ pc'[t] = "writing" /\ OthersSleepOrWake(t)
        /\ \A u \in Threads \ {t} : pc'[u] = pc[u]
    BY <2>1, Going DEF IInv, Places
  <2>3. /\ Reading = {} /\ Writing = {}
        /\ t \in WaitingWriters <=> pc[t] = "wwoken"
    BY <1>1, <2>1, PredicatesRead DEF WaitingWriters
  <2>4. Reading' = {} /\ Writing' = {t}
    BY <2>2, <2>3, SetsOfMove
  <2>5. /\ Cardinality(Reading') = Cardinality(Reading)
        /\ Cardinality(WaitingWriters') = IF t \in WaitingWriters
                                          THEN Cardinality(WaitingWriters) - 1
                                          ELSE Cardinality(WaitingWriters)
    BY <2>2, <2>3, CountsOfMove
  <2>6. FieldsTellTheTruth'
    BY <2>1, <2>3, <2>4, <2>5 DEF IInv, FieldsTellTheTruth
  <2>7. WaitingWriters' \in SUBSET Threads /\ Cardinality(WaitingWriters') \in Nat
    <3>1. IsFiniteSet(WaitingWriters')
      BY <2>2, SetsOfMove, FiniteSets, FS_AddElement, FS_RemoveElement
    <3>2. QED
      BY <3>1, FS_CardinalityType DEF WaitingWriters
  <2>8. TypeOK'
    BY <2>1, <2>2, <2>6, <2>7 DEF IInv, TypeOK, FieldsTellTheTruth
  <2>9. MutualExclusion' /\ NoStrandedWriter' /\ NoStrandedReader'
    BY <2>4 DEF MutualExclusion, NoStrandedWriter, NoStrandedReader
  <2>10. QED
    BY <2>6, <2>8, <2>9 DEF IInv
<1>2. CASE ~writerMayEnter
  <2>1. /\ Go(t, "wwait") /\ UNCHANGED <<readers_count, writer_active>>
        /\ \/ pc[t] = "idle" /\ writers_waiting' = writers_waiting + 1
           \/ pc[t] = "wwoken" /\ writers_waiting' = writers_waiting
    BY <1>2 DEF writer_lock, writer_relock
  <2>2. /\ pc' \in [Threads -> Places] /\ pc'[t] = "wwait" /\ OthersSleepOrWake(t)
        /\ \A u \in Threads \ {t} : pc'[u] = pc[u]
    BY <2>1, Going DEF IInv, Places
  <2>3. /\ t \notin Reading /\ t \notin Writing
        /\ t \in WaitingWriters <=> pc[t] = "wwoken"
    BY <2>1 DEF Reading, Writing, WaitingWriters
  <2>4. /\ Reading' = Reading /\ Writing' = Writing
        /\ WaitingWriters' = WaitingWriters \cup {t}
    BY <2>2, <2>3, SetsOfMove
  <2>5. Cardinality(WaitingWriters') = IF t \in WaitingWriters
                                       THEN Cardinality(WaitingWriters)
                                       ELSE Cardinality(WaitingWriters) + 1
    BY <2>2, <2>3, CountsOfMove
  <2>6. TypeOK' /\ FieldsTellTheTruth'
    BY <2>1, <2>2, <2>3, <2>4, <2>5 DEF IInv, TypeOK, FieldsTellTheTruth
  <2>7. Reading \cup Writing # {}
    BY <1>2, PredicatesRead
  <2>8. MutualExclusion' /\ NoStrandedWriter' /\ NoStrandedReader'
    BY <2>4, <2>7 DEF IInv, MutualExclusion, NoStrandedWriter, NoStrandedReader
  <2>9. QED
    BY <2>6, <2>8 DEF IInv
<1>3. QED
  BY <1>1, <1>2

LEMMA WriterUnlock ==
  ASSUME IInv, NEW t \in Threads, writer_unlock(t)
  PROVE  IInv'
<1>1. /\ pc[t] = "writing" /\ writer_active' = FALSE
      /\ UNCHANGED <<readers_count, writers_waiting>>
      /\ t \in Writing /\ t \notin Reading /\ t \notin WaitingWriters
  BY DEF writer_unlock, Reading, Writing, WaitingWriters
<1>2. Reading = {} /\ Writing = {t}
  BY <1>1 DEF IInv, MutualExclusion
<1>3. /\ pc' \in [Threads -> Places] /\ pc'[t] = "idle" /\ OthersSleepOrWake(t)
      /\ \/ WaitingWriters # {} /\ (Sleeping("wwait")' # {} => \E w \in Threads : pc'[w] = "wwoken")
         \/ WaitingWriters = {} /\ Sleeping("rwait")' = {} /\ Sleeping("wwait")' = Sleeping("wwait")
  <2>1. CASE WaitingWriters # {}
    <3>1. NotifyWriter(t)
      BY <2>1, PredicatesRead DEF writer_unlock
    <3>2. QED
      BY <1>1, <2>1, <3>1, Notifications DEF IInv
  <2>2. CASE WaitingWriters = {}
    <3>1. NotifyReaders(t)
      BY <2>2, PredicatesRead DEF writer_unlock
    <3>2. QED
      BY <1>1, <2>2, <3>1, Notifications DEF IInv
  <2>3. QED
    BY <2>1, <2>2
<1>4. Reading' = {} /\ Writing' = {} /\ WaitingWriters' = WaitingWriters
  BY <1>1, <1>2, <1>3, SetsOfMove
<1>5. TypeOK' /\ FieldsTellTheTruth'
  BY <1>1, <1>2, <1>3, <1>4 DEF IInv, TypeOK, FieldsTellTheTruth
<1>6. MutualExclusion' /\ NoStrandedReader'
  BY <1>3, <1>4 DEF MutualExclusion, NoStrandedReader
<1>7. NoStrandedWriter'
  <2>1. WaitingWriters = {} => Sleeping("wwait") = {}
    BY DEF WaitingWriters, Sleeping
  <2>2. QED
    BY <1>3, <2>1 DEF NoStrandedWriter
<1>8. QED
  BY <1>5, <1>6, <1>7 DEF IInv

LEMMA Spurious ==
  ASSUME IInv, NEW t \in Threads, SpuriousWakeup(t)
  PROVE  IInv'
<1>1. /\ \/ pc[t] = "rwait" /\ Go(t, "rwoken")
         \/ pc[t] = "wwait" /\ Go(t, "wwoken")
      /\ UNCHANGED <<readers_count, writer_active, writers_waiting>>
  BY DEF SpuriousWakeup
<1>2. /\ pc' \in [Threads -> Places] /\ OthersSleepOrWake(t)
      /\ \A u \in Threads \ {t} : pc'[u] = pc[u]
      /\ \/ pc[t] = "rwait" /\ pc'[t] = "rwoken"
         \/ pc[t] = "wwait" /\ pc'[t] = "wwoken"
  BY <1>1, Going DEF IInv, Places
<1>3. Reading' = Reading /\ Writing' = Writing /\ WaitingWriters' = WaitingWriters
  BY <1>2 DEF Reading, Writing, WaitingWriters
<1>4. TypeOK' /\ FieldsTellTheTruth'
  BY <1>1, <1>2, <1>3 DEF IInv, TypeOK, FieldsTellTheTruth
<1>5. MutualExclusion' /\ NoStrandedReader'
  BY <1>2, <1>3 DEF IInv, MutualExclusion, NoStrandedReader, Sleeping
<1>6. NoStrandedWriter'
  BY <1>2, <1>3 DEF IInv, NoStrandedWriter, Sleeping
<1>7. QED
  BY <1>4, <1>5, <1>6 DEF IInv

-----------------------------------------------------------------------------
LEMMA InitIInv == Init => IInv
<1> SUFFICES ASSUME Init
             PROVE  IInv
  OBVIOUS
<1>1. TypeOK
  BY DEF Init, TypeOK, Places
<1>2. /\ Reading = {} /\ Writing = {} /\ WaitingWriters = {}
      /\ Sleeping("rwait") = {} /\ Sleeping("wwait") = {}
  BY DEF Init, Reading, Writing, WaitingWriters, Sleeping
<1>3. FieldsTellTheTruth
  BY <1>2, FS_EmptySet DEF Init, FieldsTellTheTruth
<1>4. QED
  BY <1>1, <1>2, <1>3
     DEF IInv, MutualExclusion, NoStrandedWriter, NoStrandedReader

LEMMA StepIInv == IInv /\ [Next]_vars => IInv'
<1> SUFFICES ASSUME IInv, [Next]_vars
             PROVE  IInv'
  OBVIOUS
<1>1. CASE UNCHANGED vars
  <2>1. /\ Reading' = Reading /\ Writing' = Writing /\ WaitingWriters' = WaitingWriters
        /\ Sleeping("rwait")' = Sleeping("rwait") /\ Sleeping("wwait")' = Sleeping("wwait")
        /\ pc' = pc
    BY <1>1 DEF vars, Reading, Writing, WaitingWriters, Sleeping
  <2>2. QED
    BY <1>1, <2>1 DEF vars, IInv, TypeOK, FieldsTellTheTruth, MutualExclusion,
                      NoStrandedWriter, NoStrandedReader
<1>2. CASE Next
  BY <1>2, ReaderLock, ReaderUnlock, WriterLock, WriterUnlock, Spurious DEF Next
<1>3. QED
  BY <1>1, <1>2

LEMMA AlwaysIInv == Spec => []IInv
BY InitIInv, StepIInv, PTL DEF Spec

\* At every moment a writer is alone, and the counters are exact, for any number
\* of threads.
THEOREM LockIsSafe == Spec => [](MutualExclusion /\ FieldsTellTheTruth)
<1>1. IInv => MutualExclusion /\ FieldsTellTheTruth
  BY DEF IInv
<1>2. QED
  BY <1>1, AlwaysIInv, PTL

\* No wakeup is lost, for any number of threads: a free lock with a sleeping
\* writer has a woken one, and a sleeping reader has a writer to be notified by.
THEOREM NoLostWakeup == Spec => [](NoStrandedWriter /\ NoStrandedReader)
<1>1. IInv => NoStrandedWriter /\ NoStrandedReader
  BY DEF IInv
<1>2. QED
  BY <1>1, AlwaysIInv, PTL

-----------------------------------------------------------------------------
\* Each step of the code's lock is a step of the promised one, or none.
LEMMA StepRefines ==
  ASSUME IInv, IInv', Next
  PROVE  [RW!Next]_(RW!vars)
<1>1. ASSUME NEW t \in Threads, reader_lock(t)
      PROVE  RW!StartRead(t) \/ UNCHANGED RW!vars
  <2>1. t \notin Reading \cup Writing \cup WaitingWriters
    BY <1>1 DEF reader_lock, Reading, Writing, WaitingWriters
  <2>2. CASE readersMayEnter
    <3>1. pc'[t] = "reading" /\ OthersSleepOrWake(t)
      BY <1>1, <2>2, Going DEF IInv, reader_lock, Places
    <3>2. QED
      BY <2>1, <2>2, <3>1, SetsOfMove, PredicatesRead DEF RW!StartRead, Places
  <2>3. CASE ~readersMayEnter
    <3>1. pc'[t] = "rwait" /\ OthersSleepOrWake(t)
      BY <1>1, <2>3, Going DEF IInv, reader_lock, Places
    <3>2. QED
      BY <2>1, <3>1, SetsOfMove DEF RW!vars, Places
  <2>4. QED
    BY <2>2, <2>3
<1>2. ASSUME NEW t \in Threads, reader_unlock(t)
      PROVE  RW!EndRead(t)
  <2>1. pc[t] = "reading" /\ t \in Reading /\ t \notin Writing \cup WaitingWriters
    BY <1>2 DEF reader_unlock, Reading, Writing, WaitingWriters
  <2>2. pc'[t] = "idle" /\ OthersSleepOrWake(t)
    <3>1. NotifyWriter(t) \/ Go(t, "idle")
      BY <1>2 DEF reader_unlock
    <3>2. QED
      BY <2>1, <3>1, Notifications, Going DEF IInv, Places
  <2>3. QED
    BY <2>1, <2>2, SetsOfMove DEF RW!EndRead, Places
<1>3. ASSUME NEW t \in Threads, writer_lock(t) \/ writer_relock(t)
      PROVE  RW!StartWrite(t) \/ RW!AwaitWrite(t) \/ UNCHANGED RW!vars
  <2>1. /\ t \notin Reading \cup Writing
        /\ t \in WaitingWriters <=> pc[t] = "wwoken"
        /\ pc[t] \in {"idle", "wwoken"}
    BY <1>3 DEF writer_lock, writer_relock, Reading, Writing, WaitingWriters
  <2>2. CASE writerMayEnter
    <3>1. pc'[t] = "writing" /\ OthersSleepOrWake(t)
      BY <1>3, <2>2, Going DEF IInv, writer_lock, writer_relock, Places
    <3>2. QED
      BY <2>1, <2>2, <3>1, SetsOfMove, PredicatesRead DEF RW!StartWrite, Places
  <2>3. CASE ~writerMayEnter
    <3>1. pc'[t] = "wwait" /\ OthersSleepOrWake(t)
      BY <1>3, <2>3, Going DEF IInv, writer_lock, writer_relock, Places
    <3>2. /\ Reading' = Reading /\ Writing' = Writing
          /\ WaitingWriters' = WaitingWriters \cup {t}
      BY <2>1, <3>1, SetsOfMove DEF Places
    <3>3. QED
      BY <2>1, <2>3, <3>2, PredicatesRead DEF RW!AwaitWrite, RW!vars
  <2>4. QED
    BY <2>2, <2>3
<1>4. ASSUME NEW t \in Threads, writer_unlock(t)
      PROVE  RW!EndWrite(t)
  <2>1. pc[t] = "writing" /\ t \in Writing /\ t \notin Reading \cup WaitingWriters
    BY <1>4 DEF writer_unlock, Reading, Writing, WaitingWriters
  <2>2. pc'[t] = "idle" /\ OthersSleepOrWake(t)
    <3>1. NotifyWriter(t) \/ NotifyReaders(t)
      BY <1>4 DEF writer_unlock
    <3>2. QED
      BY <2>1, <3>1, Notifications DEF IInv
  <2>3. QED
    BY <2>1, <2>2, SetsOfMove DEF RW!EndWrite, Places
<1>5. ASSUME NEW t \in Threads, SpuriousWakeup(t)
      PROVE  UNCHANGED RW!vars
  <2>1. /\ \A u \in Threads \ {t} : pc'[u] = pc[u]
        /\ \/ pc[t] = "rwait" /\ pc'[t] = "rwoken"
           \/ pc[t] = "wwait" /\ pc'[t] = "wwoken"
    BY <1>5, Going DEF IInv, SpuriousWakeup, Places
  <2>2. QED
    BY <2>1 DEF RW!vars, Reading, Writing, WaitingWriters
<1>6. QED
  BY <1>1, <1>2, <1>3, <1>4, <1>5 DEF Next, RW!Next

\* The lock implements its specification: many readers or one writer, and no
\* reader past a waiting writer.
THEOREM LockImplementsReadersWriters == Spec => ReadersWritersSpec
<1>1. Init => RW!Init
  BY DEF Init, RW!Init, Reading, Writing, WaitingWriters
<1>2. IInv /\ IInv' /\ [Next]_vars => [RW!Next]_(RW!vars)
  <2>1. UNCHANGED vars => UNCHANGED RW!vars
    BY DEF vars, RW!vars, Reading, Writing, WaitingWriters
  <2>2. QED
    BY <2>1, StepRefines
<1>3. QED
  BY <1>1, <1>2, AlwaysIInv, PTL DEF Spec, ReadersWritersSpec, RW!Spec

-----------------------------------------------------------------------------
(* The display.                                                            *)

Telling == \E t \in Threads : errand[t] = "telling"

\* Somebody made a change and has not set the flag yet.
ToBeFlagged == \E t \in Threads : errand[t] \in {"changed", "notifying"}

\* What was not seen is flagged or will be, also after the flag, which the display is
\* about to clear, has lost its meaning; and a flag beside a display that sleeps means
\* that somebody will wake it.
UnseenIsPending ==
  /\ shown # events => data_changed \/ ToBeFlagged
  /\ interface \in {"drawn", "clearing"} /\ shown # events => ToBeFlagged
  /\ interface = "asleep" /\ data_changed => Telling

Fields ==
  /\ interface \in {"looking", "asleep", "drawing", "drawn", "clearing"}
  /\ data_changed \in BOOLEAN
  /\ errand \in [Threads -> {"none", "changed", "notifying", "telling"}]
  /\ events \in Nat /\ shown \in Nat

DInv == Fields /\ UnseenIsPending

-----------------------------------------------------------------------------
\* Every step of a server's threads is a step of the lock or leaves it alone.
LEMMA StepOfLock == [DisplayNext]_displayAndLockVars => [Next]_vars
<1>1. ASSUME NEW t \in Threads, lock(t)
      PROVE  Next
  BY <1>1 DEF lock, Next
<1>2. ASSUME NEW t \in Threads, unlock(t)
      PROVE  Next
  BY <1>2 DEF unlock, Next
<1>3. ASSUME NEW t \in Threads, change(t) \/ setChanged(t) \/ notify_one(t)
      PROVE  UNCHANGED vars
  BY <1>3 DEF change, setChanged, notify_one, lockVars, vars
<1>4. lockToDraw \/ unlockDrawn => Next
  BY DisplayAssumption DEF lockToDraw, unlockDrawn, Next
<1>5. look \/ draw \/ clear => UNCHANGED vars
  BY DEF look, draw, clear, lockVars, vars
<1>6. SpuriousWakeups => [Next]_vars
  BY DEF SpuriousWakeups, Next, lockVars, vars
<1>7. UNCHANGED displayAndLockVars => UNCHANGED vars
  BY DEF displayAndLockVars, lockVars, vars
<1>8. QED
  BY <1>1, <1>2, <1>3, <1>4, <1>5, <1>6, <1>7 DEF DisplayNext, run, Others

\* The threads of a server use the data's lock as RWLock says: what is proved there of
\* any threads holds of a server with its display.
THEOREM DisplayKeepsToTheLock == DisplaySpec => Spec
<1>1. DisplayInit => Init
  BY DEF DisplayInit
<1>2. QED
  BY <1>1, StepOfLock, PTL DEF DisplaySpec, Spec

-----------------------------------------------------------------------------
LEMMA DInvAtFirst == DisplayInit => DInv
<1> SUFFICES ASSUME DisplayInit PROVE DInv
  OBVIOUS
<1>1. shown = events /\ interface = "looking" /\ data_changed = FALSE
  BY DEF DisplayInit
<1>2. Fields
  BY DEF DisplayInit, Fields
<1>3. UnseenIsPending
  BY <1>1 DEF UnseenIsPending
<1>4. QED
  BY <1>2, <1>3 DEF DInv

\* Steps of the threads that change the data and notify.
LEMMA DInvOthers ==
  ASSUME DInv, NEW t \in Threads,
         lock(t) \/ change(t) \/ unlock(t) \/ setChanged(t) \/ notify_one(t)
  PROVE  DInv'
<1> USE DEF DInv, Fields
<1>1. CASE lock(t)
  BY <1>1 DEF lock, displayVars, UnseenIsPending, ToBeFlagged, Telling
<1>2. CASE change(t)
  <2>1. /\ events' = events + 1
        /\ errand' = [errand EXCEPT ![t] = "changed"]
        /\ UNCHANGED <<interface, data_changed, shown>>
        /\ errand[t] = "none"
    BY <1>2 DEF change
  <2>2. Fields'
    BY <2>1
  <2>3. ToBeFlagged'
    BY <2>1 DEF ToBeFlagged
  <2>4. Telling => Telling'
    BY <2>1 DEF Telling
  <2>5. QED
    BY <2>1, <2>2, <2>3, <2>4 DEF UnseenIsPending
<1>3. CASE unlock(t)
  <2>1. /\ errand' = [errand EXCEPT ![t] = IF @ = "changed" THEN "notifying" ELSE @]
        /\ UNCHANGED <<interface, data_changed, events, shown>>
    BY <1>3 DEF unlock
  <2>2. (ToBeFlagged => ToBeFlagged') /\ (Telling => Telling')
    BY <2>1 DEF ToBeFlagged, Telling
  <2>3. QED
    BY <2>1, <2>2 DEF UnseenIsPending
<1>4. CASE setChanged(t)
  <2>1. /\ interface \in {"looking", "asleep"} /\ data_changed' = TRUE
        /\ errand' = [errand EXCEPT ![t] = "telling"]
        /\ UNCHANGED <<interface, events, shown>>
    BY <1>4 DEF setChanged, MtxIsFree
  <2>2. Telling'
    BY <2>1 DEF Telling
  <2>3. QED
    BY <2>1, <2>2 DEF UnseenIsPending
<1>5. CASE notify_one(t)
  <2>1. /\ errand[t] = "telling"
        /\ errand' = [errand EXCEPT ![t] = "none"]
        /\ interface' = IF interface = "asleep" THEN "looking" ELSE interface
        /\ UNCHANGED <<data_changed, events, shown>>
    BY <1>5 DEF notify_one
  <2>2. ToBeFlagged => ToBeFlagged'
    BY <2>1 DEF ToBeFlagged
  <2>3. QED
    BY <2>1, <2>2 DEF UnseenIsPending
<1>6. QED
  BY <1>1, <1>2, <1>3, <1>4, <1>5

\* Steps of the display.
LEMMA DInvDisplay ==
  ASSUME DInv, run \/ SpuriousWakeups
  PROVE  DInv'
<1> USE DEF DInv, Fields, UnseenIsPending, ToBeFlagged, Telling
<1>1. CASE look
  BY <1>1 DEF look
<1>2. CASE lockToDraw
  BY <1>2 DEF lockToDraw, displayVars
<1>3. CASE draw
  BY <1>3 DEF draw
<1>4. CASE unlockDrawn
  BY <1>4 DEF unlockDrawn
<1>5. CASE clear
  BY <1>5 DEF clear
<1>6. CASE SpuriousWakeups
  BY <1>6 DEF SpuriousWakeups, displayVars
<1>7. QED
  BY <1>1, <1>2, <1>3, <1>4, <1>5, <1>6 DEF run

LEMMA AlwaysDInv == DisplaySpec => []DInv
<1>1. DInv /\ [DisplayNext]_displayAndLockVars => DInv'
  <2>1. DInv /\ UNCHANGED displayAndLockVars => DInv'
    BY DEF displayAndLockVars, displayVars, DInv, Fields, UnseenIsPending, ToBeFlagged, Telling
  <2>2. QED
    BY <2>1, DInvOthers, DInvDisplay DEF DisplayNext, Others
<1>2. QED
  BY <1>1, DInvAtFirst, PTL DEF DisplaySpec

\* Every variable has its type, whatever the threads do and however often.
THEOREM DisplayTypeCorrect == DisplaySpec => []DisplayTypeOK
<1>1. IInv /\ DInv => DisplayTypeOK
  BY DEF IInv, DInv, Fields, DisplayTypeOK
<1>2. QED
  BY <1>1, AlwaysDInv, AlwaysIInv, DisplayKeepsToTheLock, PTL

\* No change of the data stays unseen, although notifications coalesce and the display
\* clears the flag some time after it has read: when it sleeps and nobody is on the way
\* to wake it, it has drawn what there is.
THEOREM NothingStaysUnseen == DisplaySpec => []NothingUnseen
<1>1. DInv => NothingUnseen
  BY DEF DInv, UnseenIsPending, ToBeFlagged, Telling, NothingUnseen
<1>2. QED
  BY <1>1, AlwaysDInv, PTL
=============================================================================
