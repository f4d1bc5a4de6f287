------------------------------- MODULE RWLock -------------------------------
(***************************************************************************)
(* The readers-writer lock of class Server: data_mutex, two condition      *)
(* variables and three fields.  A function that takes data_mutex keeps it  *)
(* until it returns or waits, so the stretch of code between two points    *)
(* where the mutex is free is one step.  A thread that waits on a          *)
(* condition variable is in rwait or wwait; notified, or woken for no      *)
(* reason as condition variables may, it is in rwoken or wwoken until it   *)
(* has the mutex back and looks at its predicate again.                    *)
(*                                                                         *)
(* Readers are printClients, the heartbeat sender and the interface        *)
(* thread; writers are addClient, processTransaction, the handlers of      *)
(* replication packets, registerBackup and promoteToPrimary.  A thread may *)
(* be a reader now and a writer later.                                     *)
(***************************************************************************)
EXTENDS Integers, FiniteSets

CONSTANT Threads  \* the server's threads at one time

ASSUME ThreadsAssumption == IsFiniteSet(Threads)

VARIABLES
  pc,              \* where each thread is
  readers_count,
  writer_active,
  writers_waiting

vars == <<pc, readers_count, writer_active, writers_waiting>>

Places == {"idle", "rwait", "rwoken", "reading", "wwait", "wwoken", "writing"}

Reading == {t \in Threads : pc[t] = "reading"}
Writing == {t \in Threads : pc[t] = "writing"}
WaitingWriters == {t \in Threads : pc[t] \in {"wwait", "wwoken"}}

Sleeping(cv) == {t \in Threads : pc[t] = cv}  \* cv is rwait (reader_cv) or wwait (writer_cv)

Init ==
  /\ pc = [t \in Threads |-> "idle"]
  /\ readers_count = 0
  /\ writer_active = FALSE
  /\ writers_waiting = 0

Go(t, where) == pc' = [pc EXCEPT ![t] = where]

-----------------------------------------------------------------------------
readersMayEnterNoPreference == ~writer_active  \* mutant: waiting writers are passed

readersMayEnter == ~writer_active /\ writers_waiting = 0

\* reader_lock, up to the wait or to the return.
reader_lock(t) ==
  /\ pc[t] \in {"idle", "rwoken"}
  /\ IF readersMayEnter
     THEN Go(t, "reading") /\ readers_count' = readers_count + 1
     ELSE Go(t, "rwait") /\ UNCHANGED readers_count
  /\ UNCHANGED <<writer_active, writers_waiting>>

\* notify_one on writer_cv while t goes back to idle: one of the writers that
\* wait is woken, none if none waits.
NotifyWriter(t) ==
  LET idle == [pc EXCEPT ![t] = "idle"] IN
    IF Sleeping("wwait") = {} THEN pc' = idle
    ELSE \E w \in Sleeping("wwait") : pc' = [idle EXCEPT ![w] = "wwoken"]

\* Mutant: notify_one where the readers need notify_all.
NotifyReader(t) ==
  LET idle == [pc EXCEPT ![t] = "idle"] IN
    IF Sleeping("rwait") = {} THEN pc' = idle
    ELSE \E r \in Sleeping("rwait") : pc' = [idle EXCEPT ![r] = "rwoken"]

NotifyReaders(t) ==
  pc' = [u \in Threads |-> IF u = t THEN "idle"
                           ELSE IF pc[u] = "rwait" THEN "rwoken" ELSE pc[u]]

\* Mutant: the last reader leaves without telling the writers.
reader_unlockSilent(t) ==
  /\ pc[t] = "reading"
  /\ readers_count' = readers_count - 1
  /\ Go(t, "idle")
  /\ UNCHANGED <<writer_active, writers_waiting>>

reader_unlock(t) ==
  /\ pc[t] = "reading"
  /\ readers_count' = readers_count - 1
  /\ IF readers_count = 1 THEN NotifyWriter(t) ELSE Go(t, "idle")
  /\ UNCHANGED <<writer_active, writers_waiting>>

-----------------------------------------------------------------------------
writerMayEnterBesideReaders == ~writer_active  \* mutant: readers are not waited for

writerMayEnter == readers_count = 0 /\ ~writer_active

\* Mutant: a writer that has to wait is not counted.
writer_lockUncounted(t) ==
  /\ pc[t] = "idle"
  /\ IF writerMayEnter
     THEN Go(t, "writing") /\ writer_active' = TRUE
     ELSE Go(t, "wwait") /\ UNCHANGED writer_active
  /\ UNCHANGED <<readers_count, writers_waiting>>

\* writer_lock from its start: the thread counts as waiting even when it enters at once.
writer_lock(t) ==
  /\ pc[t] = "idle"
  /\ IF writerMayEnter
     THEN /\ Go(t, "writing") /\ writer_active' = TRUE
          /\ UNCHANGED writers_waiting
     ELSE /\ Go(t, "wwait") /\ writers_waiting' = writers_waiting + 1
          /\ UNCHANGED writer_active
  /\ UNCHANGED readers_count

\* Mutant: a writer that got in still counts as waiting.
writer_relockStillWaiting(t) ==
  /\ pc[t] = "wwoken"
  /\ IF writerMayEnter
     THEN Go(t, "writing") /\ writer_active' = TRUE
     ELSE Go(t, "wwait") /\ UNCHANGED writer_active
  /\ UNCHANGED <<readers_count, writers_waiting>>

\* writer_lock after the wait.
writer_relock(t) ==
  /\ pc[t] = "wwoken"
  /\ IF writerMayEnter
     THEN /\ Go(t, "writing") /\ writer_active' = TRUE
          /\ writers_waiting' = writers_waiting - 1
     ELSE /\ Go(t, "wwait") /\ UNCHANGED <<writer_active, writers_waiting>>
  /\ UNCHANGED readers_count

\* Mutant: a leaving writer tells the readers only.
writer_unlockToReaders(t) ==
  /\ pc[t] = "writing"
  /\ writer_active' = FALSE
  /\ NotifyReaders(t)
  /\ UNCHANGED <<readers_count, writers_waiting>>

writer_unlock(t) ==
  /\ pc[t] = "writing"
  /\ writer_active' = FALSE
  /\ IF writers_waiting > 0 THEN NotifyWriter(t) ELSE NotifyReaders(t)
  /\ UNCHANGED <<readers_count, writers_waiting>>

\* A condition variable may wake a thread that nobody notified.
SpuriousWakeup(t) ==
  /\ \/ pc[t] = "rwait" /\ Go(t, "rwoken")
     \/ pc[t] = "wwait" /\ Go(t, "wwoken")
  /\ UNCHANGED <<readers_count, writer_active, writers_waiting>>

Next ==
  \E t \in Threads :
    \/ reader_lock(t) \/ reader_unlock(t)
    \/ writer_lock(t) \/ writer_relock(t) \/ writer_unlock(t)
    \/ SpuriousWakeup(t)

Spec == Init /\ [][Next]_vars

-----------------------------------------------------------------------------
TypeOK ==
  /\ pc \in [Threads -> Places]
  /\ readers_count \in Nat
  /\ writer_active \in BOOLEAN
  /\ writers_waiting \in Nat

\* The three fields say what the threads are doing, which is all that the
\* predicates of the waits can see: nobody is counted twice or forgotten, over
\* any sequence of waits, wakeups and notifications.
FieldsTellTheTruth ==
  /\ readers_count = Cardinality(Reading)
  /\ writers_waiting = Cardinality(WaitingWriters)
  /\ writer_active <=> Writing # {}

\* Many readers or one writer: whoever writes is alone with the data.
MutualExclusion ==
  \A t \in Writing : Reading \cup Writing = {t}

\* No lost wakeup for writers: while the data is free and a writer sleeps, some
\* writer has been woken and will look.  notify_one is enough for that, even when a
\* writer that never slept takes the lock before the one that was woken.
NoStrandedWriter ==
  (Reading \cup Writing = {} /\ Sleeping("wwait") # {})
    => \E t \in Threads : pc[t] = "wwoken"

\* No lost wakeup for readers: one that sleeps has a writer to wait for, which
\* will notify it when it leaves.
NoStrandedReader ==
  Sleeping("rwait") # {} => Writing \cup WaitingWriters # {}

\* The code's lock is the lock that was promised.
RW == INSTANCE ReadersWriters WITH
        readers <- Reading, writers <- Writing,
        waiting <- WaitingWriters

ReadersWritersSpec == RW!Spec

\* When a writer waits, some writer gets in (maybe not that one: a newcomer may
\* pass it).
WritersProgress == (WaitingWriters # {}) ~> (Writing # {})

\* Readers starve while writers keep coming, and only then: if the writers cease,
\* each waiting reader gets in.
ReadersServedAfterWriters ==
  <>[](Writing \cup WaitingWriters = {})
    => \A t \in Threads : (pc[t] \in {"rwait", "rwoken"}) ~> (pc[t] = "reading")
=============================================================================
