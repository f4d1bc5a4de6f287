------------------------------ MODULE Display -------------------------------
(***************************************************************************)
(* The threads of a server that share its data and its display.            *)
(*                                                                         *)
(* Transactions, registrations and replicated updates change the data      *)
(* under the writers' lock of RWLock.  A thread that made a change worth a  *)
(* line then notifies the display, and only after that sends its answer or *)
(* takes the next packet.  The display keeps its own mutex, mtx, from the   *)
(* moment it sees data_changed to the moment it clears it, so also while    *)
(* it waits for the readers' lock; notify needs mtx.  Other threads lock    *)
(* the data as readers or writers and notify nobody.                        *)
(*                                                                         *)
(* What a line says is left out; events numbers the changes, and shown is   *)
(* the number of the last that the display has read.                        *)
(***************************************************************************)
EXTENDS RWLock

CONSTANTS
  Interface,  \* the thread of ServerInterface, one of Threads
  MaxEvents   \* bound: changes worth a line

ASSUME DisplayAssumption == Interface \in Threads /\ MaxEvents \in Nat

VARIABLES
  interface,     \* where the display is in run(); it has mtx from drawing to clearing
  data_changed,
  errand,        \* what each other thread has still to do for the display
  events,        \* history: how many changes were made that deserve a line
  shown          \* history: the value of events when the display last read the data

lockVars == <<pc, readers_count, writer_active, writers_waiting>>
displayVars == <<interface, data_changed, errand, events, shown>>

DisplayInit ==
  /\ Init
  /\ interface = "looking"
  /\ data_changed = FALSE
  /\ errand = [t \in Threads |-> "none"]
  /\ events = 0
  /\ shown = 0

\* Mutant: the display waits for the readers' lock without its mutex.
MtxIsAlwaysFree == TRUE

MtxIsFree == interface \in {"looking", "asleep"}

Others == Threads \ {Interface}

-----------------------------------------------------------------------------
(* The threads that use the data.                                          *)

lock(t) ==
  /\ errand[t] = "none"
  /\ reader_lock(t) \/ writer_lock(t) \/ writer_relock(t)
  /\ UNCHANGED displayVars

\* What processTransaction and the other writers do that deserves a line.
change(t) ==
  /\ pc[t] = "writing" /\ errand[t] = "none"
  /\ events < MaxEvents
  /\ events' = events + 1
  /\ errand' = [errand EXCEPT ![t] = "changed"]
  /\ UNCHANGED <<lockVars, interface, data_changed, shown>>

unlock(t) ==
  /\ reader_unlock(t) \/ writer_unlock(t)
  /\ errand' = [errand EXCEPT ![t] = IF @ = "changed" THEN "notifying" ELSE @]
  /\ UNCHANGED <<interface, data_changed, events, shown>>

\* notify, under mtx and after it.
setChanged(t) ==
  /\ errand[t] = "notifying" /\ MtxIsFree
  /\ data_changed' = TRUE
  /\ errand' = [errand EXCEPT ![t] = "telling"]
  /\ UNCHANGED <<lockVars, interface, events, shown>>

\* Mutant: the flag is set and nobody woken.
notify_nobody(t) ==
  /\ errand[t] = "telling"
  /\ errand' = [errand EXCEPT ![t] = "none"]
  /\ UNCHANGED <<lockVars, interface, data_changed, events, shown>>

notify_one(t) ==
  /\ errand[t] = "telling"
  /\ errand' = [errand EXCEPT ![t] = "none"]
  /\ interface' = IF interface = "asleep" THEN "looking" ELSE interface
  /\ UNCHANGED <<lockVars, data_changed, events, shown>>

-----------------------------------------------------------------------------
(* The display.                                                            *)

\* The predicate of the wait, with mtx.
look ==
  /\ interface = "looking"
  /\ interface' = IF data_changed THEN "drawing" ELSE "asleep"
  /\ UNCHANGED <<lockVars, data_changed, errand, events, shown>>

lockToDraw ==
  /\ interface = "drawing"
  /\ reader_lock(Interface)
  /\ UNCHANGED displayVars

draw ==
  /\ interface = "drawing" /\ pc[Interface] = "reading"
  /\ shown' = events
  /\ interface' = "drawn"
  /\ UNCHANGED <<lockVars, data_changed, errand, events>>

unlockDrawn ==
  /\ interface = "drawn"
  /\ reader_unlock(Interface)
  /\ interface' = "clearing"
  /\ UNCHANGED <<data_changed, errand, events, shown>>

clear ==
  /\ interface = "clearing"
  /\ data_changed' = FALSE
  /\ interface' = "looking"
  /\ UNCHANGED <<lockVars, errand, events, shown>>

run == look \/ lockToDraw \/ draw \/ unlockDrawn \/ clear

-----------------------------------------------------------------------------
SpuriousWakeups ==
  \/ \E t \in Threads : SpuriousWakeup(t) /\ UNCHANGED displayVars
  \/ /\ interface = "asleep" /\ interface' = "looking"
     /\ UNCHANGED <<lockVars, data_changed, errand, events, shown>>

DisplayNext ==
  \/ \E t \in Others : lock(t) \/ change(t) \/ unlock(t) \/ setChanged(t) \/ notify_one(t)
  \/ run
  \/ SpuriousWakeups

displayAndLockVars == <<lockVars, displayVars>>

DisplaySpec == DisplayInit /\ [][DisplayNext]_displayAndLockVars

\* A thread that holds the lock releases it (no critical section blocks), a woken
\* thread gets the mutex of the lock, one that notifies gets mtx, and the display runs.
\* Nobody has to come back for the lock.
Fairness ==
  /\ \A t \in Others :
       /\ WF_displayAndLockVars(unlock(t))
       /\ WF_displayAndLockVars(pc[t] \in {"rwoken", "wwoken"} /\ lock(t))
       /\ WF_displayAndLockVars(setChanged(t)) /\ WF_displayAndLockVars(notify_one(t))
  /\ WF_displayAndLockVars(run)

FairSpec == DisplaySpec /\ Fairness

-----------------------------------------------------------------------------
DisplayTypeOK ==
  /\ TypeOK
  /\ interface \in {"looking", "asleep", "drawing", "drawn", "clearing"}
  /\ data_changed \in BOOLEAN
  /\ errand \in [Threads -> {"none", "changed", "notifying", "telling"}]
  /\ events \in Nat /\ shown \in Nat

\* No change is lost between the flag, the two mutexes and the lock: when the display
\* sleeps and nobody is on the way to tell it something, what it last drew is how
\* things are.  Lines of earlier changes may have been skipped.
NothingUnseen ==
  interface = "asleep" /\ (\A t \in Threads : errand[t] = "none") => shown = events

\* Threads that notify wait for mtx, which the display holds while it waits for the
\* readers' lock, where writers pass it: if they keep coming (as refused requests may,
\* which notify nobody) then no transaction is answered.  If they cease, each thread
\* gets through with its notification and the last change is drawn.
SettlesAfterWriters ==
  <>[](Writing \cup WaitingWriters = {})
    => <>[](shown = events /\ \A t \in Threads : errand[t] = "none")
=============================================================================
