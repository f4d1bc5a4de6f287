--------------------------- MODULE ReadersWriters ---------------------------
(***************************************************************************)
(* What the lock around the server's data promises: many readers or one    *)
(* writer, and no reader enters past a writer that is already waiting.     *)
(* Which waiting writer enters next is left open, and a writer that has    *)
(* just arrived may pass those that wait.                                  *)
(***************************************************************************)
CONSTANT Threads

VARIABLES
  readers,  \* the threads that read the data
  writers,  \* the threads that write it
  waiting   \* the threads that wait to write it

vars == <<readers, writers, waiting>>

Init == readers = {} /\ writers = {} /\ waiting = {}

StartRead(t) ==
  /\ t \notin readers \cup writers \cup waiting
  /\ writers = {} /\ waiting = {}
  /\ readers' = readers \cup {t}
  /\ UNCHANGED <<writers, waiting>>

EndRead(t) ==
  /\ t \in readers
  /\ readers' = readers \ {t}
  /\ UNCHANGED <<writers, waiting>>

AwaitWrite(t) ==
  /\ t \notin readers \cup writers \cup waiting
  /\ readers \cup writers # {}
  /\ waiting' = waiting \cup {t}
  /\ UNCHANGED <<readers, writers>>

StartWrite(t) ==
  /\ t \notin readers \cup writers
  /\ readers = {} /\ writers = {}
  /\ writers' = {t}
  /\ waiting' = waiting \ {t}
  /\ UNCHANGED readers

EndWrite(t) ==
  /\ t \in writers
  /\ writers' = writers \ {t}
  /\ UNCHANGED <<readers, waiting>>

Next ==
  \E t \in Threads :
    StartRead(t) \/ EndRead(t) \/ AwaitWrite(t) \/ StartWrite(t) \/ EndWrite(t)

Spec == Init /\ [][Next]_vars
=============================================================================
