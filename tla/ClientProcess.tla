--------------------------- MODULE ClientProcess ----------------------------
(***************************************************************************)
(* The threads of a client process around the session of ClientSession:    *)
(* the input thread puts the lines that the user types into a queue, the   *)
(* communication thread takes them out and carries them out one by one,    *)
(* and the main thread, which waits for both to end, is the one that       *)
(* handles SIGINT.                                                         *)
(*                                                                         *)
(* Whoever has queue_mutex keeps it until it waits or leaves the block, so *)
(* each such stretch is a step; the notification comes after the mutex is  *)
(* free, in a step of its own.                                             *)
(***************************************************************************)
EXTENDS ClientSession

CONSTANT MaxLines  \* bound: the lines that each client's user types

ASSUME ProcessAssumption == MaxLines \in [Clients -> Nat]

VARIABLES
  command_queue,
  finished,
  input,    \* where each input thread is: none, reading, notifying, ending, ended
  comm,     \* where each communication thread is: none, taking, asleep, working, ended
  sigint,   \* none, ending (finished is set, notify_all is to come), handled
  typed     \* history: how many lines were typed

sessionVars == vars
processVars == <<command_queue, finished, input, comm, sigint, typed>>

\* A line either is a command or makes no sense.
Nonsense == [valid |-> FALSE]

Lines == [valid : {TRUE}, dest : Clients, value : Values] \cup {Nonsense}

ProcessInit ==
  /\ Init
  /\ command_queue = [c \in Clients |-> <<>>]
  /\ finished = [c \in Clients |-> FALSE]
  /\ input = [c \in Clients |-> "none"]
  /\ comm = [c \in Clients |-> "none"]
  /\ sigint = [c \in Clients |-> "none"]
  /\ typed = [c \in Clients |-> 0]

\* Both threads are joined: main returns.
Ended(c) == input[c] = "ended" /\ comm[c] = "ended"

\* What notify_one and notify_all do here, where one thread at most waits.
Notify(c) ==
  comm' = [comm EXCEPT ![c] = IF comm[c] = "asleep" THEN "taking" ELSE comm[c]]

-----------------------------------------------------------------------------
(* The main thread.                                                        *)

\* A process starts on this address.  If there was one before it was killed, or ended.
main(c) ==
  /\ discoverServer(c)
  /\ command_queue' = [command_queue EXCEPT ![c] = <<>>]
  /\ finished' = [finished EXCEPT ![c] = FALSE]
  /\ input' = [input EXCEPT ![c] = "none"]
  /\ comm' = [comm EXCEPT ![c] = "none"]
  /\ sigint' = [sigint EXCEPT ![c] = "none"]
  /\ typed' = [typed EXCEPT ![c] = 0]

start(c) ==
  /\ receiveDiscoveryAck(c)
  /\ input' = [input EXCEPT ![c] = "reading"]
  /\ comm' = [comm EXCEPT ![c] = "taking"]
  /\ UNCHANGED <<command_queue, finished, sigint, typed>>

\* SIGINT, at any time while main has not returned, first part of shutdown.  It takes
\* effect even during the discovery, and does not end the discovery.
signalHandler(c) ==
  /\ phase[c] # "off" /\ ~Ended(c)
  /\ sigint[c] = "none"
  /\ finished' = [finished EXCEPT ![c] = TRUE]
  /\ sigint' = [sigint EXCEPT ![c] = "ending"]
  /\ UNCHANGED <<sessionVars, command_queue, input, comm, typed>>

signalHandlerNotifies(c) ==
  /\ sigint[c] = "ending"
  /\ sigint' = [sigint EXCEPT ![c] = "handled"]
  /\ Notify(c)
  /\ UNCHANGED <<sessionVars, command_queue, finished, input, typed>>

-----------------------------------------------------------------------------
(* The input thread.                                                       *)

userInputThread(c, line) ==
  /\ input[c] = "reading"
  /\ typed[c] < MaxLines[c]
  /\ typed' = [typed EXCEPT ![c] = typed[c] + 1]
  /\ command_queue' = [command_queue EXCEPT ![c] = Append(command_queue[c], line)]
  /\ input' = [input EXCEPT ![c] = "notifying"]
  /\ UNCHANGED <<sessionVars, finished, comm, sigint>>

\* The end of the input, which may never come: first part of shutdown.
shutdown(c) ==
  /\ input[c] = "reading"
  /\ finished' = [finished EXCEPT ![c] = TRUE]
  /\ input' = [input EXCEPT ![c] = "ending"]
  /\ UNCHANGED <<sessionVars, command_queue, comm, sigint, typed>>

\* Mutant: the end of the input is not made known.
inputNotifiesLinesOnly(c) ==
  /\ input[c] \in {"notifying", "ending"}
  /\ input' = [input EXCEPT ![c] = IF input[c] = "notifying" THEN "reading" ELSE "ended"]
  /\ IF input[c] = "notifying" THEN Notify(c) ELSE UNCHANGED comm
  /\ UNCHANGED <<sessionVars, command_queue, finished, sigint, typed>>

inputNotifies(c) ==
  /\ input[c] \in {"notifying", "ending"}
  /\ input' = [input EXCEPT ![c] = IF input[c] = "notifying" THEN "reading" ELSE "ended"]
  /\ Notify(c)
  /\ UNCHANGED <<sessionVars, command_queue, finished, sigint, typed>>

-----------------------------------------------------------------------------
(* The communication thread.                                               *)

\* processCommand up to its first request; nonsense is reported and dropped.
processCommand(c, line) ==
  IF line.valid
  THEN /\ executeRequestWithRetries(c, line.dest, line.value)
       /\ comm' = [comm EXCEPT ![c] = "working"]
  ELSE UNCHANGED <<sessionVars, comm>>

\* Mutant: what is still in the queue at the end is dropped.
tryGetCommandUnlessFinished(c) ==
  /\ comm[c] = "taking"
  /\ \/ /\ command_queue[c] # <<>> /\ ~finished[c]
        /\ command_queue' = [command_queue EXCEPT ![c] = Tail(command_queue[c])]
        /\ processCommand(c, Head(command_queue[c]))
     \/ /\ command_queue[c] = <<>> \/ finished[c]
        /\ comm' = [comm EXCEPT ![c] = IF finished[c] THEN "ended" ELSE "asleep"]
        /\ UNCHANGED <<sessionVars, command_queue>>
  /\ UNCHANGED <<finished, input, sigint, typed>>

tryGetCommandFromQueue(c) ==
  /\ comm[c] = "taking"
  /\ \/ /\ command_queue[c] # <<>>
        /\ command_queue' = [command_queue EXCEPT ![c] = Tail(command_queue[c])]
        /\ processCommand(c, Head(command_queue[c]))
     \/ /\ command_queue[c] = <<>>
        /\ comm' = [comm EXCEPT ![c] = IF finished[c] THEN "ended" ELSE "asleep"]
        /\ UNCHANGED <<sessionVars, command_queue>>
  /\ UNCHANGED <<finished, input, sigint, typed>>

\* The retries and the answer; then the next command.
processResponse(c) ==
  /\ comm[c] = "working"
  /\ ClientStep(c)
  /\ comm' = [comm EXCEPT ![c] = IF phase'[c] = "ready" THEN "taking" ELSE "working"]
  /\ UNCHANGED <<command_queue, finished, input, sigint, typed>>

communicationThread(c) == tryGetCommandFromQueue(c) \/ processResponse(c)

SpuriousWakeup(c) ==
  /\ comm[c] = "asleep"
  /\ comm' = [comm EXCEPT ![c] = "taking"]
  /\ UNCHANGED <<sessionVars, command_queue, finished, input, sigint, typed>>

-----------------------------------------------------------------------------
ServerStep ==
  /\ \E m \in net : handleDiscoveryPacket(m) \/ handleTransactionRequest(m)
  /\ UNCHANGED processVars

ProcessNext ==
  \/ ServerStep
  \/ \E c \in Clients :
       \/ main(c) \/ start(c) \/ signalHandler(c) \/ signalHandlerNotifies(c)
       \/ \E line \in Lines : userInputThread(c, line)
       \/ shutdown(c) \/ inputNotifies(c)
       \/ communicationThread(c) \/ SpuriousWakeup(c)

processAndSessionVars == <<sessionVars, processVars>>

ProcessSpec == ProcessInit /\ [][ProcessNext]_processAndSessionVars

\* The threads are never kept from running: queue_mutex is held for moments and recvfrom
\* returns by its timeout.  The user need not type, end the input or interrupt, and the
\* network and the server need not do anything.
ProcessFairSpec ==
  /\ ProcessSpec
  /\ \A c \in Clients :
       /\ WF_processAndSessionVars(communicationThread(c))
       /\ WF_processAndSessionVars(inputNotifies(c))
       /\ WF_processAndSessionVars(signalHandlerNotifies(c))

-----------------------------------------------------------------------------
ProcessTypeOK ==
  /\ TypeOK
  /\ command_queue \in [Clients -> Seq(Lines)]
  /\ finished \in [Clients -> BOOLEAN]
  /\ input \in [Clients -> {"none", "reading", "notifying", "ending", "ended"}]
  /\ comm \in [Clients -> {"none", "taking", "asleep", "working", "ended"}]
  /\ sigint \in [Clients -> {"none", "ending", "handled"}]
  /\ typed \in [Clients -> Nat]
  /\ \A c \in Clients : /\ comm[c] = "working" <=> phase[c] = "waiting"
                        /\ comm[c] \in {"taking", "asleep", "ended"} <=> phase[c] = "ready"

\* No lost wakeup, with the notification outside the mutex and two threads that may set
\* finished: if the communication thread sleeps although there is a line or nothing will
\* come any more, somebody is about to wake it.
SleepsOnlyWithoutWork ==
  \A c \in Clients :
    comm[c] = "asleep" /\ (command_queue[c] # <<>> \/ finished[c])
      => input[c] \in {"notifying", "ending"} \/ sigint[c] = "ending"

\* The end of the input cuts nothing off: when the process ends every line that was typed
\* has been taken and every command has an outcome.  After SIGINT this holds of the lines
\* typed up to the moment the queue was first empty; later ones stay in the queue.
EndOfInputFinishesWork ==
  \A c \in Clients :
    /\ comm[c] = "ended" /\ sigint[c] = "none"
         => command_queue[c] = <<>> /\ input[c] \in {"ending", "ended"}
    /\ comm[c] = "ended" => \A i \in DOMAIN commands[c] : commands[c][i].outcome # "PENDING"

\* The lines that were taken and need nothing more to be done.
Concluded(c) ==
  typed[c] - Len(command_queue[c]) - (IF phase[c] = "waiting" THEN 1 ELSE 0)

\* Every line is carried out in the end, success or not, whatever the network and the
\* server do and however many follow it, unless it was typed after SIGINT.
EveryLineConcludes ==
  \A c \in Clients : \A n \in 1..MaxLines[c] :
    (typed[c] >= n /\ sigint[c] = "none") ~> (Concluded(c) >= n \/ comm[c] = "none")

\* At the end of the input the process ends; SIGINT alone does not end it, as the input
\* thread goes on reading.
EndOfInputEnds ==
  \A c \in Clients : (input[c] = "ending") ~> (Ended(c) \/ input[c] = "none")
=============================================================================
