------------------------------ MODULE Election ------------------------------
(***************************************************************************)
(* Who is the primary: how a server that starts finds one or becomes one,  *)
(* how backups notice that it has gone, and how they elect another.        *)
(*                                                                         *)
(* A server is two threads here.  The dispatch thread first looks for a    *)
(* primary, throwing away whatever else it receives, and then handles one  *)
(* packet after another.  The control thread waits for heartbeats, holds   *)
(* an election when they stop, and ends when its server is promoted:       *)
(* control[s] says where it is.  Most fields that both use are not         *)
(* protected; the steps of the threads interleave wherever the other can   *)
(* see a difference.                                                       *)
(*                                                                         *)
(* Without time, Timely says what the delays of the code are good for: all *)
(* that was under way when a wait began, and what its receiver had sent by *)
(* the time it handled it, arrives before the wait is over; nothing is     *)
(* lost; what no delay separates happens at once; and a backup on the      *)
(* primary's list hears a heartbeat in time.  awaited[s] is what s waits   *)
(* for.                                                                    *)
(***************************************************************************)
EXTENDS Naturals, FiniteSets

CONSTANTS
  Servers,    \* the servers of the network
  server_id,  \* the id that each takes from its address
  Timely,     \* whether packets arrive within the delays the code waits
  MaxCrashes  \* bound: how many processes end

ASSUME ElectionAssumption ==
  server_id \in [Servers -> Nat] /\ Timely \in BOOLEAN /\ MaxCrashes \in Nat

VARIABLES
  control,               \* where the control thread is
  role,                  \* current_role
  backup_servers,        \* the addresses that each server has enlisted
  election_in_progress,
  election_lost,
  primary_alive,
  net,                   \* the packets under way (two that are equal count as one)
  awaited,               \* per server, the packets its present wait is long enough for
  met,                   \* history: <<s, t>> if t handled an ELECTION of s or discovered s
  crashes                \* history: how many processes ended

vars == <<control, role, backup_servers, election_in_progress, election_lost,
          primary_alive, net, awaited, met, crashes>>

Packet(type, s, t) == [type |-> type, from |-> s, to |-> t]

Up(s) == control[s] # "down"

Reply(condition, type, s, m) ==
  IF condition /\ Up(m.from) THEN {Packet(type, s, m.from)} ELSE {}

Dispatching(s) == control[s] \notin {"down", "discovering"}

\* A broadcast also comes back to its sender, who makes nothing of it.
Broadcast(type, s) == {Packet(type, s, t) : t \in {u \in Servers \ {s} : Up(u)}}

\* current_role has no value until a server has looked for a primary.
Init ==
  /\ control = [s \in Servers |-> "down"]
  /\ role = [s \in Servers |-> "unset"]
  /\ backup_servers = [s \in Servers |-> {}]
  /\ election_in_progress = [s \in Servers |-> FALSE]
  /\ election_lost = [s \in Servers |-> FALSE]
  /\ primary_alive = [s \in Servers |-> FALSE]
  /\ net = {}
  /\ awaited = [s \in Servers |-> {}]
  /\ met = {}
  /\ crashes = 0

-----------------------------------------------------------------------------
(* The control thread goes from one place to another.                      *)

Goto(s, from, to) == control[s] = from /\ control' = [control EXCEPT ![s] = to]

Await(s) ==
  awaited' = [awaited EXCEPT ![s] = {m \in net' : Timely /\ s \in {m.from, m.to}}]

WaitIsOver(s) == awaited[s] = {}

flags == <<election_in_progress, election_lost, primary_alive>>

\* The process starts: whom does it find?
run_discovery_service_server(s) ==
  /\ Goto(s, "down", "discovering")
  /\ net' = net \cup Broadcast("SERVER_DISCOVERY", s)
  /\ Await(s)
  /\ UNCHANGED <<role, backup_servers, flags, met, crashes>>

\* Mutant: the server does not say that it is a backup.
initPrimaryNoRole(s) ==
  /\ WaitIsOver(s)
  /\ Goto(s, "discovering", "starting")
  /\ UNCHANGED <<role, backup_servers, flags, net, awaited, met, crashes>>

\* Nobody answered.
initPrimary(s) ==
  /\ WaitIsOver(s)
  /\ Goto(s, "discovering", "starting")
  /\ role' = [role EXCEPT ![s] = "BACKUP"]
  /\ UNCHANGED <<backup_servers, flags, net, awaited, met, crashes>>

\* The loop of the monitor, at its head and after a wait in which it heard something.
watch(s) ==
  /\ IF role[s] = "BACKUP"
     THEN /\ Goto(s, "watching", "waiting")
          /\ primary_alive' = [primary_alive EXCEPT ![s] = FALSE]
     ELSE Goto(s, "watching", "idle") /\ UNCHANGED primary_alive
  /\ UNCHANGED net /\ Await(s)
  /\ UNCHANGED <<role, backup_servers, election_in_progress, election_lost, met,
                 crashes>>

heard(s) ==
  /\ primary_alive[s]
  /\ Goto(s, "waiting", "watching")
  /\ UNCHANGED <<role, backup_servers, flags, net, awaited, met, crashes>>

\* Those who send heartbeats to s.
Beating(p, s) == role[p] = "PRIMARY" /\ s \in backup_servers[p]

\* Mutant: nothing says that there is an election.
startElectionUnmarked(s) ==
  UNCHANGED <<role, backup_servers, flags, net, awaited, met, crashes>>

startElection(s) ==
  /\ election_in_progress' = [election_in_progress EXCEPT ![s] = TRUE]
  /\ UNCHANGED <<role, backup_servers, election_lost, primary_alive, net, awaited,
                 met, crashes>>

timeout(s) ==
  /\ ~primary_alive[s]
  /\ Timely => WaitIsOver(s) /\ \A p \in Servers : ~Beating(p, s)
  /\ Goto(s, "waiting", "electing")
  /\ startElection(s)

startFirstElection(s) ==
  /\ Goto(s, "starting", "electing")
  /\ startElection(s)

sendElection(s) ==
  /\ Goto(s, "electing", "window")
  /\ election_lost' = [election_lost EXCEPT ![s] = FALSE]
  /\ net' = net \cup Broadcast("ELECTION", s)
  /\ Await(s)
  /\ UNCHANGED <<role, backup_servers, election_in_progress, primary_alive, met,
                 crashes>>

endOfWindow(s) ==
  /\ WaitIsOver(s)
  /\ Goto(s, "window", "deciding")
  /\ election_in_progress' = [election_in_progress EXCEPT ![s] = FALSE]
  /\ UNCHANGED <<role, backup_servers, election_lost, primary_alive, net, awaited,
                 met, crashes>>

promoteToPrimary(s) ==
  /\ ~election_lost[s]
  /\ IF role[s] = "BACKUP"
     THEN /\ Goto(s, "deciding", "promoted")
          /\ role' = [role EXCEPT ![s] = "PRIMARY"]
          /\ backup_servers' = [backup_servers EXCEPT ![s] = {}]
     ELSE Goto(s, "deciding", "idle") /\ UNCHANGED <<role, backup_servers>>
  /\ UNCHANGED <<flags, net, awaited, met, crashes>>

\* Mutant: the monitor is not started again.
giveUpWatching(s) ==
  /\ election_lost[s]
  /\ Goto(s, "deciding", "idle")
  /\ UNCHANGED <<role, backup_servers, flags, net, awaited, met, crashes>>

giveUp(s) ==
  /\ election_lost[s]
  /\ Goto(s, "deciding", "watching")
  /\ UNCHANGED <<role, backup_servers, flags, net, awaited, met, crashes>>

\* The last thing the control thread does; whether the server still is the primary
\* is not looked at again.
announceNewPrimary(s) ==
  /\ Goto(s, "promoted", "idle")
  /\ net' = net \cup Broadcast("NEW_PRIMARY_ANNOUNCEMENT", s)
  /\ UNCHANGED <<role, backup_servers, flags, awaited, met, crashes>>

-----------------------------------------------------------------------------
(* The dispatch thread of s takes packet m and sends the packets replies.  *)

Take(s, m, replies) ==
  /\ m \in net /\ m.to = s
  /\ Timely => control[s] \notin {"deciding", "promoted"}
  /\ net' = (net \ {m}) \cup replies
  /\ awaited' = [t \in Servers |->
       (awaited[t] \ {m}) \cup {r \in net' : r.from = s /\ r.to = t /\ m \in awaited[t]}]

\* Mutant: the backup does not register.
initBackupSilent(s, m) ==
  /\ control[s] = "discovering"
  /\ m.type = "DISCOVERY_ACK"
  /\ Take(s, m, {})
  /\ control' = [control EXCEPT ![s] = "watching"]
  /\ role' = [role EXCEPT ![s] = "BACKUP"]
  /\ met' = met \cup {<<m.from, s>>}
  /\ UNCHANGED <<backup_servers, flags, crashes>>

\* While it looks for a primary: only an answer interests it.
initBackup(s, m) ==
  /\ control[s] = "discovering"
  /\ m.type = "DISCOVERY_ACK"
  /\ Take(s, m, Reply(TRUE, "REGISTER_BACKUP", s, m))
  /\ control' = [control EXCEPT ![s] = "watching"]
  /\ role' = [role EXCEPT ![s] = "BACKUP"]
  /\ met' = met \cup {<<m.from, s>>}
  /\ UNCHANGED <<backup_servers, flags, crashes>>

discard(s, m) ==
  /\ \/ control[s] = "discovering" /\ m.type # "DISCOVERY_ACK"
     \/ Dispatching(s) /\ m.type = "DISCOVERY_ACK"
  /\ Take(s, m, {})
  /\ UNCHANGED <<control, role, backup_servers, flags, met, crashes>>

sendDiscoveryAck(s, m) ==
  /\ Dispatching(s)
  /\ m.type = "SERVER_DISCOVERY"
  /\ Take(s, m, Reply(role[s] = "PRIMARY", "DISCOVERY_ACK", s, m))
  /\ UNCHANGED <<control, role, backup_servers, flags, met, crashes>>

registerBackup(s, m) ==
  /\ Dispatching(s)
  /\ m.type = "REGISTER_BACKUP"
  /\ Take(s, m, {})
  /\ backup_servers' =
       IF role[s] = "PRIMARY" THEN [backup_servers EXCEPT ![s] = @ \cup {m.from}]
       ELSE backup_servers
  /\ UNCHANGED <<control, role, flags, met, crashes>>

\* Mutant: a deposed primary keeps its list.
handleAnnouncementKeepingList(s, m) ==
  LET deposed == server_id[m.from] # server_id[s] IN
    /\ Dispatching(s)
    /\ m.type = "NEW_PRIMARY_ANNOUNCEMENT"
    /\ Take(s, m, Reply(deposed, "REGISTER_BACKUP", s, m))
    /\ election_lost' = [election_lost EXCEPT ![s] = @ \/ election_in_progress[s]]
    /\ primary_alive' = [primary_alive EXCEPT ![s] = @ \/ role[s] = "BACKUP"]
    /\ role' = [role EXCEPT ![s] = IF deposed THEN "BACKUP" ELSE @]
    /\ UNCHANGED <<control, backup_servers, election_in_progress, met, crashes>>

handleNewPrimaryAnnouncementPacket(s, m) ==
  LET deposed == server_id[m.from] # server_id[s] IN
    /\ Dispatching(s)
    /\ m.type = "NEW_PRIMARY_ANNOUNCEMENT"
    /\ Take(s, m, Reply(deposed, "REGISTER_BACKUP", s, m))
    /\ election_lost' = [election_lost EXCEPT ![s] = @ \/ election_in_progress[s]]
    /\ primary_alive' = [primary_alive EXCEPT ![s] = @ \/ role[s] = "BACKUP"]
    /\ role' = [role EXCEPT ![s] = IF deposed THEN "BACKUP" ELSE @]
    /\ backup_servers' = [backup_servers EXCEPT ![s] = IF deposed THEN {} ELSE @]
    /\ UNCHANGED <<control, election_in_progress, met, crashes>>

\* Mutant: only a server that holds an election itself answers.
handleElectionPacketIfElecting(s, m) ==
  LET superior == server_id[m.from] > server_id[s] IN
    /\ Dispatching(s)
    /\ m.type = "ELECTION"
    /\ Take(s, m, Reply(~superior /\ election_in_progress[s], "ELECTION_ANSWER", s, m))
    /\ election_lost' =
         [election_lost EXCEPT ![s] = @ \/ (superior /\ election_in_progress[s])]
    /\ met' = met \cup {<<m.from, s>>}
    /\ UNCHANGED <<control, role, backup_servers, election_in_progress, primary_alive,
                   crashes>>

handleElectionPacket(s, m) ==
  LET superior == server_id[m.from] > server_id[s] IN
    /\ Dispatching(s)
    /\ m.type = "ELECTION"
    /\ Take(s, m, Reply(~superior, "ELECTION_ANSWER", s, m))
    /\ election_lost' =
         [election_lost EXCEPT ![s] = @ \/ (superior /\ election_in_progress[s])]
    /\ met' = met \cup {<<m.from, s>>}
    /\ UNCHANGED <<control, role, backup_servers, election_in_progress,
                   primary_alive, crashes>>

handleElectionAnswerPacket(s, m) ==
  /\ Dispatching(s)
  /\ m.type = "ELECTION_ANSWER"
  /\ Take(s, m, {})
  /\ election_lost' =
       [election_lost EXCEPT
          ![s] = @ \/ (election_in_progress[s] /\ server_id[m.from] > server_id[s])]
  /\ UNCHANGED <<control, role, backup_servers, election_in_progress, primary_alive,
                 met, crashes>>

\* A heartbeat is sent and handled (one that is late makes no difference to one sent late).
heartbeat(p, s) ==
  /\ Beating(p, s) /\ Dispatching(s)
  /\ primary_alive' = [primary_alive EXCEPT ![s] = @ \/ role[s] = "BACKUP"]
  /\ UNCHANGED <<control, role, backup_servers, election_in_progress, election_lost,
                 net, awaited, met, crashes>>

dispatch(s, m) ==
  \/ initBackup(s, m) \/ discard(s, m)
  \/ sendDiscoveryAck(s, m) \/ registerBackup(s, m)
  \/ handleNewPrimaryAnnouncementPacket(s, m)
  \/ handleElectionPacket(s, m) \/ handleElectionAnswerPacket(s, m)

-----------------------------------------------------------------------------
(* Faults: a process ends, and with it what its socket held; a packet is   *)
(* lost.                                                                   *)

Crash(s) ==
  /\ Up(s) /\ crashes < MaxCrashes
  /\ crashes' = crashes + 1
  /\ control' = [control EXCEPT ![s] = "down"]
  /\ role' = [role EXCEPT ![s] = "unset"]
  /\ backup_servers' = [backup_servers EXCEPT ![s] = {}]
  /\ election_in_progress' = [election_in_progress EXCEPT ![s] = FALSE]
  /\ election_lost' = [election_lost EXCEPT ![s] = FALSE]
  /\ primary_alive' = [primary_alive EXCEPT ![s] = FALSE]
  /\ net' = {m \in net : m.to # s}
  /\ awaited' = [t \in Servers |-> IF t = s THEN {} ELSE {m \in awaited[t] : m.to # s}]
  /\ met' = {pair \in met : s \notin {pair[1], pair[2]}}

Lose(m) ==
  /\ ~Timely
  /\ net' = net \ {m}
  /\ UNCHANGED <<control, role, backup_servers, flags, awaited, met, crashes>>

ControlStep(s) ==
  \/ initPrimary(s) \/ watch(s) \/ heard(s) \/ timeout(s) \/ startFirstElection(s)
  \/ sendElection(s) \/ endOfWindow(s) \/ promoteToPrimary(s) \/ giveUp(s)
  \/ announceNewPrimary(s)

Next ==
  \/ \E s \in Servers :
       \/ run_discovery_service_server(s) \/ ControlStep(s) \/ Crash(s)
       \/ \E p \in Servers : heartbeat(p, s)
  \/ \E m \in net : dispatch(m.to, m) \/ Lose(m)

Spec == Init /\ [][Next]_vars

Packets ==
  [type : {"SERVER_DISCOVERY", "DISCOVERY_ACK", "REGISTER_BACKUP", "ELECTION",
           "ELECTION_ANSWER", "NEW_PRIMARY_ANNOUNCEMENT"}, from : Servers, to : Servers]

-----------------------------------------------------------------------------
\* Also: a server that handles packets has a role.
TypeOK ==
  /\ control \in [Servers -> {"down", "discovering", "starting", "watching", "waiting",
       "electing", "window", "deciding", "promoted", "idle"}]
  /\ role \in [Servers -> {"PRIMARY", "BACKUP", "unset"}]
  /\ \A s \in Servers : Dispatching(s) <=> role[s] # "unset"
  /\ backup_servers \in [Servers -> SUBSET Servers]
  /\ election_in_progress \in [Servers -> BOOLEAN]
  /\ election_lost \in [Servers -> BOOLEAN]
  /\ primary_alive \in [Servers -> BOOLEAN]
  /\ net \subseteq Packets
  /\ awaited \in [Servers -> SUBSET Packets]
  /\ met \subseteq Servers \X Servers
  /\ crashes \in 0..MaxCrashes

\* Only a primary has backups on its list, whatever the network does: one that was
\* deposed sends no heartbeats and no updates any more, and one that is promoted starts
\* from an empty list.
OnlyPrimariesEnlist == \A s \in Servers : backup_servers[s] # {} => role[s] = "PRIMARY"

\* On a timely network there are two primaries at a time only if the one with the higher
\* id was not there yet, or still looked for a primary, when the other held its election:
\* no vote is overheard, whatever crashes.
OnePrimaryAmongAcquainted ==
  \A p, q \in Servers :
    role[p] = "PRIMARY" /\ role[q] = "PRIMARY" /\ server_id[p] < server_id[q]
      => <<p, q>> \notin met

\* On a timely network, once all packets have arrived, a primary has on its list every
\* backup that received its call for an election or found it when it started.
BackupsEnlisted ==
  \A p, b \in Servers :
    /\ net = {} /\ role[p] = "PRIMARY" /\ control[p] = "idle"
    /\ Dispatching(b) /\ role[b] = "BACKUP" /\ <<p, b>> \in met
    => b \in backup_servers[p]

\* On a timely network primaries do not depose each other: as long as a server runs, one
\* of them is the primary or will hold an election, unless a process ended and is not back.
SomebodyInCharge ==
  \/ \A s \in Servers : ~Up(s)
  \/ \E s \in Servers : Up(s) /\ (role[s] = "PRIMARY" \/ control[s] # "idle")
  \/ crashes > 0 /\ \E s \in Servers : ~Up(s)

\* The server with the highest id among those that run.
Highest(s) == Up(s) /\ \A t \in Servers : Up(t) => server_id[t] <= server_id[s]

\* On a timely network, as long as the highest server that runs has not been deposed, a
\* primary is found: it is itself promoted, unless there is one, it ends or is surpassed.
HighestTakesOver ==
  \A s \in Servers :
    Highest(s) /\ control[s] \notin {"promoted", "idle"}
      ~> ~Highest(s) \/ \E p \in Servers : role[p] = "PRIMARY"
=============================================================================
