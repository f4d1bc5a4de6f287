--------------------------- MODULE ElectionProofs ---------------------------
(***************************************************************************)
(* The election for any set of servers and any ids.  Timely or not: types, *)
(* and that only a primary has backups on its list.  On a timely network   *)
(* (the second part): one primary among servers that are acquainted, all   *)
(* of them on its list, and never nobody in charge.                        *)
(***************************************************************************)
EXTENDS Election, TLAPS


\* What a packet does to the network keeps it made of packets.
LEMMA TakeKeepsPackets ==
  ASSUME NEW s \in Servers, NEW m \in net, NEW replies \in SUBSET Packets,
         net \subseteq Packets, awaited \in [Servers -> SUBSET Packets], Take(s, m, replies)
  PROVE  net' \subseteq Packets /\ awaited' \in [Servers -> SUBSET Packets]
<1>1. net' \subseteq Packets
  BY DEF Take
<1>2. QED
  BY <1>1 DEF Take

LEMMA BroadcastsArePackets ==
  ASSUME NEW s \in Servers,
         NEW type \in {"SERVER_DISCOVERY", "ELECTION", "NEW_PRIMARY_ANNOUNCEMENT"}
  PROVE  Broadcast(type, s) \subseteq Packets
BY DEF Broadcast, Packet, Packets

LEMMA RepliesArePackets ==
  ASSUME NEW s \in Servers, NEW m \in Packets, NEW condition \in BOOLEAN,
         NEW type \in {"DISCOVERY_ACK", "REGISTER_BACKUP", "ELECTION_ANSWER"}
  PROVE  Reply(condition, type, s, m) \in SUBSET Packets
BY DEF Reply, Packet, Packets

LEMMA AwaitKeepsPackets ==
  ASSUME NEW s \in Servers, awaited \in [Servers -> SUBSET Packets],
         net' \subseteq Packets, Await(s)
  PROVE  awaited' \in [Servers -> SUBSET Packets]
BY DEF Await


LEMMA TypeCorrectStep == TypeOK /\ [Next]_vars => TypeOK'
<1> SUFFICES ASSUME TypeOK, [Next]_vars PROVE TypeOK'
  OBVIOUS
<1> USE DEF TypeOK
<1>1. ASSUME NEW s \in Servers, run_discovery_service_server(s) PROVE TypeOK'
  <2>1. net' \subseteq Packets
    BY <1>1, BroadcastsArePackets DEF run_discovery_service_server
  <2>2. awaited' \in [Servers -> SUBSET Packets]
    BY <1>1, <2>1, AwaitKeepsPackets DEF run_discovery_service_server
  <2>3. QED
    BY <1>1, <2>1, <2>2 DEF run_discovery_service_server, Goto, Dispatching, flags
<1>2. ASSUME NEW s \in Servers, ControlStep(s) PROVE TypeOK'
  <2>1. CASE initPrimary(s)
    BY <2>1 DEF initPrimary, Goto, Dispatching, flags
  <2>2. CASE watch(s)
    <3>1. awaited' \in [Servers -> SUBSET Packets]
      BY <2>2, AwaitKeepsPackets DEF watch
    <3>2. UNCHANGED <<role, backup_servers, election_in_progress, election_lost, net, met, crashes>>
      BY <2>2 DEF watch
    <3>3. primary_alive' \in [Servers -> BOOLEAN]
      BY <2>2 DEF watch
    <3>4. \E to \in {"waiting", "idle"} : Goto(s, "watching", to)
      BY <2>2 DEF watch
    <3>5. /\ control' \in [Servers -> {"down", "discovering", "starting", "watching", "waiting",
               "electing", "window", "deciding", "promoted", "idle"}]
          /\ \A t \in Servers : Dispatching(t)' <=> Dispatching(t)
      BY <3>4 DEF Goto, Dispatching
    <3>6. QED
      BY <3>1, <3>2, <3>3, <3>5
  <2>3. CASE heard(s)
    BY <2>3 DEF heard, Goto, Dispatching, flags
  <2>4. CASE timeout(s)
    BY <2>4 DEF timeout, startElection, Goto, Dispatching
  <2>5. CASE startFirstElection(s)
    BY <2>5 DEF startFirstElection, startElection, Goto, Dispatching
  <2>6. CASE sendElection(s)
    <3>1. net' \subseteq Packets
      BY <2>6, BroadcastsArePackets DEF sendElection
    <3>2. awaited' \in [Servers -> SUBSET Packets]
      BY <2>6, <3>1, AwaitKeepsPackets DEF sendElection
    <3>3. QED
      BY <2>6, <3>1, <3>2 DEF sendElection, Goto, Dispatching
  <2>7. CASE endOfWindow(s)
    BY <2>7 DEF endOfWindow, Goto, Dispatching
  <2>8. CASE promoteToPrimary(s)
    BY <2>8 DEF promoteToPrimary, Goto, Dispatching, flags
  <2>9. CASE giveUp(s)
    BY <2>9 DEF giveUp, Goto, Dispatching, flags
  <2>10. CASE announceNewPrimary(s)
    <3>1. net' \subseteq Packets
      BY <2>10, BroadcastsArePackets DEF announceNewPrimary
    <3>2. QED
      BY <2>10, <3>1 DEF announceNewPrimary, Goto, Dispatching, flags
  <2>11. QED
    BY <1>2, <2>1, <2>2, <2>3, <2>4, <2>5, <2>6, <2>7, <2>8, <2>9, <2>10 DEF ControlStep
<1>3. ASSUME NEW s \in Servers, Crash(s) PROVE TypeOK'
  BY <1>3, ElectionAssumption DEF Crash, Dispatching, Up
<1>4. ASSUME NEW s \in Servers, NEW p \in Servers, heartbeat(p, s) PROVE TypeOK'
  BY <1>4 DEF heartbeat, Dispatching
<1>5. ASSUME NEW m \in net, NEW s \in Servers, dispatch(s, m) PROVE TypeOK'
  <2>0. m \in Packets /\ m.from \in Servers
    BY DEF Packets
  <2>1. CASE initBackup(s, m)
    <3>a. Reply(TRUE, "REGISTER_BACKUP", s, m) \in SUBSET Packets
      BY <2>0, RepliesArePackets
    <3>1. net' \subseteq Packets /\ awaited' \in [Servers -> SUBSET Packets]
      BY <2>1, <3>a, TakeKeepsPackets DEF initBackup
    <3>2. <<m.from, s>> \in Servers \X Servers
      BY <2>0
    <3>3. met' \subseteq Servers \X Servers
      BY <2>1, <3>2 DEF initBackup
    <3>4. QED
      BY <2>1, <3>1, <3>3 DEF initBackup, Dispatching, flags
  <2>2. CASE discard(s, m)
    <3>1. net' \subseteq Packets /\ awaited' \in [Servers -> SUBSET Packets]
      BY <2>0, <2>2, TakeKeepsPackets DEF discard
    <3>2. QED
      BY <2>2, <3>1 DEF discard, Dispatching, flags
  <2>3. CASE sendDiscoveryAck(s, m)
    <3>a. Reply(role[s] = "PRIMARY", "DISCOVERY_ACK", s, m) \in SUBSET Packets
      BY <2>0, RepliesArePackets
    <3>1. net' \subseteq Packets /\ awaited' \in [Servers -> SUBSET Packets]
      BY <2>3, <3>a, TakeKeepsPackets DEF sendDiscoveryAck
    <3>2. QED
      BY <2>3, <3>1 DEF sendDiscoveryAck, Dispatching, flags
  <2>4. CASE registerBackup(s, m)
    <3>1. net' \subseteq Packets /\ awaited' \in [Servers -> SUBSET Packets]
      BY <2>0, <2>4, TakeKeepsPackets DEF registerBackup
    <3>2. QED
      BY <2>0, <2>4, <3>1 DEF registerBackup, Dispatching, flags
  <2>5. CASE handleNewPrimaryAnnouncementPacket(s, m)
    <3> DEFINE deposed == server_id[m.from] # server_id[s]
    <3>a. Reply(deposed, "REGISTER_BACKUP", s, m) \in SUBSET Packets
      BY <2>0, RepliesArePackets
    <3>1. net' \subseteq Packets /\ awaited' \in [Servers -> SUBSET Packets]
      BY <2>5, <3>a, TakeKeepsPackets DEF handleNewPrimaryAnnouncementPacket
    <3>2. QED
      BY <2>0, <2>5, <3>1 DEF handleNewPrimaryAnnouncementPacket, Dispatching
  <2>6. CASE handleElectionPacket(s, m)
    <3> DEFINE superior == server_id[m.from] > server_id[s]
    <3>a. Reply(~superior, "ELECTION_ANSWER", s, m) \in SUBSET Packets
      BY <2>0, RepliesArePackets
    <3>1. net' \subseteq Packets /\ awaited' \in [Servers -> SUBSET Packets]
      BY <2>6, <3>a, TakeKeepsPackets DEF handleElectionPacket
    <3>2. <<m.from, s>> \in Servers \X Servers
      BY <2>0
    <3>3. met' \subseteq Servers \X Servers
      BY <2>6, <3>2 DEF handleElectionPacket
    <3>4. QED
      BY <2>6, <3>1, <3>3 DEF handleElectionPacket, Dispatching
  <2>7. CASE handleElectionAnswerPacket(s, m)
    <3>1. net' \subseteq Packets /\ awaited' \in [Servers -> SUBSET Packets]
      BY <2>0, <2>7, TakeKeepsPackets DEF handleElectionAnswerPacket
    <3>2. QED
      BY <2>0, <2>7, <3>1 DEF handleElectionAnswerPacket, Dispatching
  <2>8. QED
    BY <1>5, <2>1, <2>2, <2>3, <2>4, <2>5, <2>6, <2>7 DEF dispatch
<1>6. ASSUME NEW m \in net, Lose(m) PROVE TypeOK'
  BY <1>6 DEF Lose, Dispatching, flags
<1>7. CASE UNCHANGED vars
  BY <1>7 DEF vars, Dispatching
<1>8. \A m \in net : m.to \in Servers
  BY DEF Packets
<1>9. QED
  BY <1>1, <1>2, <1>3, <1>4, <1>5, <1>6, <1>7, <1>8 DEF Next

\* Every state of the servers and the network is of its type, and a server that handles
\* packets has a role, for any servers, delays and losses.
THEOREM ElectionTypeCorrect == Spec => []TypeOK
<1>1. Init => TypeOK
  BY ElectionAssumption DEF Init, TypeOK, Dispatching
<1>2. QED
  BY <1>1, TypeCorrectStep, PTL DEF Spec

-----------------------------------------------------------------------------
\* A step that takes a server out of the primary's role, or gives it that role, leaves
\* its list empty, and no other step touches the list of one that is not a primary.
LEMMA OnlyPrimariesEnlistStep ==
  TypeOK /\ OnlyPrimariesEnlist /\ [Next]_vars => OnlyPrimariesEnlist'
<1> SUFFICES ASSUME TypeOK, OnlyPrimariesEnlist, [Next]_vars PROVE OnlyPrimariesEnlist'
  OBVIOUS
<1> USE DEF OnlyPrimariesEnlist
<1>0. /\ role \in [Servers -> {"PRIMARY", "BACKUP", "unset"}]
      /\ backup_servers \in [Servers -> SUBSET Servers]
      /\ \A s \in Servers : Dispatching(s) <=> role[s] # "unset"
      /\ \A m \in net : m.to \in Servers
  BY DEF TypeOK, Packets
<1>1. CASE UNCHANGED <<role, backup_servers>>
  BY <1>1
<1>2. ASSUME NEW s \in Servers, initPrimary(s) PROVE OnlyPrimariesEnlist'
  BY <1>0, <1>2 DEF initPrimary, Goto, Dispatching
<1>3. ASSUME NEW s \in Servers, promoteToPrimary(s) PROVE OnlyPrimariesEnlist'
  BY <1>0, <1>3 DEF promoteToPrimary
<1>4. ASSUME NEW s \in Servers, Crash(s) PROVE OnlyPrimariesEnlist'
  BY <1>0, <1>4 DEF Crash
<1>5. ASSUME NEW s \in Servers, NEW m \in net, initBackup(s, m) PROVE OnlyPrimariesEnlist'
  BY <1>0, <1>5 DEF initBackup, Dispatching
<1>6. ASSUME NEW s \in Servers, NEW m \in net, registerBackup(s, m)
      PROVE  OnlyPrimariesEnlist'
  BY <1>0, <1>6 DEF registerBackup
<1>7. ASSUME NEW s \in Servers, NEW m \in net, handleNewPrimaryAnnouncementPacket(s, m)
      PROVE  OnlyPrimariesEnlist'
  BY <1>0, <1>7 DEF handleNewPrimaryAnnouncementPacket
<1>8. ASSUME NEW s \in Servers, ControlStep(s), ~initPrimary(s), ~promoteToPrimary(s)
      PROVE  UNCHANGED <<role, backup_servers>>
  BY <1>8 DEF ControlStep, watch, heard, timeout, startFirstElection, startElection,
              sendElection, endOfWindow, giveUp, announceNewPrimary
<1>9. ASSUME NEW s \in Servers, NEW m \in net, dispatch(s, m), ~initBackup(s, m),
             ~registerBackup(s, m), ~handleNewPrimaryAnnouncementPacket(s, m)
      PROVE  UNCHANGED <<role, backup_servers>>
  BY <1>9 DEF dispatch, discard, sendDiscoveryAck, handleElectionPacket,
              handleElectionAnswerPacket
<1>10. ASSUME NEW s \in Servers,
              run_discovery_service_server(s) \/ \E p \in Servers : heartbeat(p, s)
       PROVE  UNCHANGED <<role, backup_servers>>
  BY <1>10 DEF run_discovery_service_server, heartbeat
<1>11. CASE Next
  <2>1. CASE \E s \in Servers : ControlStep(s)
    BY <2>1, <1>1, <1>2, <1>3, <1>8
  <2>2. CASE \E m \in net : dispatch(m.to, m)
    BY <2>2, <1>0, <1>1, <1>5, <1>6, <1>7, <1>9
  <2>3. CASE \E m \in net : Lose(m)
    BY <2>3, <1>1 DEF Lose
  <2>4. QED
    BY <1>11, <2>1, <2>2, <2>3, <1>1, <1>4, <1>10 DEF Next
<1>12. CASE UNCHANGED vars
  BY <1>12, <1>1 DEF vars
<1>13. QED
  BY <1>11, <1>12

\* Whatever the network loses or delays and whatever crashes, a server that is not the
\* primary has nobody on its list, so it sends no heartbeats and no updates.
THEOREM OnlyPrimariesHaveBackups == Spec => []OnlyPrimariesEnlist
<1>1. Init => OnlyPrimariesEnlist
  BY DEF Init, OnlyPrimariesEnlist
<1>2. QED
  BY <1>1, OnlyPrimariesEnlistStep, ElectionTypeCorrect, PTL DEF Spec

-----------------------------------------------------------------------------
(* What the elections on a timely network guarantee.  The packets of an    *)
(* election have names here, and Takes, Sends, AwaitsAll and Drops say      *)
(* which packets a step leaves under way and awaited.                       *)

\* Two servers have different addresses, and different ids as long as theirs are found.
IdsDiffer == \A s, t \in Servers : server_id[s] = server_id[t] => s = t

Call(p, q) == Packet("ELECTION", p, q)
Answer(p, q) == Packet("ELECTION_ANSWER", p, q)
Announcement(p, q) == Packet("NEW_PRIMARY_ANNOUNCEMENT", p, q)
Registration(p, q) == Packet("REGISTER_BACKUP", p, q)
Ack(p, q) == Packet("DISCOVERY_ACK", p, q)

\* s has asked everybody and nobody objected in time.
Won(s) == control[s] = "promoted" \/ (control[s] = "deciding" /\ ~election_lost[s])

\* A server that is in an election says so, a primary is in none, and nobody decides
\* before all answers are in.
RolesFit ==
  \A s \in Servers :
    /\ role[s] = "PRIMARY" => control[s] \in {"promoted", "idle"}
    /\ control[s] = "promoted" => role[s] = "PRIMARY"
    /\ control[s] \in {"electing", "window"} => election_in_progress[s]
    /\ control[s] \in {"deciding", "promoted"} => awaited[s] = {}

\* Only servers that handle packets are met.
MetDispatch == \A p, q \in Servers : <<p, q>> \in met => Dispatching(q)

\* What p sent when it was a primary is not under way any more when it is in an election,
\* nor is its call for one when that has been decided.
Heeded(p, m) ==
  m \in net => \/ control[p] \in {"down", "watching", "idle"}
               \/ control[p] \in {"discovering", "waiting"} /\ m \in awaited[p]

AllHeeded ==
  \A p, q \in Servers :
    /\ Heeded(p, Ack(p, q))
    /\ Heeded(p, Announcement(p, q))
    /\ Call(p, q) \in net =>
         /\ control[p] \notin {"deciding", "promoted", "idle"}
         /\ control[p] = "window" => Call(p, q) \in awaited[p]

LEMMA PacketParts ==
  ASSUME NEW type, NEW s, NEW t
  PROVE  /\ Packet(type, s, t).type = type
         /\ Packet(type, s, t).from = s
         /\ Packet(type, s, t).to = t
BY DEF Packet

LEMMA PacketsEqual ==
  ASSUME NEW type, NEW s, NEW t, NEW kind, NEW u, NEW v
  PROVE  Packet(type, s, t) = Packet(kind, u, v) <=> type = kind /\ s = u /\ t = v
BY DEF Packet

LEMMA PacketOfParts ==
  ASSUME NEW m \in Packets
  PROVE  m = Packet(m.type, m.from, m.to)
BY DEF Packet, Packets

\* What s taking m does to the packets under way and to what each server waits for.
Takes(s, m, condition, kind) ==
  /\ control[s] \notin {"deciding", "promoted"}
  /\ \A type, p, q :
       Packet(type, p, q) \in net' <=>
         \/ Packet(type, p, q) \in net /\ <<type, p, q>> # <<m.type, m.from, s>>
         \/ condition /\ Up(m.from) /\ <<type, p, q>> = <<kind, s, m.from>>
  /\ \A t \in Servers : \A type, p, q :
       Packet(type, p, q) \in awaited'[t] <=>
         \/ Packet(type, p, q) \in awaited[t] /\ <<type, p, q>> # <<m.type, m.from, s>>
         \/ /\ Packet(type, p, q) \in net' /\ p = s /\ q = t
            /\ Packet(m.type, m.from, s) \in awaited[t]
  /\ \A t \in Servers : awaited[t] = {} => awaited'[t] = {}

LEMMA TakeEffect ==
  ASSUME Timely, TypeOK, NEW s \in Servers, NEW m \in net,
         NEW condition \in BOOLEAN, NEW kind,
         Take(s, m, Reply(condition, kind, s, m))
  PROVE  /\ m.to = s /\ m.from \in Servers
         /\ m.type \in {"SERVER_DISCOVERY", "DISCOVERY_ACK", "REGISTER_BACKUP", "ELECTION",
                        "ELECTION_ANSWER", "NEW_PRIMARY_ANNOUNCEMENT"}
         /\ Takes(s, m, condition, kind)
<1>1. m \in Packets /\ m.to = s /\ control[s] \notin {"deciding", "promoted"}
  BY DEF Take, TypeOK
<1>2. m.from \in Servers /\ m.type \in {"SERVER_DISCOVERY", "DISCOVERY_ACK",
        "REGISTER_BACKUP", "ELECTION", "ELECTION_ANSWER", "NEW_PRIMARY_ANNOUNCEMENT"}
  BY <1>1 DEF Packets
<1>3. m = Packet(m.type, m.from, s)
  BY <1>1, PacketOfParts
<1>4. \A type, p, q : Packet(type, p, q) = m <=> <<type, p, q>> = <<m.type, m.from, s>>
  BY <1>3, PacketsEqual
<1>5. \A type, p, q : Packet(type, p, q) \in Reply(condition, kind, s, m) <=>
                 condition /\ Up(m.from) /\ <<type, p, q>> = <<kind, s, m.from>>
  BY PacketsEqual DEF Reply
<1>6. \A type, p, q :
         Packet(type, p, q) \in net' <=>
           \/ Packet(type, p, q) \in net /\ <<type, p, q>> # <<m.type, m.from, s>>
           \/ condition /\ Up(m.from) /\ <<type, p, q>> = <<kind, s, m.from>>
  BY <1>4, <1>5 DEF Take
<1>7. ASSUME NEW t \in Servers, NEW type, NEW p, NEW q
      PROVE  Packet(type, p, q) \in awaited'[t] <=>
               \/ Packet(type, p, q) \in awaited[t] /\ <<type, p, q>> # <<m.type, m.from, s>>
               \/ /\ Packet(type, p, q) \in net' /\ p = s /\ q = t
                  /\ Packet(m.type, m.from, s) \in awaited[t]
  <2>1. awaited'[t] = (awaited[t] \ {m}) \cup
                      {r \in net' : r.from = s /\ r.to = t /\ m \in awaited[t]}
    BY DEF Take
  <2>2. Packet(type, p, q).from = p /\ Packet(type, p, q).to = q
    BY PacketParts
  <2>3. QED
    BY <2>1, <2>2, <1>4
<1>8. \A t \in Servers : awaited[t] = {} => awaited'[t] = {}
  BY DEF Take
<1>9. QED
  BY <1>1, <1>2, <1>6, <1>7, <1>8 DEF Takes

\* A broadcast, and what a server that begins to wait waits for.
Sends(s, kind) ==
  \A type, p, q :
    Packet(type, p, q) \in net' <=>
      \/ Packet(type, p, q) \in net
      \/ type = kind /\ p = s /\ q \in Servers \ {s} /\ Up(q)

LEMMA BroadcastEffect ==
  ASSUME NEW kind, NEW s \in Servers, net' = net \cup Broadcast(kind, s)
  PROVE  Sends(s, kind)
<1>1. \A type, p, q :
        Packet(type, p, q) \in Broadcast(kind, s) <=>
          type = kind /\ p = s /\ q \in Servers \ {s} /\ Up(q)
  BY PacketsEqual DEF Broadcast
<1>2. QED
  BY <1>1 DEF Sends

AwaitsAll(s) ==
  /\ \A t \in Servers \ {s} : awaited'[t] = awaited[t]
  /\ \A type, p, q : Packet(type, p, q) \in awaited'[s] <=>
                       Packet(type, p, q) \in net' /\ s \in {p, q}

LEMMA AwaitEffect ==
  ASSUME Timely, NEW s \in Servers, TypeOK, Await(s)
  PROVE  AwaitsAll(s)
BY PacketParts DEF Await, TypeOK, AwaitsAll

Drops(s) ==
  /\ \A type, p, q :
       Packet(type, p, q) \in net' <=> Packet(type, p, q) \in net /\ q # s
  /\ \A t \in Servers \ {s} : \A type, p, q :
       Packet(type, p, q) \in awaited'[t] <=> Packet(type, p, q) \in awaited[t] /\ q # s
  /\ \A t \in Servers : awaited[t] = {} => awaited'[t] = {}

LEMMA CrashEffect ==
  ASSUME NEW s \in Servers, Crash(s)
  PROVE  Drops(s)
BY PacketParts DEF Crash, Drops


\* p, in its window, will not decide before q has answered it.
Asked(p, q) == Call(p, q) \in awaited[p] \/ Answer(q, p) \in awaited[p]

\* Of two candidates, the one with the lower id is either still waiting for what makes it
\* lose, or it called before the other did, which then waits for that call: both cannot win.
Rival(p, r) ==
  /\ control[p] = "window" /\ ~election_lost[p] /\ (control[r] = "window" \/ Won(r))
       => Asked(p, r) \/ Call(r, p) \in awaited[r]
  /\ Won(p) => ~Won(r)
  /\ Won(p) /\ control[r] = "window" => Call(r, p) \in awaited[r]

Rivals == \A p, r \in Servers : server_id[p] < server_id[r] => Rival(p, r)

\* q has taken up the role of a backup and p has it on its list, or will have before q
\* can start an election.
Follower(q, p) ==
  /\ role[q] = "BACKUP" /\ control[q] \in {"watching", "waiting"}
  /\ \/ q \in backup_servers[p]
     \/ /\ Registration(q, p) \in net
        /\ control[q] = "waiting" => Registration(q, p) \in awaited[q]

\* p cannot win against q, and if it is the primary already, then q follows it.
Defers(p, q) ==
  /\ control[p] = "window" => election_lost[p] \/ Asked(p, q)
  /\ ~Won(p)
  /\ role[p] = "PRIMARY" => Follower(q, p)

\* A server that has met one with a higher id defers to it.
Acquainted ==
  \A p, q \in Servers : <<p, q>> \in met /\ server_id[p] < server_id[q] => Defers(p, q)

\* v's announcement finds r, if in an election at all, in one that r is bound to lose.
Hears(r, v) ==
  /\ ~Won(r)
  /\ control[r] = "window" /\ ~election_lost[r] =>
       \/ Announcement(v, r) \in awaited[r] \/ Call(r, v) \in awaited[r]
       \/ Answer(v, r) \in awaited[r] /\ server_id[r] < server_id[v]

\* Nobody wins against a primary whose announcement is still to come.
Heralds ==
  IdsDiffer =>
    \A r, v \in Servers :
      Announcement(v, r) \in net /\ control[v] = "idle" => Hears(r, v)

\* Whom an announced primary has met is on its list, or about to be: it was told of the
\* primary, or is telling it of itself.
Known ==
  IdsDiffer =>
    \A p, b \in Servers :
      <<p, b>> \in met /\ p # b /\ role[p] = "PRIMARY" /\ control[p] = "idle" =>
        \/ b \in backup_servers[p]
        \/ Registration(b, p) \in net \/ Announcement(p, b) \in net

TimelyInv ==
  /\ RolesFit /\ MetDispatch /\ AllHeeded
  /\ Rivals /\ Acquainted /\ Heralds /\ Known

\* All of it together is inductive, one case for each step of each thread.
LEMMA TimelyStep ==
  ASSUME Timely, TypeOK, TimelyInv, [Next]_vars
  PROVE  TimelyInv'
<1> USE DEF TimelyInv
<1>t. /\ control \in [Servers -> {"down", "discovering", "starting", "watching", "waiting",
           "electing", "window", "deciding", "promoted", "idle"}]
      /\ role \in [Servers -> {"PRIMARY", "BACKUP", "unset"}]
      /\ \A s \in Servers : Dispatching(s) <=> role[s] # "unset"
      /\ backup_servers \in [Servers -> SUBSET Servers]
      /\ election_in_progress \in [Servers -> BOOLEAN]
      /\ election_lost \in [Servers -> BOOLEAN]
      /\ awaited \in [Servers -> SUBSET Packets]
  BY DEF TypeOK
<1>i. server_id \in [Servers -> Nat]
  BY ElectionAssumption
<1>1. ASSUME NEW s \in Servers, run_discovery_service_server(s) PROVE TimelyInv'
  <2>1. /\ control[s] = "down" /\ control' = [control EXCEPT ![s] = "discovering"]
        /\ UNCHANGED <<role, backup_servers, election_in_progress, election_lost, met>>
        /\ net' = net \cup Broadcast("SERVER_DISCOVERY", s) /\ Await(s)
    BY <1>1 DEF run_discovery_service_server, Goto, flags
  <2>2. Sends(s, "SERVER_DISCOVERY") /\ AwaitsAll(s)
    BY <2>1, BroadcastEffect, AwaitEffect
  <2>a. RolesFit'
    BY <2>1, <2>2 DEF RolesFit, AwaitsAll
  <2>b. MetDispatch'
    BY <2>1 DEF MetDispatch, Dispatching
  <2>c. AllHeeded'
    BY <2>1, <2>2 DEF AllHeeded, Heeded, Ack, Announcement, Call, Sends, AwaitsAll
  <2>d. Rivals'
    BY <2>1, <2>2 DEF Rivals, Rival, Won, Asked, AwaitsAll
  <2>e. Acquainted'
    BY <2>1, <2>2 DEF Acquainted, Defers, Follower, Won, Asked, AwaitsAll
  <2>f. Heralds'
    BY <2>1, <2>2 DEF Heralds, Hears, Won, Announcement, Sends, AwaitsAll
  <2>g. Known'
    BY <2>1 DEF Known
  <2>q. QED
    BY <2>a, <2>b, <2>c, <2>d, <2>e, <2>f, <2>g
<1>2. ASSUME NEW s \in Servers, ControlStep(s) PROVE TimelyInv'
  <2>1. CASE initPrimary(s)
    <3>1. /\ control[s] = "discovering" /\ control' = [control EXCEPT ![s] = "starting"]
          /\ awaited[s] = {} /\ role' = [role EXCEPT ![s] = "BACKUP"]
          /\ UNCHANGED <<backup_servers, election_in_progress, election_lost, net, awaited, met>>
      BY <2>1 DEF initPrimary, Goto, flags, WaitIsOver
    <3>a. RolesFit'
      BY <3>1 DEF RolesFit
    <3>b. MetDispatch'
      BY <3>1 DEF MetDispatch, Dispatching
    <3>c. AllHeeded'
      BY <3>1 DEF AllHeeded, Heeded
    <3>d. Rivals'
      BY <3>1 DEF Rivals, Rival, Won, Asked
    <3>e. Acquainted'
      BY <3>1 DEF Acquainted, Defers, Follower, Won, Asked
    <3>f. Heralds'
      BY <3>1 DEF Heralds, Hears, Won
    <3>g. Known'
      BY <3>1 DEF Known
    <3>q. QED
      BY <3>a, <3>b, <3>c, <3>d, <3>e, <3>f, <3>g
  <2>2. CASE watch(s)
    <3>1. /\ control[s] = "watching" /\ role[s] = "BACKUP" /\ control' = [control EXCEPT ![s] = "waiting"]
          /\ UNCHANGED <<role, backup_servers, election_in_progress, election_lost, net, met>>
          /\ Await(s)
      BY <2>2, <1>t DEF watch, Goto, RolesFit, Dispatching
    <3>2. AwaitsAll(s)
      BY <3>1, AwaitEffect
    <3>a. RolesFit'
      BY <3>1, <3>2 DEF RolesFit, AwaitsAll
    <3>b. MetDispatch'
      BY <3>1 DEF MetDispatch, Dispatching
    <3>c. AllHeeded'
      BY <3>1, <3>2 DEF AllHeeded, Heeded, Ack, Announcement, AwaitsAll
    <3>d. Rivals'
      BY <3>1, <3>2 DEF Rivals, Rival, Won, Asked, AwaitsAll
    <3>e. Acquainted'
      BY <3>1, <3>2 DEF Acquainted, Defers, Follower, Won, Asked, Registration, AwaitsAll
    <3>f. Heralds'
      BY <3>1, <3>2 DEF Heralds, Hears, Won, AwaitsAll
    <3>g. Known'
      BY <3>1 DEF Known
    <3>q. QED
      BY <3>a, <3>b, <3>c, <3>d, <3>e, <3>f, <3>g
  <2>3. CASE heard(s)
    <3>1. /\ control[s] = "waiting" /\ control' = [control EXCEPT ![s] = "watching"]
          /\ UNCHANGED <<role, backup_servers, election_in_progress, election_lost, net, awaited, met>>
      BY <2>3 DEF heard, Goto, flags
    <3>a. RolesFit'
      BY <3>1 DEF RolesFit
    <3>b. MetDispatch'
      BY <3>1 DEF MetDispatch, Dispatching
    <3>c. AllHeeded'
      BY <3>1 DEF AllHeeded, Heeded
    <3>d. Rivals'
      BY <3>1 DEF Rivals, Rival, Won, Asked
    <3>e. Acquainted'
      BY <3>1 DEF Acquainted, Defers, Follower, Won, Asked
    <3>f. Heralds'
      BY <3>1 DEF Heralds, Hears, Won
    <3>g. Known'
      BY <3>1 DEF Known
    <3>q. QED
      BY <3>a, <3>b, <3>c, <3>d, <3>e, <3>f, <3>g
  <2>4. CASE timeout(s)
    <3>1. /\ control[s] = "waiting" /\ control' = [control EXCEPT ![s] = "electing"]
          /\ election_in_progress' = [election_in_progress EXCEPT ![s] = TRUE]
          /\ awaited[s] = {} /\ \A p \in Servers : ~Beating(p, s)
          /\ UNCHANGED <<role, backup_servers, election_lost, net, awaited, met>>
      BY <2>4 DEF timeout, Goto, startElection, WaitIsOver
    <3>a. RolesFit'
      BY <1>t, <3>1 DEF RolesFit
    <3>b. MetDispatch'
      BY <3>1 DEF MetDispatch, Dispatching
    <3>c. AllHeeded'
      BY <3>1 DEF AllHeeded, Heeded
    <3>d. Rivals'
      BY <3>1 DEF Rivals, Rival, Won, Asked
    <3>e. Acquainted'
      BY <3>1 DEF Acquainted, Defers, Follower, Won, Asked, Beating
    <3>f. Heralds'
      BY <3>1 DEF Heralds, Hears, Won
    <3>g. Known'
      BY <3>1 DEF Known
    <3>q. QED
      BY <3>a, <3>b, <3>c, <3>d, <3>e, <3>f, <3>g
  <2>5. CASE startFirstElection(s)
    <3>1. /\ control[s] = "starting" /\ control' = [control EXCEPT ![s] = "electing"]
          /\ election_in_progress' = [election_in_progress EXCEPT ![s] = TRUE]
          /\ UNCHANGED <<role, backup_servers, election_lost, net, awaited, met>>
      BY <2>5 DEF startFirstElection, Goto, startElection
    <3>a. RolesFit'
      BY <1>t, <3>1 DEF RolesFit
    <3>b. MetDispatch'
      BY <3>1 DEF MetDispatch, Dispatching
    <3>c. AllHeeded'
      BY <3>1 DEF AllHeeded, Heeded
    <3>d. Rivals'
      BY <3>1 DEF Rivals, Rival, Won, Asked
    <3>e. Acquainted'
      BY <3>1 DEF Acquainted, Defers, Follower, Won, Asked
    <3>f. Heralds'
      BY <3>1 DEF Heralds, Hears, Won
    <3>g. Known'
      BY <3>1 DEF Known
    <3>q. QED
      BY <3>a, <3>b, <3>c, <3>d, <3>e, <3>f, <3>g
  <2>6. CASE sendElection(s)
    <3>1. /\ control[s] = "electing" /\ control' = [control EXCEPT ![s] = "window"]
          /\ election_lost' = [election_lost EXCEPT ![s] = FALSE]
          /\ UNCHANGED <<role, backup_servers, election_in_progress, met>>
          /\ net' = net \cup Broadcast("ELECTION", s) /\ Await(s)
      BY <2>6 DEF sendElection, Goto
    <3>2. Sends(s, "ELECTION") /\ AwaitsAll(s)
      BY <3>1, BroadcastEffect, AwaitEffect
    <3>a. RolesFit'
      BY <3>1, <3>2 DEF RolesFit, AwaitsAll
    <3>b. MetDispatch'
      BY <3>1 DEF MetDispatch, Dispatching
    <3>c. AllHeeded'
      BY <3>1, <3>2 DEF AllHeeded, Heeded, Ack, Announcement, Call, Sends, AwaitsAll
    <3>d. Rivals'
      <4>1. \A t \in Servers \ {s} : Up(t) => Call(s, t) \in awaited'[s]
        BY <3>2 DEF Sends, AwaitsAll, Call
      <4>2. \A t \in Servers \ {s} : awaited'[t] = awaited[t]
        BY <3>2 DEF AwaitsAll
      <4>3. \A t \in Servers : Up(t) <=> control[t] # "down"
        BY DEF Up
      <4>4. SUFFICES ASSUME NEW p \in Servers, NEW r \in Servers, server_id[p] < server_id[r]
                     PROVE  Rival(p, r)'
        BY DEF Rivals
      <4>5. p # r /\ Rival(p, r)
        BY <4>4, <1>i DEF Rivals
      <4>6. CASE p = s
        BY <3>1, <4>1, <4>3, <4>5, <4>6 DEF Rival, Won, Asked
      <4>7. CASE r = s
        BY <3>1, <4>1, <4>3, <4>5, <4>7 DEF Rival, Won
      <4>8. CASE p # s /\ r # s
        BY <3>1, <4>2, <4>5, <4>8 DEF Rival, Won, Asked
      <4>9. QED
        BY <4>6, <4>7, <4>8
    <3>e. Acquainted'
      <4>1. \A t \in Servers \ {s} : Up(t) => Call(s, t) \in awaited'[s]
        BY <3>2 DEF Sends, AwaitsAll, Call
      <4>2. \A t \in Servers \ {s} : awaited'[t] = awaited[t]
        BY <3>2 DEF AwaitsAll
      <4>3. \A q, p : Registration(q, p) \in net => Registration(q, p) \in net'
        BY <3>2 DEF Sends, Registration
      <4>4. SUFFICES ASSUME NEW p \in Servers, NEW q \in Servers, <<p, q>> \in met,
                            server_id[p] < server_id[q]
                     PROVE  Defers(p, q)'
        BY <3>1 DEF Acquainted
      <4>5. p # q /\ Defers(p, q) /\ Dispatching(q)
        BY <4>4, <1>i DEF Acquainted, MetDispatch
      <4>6. CASE p = s
        BY <3>1, <4>1, <4>5, <4>6 DEF Defers, Won, Asked, Up, Dispatching, RolesFit
      <4>7. CASE q = s
        BY <3>1, <4>2, <4>5, <4>7 DEF Defers, Follower, Won, Asked
      <4>8. CASE p # s /\ q # s
        BY <3>1, <4>2, <4>5, <4>8 DEF Defers, Follower, Won, Asked
      <4>9. QED
        BY <4>6, <4>7, <4>8
    <3>f. Heralds'
      BY <3>1, <3>2 DEF Heralds, Hears, Won, Announcement, Sends, AwaitsAll
    <3>g. Known'
      BY <3>1 DEF Known
    <3>q. QED
      BY <3>a, <3>b, <3>c, <3>d, <3>e, <3>f, <3>g
  <2>7. CASE endOfWindow(s)
    <3>1. /\ control[s] = "window" /\ control' = [control EXCEPT ![s] = "deciding"]
          /\ awaited[s] = {} /\ election_in_progress' = [election_in_progress EXCEPT ![s] = FALSE]
          /\ UNCHANGED <<role, backup_servers, election_lost, net, awaited, met>>
      BY <2>7 DEF endOfWindow, Goto, WaitIsOver
    <3>a. RolesFit'
      BY <1>t, <3>1 DEF RolesFit
    <3>b. MetDispatch'
      BY <3>1 DEF MetDispatch, Dispatching
    <3>c. AllHeeded'
      BY <3>1 DEF AllHeeded, Heeded
    <3>d. Rivals'
      BY <3>1 DEF Rivals, Rival, Won, Asked, RolesFit
    <3>e. Acquainted'
      BY <3>1 DEF Acquainted, Defers, Follower, Won, Asked
    <3>f. Heralds'
      BY <3>1 DEF Heralds, Hears, Won
    <3>g. Known'
      BY <3>1 DEF Known
    <3>q. QED
      BY <3>a, <3>b, <3>c, <3>d, <3>e, <3>f, <3>g
  <2>8. CASE promoteToPrimary(s)
    <3>1. role[s] = "BACKUP"
      BY <2>8, <1>t DEF promoteToPrimary, Goto, RolesFit, Dispatching
    <3>2. /\ control[s] = "deciding" /\ ~election_lost[s] /\ control' = [control EXCEPT ![s] = "promoted"]
          /\ role' = [role EXCEPT ![s] = "PRIMARY"]
          /\ backup_servers' = [backup_servers EXCEPT ![s] = {}]
          /\ UNCHANGED <<election_in_progress, election_lost, net, awaited, met>>
      BY <2>8, <3>1 DEF promoteToPrimary, Goto, flags
    <3>a. RolesFit'
      BY <1>t, <3>2 DEF RolesFit
    <3>b. MetDispatch'
      BY <3>2 DEF MetDispatch, Dispatching
    <3>c. AllHeeded'
      BY <3>2 DEF AllHeeded, Heeded
    <3>d. Rivals'
      BY <3>2 DEF Rivals, Rival, Won, Asked
    <3>e. Acquainted'
      BY <3>2 DEF Acquainted, Defers, Follower, Won, Asked
    <3>f. Heralds'
      BY <3>2 DEF Heralds, Hears, Won
    <3>g. Known'
      BY <3>2 DEF Known
    <3>q. QED
      BY <3>a, <3>b, <3>c, <3>d, <3>e, <3>f, <3>g
  <2>9. CASE giveUp(s)
    <3>1. /\ control[s] = "deciding" /\ control' = [control EXCEPT ![s] = "watching"]
          /\ election_lost[s]
          /\ UNCHANGED <<role, backup_servers, election_in_progress, election_lost, net, awaited, met>>
      BY <2>9 DEF giveUp, Goto, flags
    <3>a. RolesFit'
      BY <3>1 DEF RolesFit
    <3>b. MetDispatch'
      BY <3>1 DEF MetDispatch, Dispatching
    <3>c. AllHeeded'
      BY <3>1 DEF AllHeeded, Heeded
    <3>d. Rivals'
      BY <3>1 DEF Rivals, Rival, Won, Asked
    <3>e. Acquainted'
      BY <3>1 DEF Acquainted, Defers, Follower, Won, Asked
    <3>f. Heralds'
      BY <3>1 DEF Heralds, Hears, Won
    <3>g. Known'
      BY <3>1 DEF Known
    <3>q. QED
      BY <3>a, <3>b, <3>c, <3>d, <3>e, <3>f, <3>g
  <2>10. CASE announceNewPrimary(s)
    <3>1. /\ control[s] = "promoted" /\ control' = [control EXCEPT ![s] = "idle"]
          /\ UNCHANGED <<role, backup_servers, election_in_progress, election_lost, awaited, met>>
          /\ net' = net \cup Broadcast("NEW_PRIMARY_ANNOUNCEMENT", s)
      BY <2>10 DEF announceNewPrimary, Goto, flags
    <3>2. Sends(s, "NEW_PRIMARY_ANNOUNCEMENT")
      BY <3>1, BroadcastEffect
    <3>a. RolesFit'
      BY <3>1 DEF RolesFit
    <3>b. MetDispatch'
      BY <3>1 DEF MetDispatch, Dispatching
    <3>c. AllHeeded'
      BY <1>t, <3>1, <3>2 DEF AllHeeded, Heeded, Ack, Announcement, Call, Sends
    <3>d. Rivals'
      BY <3>1 DEF Rivals, Rival, Won, Asked
    <3>e. Acquainted'
      BY <3>1 DEF Acquainted, Defers, Follower, Won, Asked
    <3>f. Heralds'
      <4>1. \A v, r : Announcement(v, r) \in net' => Announcement(v, r) \in net \/ (v = s /\ r # s)
        BY <3>2 DEF Sends, Announcement
      <4>2. SUFFICES ASSUME IdsDiffer, NEW r \in Servers, NEW v \in Servers, Announcement(v, r) \in net',
                            control'[v] = "idle"
                     PROVE  Hears(r, v)'
        BY DEF Heralds
      <4>3. CASE v # s
        BY <3>1, <4>1, <4>2, <4>3 DEF Heralds, Hears, Won
      <4>4. CASE v = s /\ r = s
        BY <1>t, <3>1, <4>4 DEF Hears, Won
      <4>5. CASE v = s /\ r # s
        <5>1. Won(s) /\ awaited[s] = {}
          BY <3>1 DEF Won, RolesFit
        <5>2. \/ server_id[r] < server_id[s] /\ Rival(r, s)
              \/ server_id[s] < server_id[r] /\ Rival(s, r)
          BY <1>i, <4>2, <4>5 DEF Rivals, IdsDiffer
        <5>3. CASE server_id[r] < server_id[s] /\ Rival(r, s)
          BY <3>1, <4>5, <5>1, <5>3 DEF Rival, Hears, Won, Asked
        <5>4. CASE server_id[s] < server_id[r] /\ Rival(s, r)
          BY <3>1, <4>5, <5>4 DEF Rival, Hears, Won
        <5>5. QED
          BY <5>2, <5>3, <5>4
      <4>6. QED
        BY <4>3, <4>4, <4>5
    <3>g. Known'
      BY <3>1, <3>2 DEF Known, Announcement, Sends, Up, MetDispatch, Dispatching
    <3>q. QED
      BY <3>a, <3>b, <3>c, <3>d, <3>e, <3>f, <3>g
  <2>11. QED
    BY <1>2, <2>1, <2>2, <2>3, <2>4, <2>5, <2>6, <2>7, <2>8, <2>9, <2>10 DEF ControlStep
<1>3. ASSUME NEW s \in Servers, Crash(s) PROVE TimelyInv'
  <2>1. /\ control' = [control EXCEPT ![s] = "down"] /\ role' = [role EXCEPT ![s] = "unset"]
        /\ backup_servers' = [backup_servers EXCEPT ![s] = {}]
        /\ election_in_progress' = [election_in_progress EXCEPT ![s] = FALSE]
        /\ election_lost' = [election_lost EXCEPT ![s] = FALSE]
        /\ met' = {pair \in met : s \notin {pair[1], pair[2]}}
    BY <1>3 DEF Crash
  <2>2. Drops(s)
    BY <1>3, CrashEffect
  <2>a. RolesFit'
    BY <1>t, <2>1, <2>2 DEF RolesFit, Drops
  <2>b. MetDispatch'
    BY <2>1 DEF MetDispatch, Dispatching
  <2>c. AllHeeded'
    BY <1>t, <2>1, <2>2 DEF AllHeeded, Heeded, Ack, Announcement, Call, Drops
  <2>d. Rivals'
    BY <1>t, <2>1, <2>2 DEF Rivals, Rival, Won, Asked, Call, Answer, Drops
  <2>e. Acquainted'
    BY <2>1, <2>2 DEF Acquainted, Defers, Follower, Won, Asked, Call, Answer, Registration,
         Drops
  <2>f. Heralds'
    BY <1>t, <2>1, <2>2 DEF Heralds, Hears, Won, Announcement, Call, Answer, Drops
  <2>g. Known'
    BY <2>1, <2>2 DEF Known, Registration, Announcement, Drops
  <2>q. QED
    BY <2>a, <2>b, <2>c, <2>d, <2>e, <2>f, <2>g
<1>4. ASSUME NEW s \in Servers, NEW p \in Servers, heartbeat(p, s) PROVE TimelyInv'
  <2>1. UNCHANGED <<control, role, backup_servers, election_in_progress, election_lost, net,
                    awaited, met>>
    BY <1>4 DEF heartbeat
  <2>a. RolesFit'
    BY <2>1 DEF RolesFit
  <2>b. MetDispatch'
    BY <2>1 DEF MetDispatch, Dispatching
  <2>c. AllHeeded'
    BY <2>1 DEF AllHeeded, Heeded
  <2>d. Rivals'
    BY <2>1 DEF Rivals, Rival, Won, Asked
  <2>e. Acquainted'
    BY <2>1 DEF Acquainted, Defers, Follower, Won, Asked
  <2>f. Heralds'
    BY <2>1 DEF Heralds, Hears, Won
  <2>g. Known'
    BY <2>1 DEF Known
  <2>q. QED
    BY <2>a, <2>b, <2>c, <2>d, <2>e, <2>f, <2>g
<1>5. ASSUME NEW m \in net, NEW s \in Servers, dispatch(s, m) PROVE TimelyInv'
  <2>0. /\ m.to = s /\ m.from \in Servers
        /\ Packet(m.type, m.from, s) \in net
    <3>1. m \in Packets
      BY DEF TypeOK
    <3>2. m.to = s
      BY <1>5 DEF dispatch, initBackup, discard, sendDiscoveryAck, registerBackup,
                  handleNewPrimaryAnnouncementPacket, handleElectionPacket,
                  handleElectionAnswerPacket, Take
    <3>3. QED
      BY <3>1, <3>2, PacketOfParts DEF Packets
  <2>1. CASE initBackup(s, m)
    <3>1. /\ control[s] = "discovering" /\ m.type = "DISCOVERY_ACK" /\ control' = [control EXCEPT ![s] = "watching"]
          /\ role' = [role EXCEPT ![s] = "BACKUP"] /\ met' = met \cup {<<m.from, s>>}
          /\ UNCHANGED <<backup_servers, election_in_progress, election_lost>>
          /\ Take(s, m, Reply(TRUE, "REGISTER_BACKUP", s, m))
      BY <2>1 DEF initBackup, flags
    <3>2. Takes(s, m, TRUE, "REGISTER_BACKUP")
      BY <3>1, TakeEffect
    <3>a. RolesFit'
      BY <3>1, <3>2 DEF RolesFit, Takes
    <3>b. MetDispatch'
      BY <1>t, <3>1 DEF MetDispatch, Dispatching
    <3>c. AllHeeded'
      BY <3>1, <3>2 DEF AllHeeded, Heeded, Ack, Announcement, Call, Takes
    <3>d. Rivals'
      BY <3>1, <3>2 DEF Rivals, Rival, Won, Asked, Call, Answer, Takes
    <3>e. Acquainted'
      <4>1. SUFFICES ASSUME NEW p \in Servers, NEW q \in Servers, <<p, q>> \in met',
                            server_id[p] < server_id[q]
                     PROVE  Defers(p, q)'
        BY DEF Acquainted
      <4>2. CASE p = s
        BY <1>t, <3>1, <4>2 DEF Defers, Won
      <4>3. CASE p # s /\ q = s
        <5>1. p = m.from
          BY <3>1, <4>1, <4>3 DEF MetDispatch, Dispatching
        <5>2. Ack(p, s) \in net
          BY <2>0, <3>1, <5>1 DEF Ack
        <5>3. control[p] \notin {"window", "deciding", "promoted"}
          BY <5>2 DEF AllHeeded, Heeded
        <5>4. Up(p) => Registration(s, p) \in net'
          BY <3>2, <5>1 DEF Takes, Registration
        <5>5. role[p] = "PRIMARY" => Up(p)
          BY DEF RolesFit, Up
        <5>6. QED
          BY <1>t, <3>1, <4>3, <5>3, <5>4, <5>5 DEF Defers, Follower, Won
      <4>4. CASE p # s /\ q # s
        <5>1. Defers(p, q)
          BY <3>1, <4>1, <4>4 DEF Acquainted
        <5>2. \A type \in {"ELECTION", "ELECTION_ANSWER", "REGISTER_BACKUP"} : \A u, v :
                /\ Packet(type, u, v) \in net => Packet(type, u, v) \in net'
                /\ \A t \in Servers : Packet(type, u, v) \in awaited[t] =>
                                        Packet(type, u, v) \in awaited'[t]
          BY <3>1, <3>2 DEF Takes
        <5>3. QED
          BY <3>1, <5>1, <5>2 DEF Defers, Follower, Won, Asked, Call, Answer, Registration
      <4>5. QED
        BY <4>2, <4>3, <4>4
    <3>f. Heralds'
      BY <3>1, <3>2 DEF Heralds, Hears, Won, Announcement, Call, Answer, Takes
    <3>g. Known'
      BY <3>1, <3>2 DEF Known, Registration, Announcement, Takes, Up
    <3>q. QED
      BY <3>a, <3>b, <3>c, <3>d, <3>e, <3>f, <3>g
  <2>2. CASE discard(s, m)
    <3>1. /\ \/ control[s] = "discovering" /\ m.type # "DISCOVERY_ACK"
             \/ Dispatching(s) /\ m.type = "DISCOVERY_ACK"
          /\ UNCHANGED <<control, role, backup_servers, election_in_progress, election_lost, met>>
          /\ Take(s, m, Reply(FALSE, "REGISTER_BACKUP", s, m))
      BY <2>2 DEF discard, flags, Reply
    <3>2. Takes(s, m, FALSE, "REGISTER_BACKUP")
      BY <1>t, <3>1, TakeEffect
    <3>a. RolesFit'
      BY <1>t, <3>1, <3>2, <2>0 DEF RolesFit, Dispatching, Takes
    <3>b. MetDispatch'
      BY <1>t, <3>1, <3>2, <2>0 DEF MetDispatch, Dispatching, Takes
    <3>c. AllHeeded'
      BY <1>t, <3>1, <3>2, <2>0 DEF AllHeeded, Heeded, Ack, Announcement, Call, Takes
    <3>d. Rivals'
      BY <1>t, <3>1, <3>2, <2>0, <1>i DEF Rivals, Rival, Won, Asked, Call, Answer, Takes
    <3>e. Acquainted'
      <4>1. SUFFICES ASSUME NEW p \in Servers, NEW q \in Servers, <<p, q>> \in met,
                            server_id[p] < server_id[q]
                     PROVE  Defers(p, q)'
        BY <3>1 DEF Acquainted
      <4>2. Defers(p, q) /\ Dispatching(q) /\ control[q] # "discovering"
        BY <4>1 DEF Acquainted, MetDispatch, Dispatching
      <4>3. CASE control[p] = "discovering"
        BY <1>t, <3>1, <4>3 DEF Defers, Won, RolesFit
      <4>4. CASE control[p] # "discovering"
        <5>1. \A type \in {"ELECTION", "ELECTION_ANSWER", "REGISTER_BACKUP"} : \A u, v \in {p, q} :
                /\ Packet(type, u, v) \in net => Packet(type, u, v) \in net'
                /\ \A t \in Servers : Packet(type, u, v) \in awaited[t] =>
                                        Packet(type, u, v) \in awaited'[t]
          BY <3>1, <3>2, <4>2, <4>4 DEF Takes
        <5>2. QED
          BY <1>t, <3>1, <4>2, <5>1 DEF Defers, Follower, Won, Asked, Call, Answer, Registration
      <4>5. QED
        BY <4>3, <4>4
    <3>f. Heralds'
      BY <1>t, <3>1, <3>2, <2>0, <1>i DEF Heralds, IdsDiffer, Hears, Won, Announcement, Call, Answer, Takes
    <3>g. Known'
      <4>1. SUFFICES ASSUME IdsDiffer, NEW p \in Servers, NEW b \in Servers, <<p, b>> \in met, p # b,
                            role[p] = "PRIMARY", control[p] = "idle"
                     PROVE  \/ b \in backup_servers[p] \/ Registration(b, p) \in net'
                            \/ Announcement(p, b) \in net'
        BY <3>1 DEF Known
      <4>2. control[p] # "discovering" /\ control[b] # "discovering"
        BY <4>1 DEF MetDispatch, Dispatching
      <4>3. \A type \in {"NEW_PRIMARY_ANNOUNCEMENT", "REGISTER_BACKUP"} : \A u, v \in {p, b} :
              Packet(type, u, v) \in net => Packet(type, u, v) \in net'
        BY <3>1, <3>2, <4>2 DEF Takes
      <4>4. QED
        BY <4>1, <4>3 DEF Known, Announcement, Registration
    <3>q. QED
      BY <3>a, <3>b, <3>c, <3>d, <3>e, <3>f, <3>g
  <2>3. CASE sendDiscoveryAck(s, m)
    <3>1. /\ Dispatching(s) /\ m.type = "SERVER_DISCOVERY"
          /\ UNCHANGED <<control, role, backup_servers, election_in_progress, election_lost, met>>
          /\ Take(s, m, Reply(role[s] = "PRIMARY", "DISCOVERY_ACK", s, m))
      BY <2>3 DEF sendDiscoveryAck, flags
    <3>2. Takes(s, m, role[s] = "PRIMARY", "DISCOVERY_ACK")
      BY <1>t, <3>1, TakeEffect
    <3>a. RolesFit'
      BY <1>t, <3>1, <3>2, <2>0 DEF RolesFit, Dispatching, Takes
    <3>b. MetDispatch'
      BY <1>t, <3>1, <3>2, <2>0 DEF MetDispatch, Dispatching, Takes
    <3>c. AllHeeded'
      BY <1>t, <3>1, <3>2, <2>0 DEF AllHeeded, Heeded, Ack, Announcement, Call, Takes, RolesFit
    <3>d. Rivals'
      BY <1>t, <3>1, <3>2, <2>0, <1>i DEF Rivals, Rival, Won, Asked, Call, Answer, Takes
    <3>e. Acquainted'
      BY <1>t, <3>1, <3>2, <2>0, <1>i DEF Acquainted, Defers, Follower, Won, Asked, Call, Answer, Registration, Takes
    <3>f. Heralds'
      BY <1>t, <3>1, <3>2, <2>0, <1>i DEF Heralds, IdsDiffer, Hears, Won, Announcement, Call, Answer, Takes
    <3>g. Known'
      BY <1>t, <3>1, <3>2, <2>0, <1>i DEF Known, IdsDiffer, Registration, Announcement, Takes
    <3>q. QED
      BY <3>a, <3>b, <3>c, <3>d, <3>e, <3>f, <3>g
  <2>4. CASE registerBackup(s, m)
    <3>1. /\ Dispatching(s) /\ m.type = "REGISTER_BACKUP"
          /\ backup_servers' = IF role[s] = "PRIMARY" THEN [backup_servers EXCEPT ![s] = @ \cup {m.from}]
                               ELSE backup_servers
          /\ UNCHANGED <<control, role, election_in_progress, election_lost, met>>
          /\ Take(s, m, Reply(FALSE, "REGISTER_BACKUP", s, m))
      BY <2>4 DEF registerBackup, flags, Reply
    <3>2. Takes(s, m, FALSE, "REGISTER_BACKUP")
      BY <1>t, <3>1, TakeEffect
    <3>a. RolesFit'
      BY <1>t, <3>1, <3>2, <2>0 DEF RolesFit, Dispatching, Takes
    <3>b. MetDispatch'
      BY <1>t, <3>1, <3>2, <2>0 DEF MetDispatch, Dispatching, Takes
    <3>c. AllHeeded'
      BY <1>t, <3>1, <3>2, <2>0 DEF AllHeeded, Heeded, Ack, Announcement, Call, Takes
    <3>d. Rivals'
      BY <1>t, <3>1, <3>2, <2>0, <1>i DEF Rivals, Rival, Won, Asked, Call, Answer, Takes
    <3>e. Acquainted'
      BY <1>t, <3>1, <3>2, <2>0, <1>i DEF Acquainted, Defers, Follower, Won, Asked, Call, Answer, Registration, Takes
    <3>f. Heralds'
      BY <1>t, <3>1, <3>2, <2>0, <1>i DEF Heralds, IdsDiffer, Hears, Won, Announcement, Call, Answer, Takes
    <3>g. Known'
      BY <1>t, <3>1, <3>2, <2>0, <1>i DEF Known, IdsDiffer, Registration, Announcement, Takes
    <3>q. QED
      BY <3>a, <3>b, <3>c, <3>d, <3>e, <3>f, <3>g
  <2>5. CASE handleNewPrimaryAnnouncementPacket(s, m)
    <3>1. /\ Dispatching(s) /\ m.type = "NEW_PRIMARY_ANNOUNCEMENT"
          /\ election_lost' = [election_lost EXCEPT ![s] = @ \/ election_in_progress[s]]
          /\ role' = [role EXCEPT ![s] = IF server_id[m.from] # server_id[s] THEN "BACKUP" ELSE @]
          /\ backup_servers' = [backup_servers EXCEPT ![s] = IF server_id[m.from] # server_id[s] THEN {} ELSE @]
          /\ UNCHANGED <<control, election_in_progress, met>>
          /\ Take(s, m, Reply(server_id[m.from] # server_id[s], "REGISTER_BACKUP", s, m))
      BY <2>5 DEF handleNewPrimaryAnnouncementPacket
    <3>2. Takes(s, m, server_id[m.from] # server_id[s], "REGISTER_BACKUP")
      BY <1>t, <3>1, TakeEffect
    <3>a. RolesFit'
      BY <1>t, <3>1, <3>2, <2>0 DEF RolesFit, Dispatching, Takes
    <3>b. MetDispatch'
      BY <1>t, <3>1, <3>2, <2>0 DEF MetDispatch, Dispatching, Takes
    <3>c. AllHeeded'
      BY <1>t, <3>1, <3>2, <2>0 DEF AllHeeded, Heeded, Ack, Announcement, Call, Takes, RolesFit
    <3>d. Rivals'
      BY <1>t, <3>1, <3>2, <2>0, <1>i DEF Rivals, Rival, Won, Asked, Call, Answer, Takes
    <3>e. Acquainted'
      BY <1>t, <3>1, <3>2, <2>0, <1>i DEF Acquainted, Defers, Follower, Won, Asked, Call, Answer, Registration, Takes, Up, RolesFit
    <3>f. Heralds'
      BY <1>t, <3>1, <3>2, <2>0, <1>i DEF Heralds, IdsDiffer, Hears, Won, Announcement, Call, Answer, Takes, RolesFit
    <3>g. Known'
      BY <1>t, <3>1, <3>2, <2>0, <1>i DEF Known, IdsDiffer, Registration, Announcement, Takes, Up
    <3>q. QED
      BY <3>a, <3>b, <3>c, <3>d, <3>e, <3>f, <3>g
  <2>6. CASE handleElectionPacket(s, m)
    <3>1. /\ Dispatching(s) /\ m.type = "ELECTION"
          /\ election_lost' = [election_lost EXCEPT ![s] = @ \/ (server_id[m.from] > server_id[s] /\ election_in_progress[s])]
          /\ met' = met \cup {<<m.from, s>>}
          /\ UNCHANGED <<control, role, backup_servers, election_in_progress>>
          /\ Take(s, m, Reply(~(server_id[m.from] > server_id[s]), "ELECTION_ANSWER", s, m))
      BY <2>6 DEF handleElectionPacket
    <3>2. Takes(s, m, ~(server_id[m.from] > server_id[s]), "ELECTION_ANSWER")
      BY <1>t, <3>1, TakeEffect
    <3>a. RolesFit'
      BY <1>t, <3>1, <3>2, <2>0 DEF RolesFit, Dispatching, Takes
    <3>b. MetDispatch'
      BY <1>t, <3>1, <3>2, <2>0 DEF MetDispatch, Dispatching, Takes
    <3>c. AllHeeded'
      BY <1>t, <3>1, <3>2, <2>0 DEF AllHeeded, Heeded, Ack, Announcement, Call, Takes
    <3>d. Rivals'
      <4>1. SUFFICES ASSUME NEW p \in Servers, NEW r \in Servers, server_id[p] < server_id[r]
                     PROVE  Rival(p, r)'
        BY DEF Rivals
      <4>2. p # r /\ Rival(p, r) /\ ~(server_id[p] > server_id[r]) /\ server_id[r] > server_id[p]
        BY <4>1, <1>i DEF Rivals
      <4>3. CASE s = r /\ m.from = p
        <5>1. Up(p) /\ Call(p, r) \in awaited[p] => Answer(r, p) \in awaited'[p]
          BY <3>1, <3>2, <4>2, <4>3 DEF Takes, Call, Answer
        <5>2. /\ Answer(r, p) \in awaited[p] => Answer(r, p) \in awaited'[p]
              /\ Call(r, p) \in awaited[r] => Call(r, p) \in awaited'[r]
          BY <3>1, <3>2, <4>2, <4>3 DEF Takes, Call, Answer
        <5>3. QED
          BY <1>t, <3>1, <4>2, <4>3, <5>1, <5>2 DEF Rival, Won, Asked, Up
      <4>4. CASE s = p /\ m.from = r
        <5>1. control[p] \notin {"deciding", "promoted"}
          BY <3>2, <4>4 DEF Takes
        <5>2. control[p] = "window" => election_lost'[p]
          BY <1>t, <3>1, <4>2, <4>4 DEF RolesFit
        <5>3. QED
          BY <3>1, <5>1, <5>2 DEF Rival, Won
      <4>5. CASE ~(s = r /\ m.from = p) /\ ~(s = p /\ m.from = r)
        <5>1. \A type \in {"ELECTION", "ELECTION_ANSWER"} : \A u, v \in {p, r} :
                u # v => \A t \in Servers : Packet(type, u, v) \in awaited[t] =>
                                              Packet(type, u, v) \in awaited'[t]
          BY <3>1, <3>2, <4>2, <4>5 DEF Takes
        <5>2. QED
          BY <1>t, <3>1, <4>2, <5>1 DEF Rival, Won, Asked, Call, Answer
      <4>6. QED
        BY <4>3, <4>4, <4>5
    <3>e. Acquainted'
      <4>1. SUFFICES ASSUME NEW p \in Servers, NEW q \in Servers, <<p, q>> \in met',
                            server_id[p] < server_id[q]
                     PROVE  Defers(p, q)'
        BY DEF Acquainted
      <4>2. p # q /\ ~(server_id[p] > server_id[q]) /\ server_id[q] > server_id[p]
        BY <4>1, <1>i
      <4>3. CASE s = q /\ m.from = p
        <5>1. Call(p, q) \in net
          BY <2>0, <3>1, <4>3 DEF Call
        <5>2. /\ control[p] \notin {"deciding", "promoted", "idle"}
              /\ control[p] = "window" => Call(p, q) \in awaited[p]
          BY <5>1 DEF AllHeeded
        <5>3. Up(p) /\ Call(p, q) \in awaited[p] => Answer(q, p) \in awaited'[p]
          BY <3>1, <3>2, <4>2, <4>3 DEF Takes, Call, Answer
        <5>4. role[p] # "PRIMARY"
          BY <5>2 DEF RolesFit
        <5>5. QED
          BY <3>1, <5>2, <5>3, <5>4 DEF Defers, Won, Asked, Up
      <4>4. CASE ~(s = q /\ m.from = p)
        <5>1. Defers(p, q)
          BY <3>1, <4>1, <4>4 DEF Acquainted
        <5>2. \A type \in {"ELECTION", "ELECTION_ANSWER", "REGISTER_BACKUP"} :
                /\ Packet(type, p, q) \in awaited[p] => Packet(type, p, q) \in awaited'[p]
                /\ type # "ELECTION" /\ Packet(type, q, p) \in net => Packet(type, q, p) \in net'
                /\ type # "ELECTION" => \A t \in Servers :
                     Packet(type, q, p) \in awaited[t] => Packet(type, q, p) \in awaited'[t]
          BY <3>1, <3>2, <4>4 DEF Takes
        <5>3. election_lost[p] => election_lost'[p]
          BY <1>t, <3>1
        <5>4. control[p] = "deciding" => election_lost'[p] = election_lost[p]
          BY <1>t, <3>1, <3>2 DEF Takes
        <5>5. QED
          BY <1>t, <3>1, <5>1, <5>2, <5>3, <5>4
             DEF Defers, Follower, Won, Asked, Call, Answer, Registration
      <4>5. QED
        BY <4>3, <4>4
    <3>f. Heralds'
      BY <1>t, <3>1, <3>2, <2>0, <1>i DEF Heralds, IdsDiffer, Hears, Won, Announcement, Call, Answer, Takes, RolesFit
    <3>g. Known'
      <4>1. SUFFICES ASSUME IdsDiffer, NEW p \in Servers, NEW b \in Servers, <<p, b>> \in met', p # b,
                            role[p] = "PRIMARY", control[p] = "idle"
                     PROVE  \/ b \in backup_servers[p] \/ Registration(b, p) \in net'
                            \/ Announcement(p, b) \in net'
        BY <3>1 DEF Known
      <4>2. Call(p, b) \notin net
        BY <4>1 DEF AllHeeded
      <4>3. <<p, b>> \in met
        BY <2>0, <3>1, <4>1, <4>2 DEF Call
      <4>4. \A type \in {"NEW_PRIMARY_ANNOUNCEMENT", "REGISTER_BACKUP"} : \A u, v :
              Packet(type, u, v) \in net => Packet(type, u, v) \in net'
        BY <3>1, <3>2 DEF Takes
      <4>5. QED
        BY <4>1, <4>3, <4>4 DEF Known, Announcement, Registration
    <3>q. QED
      BY <3>a, <3>b, <3>c, <3>d, <3>e, <3>f, <3>g
  <2>7. CASE handleElectionAnswerPacket(s, m)
    <3>1. /\ Dispatching(s) /\ m.type = "ELECTION_ANSWER"
          /\ election_lost' = [election_lost EXCEPT ![s] = @ \/ (election_in_progress[s] /\ server_id[m.from] > server_id[s])]
          /\ UNCHANGED <<control, role, backup_servers, election_in_progress, met>>
          /\ Take(s, m, Reply(FALSE, "REGISTER_BACKUP", s, m))
      BY <2>7 DEF handleElectionAnswerPacket, Reply
    <3>2. Takes(s, m, FALSE, "REGISTER_BACKUP")
      BY <1>t, <3>1, TakeEffect
    <3>a. RolesFit'
      BY <1>t, <3>1, <3>2, <2>0 DEF RolesFit, Dispatching, Takes
    <3>b. MetDispatch'
      BY <1>t, <3>1, <3>2, <2>0 DEF MetDispatch, Dispatching, Takes
    <3>c. AllHeeded'
      BY <1>t, <3>1, <3>2, <2>0 DEF AllHeeded, Heeded, Ack, Announcement, Call, Takes
    <3>d. Rivals'
      BY <1>t, <3>1, <3>2, <2>0, <1>i DEF Rivals, Rival, Won, Asked, Call, Answer, Takes, RolesFit
    <3>e. Acquainted'
      BY <1>t, <3>1, <3>2, <2>0, <1>i DEF Acquainted, Defers, Follower, Won, Asked, Call, Answer, Registration, Takes, RolesFit
    <3>f. Heralds'
      BY <1>t, <3>1, <3>2, <2>0, <1>i DEF Heralds, IdsDiffer, Hears, Won, Announcement, Call, Answer, Takes, RolesFit
    <3>g. Known'
      BY <1>t, <3>1, <3>2, <2>0, <1>i DEF Known, IdsDiffer, Registration, Announcement, Takes
    <3>q. QED
      BY <3>a, <3>b, <3>c, <3>d, <3>e, <3>f, <3>g
  <2>8. QED
    BY <1>5, <2>1, <2>2, <2>3, <2>4, <2>5, <2>6, <2>7 DEF dispatch
<1>6. ASSUME NEW m \in net, Lose(m) PROVE FALSE
  BY <1>6 DEF Lose
<1>7. CASE UNCHANGED vars
  <2>1. UNCHANGED <<control, role, backup_servers, election_in_progress, election_lost, net,
                    awaited, met>>
    BY <1>7 DEF vars
  <2>a. RolesFit'
    BY <1>t, <2>1 DEF RolesFit, Dispatching
  <2>b. MetDispatch'
    BY <1>t, <2>1 DEF MetDispatch, Dispatching
  <2>c. AllHeeded'
    BY <1>t, <2>1 DEF AllHeeded, Heeded, Ack, Announcement, Call
  <2>d. Rivals'
    BY <1>t, <2>1 DEF Rivals, Rival, Won, Asked, Call, Answer
  <2>e. Acquainted'
    BY <1>t, <2>1 DEF Acquainted, Defers, Follower, Won, Asked, Call, Answer, Registration
  <2>f. Heralds'
    BY <1>t, <2>1 DEF Heralds, IdsDiffer, Hears, Won, Announcement, Call, Answer
  <2>g. Known'
    BY <1>t, <2>1 DEF Known, IdsDiffer, Registration, Announcement
  <2>q. QED
    BY <2>a, <2>b, <2>c, <2>d, <2>e, <2>f, <2>g
<1>8. \A m \in net : m.to \in Servers
  BY DEF TypeOK, Packets
<1>9. QED
  BY <1>1, <1>2, <1>3, <1>4, <1>5, <1>6, <1>7, <1>8 DEF Next

-----------------------------------------------------------------------------
\* Without a crash, what is under way comes from servers that run.
SendersRun == crashes = 0 => \A m \in net : Up(m.from)

\* A crash is the only way for a sender to end.
LEMMA SendersRunStep == TypeOK /\ SendersRun /\ [Next]_vars => SendersRun'
<1> SUFFICES ASSUME TypeOK, SendersRun, [Next]_vars PROVE SendersRun'
  OBVIOUS
<1>t. /\ control \in [Servers -> {"down", "discovering", "starting", "watching", "waiting",
           "electing", "window", "deciding", "promoted", "idle"}]
      /\ crashes \in Nat
      /\ \A m \in net : m.to \in Servers
  BY ElectionAssumption DEF TypeOK, Packets
<1>1. ASSUME NEW s \in Servers, Crash(s) PROVE SendersRun'
  BY <1>t, <1>1 DEF Crash, SendersRun
<1>2. CASE /\ UNCHANGED crashes
           /\ \A t \in Servers : Up(t) => Up(t)'
           /\ \A m \in net' : m \in net \/ Up(m.from)'
  BY <1>2 DEF TypeOK, Packets, SendersRun
<1>3. ASSUME NEW s \in Servers, NEW from, NEW to, Goto(s, from, to), to # "down"
      PROVE  Up(s)' /\ \A t \in Servers : Up(t) => Up(t)'
  BY <1>t, <1>3 DEF Goto, Up
<1>4. ASSUME NEW s \in Servers, run_discovery_service_server(s) PROVE SendersRun'
  BY <1>2, <1>3, <1>4 DEF run_discovery_service_server, Broadcast, Packet
<1>5. ASSUME NEW s \in Servers, ControlStep(s) PROVE SendersRun'
  <2>1. UNCHANGED crashes /\ Up(s)' /\ \A t \in Servers : Up(t) => Up(t)'
    BY <1>3, <1>5 DEF ControlStep, initPrimary, watch, heard, timeout, startFirstElection,
         startElection, sendElection, endOfWindow, promoteToPrimary, giveUp, announceNewPrimary
  <2>2. \A m \in net' : m \in net \/ m.from = s
    BY <1>5 DEF ControlStep, initPrimary, watch, heard, timeout, startFirstElection,
         startElection, sendElection, endOfWindow, promoteToPrimary, giveUp,
         announceNewPrimary, flags, Broadcast, Packet
  <2>3. QED
    BY <1>2, <2>1, <2>2
<1>6. ASSUME NEW m \in net, NEW s \in Servers, dispatch(s, m) PROVE SendersRun'
  <2>1. UNCHANGED crashes /\ Up(s)' /\ \A t \in Servers : Up(t) => Up(t)'
    BY <1>t, <1>6 DEF dispatch, initBackup, discard, sendDiscoveryAck, registerBackup,
         handleNewPrimaryAnnouncementPacket, handleElectionPacket,
         handleElectionAnswerPacket, Dispatching, Up
  <2>2. \A x \in net' : x \in net \/ x.from = s
    BY <1>6 DEF dispatch, initBackup, discard, sendDiscoveryAck, registerBackup,
         handleNewPrimaryAnnouncementPacket, handleElectionPacket,
         handleElectionAnswerPacket, Take, Reply, Packet
  <2>3. QED
    BY <1>2, <2>1, <2>2
<1>7. CASE UNCHANGED <<control, crashes>> /\ net' \subseteq net
  BY <1>2, <1>7 DEF Up
<1>8. QED
  BY <1>1, <1>4, <1>5, <1>6, <1>7, <1>t DEF Next, heartbeat, Lose, vars

\* The control thread of s is on its way to an election or in one.
Busy(s) == control[s] \notin {"down", "idle"}

\* A primary whom nobody is about to depose that may have done all it has to do.
Unchallenged(s) ==
  /\ role[s] = "PRIMARY" /\ control[s] = "idle"
  /\ \A v \in Servers : Announcement(v, s) \in net => control[v] # "idle"

\* The case that is promised nothing: a process ended, and has not been started again.
Missing == crashes > 0 /\ \E s \in Servers : ~Up(s)

\* Somebody is in charge, or about to decide who is.
Charge ==
  \/ \A s \in Servers : ~Up(s)
  \/ \E s \in Servers : Busy(s) \/ Unchallenged(s)
  \/ Missing

\* Only an announcement takes a primary its role, and its sender is then busy, has ended,
\* or is in charge itself.
LEMMA ChargeStep ==
  ASSUME Timely, IdsDiffer, TypeOK, TimelyInv, SendersRun, Charge, [Next]_vars
  PROVE  Charge'
<1>t. /\ control \in [Servers -> {"down", "discovering", "starting", "watching", "waiting",
           "electing", "window", "deciding", "promoted", "idle"}]
      /\ role \in [Servers -> {"PRIMARY", "BACKUP", "unset"}]
      /\ \A s \in Servers : Dispatching(s) <=> role[s] # "unset"
      /\ crashes \in Nat
      /\ \A m \in net : m.to \in Servers /\ m.from \in Servers
  BY ElectionAssumption DEF TypeOK, Packets
<1>1. ASSUME NEW s \in Servers, run_discovery_service_server(s) PROVE Charge'
  BY <1>t, <1>1 DEF run_discovery_service_server, Goto, Charge, Busy
<1>2. ASSUME NEW s \in Servers, Crash(s) PROVE Charge'
  BY <1>t, <1>2 DEF Crash, Charge, Missing, Up
<1>3. ASSUME NEW s \in Servers, announceNewPrimary(s) PROVE Charge'
  <2>1. /\ control[s] = "promoted" /\ control' = [control EXCEPT ![s] = "idle"]
        /\ UNCHANGED role /\ net' = net \cup Broadcast("NEW_PRIMARY_ANNOUNCEMENT", s)
    BY <1>3 DEF announceNewPrimary, Goto
  <2>2. Sends(s, "NEW_PRIMARY_ANNOUNCEMENT")
    BY <2>1, BroadcastEffect
  <2>3. role[s] = "PRIMARY" /\ Won(s)
    BY <2>1 DEF TimelyInv, RolesFit, Won
  <2>4. \A v \in Servers : Announcement(v, s) \in net' => Announcement(v, s) \in net /\ v # s
    <3>1. \A v \in Servers : Announcement(v, s) \in net' => Announcement(v, s) \in net
      BY <2>2 DEF Sends, Announcement
    <3>2. Announcement(s, s) \notin net
      BY <2>1 DEF TimelyInv, AllHeeded, Heeded
    <3>3. QED
      BY <3>1, <3>2
  <2>5. \A v \in Servers : Announcement(v, s) \in net => control[v] # "idle"
    BY <2>3 DEF TimelyInv, Heralds, Hears
  <2>6. Unchallenged(s)'
    BY <1>t, <2>1, <2>3, <2>4, <2>5 DEF Unchallenged, Announcement, Packet
  <2>7. QED
    BY <2>6 DEF Charge
<1>4. ASSUME NEW m \in net, NEW s \in Servers, handleNewPrimaryAnnouncementPacket(s, m)
      PROVE  Charge'
  <2>1. /\ UNCHANGED <<control, crashes>> /\ Dispatching(s) /\ m.type = "NEW_PRIMARY_ANNOUNCEMENT"
        /\ m.to = s
        /\ \A t \in Servers \ {s} : role'[t] = role[t]
        /\ Take(s, m, Reply(server_id[m.from] # server_id[s], "REGISTER_BACKUP", s, m))
    BY <1>t, <1>4 DEF handleNewPrimaryAnnouncementPacket, Take
  <2>2. Takes(s, m, server_id[m.from] # server_id[s], "REGISTER_BACKUP")
    BY <2>1, TakeEffect
  <2>3. \A v, t : Announcement(v, t) \in net' => Announcement(v, t) \in net
    BY <2>2 DEF Takes, Announcement
  <2>4. CASE \E t \in Servers \ {s} : Unchallenged(t)
    BY <2>1, <2>3, <2>4 DEF Unchallenged, Charge
  <2>5. CASE Unchallenged(s)
    <3>1. Announcement(m.from, s) \in net
      BY <1>t, <2>1, PacketOfParts DEF Announcement, TypeOK
    <3>2. control[m.from] # "idle" /\ m.from \in Servers
      BY <1>t, <2>5, <3>1 DEF Unchallenged
    <3>3. CASE control[m.from] = "down"
      BY <1>t, <2>1, <3>2, <3>3 DEF SendersRun, Charge, Missing, Up
    <3>4. QED
      BY <2>1, <3>2, <3>3 DEF Charge, Busy
  <2>6. QED
    BY <2>1, <2>4, <2>5 DEF Charge, Busy, Missing, Up
<1>5. CASE /\ UNCHANGED crashes
           /\ \A t \in Servers : (Up(t)' <=> Up(t)) /\ (control'[t] = "idle" <=> control[t] = "idle")
           /\ \A t \in Servers : control[t] = "idle" => role'[t] = role[t]
           /\ \A v, t : Announcement(v, t) \in net' => Announcement(v, t) \in net
  BY <1>5 DEF Charge, Busy, Unchallenged, Missing, Up
<1>6. ASSUME NEW s \in Servers, ControlStep(s), ~announceNewPrimary(s) PROVE Charge'
  <2>1. UNCHANGED crashes
    BY <1>6 DEF ControlStep, initPrimary, watch, heard, timeout, startFirstElection,
         startElection, sendElection, endOfWindow, promoteToPrimary, giveUp
  <2>2. role[s] = "PRIMARY" => control[s] \in {"promoted", "idle"}
    BY DEF TimelyInv, RolesFit
  <2>3. \A t \in Servers :
          (Up(t)' <=> Up(t)) /\ (control'[t] = "idle" <=> control[t] = "idle")
    BY <1>t, <1>6, <2>2 DEF ControlStep, initPrimary, watch, heard, timeout,
         startFirstElection, sendElection, endOfWindow, promoteToPrimary, giveUp,
         Goto, Up, Dispatching
  <2>4. \A t \in Servers : control[t] = "idle" => role'[t] = role[t]
    BY <1>t, <1>6 DEF ControlStep, initPrimary, watch, heard, timeout, startFirstElection,
         startElection, sendElection, endOfWindow, promoteToPrimary, giveUp, Goto
  <2>5. \A v, t : Announcement(v, t) \in net' => Announcement(v, t) \in net
    <3>1. CASE sendElection(s)
      BY <3>1, BroadcastEffect DEF sendElection, Sends, Announcement
    <3>2. CASE ~sendElection(s)
      BY <1>6, <3>2 DEF ControlStep, initPrimary, watch, heard, timeout, startFirstElection,
           startElection, endOfWindow, promoteToPrimary, giveUp
    <3>3. QED
      BY <3>1, <3>2
  <2>6. QED
    BY <1>5, <2>1, <2>3, <2>4, <2>5
<1>7. ASSUME NEW m \in net, NEW s \in Servers, dispatch(s, m),
             ~handleNewPrimaryAnnouncementPacket(s, m)
      PROVE  Charge'
  <2>1. /\ UNCHANGED crashes
        /\ \A t \in Servers :
             (Up(t)' <=> Up(t)) /\ (control'[t] = "idle" <=> control[t] = "idle")
        /\ \A t \in Servers : control[t] = "idle" => role'[t] = role[t]
    BY <1>t, <1>7 DEF dispatch, initBackup, discard, sendDiscoveryAck, registerBackup,
         handleElectionPacket, handleElectionAnswerPacket, Up
  <2>2. \A x \in net' : x \in net \/ x.type # "NEW_PRIMARY_ANNOUNCEMENT"
    BY <1>7 DEF dispatch, initBackup, discard, sendDiscoveryAck, registerBackup,
         handleElectionPacket, handleElectionAnswerPacket, Take, Reply, Packet
  <2>3. \A v, t : Announcement(v, t) \in net' => Announcement(v, t) \in net
    BY <2>2, PacketParts DEF Announcement
  <2>4. QED
    BY <1>5, <2>1, <2>3
<1>8. CASE UNCHANGED <<control, role, net, crashes>>
  BY <1>5, <1>8 DEF Up
<1>9. \A m \in net : ~Lose(m)
  BY DEF Lose
<1>10. QED
  BY <1>1, <1>2, <1>3, <1>4, <1>6, <1>7, <1>8, <1>9, <1>t DEF Next, heartbeat, vars

-----------------------------------------------------------------------------
\* The invariant holds of every behaviour on a timely network, whatever crashes.
LEMMA TimelyInvariant == ASSUME Timely PROVE Spec => []TimelyInv
<1>1. Init => TimelyInv
  BY DEF Init, TimelyInv, RolesFit, MetDispatch, AllHeeded, Heeded, Rivals, Rival, Won,
         Acquainted, Heralds, Known
<1>2. TypeOK /\ TimelyInv /\ [Next]_vars => TimelyInv'
  BY TimelyStep
<1>3. QED
  BY <1>1, <1>2, ElectionTypeCorrect, PTL DEF Spec

\* A server that has met one with a higher id is not the primary together with it: no vote
\* is overheard, for any number of servers, in any order of their steps and crashes.
THEOREM OnePrimary == ASSUME Timely PROVE Spec => []OnePrimaryAmongAcquainted
<1>1. TimelyInv => OnePrimaryAmongAcquainted
  BY DEF TimelyInv, Acquainted, Defers, Follower, OnePrimaryAmongAcquainted
<1>2. QED
  BY <1>1, TimelyInvariant, PTL

\* A primary that has announced itself has everybody it has met on its list, or will have,
\* so its heartbeats and updates reach them.  With equal ids this is false: a server does
\* not register with a primary whose id is its own (Server.cpp:717).
THEOREM PrimariesKnowTheirBackups ==
  ASSUME Timely, IdsDiffer PROVE Spec => []BackupsEnlisted
<1>1. TimelyInv => BackupsEnlisted
  BY DEF TimelyInv, Known, BackupsEnlisted
<1>2. QED
  BY <1>1, TimelyInvariant, PTL

\* While no process is missing, somebody is primary or looking for one: elections do not
\* end with everybody a backup.
THEOREM NeverWithoutPrimary ==
  ASSUME Timely, IdsDiffer PROVE Spec => []SomebodyInCharge
<1>1. Init => SendersRun /\ Charge
  BY DEF Init, SendersRun, Charge, Up
<1>2. /\ TypeOK /\ TimelyInv /\ SendersRun /\ Charge /\ [Next]_vars
      => SendersRun' /\ Charge'
  BY ChargeStep, SendersRunStep
<1>3. Charge => SomebodyInCharge
  BY DEF Charge, Busy, Unchallenged, Missing, SomebodyInCharge, Up
<1>4. QED
  BY <1>1, <1>2, <1>3, ElectionTypeCorrect, TimelyInvariant, PTL DEF Spec
=============================================================================
