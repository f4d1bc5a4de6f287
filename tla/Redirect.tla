------------------------------ MODULE Redirect ------------------------------
(***************************************************************************)
(* Which server the clients address while the servers of Election change   *)
(* their roles.                                                            *)
(*                                                                         *)
(* A client asks once for the primary when it starts, and takes the first  *)
(* answer.  From its start on a thread of its own listens to announcements *)
(* and redirects it.  Both write server_address; the discovery does it     *)
(* some time after the answer came, and without the lock.  A client that   *)
(* gets no answer to its requests does not look for another server.        *)
(* No packet is lost here.                                                 *)
(***************************************************************************)
EXTENDS Election

CONSTANT Clients

ASSUME RedirectAssumption == Clients \cap Servers = {}

VARIABLES
  finding,         \* where each client's main thread is: off, searching, found, ready
  found,           \* the servers whose answer the discovery took and has not stored yet
  server_address,  \* per client, {} or its server
  mail,            \* the packets between clients and servers that are under way
  raced,           \* history: clients that took their answer while the role moved
  latest           \* history: {} or the server that was promoted last

electionVars == vars
clientVars == <<finding, found, server_address, mail, latest>>

RedirectInit ==
  /\ Init
  /\ finding = [c \in Clients |-> "off"]
  /\ found = [c \in Clients |-> {}]
  /\ server_address = [c \in Clients |-> {}]
  /\ mail = {}
  /\ raced = {}
  /\ latest = {}

-----------------------------------------------------------------------------
(* The client.                                                             *)

\* The process starts, and with it the listener; the broadcast goes to all servers.
Client(c) ==
  /\ finding[c] = "off"
  /\ finding' = [finding EXCEPT ![c] = "searching"]
  /\ mail' = mail \cup {Packet("DISCOVERY", c, s) : s \in {t \in Servers : Up(t)}}
  /\ UNCHANGED <<electionVars, found, server_address, latest>>

\* The first answer.  The socket is closed: others go astray.
run_discovery_service_client(c, m) ==
  /\ finding[c] = "searching"
  /\ m.type = "DISCOVERY_ACK" /\ m.to = c
  /\ found' = [found EXCEPT ![c] = {m.from}]
  /\ finding' = [finding EXCEPT ![c] = "found"]
  /\ mail' = {n \in mail : n.type # "DISCOVERY_ACK" \/ n.to # c}
  /\ UNCHANGED <<electionVars, server_address, latest>>

\* Mutant: the answer is not stored.
discoverServerUnstored(c) ==
  /\ finding[c] = "found"
  /\ found' = [found EXCEPT ![c] = {}]
  /\ finding' = [finding EXCEPT ![c] = "ready"]
  /\ UNCHANGED <<electionVars, server_address, mail, latest>>

discoverServer(c) ==
  /\ finding[c] = "found"
  /\ server_address' = [server_address EXCEPT ![c] = found[c]]
  /\ found' = [found EXCEPT ![c] = {}]
  /\ finding' = [finding EXCEPT ![c] = "ready"]
  /\ UNCHANGED <<electionVars, mail, latest>>

\* Mutant: the listener keeps the server it has.
listenForFirstAnnouncement(c, m) ==
  /\ m.type = "NEW_PRIMARY_ANNOUNCEMENT" /\ m.to = c
  /\ server_address' = [server_address EXCEPT ![c] = IF @ = {} THEN {m.from} ELSE @]
  /\ mail' = mail \ {m}
  /\ UNCHANGED <<electionVars, finding, found, latest>>

listenForAnnouncements(c, m) ==
  /\ m.type = "NEW_PRIMARY_ANNOUNCEMENT" /\ m.to = c
  /\ server_address' = [server_address EXCEPT ![c] = {m.from}]
  /\ mail' = mail \ {m}
  /\ UNCHANGED <<electionVars, finding, found, latest>>

clientStep(c) ==
  \/ \E m \in mail : run_discovery_service_client(c, m) \/ listenForAnnouncements(c, m)
  \/ discoverServer(c)

-----------------------------------------------------------------------------
(* The servers.                                                            *)

\* A server that looks for a primary throws the packet away, and so does a backup.  The
\* answer goes to the socket of the discovery.
handleDiscoveryPacket(m) ==
  /\ m.type = "DISCOVERY"
  /\ mail' = (mail \ {m}) \cup
       (IF role[m.to] = "PRIMARY" /\ finding[m.from] = "searching"
        THEN {Packet("DISCOVERY_ACK", m.to, m.from)} ELSE {})
  /\ UNCHANGED <<electionVars, finding, found, server_address, latest>>

\* The announcement of Election is a broadcast, which clients receive as well.
announce(s) ==
  /\ announceNewPrimary(s)
  /\ mail' = mail \cup {Packet("NEW_PRIMARY_ANNOUNCEMENT", s, c) :
                          c \in {d \in Clients : finding[d] # "off"}}
  /\ UNCHANGED <<finding, found, server_address, latest>>

end(s) ==
  /\ Crash(s)
  /\ mail' = {m \in mail : m.to # s}
  /\ UNCHANGED <<finding, found, server_address, latest>>

\* On a timely network what clients are sent arrives before any wait of a server ends.
serverStep(s) ==
  \/ announce(s)
  \/ /\ initPrimary(s) \/ timeout(s) \/ endOfWindow(s)
     /\ Timely => mail = {}
     /\ UNCHANGED clientVars
  \/ /\ promoteToPrimary(s)
     /\ latest' = IF role[s] = "BACKUP" THEN {s} ELSE latest
     /\ UNCHANGED <<finding, found, server_address, mail>>
  \/ /\ \/ watch(s) \/ heard(s) \/ startFirstElection(s) \/ sendElection(s) \/ giveUp(s)
     /\ UNCHANGED clientVars

dispatchMail(s) == \E m \in mail : m.to = s /\ handleDiscoveryPacket(m)

\* The role moves while there are two primaries, or one that has not announced itself.
RoleMoves ==
  \E p, q \in Servers :
    role[p] = "PRIMARY" /\ role[q] = "PRIMARY" /\ (p # q \/ control[p] = "promoted")

\* An announcement that comes later makes up for it.
Racing ==
  raced' = {c \in Clients :
              \/ RoleMoves' /\ finding'[c] \in {"searching", "found"}
              \/ c \in raced /\ ~\E m \in mail \ mail' :
                   m.type = "NEW_PRIMARY_ANNOUNCEMENT" /\ m.to = c /\ finding[c] = "ready"}

RedirectNext ==
  /\ \/ \E c \in Clients : Client(c) \/ clientStep(c)
     \/ \E s \in Servers :
          \/ serverStep(s) \/ dispatchMail(s) \/ end(s)
          \/ run_discovery_service_server(s) /\ UNCHANGED clientVars
          \/ \E p \in Servers : heartbeat(p, s) /\ UNCHANGED clientVars
     \/ \E m \in net : dispatch(m.to, m) /\ UNCHANGED clientVars
  /\ Racing

steps == <<vars, clientVars>>

redirectVars == <<steps, raced>>

RedirectSpec == RedirectInit /\ [][RedirectNext]_redirectVars

\* The threads of servers and clients run and take what has arrived.
RedirectFairness ==
  /\ \A s \in Servers : WF_steps(serverStep(s)) /\ WF_steps(dispatchMail(s))
  /\ \A m \in Packets : WF_steps(dispatch(m.to, m) /\ UNCHANGED clientVars)
  /\ \A c \in Clients : WF_steps(clientStep(c))

RedirectFairSpec == RedirectSpec /\ RedirectFairness

-----------------------------------------------------------------------------
Mail ==
  [type : {"DISCOVERY"}, from : Clients, to : Servers] \cup
  [type : {"DISCOVERY_ACK", "NEW_PRIMARY_ANNOUNCEMENT"}, from : Servers, to : Clients]

\* Also: a client that requests has a server, and only a discovery that took an answer
\* has one in its hands.
RedirectTypeOK ==
  /\ finding \in [Clients -> {"off", "searching", "found", "ready"}]
  /\ found \in [Clients -> SUBSET Servers]
  /\ \A c \in Clients : found[c] # {} <=> finding[c] = "found"
  /\ server_address \in [Clients -> {{}} \cup {{s} : s \in Servers}]
  /\ \A c \in Clients : finding[c] = "ready" => server_address[c] # {}
  /\ mail \subseteq Mail
  /\ raced \subseteq Clients
  /\ latest \in {{}} \cup {{s} : s \in Servers}

\* On a timely network a client that has heard all there was to hear addresses the server
\* that was promoted last, once that has announced itself, although the client never asks
\* a second time: wherever the role went, the announcement followed.  Unless one came
\* while the client still took its first answer, which may then have overwritten it.
ClientsFollowThePrimary ==
  \A c \in Clients, p \in latest :
    /\ finding[c] = "ready" /\ c \notin raced /\ mail = {}
    /\ role[p] = "PRIMARY" /\ control[p] = "idle"
    => server_address[c] = {p}
=============================================================================
