--------------------------- MODULE RedirectProofs ---------------------------
(***************************************************************************)
(* The redirection of the clients for any servers and clients: the servers *)
(* of Redirect take the steps of Election, so what is proved of those      *)
(* holds here, and on a timely network clients follow the primary.         *)
(***************************************************************************)
EXTENDS Redirect, ElectionProofs

\* What clients do leaves the servers as they are, and a server that looks after the
\* clients as well does what Election says.
LEMMA ElectionSteps == RedirectNext => [Next]_vars
<1> SUFFICES ASSUME RedirectNext PROVE [Next]_vars
  OBVIOUS
<1>1. ASSUME NEW c \in Clients, Client(c) \/ clientStep(c) PROVE UNCHANGED vars
  BY <1>1 DEF Client, clientStep, run_discovery_service_client, listenForAnnouncements,
              discoverServer, electionVars
<1>2. ASSUME NEW s \in Servers, serverStep(s) PROVE ControlStep(s)
  BY <1>2 DEF serverStep, announce, ControlStep
<1>3. ASSUME NEW s \in Servers, dispatchMail(s) PROVE UNCHANGED vars
  BY <1>3 DEF dispatchMail, handleDiscoveryPacket, electionVars
<1>4. QED
  BY <1>1, <1>2, <1>3 DEF RedirectNext, Next, end

\* The servers behave as in Election whatever the clients do.
THEOREM RedirectImplementsElection == RedirectSpec => Spec
<1>1. RedirectInit => Init
  BY DEF RedirectInit
<1>2. [RedirectNext]_redirectVars => [Next]_vars
  BY ElectionSteps DEF redirectVars, steps
<1>3. QED
  BY <1>1, <1>2, PTL DEF RedirectSpec, Spec

-----------------------------------------------------------------------------
\* The discovery has at most one answer in its hands.
OneAnswer == found \in [Clients -> {{}} \cup {{s} : s \in Servers}]

LEMMA RedirectTypeStep ==
  TypeOK /\ RedirectTypeOK /\ OneAnswer /\ [RedirectNext]_redirectVars
    => RedirectTypeOK' /\ OneAnswer'
<1> SUFFICES ASSUME TypeOK, RedirectTypeOK, OneAnswer, [RedirectNext]_redirectVars
             PROVE  RedirectTypeOK' /\ OneAnswer'
  OBVIOUS
<1> DEFINE ClientsOK == /\ finding \in [Clients -> {"off", "searching", "found", "ready"}]
                        /\ OneAnswer
                        /\ \A c \in Clients : found[c] # {} <=> finding[c] = "found"
                        /\ server_address \in [Clients -> {{}} \cup {{s} : s \in Servers}]
                        /\ \A c \in Clients : finding[c] = "ready" => server_address[c] # {}
           MailOK == mail \subseteq Mail
           LatestOK == latest \in {{}} \cup {{s} : s \in Servers}
<1>0. ClientsOK /\ MailOK /\ LatestOK
  BY DEF RedirectTypeOK
<1>a. ClientsOK' /\ MailOK' /\ LatestOK' /\ raced' \subseteq Clients
        => RedirectTypeOK' /\ OneAnswer'
  BY DEF RedirectTypeOK, OneAnswer
<1>b. UNCHANGED <<finding, found, server_address>> => ClientsOK'
  BY <1>0 DEF OneAnswer
<1> USE DEF OneAnswer
<1>1. CASE RedirectNext
  <2>0. raced' \subseteq Clients
    BY <1>1 DEF RedirectNext, Racing
  <2>1. ASSUME NEW c \in Clients, Client(c) PROVE ClientsOK' /\ MailOK' /\ LatestOK'
    <3>1. MailOK'
      BY <1>0, <2>1 DEF Client, Packet, Mail
    <3>2. ClientsOK' /\ LatestOK'
      BY <1>0, <2>1 DEF Client
    <3>3. QED
      BY <3>1, <3>2
  <2>2. ASSUME NEW c \in Clients, NEW m \in mail, run_discovery_service_client(c, m)
        PROVE  ClientsOK' /\ MailOK' /\ LatestOK'
    <3>1. m.from \in Servers
      BY <1>0, <2>2 DEF run_discovery_service_client, Mail
    <3>2. ClientsOK'
      BY <1>0, <2>2, <3>1 DEF run_discovery_service_client
    <3>3. MailOK' /\ LatestOK'
      BY <1>0, <2>2 DEF run_discovery_service_client
    <3>4. QED
      BY <3>2, <3>3
  <2>3. ASSUME NEW c \in Clients, NEW m \in mail, listenForAnnouncements(c, m)
        PROVE  ClientsOK' /\ MailOK' /\ LatestOK'
    <3>1. m.from \in Servers
      BY <1>0, <2>3 DEF listenForAnnouncements, Mail
    <3>2. ClientsOK'
      BY <1>0, <2>3, <3>1 DEF listenForAnnouncements
    <3>3. MailOK' /\ LatestOK'
      BY <1>0, <2>3 DEF listenForAnnouncements
    <3>4. QED
      BY <3>2, <3>3
  <2>4. ASSUME NEW c \in Clients, discoverServer(c) PROVE ClientsOK' /\ MailOK' /\ LatestOK'
    BY <1>0, <2>4 DEF discoverServer
  <2>5. ASSUME NEW s \in Servers, serverStep(s) PROVE ClientsOK' /\ MailOK' /\ LatestOK'
    <3>1. ClientsOK' /\ LatestOK'
      BY <1>0, <1>b, <2>5 DEF serverStep, announce, clientVars
    <3>2. MailOK'
      BY <1>0, <2>5 DEF serverStep, announce, clientVars, Packet, Mail
    <3>3. QED
      BY <3>1, <3>2
  <2>6. ASSUME NEW s \in Servers, dispatchMail(s) PROVE ClientsOK' /\ MailOK' /\ LatestOK'
    <3>1. PICK m \in mail : handleDiscoveryPacket(m)
      BY <2>6 DEF dispatchMail
    <3>2. m.to \in Servers /\ m.from \in Clients
      BY <1>0, <3>1 DEF handleDiscoveryPacket, Mail
    <3>3. MailOK'
      BY <1>0, <3>1, <3>2 DEF handleDiscoveryPacket, Packet, Mail
    <3>4. ClientsOK' /\ LatestOK'
      BY <1>0, <1>b, <3>1 DEF handleDiscoveryPacket
    <3>5. QED
      BY <3>3, <3>4
  <2>7. ASSUME NEW s \in Servers, end(s) PROVE ClientsOK' /\ MailOK' /\ LatestOK'
    BY <1>0, <1>b, <2>7 DEF end
  <2>8. CASE UNCHANGED clientVars
    <3>1. UNCHANGED <<finding, found, server_address>>
      BY <2>8 DEF clientVars
    <3>2. ClientsOK'
      BY <1>b, <3>1
    <3>3. UNCHANGED mail /\ UNCHANGED latest
      BY <2>8 DEF clientVars
    <3>4. MailOK' /\ LatestOK'
      BY <1>0, <3>3
    <3>5. QED
      BY <1>a, <2>0, <3>2, <3>4
  <2>9. QED
    BY <1>1, <1>a, <2>0, <2>1, <2>2, <2>3, <2>4, <2>5, <2>6, <2>7, <2>8
       DEF RedirectNext, clientStep
<1>2. CASE UNCHANGED redirectVars
  BY <1>2 DEF redirectVars, steps, clientVars, RedirectTypeOK, OneAnswer
<1>3. QED
  BY <1>1, <1>2

\* The clients' side is of its type, a client that requests has a server, and only a
\* discovery that took an answer has one in its hands, for any servers and clients.
THEOREM RedirectTypeCorrect == RedirectSpec => []RedirectTypeOK
<1>1. RedirectInit => RedirectTypeOK /\ OneAnswer
  BY DEF RedirectInit, RedirectTypeOK, OneAnswer
<1>2. QED
  BY <1>1, RedirectTypeStep, RedirectImplementsElection, ElectionTypeCorrect, PTL
     DEF RedirectSpec

-----------------------------------------------------------------------------
News(q, c) == Packet("NEW_PRIMARY_ANNOUNCEMENT", q, c)
Offer(q, c) == Packet("DISCOVERY_ACK", q, c)

\* The server that was promoted last, as long as it is not deposed and does not end.
Reigns(p) == p \in latest /\ role[p] = "PRIMARY"

LatestIsPromoted == \A p \in Servers : control[p] = "promoted" => latest = {p}

RacesAreNoticed ==
  \A c \in Clients : RoleMoves /\ finding[c] \in {"searching", "found"} => c \in raced

AnswersAreAwaited ==
  \A q \in Servers, c \in Clients : Offer(q, c) \in mail => finding[c] = "searching"

\* Before a server is promoted the clients have received what others announced.
NewsIsTrue ==
  \A q \in Servers, c \in Clients : News(q, c) \in mail =>
    \A p \in Servers : ~Won(p) /\ (Reigns(p) => q = p)

Informed(c, p) ==
  /\ finding[c] = "ready" => server_address[c] = {p} \/ News(p, c) \in mail
  /\ finding[c] = "found" => found[c] = {p}
  /\ finding[c] = "searching" => \A q \in Servers : Offer(q, c) \in mail => q = p

ReignIsKnown ==
  \A p \in Servers, c \in Clients \ raced :
    Reigns(p) /\ control[p] = "idle" => Informed(c, p)

FollowInv ==
  /\ LatestIsPromoted /\ RacesAreNoticed /\ AnswersAreAwaited /\ NewsIsTrue /\ ReignIsKnown

LEMMA OneWinner ==
  ASSUME IdsDiffer, TimelyInv, NEW p \in Servers, NEW q \in Servers, Won(p), Won(q)
  PROVE  p = q
BY ElectionAssumption DEF IdsDiffer, TimelyInv, Rivals, Rival

LEMMA FollowStep ==
  ASSUME Timely, IdsDiffer, TypeOK, TimelyInv, RedirectTypeOK, FollowInv, RedirectNext
  PROVE  FollowInv'
<1> USE DEF FollowInv
<1>t. /\ control \in [Servers -> {"down", "discovering", "starting", "watching", "waiting",
           "electing", "window", "deciding", "promoted", "idle"}]
      /\ role \in [Servers -> {"PRIMARY", "BACKUP", "unset"}]
      /\ \A s \in Servers : Dispatching(s) <=> role[s] # "unset"
      /\ election_lost \in [Servers -> BOOLEAN]
  BY DEF TypeOK
<1>r. \A s \in Servers : /\ role[s] = "PRIMARY" => control[s] \in {"promoted", "idle"}
                         /\ control[s] = "promoted" => role[s] = "PRIMARY"
  BY DEF TimelyInv, RolesFit
<1>c. /\ finding \in [Clients -> {"off", "searching", "found", "ready"}]
      /\ found \in [Clients -> SUBSET Servers]
      /\ server_address \in [Clients -> {{}} \cup {{s} : s \in Servers}]
      /\ \A m \in mail : m \in Mail
  BY DEF RedirectTypeOK
<1>m. \A m \in mail : m = Packet(m.type, m.from, m.to)
  BY <1>c DEF Mail, Packet
<1>n. RacesAreNoticed'
  BY DEF RacesAreNoticed, RedirectNext, Racing
<1>k. \A c \in Clients : c \notin raced' =>
        c \notin raced \/ \E m \in mail \ mail' : /\ m.type = "NEW_PRIMARY_ANNOUNCEMENT"
                                                  /\ m.to = c /\ finding[c] = "ready"
  BY DEF RedirectNext, Racing
<1>o. \A c \in Clients : c \notin raced' =>
        ~(RoleMoves' /\ finding'[c] \in {"searching", "found"})
  BY DEF RedirectNext, Racing
<1>1. ASSUME NEW d \in Clients, Client(d) PROVE FollowInv'
  <2>1. /\ UNCHANGED <<control, role, election_lost, found, server_address, latest>>
        /\ finding[d] = "off" /\ finding' = [finding EXCEPT ![d] = "searching"]
        /\ mail \subseteq mail'
        /\ \A type, q, c : type # "DISCOVERY" =>
             (Packet(type, q, c) \in mail' <=> Packet(type, q, c) \in mail)
    BY <1>1, PacketParts DEF Client, electionVars, vars
  <2>2. LatestIsPromoted' /\ NewsIsTrue'
    BY <2>1 DEF LatestIsPromoted, NewsIsTrue, News, Reigns, Won
  <2>3. AnswersAreAwaited'
    BY <1>c, <2>1 DEF AnswersAreAwaited, Offer
  <2>4. \A q \in Servers : Offer(q, d) \notin mail'
    BY <2>1 DEF AnswersAreAwaited, Offer
  <2>5. ReignIsKnown'
    BY <1>c, <1>k, <2>1, <2>4 DEF ReignIsKnown, Informed, Reigns, News, Offer
  <2>6. QED
    BY <1>n, <2>2, <2>3, <2>5
<1>2. ASSUME NEW d \in Clients, NEW m \in mail, run_discovery_service_client(d, m)
      PROVE  FollowInv'
  <2>1. /\ UNCHANGED <<control, role, election_lost, server_address, latest>>
        /\ finding[d] = "searching" /\ finding' = [finding EXCEPT ![d] = "found"]
        /\ found' = [found EXCEPT ![d] = {m.from}]
        /\ m = Offer(m.from, d) /\ m.from \in Servers
        /\ \A n \in mail \ mail' : n.type = "DISCOVERY_ACK"
        /\ \A type, q, c : Packet(type, q, c) \in mail' <=>
             Packet(type, q, c) \in mail /\ (type # "DISCOVERY_ACK" \/ c # d)
    BY <1>2, <1>c, <1>m, PacketParts
       DEF run_discovery_service_client, electionVars, vars, Mail, Offer
  <2>2. LatestIsPromoted' /\ NewsIsTrue'
    BY <2>1 DEF LatestIsPromoted, NewsIsTrue, News, Reigns, Won
  <2>3. AnswersAreAwaited'
    BY <1>c, <2>1 DEF AnswersAreAwaited, Offer
  <2>4. ReignIsKnown'
    BY <1>c, <1>k, <2>1 DEF ReignIsKnown, Informed, Reigns, News, Offer
  <2>5. QED
    BY <1>n, <2>2, <2>3, <2>4
<1>3. ASSUME NEW d \in Clients, NEW m \in mail, listenForAnnouncements(d, m)
      PROVE  FollowInv'
  <2>1. /\ UNCHANGED <<control, role, election_lost, finding, found, latest>>
        /\ server_address' = [server_address EXCEPT ![d] = {m.from}]
        /\ m = News(m.from, d) /\ m.from \in Servers /\ m.to = d
        /\ mail' = mail \ {m}
        /\ \A type, q, c : Packet(type, q, c) \in mail' <=>
             Packet(type, q, c) \in mail /\ <<type, q, c>> # <<m.type, m.from, d>>
    BY <1>3, <1>c, <1>m, PacketsEqual
       DEF listenForAnnouncements, electionVars, vars, Mail, News
  <2>2. LatestIsPromoted' /\ NewsIsTrue'
    BY <2>1 DEF LatestIsPromoted, NewsIsTrue, News, Reigns, Won
  <2>3. AnswersAreAwaited'
    BY <2>1 DEF AnswersAreAwaited, Offer
  <2>4. \A p \in Servers : Reigns(p) => m.from = p
    BY <2>1 DEF NewsIsTrue
  <2>5. \A c \in Clients \ {d} : c \notin raced' => c \notin raced
    BY <1>k, <2>1
  <2>6. finding[d] # "ready" /\ d \notin raced' => d \notin raced
    BY <1>k
  <2>7. m.type = "NEW_PRIMARY_ANNOUNCEMENT"
    BY <1>3 DEF listenForAnnouncements
  <2>8. ReignIsKnown'
    BY <1>c, <2>1, <2>4, <2>5, <2>6, <2>7 DEF ReignIsKnown, Informed, Reigns, News, Offer
  <2>9. QED
    BY <1>n, <2>2, <2>3, <2>8
<1>4. ASSUME NEW d \in Clients, discoverServer(d) PROVE FollowInv'
  <2>1. /\ UNCHANGED <<control, role, election_lost, mail, latest>>
        /\ finding[d] = "found" /\ finding' = [finding EXCEPT ![d] = "ready"]
        /\ found' = [found EXCEPT ![d] = {}]
        /\ server_address' = [server_address EXCEPT ![d] = found[d]]
    BY <1>4 DEF discoverServer, electionVars, vars
  <2>2. LatestIsPromoted' /\ NewsIsTrue'
    BY <2>1 DEF LatestIsPromoted, NewsIsTrue, News, Reigns, Won
  <2>3. AnswersAreAwaited'
    BY <1>c, <2>1 DEF AnswersAreAwaited, Offer
  <2>4. ReignIsKnown'
    BY <1>c, <1>k, <2>1 DEF ReignIsKnown, Informed, Reigns, News, Offer
  <2>5. QED
    BY <1>n, <2>2, <2>3, <2>4
<1>5. ASSUME NEW s \in Servers, dispatchMail(s) PROVE FollowInv'
  <2>1. PICK m \in mail : m.to = s /\ handleDiscoveryPacket(m)
    BY <1>5 DEF dispatchMail
  <2>2. /\ UNCHANGED <<control, role, election_lost, finding, found, server_address, latest>>
        /\ m.type = "DISCOVERY" /\ m.from \in Clients
        /\ \A n \in mail \ mail' : n.type = "DISCOVERY"
        /\ \A type, q, c : type # "DISCOVERY" => 
             (Packet(type, q, c) \in mail' <=>
                \/ Packet(type, q, c) \in mail
                \/ /\ role[s] = "PRIMARY" /\ finding[m.from] = "searching"
                   /\ <<type, q, c>> = <<"DISCOVERY_ACK", s, m.from>>)
    <3>1. /\ UNCHANGED <<control, role, election_lost, finding, found, server_address, latest>>
          /\ m.type = "DISCOVERY"
          /\ mail' = (mail \ {m}) \cup
               (IF role[s] = "PRIMARY" /\ finding[m.from] = "searching"
                THEN {Packet("DISCOVERY_ACK", s, m.from)} ELSE {})
      BY <2>1 DEF handleDiscoveryPacket, electionVars, vars
    <3>2. m.from \in Clients
      BY <1>c, <3>1 DEF Mail
    <3>3. \A type, q, c : type # "DISCOVERY" => Packet(type, q, c) # m
      BY <3>1, PacketParts
    <3>4. QED
      BY <3>1, <3>2, <3>3, PacketsEqual
  <2>3. LatestIsPromoted' /\ NewsIsTrue'
    BY <2>2 DEF LatestIsPromoted, NewsIsTrue, News, Reigns, Won
  <2>4. AnswersAreAwaited'
    BY <2>2 DEF AnswersAreAwaited, Offer
  <2>5. \A c \in Clients : c \notin raced' => c \notin raced
    BY <1>k, <2>2
  <2>6. \A p \in Servers : finding[m.from] = "searching" /\ m.from \notin raced'
                             /\ role[s] = "PRIMARY" /\ role[p] = "PRIMARY" => s = p
    BY <1>o, <2>2 DEF RoleMoves
  <2>7. ReignIsKnown'
    BY <2>2, <2>5, <2>6 DEF ReignIsKnown, Informed, Reigns, News, Offer
  <2>8. QED
    BY <1>n, <2>3, <2>4, <2>7
<1>6. ASSUME NEW s \in Servers, announce(s) PROVE FollowInv'
  <2>1. /\ control[s] = "promoted" /\ control' = [control EXCEPT ![s] = "idle"]
        /\ UNCHANGED <<role, election_lost, finding, found, server_address, latest>>
        /\ mail \subseteq mail'
        /\ \A type, q, c : Packet(type, q, c) \in mail' <=>
             \/ Packet(type, q, c) \in mail
             \/ /\ type = "NEW_PRIMARY_ANNOUNCEMENT" /\ q = s
                /\ c \in Clients /\ finding[c] # "off"
    BY <1>6, PacketsEqual DEF announce, announceNewPrimary, Goto, flags
  <2>2. Won(s) /\ role[s] = "PRIMARY" /\ latest = {s}
    BY <1>r, <2>1 DEF Won, LatestIsPromoted
  <2>3. \A p \in Servers : Won(p) => p = s
    BY <2>2, OneWinner
  <2>4. LatestIsPromoted'
    BY <1>t, <2>1 DEF LatestIsPromoted
  <2>5. NewsIsTrue'
    BY <1>t, <2>1, <2>2, <2>3 DEF NewsIsTrue, News, Reigns, Won
  <2>6. AnswersAreAwaited'
    BY <2>1 DEF AnswersAreAwaited, Offer
  <2>7. \A c \in Clients : c \notin raced' => finding[c] \in {"off", "ready"}
    BY <1>c, <1>k, <2>1, <2>2 DEF RacesAreNoticed, RoleMoves
  <2>8. ReignIsKnown'
    BY <2>1, <2>2, <2>7 DEF ReignIsKnown, Informed, Reigns, News
  <2>9. QED
    BY <1>n, <2>4, <2>5, <2>6, <2>8
<1>7. ASSUME NEW s \in Servers, end(s) PROVE FollowInv'
  <2>1. /\ control' = [control EXCEPT ![s] = "down"] /\ role' = [role EXCEPT ![s] = "unset"]
        /\ election_lost' = [election_lost EXCEPT ![s] = FALSE]
        /\ UNCHANGED <<finding, found, server_address, latest>>
        /\ \A n \in mail \ mail' : n.to = s
        /\ \A type, q, c : Packet(type, q, c) \in mail' <=> Packet(type, q, c) \in mail /\ c # s
    BY <1>7, PacketParts DEF end, Crash
  <2>2. s \notin Clients
    BY RedirectAssumption
  <2>3. LatestIsPromoted' /\ AnswersAreAwaited'
    BY <1>t, <2>1 DEF LatestIsPromoted, AnswersAreAwaited, Offer
  <2>4. NewsIsTrue'
    BY <1>t, <2>1 DEF NewsIsTrue, News, Reigns, Won
  <2>5. \A c \in Clients : c \notin raced' => c \notin raced
    BY <1>k, <2>1, <2>2
  <2>6. ReignIsKnown'
    BY <1>t, <2>1, <2>2, <2>5 DEF ReignIsKnown, Informed, Reigns, News, Offer
  <2>7. QED
    BY <1>n, <2>3, <2>4, <2>6
<1>8. ASSUME NEW s \in Servers, endOfWindow(s), mail = {}, UNCHANGED clientVars
      PROVE  FollowInv'
  <2>1. /\ control[s] = "window" /\ control' = [control EXCEPT ![s] = "deciding"]
        /\ UNCHANGED <<role, election_lost, finding, found, server_address, mail, latest>>
    BY <1>8 DEF endOfWindow, Goto, clientVars
  <2>2. \A c \in Clients : c \notin raced' => c \notin raced
    BY <1>8, <1>k
  <2>3. QED
    BY <1>n, <1>t, <1>8, <2>1, <2>2
       DEF LatestIsPromoted, AnswersAreAwaited, NewsIsTrue, ReignIsKnown, Informed, Reigns
<1>9. ASSUME NEW s \in Servers, promoteToPrimary(s),
             latest' = IF role[s] = "BACKUP" THEN {s} ELSE latest,
             UNCHANGED <<finding, found, server_address, mail>>
      PROVE  FollowInv'
  <2>1. role[s] = "BACKUP" /\ Won(s)
    BY <1>t, <1>r, <1>9 DEF promoteToPrimary, Goto, Dispatching, Won
  <2>2. /\ control' = [control EXCEPT ![s] = "promoted"]
        /\ role' = [role EXCEPT ![s] = "PRIMARY"]
        /\ latest' = {s}
    BY <1>9, <2>1 DEF promoteToPrimary, Goto
  <2>3. LatestIsPromoted'
    BY <1>t, <2>1, <2>2, OneWinner DEF LatestIsPromoted, Won
  <2>4. \A q \in Servers, c \in Clients : News(q, c) \notin mail'
    BY <1>9, <2>1 DEF NewsIsTrue
  <2>5. NewsIsTrue' /\ AnswersAreAwaited'
    BY <1>9, <2>4 DEF NewsIsTrue, AnswersAreAwaited, News, Packet, Offer
  <2>6. ReignIsKnown'
    BY <1>t, <2>2 DEF ReignIsKnown, Reigns
  <2>7. QED
    BY <1>n, <2>3, <2>5, <2>6
<1>10. CASE /\ UNCHANGED clientVars
            /\ \A p \in Servers : Won(p)' => Won(p)
            /\ \A p \in Servers : /\ control'[p] = "promoted" => control[p] = "promoted"
                                  /\ role'[p] = "PRIMARY" =>
                                       role[p] = "PRIMARY" /\ control'[p] = control[p]
  <2>1. \A c \in Clients : c \notin raced' => c \notin raced
    BY <1>10, <1>k DEF clientVars
  <2>2. \A p \in Servers : Reigns(p)' => Reigns(p)
    BY <1>10 DEF Reigns, clientVars
  <2>3. QED
    BY <1>n, <1>10, <2>1, <2>2 DEF clientVars, LatestIsPromoted, AnswersAreAwaited,
       NewsIsTrue, ReignIsKnown, Informed, News, Offer, Packet, Reigns
<1>11. ASSUME NEW s \in Servers, UNCHANGED clientVars,
              \/ initPrimary(s) \/ timeout(s) \/ watch(s) \/ heard(s)
              \/ startFirstElection(s) \/ sendElection(s) \/ giveUp(s)
       PROVE  FollowInv'
  <2>1. /\ control[s] \notin {"promoted", "idle"}
        /\ control'[s] \notin {"promoted", "deciding"}
        /\ \A t \in Servers \ {s} : control'[t] = control[t] /\ role'[t] = role[t]
                                    /\ election_lost'[t] = election_lost[t]
        /\ role'[s] = "PRIMARY" => role[s] = "PRIMARY"
    BY <1>t, <1>11 DEF initPrimary, timeout, watch, heard, startFirstElection, sendElection,
       giveUp, startElection, Goto, flags
  <2>2. QED
    BY <1>10, <1>11, <1>r, <2>1 DEF Won
<1>12. ASSUME NEW s \in Servers, run_discovery_service_server(s), UNCHANGED clientVars
       PROVE  FollowInv'
  BY <1>10, <1>12, <1>t DEF run_discovery_service_server, Goto, flags, Won, Dispatching
<1>13. ASSUME NEW s \in Servers, NEW p \in Servers, heartbeat(p, s), UNCHANGED clientVars
       PROVE  FollowInv'
  BY <1>10, <1>13 DEF heartbeat, Won
<1>14. ASSUME NEW m \in net, NEW s \in Servers, dispatch(s, m), UNCHANGED clientVars
       PROVE  FollowInv'
  <2>1. /\ \A p \in Servers : control'[p] = control[p] \/ control[p] = "discovering"
        /\ \A p \in Servers : control'[p] \in {control[p], "watching"}
        /\ \A p \in Servers : role'[p] \in {role[p], "BACKUP"}
        /\ \A p \in Servers : election_lost[p] => election_lost'[p]
    BY <1>t, <1>14 DEF dispatch, initBackup, discard, sendDiscoveryAck, registerBackup,
       handleNewPrimaryAnnouncementPacket, handleElectionPacket,
       handleElectionAnswerPacket, flags
  <2>2. QED
    BY <1>10, <1>14, <1>r, <2>1 DEF Won
<1>15. QED
  <2>1. CASE \E s \in Servers : serverStep(s)
    BY <2>1, <1>6, <1>8, <1>9, <1>11 DEF serverStep
  <2>2. CASE \E c \in Clients : Client(c) \/ clientStep(c)
    BY <2>2, <1>1, <1>2, <1>3, <1>4 DEF clientStep
  <2>3. CASE \E m \in net : dispatch(m.to, m) /\ UNCHANGED clientVars
    BY <2>3, <1>14 DEF TypeOK, Packets
  <2>4. QED
    BY <2>1, <2>2, <2>3, <1>5, <1>7, <1>12, <1>13 DEF RedirectNext

\* On a timely network, with ids that differ, a client that has heard all there was to
\* hear addresses the server that was promoted last, for any servers, clients and crashes.
THEOREM ClientsFollow ==
  ASSUME Timely, IdsDiffer PROVE RedirectSpec => []ClientsFollowThePrimary
<1>1. RedirectInit => FollowInv
  BY DEF RedirectInit, Init, FollowInv, LatestIsPromoted, RacesAreNoticed,
         AnswersAreAwaited, NewsIsTrue, ReignIsKnown, Reigns
<1>2. /\ TypeOK /\ TimelyInv /\ RedirectTypeOK /\ FollowInv /\ [RedirectNext]_redirectVars
      => FollowInv'
  <2>1. CASE RedirectNext
    BY <2>1, FollowStep
  <2>2. CASE UNCHANGED redirectVars
    BY <2>2 DEF redirectVars, steps, vars, clientVars, FollowInv, LatestIsPromoted,
       RacesAreNoticed, RoleMoves, AnswersAreAwaited, NewsIsTrue, ReignIsKnown, Informed,
       Reigns, News, Offer, Packet, Won
  <2>3. QED
    BY <2>1, <2>2
<1>3. RedirectTypeOK /\ FollowInv => ClientsFollowThePrimary
  BY DEF RedirectTypeOK, FollowInv, ReignIsKnown, Informed, Reigns, ClientsFollowThePrimary
<1>4. QED
  BY <1>1, <1>2, <1>3, RedirectTypeCorrect, RedirectImplementsElection, ElectionTypeCorrect,
     TimelyInvariant, PTL DEF RedirectSpec
=============================================================================
