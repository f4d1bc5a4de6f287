------------------------------ MODULE Failover ------------------------------
(***************************************************************************)
(* The servers of Election with the books they keep: what becomes of the   *)
(* clients' payments when the role of the primary goes from one server to  *)
(* another.                                                                *)
(*                                                                         *)
(* Each step of Election is joined to what it does to the books: a server  *)
(* that ends forgets its book, one that registers is sent a snapshot, one  *)
(* that is promoted goes on with what it has.  The dispatch thread, which  *)
(* sends a snapshot, handles nothing else until it is through.  A request  *)
(* of a client that finds the server primary runs in a thread of its own,  *)
(* and finds whatever role the server then has.                            *)
(*                                                                         *)
(* A packet of the replication is handled in the order in which it was     *)
(* sent to its receiver.  Those of the election are under way in net as    *)
(* before.  No packet is lost here.                                        *)
(***************************************************************************)
EXTENDS Election, ReplicaBook

CONSTANTS
  Requests,   \* the requests that clients may make, again and again
  MaxThreads  \* bound: requests that a server has accepted and not carried out

ASSUME FailoverAssumption ==
  /\ Requests \subseteq [source : Clients, dest : Clients, value : Int, seqn : Nat]
  /\ MaxThreads \in Nat

VARIABLES
  book,       \* the book of each server
  enlisted,   \* how often each address stands in the vector backup_servers of each server
  syncing,    \* per server, {} or the one backup its dispatch thread sends a snapshot to
  snapshot,   \* per server, what is left to send of the copy
  chan,       \* per server, the packets of the replication under way to it
  requests,   \* per server, the accepted requests whose threads have not run yet
  confirmed,  \* history: the requests that were answered with SUCCESS
  told,       \* history: <<p, b>> if p began a snapshot for the backup b and nothing came between
  outdated,   \* history: servers that were sent a transaction too early, or not at all
  heirs,      \* history: the line of succession: the servers that were given the whole book
  broken      \* history: the line of succession ended, or was passed over

electionVars == vars
bookVars == <<book, enlisted, syncing, snapshot, chan, requests, confirmed>>

FailoverInit ==
  /\ Init
  /\ book = [s \in Servers |-> EmptyLedger]
  /\ enlisted = [s \in Servers |-> [t \in Servers |-> 0]]
  /\ syncing = [s \in Servers |-> {}]
  /\ snapshot = [s \in Servers |-> EmptyLedger]
  /\ chan = [s \in Servers |-> <<>>]
  /\ requests = [s \in Servers |-> {}]
  /\ confirmed = {}
  /\ told = {}
  /\ outdated = {}
  /\ heirs = {}
  /\ broken = FALSE

-----------------------------------------------------------------------------
(* What the steps of Election do to the books.                             *)

\* The delays of the code suffice for the packets of the replication too.
HasAll(s) == chan[s] = <<>> /\ \A p \in Servers : s \notin syncing[p]

waits(s) ==
  /\ initPrimary(s) \/ timeout(s) \/ endOfWindow(s)
  /\ Timely => HasAll(s)
  /\ UNCHANGED bookVars

controlOnly(s) ==
  /\ \/ run_discovery_service_server(s) \/ watch(s) \/ heard(s) \/ startFirstElection(s)
     \/ sendElection(s) \/ giveUp(s) \/ announceNewPrimary(s)
     \/ \E p \in Servers : heartbeat(p, s) /\ syncing[s] = {}
  /\ UNCHANGED bookVars

\* The list is emptied; the book is the one the server had as a backup.
promote(s) ==
  /\ promoteToPrimary(s)
  /\ enlisted' = [enlisted EXCEPT ![s] = [t \in Servers |->
                    IF role[s] = "BACKUP" THEN 0 ELSE enlisted[s][t]]]
  /\ UNCHANGED <<book, syncing, snapshot, chan, requests, confirmed>>

crash(s) ==
  /\ Crash(s)
  /\ book' = [book EXCEPT ![s] = EmptyLedger]
  /\ enlisted' = [enlisted EXCEPT ![s] = [t \in Servers |-> 0]]
  /\ syncing' = [syncing EXCEPT ![s] = {}]
  /\ snapshot' = [snapshot EXCEPT ![s] = EmptyLedger]
  /\ chan' = [chan EXCEPT ![s] = <<>>]
  /\ requests' = [requests EXCEPT ![s] = {}]
  /\ UNCHANGED confirmed

\* The loops over the copy go on while something is left to send.
SendOn(s, b, rest) ==
  IF rest.registered = {} /\ rest.history = <<>>
  THEN /\ syncing' = [syncing EXCEPT ![s] = {}]
       /\ snapshot' = [snapshot EXCEPT ![s] = EmptyLedger]
  ELSE /\ syncing' = [syncing EXCEPT ![s] = {b}]
       /\ snapshot' = [snapshot EXCEPT ![s] = rest]

enlist(s, m) ==
  /\ registerBackup(s, m)
  /\ IF role[s] = "PRIMARY"
     THEN /\ enlisted' = [enlisted EXCEPT ![s][m.from] = @ + 1]
          /\ SendOn(s, m.from, book[s])
     ELSE UNCHANGED <<enlisted, syncing, snapshot>>
  /\ UNCHANGED <<book, chan, requests, confirmed>>

depose(s, m) ==
  /\ handleNewPrimaryAnnouncementPacket(s, m)
  /\ enlisted' = [enlisted EXCEPT ![s] = [t \in Servers |->
                    IF server_id[m.from] # server_id[s] THEN 0 ELSE enlisted[s][t]]]
  /\ UNCHANGED <<book, syncing, snapshot, chan, requests, confirmed>>

dispatchElection(s, m) ==
  /\ syncing[s] = {}
  /\ \/ enlist(s, m) \/ depose(s, m)
     \/ /\ \/ initBackup(s, m) \/ discard(s, m) \/ sendDiscoveryAck(s, m)
           \/ handleElectionPacket(s, m) \/ handleElectionAnswerPacket(s, m)
        /\ UNCHANGED bookVars

-----------------------------------------------------------------------------
(* The replication.                                                        *)

\* To each element of backup_servers of s; nothing arrives at a process that has ended.
Propagated(s, m) ==
  [t \in Servers |-> IF Up(t) THEN chan[t] \o [k \in 1..enlisted[s][t] |-> m] ELSE chan[t]]

sendClientSnapshot(s, b) ==
  /\ b \in syncing[s]
  /\ \E c \in snapshot[s].registered :
       /\ chan' = IF Up(b) THEN [chan EXCEPT ![b] = Append(@, ClientUpdate(snapshot[s], c))]
                  ELSE chan
       /\ SendOn(s, b, [snapshot[s] EXCEPT !.registered = @ \ {c}])
  /\ UNCHANGED <<electionVars, book, enlisted, requests, confirmed>>

sendHistorySnapshot(s, b) ==
  /\ b \in syncing[s]
  /\ snapshot[s].registered = {} /\ snapshot[s].history # <<>>
  /\ chan' = IF Up(b)
             THEN [chan EXCEPT ![b] = Append(@, HistoryEntry(Head(snapshot[s].history)))]
             ELSE chan
  /\ SendOn(s, b, [snapshot[s] EXCEPT !.history = Tail(@)])
  /\ UNCHANGED <<electionVars, book, enlisted, requests, confirmed>>

\* What a server makes of a packet of the replication: one that looks for a primary, and
\* one that is primary, throw it away.
receiveUpdate(s) ==
  /\ chan[s] # <<>> /\ Up(s) /\ syncing[s] = {}
  /\ \E L \in (IF role[s] = "BACKUP" THEN Handled(book[s], Head(chan[s])) ELSE {book[s]}) :
       book' = [book EXCEPT ![s] = L]
  /\ chan' = [chan EXCEPT ![s] = Tail(@)]
  /\ UNCHANGED <<electionVars, enlisted, syncing, snapshot, requests, confirmed>>

-----------------------------------------------------------------------------
(* The clients' packets at server s.                                       *)

handleDiscoveryPacket(s, c) ==
  /\ role[s] = "PRIMARY" /\ syncing[s] = {}
  /\ book' = [book EXCEPT ![s] = wasClientAdded(book[s], c)]
  /\ chan' = IF findClient(book[s], c) THEN chan ELSE Propagated(s, ClientUpdate(book'[s], c))
  /\ UNCHANGED <<electionVars, enlisted, syncing, snapshot, requests, confirmed>>

handleTransactionRequest(s, r) ==
  /\ role[s] = "PRIMARY" /\ syncing[s] = {}
  /\ Cardinality(requests[s]) < MaxThreads
  /\ requests' = [requests EXCEPT ![s] = @ \cup {r}]
  /\ UNCHANGED <<electionVars, book, enlisted, syncing, snapshot, chan, confirmed>>

\* Mutant: no transaction is passed on.
processTransactionUnpropagated(s, r) ==
  LET result == handleTransactionLogic(book[s], r.source, r.dest, r.value, r.seqn) IN
    /\ r \in requests[s]
    /\ requests' = [requests EXCEPT ![s] = @ \ {r}]
    /\ book' = [book EXCEPT ![s] = result.ledger]
    /\ confirmed' = IF result.status = "SUCCESS" THEN confirmed \cup {r} ELSE confirmed
    /\ UNCHANGED <<electionVars, enlisted, syncing, snapshot, chan>>

\* The thread of a request.  It does not matter for its answer whether the server still
\* is the primary, only for what the backups are sent.
processTransaction(s, r) ==
  LET result == handleTransactionLogic(book[s], r.source, r.dest, r.value, r.seqn) IN
    /\ r \in requests[s]
    /\ requests' = [requests EXCEPT ![s] = @ \ {r}]
    /\ book' = [book EXCEPT ![s] = result.ledger]
    /\ chan' = IF result.status = "SUCCESS" /\ role[s] = "PRIMARY"
               THEN Propagated(s, StateUpdate(result.ledger)) ELSE chan
    /\ confirmed' = IF result.status = "SUCCESS" THEN confirmed \cup {r} ELSE confirmed
    /\ UNCHANGED <<electionVars, enlisted, syncing, snapshot>>

serve(s) ==
  \/ \E c \in Clients : handleDiscoveryPacket(s, c)
  \/ \E r \in Requests : handleTransactionRequest(s, r) \/ processTransaction(s, r)
  \/ receiveUpdate(s)
  \/ \E b \in Servers : sendClientSnapshot(s, b) \/ sendHistorySnapshot(s, b)

-----------------------------------------------------------------------------
(* The line of succession, which the history variables note.  The first    *)
(* primary founds it.  A backup is an heir when it has received all that a *)
(* primary in the line has for it, until a primary carries out a           *)
(* transaction without it or before it has been told of all others: a      *)
(* backup of the last primary registers again some time after the next was *)
(* promoted, and the snapshot passes over the clients that it knows.  The  *)
(* line is broken when a server that is no heir is promoted, or an heir    *)
(* while its primary still runs or before all that was sent to it has      *)
(* arrived, when a primary is deposed, or when no heir is left.            *)

\* p has sent all of a snapshot to the process that runs at b.
Told(p, b) == <<p, b>> \in told /\ b \notin syncing[p]

Settled(b) ==
  /\ role[b] = "BACKUP" /\ HasAll(b) /\ b \notin outdated
  /\ \E p \in heirs : role[p] = "PRIMARY" /\ Told(p, b)

Transacts(p) == role[p] = "PRIMARY" /\ Len(book'[p].history) > Len(book[p].history)

\* p carries out a transaction without b.
Leaves(p, b) == p # b /\ Transacts(p) /\ ~Told(p, b)

\* b has clients, or will have, whom no snapshot tells it of again.
HasHeard(b) == book[b].registered # {} \/ chan[b] # <<>>

NewPrimaries == {s \in Servers : role[s] # "PRIMARY" /\ role'[s] = "PRIMARY"}

Founding == heirs = {} /\ ~broken

InTurn ==
  \A s \in NewPrimaries :
    s \in heirs /\ HasAll(s) /\ \A p \in Servers : role[p] # "PRIMARY"

Succession ==
  /\ told' = {pair \in Servers \X Servers : LET p == pair[1] b == pair[2] IN
       /\ Up(b)' /\ enlisted'[p][b] > 0
       /\ \/ pair \in told /\ ~Leaves(p, b)
          \/ role[b] = "BACKUP" /\ enlisted'[p][b] > enlisted[p][b]}
  /\ outdated' = {b \in Servers :
       /\ Up(b)'
       /\ \/ b \in outdated
          \/ \E p \in Servers : \/ Leaves(p, b) /\ (enlisted[p][b] > 0 \/ HasHeard(b))
                                \/ b \in syncing'[p] /\ <<p, b>> \notin told'}
  /\ heirs' = {s \in (IF Founding THEN NewPrimaries ELSE heirs) \cup {b \in Servers : Settled(b)} :
                 Up(s)' /\ \A p \in Servers : ~Leaves(p, s)}
  /\ broken' = \/ broken
               \/ NewPrimaries # {} /\ ~Founding /\ ~InTurn
               \/ \E p \in Servers : role[p] = "PRIMARY" /\ role'[p] = "BACKUP"
               \/ heirs # {} /\ heirs' = {}

FailoverNext ==
  /\ \/ \E s \in Servers : controlOnly(s) \/ waits(s) \/ promote(s) \/ crash(s) \/ serve(s)
     \/ \E m \in net : dispatchElection(m.to, m)
  /\ Succession

failoverVars == <<electionVars, bookVars, told, outdated, heirs, broken>>

FailoverSpec == FailoverInit /\ [][FailoverNext]_failoverVars

-----------------------------------------------------------------------------
FailoverTypeOK ==
  /\ TypeOK
  /\ book \in [Servers -> LedgerType]
  /\ enlisted \in [Servers -> [Servers -> Nat]]
  /\ \A s \in Servers : backup_servers[s] = {t \in Servers : enlisted[s][t] > 0}
  /\ syncing \in [Servers -> SUBSET Servers]
  /\ snapshot \in [Servers -> LedgerType]
  /\ chan \in [Servers -> Seq(Updates)]
  /\ requests \in [Servers -> SUBSET Requests]
  /\ confirmed \in SUBSET Requests
  /\ told \in SUBSET (Servers \X Servers)
  /\ outdated \in SUBSET Servers /\ heirs \in SUBSET Servers
  /\ broken \in BOOLEAN

IsIn(r, L) ==
  \E i \in DOMAIN L.history :
    /\ L.history[i].source = r.source /\ L.history[i].seqn = r.seqn
    /\ L.history[i].dest = r.dest /\ L.history[i].value = r.value

\* A payment that was confirmed is not lost with the server that confirmed it: every
\* primary has it, whichever servers end and whichever are promoted, as long as some heir
\* is left and no server that is none wins an election.
ConfirmedSurvives ==
  ~broken => \A p \in Servers : role[p] = "PRIMARY" =>
               \A r \in confirmed : IsIn(r, book[p])

\* No payment is made twice: a request that a client repeats because the primary ended
\* before it could answer, or that was late, is not carried out by the successor again.
NoPaymentTwice ==
  [][\A s \in Servers, r \in Requests :
       processTransaction(s, r) /\ ~broken
       /\ (\E q \in confirmed : q.source = r.source /\ q.seqn = r.seqn)
         => UNCHANGED book]_failoverVars

\* The accounts in book B are those in L, down to the numbers of the requests that are not
\* to be repeated, and B knows the clients that L knows.
AccountsOf(B, L) ==
  /\ L.registered \subseteq B.registered
  /\ B.balance = L.balance /\ B.lastReq = L.lastReq

\* An heir that has received everything has its primary's accounts, whoever has been
\* primary before: updates for clients it knew already do no harm as long as it missed no
\* transaction.
HeirsAgree ==
  ~broken => \A p, b \in heirs :
    role[p] = "PRIMARY" /\ Told(p, b) /\ HasAll(b) => AccountsOf(book[b], book[p])

\* What the message "Sincronização do backup concluída" says: a backup that has handled
\* the snapshot, with nothing in between, has its primary's accounts.
SyncMendsBackups ==
  ~broken => \A p \in heirs, b \in Servers :
    role[p] = "PRIMARY" /\ Told(p, b) /\ HasAll(b) => AccountsOf(book[b], book[p])
=============================================================================
