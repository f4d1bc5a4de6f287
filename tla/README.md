# Verification of the SisOpII bank (T1)

A bank over UDP: clients pay each other through a server; several servers form a primary and
its backups, and elect a new primary when the old one goes. This directory holds TLA+ models of
that program, the TLC configurations that check them on small instances, and proofs that hold
for every value of the constants. Paths such as `server/Server.cpp:475` are below `src/T1/`.

## 1. Inventory

| Part | Code | State | Operations |
|---|---|---|---|
| Ledger | `server/Server.cpp:154-317`, `include/ClientDTO.h` | `clients` (address, balance, last request), `transaction_history`, `num_transactions`, `total_transferred`, `total_balance` | `addClient`, `processTransaction` (validate, execute, log), `printClients` |
| Readers-writer lock | `Server.cpp:319-349` | `readers_count`, `writer_active`, `writers_waiting`, two condition variables | `reader_lock/unlock`, `writer_lock/unlock` |
| Client session | `client/Client.cpp`, `client/clientInterface.cpp`, `transactions/`, `discovery/` | `sequence_number`, the command in progress, its retries, the server's address | discovery, send, wait, retry, take the answer |
| Replication | `Server.cpp:351-513` | `backup_servers` on the primary, a ledger on each backup | `registerBackup`, propagation, `handleClientUpdate`, `handleStateUpdate`, `handleHistoryEntry` |
| Heartbeats and election | `Server.cpp:515-752`, `discovery/discoveryServer.cpp:23-68` | `current_role`, `primary_alive`, `election_in_progress`, `election_lost` | start-up discovery, heartbeat sender and monitor, election, promotion, announcement |
| Dispatch loop | `Server.cpp:60-152` | none of its own | one packet after another; a thread for each transaction |
| Server display | `server/serverInterface.cpp` | `data_changed`, `last_log_info` | `notify`, `run` |
| Command queue, SIGINT | `clientInterface.cpp:8-64`, `client/main.cpp` | `command_queue`, `finished` | input thread, communication thread, `shutdown` |
| Announcement listener | `Client.cpp:83-135` | `server_address`, `server_sock_addr` | redirects the client to a new primary |
| UDP wrappers, utilities, build, `teste.sh` | `udp/`, `utils.cpp` | - | socket calls, argument checks |

How they interact. A server process has: the dispatch thread; one detached thread per
transaction request (`transactionServer.cpp:6`); the heartbeat sender (primary) or the monitor and
election thread (backup); the display. They share the ledger under the lock; the fields of the
election are shared mostly without one. Servers and clients talk in UDP datagrams that may be
lost, copied, late or overtaken. Clients repeat requests; servers never repeat anything.

What is hard, and what correctness means:

- *Ledger*: a request number may come again, late or ahead. Each client's numbers are executed
  1, 2, ... once each; money is neither made nor lost; the history explains the book.
- *Lock*: a writer is alone; no waiting thread is forgotten, whoever is notified.
- *Session*: late answers, copies, retries and restarts reuse numbers. The bank executes each
  command at most once and in order, and what the client reports should be what happened.
- *Replication*: the snapshot is sent after the lock is released, so live updates mix with it;
  packets get lost; a backup may register again. A backup should end with the primary's book
  and must never be ahead of it.
- *Failover*: a payment is confirmed before any backup acknowledged it; the client repeats what
  was not answered. A confirmed payment should survive its server, and none be made twice.
- *Redirection*: a client asks for the primary once and then follows announcements, in another
  thread. It should end at the server that has the role.
- *Display, command queue*: threads notify each other outside the mutex that guards what they
  tell. No change and no line may be slept through, and nobody may wait for ever.
- *Election*: time-outs race packets; a server that is still looking for a primary is deaf;
  primaries depose each other. There should be one primary, all backups on its list, and a
  successor when it ends.

The complete list of hazards, each at its line with the properties that would catch it, is
`hazards` in `PROJECT.json`.

## 2. Modules

```
Ledger ---- Bank ------------ BankProofs          TransferService     ReadersWriters
   |  \        \ (INSTANCE)                            / (INSTANCE)      | (INSTANCE)
   |   \        ClientSession --- ClientProcess --- SessionProofs      RWLock -- RWLockProofs
   |    LedgerProofs                                                     |    /
   |                                                                  Display
   ReplicaBook --- Replication --- ReplicationProofs
          \
           Failover --- FailoverProofs
          /
   Election --- ElectionProofs
          \               \
           Redirect --- RedirectProofs
```

An edge without a label is EXTENDS, from left or top to right or bottom. `MC` modules give the
small instances.

`Ledger` is the account book as a value, with the code's operations as operators of the same
names. The state machines are built on it.

- **Bank**: a server that stays primary. Variable `ledger`; actions `addClient`,
  `processTransaction`, each one step because the code does all of it under the writer lock.
  Requests have any number at any time.
- **ReadersWriters**, **RWLock**: the promised lock and the code's. A function that holds
  `data_mutex` is one step up to where it waits or returns; sleeping threads may be woken by a
  notification or for no reason.
- **Display**: `RWLock` with the threads that use it. A thread changes the data under the lock
  (`change`), unlocks, sets `data_changed` under `mtx` (`setChanged`) and wakes the display
  (`notify_one`); the display (`interface`) looks, locks the data, draws, unlocks and clears the
  flag, all with `mtx`. `events` and `shown` are history: they tell which change was drawn last.
- **TransferService**: what the users are promised: at most once, in order of issue, funded.
- **ClientSession**: clients, primary and network. `net` holds every datagram sent, for ever:
  not taken is lost, taken twice is copied. Actions: `discoverServer`, `receiveDiscoveryAck`,
  `executeRequestWithRetries`, `Resend`/`retry` (time-out), `receiveResponse` (any matching
  answer, with what the client does with its number), the server's two handlers, and the end of
  a client process. `seqn` is the counter of the code; `commands` and `executed` are history.
- **ClientProcess**: the threads around that session. The input thread queues lines and
  announces them after releasing `queue_mutex`; the communication thread takes them, sleeps, or
  ends, and drives the steps of `ClientSession`; `main` handles SIGINT (on Linux a signal to the
  process goes to the main thread while that has it unblocked, and here it waits in `join` or in
  the discovery, so it never holds the mutex). SIGINT and the end of the input both set `finished`.
- **ReplicaBook**: the packets of the replication and a backup's handlers, on ledgers.
- **Replication**: a primary, its clients and its backups. `registerBackup` copies and enlists in
  one step (under the lock); the packets of the snapshot are steps of their own
  (`sendClientSnapshot`, `sendHistorySnapshot`) between which transactions run. A backup handles
  one packet at a time. When `handleStateUpdate` adds the destination, its iterator to the
  source may dangle (`Server.cpp:414-421`): undefined behaviour, modelled as a choice between the
  write taking effect and being lost. Channels are in order; `Lose`, `Copy`, `Overtake` and
  `Restart` are faults and counted.
- **Election**: each server is a dispatch thread and a control thread (`control[s]`: start-up
  discovery, the 200 ms pause, the monitor, the election and its window, promotion). Actions are
  the handlers and the stretches of the control thread between accesses the other thread can see:
  `startElection` sets `election_in_progress`, `sendElection` resets `election_lost` and
  broadcasts, `endOfWindow` and the decision are two steps, promotion and announcement too.
  `handleElectionMsg` (`Server.cpp:614`) is never called and left out.
- **Failover**: `Election` joined to the books. Each step of `Election` appears with what it does
  to them: a crash forgets the book, `promote` empties the list and keeps the book, `enlist` copies
  the book, and the dispatch thread, which sends the copy, handles nothing else meanwhile
  (`syncing`). Requests run in threads of their own (`requests`): the role is tested when they are
  accepted and again after they executed. The vector `backup_servers` may name a server twice, so
  `enlisted` counts. `told`, `outdated`, `heirs` and `broken` are history and define the line of
  succession (below).
- **Redirect**: `Election` with clients. The discovery takes an answer (`found`) and stores it
  later; the listener stores the sender of every announcement. A client never asks a second time:
  the branch that would (`clientInterface.cpp:99-107`) is under an answer with an unknown status,
  which no server sends.

The models drop formatting, printing and byte order, the order of the `clients` vector (only
membership is ever used), and the spelling of addresses. Balances are floats in the code and
integers here (sums of the sizes modelled are exact); counters do not overflow in the model.
`last_log_info` is left out: it only chooses what is printed. Accesses to unprotected fields
take place as written; torn or reordered accesses are not modelled.

## 3. What the runs check

Names are those of `PROJECT.json`; times are a few seconds, at most two minutes.

| Run | Instance | Shows |
|---|---|---|
| `bank` | 2 clients, numbers 1..3, amounts that fit, exceed, and are negative | `GaplessHistory`, `MoneyConserved`, `HistoryExplainsBook`, `SolventUnlessNegative` |
| `display` | 4 threads and the display, 2 changes | `FieldsTellTheTruth`, `MutualExclusion`, `NoStrandedWriter`, `NoStrandedReader`, `NothingUnseen`; `ReadersWritersSpec` (refinement); `WritersProgress`, `ReadersServedAfterWriters`, `SettlesAfterWriters` |
| `session_restart` | a client with 3 commands in 2 processes and one it pays, 2 attempts | `NeverAhead`, `FirstUseIsTruthful`, and that the session implements `TransferService` (`ServiceSpec`) and `Bank` (`BankSpec`) |
| `client_process` | a client whose user types 3 lines, ends the input and interrupts, 2 attempts | `SleepsOnlyWithoutWork`, `EndOfInputFinishesWork`, `EveryLineConcludes`, `EndOfInputEnds` |
| `replication` | 2 clients, 3 transactions, 1 backup that registers twice, 1 fault | `NothingForgotten`, `SyncedUnlessOvertaken`, `BackupNeverAhead` |
| `election` | 2 servers, any delays, losses, 2 crashes | `OnlyPrimariesEnlist` |
| `election_trio` | 3 servers, timely, 1 crash and restart, at most 4 packets under way | `OnePrimaryAmongAcquainted`, `BackupsEnlisted`, `SomebodyInCharge` |
| `redirect` | 2 servers, timely, 2 crashes, 1 client | `ClientsFollowThePrimary`, `HighestTakesOver` |
| `failover` | 2 servers, then 3, timely, 2 crashes, 2 clients, a payment that is repeated without end | `ConfirmedSurvives`, `HeirsAgree`, `NoPaymentTwice` |

Each passing run also checks the type invariant of its module (`TypeOK`, `DisplayTypeOK`,
`ProcessTypeOK`, `RedirectTypeOK`, `FailoverTypeOK`), except `session_restart`, whose `TypeOK` is
part of `ProcessTypeOK`, and `election_trio`, whose module is that of `election`.

Three runs end in a violation, each a disagreement between the code and what it says:

- `session_duplicate` (`clientInterface.cpp:91`): "the server already processed this request" is
  said of a command no server ever processed. The server carries out the first command, but the
  client gives it up without an answer and does not advance its number
  (`clientInterface.cpp:109-110`); the second command bears the same number, which the server
  takes for one it has executed (`Server.cpp:215`), and the client drops it as done. In this run
  only the client that pays is registered, so no refused command can be carried out later: giving
  up is the only way to this end.
- `replication_race` (`Server.cpp:512`): "synchronisation concluded" is printed although a
  transaction in the middle of the snapshot leaves the backup with another book. No packet is
  lost in this run.
- `failover_sync` (`Server.cpp:512`): the same is printed for a backup that changes to a new
  primary after that has carried out a payment. The snapshot passes over the clients the backup
  knows (`Server.cpp:446`), so it keeps the old balance and the old `last_request` of the payer
  but has the payment in its history; promoted in turn, it makes the payment again when the
  client repeats it. It takes three servers, and no transaction in the middle of the snapshot.

Seen on the way and not run: the user is told "insufficient funds" (`clientInterface.cpp:86`)
of a command that a late copy of its request carries out once there are funds, as the refusal
does not use the number up (`Server.cpp:221`).

The bounds, and why they are enough:

- Numbers up to 3 allow a repeated, a skipped and an overtaken request of one client, and a
  number used for a second command. Two clients are payer and payee, and one alone pays itself:
  `session_duplicate` needs no other.
- Two attempts give a retry and a last attempt; more attempts only add copies, and the network
  copies as it likes already.
- In `client_process` the second client only is somebody to pay, whom the server does not know:
  the answers are then success, refusal and "not found", and the command ends in each way.
- Five threads make every mix of a writer inside, writers and readers asleep, and a newcomer.
- One backup: backups do not interact, and each has its own channel. Two registrations and three
  transactions put transactions before, between and after two snapshots.
- Three servers are a primary, its successor and a bystander. `MaxPackets` allows two broadcasts
  under way at once. Two servers are explored without that bound.
- In `failover` two servers and two crashes let the role go over and come back to a restarted
  server; one payment, repeated by its client for ever, suffices for it to be lost or made
  twice. A third server joins these when they have nothing to do (`ThirdServer`), and both of the
  others may end: a primary, its successor, and a backup that has to change from one to the
  other. With three, no server starts again and none ends in the middle of an election; no
  server ever starts while packets of an election are under way. All of that is explored in
  `election_trio`, without the books. `Unbroken` stops the exploration after the line of
  succession is broken, as nothing is promised from there on and nothing mends it.
- `failover_sync` is the same instance with one crash, started in order (`StartsInTurn`).

The model's constants stand for the code's: `InitialBalance` for 1000 and `MaxRetries` for 5.
`Timely` selects whether the delays of the code suffice (see the head of `Election`): everything
under way when a wait begins, and what its receiver had sent when it handled it, comes before
the wait is over. That is a network whose latency is below half the shortest wait (1.5 s, so
750 ms), on which `Servers` that are not waiting act at once. `election` assumes none of that.
It does not check for deadlock: with late packets two primaries can depose each other and the
system stops for good. That is how the code is; `SomebodyInCharge` shows that it takes a network
slower than the code's waits.

What survives a failover. The code acknowledges a transaction whatever became of its updates, so
a promise needs a condition, and the history variables of `Failover` state it. The first primary
founds a line of succession; a backup joins it (becomes an *heir*) when a primary in the line has
sent it a snapshot (`Told`) and it has handled everything, unless a transaction was carried out
between the start of the snapshot and its end (the race of `replication_race`). The line is
*broken* when a server that is no heir is promoted, when an heir is promoted while its primary
still runs or while something sent to it is under way, when a primary is deposed (its threads go
on and send to nobody), or when no heir is left. Until then every primary has every confirmed
payment (`ConfirmedSurvives`), repeats of a confirmed payment are refused by every server that may
receive them (`NoPaymentTwice`), and heirs have the accounts of their primary (`HeirsAgree`).

An heir that a primary carries out a transaction without leaves the line (`Leaves`), and does not
come back if it knew clients or was to hear of some (`outdated`): with three servers the one that
is neither the old primary nor the new registers with the new some time after the promotion, and
what happened in between it is never told. Two servers cannot show this.

`HeirsAgree` compares balances and request numbers, and says that the heir knows the clients its
primary knows. It may know more: with four servers a client may be registered at a primary that
has told one heir of it and not the other, which takes over. Such a client has made no payment,
or the second would not be an heir, and it has in every book what a new client has.

The line really breaks, also on a network that loses nothing:

- a server with a higher address that restarts, before its successor takes over, wins the next
  election with an empty book; so does one that was deaf in its discovery;
- a backup whose primary was slow is promoted beside it, and two books go apart;
- a process that restarts during a snapshot receives the rest of the copy meant for its
  predecessor, before its own.

Where a client ends up. On a timely network a client addresses the server promoted last once that
has announced itself (`ClientsFollowThePrimary`), though it never searches again. Left out
(`raced`) are clients that took their first answer while there were two primaries, or one that
was not yet announced: the answer is stored last and may name a server that is deposed since,
which drops every request (`Server.cpp:88`) until another announcement comes.

What notification does to answers. `notify` needs the mutex that the display holds while it waits
for the readers' lock, and writers pass readers: as long as writers keep coming, and refused
requests suffice, which notify nobody themselves, the display waits and every transaction that
has something to report waits for it before it answers. `SettlesAfterWriters` says that this ends
when the writers do. The heartbeat sender is such a reader too: that steady load may starve it, and
so start an election, is what the code does, and no property promises otherwise.

What the election guarantees on a timely network is weaker than "one primary":

- Two primaries exist for a while if the higher server was still in its discovery when the lower
  one called its election (`OnePrimaryAmongAcquainted`). The higher one then deposes the lower,
  with an empty book.
- A primary that was deposed has no monitor (`Server.cpp:718`). If its successor ends it stays a
  backup, and its answers keep lower servers from winning. So `HighestTakesOver` promises a
  successor only while the highest running server has not been deposed.

Each property has a mutant in `PROJECT.json`: a definition changed as a plausible bug would
change it, on which TLC finds the property violated.

## 4. Fairness

- `Display`: a thread in a critical section of the lock leaves it, a woken thread gets the mutex,
  one that notifies gets `mtx`, and the display runs. The critical sections contain no wait but
  the display's for the readers' lock, which is where the properties bite; a mutex that is free
  again and again is obtained. No fairness for new arrivals: nobody has to come back for the lock.
- `ClientProcess`: the communication thread runs (its receive call has a time-out, so it always
  returns), and whoever set `finished` or queued a line gets to notify. None for the user, the
  network or the server: nobody need type, no packet need arrive.
- `Redirect`: timers expire and all threads of servers and clients run and take what has arrived.
  Crashes, starts and heartbeats are not fair: a server need not start, and a heartbeat is needed
  only where `Timely` says so.

The other specifications state no fairness: their properties are about safety.

## 5. What is proved

All theorems hold for every value of the constants under the named assumptions in the modules
(`InitialBalanceAssumption`, `ValuesAssumption`, `ThreadsAssumption`: finitely many threads,
`DisplayAssumption`, `SessionAssumption`, `ProcessAssumption`, `ReplicationAssumption`,
`ElectionAssumption`, `FailoverAssumption`, `RedirectAssumption`: a client is no server), which
state types only. Theorems about a timely network assume `Timely`, and some of them `IdsDiffer`:
a server takes its id from its address, so ids differ wherever addresses are found. With equal
ids an announced primary may lack a backup for ever, because a server does not register with a
primary whose id is its own (`Server.cpp:717`).

| Module | Theorem | Argument |
|---|---|---|
| `LedgerProofs` | lemmas | types and effect of registration and of a transaction: refused, the ledger stays; executed, the number is the successor of the last one. Sums over a finite set: a set added to, a value changed, two values changed |
| `BankProofs` | `TypeCorrect`, `HistoryIsGapless`, `Solvency` | `GaplessHistory` and `SolventUnlessNegative` are inductive with the type; `StepEffect` reduces a step to "kept" or "executed" |
| `BankProofs` | `MoneyIsConserved`, `BookIsExplained` | registration adds one term to the sums, a transaction moves an amount between two of them, or leaves them, when paid to oneself; the history grows by an entry that explains the move |
| `RWLockProofs` | `LockIsSafe`, `NoLostWakeup`, `LockImplementsReadersWriters` | the invariant is the conjunction of all five properties: exclusion needs the counters to be exact, and no lost wakeup needs both. `SetsOfMove`, `CountsOfMove` relate a move of one thread to the cardinalities |
| `RWLockProofs` | `DisplayKeepsToTheLock`, `DisplayTypeCorrect`, `NothingStaysUnseen` | every step of `Display` is one of `RWLock` or leaves it alone, so `IInv` holds. `UnseenIsPending`: an unseen change is flagged, or about to be, or about to be drawn; a flag set while the display is between drawing and clearing is excluded by `mtx`, a change then by the lock |
| `SessionProofs` | `ClientsNeverAhead`, `SessionImplementsBank` | `NeverAhead` needs `AnswersTell` (an answer that advances the client names a number the server executed) and `NumbersBounded` (so that the request is in the range `Bank` allows) |
| `SessionProofs` | `FirstUsesAreTruthful`, `SessionImplementsService` | `Truth`: a request bears what its command says, its port and its number; a success or a duplicate names a command that was executed; while the first process of a client runs, all its executed numbers are that process's; no command has a number beyond the next, and those up to an executed one have numbers the server is through with. The last part is why a delayed copy of an old request can execute nothing: all it can be is a duplicate |
| `SessionProofs` | `ProcessImplementsSession`, `ProcessTypeCorrect`, `NobodySleepsThroughWork`, `EndOfInputCutsNothingOff` | `ThreadInv` says at which step of the session each place of the communication thread is, so that a step of a process is a step of `ClientSession` or leaves it alone; the invariant of the session then holds of processes, and with it that only the last command can be pending |
| `ReplicationProofs` | `ReplicationTypeCorrect`, `BackupsNeverAhead` | `BackupNeverAhead` needs every packet under way and the snapshot to be sound with respect to the primary's book, which only grows, and history entries to be numbered by their place |
| `ReplicationProofs` | `NoTransactionForgotten` | a registration adds one copy of each transaction, in the snapshot; from there it moves to the channel and to the history; a new transaction, which is nowhere yet because entries are numbered by their place, is sent once for each time the backup is enlisted. Needs that one snapshot is sent at a time, and lemmas that count the places of a sequence |
| `ReplicationProofs` | `BackupsInStep` | for a backup no fault befell and whose first snapshot no transaction overtook: `Tells` says what the packets under way will make of its accounts (who is not in its book is introduced first, with what the primary's next transactions about him start from; the last transaction of each client carries the primary's balance and number; balances to come are what is missing in its total), `Recounts` that the history and the packets hold the primary's first entries in order, each once, when it registered once, and `Summed` that the totals are those of the history. `SyncInv` holds them of every such backup; a lemma for each kind of packet says that it is kept when the packet is sent, and one that it is kept when a packet is handled |
| `ElectionProofs` | `ElectionTypeCorrect`, `OnlyPrimariesHaveBackups` | inductive with the type, which says that a server that handles packets has a role |
| `ElectionProofs` | `OnePrimary`, `PrimariesKnowTheirBackups`, `NeverWithoutPrimary` | one invariant, `TimelyInv`, for any number of servers on a timely network. `Rivals`: of two candidates the one with the lower id is still waiting for the answer that makes it lose, or the other has its call yet to handle. `Acquainted`: who has met a higher server cannot win against it. `Heralds`: nobody wins while an announcement of a primary is on its way to him. `Known`: whom a primary has met is on its list, or its registration or the announcement is under way. `NeverWithoutPrimary` adds `Charge`: who deposes a primary is in an election, has ended, or is itself a primary nobody is about to depose |
| `RedirectProofs` | `RedirectImplementsElection`, `RedirectTypeCorrect`, `ClientsFollow` | the servers take the steps of `Election`, so `TimelyInv` holds. `FollowInv`: what the latest primary announced is under way to a client or its client has stored it, nobody else's announcement is under way while one reigns or is about to, and a discovery has no answer but the reigning server's, or its client is `raced` |
| `FailoverProofs` | `FailoverImplementsElection`, `FailoverTypeCorrect`, `OnlyPrimariesPropagate` | every step contains a step of `Election` or leaves it alone; `OnlyPrimariesPropagate` carries `OnlyPrimariesHaveBackups` over to the vector the updates are sent by |
| `FailoverProofs` | `NoConfirmedPaymentLost`, `HeirsHaveTheAccounts`, `PaidOnce` | one invariant, `Kept`, for any number of servers, timely or not, while the line is not broken. `Kinds` reduces a step to what it does to roles and books. `LineOK`: one primary, an heir; only it works; a backup that it has told is on its list; no heir is `outdated`. `PaymentsKept`: a confirmed payment is in every primary's history, and in that of an heir or of a told backup, or on the way there, or still in the snapshot. `AccountsKept`: there are balances and numbers (those of the last primary) that every primary has and that every backup which is not `outdated` will have, for the clients it will know, when it has handled what is under way to it (`Ends`), all of them if it is an heir. It needs `FreshBooks` (a client nobody has registered is untouched) and `CopiesCurrent` (no transaction was carried out since a copy was taken whose receiver counts as told) |

`SessionImplementsService` is the main result on clients: with the network as it is, commands are
carried out at most once, in order and funded. `SessionImplementsBank` carries what is proved of `Bank` over to sessions, and
`ProcessImplementsSession`, `DisplayKeepsToTheLock`, `RedirectImplementsElection` and
`FailoverImplementsElection` carry what is proved of the parts over to the wholes.

Sums and counts are recursive, and the library's induction theorems take an operator, which the
provers cannot instantiate. What is needed of them is proved by a smallest counterexample: the
subsets of a finite set on which a fact fails have a smallest one, and one element less gives the
contradiction.

`NoConfirmedPaymentLost`, `HeirsHaveTheAccounts` and `PaidOnce` are the main result on servers. They
do not assume `Timely`: what the network has to do with it is whether the line breaks.

What handling a queue of packets leaves is not written as a recursion (nothing could be proved of
it): `Ends` says that there is a sequence of books, one for each packet, that every choice of the
handlers agrees with.

Every invariant and safety property of the passing runs is proved. Only model-checked are the
liveness properties (the prover has no rules for fairness and ENABLED that reach them).

## 6. Not modelled, and the plan

Abstracted, and what that hides:

- **Failover** executes a transaction and sends it to all backups in one step. A crash in the
  middle of that loop, after some backups and before others, is not explored (it needs two
  backups, four servers in all to be of interest, and more states than TLC can visit).
- **Failover** and **Redirect** lose no packets; losses are in `Election`, `Replication` and
  `ClientSession`.
- **Display** leaves out what a line says. Notifications coalesce, and `last_log_info` is that of
  the latest transaction (`serverInterface.cpp:36`), so a line may be missing or be printed for
  another's change.
- **ClientProcess** lets the main thread handle SIGINT. Elsewhere than on Linux a handler might
  run in the thread that holds `queue_mutex`, and the client hang.
- Discovery without an answer waits for ever (`discoveryClient.cpp:34`); the models let it.

Worth doing next:

1. Election with equal ids (`Server.cpp:635` gives 0 when no address is found).
2. Proofs: on which networks the line of succession does not break, from `TimelyInv`.

Left out: UDP wrappers, argument checks and printing (socket calls or sequential code without
state), build files and the container. Overflow of the counters and rounding of floats need
amounts beyond any instance TLC can run; data races proper are undefined behaviour that the
models resolve to some order of the accesses.
