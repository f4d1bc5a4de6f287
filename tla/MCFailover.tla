----------------------------- MODULE MCFailover -----------------------------
(* A small instance of Failover: a server is its id, and c1 pays c2. *)
EXTENDS Failover

CONSTANTS c1, c2

OwnId == [s \in Servers |-> s]

OnePayment == {[source |-> c1, dest |-> c2, value |-> 1, seqn |-> 1]}

Calm == net = {} /\ \A s \in Servers : control[s] \in {"down", "waiting", "idle"}

Quiet == Calm /\ \A s \in Servers : HasAll(s) /\ requests[s] = {}

JoinsInTurn(s) ==
  Up(s)' /\ ~Up(s) => Quiet /\ crashes = 0 /\ \A t \in Servers : t > s => Up(t)

\* Bound: no server starts while packets of the election are under way.  A third server,
\* 1, joins 2 and 3 before any has ended and when they have nothing to do; from then on no
\* server starts again, and none ends during an election.
ThirdServer ==
  /\ net = {} \/ \A s \in Servers : Up(s)' => Up(s)
  /\ Up(1)' => \A s \in Servers : JoinsInTurn(s) /\ (Up(s) /\ ~Up(s)' => Calm)

\* Bound: the servers start one after the other, and only once.
StartsInTurn == \A s \in Servers : JoinsInTurn(s)

\* Bound: what comes after the line of succession is broken, of which nothing is
\* promised, is not explored.
Unbroken == ~broken
=============================================================================
