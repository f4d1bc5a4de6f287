-------------------------- MODULE TransferService ---------------------------
(***************************************************************************)
(* What the bank promises its users, whatever the network does: a command  *)
(* that was issued is carried out at most once, the commands of one user   *)
(* in the order of issue, and only with the funds there.  A command may    *)
(* never be carried out at all.                                            *)
(***************************************************************************)
EXTENDS Integers, Sequences

CONSTANTS Clients, InitialBalance, Values

VARIABLES
  open,      \* the clients with an account
  accounts,  \* [Clients -> Int]
  issued,    \* per client, the sequence of its commands [dest, value]
  executed   \* the sequence of the commands carried out, as [client, id]

vars == <<open, accounts, issued, executed>>

Init ==
  /\ open = {}
  /\ accounts = [c \in Clients |-> InitialBalance]
  /\ issued = [c \in Clients |-> <<>>]
  /\ executed = <<>>

Open(c) ==
  /\ open' = open \cup {c}
  /\ UNCHANGED <<accounts, issued, executed>>

Issue(c, d, v) ==
  /\ issued' = [issued EXCEPT ![c] = Append(issued[c], [dest |-> d, value |-> v])]
  /\ UNCHANGED <<open, accounts, executed>>

Transfer(s, d, v) ==
  [c \in Clients |-> accounts[c] - (IF c = s THEN v ELSE 0) + (IF c = d THEN v ELSE 0)]

Execute(c, i) ==
  LET d == issued[c][i].dest
      v == issued[c][i].value IN
    /\ \A k \in DOMAIN executed : executed[k].client = c => executed[k].id < i
    /\ c \in open /\ d \in open
    /\ accounts[c] >= v
    /\ accounts' = Transfer(c, d, v)
    /\ executed' = Append(executed, [client |-> c, id |-> i])
    /\ UNCHANGED <<open, issued>>

Next ==
  \E c \in Clients :
    \/ Open(c)
    \/ \E d \in Clients, v \in Values : Issue(c, d, v)
    \/ \E i \in DOMAIN issued[c] : Execute(c, i)

Spec == Init /\ [][Next]_vars
=============================================================================
