-------------------------- MODULE MCClientSession ---------------------------
(* Small instances of ClientSession: c1 is the client whose session is looked *)
(* at, c2 one it may pay, who gives no commands itself.                       *)
EXTENDS ClientSession, TLC

CONSTANTS c1, c2

Pays == {2}   \* what empties an account that was opened with 2

OnlyC1(n) == c1 :> n @@ c2 :> 0
C1ThenC2(n) == c1 :> n @@ c2 :> 1

TwoCommands == OnlyC1(2)
ThreeCommands == OnlyC1(3)

OnlyC1Starts == OnlyC1(1)
TwoStarts == C1ThenC2(2)
=============================================================================
