-------------------------- MODULE MCClientProcess ---------------------------
(* A small instance of ClientProcess: c1 types lines that pay itself, or c2, which *)
(* no server has heard of. *)
EXTENDS ClientProcess, TLC

CONSTANTS c1, c2

Pays == {2}

OneStart == c1 :> 1 @@ c2 :> 0
ThreeLines == c1 :> 3 @@ c2 :> 0
=============================================================================
