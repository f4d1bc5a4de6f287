--------------------------- MODULE MCReplication ----------------------------
(* Small instances of Replication. *)
EXTENDS Replication, TLC

CONSTANTS c1, c2

OneEach == c1 :> 1 @@ c2 :> 1

TwoAndOne == c1 :> 2 @@ c2 :> 1
=============================================================================
