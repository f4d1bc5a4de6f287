------------------------------- MODULE MCBank -------------------------------
(* Small instances of Bank. *)
EXTENDS Bank, TLC

MCValues == {-1, 1, 3}

ClientSymmetry == Permutations(Clients)
=============================================================================
