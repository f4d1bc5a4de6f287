----------------------------- MODULE MCDisplay ------------------------------
(* A small instance of Display. *)
EXTENDS Display

Four == {"interface", "t1", "t2", "t3"}
Five == Four \cup {"t4"}
=============================================================================
