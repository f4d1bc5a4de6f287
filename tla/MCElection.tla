----------------------------- MODULE MCElection -----------------------------
(* Small instances of Election: a server is its id. *)
EXTENDS Election

OwnId == [s \in Servers |-> s]

\* Bound: with three servers, two broadcasts under way at a time.
MaxPackets == 4
FewPackets == Cardinality(net) <= MaxPackets
=============================================================================
