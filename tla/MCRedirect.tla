----------------------------- MODULE MCRedirect -----------------------------
(* A small instance of Redirect: a server is its id. *)
EXTENDS Redirect

OwnId == [s \in Servers |-> s]
=============================================================================
