----------------------------- MODULE MCHandoff -----------------------------
(* A small instance of Handoff: the five rounds of the program. *)
EXTENDS Handoff

Numbers == {-1, 2}
=============================================================================
