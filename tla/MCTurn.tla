------------------------------ MODULE MCTurn ------------------------------
(* Small instances of TurnServer. *)
EXTENDS TurnServer

\* Clients connect from the lowest number up.
LowestFirst ==
  \A c, d \in Conn : c < d /\ peer[c] = "new" => peer'[d] = "new"

\* Lines that are read in every possible way make many states: two clients of
\* the echo server, and three of the others.
Bounds == prog = "echo" => peer[3] = "new"
=============================================================================
