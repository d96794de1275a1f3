------------------------------- MODULE MCRoom -------------------------------
(* Small instances of RoomServer. *)
EXTENDS RoomServer, FiniteSets, TLC

Symmetry == Permutations(Conn)

\* Bounds: a client writes a line when its last one has been read, one
\* client writes a line to relay, and one hangs up.
OneInFlight == \A c \in Conn : sent[c] <= taken[c] + 1
OneTalks == Cardinality({c \in Conn : sent[c] > 2}) <= 1
OneLeaves == Cardinality({c \in Conn : client[c] = "off"}) <= 1
=============================================================================
