---------------------------- MODULE MCDatagram ----------------------------
(* Small instances of DatagramTalk. *)
EXTENDS DatagramTalk

\* Clients type from the lowest number up.
LowestFirst ==
  \A c, d \in Client : c < d /\ typed[c] = 0 => typed'[d] = 0
=============================================================================
