------------------------------ MODULE MCSelect ------------------------------
(* Small instances of SelectEcho. *)
EXTENDS SelectEcho

\* Connections and descriptors are taken from the lowest number up.
LowestFirst ==
  /\ \A c, d \in Conn : c < d /\ peer[c] = "new" => peer'[d] = "new"
  /\ \A f, g \in Fd : f < g /\ fdt[f] = NoConn /\ fdt[g] = NoConn => fdt'[g] = NoConn

\* Two clients leave at most, and three pieces are written in all.
Bounds ==
  /\ Cardinality({c \in Conn : peer[c] \notin {"new", "open"}}) <= 2
  /\ Cardinality({m \in Msg : m.n <= sent[m.from]}) <= 3
=============================================================================
