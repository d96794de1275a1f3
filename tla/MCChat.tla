------------------------------- MODULE MCChat -------------------------------
(* Small instances of ChatServer. *)
EXTENDS ChatServer, TLC

Symmetry == Permutations(Conn) \cup Permutations(Thread) \cup Permutations(Fd)

\* Threads that are numbers are created in order, and not permuted: cheaper
\* when there are four.
SocketSymmetry == Permutations(Conn) \cup Permutations(Fd)
ThreadsInOrder ==
  \A t, u \in Thread : t < u /\ tpc[t] = "none" => tpc'[u] = "none"

\* Bound: messages written by all clients together.
Messages == {m \in Msg : m.n <= sent[m.from]}
TwoMessages == Cardinality(Messages) <= 2

\* Bound: clients that write.
OneTalker == Cardinality({c \in Conn : sent[c] > 0}) <= 1

\* Bound: clients that hang up.
OneHangup == Cardinality({c \in Conn : peer[c] \notin {"new", "open"}}) <= 1

\* Instead of Symmetry where liveness is checked and constants are numbers:
\* connections and descriptors too are used lowest first.
LowestFirst ==
  /\ \A c, d \in Conn : c < d /\ peer[c] = "new" => peer'[d] = "new"
  /\ ThreadsInOrder
  /\ \A f, g \in Fd : f < g /\ fdt[f] = NoConn /\ fdt[g] = NoConn
                      => fdt'[g] = NoConn
=============================================================================
