------------------------------ MODULE MCFork ------------------------------
(* Small instances of ForkServer. *)
EXTENDS ForkServer

\* Client 1 of ch11 has a name of up to PieceMax units; the others write two
\* units, a name and a line or two lines.  The two servers with a logger share
\* their signals and their log: the chat server is looked at for what its
\* children write, without SIGINT, and mp_commu_server for its log, with
\* clients that give their names and stay.
Bounds ==
  /\ \A c \in Conn : prog # "ch11" \/ c # 1 => sent[c] <= 2 /\ name[c] <= 1
  /\ prog = "chat" => intr \cup asleep = {}
  /\ prog = "commu" =>
       /\ \A c \in Conn : sent[c] <= 1 /\ ~AtEnd(c)
       /\ Runs(Main) => dropped = {}

\* Clients connect from the lowest number up; both are there when somebody
\* interrupts, and do nothing more.
LowestFirst ==
  /\ \A c, d \in Conn : c < d /\ client[c] = "new" => client'[d] = "new"
  /\ intr \cup asleep # {} => client' = client
  /\ Interrupt => \A c \in Conn : client[c] # "new"
=============================================================================
