---------------------------- MODULE MCDirectory ----------------------------
(* Small instances of ServerDirectory. *)
EXTENDS ServerDirectory

\* Connections and descriptors are taken from the lowest number up, and only
\* client 1 may die, and only what is written to it arrives in pieces.
LowestFirst ==
  /\ \A c, d \in Conn : c < d /\ client[c] = "new" => client'[d] = "new"
  /\ \A f, g \in Fd : f < g /\ fdt[f] = NoConn /\ fdt[g] = NoConn => fdt'[g] = NoConn
  /\ \A c \in Conn \ {1} : came'[c] \in {came[c], Len(inbox[c])} /\ ~Die(c)

\* An accept that fails changes nothing unless a thread is still to copy what it
\* overwrites.  The others are left out, and of what follows one of these there
\* is the copy, which is the race.
FailsUnderACopy ==
  /\ (\E a \in Acceptor : AcceptFails(a)) =>
       \E c \in Conn : writer[c] = "copy" \/ chooser[c] = "copy"
  /\ (\E a \in Acceptor : cur[a] # NoConn /\ arg[a] = NoFd) => raced'

\* Once a thread has the wrong descriptor only DecodedWhole says anything: of
\* those behaviours the instance has the step that makes them so.
NotRaced == ~raced
=============================================================================
