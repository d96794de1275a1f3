----------------------------- MODULE MCHelpDesk -----------------------------
(* Small instances of HelpDesk. *)
EXTENDS HelpDesk

CONSTANT OtherId   \* one of the two ids

\* Client 1 is a helper who registers the first id, client 3 searches, and
\* client 2 does what it likes; only that one makes wrong choices or is killed.
\* When it goes astray there is one other client, the one or the other.
Roles ==
  /\ \A c \in Conn \ {2} : wrong[c] = 0 /\ cpc[c] # "dead"
  /\ cpc[1] # "ask" /\ up[1] # <<OtherId>>
  /\ cpc[3] # "menu"
  /\ astray # {} => \E c \in {1, 3} : cpc[c] = "new"
=============================================================================
