----------------------------- MODULE Processes -----------------------------
(***************************************************************************)
(* What the kernel keeps of the processes of a forking server: which run,  *)
(* which have ended and wait to be reaped, and the SIGCHLD the parent has  *)
(* still to take.  External: modelled from how the servers of ch10 and     *)
(* ch11 use fork, exit, waitpid and sigaction.                             *)
(***************************************************************************)
EXTENDS Naturals, FiniteSets

CONSTANTS Conn,    \* connections; a child is named by the one it serves
          Main,    \* the parent
          Logger   \* the child that writes the log

ASSUME ProcessesAssumption ==
  /\ Main \notin Conn
  /\ Logger \notin Conn
  /\ Main # Logger

Proc == Conn \cup {Main, Logger}

VARIABLES
  life,     \* of each process: not yet, running, ended, reaped
  pending,  \* a SIGCHLD is pending for the parent
  merged    \* history: ends that raised a SIGCHLD already pending

procVars == <<life, pending, merged>>

ProcTypeOK ==
  /\ life \in [Proc -> {"none", "runs", "zombie", "gone"}]
  /\ pending \in BOOLEAN
  /\ merged \in Nat

Runs(p) == life[p] = "runs"
Zombies == {p \in Proc : life[p] = "zombie"}

Forked(p) ==
  /\ life[p] = "none"
  /\ life' = [life EXCEPT ![p] = "runs"]
  /\ UNCHANGED <<pending, merged>>

\* A child ends.  A pending signal is one, however often it is raised; an
\* orphan is reaped by init.
ChildEnds(p) ==
  /\ Runs(p)
  /\ IF Runs(Main)
     THEN /\ life' = [life EXCEPT ![p] = "zombie"]
          /\ pending' = TRUE
          /\ merged' = merged + IF pending THEN 1 ELSE 0
     ELSE /\ life' = [life EXCEPT ![p] = "gone"]
          /\ UNCHANGED <<pending, merged>>

\* The parent ends, and init reaps what it left.
ParentEnds ==
  /\ Runs(Main)
  /\ life' = [p \in Proc |-> IF p = Main \/ life[p] = "zombie" THEN "gone" ELSE life[p]]
  /\ UNCHANGED <<pending, merged>>

\* waitpid(-1, &status, WNOHANG): one of the zombies, if there is one.
WaitNoHang ==
  /\ IF Zombies = {}
     THEN life' = life
     ELSE \E p \in Zombies : life' = [life EXCEPT ![p] = "gone"]
  /\ UNCHANGED <<pending, merged>>
=============================================================================
