------------------------------ MODULE Handoff ------------------------------
(***************************************************************************)
(* ch18/sync/semaphore.c: a thread reads numbers, another adds them up, and *)
(* two semaphores pass the one variable num from hand to hand.             *)
(*                                                                         *)
(* scanf and the addition take num, which no lock protects, in a step of   *)
(* their own between sem_wait and sem_post.                                *)
(***************************************************************************)
EXTENDS Integers

CONSTANTS Rounds,  \* 5: how many numbers are passed
          Number   \* the numbers the user may type

ASSUME HandoffAssumption ==
  /\ Rounds \in Nat
  /\ Number \subseteq Int

VARIABLES
  num,      \* the variable shared
  sem_one,  \* counts numbers to be added
  sem_two,  \* counts numbers to be read
  rpc,      \* the reading thread is about to "wait", "scan" or "post"
  ri,       \* its i: rounds done
  apc,      \* the adding thread is about to "wait", "add" or "post"
  ai,       \* its i
  sum,      \* its sum
  given     \* history: the sum of what num held when it was handed over

readVars == <<rpc, ri>>
accuVars == <<apc, ai, sum>>
semVars == <<num, sem_one, sem_two, readVars, accuVars, given>>

SemTypeOK ==
  /\ num \in Number \cup {0}
  /\ sem_one \in 0..1 /\ sem_two \in 0..1
  /\ rpc \in {"wait", "scan", "post"} /\ apc \in {"wait", "add", "post"}
  /\ ri \in 0..Rounds /\ ai \in 0..Rounds
  /\ sum \in Int /\ given \in Int

SemInit ==
  /\ num = 0
  /\ sem_one = 0 /\ sem_two = 1
  /\ rpc = "wait" /\ ri = 0
  /\ apc = "wait" /\ ai = 0
  /\ sum = 0 /\ given = 0

-----------------------------------------------------------------------------
(* The thread read. *)

MayRead == sem_two > 0

ReadWait ==
  /\ rpc = "wait" /\ ri < Rounds
  /\ MayRead
  /\ sem_two' = sem_two - 1
  /\ rpc' = "scan"
  /\ UNCHANGED <<num, sem_one, ri, accuVars, given>>

\* scanf leaves num alone when the input is no number, or has ended;
\* what it returns is not looked at.
Scan ==
  /\ rpc = "scan"
  /\ num' \in Number \cup {num}
  /\ rpc' = "post"
  /\ UNCHANGED <<sem_one, sem_two, ri, accuVars, given>>

ReadPost ==
  /\ rpc = "post"
  /\ sem_one' = sem_one + 1
  /\ rpc' = "wait" /\ ri' = ri + 1
  /\ given' = given + num
  /\ UNCHANGED <<num, sem_two, accuVars>>

-----------------------------------------------------------------------------
(* The thread accu. *)

AccuWait ==
  /\ apc = "wait" /\ ai < Rounds
  /\ sem_one > 0
  /\ sem_one' = sem_one - 1
  /\ apc' = "add"
  /\ UNCHANGED <<num, sem_two, readVars, ai, sum, given>>

Add ==
  /\ apc = "add"
  /\ sum' = sum + num
  /\ apc' = "post"
  /\ UNCHANGED <<num, sem_one, sem_two, readVars, ai, given>>

\* Variant: the number is given back to the adding thread.
PostsToItself == sem_one' = sem_one + 1 /\ UNCHANGED sem_two

GivesBack == sem_two' = sem_two + 1 /\ UNCHANGED sem_one

AccuPost ==
  /\ apc = "post"
  /\ GivesBack
  /\ apc' = "wait" /\ ai' = ai + 1
  /\ UNCHANGED <<num, readVars, sum, given>>

\* main joins both threads.
Joined == rpc = "wait" /\ ri = Rounds /\ apc = "wait" /\ ai = Rounds

ReadNext == ReadWait \/ Scan \/ ReadPost
AccuNext == AccuWait \/ Add \/ AccuPost

SemNext == ReadNext \/ AccuNext

SemSpec == SemInit /\ [][SemNext]_semVars

SemFairSpec == SemSpec /\ WF_semVars(ReadNext) /\ WF_semVars(AccuNext)

-----------------------------------------------------------------------------
(* Properties. *)

\* num belongs to one thread at a time: never is it read and added at once.
OneHolder == ~(rpc \in {"scan", "post"} /\ apc \in {"add", "post"})

\* Every number handed over is added once and none is skipped: what was
\* handed over is what has been added and what is on its way.  At the end
\* nothing is on its way, and the result printed is the sum.
NothingLost ==
  given = IF sem_one = 1 \/ apc = "add" THEN sum + num ELSE sum

\* Both threads come to their end and main with them: the semaphores never
\* leave both waiting.
BothFinish == <>Joined
=============================================================================
