------------------------- MODULE ForkServerProofs -------------------------
(***************************************************************************)
(* Proofs about ForkServer, for any number of clients, descriptors and     *)
(* units: the types, the zombies a signal per end leaves behind, why the   *)
(* parent ends, that the log is whole and what a client hears.             *)
(***************************************************************************)
EXTENDS ForkServer, FiniteSetTheorems, SequenceTheorems, TLAPS

-----------------------------------------------------------------------------
(* What a step does to the processes. *)

USE DEF parentVars, sigVars, clientVars, childVars, procVars, logVars

\* Each step forks a child, ends a process, takes a signal, reaps, or leaves
\* the processes alone.
ProcStep ==
  \/ UNCHANGED <<procVars, hand>>
  \/ hand' = hand /\ \E p \in Conn : Forked(p)
  \/ hand' = hand /\ \E p \in Proc \ {Main} : ChildEnds(p)
  \/ hand' = hand /\ ParentEnds
  \/ pending /\ ~hand /\ pending' = FALSE /\ hand' = TRUE /\ UNCHANGED <<life, merged>>
  \/ hand /\ hand' = FALSE /\ WaitNoHang

LEMMA MainIsNoChild == Main \in Proc /\ Logger \in Proc \ {Main} /\ Conn \subseteq Proc \ {Main}
BY ProcessesAssumption DEF Proc

LEMMA NextProcStep ==
  ASSUME Next, cur \in Conn \cup {NoConn}, main = "fork" => cur \in Conn,
         pending \in BOOLEAN, hand \in BOOLEAN
  PROVE  ProcStep
<1>1. CASE ParentNext
  <2>1. CASE Fork
    BY <2>1 DEF Fork, MainRuns, ProcStep
  <2>2. CASE Boot
    BY <2>2 DEF Boot, ParentExits, ProcStep
  <2>3. CASE Accept
    BY <2>3 DEF Accept, ProcStep
  <2>4. CASE AcceptFailed
    BY <2>4 DEF AcceptFailed, AcceptError, AcceptAgain, ParentExits, ProcStep
  <2>5. CASE CloseData
    BY <2>5 DEF CloseData, ProcStep
  <2>6. CASE TakeChld
    BY <2>6 DEF TakeChld, ProcStep
  <2>7. CASE Reap
    BY <2>7 DEF Reap, Reaped, ProcStep
  <2> QED BY <1>1, <2>1, <2>2, <2>3, <2>4, <2>5, <2>6, <2>7 DEF ParentNext
<1>2. CASE LoggerNext
  BY <1>2, MainIsNoChild DEF LoggerNext, ProcStep
<1>3. CASE SignalNext
  <2>1. PICK p \in Proc : ReadInt(p) \/ IntExits(p)
    BY <1>3 DEF SignalNext
  <2>2. CASE ReadInt(p)
    BY <2>2 DEF ReadInt, ProcStep
  <2>3. CASE IntExits(p)
    BY <2>3 DEF IntExits, ParentExits, ProcStep
  <2> QED BY <2>1, <2>2, <2>3
<1>4. CASE Interrupt \/ ClientNext
  BY <1>4 DEF Interrupt, ClientNext, ProcStep
<1>5. ASSUME NEW c \in Conn, ChildNext(c) PROVE ProcStep
  <2>1. hand' = hand
    BY <1>5 DEF ChildNext
  <2>2. UNCHANGED procVars \/ ChildEnds(c)
    BY <1>5 DEF ChildNext, Hello, ReadName, LogName, ReadLine, WriteBack, EndOfClient,
                AnswerMap, Goes, Ends
  <2> QED BY <2>1, <2>2, MainIsNoChild DEF ProcStep
<1> QED BY <1>1, <1>2, <1>3, <1>4, <1>5 DEF Next

LEMMA ProcStepType ==
  ASSUME ProcTypeOK, ProcStep
  PROVE  ProcTypeOK'
<1> USE DEF ProcTypeOK
<1>1. CASE \E p \in Conn : Forked(p)
  BY <1>1 DEF Forked
<1>2. CASE \E p \in Proc \ {Main} : ChildEnds(p)
  <2>1. PICK p \in Proc \ {Main} : ChildEnds(p)
    BY <1>2
  <2>2. \/ life' = [life EXCEPT ![p] = "zombie"]
        \/ life' = [life EXCEPT ![p] = "gone"]
    BY <2>1 DEF ChildEnds
  <2>3. life' \in [Proc -> {"none", "runs", "zombie", "gone"}]
    BY <2>2
  <2>4. pending' \in BOOLEAN
    BY <2>1 DEF ChildEnds
  <2>5. merged' = merged \/ merged' = merged + 1 \/ merged' = merged + 0
    BY <2>1 DEF ChildEnds
  <2>6. merged' \in Nat
    BY <2>5
  <2> QED BY <2>3, <2>4, <2>6
<1>3. CASE ParentEnds
  BY <1>3 DEF ParentEnds
<1>4. CASE WaitNoHang
  BY <1>4 DEF WaitNoHang
<1>5. CASE UNCHANGED procVars
  BY <1>5
<1>6. CASE pending' = FALSE /\ UNCHANGED <<life, merged>>
  BY <1>6
<1> QED BY <1>1, <1>2, <1>3, <1>4, <1>5, <1>6 DEF ProcStep

-----------------------------------------------------------------------------
(* Types.  A descriptor that is looked for is there: the parent holds one   *)
(* connection at most, between accept and close.                           *)

NoneOpen == [f \in Fd |-> NoConn]

OneOpen ==
  /\ main \in {"boot", "accept", "failed", "unstarted"} => tab = NoneOpen
  /\ main \in {"fork", "close"} =>
       cur \in Conn /\ \E f \in Fd : tab = [NoneOpen EXCEPT ![f] = cur]

ReadWithin ==
  \A c \in Conn : held[c] <= taken[c] /\ taken[c] <= sent[c] /\ held[c] <= BufUnits

TypeInv == TypeOK /\ OneOpen /\ ReadWithin

Arr == [who : Seq(Fd \cup {-1}), count : 0..1]
Heard == Unit \cup {NoUnit}
Copy == [tab : [Fd -> Conn \cup {NoConn}], fd : Fd \cup {-1}, arr : Arr]

\* The parts of TypeOK, by who changes them.
LogType ==
  /\ pipe \in Seq(Conn \cup {Exit}) /\ written \in Seq(Conn \cup {Exit})
  /\ fbuf \in Seq(Conn \cup {Exit}) /\ file \in Seq(Conn \cup {Exit})
  /\ swallowed \in BOOLEAN

ParentType ==
  /\ main \in {"boot", "accept", "failed", "fork", "close", "unstarted", "end"}
  /\ hand \in BOOLEAN
  /\ cur \in Conn \cup {NoConn}
  /\ tab \in [Fd -> Conn \cup {NoConn}]
  /\ arr \in Arr
  /\ backlog \subseteq Conn /\ dropped \subseteq Conn

SignalType == intr \subseteq Proc /\ asleep \subseteq Proc

ClientType ==
  /\ client \in [Conn -> {"new", "nameless", "ready", "asks", "done", "left"}]
  /\ name \in [Conn -> 0..MaxSend] /\ got \in [Conn -> Nat] /\ stop \subseteq Conn
  /\ sent \in [Conn -> 0..MaxSend]

PlaceType ==
  /\ child \in [Conn -> {"none", "hello", "name", "log", "echo", "map", "end"}]
  /\ copy \in [Conn -> Copy]

DataType ==
  /\ taken \in [Conn -> 0..MaxSend]
  /\ first \in [Conn -> 0..MaxSend] /\ held \in [Conn -> 0..MaxSend]
  /\ buf \in [Conn -> [1..BufUnits -> Heard]]
  /\ inbox \in [Conn -> Seq(Heard)]
  /\ poked \subseteq Conn

LEMMA TypeParts ==
  TypeOK <=> /\ ProcTypeOK /\ LogType /\ ParentType /\ SignalType /\ ClientType
             /\ PlaceType /\ DataType /\ prog \in Prog
BY DEF TypeOK, LogType, ParentType, SignalType, ClientType, PlaceType, DataType, Arr, Copy, Heard

LEMMA InitType == Init => TypeInv
<1> SUFFICES ASSUME Init PROVE TypeInv
  OBVIOUS
<1>1. ProcTypeOK
  BY DEF Init, ProcTypeOK
<1>2. LogType
  <2>1. <<>> \in Seq(Conn \cup {Exit})
    OBVIOUS
  <2> QED BY <2>1 DEF Init, LogInit, LogType
<1>3. NoArr \in Arr
  BY DEF NoArr, Arr
<1>4. ParentType /\ SignalType
  BY <1>3 DEF Init, ParentType, SignalType
<1>5. ClientType
  BY ForkAssumption DEF Init, ClientType
<1>6. PlaceType
  <2>1. NoCopy \in Copy
    BY <1>3 DEF NoCopy, Copy
  <2> QED BY <2>1 DEF Init, PlaceType, FirstPlace
<1>7. DataType
  <2>1. <<>> \in Seq(Heard) /\ NoUnit \in Heard
    BY DEF Heard
  <2> QED BY <2>1, ForkAssumption DEF Init, DataType
<1>8. OneOpen
  BY DEF Init, OneOpen, NoneOpen
<1>9. ASSUME NEW c \in Conn PROVE held[c] <= taken[c] /\ taken[c] <= sent[c] /\ held[c] <= BufUnits
  BY ForkAssumption DEF Init
<1> QED BY <1>1, <1>2, <1>4, <1>5, <1>6, <1>7, <1>8, <1>9, TypeParts DEF TypeInv, ReadWithin, Init

\* Storing into an array, or past its end.
LEMMA ExceptInSeq ==
  ASSUME NEW S, NEW w \in Seq(S), NEW i, NEW e \in S
  PROVE  [w EXCEPT ![i] = e] \in Seq(S)
<1>1. CASE i \in 1..Len(w)
  BY <1>1, ExceptSeq
<1>2. CASE i \notin 1..Len(w)
  <2>1. w \in [1..Len(w) -> S]
    BY LenProperties
  <2>2. w = [j \in 1..Len(w) |-> w[j]]
    BY <2>1
  <2>3. [w EXCEPT ![i] = e] = [j \in 1..Len(w) |-> IF j = i THEN e ELSE w[j]]
    BY <2>1
  <2>4. [w EXCEPT ![i] = e] = w
    BY <1>2, <2>2, <2>3
  <2> QED BY <2>4
<1> QED BY <1>1, <1>2

LEMMA ParentKeepsType ==
  ASSUME TypeInv, ParentNext
  PROVE  ParentType' /\ PlaceType' /\ OneOpen'
<1> USE DEF ParentType
<1>1. ParentType /\ PlaceType /\ OneOpen
  BY TypeParts DEF TypeInv
<1>2. CASE Fork
  <2>1. main = "fork" /\ main' = "close" /\ UNCHANGED <<hand, cur, tab, arr, backlog>>
    BY <1>2 DEF Fork, MainRuns
  <2>2. PICK f \in Fd : cur \in Conn /\ tab = [NoneOpen EXCEPT ![f] = cur]
    BY <1>1, <2>1 DEF OneOpen
  <2>3. FdOf(cur) \in Fd
    <3>1. tab[f] = cur
      BY <2>2 DEF NoneOpen
    <3> QED BY <3>1 DEF FdOf
  <2>4. [tab |-> tab, fd |-> FdOf(cur), arr |-> arr] \in Copy
    BY <1>1, <2>3 DEF Copy
  <2>5. PlaceType'
    <3>1. CASE child' = [child EXCEPT ![cur] = FirstPlace]
               /\ copy' = [copy EXCEPT ![cur] = [tab |-> tab, fd |-> FdOf(cur), arr |-> arr]]
      BY <1>1, <2>4, <3>1 DEF PlaceType, FirstPlace
    <3>2. CASE UNCHANGED <<child, copy>>
      BY <1>1, <3>2 DEF PlaceType
    <3> QED BY <1>2, <3>1, <3>2 DEF Fork
  <2>6. dropped' \subseteq Conn
    BY <1>1, <1>2, <2>2 DEF Fork
  <2> QED BY <1>1, <2>1, <2>2, <2>5, <2>6 DEF OneOpen
<1>3. CASE UNCHANGED <<child, copy>>
  <2>1. PlaceType'
    BY <1>1, <1>3 DEF PlaceType
  <2>2. ASSUME NEW pc, ParentExits(pc) PROVE dropped' \subseteq Conn /\ backlog' = {} /\ main' = pc
    BY <1>1, <2>2 DEF ParentExits
  <2>3. CASE Boot
    <3>1. main = "boot" /\ main' \in {"accept", "unstarted"} /\ UNCHANGED <<hand, cur, tab, arr>>
          /\ dropped' \subseteq Conn /\ backlog' \subseteq Conn
      BY <1>1, <2>2, <2>3 DEF Boot, MainRuns
    <3> QED BY <1>1, <2>1, <3>1 DEF OneOpen
  <2>4. CASE Accept
    <3>1. /\ main = "accept" /\ main' = "fork" /\ UNCHANGED <<hand, dropped>>
          /\ arr' = IF prog = "chat" THEN Enlisted(LowestFree) ELSE arr
      BY <2>4 DEF Accept, MainRuns
    <3>2. PICK c \in backlog : /\ backlog' = backlog \ {c} /\ cur' = c
                              /\ tab' = [tab EXCEPT ![LowestFree] = c]
      BY <2>4 DEF Accept
    <3>3. tab = NoneOpen
      BY <1>1, <3>1 DEF OneOpen
    <3>4. LowestFree \in Fd
      <4>1. \E f \in Fd : tab[f] = NoConn /\ \A g \in Fd : tab[g] = NoConn => f <= g
        BY <3>3, ForkAssumption DEF NoneOpen
      <4> QED BY <4>1 DEF LowestFree
    <3>5. arr' \in Arr
      <4>1. Enlisted(LowestFree) \in Arr
        <5>1. [arr.who EXCEPT ![arr.count + 1] = LowestFree] \in Seq(Fd \cup {-1})
          <6>1. arr.who \in Seq(Fd \cup {-1})
            BY <1>1 DEF Arr
          <6> QED BY <3>4, <6>1, ExceptInSeq
        <5>2. arr.count \in {0, 1}
          BY <1>1 DEF Arr
        <5>3. (arr.count + 1) % 2 \in 0..1
          BY <5>2
        <5> QED BY <5>1, <5>3 DEF Enlisted, Arr
      <4> QED BY <1>1, <3>1, <4>1
    <3>6. c \in Conn /\ cur' \in Conn /\ tab' \in [Fd -> Conn \cup {NoConn}]
      BY <1>1, <3>2
    <3>7. OneOpen'
      BY <3>1, <3>2, <3>3, <3>4, <3>6 DEF OneOpen
    <3> QED BY <1>1, <2>1, <3>1, <3>2, <3>5, <3>6, <3>7
  <2>5. CASE AcceptFailed
    <3>1. main = "failed" /\ main' \in {"accept", "end"} /\ UNCHANGED <<hand, cur, tab, arr>>
          /\ dropped' \subseteq Conn /\ backlog' \subseteq Conn
      BY <1>1, <2>2, <2>5 DEF AcceptFailed, AcceptError, AcceptAgain, MainRuns
    <3> QED BY <1>1, <2>1, <3>1 DEF OneOpen
  <2>6. CASE CloseData
    <3>1. /\ main = "close" /\ main' = "accept" /\ cur' = NoConn
          /\ UNCHANGED <<hand, arr, backlog, dropped>>
          /\ tab' = [tab EXCEPT ![FdOf(cur)] = NoConn]
      BY <2>6 DEF CloseData, MainRuns, ClosesData
    <3>2. PICK f \in Fd : cur \in Conn /\ tab = [NoneOpen EXCEPT ![f] = cur]
      BY <1>1, <3>1 DEF OneOpen
    <3>3. FdOf(cur) = f
      <4>1. tab[f] = cur /\ cur # NoConn /\ \A g \in Fd : g # f => tab[g] = NoConn
        BY <3>2, ForkAssumption DEF NoneOpen
      <4>2. \A g \in Fd : tab[g] = cur <=> g = f
        BY <4>1
      <4>3. FdOf(cur) \in Fd /\ tab[FdOf(cur)] = cur
        BY <4>1 DEF FdOf
      <4> QED BY <4>2, <4>3
    <3>4. tab' = NoneOpen
      BY <3>1, <3>2, <3>3 DEF NoneOpen
    <3>5. tab' \in [Fd -> Conn \cup {NoConn}]
      BY <3>4 DEF NoneOpen
    <3> QED BY <1>1, <2>1, <3>1, <3>4, <3>5 DEF OneOpen
  <2>7. CASE TakeChld
    <3>1. main' = main \/ (main = "accept" /\ main' = "failed")
      BY <2>7 DEF TakeChld
    <3> QED BY <1>1, <2>1, <2>7, <3>1 DEF TakeChld, OneOpen
  <2>8. CASE Reap
    BY <1>1, <2>1, <2>8 DEF Reap, OneOpen
  <2> QED BY <1>2, <2>3, <2>4, <2>5, <2>6, <2>7, <2>8 DEF ParentNext
<1> QED BY <1>2, <1>3 DEF ParentNext

LEMMA LogKeepsType ==
  ASSUME LogType,
         \/ \E m \in Conn \cup {Exit} : WritePipe(m)
         \/ ReadLines \/ ReadExit \/ UNCHANGED logVars
         \/ \E c \in Conn : AppendToFile(c)
         \/ Flush /\ UNCHANGED <<pipe, written, swallowed>>
  PROVE  LogType'
<1> USE DEF LogType
<1>1. ASSUME NEW m \in Conn \cup {Exit}, WritePipe(m) PROVE LogType'
  BY <1>1 DEF WritePipe
<1>2. CASE ReadLines
  <2>1. swallowed' \in BOOLEAN
    BY <1>2 DEF ReadLines
  <2> QED BY <1>2, <2>1 DEF ReadLines
<1>3. CASE ReadExit
  BY <1>3 DEF ReadExit, Flush
<1>4. CASE UNCHANGED logVars
  BY <1>4
<1>5. ASSUME NEW c \in Conn, AppendToFile(c) PROVE LogType'
  BY <1>5 DEF AppendToFile
<1>6. CASE Flush /\ UNCHANGED <<pipe, written, swallowed>>
  BY <1>6 DEF Flush
<1> QED BY <1>1, <1>2, <1>3, <1>4, <1>5, <1>6

LEMMA ClientKeepsType ==
  ASSUME TypeInv, ClientNext
  PROVE  ClientType' /\ backlog' \subseteq Conn /\ ReadWithin'
<1> USE DEF ClientType
<1>1. ClientType /\ backlog \subseteq Conn /\ ReadWithin /\ DataType
  BY TypeParts DEF TypeInv, ParentType
<1>2. PICK c \in Conn : \/ Connect(c) \/ SendName(c) \/ SendLine(c) \/ SendStop(c)
                       \/ ReadAnswer(c) \/ Quit(c) \/ Leave(c)
  BY DEF ClientNext
<1>3. UNCHANGED <<taken, held, buf, inbox>>
  BY DEF ClientNext
<1>4. ASSUME NEW k \in Nat, Writes(c, k)
      PROVE  sent' \in [Conn -> 0..MaxSend] /\ \A d \in Conn : sent[d] <= sent'[d]
  <2>1. sent[c] \in 0..MaxSend /\ sent[c] + k <= MaxSend /\ sent' = [sent EXCEPT ![c] = sent[c] + k]
    BY <1>1, <1>4 DEF Writes
  <2>2. sent[c] + k \in 0..MaxSend /\ sent[c] <= sent[c] + k
    BY <2>1, ForkAssumption
  <2> QED BY <1>1, <2>1, <2>2
<1>5. ASSUME \A d \in Conn : sent[d] <= sent'[d], sent' \in [Conn -> 0..MaxSend]
      PROVE  ReadWithin'
  <2> SUFFICES ASSUME NEW d \in Conn
               PROVE held[d] <= taken[d] /\ taken[d] <= sent'[d] /\ held[d] <= BufUnits
    BY <1>3 DEF ReadWithin
  <2>1. taken[d] <= sent[d] /\ held[d] <= taken[d] /\ sent[d] <= sent'[d] /\ held[d] <= BufUnits
    BY <1>1, <1>5 DEF ReadWithin
  <2>2. taken[d] \in Int /\ sent[d] \in Int /\ sent'[d] \in Int
    BY <1>1, <1>5, ForkAssumption DEF DataType
  <2> QED BY <2>1, <2>2
<1>6. CASE UNCHANGED sent
  <2>1. ReadWithin'
    BY <1>1, <1>3, <1>6 DEF ReadWithin
  <2>2. CASE Connect(c)
    BY <1>1, <2>1, <2>2 DEF Connect
  <2>3. CASE ReadAnswer(c)
    <3>1. Len(inbox[c]) \in Nat
      BY <1>1, LenProperties DEF DataType
    <3> QED BY <1>1, <2>1, <2>3, <3>1 DEF ReadAnswer
  <2>4. CASE Quit(c) \/ Leave(c)
    BY <1>1, <2>1, <2>4 DEF Quit, Leave
  <2>5. ASSUME NEW k \in 1..PieceMax, Writes(c, k) PROVE FALSE
    <3>1. sent[c] \in Int /\ sent' = [sent EXCEPT ![c] = sent[c] + k] /\ k \in Int /\ k >= 1
      BY <1>1, <2>5, ForkAssumption DEF Writes
    <3> QED BY <1>1, <1>6, <3>1
  <2>6. ~SendName(c) /\ ~SendLine(c) /\ ~SendStop(c)
    BY <2>5, ForkAssumption DEF SendName, SendLine, SendStop
  <2> QED BY <1>2, <2>2, <2>3, <2>4, <2>6
<1>7. CASE SendName(c)
  <2>1. PICK k \in 1..PieceMax : Writes(c, k) /\ name' = [name EXCEPT ![c] = k]
    BY <1>7 DEF SendName
  <2>2. k \in Nat
    OBVIOUS
  <2>3. k \in 0..MaxSend
    <3>1. sent[c] \in 0..MaxSend /\ sent[c] + k <= MaxSend
      BY <1>1, <2>1 DEF Writes
    <3> QED BY <2>2, <3>1, ForkAssumption
  <2>4. name' \in [Conn -> 0..MaxSend]
    BY <1>1, <2>1, <2>3
  <2> QED BY <1>1, <1>4, <1>5, <1>7, <2>1, <2>2, <2>4 DEF SendName
<1>8. CASE SendLine(c)
  <2>1. PICK k \in 1..PieceMax : Writes(c, k)
    BY <1>8 DEF SendLine
  <2>2. k \in Nat
    OBVIOUS
  <2> QED BY <1>1, <1>4, <1>5, <1>8, <2>1, <2>2 DEF SendLine
<1>9. CASE SendStop(c)
  <2>1. Writes(c, 1) /\ 1 \in Nat
    BY <1>9 DEF SendStop
  <2> QED BY <1>1, <1>4, <1>5, <1>9, <2>1 DEF SendStop
<1>10. CASE Connect(c) \/ ReadAnswer(c) \/ Quit(c) \/ Leave(c)
  BY <1>6, <1>10 DEF Connect, ReadAnswer, Quit, Leave
<1> QED BY <1>2, <1>7, <1>8, <1>9, <1>10

LEMMA ArrivedType ==
  ASSUME TypeInv, NEW c \in Conn
  PROVE  /\ sent[c] \in 0..MaxSend /\ taken[c] \in 0..MaxSend /\ held[c] \in 0..MaxSend
         /\ Arrived(c) \in Nat /\ taken[c] + Arrived(c) = sent[c] /\ MaxSend \in Nat
         /\ Arrived(c) <= MaxSend /\ held[c] <= taken[c] /\ taken[c] <= sent[c]
         /\ BufUnits \in Nat /\ held[c] <= BufUnits
<1>1. sent[c] \in 0..MaxSend /\ taken[c] \in 0..MaxSend /\ held[c] \in 0..MaxSend
  BY TypeParts DEF TypeInv, ClientType, DataType
<1>2. held[c] <= taken[c] /\ taken[c] <= sent[c] /\ held[c] <= BufUnits
  BY DEF TypeInv, ReadWithin
<1>3. MaxSend \in Nat /\ BufUnits \in Nat
  BY ForkAssumption
<1> QED BY <1>1, <1>2, <1>3 DEF Arrived

\* A read takes some of what has come, and some of that is held.
LEMMA TakenType ==
  ASSUME TypeInv, NEW c \in Conn, NEW n \in Nat, n <= Arrived(c),
         taken' = [taken EXCEPT ![c] = @ + n], UNCHANGED sent,
         held' = held \/ (n <= BufUnits /\ held' = [held EXCEPT ![c] = n])
  PROVE  /\ taken' \in [Conn -> 0..MaxSend] /\ n \in 0..MaxSend
         /\ held' \in [Conn -> 0..MaxSend] /\ ReadWithin'
<1>1. /\ taken \in [Conn -> 0..MaxSend] /\ held \in [Conn -> 0..MaxSend]
      /\ taken[c] \in Nat /\ Arrived(c) \in Nat /\ taken[c] + Arrived(c) = sent[c]
      /\ sent[c] \in 0..MaxSend /\ MaxSend \in Nat /\ Arrived(c) <= MaxSend
      /\ held[c] <= taken[c] /\ held[c] \in Nat /\ BufUnits \in Nat /\ held[c] <= BufUnits
  BY ArrivedType, TypeParts DEF TypeInv, DataType
<1>2. /\ taken[c] + n \in 0..MaxSend /\ taken[c] + n <= sent[c]
      /\ held[c] <= taken[c] + n /\ n <= taken[c] + n /\ n \in 0..MaxSend
  BY <1>1
<1>3. taken' \in [Conn -> 0..MaxSend] /\ held' \in [Conn -> 0..MaxSend]
  BY <1>1, <1>2
<1>4. ASSUME NEW d \in Conn
      PROVE  held'[d] <= taken'[d] /\ taken'[d] <= sent[d] /\ held'[d] <= BufUnits
  <2>1. CASE d = c
    <3>1. taken'[c] = taken[c] + n /\ (held'[c] = held[c] \/ (n <= BufUnits /\ held'[c] = n))
      BY <1>1
    <3> QED BY <1>1, <1>2, <2>1, <3>1
  <2>2. CASE d # c
    BY <1>1, <2>2 DEF TypeInv, ReadWithin
  <2> QED BY <2>1, <2>2
<1> QED BY <1>2, <1>3, <1>4 DEF ReadWithin

\* What a read takes, and what it leaves in buf.
LEMMA ReadType ==
  ASSUME TypeInv, NEW c \in Conn
  PROVE  /\ ReadAll(c) \in Nat /\ ReadAll(c) <= Arrived(c) /\ ReadAll(c) <= BufUnits
         /\ ReadTen(c) \in Nat /\ ReadTen(c) <= Arrived(c)
BY ArrivedType, ForkAssumption DEF ReadAll, ReadTen

LEMMA FilledType ==
  ASSUME TypeInv, NEW c \in Conn, NEW n \in Nat, n <= Arrived(c)
  PROVE  Filled(c, n) \in [1..BufUnits -> Heard]
<1>1. buf[c] \in [1..BufUnits -> Heard]
  BY TypeParts DEF TypeInv, DataType
<1>2. ASSUME NEW k \in 1..BufUnits, k <= n PROVE [from |-> c, n |-> taken[c] + k] \in Heard
  <2>1. taken[c] + k \in 1..MaxSend
    BY <1>2, ArrivedType
  <2> QED BY <2>1 DEF Unit, Heard
<1> QED BY <1>1, <1>2 DEF Filled

\* What a child writes is a part of its buf.
LEMMA HeldType ==
  ASSUME TypeInv, NEW c \in Conn
  PROVE  /\ WrittenUnits(c) \in Nat /\ HeldUnits(c) \in Seq(Heard)
         /\ Len(HeldUnits(c)) = WrittenUnits(c)
         /\ \A k \in 1..WrittenUnits(c) : k \in 1..BufUnits /\ HeldUnits(c)[k] = buf[c][k]
<1> DEFINE w == WrittenUnits(c)
<1>1. w \in Nat /\ w <= BufUnits /\ BufUnits \in Nat
  BY ArrivedType DEF WrittenUnits
<1> HIDE DEF w
<1>2. \A k \in 1..w : k \in 1..BufUnits /\ buf[c][k] \in Heard
  BY <1>1, TypeParts DEF TypeInv, DataType
<1>3. /\ SubSeq(buf[c], 1, w) \in Seq(Heard)
      /\ Len(SubSeq(buf[c], 1, w)) = IF 1 <= w THEN w - 1 + 1 ELSE 0
      /\ \A k \in 1..(w - 1 + 1) : SubSeq(buf[c], 1, w)[k] = buf[c][1 + k - 1]
  BY <1>1, <1>2, SubSeqProperties
<1>4. Len(SubSeq(buf[c], 1, w)) = w /\ \A k \in 1..w : SubSeq(buf[c], 1, w)[k] = buf[c][k]
  BY <1>1, <1>3
<1> QED BY <1>1, <1>2, <1>3, <1>4 DEF HeldUnits, w

LEMMA ChildKeepsType ==
  ASSUME TypeInv, NEW c \in Conn, ChildNext(c)
  PROVE  DataType' /\ PlaceType' /\ LogType' /\ ReadWithin'
<1>1. DataType /\ PlaceType /\ LogType /\ ReadWithin /\ client \in [Conn -> {"new", "nameless", "ready", "asks", "done", "left"}]
  BY TypeParts DEF TypeInv, ClientType
<1>2. UNCHANGED <<prog, client, sent, stop>>
  BY DEF ChildNext
<1>3. \/ Hello(c) \/ ReadName(c) \/ LogName(c) \/ ReadLine(c) \/ WriteBack(c)
      \/ EndOfClient(c) \/ AnswerMap(c)
  BY DEF ChildNext
<1>4. PlaceType'
  <2>1. UNCHANGED copy /\ \E pc \in {"name", "log", "echo", "end"} : child' = [child EXCEPT ![c] = pc]
    BY <1>3 DEF Hello, ReadName, LogName, ReadLine, WriteBack, EndOfClient, AnswerMap, Goes, Ends
  <2> QED BY <1>1, <2>1 DEF PlaceType
<1>5. LogType'
  <2>1. UNCHANGED logVars \/ WritePipe(c) \/ AppendToFile(c)
    BY <1>3 DEF Hello, ReadName, LogName, ReadLine, WriteBack, EndOfClient, AnswerMap
  <2> QED BY <1>1, <2>1, LogKeepsType
<1>6. CASE Hello(c) \/ LogName(c) \/ EndOfClient(c)
  <2>1. UNCHANGED <<taken, first, held, buf, inbox>> /\ poked' \subseteq Conn
    BY <1>1, <1>6 DEF Hello, LogName, EndOfClient, Touched, DataType
  <2> QED BY <1>1, <1>2, <1>4, <1>5, <2>1 DEF DataType, ReadWithin
<1>7. CASE ReadName(c)
  <2>1. UNCHANGED <<held, inbox, poked>>
    BY <1>7 DEF ReadName
  <2>2. PICK n : /\ n = IF prog = "ch11" THEN ReadTen(c) ELSE ReadAll(c)
                 /\ taken' = [taken EXCEPT ![c] = @ + n] /\ first' = [first EXCEPT ![c] = n]
                 /\ buf' = buf \/ buf' = [buf EXCEPT ![c] = Filled(c, n)]
    BY <1>7 DEF ReadName
  <2>3. n \in Nat /\ n <= Arrived(c)
    BY <2>2, ReadType
  <2>4. taken' \in [Conn -> 0..MaxSend] /\ n \in 0..MaxSend /\ ReadWithin'
    BY <1>2, <2>1, <2>2, <2>3, TakenType
  <2>5. buf' \in [Conn -> [1..BufUnits -> Heard]]
    <3>1. Filled(c, n) \in [1..BufUnits -> Heard]
      BY <2>3, FilledType
    <3> QED BY <1>1, <2>2, <3>1 DEF DataType
  <2> QED BY <1>1, <1>4, <1>5, <2>1, <2>2, <2>4, <2>5 DEF DataType
<1>8. CASE ReadLine(c)
  <2>1. /\ UNCHANGED <<first, inbox, poked>> /\ held' = [held EXCEPT ![c] = ReadAll(c)]
        /\ taken' = [taken EXCEPT ![c] = @ + ReadAll(c)]
        /\ buf' = [buf EXCEPT ![c] = Filled(c, ReadAll(c))]
    BY <1>8 DEF ReadLine, TakesAll
  <2>2. taken' \in [Conn -> 0..MaxSend] /\ held' \in [Conn -> 0..MaxSend] /\ ReadWithin'
    BY <1>2, <2>1, TakenType, ReadType
  <2>3. buf' \in [Conn -> [1..BufUnits -> Heard]]
    BY <1>1, <2>1, ReadType, FilledType DEF DataType
  <2> QED BY <1>1, <1>4, <1>5, <2>1, <2>2, <2>3 DEF DataType
<1>9. CASE AnswerMap(c)
  <2>1. /\ UNCHANGED <<first, held, buf, poked>> /\ taken' = [taken EXCEPT ![c] = sent[c]]
        /\ \/ inbox' = inbox
           \/ inbox' = [inbox EXCEPT ![c] = [k \in 1..Arrived(c) |-> [from |-> c, n |-> k]]]
    BY <1>9 DEF AnswerMap
  <2>2. taken' \in [Conn -> 0..MaxSend] /\ ReadWithin'
    <3> DEFINE n == Arrived(c)
    <3>1. n \in Nat /\ taken[c] + n = sent[c]
      BY ArrivedType
    <3> HIDE DEF n
    <3>2. taken' = [taken EXCEPT ![c] = @ + n]
      BY <2>1, <3>1
    <3>3. n <= n /\ UNCHANGED <<sent, held>>
      BY <1>2, <2>1, <3>1
    <3> QED BY <3>1, <3>2, <3>3, TakenType DEF n
  <2>3. [k \in 1..Arrived(c) |-> [from |-> c, n |-> k]] \in Seq(Heard)
    <3>1. \A k \in 1..Arrived(c) : [from |-> c, n |-> k] \in Heard
      BY ArrivedType DEF Unit, Heard
    <3>2. Arrived(c) \in Nat
      BY ArrivedType
    <3> QED BY <3>1, <3>2, IsASeq
  <2>4. inbox' \in [Conn -> Seq(Heard)]
    BY <1>1, <2>1, <2>3 DEF DataType
  <2> QED BY <1>1, <1>4, <1>5, <2>1, <2>2, <2>4 DEF DataType
<1>10. CASE WriteBack(c)
  <2>1. UNCHANGED <<taken, first, buf>> /\ held' = [held EXCEPT ![c] = 0]
    BY <1>10 DEF WriteBack
  <2>2. PICK t : \/ /\ inbox' = [d \in Conn |-> IF d = t /\ client[d] # "left"
                                                 THEN inbox[d] \o HeldUnits(c) ELSE inbox[d]]
                    /\ poked' = IF t \in Conn /\ client[t] = "left" THEN poked \cup {t} ELSE poked
                 \/ UNCHANGED <<inbox, poked>>
    BY <1>10 DEF WriteBack
  <2>3. inbox' \in [Conn -> Seq(Heard)] /\ poked' \subseteq Conn
    <3>1. ASSUME NEW d \in Conn PROVE inbox[d] \o HeldUnits(c) \in Seq(Heard) /\ inbox[d] \in Seq(Heard)
      <4>1. inbox[d] \in Seq(Heard) /\ HeldUnits(c) \in Seq(Heard)
        BY <1>1, HeldType DEF DataType
      <4> QED BY <4>1, ConcatProperties
    <3> QED BY <1>1, <2>2, <3>1 DEF DataType
  <2>4. held' \in [Conn -> 0..MaxSend]
    BY <1>1, <2>1, ForkAssumption DEF DataType
  <2>5. ReadWithin'
    <3> SUFFICES ASSUME NEW d \in Conn
                 PROVE  held'[d] <= taken[d] /\ taken[d] <= sent[d] /\ held'[d] <= BufUnits
      BY <1>2, <2>1 DEF ReadWithin
    <3>1. held[d] <= taken[d] /\ taken[d] <= sent[d] /\ taken[d] \in Nat
          /\ held[d] <= BufUnits /\ BufUnits \in Nat
      BY ArrivedType
    <3>2. held'[d] = 0 \/ held'[d] = held[d]
      BY <1>1, <2>1 DEF DataType
    <3> QED BY <3>1, <3>2
  <2> QED BY <1>1, <1>4, <1>5, <2>1, <2>3, <2>4, <2>5 DEF DataType
<1> QED BY <1>3, <1>6, <1>7, <1>8, <1>9, <1>10

LEMMA NextKeepsType ==
  ASSUME TypeInv, Next
  PROVE  TypeInv'
<1>1. /\ ProcTypeOK /\ LogType /\ ParentType /\ SignalType /\ ClientType
      /\ PlaceType /\ DataType /\ prog \in Prog /\ OneOpen /\ ReadWithin
  BY TypeParts DEF TypeInv
<1>2. ProcTypeOK'
  <2>1. cur \in Conn \cup {NoConn} /\ pending \in BOOLEAN /\ hand \in BOOLEAN
    BY <1>1 DEF ParentType, ProcTypeOK
  <2>2. main = "fork" => cur \in Conn
    BY <1>1 DEF OneOpen
  <2> QED BY <1>1, <2>1, <2>2, NextProcStep, ProcStepType
<1> SUFFICES /\ LogType' /\ ParentType' /\ SignalType' /\ ClientType'
             /\ PlaceType' /\ DataType' /\ (prog \in Prog)' /\ OneOpen' /\ ReadWithin'
  BY <1>2, TypeParts DEF TypeInv, TypeOK, ProcTypeOK, LogType, ParentType, SignalType, ClientType,
                         PlaceType, DataType, Arr, Copy, Heard
<1>3. CASE ParentNext
  <2>1. ParentType' /\ PlaceType' /\ OneOpen'
    BY <1>3, ParentKeepsType
  <2>2. UNCHANGED <<logVars, prog, sigVars, clientVars, taken, first, held, buf, inbox, poked>>
    BY <1>3 DEF ParentNext
  <2> QED BY <1>1, <2>1, <2>2 DEF LogType, SignalType, ClientType, DataType, ReadWithin
<1>4. CASE LoggerNext
  <2>1. UNCHANGED <<prog, parentVars, sigVars, backlog, dropped, clientVars, childVars>>
        /\ (ReadLines \/ ReadExit)
    BY <1>4 DEF LoggerNext
  <2>2. LogType'
    BY <1>1, <2>1, LogKeepsType
  <2> QED BY <1>1, <2>1, <2>2 DEF ParentType, SignalType, ClientType, PlaceType, DataType,
                                  ReadWithin, OneOpen
<1>5. CASE SignalNext
  <2>1. PICK p \in Proc : ReadInt(p) \/ IntExits(p)
    BY <1>5 DEF SignalNext
  <2>2. CASE ReadInt(p)
    <3>1. UNCHANGED <<prog, parentVars, backlog, dropped, clientVars, childVars>>
      BY <2>2 DEF ReadInt
    <3>2. LogType' /\ SignalType'
      BY <1>1, <2>2, LogKeepsType DEF ReadInt, SignalType
    <3> QED BY <1>1, <3>1, <3>2 DEF ParentType, ClientType, PlaceType, DataType, ReadWithin, OneOpen
  <2>3. CASE IntExits(p)
    <3>1. UNCHANGED <<prog, hand, cur, tab, arr, sigVars, clientVars, copy, taken, first,
                      held, buf, inbox, poked>>
      BY <2>3 DEF IntExits
    <3>2. LogType'
      BY <1>1, <2>3, LogKeepsType DEF IntExits
    <3>3. child' \in [Conn -> {"none", "hello", "name", "log", "echo", "map", "end"}]
      BY <1>1, <2>3 DEF IntExits, PlaceType
    <3>4. /\ main' = main \/ main' = "end"
          /\ backlog' \subseteq Conn /\ dropped' \subseteq Conn
      BY <1>1, <2>3 DEF IntExits, ParentExits, ParentType
    <3>5. ParentType' /\ OneOpen'
      BY <1>1, <3>1, <3>4 DEF ParentType, OneOpen
    <3> QED BY <1>1, <3>1, <3>2, <3>3, <3>5 DEF SignalType, ClientType, PlaceType, DataType, ReadWithin
  <2> QED BY <2>1, <2>2, <2>3
<1>6. CASE Interrupt
  <2>1. UNCHANGED <<procVars, logVars, prog, parentVars, asleep, backlog, dropped, clientVars, childVars>>
        /\ intr' \subseteq Proc
    BY <1>6, MainIsNoChild DEF Interrupt
  <2> QED BY <1>1, <2>1 DEF LogType, ParentType, SignalType, ClientType, PlaceType, DataType,
                            ReadWithin, OneOpen
<1>7. CASE ClientNext
  <2>1. UNCHANGED <<procVars, logVars, prog, parentVars, sigVars, dropped, childVars>>
    BY <1>7 DEF ClientNext
  <2>2. ClientType' /\ backlog' \subseteq Conn /\ ReadWithin'
    BY <1>7, ClientKeepsType
  <2> QED BY <1>1, <2>1, <2>2 DEF LogType, ParentType, SignalType, PlaceType, DataType, OneOpen
<1>8. ASSUME NEW c \in Conn, ChildNext(c)
      PROVE  /\ LogType' /\ ParentType' /\ SignalType' /\ ClientType'
             /\ PlaceType' /\ DataType' /\ (prog \in Prog)' /\ OneOpen' /\ ReadWithin'
  <2>1. UNCHANGED <<prog, parentVars, sigVars, backlog, dropped, clientVars>>
    BY <1>8 DEF ChildNext
  <2>2. DataType' /\ PlaceType' /\ LogType' /\ ReadWithin'
    BY <1>8, ChildKeepsType
  <2> QED BY <1>1, <2>1, <2>2 DEF ParentType, SignalType, ClientType, OneOpen
<1> QED BY <1>3, <1>4, <1>5, <1>6, <1>7, <1>8 DEF Next

LEMMA TypeInvariant == Spec => []TypeInv
<1>1. TypeInv /\ [Next]_vars => TypeInv'
  <2>1. CASE UNCHANGED vars
    BY <2>1 DEF vars, TypeInv, TypeOK, ProcTypeOK, OneOpen, ReadWithin
  <2> QED BY <2>1, NextKeepsType
<1> QED BY <1>1, InitType, PTL DEF Spec

\* Every variable keeps its type: the parent finds a descriptor whenever it
\* needs one, and a child never reads or writes back more than was sent.
THEOREM TypeCorrect == Spec => []TypeOK
<1>1. TypeInv => TypeOK
  BY DEF TypeInv
<1> QED BY <1>1, TypeInvariant, PTL

-----------------------------------------------------------------------------
(* The zombies.  Each end of a child that leaves one raises the signal or    *)
(* merges with one raised already, and each signal taken reaps one.        *)

Accounted ==
  Runs(Main) =>
    /\ IsFiniteSet(Zombies)
    /\ Cardinality(Zombies) <=
         merged + (IF pending THEN 1 ELSE 0) + (IF hand THEN 1 ELSE 0)

LEMMA EndCounts ==
  ASSUME ProcTypeOK, Accounted, NEW p \in Proc \ {Main}, ChildEnds(p), hand \in BOOLEAN, hand' = hand
  PROVE  Accounted'
<1> USE DEF ProcTypeOK
<1> SUFFICES ASSUME Runs(Main)'
             PROVE  /\ IsFiniteSet(Zombies')
                    /\ Cardinality(Zombies') <=
                         merged' + (IF pending' THEN 1 ELSE 0) + (IF hand' THEN 1 ELSE 0)
  BY DEF Accounted, Zombies
<1>1. Runs(Main)
  BY MainIsNoChild DEF ChildEnds, Runs
<1>2. /\ life' = [life EXCEPT ![p] = "zombie"] /\ pending' = TRUE
      /\ merged' = merged + IF pending THEN 1 ELSE 0
  BY <1>1 DEF ChildEnds
<1>3. Zombies' = Zombies \cup {p} /\ p \notin Zombies
  BY <1>2 DEF Zombies, ChildEnds, Runs
<1>4. /\ IsFiniteSet(Zombies) /\ Cardinality(Zombies) \in Nat
      /\ Cardinality(Zombies) <= merged + (IF pending THEN 1 ELSE 0) + (IF hand THEN 1 ELSE 0)
  BY <1>1, FS_CardinalityType DEF Accounted
<1>5. IsFiniteSet(Zombies') /\ Cardinality(Zombies') = Cardinality(Zombies) + 1
  BY <1>3, <1>4, FS_AddElement
<1>6. Cardinality(Zombies') <= merged' + 1 + (IF hand THEN 1 ELSE 0)
  <2>1. CASE pending = TRUE
    BY <1>2, <1>4, <1>5, <2>1
  <2>2. CASE pending = FALSE
    BY <1>2, <1>4, <1>5, <2>2
  <2> QED BY <2>1, <2>2
<1> QED BY <1>2, <1>5, <1>6

LEMMA ReapCounts ==
  ASSUME ProcTypeOK, Accounted, hand = TRUE, hand' = FALSE, WaitNoHang
  PROVE  Accounted'
<1> USE DEF ProcTypeOK
<1> SUFFICES ASSUME Runs(Main)'
             PROVE  /\ IsFiniteSet(Zombies')
                    /\ Cardinality(Zombies') <=
                         merged' + (IF pending' THEN 1 ELSE 0) + (IF hand' THEN 1 ELSE 0)
  BY DEF Accounted, Zombies
<1>1. Runs(Main) /\ UNCHANGED <<pending, merged>>
  BY MainIsNoChild DEF WaitNoHang, Runs
<1>2. /\ IsFiniteSet(Zombies) /\ Cardinality(Zombies) \in Nat
      /\ Cardinality(Zombies) <= merged + (IF pending THEN 1 ELSE 0) + 1
  BY <1>1, FS_CardinalityType DEF Accounted
<1>3. CASE Zombies = {}
  <2>1. Zombies' = {}
    BY <1>3 DEF WaitNoHang, Zombies
  <2>2. Cardinality(Zombies') = 0 /\ IsFiniteSet(Zombies')
    BY <2>1, FS_EmptySet
  <2>3. 0 <= merged + (IF pending THEN 1 ELSE 0)
    BY DEF ProcTypeOK
  <2> QED BY <1>1, <2>2, <2>3
<1>4. CASE Zombies # {}
  <2>1. PICK p \in Zombies : life' = [life EXCEPT ![p] = "gone"]
    BY <1>4 DEF WaitNoHang
  <2>2. Zombies' = Zombies \ {p}
    BY <2>1 DEF Zombies
  <2>3. IsFiniteSet(Zombies') /\ Cardinality(Zombies') = Cardinality(Zombies) - 1
    BY <1>2, <2>1, <2>2, FS_RemoveElement
  <2> QED BY <1>1, <1>2, <2>3
<1> QED BY <1>3, <1>4

LEMMA StepCounts ==
  ASSUME TypeInv, Accounted, [Next]_vars
  PROVE  Accounted'
<1>1. ProcTypeOK /\ hand \in BOOLEAN /\ pending \in BOOLEAN /\ merged \in Nat
  BY DEF TypeInv, TypeOK, ProcTypeOK
<1>2. CASE UNCHANGED <<procVars, hand>>
  BY <1>2 DEF Accounted, Zombies, Runs
<1>3. CASE Next
  <2>1. ProcStep
    BY <1>1, <1>3, NextProcStep DEF TypeInv, TypeOK, OneOpen
  <2>2. ASSUME hand' = hand, NEW p \in Conn, Forked(p) PROVE Accounted'
    <3>1. Zombies' = Zombies /\ (Runs(Main)' => Runs(Main)) /\ UNCHANGED <<pending, merged>>
      BY <1>1, <2>2, MainIsNoChild DEF Forked, Zombies, Runs, ProcTypeOK
    <3> QED BY <2>2, <3>1 DEF Accounted
  <2>3. CASE hand' = hand /\ ParentEnds
    <3>1. ~Runs(Main)'
      BY <2>3, MainIsNoChild DEF ParentEnds, Runs
    <3> QED BY <3>1 DEF Accounted
  <2>4. CASE pending /\ ~hand /\ pending' = FALSE /\ hand' = TRUE /\ UNCHANGED <<life, merged>>
    <3>1. Zombies' = Zombies /\ Runs(Main)' = Runs(Main)
      BY <2>4 DEF Zombies, Runs
    <3>2. merged + (IF pending THEN 1 ELSE 0) + (IF hand THEN 1 ELSE 0)
            = merged' + (IF pending' THEN 1 ELSE 0) + (IF hand' THEN 1 ELSE 0)
      BY <1>1, <2>4
    <3> QED BY <3>1, <3>2 DEF Accounted
  <2>5. ASSUME NEW p \in Proc \ {Main}, ChildEnds(p), hand' = hand PROVE Accounted'
    BY <1>1, <2>5, EndCounts
  <2>6. CASE hand /\ hand' = FALSE /\ WaitNoHang
    BY <1>1, <2>6, ReapCounts
  <2> QED BY <1>2, <2>1, <2>2, <2>3, <2>4, <2>5, <2>6 DEF ProcStep
<1> QED BY <1>2, <1>3 DEF vars

\* There are no more zombies than signals to come, a signal being handled, and
\* signals that were merged: nothing but merging leaves one behind.
THEOREM ZombiesAccounted == Spec => []ZombiesWereMerged
<1>1. Init => Accounted
  <2> SUFFICES ASSUME Init PROVE Accounted
    OBVIOUS
  <2>1. Zombies = {}
    BY DEF Init, Zombies
  <2>2. IsFiniteSet(Zombies) /\ Cardinality(Zombies) = 0
    BY <2>1, FS_EmptySet
  <2> QED BY <2>2 DEF Init, Accounted
<1>2. Accounted => ZombiesWereMerged
  BY DEF Accounted, ZombiesWereMerged
<1> QED BY <1>1, <1>2, StepCounts, TypeInvariant, PTL DEF Spec

-----------------------------------------------------------------------------
(* Why the parent ends.  Who sleeps in read_int has written "exit", and in   *)
(* ch11 accept is only interrupted after the end of a child.               *)

Told == \E k \in 1..Len(written) : written[k] = Exit
ChildEnded == \E c \in Conn : child[c] = "end"

Caused ==
  /\ asleep # {} => Told
  /\ ~LogsByProcess => intr = {} /\ asleep = {} /\ life[Logger] = "none"
  /\ \A c \in Conn : child[c] # "none" => life[c] # "none"
  /\ prog = "ch11" /\ (pending \/ hand \/ main \in {"failed", "end"}) => ChildEnded
  /\ prog # "ch11" /\ main = "end" => Told

LEMMA WriteTells ==
  ASSUME LogType, NEW m \in Conn \cup {Exit}, WritePipe(m)
  PROVE  (Told \/ m = Exit) => Told'
<1>1. /\ written \in Seq(Conn \cup {Exit}) /\ Len(written) \in Nat /\ written' = Append(written, m)
  BY LenProperties DEF LogType, WritePipe
<1>2. /\ Len(written') = Len(written) + 1 /\ written'[Len(written) + 1] = m
      /\ \A k \in 1..Len(written) : written'[k] = written[k]
  BY <1>1, AppendProperties
<1>3. CASE m = Exit
  <2>1. Len(written) + 1 \in 1..Len(written')
    BY <1>1, <1>2
  <2> QED BY <1>2, <1>3, <2>1 DEF Told
<1>4. CASE Told
  <2>1. PICK k \in 1..Len(written) : written[k] = Exit
    BY <1>4 DEF Told
  <2>2. k \in 1..Len(written') /\ written'[k] = Exit
    BY <1>1, <1>2, <2>1
  <2> QED BY <2>2 DEF Told
<1> QED BY <1>3, <1>4

LEMMA ParentCaused ==
  ASSUME TypeInv, Caused, ParentNext
  PROVE  Caused'
<1>1. UNCHANGED <<logVars, prog, sigVars>>
  BY DEF ParentNext
<1>2. /\ life \in [Proc -> {"none", "runs", "zombie", "gone"}] /\ pending \in BOOLEAN
      /\ hand \in BOOLEAN
      /\ child \in [Conn -> {"none", "hello", "name", "log", "echo", "map", "end"}]
  BY DEF TypeInv, TypeOK, ProcTypeOK
<1>3. Told' = Told /\ LogsByProcess' = LogsByProcess
  BY <1>1 DEF Told, LogsByProcess
<1>4. CASE Fork
  <2>1. main = "fork" /\ main' = "close" /\ UNCHANGED hand /\ cur \in Conn
    BY <1>4 DEF Fork, MainRuns, TypeInv, OneOpen
  <2>2. CASE UNCHANGED <<procVars, child>>
    BY <1>1, <1>3, <2>1, <2>2 DEF Caused, ChildEnded
  <2>3. CASE Forked(cur) /\ child' = [child EXCEPT ![cur] = FirstPlace]
    <3>1. UNCHANGED <<pending>> /\ life[cur] = "none" /\ life' = [life EXCEPT ![cur] = "runs"]
      BY <2>3 DEF Forked
    <3>2. child[cur] = "none"
      BY <2>1, <3>1 DEF Caused
    <3>3. ChildEnded => ChildEnded'
      BY <1>2, <2>1, <2>3, <3>2 DEF ChildEnded
    <3>4. \A c \in Conn : child'[c] # "none" => life'[c] # "none"
      BY <1>2, <2>1, <2>3, <3>1, MainIsNoChild DEF Caused
    <3>5. life'[Logger] = life[Logger]
      BY <1>2, <2>1, <3>1, ProcessesAssumption
    <3> QED BY <1>1, <1>3, <2>1, <3>1, <3>3, <3>4, <3>5 DEF Caused
  <2> QED BY <1>4, <2>2, <2>3 DEF Fork
<1>5. CASE UNCHANGED child
  <2>1. ChildEnded' = ChildEnded
    BY <1>5 DEF ChildEnded
  <2>2. CASE UNCHANGED procVars /\ hand' = hand /\ main' \in {"accept", "fork"}
    BY <1>1, <1>3, <1>5, <2>1, <2>2 DEF Caused
  <2>3. ASSUME NEW pc \in {"unstarted", "end"}, ParentExits(pc), hand' = hand,
               pc = "unstarted" \/ (main = "failed" /\ prog = "ch11")
        PROVE  Caused'
    <3>1. UNCHANGED pending /\ main' = pc
      BY <2>3 DEF ParentExits, ParentEnds
    <3>2. \A p \in Proc \ {Main} : life'[p] = "none" <=> life[p] = "none"
      BY <1>2, <2>3 DEF ParentExits, ParentEnds
    <3>3. \A c \in Conn : child'[c] # "none" => life'[c] # "none"
      BY <1>5, <3>2, MainIsNoChild DEF Caused
    <3>4. life[Logger] = "none" => life'[Logger] = "none"
      BY <3>2, MainIsNoChild
    <3> QED BY <1>1, <1>3, <2>1, <2>3, <3>1, <3>3, <3>4 DEF Caused
  <2>4. CASE Boot
    <3>1. hand' = hand
      BY <2>4 DEF Boot
    <3>2. CASE main' = "accept" /\ UNCHANGED procVars
      BY <2>2, <3>1, <3>2
    <3>3. CASE ParentExits("unstarted")
      <4>1. "unstarted" \in {"unstarted", "end"} /\ "unstarted" = "unstarted"
        OBVIOUS
      <4> QED BY <2>3, <3>1, <3>3, <4>1
    <3> QED BY <2>4, <3>2, <3>3 DEF Boot
  <2>5. CASE Accept
    BY <2>2, <2>5 DEF Accept
  <2>6. CASE AcceptFailed
    BY <2>2, <2>3, <2>6 DEF AcceptFailed, AcceptError, AcceptAgain, MainRuns
  <2>7. CASE CloseData
    BY <2>2, <2>7 DEF CloseData
  <2>8. CASE TakeChld
    <3>1. pending /\ pending' = FALSE /\ UNCHANGED life /\ (main' = main \/ main' = "failed")
      BY <2>8 DEF TakeChld
    <3> QED BY <1>1, <1>3, <1>5, <2>1, <3>1 DEF Caused
  <2>9. CASE Reap
    <3>1. hand /\ hand' = FALSE /\ UNCHANGED <<main, pending>>
      BY <2>9 DEF Reap, Reaped, WaitNoHang
    <3>2. \A p \in Proc : life'[p] = "none" <=> life[p] = "none"
      <4>1. life' = life \/ \E p \in Zombies : life' = [life EXCEPT ![p] = "gone"]
        BY <2>9 DEF Reap, Reaped, WaitNoHang
      <4>2. CASE life' = life
        BY <4>2
      <4>3. ASSUME NEW p \in Zombies, life' = [life EXCEPT ![p] = "gone"]
            PROVE  \A q \in Proc : life'[q] = "none" <=> life[q] = "none"
        BY <1>2, <4>3 DEF Zombies
      <4> QED BY <4>1, <4>2, <4>3
    <3> QED BY <1>1, <1>3, <1>5, <2>1, <3>1, <3>2, MainIsNoChild DEF Caused
  <2> QED BY <1>4, <2>4, <2>5, <2>6, <2>7, <2>8, <2>9 DEF ParentNext
<1> QED BY <1>4, <1>5 DEF ParentNext

\* The end of a process that is not the parent.
LEMMA EndCaused ==
  ASSUME TypeInv, NEW p \in Proc \ {Main}, ChildEnds(p)
  PROVE  \A q \in Proc : life'[q] = "none" <=> life[q] = "none"
<1>1. life \in [Proc -> {"none", "runs", "zombie", "gone"}]
  BY DEF TypeInv, TypeOK, ProcTypeOK
<1>2. life[p] = "runs" /\ (life' = [life EXCEPT ![p] = "zombie"] \/ life' = [life EXCEPT ![p] = "gone"])
  BY DEF ChildEnds, Runs
<1> QED BY <1>1, <1>2

LEMMA ChildCaused ==
  ASSUME TypeInv, Caused, NEW c \in Conn, ChildNext(c)
  PROVE  Caused'
<1>1. UNCHANGED <<prog, parentVars, sigVars>> /\ LogsByProcess' = LogsByProcess
  BY DEF ChildNext, LogsByProcess
<1>2. child \in [Conn -> {"none", "hello", "name", "log", "echo", "map", "end"}] /\ LogType
  BY TypeParts DEF TypeInv, PlaceType
<1>3. \/ Hello(c) \/ ReadName(c) \/ LogName(c) \/ ReadLine(c) \/ WriteBack(c)
      \/ EndOfClient(c) \/ AnswerMap(c)
  BY DEF ChildNext
<1>4. child[c] # "end" /\ life[c] = "runs"
  BY <1>3 DEF Hello, ReadName, LogName, ReadLine, WriteBack, EndOfClient, AnswerMap, ChildRuns, Runs
<1>5. \/ UNCHANGED procVars /\ \E pc \in {"name", "log", "echo"} : child' = [child EXCEPT ![c] = pc]
      \/ ChildEnds(c) /\ child' = [child EXCEPT ![c] = "end"]
  BY <1>3 DEF Hello, ReadName, LogName, ReadLine, WriteBack, EndOfClient, AnswerMap, Goes, Ends
<1>6. ChildEnded => ChildEnded'
  BY <1>2, <1>4, <1>5 DEF ChildEnded
<1>7. \A q \in Proc : life'[q] = "none" <=> life[q] = "none"
  BY <1>5, EndCaused, MainIsNoChild
<1>8. Told => Told'
  <2>1. UNCHANGED logVars \/ WritePipe(c) \/ AppendToFile(c)
    BY <1>3 DEF Hello, ReadName, LogName, ReadLine, WriteBack, EndOfClient, AnswerMap
  <2>2. CASE UNCHANGED logVars \/ AppendToFile(c)
    BY <2>2 DEF AppendToFile, Told
  <2> QED BY <1>2, <2>1, <2>2, WriteTells
<1>9. pending' => pending \/ ChildEnded'
  BY <1>2, <1>5 DEF ChildEnded
<1>10. \A d \in Conn : child'[d] # "none" => life'[d] # "none"
  <2> SUFFICES ASSUME NEW d \in Conn, child'[d] # "none" PROVE life[d] # "none"
    BY <1>7, MainIsNoChild
  <2>1. CASE d = c
    BY <1>4, <2>1
  <2>2. CASE d # c
    BY <1>2, <1>5, <2>2 DEF Caused
  <2> QED BY <2>1, <2>2
<1> QED BY <1>1, <1>6, <1>7, <1>8, <1>9, <1>10, MainIsNoChild DEF Caused

LEMMA SignalCaused ==
  ASSUME TypeInv, Caused, SignalNext
  PROVE  Caused'
<1>1. PICK p \in Proc : ReadInt(p) \/ IntExits(p)
  BY DEF SignalNext
<1>2. CASE ReadInt(p)
  <2>1. UNCHANGED <<procVars, prog, parentVars, childVars>> /\ p \in intr /\ WritePipe(Exit)
    BY <1>2 DEF ReadInt
  <2>2. Told'
    BY <2>1, WriteTells, TypeParts DEF TypeInv
  <2>3. LogsByProcess /\ LogsByProcess' = LogsByProcess
    BY <2>1 DEF Caused, LogsByProcess
  <2>4. ChildEnded' = ChildEnded
    BY <2>1 DEF ChildEnded
  <2> QED BY <2>1, <2>2, <2>3, <2>4 DEF Caused
<1>3. CASE IntExits(p)
  <2>1. /\ UNCHANGED <<prog, hand, sigVars, written>> /\ p \in asleep /\ LogsByProcess' = LogsByProcess
    BY <1>3 DEF IntExits, LogsByProcess, Flush
  <2>2. LogsByProcess /\ Told /\ Told'
    BY <2>1 DEF Caused, Told
  <2>3. prog # "ch11"
    BY <2>2 DEF LogsByProcess
  <2>4. \A q \in Proc : life'[q] = "none" <=> life[q] = "none"
    <3>1. CASE p = Main
      BY <1>3, <3>1 DEF IntExits, ParentExits, ParentEnds, TypeInv, TypeOK, ProcTypeOK, Runs
    <3>2. CASE p # Main
      <4>1. ChildEnds(p)
        BY <1>3, <3>2 DEF IntExits
      <4> QED BY <3>2, <4>1, EndCaused
    <3> QED BY <3>1, <3>2
  <2>5. \A c \in Conn : child'[c] # "none" => life'[c] # "none"
    <3> SUFFICES ASSUME NEW c \in Conn, child'[c] # "none" PROVE life[c] # "none"
      BY <2>4, MainIsNoChild
    <3>1. child' = [d \in Conn |-> IF d = p THEN "end" ELSE child[d]] /\ life[p] = "runs"
      BY <1>3 DEF IntExits, Runs
    <3> QED BY <3>1 DEF Caused
  <2> QED BY <2>1, <2>2, <2>3, <2>5 DEF Caused
<1> QED BY <1>1, <1>2, <1>3

LEMMA StepCaused ==
  ASSUME TypeInv, Caused, [Next]_vars
  PROVE  Caused'
<1>1. CASE UNCHANGED vars
  BY <1>1 DEF vars, Caused, Told, ChildEnded, LogsByProcess
<1>2. CASE LoggerNext
  <2>1. UNCHANGED <<prog, parentVars, sigVars, childVars, written>> /\ life[Logger] = "runs"
    BY <1>2 DEF LoggerNext, ReadLines, ReadExit, Runs
  <2>2. Told' = Told /\ ChildEnded' = ChildEnded /\ LogsByProcess' = LogsByProcess
    BY <2>1 DEF Told, ChildEnded, LogsByProcess
  <2>3. LogsByProcess /\ prog # "ch11"
    BY <2>1 DEF Caused, LogsByProcess
  <2>4. \A q \in Proc : life'[q] = "none" <=> life[q] = "none"
    BY <1>2, EndCaused, MainIsNoChild DEF LoggerNext
  <2> QED BY <2>1, <2>2, <2>3, <2>4, MainIsNoChild DEF Caused
<1>3. CASE Interrupt
  <2>1. UNCHANGED <<procVars, logVars, prog, parentVars, asleep, childVars>> /\ LogsByProcess
    BY <1>3 DEF Interrupt
  <2> QED BY <2>1 DEF Caused, Told, ChildEnded, LogsByProcess
<1>4. CASE ClientNext
  <2>1. UNCHANGED <<procVars, logVars, prog, parentVars, sigVars, childVars>>
    BY <1>4 DEF ClientNext
  <2> QED BY <2>1 DEF Caused, Told, ChildEnded, LogsByProcess
<1> QED BY <1>1, <1>2, <1>3, <1>4, ParentCaused, ChildCaused, SignalCaused DEF Next

-----------------------------------------------------------------------------
(* The log.  As long as the logger runs, what it has in its buffer and what  *)
(* is in the pipe are all that was ever written, and the file is empty.      *)

LoggedWhole == \E k \in 1..Len(written) : written[k] = Exit /\ file = SubSeq(written, 1, k - 1)

LogInv ==
  LogsByProcess =>
    /\ Runs(Logger) => file = <<>> /\ fbuf \o pipe = written
    /\ ~Runs(Logger) /\ Logger \notin asleep => LoggedWhole

LEMMA PrefixOfAppend ==
  ASSUME NEW S, NEW s \in Seq(S), NEW e \in S, NEW k \in 1..Len(s)
  PROVE  SubSeq(Append(s, e), 1, k - 1) = SubSeq(s, 1, k - 1)
<1>1. /\ Len(s) \in Nat /\ \A i \in 1..Len(s) : s[i] \in S
      /\ \A i \in 1..Len(s) : Append(s, e)[i] = s[i]
  BY LenProperties, AppendProperties
<1>2. k - 1 \in Int /\ 1 \in Int /\ \A i \in 1..(k - 1) : i \in 1..Len(s)
  BY <1>1
<1>3. \A i \in 1..(k - 1) : s[i] \in S /\ Append(s, e)[i] \in S
  BY <1>1, <1>2
<1> DEFINE a == SubSeq(s, 1, k - 1)
           b == SubSeq(Append(s, e), 1, k - 1)
<1>4. /\ a \in Seq(S) /\ Len(a) = (IF 1 <= k - 1 THEN k - 1 - 1 + 1 ELSE 0)
      /\ \A i \in 1..(k - 1 - 1 + 1) : a[i] = s[1 + i - 1]
  BY <1>2, <1>3, SubSeqProperties
<1>5. /\ b \in Seq(S) /\ Len(b) = (IF 1 <= k - 1 THEN k - 1 - 1 + 1 ELSE 0)
      /\ \A i \in 1..(k - 1 - 1 + 1) : b[i] = Append(s, e)[1 + i - 1]
  BY <1>2, <1>3, SubSeqProperties
<1> HIDE DEF a, b
<1>6. Len(a) = Len(b)
  BY <1>4, <1>5
<1>7. ASSUME NEW i \in 1..Len(b) PROVE b[i] = a[i]
  <2>1. i \in 1..(k - 1 - 1 + 1) /\ i \in 1..Len(s) /\ 1 + i - 1 = i
    BY <1>1, <1>5
  <2> QED BY <1>1, <1>4, <1>5, <2>1
<1>8. b = a
  BY <1>4, <1>5, <1>6, <1>7, SeqEqual
<1> QED BY <1>8 DEF a, b

LEMMA ConcatAppend ==
  ASSUME NEW S, NEW s \in Seq(S), NEW t \in Seq(S), NEW e \in S
  PROVE  s \o Append(t, e) = Append(s \o t, e)
<1>1. <<e>> \in Seq(S) /\ s \o t \in Seq(S)
  BY ConcatProperties
<1>2. Append(t, e) = t \o <<e>> /\ Append(s \o t, e) = (s \o t) \o <<e>>
  BY <1>1, AppendIsConcat
<1> QED BY <1>1, <1>2, ConcatAssociative

\* A line more in the pipe.
LEMMA WriteLogs ==
  ASSUME LogType, LogInv, UNCHANGED <<prog, life>>, asleep \subseteq asleep',
         NEW m \in Conn \cup {Exit}, WritePipe(m)
  PROVE  LogInv'
<1> DEFINE Line == Conn \cup {Exit}
<1>1. /\ pipe \in Seq(Line) /\ fbuf \in Seq(Line) /\ written \in Seq(Line) /\ Len(written) \in Nat
      /\ pipe' = Append(pipe, m) /\ written' = Append(written, m) /\ UNCHANGED <<fbuf, file>>
  BY LenProperties DEF LogType, WritePipe
<1>2. LogsByProcess' = LogsByProcess /\ Runs(Logger)' = Runs(Logger)
  BY DEF LogsByProcess, Runs
<1>3. fbuf \o pipe = written => fbuf' \o pipe' = written'
  <2>1. m \in Line /\ fbuf \in Seq(Line) /\ pipe \in Seq(Line)
    BY <1>1
  <2> HIDE DEF Line
  <2>2. fbuf \o Append(pipe, m) = Append(fbuf \o pipe, m)
    BY <2>1, ConcatAppend
  <2> QED BY <1>1, <2>2, Zenon
<1>4. LoggedWhole => LoggedWhole'
  <2> SUFFICES ASSUME NEW k \in 1..Len(written), written[k] = Exit, file = SubSeq(written, 1, k - 1)
               PROVE  k \in 1..Len(written') /\ written'[k] = Exit /\ file' = SubSeq(written', 1, k - 1)
    BY DEF LoggedWhole
  <2>1. Len(written') = Len(written) + 1 /\ written'[k] = written[k]
    BY <1>1, AppendProperties
  <2>2. SubSeq(written', 1, k - 1) = SubSeq(written, 1, k - 1)
    BY <1>1, PrefixOfAppend
  <2>3. k \in 1..Len(written')
    BY <1>1, <2>1
  <2> QED BY <1>1, <2>1, <2>2, <2>3
<1> QED BY <1>1, <1>2, <1>3, <1>4 DEF LogInv

\* The logger empties the pipe.
LEMMA LoggerLogs ==
  ASSUME TypeInv, LogInv, LoggerNext
  PROVE  LogInv'
<1> DEFINE Line == Conn \cup {Exit}
<1>1. /\ pipe \in Seq(Line) /\ fbuf \in Seq(Line) /\ written \in Seq(Line)
      /\ Len(fbuf) \in Nat /\ Len(pipe) \in Nat
      /\ life \in [Proc -> {"none", "runs", "zombie", "gone"}] /\ Logger \in Proc
  BY LenProperties, TypeParts, MainIsNoChild DEF LogType, TypeInv, ProcTypeOK
<1>2. /\ LogsByProcess' = LogsByProcess /\ UNCHANGED <<asleep, written>> /\ pipe # <<>>
      /\ pipe' = <<>> /\ life[Logger] = "runs"
  BY DEF LoggerNext, LogsByProcess, ReadLines, ReadExit, Runs
<1>3. CASE ReadLines /\ UNCHANGED procVars
  <2>1. fbuf' = fbuf \o pipe /\ file' = file /\ life' = life
    BY <1>3 DEF ReadLines
  <2>2. fbuf' \o <<>> = fbuf'
    BY <1>1, <2>1, ConcatProperties, ConcatEmptySeq
  <2> QED BY <1>2, <2>1, <2>2 DEF LogInv, Runs
<1>4. CASE ReadExit /\ ChildEnds(Logger)
  <2>1. file' = file \o fbuf /\ Head(pipe) = Exit
    BY <1>4 DEF ReadExit, Flush, SaysExit
  <2>2. life'[Logger] # "runs"
    BY <1>1, <1>4 DEF ChildEnds
  <2>3. LogsByProcess => LoggedWhole'
    <3> SUFFICES ASSUME LogsByProcess
                 PROVE  \E k \in 1..Len(written) : written[k] = Exit /\ file' = SubSeq(written, 1, k - 1)
      BY <1>2 DEF LoggedWhole
    <3>1. file' = fbuf /\ fbuf \o pipe = written
      BY <1>1, <1>2, <2>1, ConcatEmptySeq DEF LogInv, Runs
    <3>2. Len(pipe) >= 1 /\ pipe[1] = Exit
      BY <1>1, <1>2, <2>1, EmptySeq
    <3>3. /\ Len(fbuf \o pipe) = Len(fbuf) + Len(pipe)
          /\ \A i \in 1..(Len(fbuf) + Len(pipe)) :
               (fbuf \o pipe)[i] = IF i <= Len(fbuf) THEN fbuf[i] ELSE pipe[i - Len(fbuf)]
      BY <1>1, ConcatProperties
    <3> DEFINE k == Len(fbuf) + 1
    <3>4. k \in 1..Len(written) /\ k - 1 = Len(fbuf) /\ ~(k <= Len(fbuf)) /\ k - Len(fbuf) = 1
      BY <1>1, <3>1, <3>2, <3>3
    <3>5. written[k] = Exit
      BY <3>1, <3>2, <3>3, <3>4
    <3>6. SubSeq(written, 1, k - 1) = fbuf
      BY <1>1, <3>1, <3>4, SubSeqOfConcat1
    <3> QED BY <3>1, <3>4, <3>5, <3>6
  <2> QED BY <1>2, <2>2, <2>3 DEF LogInv, Runs
<1> QED BY <1>3, <1>4 DEF LoggerNext

\* A step of another process leaves the logger running or ended as it is.
LEMMA LogKept ==
  ASSUME LogInv, UNCHANGED <<prog, logVars, asleep>>, Runs(Logger)' = Runs(Logger)
  PROVE  LogInv'
BY DEF LogInv, LogsByProcess, LoggedWhole

LEMMA StepLogs ==
  ASSUME TypeInv, Caused, LogInv, [Next]_vars
  PROVE  LogInv'
<1>1. LogType /\ life \in [Proc -> {"none", "runs", "zombie", "gone"}] /\ Logger \in Proc
  BY TypeParts, MainIsNoChild DEF TypeInv, ProcTypeOK
<1>2. ASSUME NEW p \in Proc \ {Logger}, life' = life \/ (Runs(p) /\ life' = [life EXCEPT ![p] = "zombie"])
                                        \/ (Runs(p) /\ life' = [life EXCEPT ![p] = "gone"])
      PROVE  Runs(Logger)' = Runs(Logger)
  BY <1>1, <1>2 DEF Runs
<1>3. CASE UNCHANGED vars
  BY <1>3, LogKept DEF vars, Runs
<1>4. CASE ParentNext
  <2>1. UNCHANGED <<prog, logVars, asleep>>
    BY <1>4 DEF ParentNext
  <2>2. Runs(Logger)' = Runs(Logger)
    <3>1. CASE life' = life
      BY <3>1 DEF Runs
    <3>2. CASE Forked(cur) /\ main = "fork"
      <4>1. cur \in Conn /\ cur # Logger
        BY <3>2, ProcessesAssumption DEF TypeInv, OneOpen
      <4> QED BY <1>1, <3>2, <4>1 DEF Forked, Runs
    <3>3. CASE ParentEnds
      BY <1>1, <3>3, ProcessesAssumption DEF ParentEnds, Runs
    <3>4. CASE WaitNoHang
      BY <1>1, <3>4 DEF WaitNoHang, Zombies, Runs
    <3> QED BY <1>4, <3>1, <3>2, <3>3, <3>4
            DEF ParentNext, Fork, MainRuns, Boot, Accept, AcceptFailed, AcceptError, AcceptAgain, CloseData,
                TakeChld, Reap, Reaped, ParentExits
  <2> QED BY <2>1, <2>2, LogKept
<1>5. CASE LoggerNext
  BY <1>5, LoggerLogs
<1>6. ASSUME NEW p \in Proc, ReadInt(p) PROVE LogInv'
  <2>1. UNCHANGED <<prog, life>> /\ asleep \subseteq asleep' /\ WritePipe(Exit)
    BY <1>6 DEF ReadInt
  <2> QED BY <1>1, <2>1, WriteLogs
<1>7. ASSUME NEW p \in Proc, IntExits(p) PROVE LogInv'
  <2>1. UNCHANGED <<prog, asleep>> /\ p \in asleep
    BY <1>7 DEF IntExits
  <2>2. CASE p = Logger
    <3>1. Logger \in asleep' /\ ~Runs(Logger)'
      BY <1>1, <1>7, <2>1, <2>2, MainIsNoChild DEF IntExits, ChildEnds, Runs
    <3> QED BY <3>1 DEF LogInv
  <2>3. CASE p # Logger
    <3>1. UNCHANGED logVars
      BY <1>7, <2>3 DEF IntExits
    <3>2. Runs(Logger)' = Runs(Logger)
      <4>1. CASE p = Main
        BY <1>1, <1>7, <4>1, ProcessesAssumption DEF IntExits, ParentExits, ParentEnds, Runs
      <4>2. CASE p # Main
        <5>1. ChildEnds(p)
          BY <1>7, <4>2 DEF IntExits
        <5> QED BY <1>2, <2>3, <5>1 DEF ChildEnds
      <4> QED BY <4>1, <4>2
    <3> QED BY <2>1, <3>1, <3>2, LogKept
  <2> QED BY <2>2, <2>3
<1>8. CASE Interrupt \/ ClientNext
  <2>1. UNCHANGED <<prog, logVars, asleep, life>>
    BY <1>8 DEF Interrupt, ClientNext
  <2> QED BY <2>1, LogKept DEF Runs
<1>9. ASSUME NEW c \in Conn, ChildNext(c) PROVE LogInv'
  <2>1. UNCHANGED <<prog, asleep>>
    BY <1>9 DEF ChildNext
  <2>2. UNCHANGED procVars \/ ChildEnds(c)
    BY <1>9 DEF ChildNext, Hello, ReadName, LogName, ReadLine, WriteBack, EndOfClient, AnswerMap, Goes, Ends
  <2>3. Runs(Logger)' = Runs(Logger)
    BY <1>2, <2>2, MainIsNoChild, ProcessesAssumption DEF ChildEnds
  <2>4. CASE UNCHANGED logVars
    BY <2>1, <2>3, <2>4, LogKept
  <2>5. CASE LogName(c)
    <3>1. life' = life
      BY <2>5 DEF LogName, Goes
    <3>2. CASE LogsByProcess
      BY <1>1, <2>1, <2>5, <3>1, <3>2, WriteLogs DEF LogName
    <3>3. CASE ~LogsByProcess
      BY <2>1, <3>3 DEF LogInv, LogsByProcess
    <3> QED BY <3>2, <3>3
  <2> QED BY <1>9, <2>4, <2>5
          DEF ChildNext, Hello, ReadName, ReadLine, WriteBack, EndOfClient, AnswerMap
<1> QED BY <1>3, <1>4, <1>5, <1>6, <1>7, <1>8, <1>9 DEF Next, SignalNext

LEMMA CausedInvariant == Spec => []Caused
<1>1. Init => Caused
  <2> SUFFICES ASSUME Init PROVE Caused
    OBVIOUS
  <2>1. /\ asleep = {} /\ intr = {} /\ pending = FALSE /\ hand = FALSE /\ main = "boot"
        /\ \A c \in Conn : child[c] = "none"
    BY DEF Init
  <2>2. ~LogsByProcess => life[Logger] = "none"
    BY ProcessesAssumption DEF Init, Proc
  <2> QED BY <2>1, <2>2 DEF Caused
<1> QED BY <1>1, StepCaused, TypeInvariant, PTL DEF Spec

\* The parent ends only after "exit" was written into the pipe, and in ch11
\* only after the end of a child, whose signal interrupts accept.
THEOREM ParentEndsForACause == Spec => []EndsForACause
<1>1. Caused => EndsForACause
  BY DEF Caused, EndsForACause, Told, ChildEnded
<1> QED BY <1>1, CausedInvariant, PTL

\* A logger that ended at "exit" has left in the file all the lines that were
\* written into the pipe before it, in order and nothing else, whichever
\* processes wrote them and however its reads cut them up.
THEOREM LogIsWhole == Spec => []LogIsComplete
<1>1. Init => LogInv
  <2> SUFFICES ASSUME Init PROVE LogInv
    OBVIOUS
  <2>1. LogsByProcess => Runs(Logger)
    BY MainIsNoChild DEF Init, Runs
  <2>2. <<>> \o <<>> = <<>>
    OBVIOUS
  <2> QED BY <2>1, <2>2 DEF Init, LogInit, LogInv
<1>2. LogInv => LogIsComplete
  BY DEF LogInv, LogIsComplete, LoggedWhole
<1> QED BY <1>1, <1>2, StepLogs, CausedInvariant, TypeInvariant, PTL DEF Spec
-----------------------------------------------------------------------------
(* What a client hears.  A child knows one connection, its own, and writes  *)
(* to that or to nobody, so that each client's account stands by itself.    *)

OwnCopy(c) == \A f \in Fd : copy[c].tab[f] \in {c, NoConn}

\* A unit of the client's own that its child has read, or what nobody wrote.
Own(c, u) == u = NoUnit \/ (u.from = c /\ u.n <= taken[c])

HearsItself(c) ==
  IF prog = "chat" THEN \A k \in 1..Len(inbox[c]) : Own(c, inbox[c][k])
  ELSE \A k \in 1..Len(inbox[c]) : inbox[c][k] = [from |-> c, n |-> first[c] + k]

\* What is held is at the beginning of buf.
BufHolds(c) ==
  /\ \A k \in 1..held[c] : buf[c][k] = [from |-> c, n |-> taken[c] - held[c] + k]
  /\ \A k \in 1..BufUnits : Own(c, buf[c][k])

NoneLost(c) ==
  prog # "chat" /\ client[c] # "left" /\ Target(c) = c => taken[c] = first[c] + Len(inbox[c]) + held[c]

Fresh(c) == first[c] = 0 /\ taken[c] = 0 /\ held[c] = 0 /\ inbox[c] = <<>>

BeforeEcho(c) ==
  /\ child[c] \in {"none", "hello", "name", "map"} => Fresh(c)
  /\ child[c] = "log" => held[c] = 0 /\ inbox[c] = <<>> /\ taken[c] = first[c]

GoneOnly(c) == c \in poked \cup stop => client[c] = "left"

Account(c) ==
  OwnCopy(c) /\ HearsItself(c) /\ BufHolds(c) /\ NoneLost(c) /\ BeforeEcho(c) /\ GoneOnly(c)
RestInv == \A c \in Conn : Account(c)
LEMMA TargetIsOwn ==
  ASSUME NEW c \in Conn, OwnCopy(c)
  PROVE  Target(c) \in {c, NoConn} /\ (prog # "chat" => Target(c) = c)
BY DEF Target, OwnCopy

\* A step that leaves the data of a client alone: its child goes on to write
\* back or ends, and the client stays gone if it was.
LEMMA AccountKept ==
  ASSUME NEW c \in Conn, Account(c), prog' = prog, copy'[c] = copy[c],
         taken'[c] = taken[c], first'[c] = first[c], held'[c] = held[c], buf'[c] = buf[c],
         inbox'[c] = inbox[c], child'[c] = child[c] \/ child'[c] = "end",
         client[c] = "left" => client'[c] = "left", GoneOnly(c)'
  PROVE  Account(c)'
<1>1. OwnCopy(c)' /\ HearsItself(c)' /\ BufHolds(c)' /\ BeforeEcho(c)'
  BY DEF Account, OwnCopy, HearsItself, BufHolds, Own, BeforeEcho, Fresh
<1>2. Target(c)' = Target(c)
  BY DEF Target, OtherFd
<1>3. NoneLost(c)'
  BY <1>2 DEF Account, NoneLost
<1> QED BY <1>1, <1>3 DEF Account

\* The fork: nothing was read of the connection yet, and the parent holds no
\* other.
LEMMA ForkAccount ==
  ASSUME TypeInv, Caused, RestInv, Fork, UNCHANGED <<prog, clientVars, taken, first, held, buf, inbox, poked>>
  PROVE  RestInv'
<1>1. cur \in Conn /\ (\E f \in Fd : tab = [NoneOpen EXCEPT ![f] = cur]) /\ Conn \subseteq Proc
      /\ copy \in [Conn -> Copy] /\ DOMAIN child = Conn
  BY TypeParts, MainIsNoChild DEF TypeInv, OneOpen, Fork, MainRuns, PlaceType
<1> SUFFICES ASSUME NEW c \in Conn PROVE Account(c)'
  BY DEF RestInv
<1>2. Account(c) /\ GoneOnly(c)'
  BY DEF RestInv, Account, GoneOnly
<1>3. CASE UNCHANGED <<child, copy>> \/ c # cur
  <2>1. child'[c] = child[c] /\ copy'[c] = copy[c]
    BY <1>1, <1>3 DEF Fork
  <2> QED BY <1>2, <2>1, AccountKept
<1>4. CASE ~UNCHANGED <<child, copy>> /\ c = cur
  <2>1. /\ Forked(c) /\ child' = [child EXCEPT ![c] = FirstPlace]
        /\ copy' = [copy EXCEPT ![c] = [tab |-> tab, fd |-> FdOf(c), arr |-> arr]]
    BY <1>4 DEF Fork
  <2>2. child[c] = "none"
    BY <1>1, <2>1 DEF Caused, Forked
  <2>3. Fresh(c)
    BY <1>2, <2>2 DEF Account, BeforeEcho
  <2>4. copy'[c].tab = tab
    BY <1>1, <2>1
  <2>5. OwnCopy(c)'
    BY <1>1, <1>4, <2>4 DEF OwnCopy, NoneOpen
  <2>6. HearsItself(c)' /\ BufHolds(c)'
    BY <1>2 DEF Account, HearsItself, BufHolds, Own
  <2>7. NoneLost(c)' /\ Fresh(c)'
    BY <2>3 DEF NoneLost, Fresh
  <2>8. child'[c] \in {"echo", "name", "map", "hello"}
    BY <1>1, <2>1 DEF FirstPlace
  <2> QED BY <1>2, <2>5, <2>6, <2>7, <2>8 DEF Account, BeforeEcho
<1> QED BY <1>3, <1>4

\* A child leaves every account but its own alone.
LEMMA OtherAccounts ==
  ASSUME TypeInv, RestInv, NEW c \in Conn, ChildNext(c), NEW d \in Conn, d # c
  PROVE  Account(d)'
<1>1. UNCHANGED <<prog, client, stop>>
  BY DEF ChildNext
<1>2. Account(d) /\ Account(c)
  BY DEF RestInv
<1>3. \/ Hello(c) \/ ReadName(c) \/ LogName(c) \/ ReadLine(c) \/ WriteBack(c)
      \/ EndOfClient(c) \/ AnswerMap(c)
  BY DEF ChildNext
<1>4. /\ taken \in [Conn -> 0..MaxSend] /\ first \in [Conn -> 0..MaxSend]
      /\ held \in [Conn -> 0..MaxSend] /\ inbox \in [Conn -> Seq(Heard)]
      /\ buf \in [Conn -> [1..BufUnits -> Heard]]
      /\ DOMAIN child = Conn
  BY TypeParts DEF TypeInv, DataType, PlaceType
<1>5. Target(c) # d
  BY <1>2, TargetIsOwn, ForkAssumption DEF Account
<1>6. child'[d] = child[d] /\ copy' = copy
  BY <1>3, <1>4 DEF Hello, ReadName, LogName, ReadLine, WriteBack, EndOfClient, AnswerMap, Goes, Ends
<1>7. taken'[d] = taken[d] /\ first'[d] = first[d] /\ held'[d] = held[d] /\ buf'[d] = buf[d]
  BY <1>3, <1>4 DEF Hello, ReadName, LogName, ReadLine, TakesAll, WriteBack, EndOfClient, AnswerMap
<1>8. inbox'[d] = inbox[d]
  BY <1>3, <1>4, <1>5 DEF Hello, ReadName, LogName, ReadLine, WriteBack, EndOfClient, AnswerMap
<1>9. d \in poked' => d \in poked
  BY <1>3, <1>5 DEF Hello, Touched, ReadName, LogName, ReadLine, WriteBack, EndOfClient, AnswerMap
<1>10. GoneOnly(d)'
  BY <1>1, <1>2, <1>9 DEF Account, GoneOnly
<1> QED BY <1>1, <1>2, <1>6, <1>7, <1>8, <1>10, AccountKept

\* What was the client's own stays it.
LEMMA OwnLater ==
  ASSUME TypeInv, NEW c \in Conn, NEW u \in Heard, Own(c, u),
         taken'[c] \in Nat, taken[c] <= taken'[c]
  PROVE  Own(c, u)'
<1>1. taken[c] \in Nat /\ (u # NoUnit => u.n \in Nat)
  BY ArrivedType DEF Heard, Unit
<1> QED BY <1>1 DEF Own

\* What a read puts into buf is held, or was the name.
LEMMA ReadHolds ==
  ASSUME TypeInv, NEW c \in Conn, BufHolds(c), NEW n \in Nat, n <= BufUnits,
         taken'[c] = taken[c] + n, held'[c] = 0 \/ held'[c] = n, buf'[c] = Filled(c, n)
  PROVE  BufHolds(c)'
<1>1. taken[c] \in Nat /\ BufUnits \in Nat /\ buf \in [Conn -> [1..BufUnits -> Heard]]
  BY ArrivedType, TypeParts DEF TypeInv, DataType
<1>2. ASSUME NEW k \in 1..BufUnits
      PROVE  /\ k <= n => buf'[c][k] = [from |-> c, n |-> taken[c] + k]
             /\ ~(k <= n) => buf'[c][k] = buf[c][k]
  BY DEF Filled
<1>3. ASSUME NEW k \in 1..held'[c]
      PROVE  buf'[c][k] = [from |-> c, n |-> taken'[c] - held'[c] + k]
  <2>1. held'[c] = n /\ k \in 1..BufUnits /\ k <= n
    BY <1>1, <1>3
  <2>2. taken'[c] - held'[c] + k = taken[c] + k
    BY <1>1, <2>1
  <2> QED BY <1>2, <2>1, <2>2
<1>4. ASSUME NEW k \in 1..BufUnits PROVE Own(c, buf[c][k])'
  <2>1. CASE k <= n
    <3>1. buf'[c][k] = [from |-> c, n |-> taken[c] + k] /\ taken[c] + k <= taken'[c]
      BY <1>1, <1>2, <2>1
    <3> QED BY <3>1 DEF Own
  <2>2. CASE ~(k <= n)
    <3>1. Own(c, buf[c][k]) /\ buf[c][k] \in Heard /\ taken'[c] \in Nat /\ taken[c] <= taken'[c]
      BY <1>1 DEF BufHolds
    <3>2. buf'[c][k] = buf[c][k]
      BY <1>2, <2>2
    <3> QED BY <3>1, <3>2, OwnLater DEF Own
  <2> QED BY <2>1, <2>2
<1> QED BY <1>3, <1>4 DEF BufHolds

\* What is written back follows what was written before.
LEMMA WriteFollows ==
  ASSUME TypeInv, NEW c \in Conn, HearsItself(c), BufHolds(c), prog # "chat",
         taken[c] = first[c] + Len(inbox[c]) + held[c]
  PROVE  LET s == inbox[c] \o HeldUnits(c) IN
         /\ Len(s) = Len(inbox[c]) + held[c]
         /\ \A k \in 1..Len(s) : s[k] = [from |-> c, n |-> first[c] + k]
<1> DEFINE t == HeldUnits(c)
<1>1. /\ inbox[c] \in Seq(Heard) /\ Len(inbox[c]) \in Nat /\ first[c] \in Nat
      /\ held[c] \in Nat /\ taken[c] \in Nat
  <2>1. inbox[c] \in Seq(Heard) /\ first[c] \in 0..MaxSend
    BY TypeParts DEF TypeInv, DataType
  <2> QED BY <2>1, ArrivedType, LenProperties
<1>2. /\ t \in Seq(Heard) /\ Len(t) = held[c]
      /\ \A k \in 1..held[c] : t[k] = [from |-> c, n |-> taken[c] - held[c] + k]
  <2>1. WrittenUnits(c) = held[c]
    BY DEF WrittenUnits
  <2> QED BY <2>1, HeldType DEF BufHolds
<1> HIDE DEF t
<1>3. /\ Len(inbox[c] \o t) = Len(inbox[c]) + held[c]
      /\ \A k \in 1..(Len(inbox[c]) + held[c]) : (inbox[c] \o t)[k] =
           IF k <= Len(inbox[c]) THEN inbox[c][k] ELSE t[k - Len(inbox[c])]
  <2>1. /\ Len(inbox[c] \o t) = Len(inbox[c]) + Len(t)
        /\ \A k \in 1..(Len(inbox[c]) + Len(t)) : (inbox[c] \o t)[k] =
             IF k <= Len(inbox[c]) THEN inbox[c][k] ELSE t[k - Len(inbox[c])]
    BY <1>1, <1>2, ConcatProperties
  <2> QED BY <1>2, <2>1
<1>4. ASSUME NEW k \in 1..(Len(inbox[c]) + held[c])
      PROVE  (inbox[c] \o t)[k] = [from |-> c, n |-> first[c] + k]
  <2>1. CASE k <= Len(inbox[c])
    <3>1. k \in 1..Len(inbox[c])
      BY <1>1, <2>1
    <3> QED BY <1>3, <2>1, <3>1 DEF HearsItself
  <2>2. CASE ~(k <= Len(inbox[c]))
    <3>1. k - Len(inbox[c]) \in 1..held[c]
      BY <1>1, <2>2
    <3>2. taken[c] - held[c] + (k - Len(inbox[c])) = first[c] + k
      BY <1>1
    <3>3. t[k - Len(inbox[c])] = [from |-> c, n |-> first[c] + k]
      BY <1>2, <3>1, <3>2
    <3> QED BY <1>3, <2>2, <3>3
  <2> QED BY <2>1, <2>2
<1> QED BY <1>3, <1>4 DEF t

\* All that is in buf is the client's own.
LEMMA WriteOwn ==
  ASSUME TypeInv, NEW c \in Conn, HearsItself(c), BufHolds(c), prog = "chat"
  PROVE  LET s == inbox[c] \o HeldUnits(c) IN \A k \in 1..Len(s) : Own(c, s[k])
<1> DEFINE t == HeldUnits(c)
<1>1. inbox[c] \in Seq(Heard) /\ Len(inbox[c]) \in Nat
  <2>1. inbox[c] \in Seq(Heard)
    BY TypeParts DEF TypeInv, DataType
  <2> QED BY <2>1, LenProperties
<1>2. t \in Seq(Heard) /\ Len(t) \in Nat /\ \A k \in 1..Len(t) : Own(c, t[k])
  BY HeldType DEF BufHolds
<1> HIDE DEF t
<1>3. /\ Len(inbox[c] \o t) = Len(inbox[c]) + Len(t)
      /\ \A k \in 1..(Len(inbox[c]) + Len(t)) : (inbox[c] \o t)[k] =
           IF k <= Len(inbox[c]) THEN inbox[c][k] ELSE t[k - Len(inbox[c])]
  BY <1>1, <1>2, ConcatProperties
<1>4. ASSUME NEW k \in 1..(Len(inbox[c]) + Len(t)) PROVE Own(c, (inbox[c] \o t)[k])
  <2>1. CASE k <= Len(inbox[c])
    <3>1. k \in 1..Len(inbox[c])
      BY <1>1, <2>1
    <3> QED BY <1>3, <2>1, <3>1 DEF HearsItself
  <2>2. CASE ~(k <= Len(inbox[c]))
    <3>1. k - Len(inbox[c]) \in 1..Len(t)
      BY <1>1, <1>2, <2>2
    <3> QED BY <1>2, <1>3, <2>2, <3>1
  <2> QED BY <2>1, <2>2
<1> QED BY <1>3, <1>4 DEF t

\* A child keeps the account of its own client.
LEMMA OwnAccount ==
  ASSUME TypeInv, RestInv, NEW c \in Conn, ChildNext(c)
  PROVE  Account(c)'
<1>1. UNCHANGED <<prog, client, stop, sent>>
  BY DEF ChildNext
<1>2. /\ Account(c) /\ OwnCopy(c) /\ HearsItself(c) /\ BufHolds(c) /\ NoneLost(c)
      /\ BeforeEcho(c) /\ GoneOnly(c) /\ Target(c) \in {c, NoConn}
  BY TargetIsOwn DEF RestInv, Account
<1>3. \/ Hello(c) \/ ReadName(c) \/ LogName(c) \/ ReadLine(c) \/ WriteBack(c)
      \/ EndOfClient(c) \/ AnswerMap(c)
  BY DEF ChildNext
<1>4. /\ taken \in [Conn -> 0..MaxSend] /\ first \in [Conn -> 0..MaxSend]
      /\ held \in [Conn -> 0..MaxSend] /\ inbox \in [Conn -> Seq(Heard)]
      /\ buf \in [Conn -> [1..BufUnits -> Heard]]
      /\ DOMAIN child = Conn /\ NoConn \notin Conn
  BY TypeParts, ForkAssumption DEF TypeInv, DataType, PlaceType
<1>5. copy' = copy /\ Target(c)' = Target(c) /\ OwnCopy(c)'
  <2>1. copy' = copy
    BY <1>3 DEF Hello, ReadName, LogName, ReadLine, WriteBack, EndOfClient, AnswerMap
  <2> QED BY <1>1, <1>2, <2>1 DEF Target, OtherFd, OwnCopy
<1>6. GoneOnly(c)'
  <2>1. c \in poked' => c \in poked \/ client[c] = "left"
    BY <1>3, <1>4 DEF Hello, Touched, ReadName, LogName, ReadLine, WriteBack, EndOfClient, AnswerMap
  <2> QED BY <1>1, <1>2, <2>1 DEF GoneOnly
<1>7. CASE Hello(c)
  <2>1. UNCHANGED <<taken, first, held, buf, inbox>> /\ child[c] = "hello" /\ child'[c] = "name"
    BY <1>4, <1>7 DEF Hello, ChildRuns, Goes
  <2>2. HearsItself(c)' /\ BufHolds(c)' /\ NoneLost(c)' /\ BeforeEcho(c)'
    BY <1>1, <1>2, <1>5, <2>1 DEF HearsItself, BufHolds, Own, NoneLost, BeforeEcho, Fresh
  <2> QED BY <1>5, <1>6, <2>2 DEF Account
<1>8. CASE ReadName(c)
  <2>1. PICK n : n = (IF prog = "ch11" THEN ReadTen(c) ELSE ReadAll(c))
                 /\ taken' = [taken EXCEPT ![c] = @ + n] /\ first' = [first EXCEPT ![c] = n]
                 /\ buf' = IF prog = "ch11" THEN buf ELSE [buf EXCEPT ![c] = Filled(c, n)]
    BY <1>8 DEF ReadName
  <2>2. UNCHANGED <<held, inbox>> /\ child[c] = "name" /\ child'[c] = "log"
    BY <1>4, <1>8 DEF ReadName, ChildRuns, Goes
  <2>3. taken[c] = 0 /\ held[c] = 0 /\ inbox[c] = <<>>
    BY <1>2, <2>2 DEF BeforeEcho, Fresh
  <2>4. n \in Nat /\ (prog # "ch11" => n <= BufUnits)
    BY <2>1, ReadType
  <2>5. taken'[c] = n /\ first'[c] = n
    BY <1>4, <2>1, <2>3, <2>4
  <2>6. HearsItself(c)' /\ BeforeEcho(c)'
    BY <2>2, <2>3, <2>5 DEF HearsItself, BeforeEcho
  <2>7. NoneLost(c)'
    BY <2>2, <2>3, <2>4, <2>5 DEF NoneLost
  <2>8. BufHolds(c)'
    <3>1. CASE prog = "ch11"
      <4>1. \A k \in 1..BufUnits : buf[c][k] \in Heard /\ Own(c, buf[c][k])
        <5>1. buf[c] \in [1..BufUnits -> Heard]
          BY <1>4
        <5> QED BY <1>2, <5>1 DEF BufHolds
      <4>2. \A k \in 1..BufUnits : Own(c, buf[c][k])'
        <5> TAKE k \in 1..BufUnits
        <5>1. taken'[c] \in Nat /\ taken[c] <= taken'[c] /\ buf' = buf
          BY <2>1, <2>3, <2>4, <2>5, <3>1
        <5>2. buf[c][k] \in Heard /\ Own(c, buf[c][k])
          BY <4>1
        <5> DEFINE u == buf[c][k]
        <5>3. Own(c, u) /\ u \in Heard
          BY <5>2
        <5>4. u' = u
          BY <5>1
        <5> HIDE DEF u
        <5>5. u = NoUnit \/ (u.from = c /\ u.n <= taken'[c])
          BY <5>1, <5>3, OwnLater, ArrivedType DEF Own, Heard, Unit
        <5> QED BY <5>1, <5>5 DEF Own, u
      <4> QED BY <2>2, <2>3, <4>2 DEF BufHolds
    <3>2. CASE prog # "ch11"
      <4>1. /\ buf'[c] = Filled(c, n) /\ held'[c] = 0 /\ taken'[c] = taken[c] + n
            /\ n <= BufUnits
        BY <1>4, <2>1, <2>2, <2>3, <2>4, <2>5, <3>2
      <4> QED BY <1>2, <2>4, <4>1, ReadHolds
    <3> QED BY <3>1, <3>2
  <2> QED BY <1>5, <1>6, <2>6, <2>7, <2>8 DEF Account
<1>9. CASE LogName(c) \/ EndOfClient(c)
  <2>1. UNCHANGED <<taken, first, held, buf, inbox>> /\ child'[c] \in {"echo", "end"}
    BY <1>4, <1>9 DEF LogName, EndOfClient, Goes, Ends
  <2>2. HearsItself(c)' /\ BufHolds(c)' /\ NoneLost(c)' /\ BeforeEcho(c)'
    BY <1>1, <1>2, <1>5, <2>1 DEF HearsItself, BufHolds, Own, NoneLost, BeforeEcho, Fresh
  <2> QED BY <1>5, <1>6, <2>2 DEF Account
<1>10. CASE ReadLine(c)
  <2>1. /\ UNCHANGED <<first, inbox>> /\ held[c] = 0 /\ child'[c] = "echo"
        /\ held'[c] = ReadAll(c) /\ taken'[c] = taken[c] + ReadAll(c)
        /\ buf'[c] = Filled(c, ReadAll(c))
    BY <1>4, <1>10 DEF ReadLine, TakesAll, Goes, ChildRuns
  <2>2. HearsItself(c)' /\ BeforeEcho(c)' /\ BufHolds(c)'
    <3>1. ReadAll(c) \in Nat /\ ReadAll(c) <= BufUnits /\ taken[c] \in Nat
      BY ReadType, ArrivedType
    <3>2. BufHolds(c)'
      BY <1>2, <2>1, <3>1, ReadHolds
    <3>3. CASE prog = "chat"
      <4>1. ASSUME NEW k \in 1..Len(inbox[c]) PROVE Own(c, inbox[c][k])'
        <5> DEFINE u == inbox[c][k]
        <5>1. u \in Heard /\ Own(c, u)
          BY <1>2, <1>4, <3>3, ElementOfSeq DEF HearsItself
        <5>2. taken'[c] \in Nat /\ taken[c] <= taken'[c] /\ inbox' = inbox
          BY <2>1, <3>1
        <5> HIDE DEF u
        <5>3. u = NoUnit \/ (u.from = c /\ u.n <= taken'[c])
          BY <3>1, <5>1, <5>2 DEF Own, Heard, Unit
        <5> QED BY <5>2, <5>3 DEF Own, u
      <4> QED BY <1>1, <2>1, <3>2, <3>3, <4>1 DEF HearsItself, BeforeEcho
    <3>4. CASE prog # "chat"
      BY <1>1, <1>2, <2>1, <3>2, <3>4 DEF HearsItself, BeforeEcho
    <3> QED BY <3>3, <3>4
  <2>3. NoneLost(c)'
    <3> SUFFICES ASSUME prog # "chat", client[c] # "left", Target(c) = c
                 PROVE  taken'[c] = first[c] + Len(inbox[c]) + held'[c]
      BY <1>1, <1>5, <2>1 DEF NoneLost
    <3>1. taken[c] = first[c] + Len(inbox[c]) + 0 /\ ReadAll(c) \in Nat
      BY <1>2, <2>1, ReadType DEF NoneLost
    <3>2. first[c] \in Nat /\ Len(inbox[c]) \in Nat
      BY <1>4, LenProperties
    <3> QED BY <2>1, <3>1, <3>2
  <2> QED BY <1>5, <1>6, <2>2, <2>3 DEF Account
<1>11. CASE WriteBack(c)
  <2>1. UNCHANGED <<taken, first, buf>> /\ held'[c] = 0 /\ child'[c] \in {"echo", "end"}
    BY <1>4, <1>11 DEF WriteBack, Goes, Ends
  <2>2. BeforeEcho(c)' /\ BufHolds(c)'
    BY <1>2, <2>1 DEF BeforeEcho, BufHolds, Own
  <2>3. CASE inbox'[c] = inbox[c] /\ (client[c] = "left" \/ Target(c) # c)
    <3>1. HearsItself(c)' /\ NoneLost(c)'
      BY <1>1, <1>2, <1>5, <2>1, <2>3 DEF HearsItself, Own, NoneLost
    <3> QED BY <1>5, <1>6, <2>2, <3>1 DEF Account
  <2>4. CASE inbox'[c] = inbox[c] \o HeldUnits(c) /\ client[c] # "left" /\ Target(c) = c
    <3>1. CASE prog # "chat"
      <4>1. taken[c] = first[c] + Len(inbox[c]) + held[c]
        BY <1>2, <2>4, <3>1 DEF NoneLost
      <4>2. /\ Len(inbox'[c]) = Len(inbox[c]) + held[c]
            /\ \A k \in 1..Len(inbox'[c]) : inbox'[c][k] = [from |-> c, n |-> first[c] + k]
        BY <1>2, <2>4, <3>1, <4>1, WriteFollows
      <4>3. HearsItself(c)'
        BY <1>1, <2>1, <3>1, <4>2 DEF HearsItself
      <4>4. taken[c] = first[c] + (Len(inbox[c]) + held[c]) + 0
        <5>1. first[c] \in Nat /\ Len(inbox[c]) \in Nat /\ held[c] \in Nat
          BY <1>4, LenProperties
        <5> QED BY <4>1, <5>1
      <4>5. NoneLost(c)'
        BY <2>1, <4>2, <4>4 DEF NoneLost
      <4> QED BY <1>5, <1>6, <2>2, <4>3, <4>5 DEF Account
    <3>2. CASE prog = "chat"
      <4>1. \A k \in 1..Len(inbox'[c]) : Own(c, inbox'[c][k])
        BY <1>2, <2>4, <3>2, WriteOwn
      <4>2. HearsItself(c)'
        BY <1>1, <2>1, <3>2, <4>1 DEF HearsItself, Own
      <4>3. NoneLost(c)'
        BY <1>1, <3>2 DEF NoneLost
      <4> QED BY <1>5, <1>6, <2>2, <4>2, <4>3 DEF Account
    <3> QED BY <3>1, <3>2
  <2>5. \/ inbox'[c] = inbox[c] /\ (client[c] = "left" \/ Target(c) # c)
        \/ inbox'[c] = inbox[c] \o HeldUnits(c) /\ client[c] # "left" /\ Target(c) = c
    <3>1. CASE Target(c) \in poked /\ inbox' = inbox
      BY <1>2, <1>4, <3>1 DEF GoneOnly
    <3>2. CASE inbox' = [d \in Conn |-> IF d = Target(c) /\ client[d] # "left"
                                        THEN inbox[d] \o HeldUnits(c) ELSE inbox[d]]
      BY <1>2, <1>4, <3>2
    <3> QED BY <1>11, <3>1, <3>2 DEF WriteBack
  <2> QED BY <2>3, <2>4, <2>5
<1>12. CASE AnswerMap(c)
  <2>1. /\ UNCHANGED <<first, held, buf>> /\ child[c] = "map" /\ child'[c] = "end" /\ taken'[c] = sent[c]
    BY <1>4, <1>12 DEF AnswerMap, Ends, ChildRuns
  <2>2. BeforeEcho(c)'
    BY <2>1 DEF BeforeEcho
  <2>3. first[c] = 0 /\ taken[c] = 0 /\ held[c] = 0 /\ inbox[c] = <<>>
    BY <1>2, <2>1 DEF BeforeEcho, Fresh
  <2>8. BufHolds(c)'
    <3>1. ASSUME NEW k \in 1..BufUnits PROVE Own(c, buf[c][k])'
      <4> DEFINE u == buf[c][k]
      <4>1. u \in Heard /\ Own(c, u)
        <5>1. buf[c] \in [1..BufUnits -> Heard] /\ BufHolds(c)
          BY <1>2, <1>4
        <5> QED BY <5>1 DEF BufHolds
      <4>2. taken'[c] \in Nat /\ taken[c] = 0 /\ buf' = buf
        BY <2>1, <2>3, ArrivedType
      <4> HIDE DEF u
      <4>3. u = NoUnit \/ (u.from = c /\ u.n <= taken'[c])
        BY <4>1, <4>2 DEF Own, Heard, Unit
      <4> QED BY <4>2, <4>3 DEF Own, u
    <3> QED BY <2>1, <2>3, <3>1 DEF BufHolds
  <2>4. CASE inbox' = inbox /\ client[c] = "left"
    <3>1. HearsItself(c)' /\ NoneLost(c)'
      BY <1>1, <2>1, <2>3, <2>4 DEF HearsItself, NoneLost
    <3> QED BY <1>5, <1>6, <2>2, <2>8, <3>1 DEF Account
  <2>5. CASE inbox'[c] = [k \in 1..Arrived(c) |-> [from |-> c, n |-> k]]
    <3>1. Arrived(c) \in Nat /\ Arrived(c) = sent[c]
      BY <2>3, ArrivedType
    <3>2. Len(inbox'[c]) = Arrived(c) /\ \A k \in 1..Arrived(c) : inbox'[c][k] = [from |-> c, n |-> k]
      BY <2>5, <3>1
    <3>3. HearsItself(c)'
      <4>1. \A k \in 1..Len(inbox'[c]) : /\ inbox'[c][k] = [from |-> c, n |-> first'[c] + k]
                                        /\ k <= taken'[c]
        BY <2>1, <2>3, <3>1, <3>2
      <4>2. ASSUME NEW k \in 1..Len(inbox'[c]) PROVE Own(c, inbox[c][k])'
        <5>1. inbox'[c][k] = [from |-> c, n |-> k]
          BY <3>2
        <5>2. k <= taken'[c]
          BY <2>1, <3>1, <3>2
        <5> QED BY <5>1, <5>2 DEF Own
      <4> QED BY <4>1, <4>2 DEF HearsItself
    <3>4. NoneLost(c)'
      BY <2>1, <2>3, <3>1, <3>2 DEF NoneLost
    <3> QED BY <1>5, <1>6, <2>2, <2>8, <3>3, <3>4 DEF Account
  <2>6. CASE c \in stop \/ client[c] = "left"
    BY <1>2, <1>12, <2>4, <2>6 DEF AnswerMap, GoneOnly
  <2>7. CASE ~(c \in stop \/ client[c] = "left")
    <3>1. inbox' = [inbox EXCEPT ![c] = [k \in 1..Arrived(c) |-> [from |-> c, n |-> k]]]
      BY <1>12, <2>7 DEF AnswerMap
    <3> QED BY <1>4, <2>5, <3>1
  <2> QED BY <2>6, <2>7
<1> QED BY <1>3, <1>7, <1>8, <1>9, <1>10, <1>11, <1>12

LEMMA ClientAccount ==
  ASSUME TypeInv, RestInv, ClientNext
  PROVE  RestInv'
<1>1. UNCHANGED <<prog, childVars>>
  BY DEF ClientNext
<1> SUFFICES ASSUME NEW c \in Conn PROVE Account(c)'
  BY DEF RestInv
<1>2. DOMAIN client = Conn
  BY TypeParts DEF TypeInv, ClientType
<1>3. PICK d \in Conn : \/ Connect(d) \/ SendName(d) \/ SendLine(d) \/ SendStop(d)
                        \/ ReadAnswer(d) \/ Quit(d) \/ Leave(d)
  BY DEF ClientNext
<1>4. /\ client[c] = "left" => client'[c] = "left"
      /\ c \in stop' => c \in stop \/ client'[c] = "left"
  BY <1>2, <1>3 DEF Connect, SendName, SendLine, SendStop, ReadAnswer, Quit, Leave
<1>5. Account(c) /\ GoneOnly(c)'
  BY <1>1, <1>4 DEF RestInv, Account, GoneOnly
<1> QED BY <1>1, <1>4, <1>5, AccountKept

LEMMA StepRest ==
  ASSUME TypeInv, Caused, RestInv, [Next]_vars
  PROVE  RestInv'
<1>1. ASSUME UNCHANGED <<prog, client, stop, copy, taken, first, held, buf, inbox, poked>>,
             \A c \in Conn : child'[c] = child[c] \/ child'[c] = "end"
      PROVE  RestInv'
  <2> SUFFICES ASSUME NEW c \in Conn PROVE Account(c)'
    BY DEF RestInv
  <2>1. Account(c) /\ GoneOnly(c)'
    BY <1>1 DEF RestInv, Account, GoneOnly
  <2> QED BY <1>1, <2>1, AccountKept
<1>2. CASE UNCHANGED vars
  BY <1>1, <1>2 DEF vars
<1>3. CASE ParentNext
  <2>1. UNCHANGED <<prog, clientVars, taken, first, held, buf, inbox, poked>>
    BY <1>3 DEF ParentNext
  <2>2. CASE Fork
    BY <2>1, <2>2, ForkAccount
  <2>3. CASE UNCHANGED <<child, copy>>
    BY <1>1, <2>1, <2>3
  <2> QED BY <1>3, <2>2, <2>3 DEF ParentNext
<1>4. CASE LoggerNext \/ Interrupt \/ \E p \in Proc : ReadInt(p)
  BY <1>1, <1>4 DEF LoggerNext, Interrupt, ReadInt
<1>5. ASSUME NEW p \in Proc, IntExits(p) PROVE RestInv'
  <2>1. \A c \in Conn : child'[c] = child[c] \/ child'[c] = "end"
    BY <1>5 DEF IntExits
  <2> QED BY <1>1, <1>5, <2>1 DEF IntExits
<1>6. CASE ClientNext
  BY <1>6, ClientAccount
<1>7. ASSUME NEW c \in Conn, ChildNext(c) PROVE RestInv'
  BY <1>7, OwnAccount, OtherAccounts DEF RestInv
<1> QED BY <1>2, <1>3, <1>4, <1>5, <1>6, <1>7 DEF Next, SignalNext

\* A client hears its own units and no one else's, in order and without a
\* gap, from where the read of its name stopped; as long as it is there, what
\* was read of it is written back or held.  In the chat server, which writes
\* the whole of buf, it hears its own units and what nobody wrote, of no one
\* else.
THEOREM EchoesItself == Spec => []EchoIsTheRest
<1>1. Init => RestInv
  <2> SUFFICES ASSUME Init, NEW c \in Conn PROVE Account(c)
    BY DEF RestInv
  <2>1. /\ copy[c] = NoCopy /\ client[c] = "new" /\ Fresh(c) /\ poked = {} /\ stop = {}
        /\ child[c] = "none"
    BY DEF Init, Fresh
  <2>2. OwnCopy(c) /\ BeforeEcho(c) /\ GoneOnly(c)
    BY <2>1 DEF OwnCopy, NoCopy, BeforeEcho, GoneOnly
  <2>3. HearsItself(c) /\ NoneLost(c)
    BY <2>1 DEF Fresh, HearsItself, NoneLost
  <2>4. BufHolds(c)
    <3>1. held[c] = 0 /\ \A k \in 1..BufUnits : buf[c][k] = NoUnit
      BY DEF Init
    <3> QED BY <3>1 DEF BufHolds, Own
  <2> QED BY <2>2, <2>3, <2>4 DEF Account
<1>2. RestInv => EchoIsTheRest
  <2> SUFFICES ASSUME RestInv, NEW c \in Conn
               PROVE  /\ HearsItself(c)
                      /\ prog # "chat" /\ client[c] # "left" =>
                           taken[c] = first[c] + Len(inbox[c]) + held[c]
    BY DEF EchoIsTheRest, HearsItself, Own
  <2>1. Account(c)
    BY DEF RestInv
  <2> QED BY <2>1, TargetIsOwn DEF Account, NoneLost
<1> QED BY <1>1, <1>2, StepRest, CausedInvariant, TypeInvariant, PTL DEF Spec
=============================================================================
