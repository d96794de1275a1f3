------------------------ MODULE ServerDirectoryProofs ------------------------
(***************************************************************************)
(* Proofs about ServerDirectory, for any number of clients, descriptors    *)
(* and acceptors' races, and bodies of any length: the types, what a       *)
(* client takes for a record, and where the records go.                    *)
(***************************************************************************)
EXTENDS ServerDirectory, SequenceTheorems, TLAPS

-----------------------------------------------------------------------------
(* Types rest on the reads staying within what was written. *)

Within ==
  \A c \in Conn : recv[c] <= pos[c] /\ pos[c] <= came[c] /\ came[c] <= Len(inbox[c])

TypeInv == TypeOK /\ Within

\* What a client may hold for a body.
Text == Seq(Unit \cup {Stale})

USE DEF serverVars, threadVars, clientVars, wireVars

LEMMA InitType == Init => TypeInv
<1> SUFFICES ASSUME Init PROVE TypeInv
  OBVIOUS
<1>0. at \in [Conn -> Acceptor]
  <2>1. at \in [Conn -> Acceptor] \/ at \in [Conn -> {"main"}]
    BY DEF Init
  <2>2. "main" \in Acceptor
    BY DEF Acceptor
  <2> QED BY <2>1, <2>2
<1>1. /\ prog \in Prog /\ proc \in {"up", "killed", "exited"}
      /\ port \in [Acceptor -> {"boot", "accept", "spawn"}]
      /\ arg \in [Acceptor -> Fd \cup {NoFd}] /\ cur \in [Acceptor -> Conn \cup {NoConn}]
      /\ fdt \in [Fd -> Conn \cup {NoConn}] /\ backlog \subseteq Conn
  BY DEF Init
<1>4. /\ writer \in [Conn -> {"none", "copy", "first", "second", "close", "end"}]
      /\ chooser \in [Conn -> {"none", "copy", "call", "read", "close", "end"}]
      /\ wfd \in [Conn -> Fd \cup {NoFd}] /\ cfd \in [Conn -> Fd \cup {NoFd}]
      /\ reads \in [Conn -> Conn \cup {NoConn}]
      /\ client \in [Conn -> {"new", "header", "body", "choose", "lost", "left"}]
  BY DEF Init
<1>5. /\ came \in [Conn -> Nat] /\ pos \in [Conn -> Nat] /\ recv \in [Conn -> Nat]
      /\ chosen \subseteq Conn /\ over \subseteq Conn /\ poked \subseteq Conn
      /\ raced \in BOOLEAN
  BY DEF Init
<1>6. inbox \in [Conn -> Seq(Unit)] /\ got \in [Conn -> Seq(Text)]
  <2>1. <<>> \in Seq(Unit) /\ <<>> \in Seq(Text)
    OBVIOUS
  <2> QED BY <2>1 DEF Init
<1>7. TypeOK
  BY <1>0, <1>1, <1>4, <1>5, <1>6 DEF TypeOK, Text
<1>2. ASSUME NEW c \in Conn
      PROVE  recv[c] = 0 /\ pos[c] = 0 /\ came[c] = 0 /\ Len(inbox[c]) = 0
  BY DEF Init
<1>3. Within
  <2>1. ASSUME NEW c \in Conn
        PROVE  recv[c] <= pos[c] /\ pos[c] <= came[c] /\ came[c] <= Len(inbox[c])
    BY <1>2
  <2> QED BY <2>1 DEF Within
<1> QED BY <1>3, <1>7 DEF TypeInv

LEMMA AcceptorType ==
  ASSUME TypeInv, AcceptorNext
  PROVE  TypeInv'
<1> USE DEF TypeInv, TypeOK, AcceptorNext
<1>1. TypeOK'
  <2>1. CASE BootWait
    BY <2>1 DEF BootWait, Acceptor
  <2>2. ASSUME NEW a \in Acceptor, Accept(a) PROVE TypeOK'
    BY <2>2 DEF Accept, FreeFds
  <2>3. ASSUME NEW a \in Acceptor, Spawn(a) PROVE TypeOK'
    BY <2>3 DEF Spawn
  <2>4. ASSUME NEW a \in Acceptor, AcceptFails(a) PROVE TypeOK'
    BY <2>4 DEF AcceptFails
  <2> QED BY <2>1, <2>2, <2>3, <2>4
<1> QED BY <1>1 DEF Within

LEMMA RecordType ==
  ASSUME NEW c \in Conn, NEW k \in 1..2
  PROVE  /\ Record(c, k) \in Seq(Unit) /\ Len(Record(c, k)) = Body + 1
         /\ \A i \in 1..Body + 1 : Record(c, k)[i] = [rec |-> k, part |-> i - 1, by |-> c]
<1>1. \A i \in 1..Body + 1 : [rec |-> k, part |-> i - 1, by |-> c] \in Unit
  BY DirectoryAssumption DEF Unit
<1>2. Body + 1 \in Nat
  BY DirectoryAssumption
<1>3. Record(c, k) \in [1..Body + 1 -> Unit] /\ DOMAIN Record(c, k) = 1..Body + 1
  BY <1>1 DEF Record
<1>4. Record(c, k) \in Seq(Unit)
  BY <1>2, <1>3, SeqDef
<1>5. Len(Record(c, k)) = Body + 1
  BY <1>2, <1>3, <1>4, LenProperties
<1> QED BY <1>4, <1>5 DEF Record

\* What a thread's step does to what the server has written.
Appends(c) ==
  \A d \in Conn : inbox'[d] = inbox[d] \/ \E k \in 1..2 : inbox'[d] = inbox[d] \o Record(c, k)

LEMMA ThreadAppends ==
  ASSUME TypeOK, NEW c \in Conn, ThreadNext(c)
  PROVE  Appends(c)
<1>1. CASE WriteRecord(c)
  <2>1. PICK k \in 1..2 : k = IF writer[c] = "first" THEN 1 ELSE 2
    OBVIOUS
  <2>2. \/ inbox' = inbox
        \/ inbox' = [d \in Conn |-> IF d = At(wfd[c]) /\ client[d] # "left"
                                    THEN inbox[d] \o Record(c, k) ELSE inbox[d]]
    BY <1>1, <2>1 DEF WriteRecord
  <2>3. ASSUME NEW d \in Conn
        PROVE  inbox'[d] = inbox[d] \/ inbox'[d] = inbox[d] \o Record(c, k)
    BY <2>2
  <2> QED BY <2>3 DEF Appends
<1>2. CASE inbox' = inbox
  BY <1>2 DEF Appends
<1> QED BY <1>1, <1>2 DEF ThreadNext, CopyToWriter, CloseInWriter, CopyToChooser, CallRead,
                          ReadReturns, CloseInChooser

LEMMA OnlyAdds ==
  ASSUME TypeOK, NEW c \in Conn, ThreadNext(c), NEW d \in Conn
  PROVE  /\ inbox[d] \in Seq(Unit) /\ inbox'[d] \in Seq(Unit)
         /\ Len(inbox[d]) <= Len(inbox'[d])
<1>0. inbox[d] \in Seq(Unit)
  BY DEF TypeOK
<1>1. CASE inbox'[d] = inbox[d]
  BY <1>0, <1>1, LenProperties
<1>2. CASE \E k \in 1..2 : inbox'[d] = inbox[d] \o Record(c, k)
  <2>1. PICK k \in 1..2 : inbox'[d] = inbox[d] \o Record(c, k)
    BY <1>2
  <2>2. Record(c, k) \in Seq(Unit) /\ Len(Record(c, k)) \in Nat
    BY RecordType, DirectoryAssumption
  <2> QED BY <1>0, <2>1, <2>2, ConcatProperties, LenProperties
<1> QED BY <1>0, <1>1, <1>2, ThreadAppends DEF Appends

LEMMA ThreadType ==
  ASSUME TypeInv, NEW c \in Conn, ThreadNext(c)
  PROVE  TypeInv'
<1> USE DEF TypeInv, TypeOK
<1>1. UNCHANGED <<prog, at, client, came, pos, recv, got, over>>
  BY DEF ThreadNext
<1>3. ASSUME NEW d \in Conn PROVE inbox'[d] \in Seq(Unit) /\ Len(inbox[d]) <= Len(inbox'[d])
  BY OnlyAdds
<1>4. Within'
  BY <1>1, <1>3 DEF Within
<1>5. TypeOK'
  <2>1. CASE CopyToWriter(c)
    BY <1>1, <2>1, DirectoryAssumption DEF CopyToWriter, Goto
  <2>2. CASE WriteRecord(c)
    <3>1. writer' \in [Conn -> {"none", "copy", "first", "second", "close", "end"}]
      BY <2>2 DEF WriteRecord, Goto, AfterWrite
    <3>2. inbox' \in [Conn -> Seq(Unit)]
      <4>1. inbox' = inbox \/ inbox' = [d \in Conn |-> inbox'[d]]
        BY <2>2 DEF WriteRecord
      <4> QED BY <1>3, <4>1
    <3>3. poked' \subseteq Conn /\ proc' \in {"up", "killed", "exited"}
      BY <2>2 DEF WriteRecord
    <3> QED BY <1>1, <2>2, <3>1, <3>2, <3>3 DEF WriteRecord
  <2>3. CASE CloseInWriter(c)
    BY <1>1, <2>3 DEF CloseInWriter, Goto, CloseFd
  <2>4. CASE CopyToChooser(c)
    BY <1>1, <2>4, DirectoryAssumption DEF CopyToChooser
  <2>5. CASE CallRead(c)
    BY <1>1, <2>5 DEF CallRead, At
  <2>6. CASE ReadReturns(c)
    BY <1>1, <2>6 DEF ReadReturns
  <2>7. CASE CloseInChooser(c)
    BY <1>1, <2>7 DEF CloseInChooser, CloseFd
  <2> QED BY <2>1, <2>2, <2>3, <2>4, <2>5, <2>6, <2>7 DEF ThreadNext
<1> QED BY <1>4, <1>5

LEMMA TextsAreTexts ==
  ASSUME NEW u \in Seq(Unit), NEW t \in TextsOf(u)
  PROVE  t \in Text
<1>1. u \in Seq(Unit \cup {Stale})
  <2>1. Len(u) \in Nat /\ u \in [1..Len(u) -> Unit]
    OBVIOUS
  <2>2. u \in [1..Len(u) -> Unit \cup {Stale}]
    BY <2>1
  <2> QED BY <2>1, <2>2, SeqDef
<1>2. Append(u, Stale) \in Seq(Unit \cup {Stale})
  <2>1. Stale \in Unit \cup {Stale}
    OBVIOUS
  <2> QED BY <1>1, <2>1, AppendProperties
<1> QED BY <1>1, <1>2 DEF TextsOf, Text

\* A read of a body: n units, and the text, when it is complete, from where
\* the body began.
BodyRead(c, n) ==
  /\ pos' = [pos EXCEPT ![c] = @ + n] /\ recv' = [recv EXCEPT ![c] = @ + n]
  /\ pos[c] + n <= came[c]
  /\ over' = IF recv[c] + n > Body THEN over \cup {c} ELSE over
  /\ \/ /\ recv[c] + n >= Body
        /\ \E last \in pos[c] - recv[c] + Body..pos[c] + n :
             /\ recv[c] + n = Body => last = pos[c] - recv[c] + Body
             /\ \E u \in TextsOf(SubSeq(inbox[c], pos[c] - recv[c] + 1, last)) :
                  got' = [got EXCEPT ![c] = Append(@, u)]
        /\ client' = [client EXCEPT ![c] = AfterBody(c)]
     \/ recv[c] + n < Body /\ UNCHANGED <<got, client>>

LEMMA BodyStep ==
  ASSUME TypeInv, NEW c \in Conn, ReadBody(c)
  PROVE  \E n \in 1..Body : BodyRead(c, n)
<1> DEFINE n == IF Available(c) < Asked(c) THEN Available(c) ELSE Asked(c)
<1>0. /\ pos \in [Conn -> Nat] /\ recv \in [Conn -> Nat] /\ came \in [Conn -> Nat]
      /\ Body \in Nat /\ Body >= 1
  BY DirectoryAssumption DEF TypeInv, TypeOK
<1>1. n \in 1..Body /\ pos[c] + n <= came[c]
  BY <1>0 DEF ReadBody, Available, Asked
<1>2. pos' = [pos EXCEPT ![c] = @ + n] /\ recv' = [recv EXCEPT ![c] = recv[c] + n]
  BY DEF ReadBody
<1>3. recv[c] + n \in Int /\ (recv[c] + n >= Body \/ recv[c] + n < Body)
  BY <1>0, <1>1
<1>4. /\ over' = IF recv[c] + n > Body THEN over \cup {c} ELSE over
      /\ \/ /\ recv[c] + n >= Body
            /\ \E u \in TextsOf(Decoded(c, recv[c] + n)) : got' = [got EXCEPT ![c] = Append(@, u)]
            /\ client' = [client EXCEPT ![c] = AfterBody(c)]
         \/ recv[c] + n < Body /\ UNCHANGED <<got, client>>
  BY <1>3 DEF ReadBody, Complete
<1> HIDE DEF n
<1>5. ASSUME recv[c] + n >= Body
      PROVE  \E last \in pos[c] - recv[c] + Body..pos[c] + n :
               /\ recv[c] + n = Body => last = pos[c] - recv[c] + Body
               /\ Decoded(c, recv[c] + n) = SubSeq(inbox[c], pos[c] - recv[c] + 1, last)
  <2> DEFINE last == IF prog = "mserv" THEN pos[c] + n ELSE pos[c] - recv[c] + Body
  <2>1. /\ pos'[c] - (recv[c] + n) + 1 = pos[c] - recv[c] + 1
        /\ pos'[c] - (recv[c] + n) + Body = pos[c] - recv[c] + Body
        /\ pos'[c] = pos[c] + n
    BY <1>0, <1>1, <1>2
  <2>2. Decoded(c, recv[c] + n) = SubSeq(inbox[c], pos[c] - recv[c] + 1, last)
    BY <2>1 DEF Decoded
  <2>3. last \in pos[c] - recv[c] + Body..pos[c] + n
    BY <1>0, <1>1, <1>5
  <2>4. recv[c] + n = Body => last = pos[c] - recv[c] + Body
    BY <1>0, <1>1
  <2> HIDE DEF last
  <2> QED BY <2>2, <2>3, <2>4
<1>6. BodyRead(c, n)
  <2>1. recv' = [recv EXCEPT ![c] = @ + n]
    BY <1>0, <1>2
  <2> QED BY <1>1, <1>2, <1>4, <1>5, <2>1 DEF BodyRead
<1> QED BY <1>1, <1>6

LEMMA BodyType ==
  ASSUME TypeInv, NEW c \in Conn, ReadBody(c),
         UNCHANGED <<prog, at, proc, port, arg, cur, fdt, threadVars, inbox, poked, raced>>
  PROVE  TypeInv'
<1> USE DEF TypeInv, TypeOK
<1>1. PICK n \in 1..Body : BodyRead(c, n)
  BY BodyStep
<1>2. UNCHANGED <<came, chosen, backlog>>
  BY DEF ReadBody
<1>3. n \in Nat /\ Body \in Nat
  BY DirectoryAssumption
<1>4. Within'
  BY <1>1, <1>2, <1>3 DEF Within, BodyRead
<1>5. got' \in [Conn -> Seq(Text)]
  <2>1. CASE recv[c] + n >= Body
    <3>0. PICK last \in pos[c] - recv[c] + Body..pos[c] + n :
            \E u \in TextsOf(SubSeq(inbox[c], pos[c] - recv[c] + 1, last)) :
              got' = [got EXCEPT ![c] = Append(@, u)]
      <4>1. ~(recv[c] + n < Body)
        BY <1>3, <2>1
      <4> HIDE DEF TypeInv, TypeOK
      <4> QED BY <1>1, <4>1 DEF BodyRead
    <3>1. PICK u \in TextsOf(SubSeq(inbox[c], pos[c] - recv[c] + 1, last)) :
            got' = [got EXCEPT ![c] = Append(@, u)]
      BY <3>0
    <3>2. /\ pos[c] - recv[c] + 1 \in Int /\ last \in Int
          /\ pos[c] - recv[c] + 1 >= 1 /\ last <= Len(inbox[c])
      <4>1. pos[c] \in Nat /\ recv[c] \in Nat /\ came[c] \in Nat /\ Len(inbox[c]) \in Nat
        BY LenProperties
      <4>2. recv[c] <= pos[c] /\ came[c] <= Len(inbox[c])
        BY DEF Within
      <4>3. pos[c] + n <= came[c]
        BY <1>1 DEF BodyRead
      <4> HIDE DEF TypeInv, TypeOK
      <4> QED BY <1>3, <2>1, <3>0, <4>1, <4>2, <4>3
    <3>3. ASSUME NEW i \in pos[c] - recv[c] + 1..last
          PROVE  inbox[c][i] \in Unit
      <4>1. i \in 1..Len(inbox[c])
        BY <3>2
      <4> QED BY <4>1, ElementOfSeq
    <3>4. SubSeq(inbox[c], pos[c] - recv[c] + 1, last) \in Seq(Unit)
      BY <3>2, <3>3, SubSeqProperties
    <3>5. u \in Text
      BY <3>4, TextsAreTexts
    <3>6. got \in [Conn -> Seq(Text)]
      BY DEF Text
    <3> HIDE DEF TypeInv, TypeOK
    <3> QED BY <3>1, <3>5, <3>6, AppendProperties
  <2>2. CASE recv[c] + n < Body
    BY <1>1, <1>3, <2>2 DEF BodyRead, Text
  <2> QED BY <1>3, <2>1, <2>2
<1>6. client' \in [Conn -> {"new", "header", "body", "choose", "lost", "left"}]
      /\ over' \subseteq Conn
  BY <1>1 DEF BodyRead, AfterBody
<1>7. pos' \in [Conn -> Nat] /\ recv' \in [Conn -> Nat]
  <2>1. pos \in [Conn -> Nat] /\ recv \in [Conn -> Nat]
    OBVIOUS
  <2>2. pos[c] + n \in Nat /\ recv[c] + n \in Nat
    BY <1>3, <2>1
  <2>3. pos' \in [Conn -> Nat]
    BY <1>1, <2>1, <2>2 DEF BodyRead
  <2>4. recv' \in [Conn -> Nat]
    BY <1>1, <2>1, <2>2 DEF BodyRead
  <2> QED BY <2>3, <2>4
<1> QED BY <1>2, <1>4, <1>5, <1>6, <1>7 DEF Text

LEMMA ClientType ==
  ASSUME TypeInv, NEW c \in Conn, ClientNext(c)
  PROVE  TypeInv'
<1> USE DEF TypeInv, TypeOK
<1>1. UNCHANGED <<prog, at, proc, port, arg, cur, fdt, threadVars, inbox, poked, raced>>
  BY DEF ClientNext
<1>2. CASE Connect(c) \/ BodyCutOff(c) \/ Choose(c) \/ Die(c)
  <2>1. UNCHANGED <<came, pos, recv, got, over>>
    BY <1>2 DEF Connect, BodyCutOff, Choose, Die
  <2>2. Within'
    BY <1>1, <2>1 DEF Within
  <2>3. client' \in [Conn -> {"new", "header", "body", "choose", "lost", "left"}]
        /\ chosen' \subseteq Conn /\ backlog' \subseteq Conn
    BY <1>2 DEF Connect, BodyCutOff, Choose, Die
  <2> QED BY <1>1, <2>1, <2>2, <2>3
<1>3. CASE Arrive(c)
  <2>1. PICK n \in came[c] + 1..Len(inbox[c]) : came' = [came EXCEPT ![c] = n]
    BY <1>3 DEF Arrive
  <2>2. n \in Nat /\ came[c] <= n /\ n <= Len(inbox[c])
    BY <2>1
  <2>3. Within'
    BY <1>1, <1>3, <2>1, <2>2 DEF Arrive, Within
  <2> QED BY <1>1, <1>3, <2>1, <2>2, <2>3 DEF Arrive
<1>4. CASE ReadHeader(c)
  <2>1. Available(c) > 0 /\ pos' = [pos EXCEPT ![c] = @ + 1]
    BY <1>4 DEF ReadHeader
  <2>2. recv' = [recv EXCEPT ![c] = 0] /\ UNCHANGED <<came, got, over, chosen, backlog>>
    BY <1>4 DEF ReadHeader
  <2>3. pos' \in [Conn -> Nat] /\ recv' \in [Conn -> Nat]
    <3>1. pos \in [Conn -> Nat] /\ recv \in [Conn -> Nat] /\ 0 \in Nat
      OBVIOUS
    <3>2. pos[c] + 1 \in Nat
      BY <3>1
    <3>3. pos' \in [Conn -> Nat]
      BY <2>1, <3>1, <3>2
    <3>4. recv' \in [Conn -> Nat]
      BY <2>2, <3>1
    <3> QED BY <3>3, <3>4
  <2>4. client' \in [Conn -> {"new", "header", "body", "choose", "lost", "left"}]
    <3>1. PICK pc \in {"body", "lost"} : client' = [client EXCEPT ![c] = pc]
      BY <1>4 DEF ReadHeader
    <3> QED BY <3>1
  <2>5. Within'
    <3>1. ASSUME NEW d \in Conn
          PROVE  recv'[d] <= pos'[d] /\ pos'[d] <= came[d] /\ came[d] <= Len(inbox[d])
      <4>1. CASE d = c
        BY <2>1, <2>2, <4>1 DEF Within, Available
      <4>2. CASE d # c
        BY <2>1, <2>2, <4>2 DEF Within
      <4> QED BY <4>1, <4>2
    <3> QED BY <1>1, <2>2, <3>1 DEF Within
  <2> QED BY <1>1, <2>2, <2>3, <2>4, <2>5
<1>5. CASE HeaderCutOff(c)
  <2>1. recv' = [recv EXCEPT ![c] = 0] /\ UNCHANGED <<came, pos, over, chosen, backlog>>
    BY <1>5 DEF HeaderCutOff
  <2>2. got' \in [Conn -> Seq(Text)]
    <3>1. got' = got \/ \E u \in TextsOf(<<>>) : got' = [got EXCEPT ![c] = Append(@, u)]
      BY <1>5 DEF HeaderCutOff
    <3>2. \A u \in TextsOf(<<>>) : u \in Text
      <4>1. <<>> \in Seq(Unit)
        OBVIOUS
      <4> QED BY <4>1, TextsAreTexts
    <3>3. got \in [Conn -> Seq(Text)]
      BY DEF Text
    <3> HIDE DEF TypeInv, TypeOK
    <3> QED BY <3>1, <3>2, <3>3, AppendProperties
  <2>3. client' \in [Conn -> {"new", "header", "body", "choose", "lost", "left"}]
    <3>1. \E s \in {"header", "choose", "lost"} : client' = [client EXCEPT ![c] = s]
      BY <1>5 DEF HeaderCutOff, AfterBody
    <3>2. client \in [Conn -> {"new", "header", "body", "choose", "lost", "left"}]
      OBVIOUS
    <3> HIDE DEF TypeInv, TypeOK
    <3> QED BY <3>1, <3>2
  <2>4. Within'
    BY <1>1, <2>1 DEF Within
  <2> QED BY <1>1, <2>1, <2>2, <2>3, <2>4 DEF Text
<1> QED BY <1>1, <1>2, <1>3, <1>4, <1>5, BodyType DEF ClientNext, ClientStep

LEMMA TypeInvariant == Spec => []TypeInv
<1>1. TypeInv /\ [Next]_vars => TypeInv'
  <2> SUFFICES ASSUME TypeInv, [Next]_vars PROVE TypeInv'
    OBVIOUS
  <2>1. CASE UNCHANGED vars
    BY <2>1 DEF vars, TypeInv, TypeOK, Within
  <2> QED BY <2>1, AcceptorType, ThreadType, ClientType DEF Next
<1> QED BY <1>1, InitType, PTL DEF Spec

\* Every variable keeps its type: no read goes past what was written, and what
\* is decoded lies within it.
THEOREM TypeCorrect == Spec => []TypeOK
<1>1. TypeInv => TypeOK
  BY DEF TypeInv
<1> QED BY <1>1, TypeInvariant, PTL

-----------------------------------------------------------------------------
(* Where records go.  A connection is handed to one thread of each kind, and *)
(* as long as nothing was confused a descriptor a thread will use leads to   *)
(* the thread's own connection: it is closed only after the client has left, *)
(* and that, unless it was early, is after all was written.                  *)

Queue ==
  /\ \A c \in backlog : /\ writer[c] = "none" /\ client[c] # "new"
                        /\ \A a \in Acceptor : port[a] = "spawn" => cur[a] # c
  /\ \A a \in Acceptor : port[a] = "spawn" =>
       cur[a] \in Conn /\ at[cur[a]] = a /\ writer[cur[a]] = "none" /\ client[cur[a]] # "new"
  /\ \A c \in Conn : client[c] = "new" => writer[c] = "none"

SentOwn(c) == inbox[c] = SubSeq(OwnRecords(c), 1, Written(c) * (Body + 1))

OwnFds(c) ==
  /\ writer[c] \in {"first", "second", "close"} => At(wfd[c]) = c
  /\ chooser[c] \in {"call", "read", "close"} => At(cfd[c]) = c

OneCloser(c) ==
  /\ writer[c] = "close" => prog = "mserv"
  /\ chooser[c] # "none" => prog = "sm1122"

LeftFirst(c) ==
  /\ chooser[c] = "read" => reads[c] = c
  /\ chooser[c] \in {"close", "end"} \/ c \in chosen => client[c] = "left"
  /\ c \notin poked

InOrder == \A c \in Conn : SentOwn(c) /\ OwnFds(c) /\ OneCloser(c) /\ LeftFirst(c)

StrayInv == Queue /\ (raced \/ LeftEarly \/ InOrder)

\* The thread's two writes give the two records.
LEMMA PrefixesOfOwn ==
  ASSUME NEW c \in Conn
  PROVE  /\ SubSeq(OwnRecords(c), 1, 0 * (Body + 1)) = <<>>
         /\ SubSeq(OwnRecords(c), 1, 1 * (Body + 1)) = Record(c, 1)
         /\ SubSeq(OwnRecords(c), 1, 2 * (Body + 1)) = Record(c, 1) \o Record(c, 2)
         /\ <<>> \o Record(c, 1) = Record(c, 1)
<1>1. /\ Record(c, 1) \in Seq(Unit) /\ Len(Record(c, 1)) = Body + 1
      /\ Record(c, 2) \in Seq(Unit) /\ Len(Record(c, 2)) = Body + 1 /\ Body \in Nat
  BY RecordType, DirectoryAssumption
<1>2. OwnRecords(c) \in Seq(Unit) /\ Len(OwnRecords(c)) = (Body + 1) + (Body + 1)
  BY <1>1, ConcatProperties DEF OwnRecords
<1>3. 0 * (Body + 1) = 0 /\ 1 * (Body + 1) = Body + 1 /\ 2 * (Body + 1) = (Body + 1) + (Body + 1)
  BY <1>1
<1>4. SubSeq(OwnRecords(c), 1, 0) = <<>>
  BY SubSeqEmpty
<1>5. SubSeq(OwnRecords(c), 1, Body + 1) = Record(c, 1)
  <2>1. 1 \in 1..Len(Record(c, 1)) /\ Body + 1 \in 1..Len(Record(c, 1))
    BY <1>1
  <2>2. SubSeq(OwnRecords(c), 1, Body + 1) = SubSeq(Record(c, 1), 1, Body + 1)
    BY <1>1, <2>1, SubSeqOfConcat1 DEF OwnRecords
  <2>3. SubSeq(Record(c, 1), 1, Len(Record(c, 1))) = Record(c, 1)
    BY <1>1, SubSeqFull
  <2> QED BY <1>1, <2>2, <2>3
<1>6. SubSeq(OwnRecords(c), 1, (Body + 1) + (Body + 1)) = OwnRecords(c)
  <2>1. SubSeq(OwnRecords(c), 1, Len(OwnRecords(c))) = OwnRecords(c)
    BY <1>2, SubSeqFull
  <2> QED BY <1>2, <2>1
<1>7. <<>> \o Record(c, 1) = Record(c, 1)
  BY <1>1, ConcatEmptySeq
<1> QED BY <1>3, <1>4, <1>5, <1>6, <1>7 DEF OwnRecords

LEMMA WrittenByPlace ==
  ASSUME NEW c \in Conn, SentOwn(c)
  PROVE  /\ writer[c] \in {"none", "copy", "first"} => inbox[c] = <<>>
         /\ writer[c] = "second" => inbox[c] = Record(c, 1)
         /\ writer[c] \notin {"none", "copy", "first", "second"} =>
              inbox[c] = Record(c, 1) \o Record(c, 2)
BY PrefixesOfOwn DEF SentOwn, Written

\* A client that has left in time was sent all: its writer has done.
LEMMA AllWasSent ==
  ASSUME TypeInv, NEW c \in Conn, SentOwn(c), ~LeftEarly, client[c] = "left"
  PROVE  writer[c] \in {"close", "end"}
<1>1. Len(Record(c, 1)) = Body + 1 /\ Body \in Nat /\ Len(<<>>) = 0
  BY RecordType, DirectoryAssumption
<1>2. ~(Len(inbox[c]) < 2 * (Body + 1))
  BY DEF LeftEarly, Whole
<1>3. inbox[c] # <<>> /\ inbox[c] # Record(c, 1)
  <2>1. 0 < 2 * (Body + 1) /\ Body + 1 < 2 * (Body + 1)
    BY <1>1
  <2> QED BY <1>1, <1>2, <2>1
<1>4. writer[c] \in {"none", "copy", "first", "second", "close", "end"}
  BY DEF TypeInv, TypeOK
<1> QED BY <1>3, <1>4, WrittenByPlace

\* Who has left stays away, and nothing is written to it.
LEMMA LeftForGood ==
  ASSUME TypeInv, Next, NEW d \in Conn, client[d] = "left"
  PROVE  client'[d] = "left" /\ inbox'[d] = inbox[d]
<1>1. client \in [Conn -> {"new", "header", "body", "choose", "lost", "left"}]
  BY DEF TypeInv, TypeOK
<1>2. CASE AcceptorNext
  BY <1>2 DEF AcceptorNext
<1>3. ASSUME NEW c \in Conn, ThreadNext(c) PROVE client'[d] = "left" /\ inbox'[d] = inbox[d]
  <2>1. client' = client
    BY <1>3 DEF ThreadNext
  <2>2. inbox'[d] = inbox[d]
    BY <1>3 DEF ThreadNext, CopyToWriter, WriteRecord, CloseInWriter, CopyToChooser, CallRead,
                ReadReturns, CloseInChooser
  <2> QED BY <2>1, <2>2
<1>4. ASSUME NEW c \in Conn, ClientNext(c) PROVE client'[d] = "left" /\ inbox'[d] = inbox[d]
  <2>1. inbox' = inbox
    BY <1>4 DEF ClientNext
  <2>2. CASE ReadBody(c)
    BY <1>1, <2>1, <2>2 DEF ReadBody
  <2>3. CASE \/ Connect(c) \/ Arrive(c) \/ ReadHeader(c) \/ HeaderCutOff(c) \/ BodyCutOff(c)
             \/ Choose(c) \/ Die(c)
    BY <1>1, <2>1, <2>3 DEF Connect, Arrive, ReadHeader, HeaderCutOff, BodyCutOff, Choose, Die
  <2> QED BY <1>4, <2>2, <2>3 DEF ClientNext, ClientStep
<1> QED BY <1>2, <1>3, <1>4 DEF Next

\* Neither excuse is taken back.
LEMMA ExcusesStay ==
  ASSUME TypeInv, Next
  PROVE  (raced => raced') /\ (LeftEarly => LeftEarly')
<1>1. raced => raced'
  BY DEF Next, AcceptorNext, ThreadNext, CopyToWriter, WriteRecord, CloseInWriter, CopyToChooser,
         CallRead, ReadReturns, CloseInChooser, ClientNext
<1>2. ASSUME LeftEarly PROVE LeftEarly'
  <2>1. PICK c \in Conn : client[c] = "left" /\ Len(inbox[c]) < Whole
    BY <1>2 DEF LeftEarly
  <2>2. client'[c] = "left" /\ Len(inbox'[c]) < Whole
    BY <2>1, LeftForGood
  <2> QED BY <2>2 DEF LeftEarly, Whole
<1> QED BY <1>1, <1>2

LEMMA QueueStep ==
  ASSUME TypeInv, Queue, Next
  PROVE  Queue'
<1>1. /\ writer \in [Conn -> {"none", "copy", "first", "second", "close", "end"}]
      /\ client \in [Conn -> {"new", "header", "body", "choose", "lost", "left"}]
      /\ port \in [Acceptor -> {"boot", "accept", "spawn"}]
      /\ cur \in [Acceptor -> Conn \cup {NoConn}] /\ backlog \subseteq Conn
  BY DEF TypeInv, TypeOK
<1>2. CASE AcceptorNext
  <2>1. UNCHANGED <<at, client>>
    BY <1>2 DEF AcceptorNext
  <2>2. CASE BootWait
    BY <1>1, <2>1, <2>2 DEF BootWait, Queue
  <2>3. ASSUME NEW a \in Acceptor, Accept(a) PROVE Queue'
    <3>1. PICK c \in Conn : /\ c \in backlog /\ at[c] = a /\ backlog' = backlog \ {c}
                            /\ cur' = [cur EXCEPT ![a] = c]
      BY <2>3 DEF Accept
    <3>2. writer' = writer /\ port' = [port EXCEPT ![a] = "spawn"]
      BY <2>3 DEF Accept
    <3> QED BY <1>1, <2>1, <3>1, <3>2 DEF Queue
  <2>4. ASSUME NEW a \in Acceptor, Spawn(a) PROVE Queue'
    <3>1. /\ port[a] = "spawn" /\ writer' = [writer EXCEPT ![cur[a]] = "copy"]
          /\ port' = [port EXCEPT ![a] = "accept"] /\ UNCHANGED <<cur, backlog>>
      BY <2>4 DEF Spawn
    <3>2. cur[a] \in Conn /\ at[cur[a]] = a /\ client[cur[a]] # "new"
      BY <3>1 DEF Queue
    <3> QED BY <1>1, <2>1, <3>1, <3>2 DEF Queue
  <2>5. ASSUME NEW a \in Acceptor, AcceptFails(a) PROVE Queue'
    BY <2>1, <2>5 DEF AcceptFails, Queue
  <2> QED BY <1>2, <2>2, <2>3, <2>4, <2>5 DEF AcceptorNext
<1>3. ASSUME NEW c \in Conn, ThreadNext(c) PROVE Queue'
  <2>1. UNCHANGED <<at, client, port, cur, backlog>>
    BY <1>3 DEF ThreadNext, CopyToWriter, WriteRecord, CloseInWriter, CopyToChooser,
                CallRead, ReadReturns, CloseInChooser
  <2>2. writer' = writer \/ (writer[c] # "none" /\ \E pc \in {"first", "second", "close", "end"} :
                                                   writer' = [writer EXCEPT ![c] = pc])
    BY <1>3 DEF ThreadNext, CopyToWriter, WriteRecord, CloseInWriter, CopyToChooser,
                CallRead, ReadReturns, CloseInChooser, Goto, AfterWrite
  <2> QED BY <1>1, <2>1, <2>2 DEF Queue
<1>4. ASSUME NEW c \in Conn, ClientNext(c) PROVE Queue'
  <2>1. UNCHANGED <<at, port, cur, writer>>
    BY <1>4 DEF ClientNext
  <2>2. CASE Connect(c)
    <3>1. client[c] = "new" /\ client' = [client EXCEPT ![c] = "header"] /\ backlog' = backlog \cup {c}
      BY <2>2 DEF Connect
    <3> QED BY <1>1, <2>1, <3>1 DEF Queue
  <2>3. CASE ~Connect(c)
    <3>1. backlog' = backlog
      BY <1>4, <2>3 DEF ClientNext, ClientStep, Arrive, ReadHeader, HeaderCutOff, ReadBody, AfterBody, BodyCutOff, Choose, Die
    <3>2. client' = client \/ \E pc \in {"header", "body", "choose", "lost", "left"} :
                                 client' = [client EXCEPT ![c] = pc]
      BY <1>4, <2>3 DEF ClientNext, ClientStep, Arrive, ReadHeader, HeaderCutOff, ReadBody, AfterBody, BodyCutOff, Choose, Die
    <3>3. client[c] # "new" \/ client' = client
      BY <1>4, <2>3 DEF ClientNext, ClientStep, Arrive, ReadHeader, HeaderCutOff, ReadBody, AfterBody, BodyCutOff, Choose, Die
    <3>4. \A d \in Conn : client'[d] = "new" <=> client[d] = "new"
      BY <1>1, <3>2, <3>3
    <3> QED BY <1>1, <2>1, <3>1, <3>4 DEF Queue
  <2> QED BY <2>2, <2>3
<1> QED BY <1>2, <1>3, <1>4 DEF Next
\* An acceptor takes a free descriptor, and starts threads where none were.
LEMMA AcceptorInOrder ==
  ASSUME TypeInv, Queue, InOrder, AcceptorNext
  PROVE  InOrder'
<1>1. UNCHANGED <<prog, client, inbox, chosen, poked, wfd, cfd, reads>>
  BY DEF AcceptorNext, BootWait, Accept, AcceptFails, Spawn
<1>2. /\ writer \in [Conn -> {"none", "copy", "first", "second", "close", "end"}]
      /\ chooser \in [Conn -> {"none", "copy", "call", "read", "close", "end"}]
      /\ fdt \in [Fd -> Conn \cup {NoConn}] /\ NoConn \notin Conn
      /\ port \in [Acceptor -> {"boot", "accept", "spawn"}]
  BY DirectoryAssumption DEF TypeInv, TypeOK
<1> SUFFICES ASSUME NEW c \in Conn PROVE SentOwn(c)' /\ OwnFds(c)' /\ OneCloser(c)' /\ LeftFirst(c)'
  BY DEF InOrder
<1>3. SentOwn(c) /\ OwnFds(c) /\ OneCloser(c) /\ LeftFirst(c)
  BY DEF InOrder
<1>4. CASE BootWait
  BY <1>1, <1>3, <1>4 DEF BootWait, SentOwn, Written, OwnRecords, Record, OwnFds, At, OneCloser, LeftFirst
<1>5. ASSUME NEW a \in Acceptor, Accept(a)
      PROVE  SentOwn(c)' /\ OwnFds(c)' /\ OneCloser(c)' /\ LeftFirst(c)'
  <2>1. UNCHANGED <<writer, chooser>>
    BY <1>5 DEF Accept
  <2>2. PICK d \in Conn, f \in FreeFds : fdt' = [fdt EXCEPT ![f] = d]
    BY <1>5 DEF Accept
  <2>3. \A g \in Fd : fdt[g] = c => fdt'[g] = c
    BY <1>2, <2>2 DEF FreeFds
  <2>4. \A g : At(g) = c => At(g)' = c
    BY <1>2, <2>3 DEF At
  <2>5. OwnFds(c)'
    BY <1>1, <1>3, <2>1, <2>4 DEF OwnFds, At
  <2> QED BY <1>1, <1>3, <2>1, <2>5 DEF SentOwn, Written, OwnRecords, Record, OneCloser, LeftFirst
<1>6. ASSUME NEW a \in Acceptor, Spawn(a)
      PROVE  SentOwn(c)' /\ OwnFds(c)' /\ OneCloser(c)' /\ LeftFirst(c)'
  <2>1. /\ port[a] = "spawn" /\ writer' = [writer EXCEPT ![cur[a]] = "copy"] /\ fdt' = fdt
        /\ chooser' = IF prog = "sm1122" THEN [chooser EXCEPT ![cur[a]] = "copy"] ELSE chooser
    BY <1>6 DEF Spawn
  <2>2. cur[a] \in Conn /\ writer[cur[a]] = "none"
    BY <2>1 DEF Queue
  <2>3. \/ writer'[c] = writer[c] /\ chooser'[c] = chooser[c]
        \/ /\ writer[c] = "none" /\ writer'[c] = "copy"
           /\ chooser'[c] = chooser[c] \/ (prog = "sm1122" /\ chooser'[c] = "copy")
    BY <1>2, <2>1, <2>2
  <2>4. SentOwn(c)'
    BY <1>1, <1>3, <2>3 DEF SentOwn, Written, OwnRecords, Record
  <2>5. OwnFds(c)' /\ OneCloser(c)' /\ LeftFirst(c)'
    BY <1>1, <1>3, <2>1, <2>3 DEF OwnFds, At, OneCloser, LeftFirst
  <2> QED BY <2>4, <2>5
<1>7. ASSUME NEW a \in Acceptor, AcceptFails(a)
      PROVE  SentOwn(c)' /\ OwnFds(c)' /\ OneCloser(c)' /\ LeftFirst(c)'
  BY <1>1, <1>3, <1>7 DEF AcceptFails, SentOwn, Written, OwnRecords, Record, OwnFds, At, OneCloser,
                          LeftFirst
<1> QED BY <1>4, <1>5, <1>6, <1>7 DEF AcceptorNext

LEMMA ClientInOrder ==
  ASSUME TypeInv, InOrder, NEW d \in Conn, ClientNext(d)
  PROVE  InOrder'
<1>1. UNCHANGED <<prog, fdt, writer, wfd, chooser, cfd, reads, inbox, poked>>
  BY DEF ClientNext
<1> SUFFICES ASSUME NEW c \in Conn PROVE SentOwn(c)' /\ OwnFds(c)' /\ OneCloser(c)' /\ LeftFirst(c)'
  BY DEF InOrder
<1>2. SentOwn(c) /\ OwnFds(c) /\ OneCloser(c) /\ LeftFirst(c)
  BY DEF InOrder
<1>3. client[c] = "left" => client'[c] = "left"
  <2>1. ClientNext(d) => Next
    BY DEF Next
  <2> QED BY <2>1, LeftForGood
<1>4. c \in chosen' => c \in chosen \/ client'[c] = "left"
  <2>1. client \in [Conn -> {"new", "header", "body", "choose", "lost", "left"}]
    BY DEF TypeInv, TypeOK
  <2> QED BY <2>1 DEF ClientNext, ClientStep, Connect, Arrive, ReadHeader, HeaderCutOff, ReadBody, AfterBody, BodyCutOff, Choose, Die
<1>5. SentOwn(c)' /\ OwnFds(c)' /\ OneCloser(c)'
  BY <1>1, <1>2 DEF SentOwn, Written, OwnRecords, Record, OwnFds, At, OneCloser
<1> QED BY <1>1, <1>2, <1>3, <1>4, <1>5 DEF LeftFirst

\* What a thread's step leaves of another connection's.
LEMMA OtherInOrder ==
  ASSUME TypeInv, InOrder, ~LeftEarly, NEW c \in Conn, ThreadNext(c), NEW d \in Conn, d # c
  PROVE  SentOwn(d)' /\ OwnFds(d)' /\ OneCloser(d)' /\ LeftFirst(d)'
<1>1. UNCHANGED <<prog, client>>
  BY DEF ThreadNext
<1>2. /\ writer \in [Conn -> {"none", "copy", "first", "second", "close", "end"}]
      /\ chooser \in [Conn -> {"none", "copy", "call", "read", "close", "end"}]
      /\ wfd \in [Conn -> Fd \cup {NoFd}] /\ cfd \in [Conn -> Fd \cup {NoFd}]
      /\ reads \in [Conn -> Conn \cup {NoConn}]
      /\ fdt \in [Fd -> Conn \cup {NoConn}] /\ NoConn \notin Conn /\ NoFd \notin Fd
  BY DirectoryAssumption DEF TypeInv, TypeOK
<1>3. /\ SentOwn(c) /\ OwnFds(c) /\ OneCloser(c) /\ LeftFirst(c)
      /\ SentOwn(d) /\ OwnFds(d) /\ OneCloser(d) /\ LeftFirst(d)
  BY DEF InOrder
<1>4. writer'[d] = writer[d] /\ wfd'[d] = wfd[d]
  BY <1>2 DEF ThreadNext, CopyToWriter, WriteRecord, CloseInWriter, CopyToChooser, CallRead,
              ReadReturns, CloseInChooser, Goto
<1>5. chooser'[d] = chooser[d] /\ cfd'[d] = cfd[d] /\ reads'[d] = reads[d] /\ chosen' \subseteq chosen
  BY <1>2 DEF ThreadNext, CopyToWriter, WriteRecord, CloseInWriter, CopyToChooser, CallRead,
              ReadReturns, CloseInChooser, Goto
<1>6. inbox'[d] = inbox[d] /\ (d \in poked' => d \in poked)
  <2>1. CASE WriteRecord(c)
    <3>1. At(wfd[c]) = c
      BY <1>3, <2>1 DEF WriteRecord, OwnFds
    <3> QED BY <2>1, <3>1 DEF WriteRecord
  <2>2. CASE UNCHANGED <<inbox, poked>>
    BY <2>2
  <2> QED BY <2>1, <2>2 DEF ThreadNext, CopyToWriter, CloseInWriter, CopyToChooser, CallRead,
                            ReadReturns, CloseInChooser
<1>7. \A f \in Fd : fdt[f] = d => fdt'[f] = d
  <2>1. CASE CloseInWriter(c)
    <3>1. At(wfd[c]) = c
      BY <1>3, <2>1 DEF CloseInWriter, OwnFds
    <3> QED BY <1>2, <2>1, <3>1 DEF CloseInWriter, CloseFd, At
  <2>2. CASE CloseInChooser(c)
    <3>1. At(cfd[c]) = c
      BY <1>3, <2>2 DEF CloseInChooser, OwnFds
    <3> QED BY <1>2, <2>2, <3>1 DEF CloseInChooser, CloseFd, At
  <2>3. CASE UNCHANGED fdt
    BY <2>3
  <2> QED BY <2>1, <2>2, <2>3 DEF ThreadNext, CopyToWriter, WriteRecord, CopyToChooser, CallRead, ReadReturns
<1>8. OwnFds(d)'
  <2>1. \A g : At(g) = d => At(g)' = d
    BY <1>2, <1>7 DEF At
  <2> QED BY <1>3, <1>4, <1>5, <2>1 DEF OwnFds, At
<1>9. SentOwn(d)'
  BY <1>3, <1>4, <1>6 DEF SentOwn, Written, OwnRecords, Record
<1> QED BY <1>1, <1>3, <1>4, <1>5, <1>6, <1>8, <1>9 DEF OneCloser, LeftFirst

\* What a thread writes, and what it closes, is its own.
LEMMA OwnInOrder ==
  ASSUME TypeInv, InOrder, ~LeftEarly, NEW c \in Conn, ThreadNext(c), ~raced'
  PROVE  SentOwn(c)' /\ OwnFds(c)' /\ OneCloser(c)' /\ LeftFirst(c)'
<1>1. UNCHANGED <<prog, client>>
  BY DEF ThreadNext
<1>2. /\ writer \in [Conn -> {"none", "copy", "first", "second", "close", "end"}]
      /\ chooser \in [Conn -> {"none", "copy", "call", "read", "close", "end"}]
      /\ wfd \in [Conn -> Fd \cup {NoFd}] /\ cfd \in [Conn -> Fd \cup {NoFd}]
      /\ reads \in [Conn -> Conn \cup {NoConn}] /\ inbox \in [Conn -> Seq(Unit)]
      /\ fdt \in [Fd -> Conn \cup {NoConn}] /\ NoConn \notin Conn /\ NoFd \notin Fd
      /\ prog \in {"sm1122", "mserv"}
  BY DirectoryAssumption DEF TypeInv, TypeOK
<1>3. /\ SentOwn(c) /\ OwnFds(c) /\ OneCloser(c) /\ LeftFirst(c)
  BY DEF InOrder
<1>4. client[c] = "left" => writer[c] \in {"close", "end"}
  BY <1>3, AllWasSent
<1>5. CASE CopyToWriter(c)
  <2>1. /\ writer[c] = "copy" /\ writer' = [writer EXCEPT ![c] = "first"]
        /\ wfd' = [wfd EXCEPT ![c] = arg[at[c]]] /\ At(arg[at[c]]) = c
        /\ UNCHANGED <<fdt, chooser, cfd, reads, inbox, chosen, poked>>
    BY <1>5 DEF CopyToWriter, Goto
  <2>2. writer'[c] = "first" /\ wfd'[c] = arg[at[c]]
    BY <1>2, <2>1
  <2>3. SentOwn(c)'
    BY <1>3, <2>1, <2>2 DEF SentOwn, Written, OwnRecords, Record
  <2>4. OwnFds(c)'
    BY <1>3, <2>1, <2>2 DEF OwnFds, At
  <2> QED BY <1>1, <1>3, <2>1, <2>2, <2>3, <2>4 DEF OneCloser, LeftFirst
<1>6. CASE CopyToChooser(c)
  <2>1. /\ chooser[c] = "copy" /\ chooser' = [chooser EXCEPT ![c] = "call"]
        /\ cfd' = [cfd EXCEPT ![c] = arg[at[c]]] /\ At(arg[at[c]]) = c
        /\ UNCHANGED <<fdt, writer, wfd, reads, inbox, chosen, poked>>
    BY <1>6 DEF CopyToChooser
  <2>2. chooser'[c] = "call" /\ cfd'[c] = arg[at[c]]
    BY <1>2, <2>1
  <2>3. SentOwn(c)'
    BY <1>3, <2>1 DEF SentOwn, Written, OwnRecords, Record
  <2>4. OwnFds(c)'
    BY <1>3, <2>1, <2>2 DEF OwnFds, At
  <2> QED BY <1>1, <1>3, <2>1, <2>2, <2>3, <2>4 DEF OneCloser, LeftFirst
<1>7. CASE WriteRecord(c)
  <2>1. /\ writer[c] \in {"first", "second"} /\ At(wfd[c]) = c /\ client[c] # "left"
        /\ UNCHANGED <<fdt, wfd, chooser, cfd, reads, chosen>>
    BY <1>3, <1>4, <1>7 DEF WriteRecord, OwnFds
  <2>2. writer'[c] = AfterWrite(c)
    BY <1>2, <1>7 DEF WriteRecord, Goto
  <2>3. c \notin poked
    BY <1>3 DEF LeftFirst
  <2>4. /\ inbox' = [e \in Conn |-> IF e = c /\ client[e] # "left"
                                    THEN inbox[e] \o Record(c, IF writer[c] = "first" THEN 1 ELSE 2)
                                    ELSE inbox[e]]
        /\ poked' = poked
    BY <1>7, <2>1, <2>3 DEF WriteRecord
  <2>5. inbox'[c] = inbox[c] \o Record(c, IF writer[c] = "first" THEN 1 ELSE 2)
    BY <2>1, <2>4
  <2>6. CASE writer[c] = "first"
    <3>1. writer'[c] = "second" /\ inbox[c] = <<>> /\ inbox'[c] = inbox[c] \o Record(c, 1)
      BY <1>3, <2>2, <2>5, <2>6, WrittenByPlace DEF AfterWrite
    <3>2. inbox'[c] = SubSeq(OwnRecords(c), 1, 1 * (Body + 1))
      BY <3>1, PrefixesOfOwn
    <3>3. SentOwn(c)'
      BY <3>1, <3>2 DEF SentOwn, Written, OwnRecords, Record
    <3>4. OwnFds(c)'
      BY <1>3, <2>1, <3>1 DEF OwnFds, At
    <3> QED BY <1>1, <1>3, <2>1, <2>4, <3>1, <3>3, <3>4 DEF OneCloser, LeftFirst
  <2>7. CASE writer[c] = "second"
    <3>1. /\ writer'[c] = IF prog = "mserv" THEN "close" ELSE "end"
          /\ inbox[c] = Record(c, 1) /\ inbox'[c] = inbox[c] \o Record(c, 2)
      BY <1>3, <2>2, <2>5, <2>7, WrittenByPlace DEF AfterWrite
    <3>2. inbox'[c] = SubSeq(OwnRecords(c), 1, 2 * (Body + 1))
      BY <3>1, PrefixesOfOwn
    <3>3. SentOwn(c)'
      BY <3>1, <3>2 DEF SentOwn, Written, OwnRecords, Record
    <3>4. OwnFds(c)'
      BY <1>3, <2>1, <3>1 DEF OwnFds, At
    <3> QED BY <1>1, <1>3, <2>1, <2>4, <3>1, <3>3, <3>4 DEF OneCloser, LeftFirst
  <2> QED BY <2>1, <2>6, <2>7
<1>8. CASE CloseInWriter(c)
  <2>1. /\ writer[c] = "close" /\ writer'[c] = "end" /\ prog = "mserv" /\ chooser[c] = "none"
        /\ UNCHANGED <<wfd, chooser, cfd, reads, inbox, chosen, poked>>
    BY <1>2, <1>3, <1>8 DEF CloseInWriter, Goto, OneCloser
  <2>2. SentOwn(c)'
    BY <1>3, <2>1 DEF SentOwn, Written, OwnRecords, Record
  <2>3. OwnFds(c)' /\ OneCloser(c)' /\ LeftFirst(c)'
    BY <1>1, <1>3, <2>1 DEF OwnFds, OneCloser, LeftFirst
  <2> QED BY <2>2, <2>3
<1>9. CASE CallRead(c)
  <2>1. /\ chooser[c] = "call" /\ At(cfd[c]) = c
        /\ UNCHANGED <<fdt, writer, wfd, cfd, inbox, chosen, poked>>
    BY <1>3, <1>9 DEF CallRead, OwnFds
  <2>2. chooser'[c] = "read" /\ reads'[c] = c
    BY <1>2, <1>9, <2>1 DEF CallRead
  <2>3. SentOwn(c)'
    BY <1>3, <2>1 DEF SentOwn, Written, OwnRecords, Record
  <2>4. OwnFds(c)'
    BY <1>3, <2>1, <2>2 DEF OwnFds, At
  <2> QED BY <1>1, <1>3, <2>1, <2>2, <2>3, <2>4 DEF OneCloser, LeftFirst
<1>10. CASE ReadReturns(c)
  <2>1. /\ chooser[c] = "read" /\ chooser'[c] = "close" /\ reads[c] = c /\ client[c] = "left"
        /\ chosen' \subseteq chosen
        /\ UNCHANGED <<fdt, writer, wfd, cfd, inbox, poked>>
    BY <1>2, <1>3, <1>10 DEF ReadReturns, LeftFirst
  <2>2. SentOwn(c)'
    BY <1>3, <2>1 DEF SentOwn, Written, OwnRecords, Record
  <2>3. OwnFds(c)'
    BY <1>3, <2>1 DEF OwnFds, At
  <2> QED BY <1>1, <1>3, <2>1, <2>2, <2>3 DEF OneCloser, LeftFirst
<1>11. CASE CloseInChooser(c)
  <2>1. /\ chooser[c] = "close" /\ chooser'[c] = "end"
        /\ UNCHANGED <<writer, wfd, cfd, reads, inbox, chosen, poked>>
    BY <1>2, <1>11 DEF CloseInChooser
  <2>2. client[c] = "left" /\ writer[c] = "end"
    BY <1>2, <1>3, <1>4, <2>1 DEF LeftFirst, OneCloser
  <2>3. SentOwn(c)'
    BY <1>3, <2>1 DEF SentOwn, Written, OwnRecords, Record
  <2>4. OwnFds(c)' /\ OneCloser(c)' /\ LeftFirst(c)'
    BY <1>1, <1>3, <2>1, <2>2 DEF OwnFds, OneCloser, LeftFirst
  <2> QED BY <2>3, <2>4
<1> QED BY <1>5, <1>6, <1>7, <1>8, <1>9, <1>10, <1>11 DEF ThreadNext

LEMMA StrayStep ==
  ASSUME TypeInv, StrayInv, [Next]_vars
  PROVE  StrayInv'
<1>1. CASE UNCHANGED vars
  <2>1. Queue' = Queue
    BY <1>1 DEF vars, Queue
  <2>2. LeftEarly' = LeftEarly /\ raced' = raced
    BY <1>1 DEF vars, LeftEarly, Whole
  <2>3. ASSUME InOrder, NEW c \in Conn PROVE SentOwn(c)' /\ OwnFds(c)' /\ OneCloser(c)' /\ LeftFirst(c)'
    <3>1. SentOwn(c) /\ OwnFds(c) /\ OneCloser(c) /\ LeftFirst(c)
      BY <2>3 DEF InOrder
    <3>2. UNCHANGED <<prog, writer, chooser, wfd, cfd, fdt, reads, client, chosen, poked, inbox>>
      BY <1>1 DEF vars
    <3>3. SentOwn(c)'
      BY <3>1, <3>2 DEF SentOwn, OwnRecords, Record, Written
    <3> QED BY <3>1, <3>2, <3>3 DEF OwnFds, At, OneCloser, LeftFirst
  <2>4. InOrder => InOrder'
    BY <2>3 DEF InOrder
  <2> QED BY <2>1, <2>2, <2>4 DEF StrayInv
<1>2. CASE Next
  <2>1. Queue'
    BY <1>2, QueueStep DEF StrayInv
  <2>2. SUFFICES ASSUME ~raced', ~LeftEarly' PROVE InOrder'
    BY <2>1 DEF StrayInv
  <2>3. ~LeftEarly /\ InOrder
    BY <1>2, <2>2, ExcusesStay DEF StrayInv
  <2>4. CASE AcceptorNext
    BY <2>3, <2>4, AcceptorInOrder DEF StrayInv
  <2>5. ASSUME NEW c \in Conn, ThreadNext(c) PROVE InOrder'
    BY <2>2, <2>3, <2>5, OtherInOrder, OwnInOrder DEF InOrder
  <2>6. ASSUME NEW c \in Conn, ClientNext(c) PROVE InOrder'
    BY <2>3, <2>6, ClientInOrder
  <2> QED BY <1>2, <2>4, <2>5, <2>6 DEF Next
<1> QED BY <1>1, <1>2

\* Every client is sent what its own thread writes, all of it and in order,
\* unless a thread copied a descriptor that was another's, or a client left
\* before it was sent all.
THEOREM StraysAreExplained == Spec => []StraysHaveACause
<1>1. Init => StrayInv
  <2> SUFFICES ASSUME Init PROVE Queue /\ InOrder
    BY DEF StrayInv
  <2>1. Queue
    BY DEF Init, Queue
  <2>2. ASSUME NEW c \in Conn PROVE SentOwn(c) /\ OwnFds(c) /\ OneCloser(c) /\ LeftFirst(c)
    <3>1. writer[c] = "none" /\ chooser[c] = "none" /\ inbox[c] = <<>> /\ chosen = {} /\ poked = {}
      BY DEF Init
    <3>2. SentOwn(c)
      BY <3>1, PrefixesOfOwn DEF SentOwn, Written
    <3> QED BY <3>1, <3>2 DEF OwnFds, OneCloser, LeftFirst
  <2> QED BY <2>1, <2>2 DEF InOrder
<1>2. StrayInv => StraysHaveACause
  BY DEF StrayInv, InOrder, SentOwn, StraysHaveACause
<1> QED BY <1>1, <1>2, StrayStep, TypeInvariant, PTL DEF Spec

-----------------------------------------------------------------------------
(* Who is still owed a record has a descriptor.  As long as no thread copied *)
(* the wrong one, a connection's descriptor is closed by its own thread, and *)
(* only after the client left (sm1122) or all was written (mserv).           *)

Done(c) == IF prog = "sm1122" THEN chooser[c] = "end" ELSE writer[c] = "end"

Handed(c) == writer[c] # "none" \/ \E a \in Acceptor : port[a] = "spawn" /\ cur[a] = c

ClosesOwn(c) ==
  /\ prog = "mserv" /\ writer[c] \in {"first", "second", "close"} => At(wfd[c]) = c
  /\ chooser[c] \in {"call", "read", "close"} => At(cfd[c]) = c

LeftToRead(c) ==
  /\ chooser[c] = "read" => reads[c] = c
  /\ chooser[c] \in {"close", "end"} \/ c \in chosen \/ c \in poked => client[c] = "left"
  /\ writer[c] = "none" => chooser[c] = "none"

Owed(c) == prog = "mserv" /\ client[c] # "left" => Len(inbox[c]) >= Written(c) * (Body + 1)

Served(c) ==
  /\ OneCloser(c) /\ ClosesOwn(c) /\ LeftToRead(c) /\ Owed(c)
  /\ Handed(c) /\ ~Done(c) => \E f \in Fd : fdt[f] = c

ServedInv == Queue /\ (raced \/ \A c \in Conn : Served(c))

LEMMA AcceptorServed ==
  ASSUME TypeInv, Queue, \A c \in Conn : Served(c), AcceptorNext, NEW c \in Conn
  PROVE  Served(c)'
<1>1. UNCHANGED <<prog, client, inbox, chosen, poked, wfd, cfd, reads>>
  BY DEF AcceptorNext, BootWait, Accept, AcceptFails, Spawn
<1>2. /\ writer \in [Conn -> {"none", "copy", "first", "second", "close", "end"}]
      /\ chooser \in [Conn -> {"none", "copy", "call", "read", "close", "end"}]
      /\ fdt \in [Fd -> Conn \cup {NoConn}] /\ NoConn \notin Conn
      /\ port \in [Acceptor -> {"boot", "accept", "spawn"}]
      /\ cur \in [Acceptor -> Conn \cup {NoConn}]
  BY DirectoryAssumption DEF TypeInv, TypeOK
<1>3. /\ OneCloser(c) /\ ClosesOwn(c) /\ LeftToRead(c) /\ Owed(c)
      /\ Handed(c) /\ ~Done(c) => \E f \in Fd : fdt[f] = c
  BY DEF Served
<1>4. CASE BootWait
  <2>1. /\ UNCHANGED <<fdt, writer, chooser, cur>>
        /\ \A a \in Acceptor : port'[a] = "spawn" => port[a] = "spawn"
    BY <1>2, <1>4 DEF BootWait
  <2>2. Handed(c)' => Handed(c)
    BY <2>1 DEF Handed
  <2>3. OneCloser(c)' /\ ClosesOwn(c)' /\ LeftToRead(c)' /\ Owed(c)' /\ (Done(c)' <=> Done(c))
    BY <1>1, <1>3, <2>1 DEF OneCloser, ClosesOwn, At, LeftToRead, Owed, Written, Done
  <2> QED BY <1>3, <2>1, <2>2, <2>3 DEF Served
<1>5. ASSUME NEW a \in Acceptor, Accept(a) PROVE Served(c)'
  <2>1. UNCHANGED <<writer, chooser>> /\ port' = [port EXCEPT ![a] = "spawn"]
    BY <1>5 DEF Accept
  <2>2. PICK d \in Conn, f \in FreeFds : fdt' = [fdt EXCEPT ![f] = d] /\ cur' = [cur EXCEPT ![a] = d]
    BY <1>5 DEF Accept
  <2>3. (\A g \in Fd : fdt[g] = c => fdt'[g] = c) /\ f \in Fd /\ fdt'[f] = d
    BY <1>2, <2>2 DEF FreeFds
  <2>4. \A g : At(g) = c => At(g)' = c
    BY <1>2, <2>3 DEF At
  <2>5. OneCloser(c)' /\ ClosesOwn(c)' /\ LeftToRead(c)' /\ Owed(c)' /\ (Done(c)' <=> Done(c))
    BY <1>1, <1>3, <2>1, <2>4 DEF OneCloser, ClosesOwn, At, LeftToRead, Owed, Written, Done
  <2>6. Handed(c)' => Handed(c) \/ c = d
    <3>1. port[a] = "accept"
      BY <1>5 DEF Accept
    <3> QED BY <1>2, <2>1, <2>2, <3>1 DEF Handed
  <2> QED BY <1>3, <2>3, <2>5, <2>6 DEF Served
<1>6. ASSUME NEW a \in Acceptor, Spawn(a) PROVE Served(c)'
  <2>1. /\ port[a] = "spawn" /\ writer' = [writer EXCEPT ![cur[a]] = "copy"]
        /\ chooser' = IF prog = "sm1122" THEN [chooser EXCEPT ![cur[a]] = "copy"] ELSE chooser
        /\ port' = [port EXCEPT ![a] = "accept"] /\ UNCHANGED <<fdt, cur>>
    BY <1>6 DEF Spawn
  <2>2. cur[a] \in Conn /\ writer[cur[a]] = "none"
    BY <2>1 DEF Queue
  <2>3. \/ writer'[c] = writer[c] /\ chooser'[c] = chooser[c]
        \/ /\ c = cur[a] /\ writer[c] = "none" /\ writer'[c] = "copy"
           /\ chooser'[c] = chooser[c] \/ (prog = "sm1122" /\ chooser'[c] = "copy")
    BY <1>2, <2>1, <2>2
  <2>4. OneCloser(c)' /\ ClosesOwn(c)' /\ LeftToRead(c)' /\ Owed(c)'
    BY <1>1, <1>3, <2>1, <2>3 DEF OneCloser, ClosesOwn, At, LeftToRead, Owed, Written
  <2>5. Handed(c)' => Handed(c)
    BY <1>2, <2>1, <2>3 DEF Handed
  <2>6. Done(c) => Done(c)'
    BY <1>1, <1>2, <1>3, <2>1, <2>3 DEF Done, LeftToRead
  <2> QED BY <1>3, <2>1, <2>4, <2>5, <2>6 DEF Served
<1>7. ASSUME NEW a \in Acceptor, AcceptFails(a) PROVE Served(c)'
  BY <1>1, <1>3, <1>7 DEF AcceptFails, Served, OneCloser, ClosesOwn, At, LeftToRead, Owed, Written,
                          Handed, Done
<1> QED BY <1>4, <1>5, <1>6, <1>7 DEF AcceptorNext

LEMMA ClientServed ==
  ASSUME TypeInv, \A c \in Conn : Served(c), NEW e \in Conn, ClientNext(e), NEW c \in Conn
  PROVE  Served(c)'
<1>1. UNCHANGED <<prog, port, cur, fdt, writer, wfd, chooser, cfd, reads, inbox, poked>>
  BY DEF ClientNext
<1>2. Served(c)
  OBVIOUS
<1>3. client[c] = "left" => client'[c] = "left"
  <2>1. ClientNext(e) => Next
    BY DEF Next
  <2> QED BY <2>1, LeftForGood
<1>4. c \in chosen' => c \in chosen \/ client'[c] = "left"
  <2>1. client \in [Conn -> {"new", "header", "body", "choose", "lost", "left"}]
    BY DEF TypeInv, TypeOK
  <2> QED BY <2>1 DEF ClientNext, ClientStep, Connect, Arrive, ReadHeader, HeaderCutOff, ReadBody,
                      AfterBody, BodyCutOff, Choose, Die
<1>5. OneCloser(c)' /\ ClosesOwn(c)' /\ LeftToRead(c)' /\ Owed(c)'
  BY <1>1, <1>2, <1>3, <1>4 DEF Served, OneCloser, ClosesOwn, At, LeftToRead, Owed, Written
<1> QED BY <1>1, <1>2, <1>5 DEF Served, Handed, Done

\* A thread's step leaves the other connections theirs.
LEMMA OtherServed ==
  ASSUME TypeInv, \A c \in Conn : Served(c), NEW e \in Conn, ThreadNext(e), NEW c \in Conn, c # e
  PROVE  Served(c)'
<1>1. UNCHANGED <<prog, client, port, cur>>
  BY DEF ThreadNext, CopyToWriter, WriteRecord, CloseInWriter, CopyToChooser, CallRead,
         ReadReturns, CloseInChooser
<1>2. /\ writer \in [Conn -> {"none", "copy", "first", "second", "close", "end"}]
      /\ chooser \in [Conn -> {"none", "copy", "call", "read", "close", "end"}]
      /\ wfd \in [Conn -> Fd \cup {NoFd}] /\ cfd \in [Conn -> Fd \cup {NoFd}]
      /\ reads \in [Conn -> Conn \cup {NoConn}]
      /\ fdt \in [Fd -> Conn \cup {NoConn}] /\ NoConn \notin Conn /\ NoFd \notin Fd
  BY DirectoryAssumption DEF TypeInv, TypeOK
<1>3. Served(c) /\ Served(e)
  OBVIOUS
<1>4. /\ writer'[c] = writer[c] /\ wfd'[c] = wfd[c] /\ chooser'[c] = chooser[c]
      /\ cfd'[c] = cfd[c] /\ reads'[c] = reads[c] /\ chosen' \subseteq chosen
      /\ c \in poked' => c \in poked \/ client[c] = "left"
  BY <1>2 DEF ThreadNext, CopyToWriter, WriteRecord, CloseInWriter, CopyToChooser, CallRead,
              ReadReturns, CloseInChooser, Goto
<1>5. \A f \in Fd : fdt[f] = c => fdt'[f] = c
  <2>1. CASE CloseInWriter(e)
    <3>1. At(wfd[e]) = e
      BY <1>3, <2>1 DEF CloseInWriter, Served, OneCloser, ClosesOwn
    <3> QED BY <1>2, <2>1, <3>1 DEF CloseInWriter, CloseFd, At
  <2>2. CASE CloseInChooser(e)
    <3>1. At(cfd[e]) = e
      BY <1>3, <2>2 DEF CloseInChooser, Served, ClosesOwn
    <3> QED BY <1>2, <2>2, <3>1 DEF CloseInChooser, CloseFd, At
  <2>3. CASE UNCHANGED fdt
    BY <2>3
  <2> QED BY <2>1, <2>2, <2>3 DEF ThreadNext, CopyToWriter, WriteRecord, CopyToChooser, CallRead,
                                  ReadReturns
<1>6. ClosesOwn(c)'
  <2>1. \A g : At(g) = c => At(g)' = c
    BY <1>2, <1>5 DEF At
  <2> QED BY <1>1, <1>3, <1>4, <2>1 DEF Served, ClosesOwn, At
<1>7. Owed(c)'
  <2>1. /\ inbox[c] \in Seq(Unit) /\ inbox'[c] \in Seq(Unit)
        /\ Len(inbox[c]) <= Len(inbox'[c])
    BY OnlyAdds DEF TypeInv
  <2>2. (Written(c) * (Body + 1))' = Written(c) * (Body + 1) /\ Written(c) * (Body + 1) \in Nat
    <3>1. Written(c) \in 0..2 /\ Written(c)' = Written(c)
      BY <1>4 DEF Written
    <3> QED BY <3>1, DirectoryAssumption
  <2>3. Len(inbox[c]) \in Nat /\ Len(inbox'[c]) \in Nat
    BY <2>1, LenProperties
  <2>4. Owed(c)
    BY <1>3 DEF Served
  <2> QED BY <1>1, <2>1, <2>2, <2>3, <2>4 DEF Owed
<1>8. OneCloser(c)' /\ LeftToRead(c)'
  BY <1>1, <1>3, <1>4 DEF Served, OneCloser, LeftToRead
<1>9. (Handed(c)' <=> Handed(c)) /\ (Done(c)' <=> Done(c))
  BY <1>1, <1>4 DEF Handed, Done
<1> QED BY <1>3, <1>5, <1>6, <1>7, <1>8, <1>9 DEF Served

LEMMA OwnServed ==
  ASSUME TypeInv, \A d \in Conn : Served(d), NEW c \in Conn, ThreadNext(c), ~raced'
  PROVE  Served(c)'
<1>1. UNCHANGED <<prog, client, port, cur>>
  BY DEF ThreadNext, CopyToWriter, WriteRecord, CloseInWriter, CopyToChooser, CallRead,
         ReadReturns, CloseInChooser
<1>2. /\ writer \in [Conn -> {"none", "copy", "first", "second", "close", "end"}]
      /\ chooser \in [Conn -> {"none", "copy", "call", "read", "close", "end"}]
      /\ wfd \in [Conn -> Fd \cup {NoFd}] /\ cfd \in [Conn -> Fd \cup {NoFd}]
      /\ reads \in [Conn -> Conn \cup {NoConn}] /\ inbox \in [Conn -> Seq(Unit)]
      /\ fdt \in [Fd -> Conn \cup {NoConn}] /\ NoConn \notin Conn /\ NoFd \notin Fd
      /\ prog \in {"sm1122", "mserv"}
  BY DirectoryAssumption DEF TypeInv, TypeOK
<1>3. /\ OneCloser(c) /\ ClosesOwn(c) /\ LeftToRead(c) /\ Owed(c)
      /\ Handed(c) /\ ~Done(c) => \E f \in Fd : fdt[f] = c
  BY DEF Served
<1>4. CASE CopyToWriter(c)
  <2>1. /\ writer[c] = "copy" /\ writer' = [writer EXCEPT ![c] = "first"]
        /\ wfd' = [wfd EXCEPT ![c] = arg[at[c]]] /\ At(arg[at[c]]) = c
        /\ UNCHANGED <<fdt, chooser, cfd, reads, inbox, chosen, poked>>
    BY <1>4 DEF CopyToWriter, Goto
  <2>2. writer'[c] = "first" /\ wfd'[c] = arg[at[c]]
    BY <1>2, <2>1
  <2> QED BY <1>1, <1>3, <2>1, <2>2 DEF Served, OneCloser, ClosesOwn, At, LeftToRead, Owed, Written,
                                        Handed, Done
<1>5. CASE CopyToChooser(c)
  <2>1. /\ chooser[c] = "copy" /\ chooser' = [chooser EXCEPT ![c] = "call"]
        /\ cfd' = [cfd EXCEPT ![c] = arg[at[c]]] /\ At(arg[at[c]]) = c
        /\ UNCHANGED <<fdt, writer, wfd, reads, inbox, chosen, poked>>
    BY <1>5 DEF CopyToChooser
  <2>2. chooser'[c] = "call" /\ cfd'[c] = arg[at[c]]
    BY <1>2, <2>1
  <2> QED BY <1>1, <1>3, <2>1, <2>2 DEF Served, OneCloser, ClosesOwn, At, LeftToRead, Owed, Written,
                                        Handed, Done
<1>6. CASE WriteRecord(c)
  <2>1. /\ writer[c] \in {"first", "second"} /\ writer' = [writer EXCEPT ![c] = AfterWrite(c)]
        /\ UNCHANGED <<fdt, wfd, chooser, cfd, reads, chosen>>
        /\ c \in poked' => c \in poked \/ client[c] = "left"
    BY <1>6 DEF WriteRecord, Goto
  <2>2. writer'[c] = AfterWrite(c) /\ AfterWrite(c) \in {"second", "close", "end"}
    BY <1>2, <2>1 DEF AfterWrite
  <2>3. ClosesOwn(c)' /\ OneCloser(c)' /\ LeftToRead(c)'
    BY <1>1, <1>2, <1>3, <2>1, <2>2 DEF ClosesOwn, At, OneCloser, LeftToRead, AfterWrite
  <2>4. Handed(c)' => Handed(c)
    BY <2>1 DEF Handed
  <2>5. Done(c) => Done(c)'
    BY <1>1, <2>1 DEF Done
  <2>6. Owed(c)'
    <3>1. CASE prog = "mserv" /\ client[c] # "left"
      <4>1. At(wfd[c]) = c
        BY <1>3, <2>1, <3>1 DEF ClosesOwn
      <4>2. PICK k \in 1..2 : k = IF writer[c] = "first" THEN 1 ELSE 2
        OBVIOUS
      <4>3. inbox'[c] = inbox[c] \o Record(c, k)
        BY <1>2, <1>3, <1>6, <3>1, <4>1, <4>2 DEF WriteRecord, LeftToRead
      <4>4. /\ inbox[c] \in Seq(Unit) /\ Record(c, k) \in Seq(Unit)
            /\ Len(Record(c, k)) = Body + 1 /\ Body \in Nat
        BY <1>2, RecordType, DirectoryAssumption
      <4>5. Len(inbox'[c]) = Len(inbox[c]) + (Body + 1) /\ Len(inbox[c]) \in Nat
        <5>1. Len(inbox[c] \o Record(c, k)) = Len(inbox[c]) + Len(Record(c, k))
          BY <4>4, ConcatProperties
        <5>2. Len(inbox[c]) \in Nat
          BY <4>4, LenProperties
        <5> QED BY <4>3, <4>4, <5>1, <5>2
      <4>6. Len(inbox[c]) >= Written(c) * (Body + 1)
        BY <1>3, <3>1 DEF Owed
      <4>7. CASE writer[c] = "first"
        <5>1. Written(c) = 0 /\ Written(c)' = 1
          BY <2>2, <4>7 DEF Written, AfterWrite
        <5>2. 0 * (Body + 1) = 0 /\ 1 * (Body + 1) = Body + 1
          BY <4>4
        <5>3. Written(c) * (Body + 1) = 0 /\ Written(c)' * (Body + 1) = Body + 1
          BY <5>1, <5>2
        <5>4. Len(inbox'[c]) >= Written(c)' * (Body + 1)
          <6> DEFINE w == Written(c)' * (Body + 1)
          <6>1. w = Body + 1 /\ w \in Nat
            BY <4>4, <5>3
          <6>2. Len(inbox'[c]) = Len(inbox[c]) + w /\ Len(inbox[c]) \in Nat
            BY <4>5, <6>1
          <6> HIDE DEF w
          <6>3. Len(inbox'[c]) >= w
            BY <6>1, <6>2
          <6> QED BY <6>3 DEF w
        <5> QED BY <5>4 DEF Owed
      <4>8. CASE writer[c] = "second"
        <5>1. Written(c) = 1 /\ Written(c)' = 2
          BY <2>2, <3>1, <4>8 DEF Written, AfterWrite
        <5>2. 1 * (Body + 1) = Body + 1 /\ 2 * (Body + 1) = (Body + 1) + (Body + 1)
          BY <4>4
        <5>3. Written(c) * (Body + 1) = Body + 1 /\ Written(c)' * (Body + 1) = (Body + 1) + (Body + 1)
          BY <5>1, <5>2
        <5>4. Len(inbox'[c]) >= (Body + 1) + (Body + 1)
          BY <4>4, <4>5, <4>6, <5>3
        <5> QED BY <5>3, <5>4 DEF Owed
      <4> QED BY <2>1, <4>7, <4>8
    <3>2. CASE ~(prog = "mserv" /\ client[c] # "left")
      BY <1>1, <3>2 DEF Owed
    <3> QED BY <3>1, <3>2
  <2> QED BY <1>3, <2>1, <2>3, <2>4, <2>5, <2>6 DEF Served
<1>7. CASE CloseInWriter(c)
  <2>1. /\ writer[c] = "close" /\ writer'[c] = "end" /\ prog = "mserv" /\ chooser[c] = "none"
        /\ UNCHANGED <<wfd, chooser, cfd, reads, inbox, chosen, poked>>
    BY <1>2, <1>3, <1>7 DEF CloseInWriter, Goto, OneCloser
  <2> QED BY <1>1, <1>3, <2>1 DEF Served, OneCloser, ClosesOwn, LeftToRead, Owed, Written, Done
<1>8. CASE CallRead(c)
  <2>1. /\ chooser[c] = "call" /\ At(cfd[c]) = c
        /\ UNCHANGED <<fdt, writer, wfd, cfd, inbox, chosen, poked>>
    BY <1>3, <1>8 DEF CallRead, ClosesOwn
  <2>2. chooser'[c] = "read" /\ reads'[c] = c
    BY <1>2, <1>8, <2>1 DEF CallRead
  <2> QED BY <1>1, <1>3, <2>1, <2>2 DEF Served, OneCloser, ClosesOwn, At, LeftToRead, Owed, Written,
                                        Handed, Done
<1>9. CASE ReadReturns(c)
  <2>1. /\ chooser[c] = "read" /\ chooser'[c] = "close" /\ client[c] = "left"
        /\ chosen' \subseteq chosen
        /\ UNCHANGED <<fdt, writer, wfd, cfd, inbox, poked>>
    BY <1>2, <1>3, <1>9 DEF ReadReturns, LeftToRead
  <2> QED BY <1>1, <1>3, <2>1 DEF Served, OneCloser, ClosesOwn, At, LeftToRead, Owed, Written,
                                  Handed, Done
<1>10. CASE CloseInChooser(c)
  <2>1. /\ chooser[c] = "close" /\ chooser'[c] = "end" /\ prog = "sm1122"
        /\ UNCHANGED <<writer, wfd, cfd, reads, inbox, chosen, poked>>
    BY <1>2, <1>3, <1>10 DEF CloseInChooser, OneCloser
  <2> QED BY <1>1, <1>3, <2>1 DEF Served, OneCloser, ClosesOwn, LeftToRead, Owed, Written, Done
<1> QED BY <1>4, <1>5, <1>6, <1>7, <1>8, <1>9, <1>10 DEF ThreadNext

LEMMA ServedInvariant == Spec => []ServedInv
<1>1. Init => ServedInv
  <2> SUFFICES ASSUME Init PROVE Queue /\ \A c \in Conn : Served(c)
    BY DEF ServedInv
  <2>1. Queue
    BY DEF Init, Queue
  <2>2. ASSUME NEW c \in Conn PROVE Served(c)
    <3>1. /\ writer[c] = "none" /\ chooser[c] = "none" /\ Len(inbox[c]) = 0
          /\ chosen = {} /\ poked = {}
      BY DEF Init
    <3>2. ~Handed(c)
      <4>1. \A a \in Acceptor : port[a] # "spawn"
        BY DEF Init, Acceptor
      <4> QED BY <3>1, <4>1 DEF Handed
    <3>3. Written(c) * (Body + 1) = 0
      BY <3>1, DirectoryAssumption DEF Written
    <3> QED BY <3>1, <3>2, <3>3 DEF Served, OneCloser, ClosesOwn, LeftToRead, Owed
  <2> QED BY <2>1, <2>2
<1>2. TypeInv /\ ServedInv /\ [Next]_vars => ServedInv'
  <2> SUFFICES ASSUME TypeInv, ServedInv, [Next]_vars PROVE ServedInv'
    OBVIOUS
  <2>1. CASE UNCHANGED vars
    BY <2>1 DEF vars, ServedInv, Queue, Served, OneCloser, ClosesOwn, At, LeftToRead, Owed, Written,
                Handed, Done
  <2>2. CASE Next
    <3>1. Queue' /\ (raced => raced')
      BY <2>2, QueueStep, ExcusesStay DEF ServedInv
    <3>2. SUFFICES ASSUME ~raced', NEW c \in Conn PROVE Served(c)'
      BY <3>1 DEF ServedInv
    <3>3. Queue /\ \A d \in Conn : Served(d)
      BY <3>1, <3>2 DEF ServedInv
    <3>4. CASE AcceptorNext
      BY <3>3, <3>4, AcceptorServed
    <3>5. ASSUME NEW e \in Conn, ThreadNext(e) PROVE Served(c)'
      BY <3>2, <3>3, <3>5, OwnServed, OtherServed
    <3>6. ASSUME NEW e \in Conn, ClientNext(e) PROVE Served(c)'
      BY <3>3, <3>6, ClientServed
    <3> QED BY <2>2, <3>4, <3>5, <3>6 DEF Next
  <2> QED BY <2>1, <2>2
<1> QED BY <1>1, <1>2, TypeInvariant, PTL DEF Spec

-----------------------------------------------------------------------------
(* What is decoded.  A header is only ever written together with its body,  *)
(* and a client in a body is as far behind the header as recv says.        *)

BlockAt(s, j) ==
  /\ j + Body <= Len(s)
  /\ \E k \in 1..2, d \in Conn :
       \A i \in 0..Body : s[j + i] = [rec |-> k, part |-> i, by |-> d]

Blocks == \A c \in Conn : \A j \in 1..Len(inbox[c]) : inbox[c][j].part = 0 => BlockAt(inbox[c], j)

AtBody ==
  \A c \in Conn : client[c] = "body" /\ c \notin over =>
    pos[c] - recv[c] >= 1 /\ inbox[c][pos[c] - recv[c]].part = 0

\* A client that reads a header has read as much as it has decoded, at most.
AtHeader ==
  \A c \in Conn \ over :
    /\ client[c] = "new" => got[c] = <<>> /\ pos[c] = 0
    /\ client[c] \in {"header", "body"} => Len(got[c]) <= 1
    /\ client[c] = "header" => pos[c] <= IF got[c] = <<>> THEN 0 ELSE Body + 1
    /\ client[c] = "body" /\ got[c] = <<>> => pos[c] - recv[c] <= 1

IsBody(t) == \E k \in 1..2, d \in Conn : t \in TextsOf(Tail(Record(d, k)))
Excused == raced \/ proc # "up"

DecodedInv == TypeInv /\ Blocks /\ AtBody /\ AtHeader /\ DecodedWhole

LEMMA WholeByText ==
  DecodedWhole <=> \A c \in Conn \ over : \A i \in 1..Len(got[c]) :
                     IsBody(got[c][i]) \/ (got[c][i] \in TextsOf(<<>>) /\ Excused)
BY DEF DecodedWhole, IsBody, Excused

\* What counts as a body goes on counting as one.
LEMMA ExcusedForGood ==
  ASSUME TypeInv, [Next]_vars
  PROVE  /\ Excused => Excused'
         /\ DecodedWhole' <=> \A c \in Conn \ over' : \A i \in 1..Len(got'[c]) :
              IsBody(got'[c][i]) \/ (got'[c][i] \in TextsOf(<<>>) /\ Excused')
<1>1. prog' = prog
  BY DEF Next, AcceptorNext, ThreadNext, ClientNext, vars
<1>2. raced => raced'
  BY ExcusesStay DEF vars
<1>3. proc # "up" => proc' # "up"
  BY DEF Next, ClientNext, vars
<1>4. DecodedWhole' <=> \A c \in Conn \ over' : \A i \in 1..Len(got'[c]) :
        IsBody(got'[c][i]) \/ (got'[c][i] \in TextsOf(<<>>) /\ Excused')
  BY <1>1 DEF DecodedWhole, IsBody, Excused, TextsOf, Stale, Record
<1> QED BY <1>2, <1>3, <1>4 DEF Excused

\* A client that decodes one text more.
LEMMA OneMore ==
  ASSUME DecodedInv, [Next]_vars, NEW c \in Conn, NEW u,
         got' = [got EXCEPT ![c] = Append(@, u)], over \subseteq over',
         c \notin over' => IsBody(u) \/ (u \in TextsOf(<<>>) /\ Excused')
  PROVE  DecodedWhole'
<1>1. got \in [Conn -> Seq(Text)] /\ TypeInv
  BY DEF DecodedInv, TypeInv, TypeOK, Text
<1> SUFFICES ASSUME NEW d \in Conn \ over', NEW i \in 1..Len(got'[d])
             PROVE  IsBody(got'[d][i]) \/ (got'[d][i] \in TextsOf(<<>>) /\ Excused')
  BY <1>1, ExcusedForGood
<1>2. d \in Conn \ over
  OBVIOUS
<1>3. CASE d = c /\ i = Len(got[c]) + 1
  <2>1. got'[d][i] = u
    BY <1>1, <1>3
  <2> QED BY <1>3, <2>1
<1>4. CASE ~(d = c /\ i = Len(got[c]) + 1)
  <2>1. i \in 1..Len(got[d]) /\ got'[d][i] = got[d][i]
    BY <1>1, <1>4
  <2>2. IsBody(got[d][i]) \/ (got[d][i] \in TextsOf(<<>>) /\ Excused)
    BY <1>2, <2>1, WholeByText DEF DecodedInv
  <2> QED BY <1>1, <2>1, <2>2, ExcusedForGood
<1> QED BY <1>3, <1>4

\* Nobody decodes anything.
LEMMA NoneMore ==
  ASSUME DecodedInv, [Next]_vars, got' = got, over' = over
  PROVE  DecodedWhole'
BY WholeByText, ExcusedForGood DEF DecodedInv

\* The connection of a client that is owed a record is open, while the server
\* is up and no thread has the wrong descriptor.
LEMMA NoEndWhileOwed ==
  ASSUME DecodedInv, ServedInv, NEW c \in Conn \ over, client[c] = "header", AtEof(c)
  PROVE  Excused
<1> SUFFICES ASSUME ~raced, proc = "up" PROVE FALSE
  BY DEF Excused
<1>1. Served(c)
  BY DEF ServedInv
<1>2. writer[c] # "none" /\ \A f \in Fd : fdt[f] # c
  BY DEF AtEof, ServerClosed
<1>3. Done(c)
  BY <1>1, <1>2 DEF Served, Handed
<1>4. prog = "mserv" /\ writer[c] = "end"
  <2>1. prog \in {"sm1122", "mserv"}
    BY DirectoryAssumption DEF DecodedInv, TypeInv, TypeOK
  <2> QED BY <1>1, <1>3, <2>1 DEF Done, Served, LeftToRead
<1>5. Body \in Nat /\ Body >= 1 /\ 2 * (Body + 1) = (Body + 1) + (Body + 1)
  BY DirectoryAssumption
<1>6. Len(inbox[c]) >= (Body + 1) + (Body + 1)
  BY <1>1, <1>4, <1>5 DEF Served, Owed, Written
<1>7. pos[c] <= Body + 1 /\ pos[c] \in Nat
  BY <1>5 DEF DecodedInv, AtHeader, TypeInv, TypeOK
<1> QED BY <1>5, <1>6, <1>7 DEF AtEof

LEMMA AppendKeepsBlocks ==
  ASSUME NEW s \in Seq(Unit), NEW d \in Conn, NEW k \in 1..2,
         \A j \in 1..Len(s) : s[j].part = 0 => BlockAt(s, j),
         NEW j \in 1..Len(s \o Record(d, k)), (s \o Record(d, k))[j].part = 0
  PROVE  BlockAt(s \o Record(d, k), j)
<1> DEFINE r == Record(d, k)
           t == s \o r
<1>1. /\ r \in Seq(Unit) /\ Len(r) = Body + 1 /\ Body \in Nat
      /\ \A i \in 1..Body + 1 : r[i] = [rec |-> k, part |-> i - 1, by |-> d]
  BY RecordType, DirectoryAssumption
<1> HIDE DEF r
<1>2. /\ Len(t) = Len(s) + Len(r) /\ Len(s) \in Nat
      /\ \A i \in 1..Len(s) + Len(r) : t[i] = IF i <= Len(s) THEN s[i] ELSE r[i - Len(s)]
  BY <1>1, ConcatProperties, LenProperties
<1> HIDE DEF t
<1>3. j \in 1..Len(t) /\ t[j].part = 0
  BY DEF t, r
<1>4. BlockAt(t, j)
  <2>1. CASE j <= Len(s)
    <3>1. j \in 1..Len(s) /\ s[j].part = 0
      BY <1>1, <1>2, <1>3, <2>1
    <3>2. BlockAt(s, j)
      BY <3>1
    <3>3. PICK m \in 1..2, e \in Conn :
            \A i \in 0..Body : s[j + i] = [rec |-> m, part |-> i, by |-> e]
      BY <3>2 DEF BlockAt
    <3>4. j + Body <= Len(s)
      BY <3>2 DEF BlockAt
    <3>5. ASSUME NEW i \in 0..Body PROVE t[j + i] = [rec |-> m, part |-> i, by |-> e]
      <4>1. j + i \in 1..Len(s) + Len(r) /\ j + i <= Len(s)
        BY <1>1, <1>2, <3>1, <3>4
      <4> QED BY <1>2, <3>3, <4>1
    <3>6. j + Body <= Len(t)
      BY <1>1, <1>2, <3>1, <3>4
    <3> QED BY <3>5, <3>6 DEF BlockAt
  <2>2. CASE j > Len(s)
    <3>1. j - Len(s) \in 1..Body + 1 /\ t[j] = r[j - Len(s)]
      BY <1>1, <1>2, <1>3, <2>2
    <3>2. r[j - Len(s)].part = (j - Len(s)) - 1
      BY <1>1, <3>1
    <3>3. j = Len(s) + 1
      BY <1>1, <1>2, <1>3, <3>1, <3>2
    <3>4. ASSUME NEW i \in 0..Body PROVE t[j + i] = [rec |-> k, part |-> i, by |-> d]
      <4>1. /\ j + i \in 1..Len(s) + Len(r) /\ ~(j + i <= Len(s))
            /\ (j + i) - Len(s) = i + 1 /\ i + 1 \in 1..Body + 1 /\ (i + 1) - 1 = i
        BY <1>1, <1>2, <3>3
      <4>2. t[j + i] = r[i + 1]
        BY <1>2, <4>1
      <4>3. r[i + 1] = [rec |-> k, part |-> (i + 1) - 1, by |-> d]
        BY <1>1, <4>1
      <4> QED BY <4>1, <4>2, <4>3
    <3>5. j + Body <= Len(t)
      BY <1>1, <1>2, <3>3
    <3> QED BY <3>4, <3>5 DEF BlockAt
  <2> QED BY <1>1, <1>2, <1>3, <2>1, <2>2
<1> QED BY <1>4 DEF t, r

LEMMA ThreadDecoded ==
  ASSUME DecodedInv, TypeInv', [Next]_vars, NEW c \in Conn, ThreadNext(c)
  PROVE  DecodedInv'
<1> USE DEF DecodedInv
<1>1. UNCHANGED <<client, pos, recv, got, over>>
  BY DEF ThreadNext
<1>2. Appends(c)
  BY ThreadAppends DEF TypeInv
<1>3. Blocks'
  <2> SUFFICES ASSUME NEW d \in Conn, NEW j \in 1..Len(inbox'[d]), inbox'[d][j].part = 0
               PROVE  BlockAt(inbox'[d], j)
    BY DEF Blocks, BlockAt
  <2>1. CASE inbox'[d] = inbox[d]
    BY <2>1 DEF Blocks
  <2>2. CASE \E k \in 1..2 : inbox'[d] = inbox[d] \o Record(c, k)
    <3>1. PICK k \in 1..2 : inbox'[d] = inbox[d] \o Record(c, k)
      BY <2>2
    <3>2. inbox[d] \in Seq(Unit)
      BY DEF TypeInv, TypeOK
    <3> QED BY <3>1, <3>2, AppendKeepsBlocks DEF Blocks
  <2> QED BY <1>2, <2>1, <2>2 DEF Appends
<1>4. AtBody'
  <2> SUFFICES ASSUME NEW d \in Conn, client[d] = "body", d \notin over
               PROVE  pos[d] - recv[d] >= 1 /\ inbox'[d][pos[d] - recv[d]].part = 0
    BY <1>1 DEF AtBody
  <2>1. pos[d] - recv[d] \in 1..Len(inbox[d]) /\ inbox[d][pos[d] - recv[d]].part = 0
    <3>1. pos[d] - recv[d] >= 1 /\ inbox[d][pos[d] - recv[d]].part = 0
      BY DEF AtBody
    <3>2. /\ pos[d] \in Nat /\ recv[d] \in Nat /\ came[d] \in Nat
          /\ pos[d] <= came[d] /\ came[d] <= Len(inbox[d])
      BY DEF TypeInv, TypeOK, Within
    <3>3. Len(inbox[d]) \in Nat
      BY LenProperties DEF TypeInv, TypeOK
    <3> QED BY <3>1, <3>2, <3>3
  <2>2. CASE inbox'[d] = inbox[d]
    BY <2>1, <2>2
  <2>3. CASE \E k \in 1..2 : inbox'[d] = inbox[d] \o Record(c, k)
    <3>1. PICK k \in 1..2 : inbox'[d] = inbox[d] \o Record(c, k)
      BY <2>3
    <3>2. inbox[d] \in Seq(Unit) /\ Record(c, k) \in Seq(Unit)
      <4>1. inbox[d] \in Seq(Unit)
        BY DEF TypeInv, TypeOK
      <4> QED BY <4>1, RecordType
    <3>3. inbox'[d][pos[d] - recv[d]] = inbox[d][pos[d] - recv[d]]
      <4>1. PICK i \in 1..Len(inbox[d]) : i = pos[d] - recv[d]
        BY <2>1
      <4>2. Len(inbox[d]) \in Nat /\ Len(Record(c, k)) \in Nat
        BY <3>2, LenProperties
      <4>3. i \in 1..Len(inbox[d]) + Len(Record(c, k)) /\ i <= Len(inbox[d])
        BY <4>1, <4>2
      <4> QED BY <3>1, <3>2, <4>1, <4>3, ConcatProperties
    <3> QED BY <2>1, <3>3
  <2> QED BY <1>2, <2>2, <2>3 DEF Appends
<1>5. DecodedWhole'
  BY <1>1, NoneMore
<1>6. AtHeader'
  BY <1>1 DEF AtHeader
<1> QED BY <1>3, <1>4, <1>5, <1>6

\* The body that follows the header at position h.
LEMMA BodyDecoded ==
  ASSUME NEW s \in Seq(Unit), NEW h \in 1..Len(s), BlockAt(s, h)
  PROVE  \E k \in 1..2, d \in Conn : SubSeq(s, h + 1, h + Body) = Tail(Record(d, k))
<1>1. PICK k \in 1..2, d \in Conn :
        \A i \in 0..Body : s[h + i] = [rec |-> k, part |-> i, by |-> d]
  BY DEF BlockAt
<1>2. Body \in Nat /\ Body >= 1 /\ h \in Nat /\ h + Body <= Len(s)
  BY DirectoryAssumption DEF BlockAt
<1>3. /\ Record(d, k) \in Seq(Unit) /\ Len(Record(d, k)) = Body + 1
      /\ \A i \in 1..Body + 1 : Record(d, k)[i] = [rec |-> k, part |-> i - 1, by |-> d]
  BY RecordType
<1> DEFINE u == SubSeq(s, h + 1, h + Body)
           v == Tail(Record(d, k))
<1>4. Record(d, k) # <<>>
  BY <1>2, <1>3, EmptySeq
<1>5. v \in Seq(Unit) /\ Len(v) = Body
  BY <1>2, <1>3, <1>4, HeadTailProperties
<1>6. \A i \in 1..Body : v[i] = Record(d, k)[i + 1]
  BY <1>3, <1>4, <1>5, HeadTailProperties
<1>7. \A i \in h + 1..h + Body : s[i] \in Unit
  <2> TAKE i \in h + 1..h + Body
  <2>1. i \in 1..Len(s)
    BY <1>2
  <2> QED BY <2>1, ElementOfSeq
<1>8. u \in Seq(Unit) /\ Len(u) = Body /\ \A i \in 1..Body : u[i] = s[h + i]
  <2>1. PICK a \in Int : a = h + 1
    BY <1>2
  <2>2. PICK b \in Int : b = h + Body
    BY <1>2
  <2>3. \A i \in a..b : s[i] \in Unit
    BY <1>7, <2>1, <2>2
  <2>4. /\ SubSeq(s, a, b) \in Seq(Unit)
        /\ Len(SubSeq(s, a, b)) = IF a <= b THEN b - a + 1 ELSE 0
        /\ \A i \in 1..b - a + 1 : SubSeq(s, a, b)[i] = s[a + i - 1]
    BY <2>3, SubSeqProperties
  <2>5. b - a + 1 = Body /\ a <= b /\ u = SubSeq(s, a, b)
    BY <1>2, <2>1, <2>2
  <2>6. \A i \in 1..Body : a + i - 1 = h + i
    BY <1>2, <2>1
  <2> HIDE DEF u
  <2> QED BY <2>4, <2>5, <2>6
<1>9. \A i \in 1..Body : u[i] = v[i]
  <2> SUFFICES ASSUME NEW i \in 1..Body PROVE s[h + i] = Record(d, k)[i + 1]
    BY <1>6, <1>8
  <2>1. i \in 0..Body /\ i + 1 \in 1..Body + 1 /\ (i + 1) - 1 = i
    BY <1>2
  <2>2. Record(d, k)[i + 1] = [rec |-> k, part |-> (i + 1) - 1, by |-> d]
    BY <1>3, <2>1
  <2> QED BY <1>1, <2>1, <2>2
<1> HIDE DEF u, v
<1>10. u = v
  BY <1>5, <1>8, <1>9, SeqEqual
<1> QED BY <1>10 DEF u, v

LEMMA ReadBodyDecoded ==
  ASSUME DecodedInv, [Next]_vars, NEW c \in Conn, ReadBody(c), UNCHANGED inbox
  PROVE  AtBody' /\ AtHeader' /\ DecodedWhole'
<1>1. PICK n \in 1..Body : BodyRead(c, n)
  BY BodyStep DEF DecodedInv
<1>2. /\ n \in Nat /\ Body \in Nat /\ n >= 1 /\ client[c] = "body"
      /\ pos \in [Conn -> Nat] /\ recv \in [Conn -> Nat]
      /\ client \in [Conn -> {"new", "header", "body", "choose", "lost", "left"}]
      /\ got \in [Conn -> Seq(Text)] /\ inbox[c] \in Seq(Unit)
  <2>1. n \in Nat /\ Body \in Nat /\ n >= 1 /\ client[c] = "body"
    BY DirectoryAssumption DEF ReadBody
  <2>2. /\ pos \in [Conn -> Nat] /\ recv \in [Conn -> Nat]
        /\ client \in [Conn -> {"new", "header", "body", "choose", "lost", "left"}]
        /\ got \in [Conn -> Seq(Text)] /\ inbox[c] \in Seq(Unit)
    BY DEF DecodedInv, TypeInv, TypeOK, Text
  <2> QED BY <2>1, <2>2
<1>3. over \subseteq over'
  BY <1>1 DEF BodyRead
<1>4. ASSUME NEW d \in Conn, d # c
      PROVE  /\ client'[d] = client[d] /\ pos'[d] = pos[d] /\ recv'[d] = recv[d]
             /\ got'[d] = got[d]
  BY <1>1, <1>2, <1>4 DEF BodyRead
<1>5. ASSUME c \notin over'
      PROVE  /\ pos[c] - recv[c] \in 1..Len(inbox[c]) /\ BlockAt(inbox[c], pos[c] - recv[c])
             /\ inbox[c][pos[c] - recv[c]].part = 0 /\ recv[c] + n <= Body
  <2>1. c \notin over /\ recv[c] + n <= Body
    BY <1>1, <1>2, <1>5 DEF BodyRead
  <2>2. pos[c] - recv[c] >= 1 /\ inbox[c][pos[c] - recv[c]].part = 0
    BY <1>2, <2>1 DEF DecodedInv, AtBody
  <2>3. Len(inbox[c]) \in Nat /\ pos[c] <= Len(inbox[c]) /\ pos[c] \in Nat /\ recv[c] \in Nat
    BY <1>2, LenProperties DEF DecodedInv, TypeInv, TypeOK, Within
  <2>4. pos[c] - recv[c] \in 1..Len(inbox[c])
    BY <2>2, <2>3
  <2> QED BY <2>1, <2>2, <2>4 DEF DecodedInv, Blocks
<1>n. n \in Nat /\ Body \in Nat /\ recv[c] \in Nat /\ pos[c] \in Nat
  BY <1>2
<1>o. c \notin over' => recv[c] + n <= Body
  BY <1>5
<1>6. pos'[c] = pos[c] + n /\ recv'[c] = recv[c] + n /\ pos'[c] - recv'[c] = pos[c] - recv[c]
  BY <1>1, <1>2 DEF BodyRead
<1>7. AtBody'
  <2> SUFFICES ASSUME NEW d \in Conn, client'[d] = "body", d \notin over'
               PROVE  pos'[d] - recv'[d] >= 1 /\ inbox[d][pos'[d] - recv'[d]].part = 0
    BY DEF AtBody
  <2>1. CASE d = c
    <3>1. pos[c] - recv[c] >= 1 /\ inbox[c][pos[c] - recv[c]].part = 0
      BY <1>5, <2>1
    <3> QED BY <1>6, <2>1, <3>1
  <2>2. CASE d # c
    BY <1>3, <1>4, <2>2 DEF DecodedInv, AtBody
  <2> QED BY <2>1, <2>2
<1>8. CASE recv[c] + n >= Body
  <2>1. PICK last \in pos[c] - recv[c] + Body..pos[c] + n :
          /\ recv[c] + n = Body => last = pos[c] - recv[c] + Body
          /\ \E u \in TextsOf(SubSeq(inbox[c], pos[c] - recv[c] + 1, last)) :
               got' = [got EXCEPT ![c] = Append(@, u)]
    <3>1. ~(recv[c] + n < Body)
      BY <1>2, <1>8
    <3> QED BY <1>1, <3>1 DEF BodyRead
  <2>2. PICK u \in TextsOf(SubSeq(inbox[c], pos[c] - recv[c] + 1, last)) :
          got' = [got EXCEPT ![c] = Append(@, u)]
    BY <2>1
  <2>3. client' = [client EXCEPT ![c] = AfterBody(c)]
    <3>1. ~(recv[c] + n < Body)
      BY <1>2, <1>8
    <3> QED BY <1>1, <3>1 DEF BodyRead
  <2>4. ASSUME c \notin over' PROVE IsBody(u)
    <3>1. PICK h \in 1..Len(inbox[c]) : h = pos[c] - recv[c]
      BY <1>5, <2>4
    <3>2. BlockAt(inbox[c], h)
      BY <1>5, <2>4, <3>1
    <3>3. recv[c] + n = Body
      BY <1>n, <1>o, <1>8, <2>4
    <3>4. u \in TextsOf(SubSeq(inbox[c], h + 1, h + Body))
      BY <2>1, <2>2, <3>1, <3>3
    <3> QED BY <1>2, <3>2, <3>4, BodyDecoded DEF IsBody
  <2>5. DecodedWhole'
    BY <1>3, <2>2, <2>4, OneMore
  <2>6. AtHeader'
    <3>1. ASSUME NEW d \in Conn \ over', d # c
          PROVE  /\ client'[d] = "new" => got'[d] = <<>> /\ pos'[d] = 0
                 /\ client'[d] \in {"header", "body"} => Len(got'[d]) <= 1
                 /\ client'[d] = "header" => pos'[d] <= IF got'[d] = <<>> THEN 0 ELSE Body + 1
                 /\ client'[d] = "body" /\ got'[d] = <<>> => pos'[d] - recv'[d] <= 1
      <4>1. d \in Conn \ over
        BY <1>3
      <4> QED BY <1>4, <3>1, <4>1 DEF DecodedInv, AtHeader
    <3>2. ASSUME c \notin over'
          PROVE  /\ client'[c] \in {"header", "choose"}
                 /\ client'[c] = "header" =>
                      got'[c] # <<>> /\ Len(got'[c]) <= 1 /\ pos'[c] <= Body + 1
      <4>1. c \in Conn \ over
        BY <1>3, <3>2
      <4>2. client'[c] = IF Len(got[c]) = 0 THEN "header" ELSE "choose"
        BY <1>2, <2>3 DEF AfterBody
      <4>3. ASSUME Len(got[c]) = 0
            PROVE  got'[c] # <<>> /\ Len(got'[c]) <= 1 /\ pos'[c] <= Body + 1
        <5>1. got[c] = <<>> /\ got[c] \in Seq(Text)
          BY <1>2, <4>3, EmptySeq
        <5>2. got'[c] = Append(got[c], u)
          BY <1>2, <2>2
        <5>3. got'[c] # <<>> /\ Len(got'[c]) <= 1
          BY <5>1, <5>2
        <5>4. pos[c] - recv[c] <= 1
          BY <1>2, <4>1, <5>1 DEF DecodedInv, AtHeader
        <5>5. recv[c] + n = Body
          BY <1>n, <1>o, <1>8, <3>2
        <5>6. pos'[c] <= Body + 1
          BY <1>2, <1>6, <5>4, <5>5
        <5> QED BY <5>3, <5>6
      <4> QED BY <4>2, <4>3
    <3> QED BY <3>1, <3>2 DEF AtHeader
  <2> QED BY <1>7, <2>5, <2>6
<1>9. CASE recv[c] + n < Body
  <2>1. UNCHANGED <<got, client>> /\ over' = over
    <3>1. ~(recv[c] + n >= Body) /\ ~(recv[c] + n > Body)
      BY <1>2, <1>9
    <3> QED BY <1>1, <3>1 DEF BodyRead
  <2>2. DecodedWhole'
    BY <2>1, NoneMore
  <2>3. AtHeader'
    <3>1. \A d \in Conn : client[d] # "body" => pos'[d] = pos[d] /\ recv'[d] = recv[d]
      BY <1>2, <1>4
    <3>2. \A d \in Conn : pos'[d] - recv'[d] = pos[d] - recv[d]
      BY <1>4, <1>6
    <3> QED BY <2>1, <3>1, <3>2 DEF DecodedInv, AtHeader
  <2> QED BY <1>7, <2>2, <2>3
<1> QED BY <1>2, <1>8, <1>9

\* Where a header ends a body begins; the end of the input gives nothing, and
\* comes early only for a cause.
LEMMA HeaderDecoded ==
  ASSUME DecodedInv, ServedInv, [Next]_vars, NEW c \in Conn, ClientNext(c),
         ReadHeader(c) \/ HeaderCutOff(c)
  PROVE  AtBody' /\ AtHeader' /\ DecodedWhole'
<1>1. UNCHANGED <<inbox, over, proc, raced>>
  BY DEF ClientNext, ReadHeader, HeaderCutOff
<1>2. /\ Body \in Nat /\ client[c] = "header"
      /\ pos \in [Conn -> Nat] /\ recv \in [Conn -> Nat]
      /\ client \in [Conn -> {"new", "header", "body", "choose", "lost", "left"}]
      /\ got \in [Conn -> Seq(Text)]
  BY DirectoryAssumption DEF ReadHeader, HeaderCutOff, DecodedInv, TypeInv, TypeOK, Text
<1>3. ASSUME NEW d \in Conn, d # c
      PROVE  /\ client'[d] = client[d] /\ pos'[d] = pos[d] /\ recv'[d] = recv[d]
             /\ got'[d] = got[d]
  BY <1>2, <1>3 DEF ReadHeader, HeaderCutOff
<1>4. CASE ReadHeader(c)
  <2>1. /\ got' = got /\ pos'[c] = pos[c] + 1 /\ recv'[c] = 0
        /\ client'[c] = IF inbox[c][pos[c] + 1].part = 0 THEN "body" ELSE "lost"
    BY <1>2, <1>4 DEF ReadHeader, Next1
  <2>2. pos'[c] - recv'[c] = pos[c] + 1 /\ pos[c] + 1 >= 1
    BY <1>2, <2>1
  <2>3. AtBody'
    <3> SUFFICES ASSUME NEW d \in Conn, client'[d] = "body", d \notin over
                 PROVE  pos'[d] - recv'[d] >= 1 /\ inbox[d][pos'[d] - recv'[d]].part = 0
      BY <1>1 DEF AtBody
    <3>1. CASE d = c
      <4>1. inbox[c][pos[c] + 1].part = 0
        BY <2>1, <3>1
      <4> QED BY <2>2, <3>1, <4>1
    <3>2. CASE d # c
      BY <1>3, <3>2 DEF DecodedInv, AtBody
    <3> QED BY <3>1, <3>2
  <2>4. ASSUME c \notin over
        PROVE  Len(got'[c]) <= 1 /\ (got'[c] = <<>> => pos'[c] - recv'[c] <= 1)
    <3>1. Len(got[c]) <= 1 /\ pos[c] <= IF got[c] = <<>> THEN 0 ELSE Body + 1
      BY <1>2, <2>4 DEF DecodedInv, AtHeader
    <3> QED BY <1>2, <2>1, <2>2, <3>1
  <2>5. client'[c] \in {"body", "lost"}
    BY <2>1
  <2>6. AtHeader'
    BY <1>1, <1>3, <2>4, <2>5 DEF DecodedInv, AtHeader
  <2>7. DecodedWhole'
    BY <1>1, <2>1, NoneMore
  <2> QED BY <2>3, <2>6, <2>7
<1>5. CASE HeaderCutOff(c)
  <2>1. pos' = pos /\ client'[c] \in {"header", "choose", "lost"}
    BY <1>2, <1>5 DEF HeaderCutOff, AfterBody
  <2>2. AtBody'
    <3>1. \A d \in Conn : client'[d] = "body" =>
            client[d] = "body" /\ pos'[d] = pos[d] /\ recv'[d] = recv[d]
      BY <1>3, <2>1
    <3> QED BY <1>1, <3>1 DEF DecodedInv, AtBody
  <2>3. CASE got' = got /\ client'[c] = "lost"
    <3>1. AtHeader'
      BY <1>1, <1>3, <2>3 DEF DecodedInv, AtHeader
    <3>2. DecodedWhole'
      BY <1>1, <2>3, NoneMore
    <3> QED BY <2>2, <3>1, <3>2
  <2>4. CASE /\ \E u \in TextsOf(<<>>) : got' = [got EXCEPT ![c] = Append(@, u)]
             /\ client' = [client EXCEPT ![c] = AfterBody(c)]
    <3>1. PICK u \in TextsOf(<<>>) : got' = [got EXCEPT ![c] = Append(@, u)]
      BY <2>4
    <3>2. c \notin over' => Excused'
      <4>1. c \notin over => Excused
        BY <1>2, <1>5, NoEndWhileOwed DEF HeaderCutOff
      <4> QED BY <1>1, <4>1 DEF Excused
    <3>3. DecodedWhole'
      BY <1>1, <3>1, <3>2, OneMore
    <3>4. ASSUME c \notin over
          PROVE  client'[c] = "header" =>
                   got'[c] # <<>> /\ Len(got'[c]) <= 1 /\ pos'[c] <= Body + 1
      <4>1. client'[c] = IF Len(got[c]) = 0 THEN "header" ELSE "choose"
        BY <1>2, <2>4 DEF AfterBody
      <4>2. ASSUME Len(got[c]) = 0
            PROVE  got'[c] # <<>> /\ Len(got'[c]) <= 1 /\ pos'[c] <= Body + 1
        <5>1. got[c] = <<>> /\ got[c] \in Seq(Text)
          BY <1>2, <4>2, EmptySeq
        <5>2. got'[c] = Append(got[c], u)
          BY <1>2, <3>1
        <5>3. got'[c] # <<>> /\ Len(got'[c]) <= 1
          BY <5>1, <5>2
        <5>4. pos[c] <= 0
          BY <1>2, <3>4, <5>1 DEF DecodedInv, AtHeader
        <5> QED BY <1>2, <2>1, <5>3, <5>4
      <4> QED BY <4>1, <4>2
    <3>5. client'[c] \in {"header", "choose"}
      BY <1>2, <2>4 DEF AfterBody
    <3>6. AtHeader'
      BY <1>1, <1>3, <3>4, <3>5 DEF DecodedInv, AtHeader
    <3> QED BY <2>2, <3>3, <3>6
  <2> QED BY <1>2, <1>5, <2>3, <2>4 DEF HeaderCutOff
<1> QED BY <1>4, <1>5

LEMMA ClientDecoded ==
  ASSUME DecodedInv, ServedInv, TypeInv', [Next]_vars, NEW c \in Conn, ClientNext(c)
  PROVE  DecodedInv'
<1>1. UNCHANGED inbox
  BY DEF ClientNext
<1>2. Blocks'
  BY <1>1 DEF DecodedInv, Blocks
<1>3. CASE ReadBody(c)
  BY <1>1, <1>2, <1>3, ReadBodyDecoded DEF DecodedInv
<1>4. CASE ReadHeader(c) \/ HeaderCutOff(c)
  BY <1>2, <1>4, HeaderDecoded DEF DecodedInv
<1>5. CASE Connect(c) \/ Arrive(c) \/ BodyCutOff(c) \/ Choose(c) \/ Die(c)
  <2>1. UNCHANGED <<got, over, pos, recv>>
    BY <1>5 DEF Connect, Arrive, BodyCutOff, Choose, Die
  <2>2. DecodedWhole'
    BY <2>1, NoneMore
  <2>3. ASSUME NEW d \in Conn
        PROVE  \/ client'[d] = client[d]
               \/ client'[d] \in {"lost", "left"}
               \/ client[d] = "new" /\ client'[d] = "header"
    <3>1. client \in [Conn -> {"new", "header", "body", "choose", "lost", "left"}]
      BY DEF DecodedInv, TypeInv, TypeOK
    <3>2. \/ client' = client
          \/ \E pc \in {"lost", "left"} : client' = [client EXCEPT ![c] = pc]
          \/ client[c] = "new" /\ client' = [client EXCEPT ![c] = "header"]
      BY <1>5 DEF Connect, Arrive, BodyCutOff, Choose, Die
    <3>3. CASE d = c
      BY <3>1, <3>2, <3>3
    <3>4. CASE d # c
      BY <3>1, <3>2, <3>4
    <3> QED BY <3>3, <3>4
  <2>4. AtBody'
    BY <1>1, <2>1, <2>3 DEF DecodedInv, AtBody
  <2>5. AtHeader'
    <3>1. ASSUME NEW d \in Conn \ over, client[d] = "new"
          PROVE  Len(got[d]) <= 1 /\ pos[d] <= IF got[d] = <<>> THEN 0 ELSE Body + 1
      <4>1. got[d] = <<>> /\ pos[d] = 0
        BY <3>1 DEF DecodedInv, AtHeader
      <4> QED BY <4>1
    <3> QED BY <2>1, <2>3, <3>1 DEF DecodedInv, AtHeader
  <2> QED BY <1>2, <2>2, <2>4, <2>5 DEF DecodedInv
<1> QED BY <1>3, <1>4, <1>5 DEF ClientNext, ClientStep

LEMMA DecodedInvariant == Spec => []DecodedInv
<1>1. Init => DecodedInv
  <2> SUFFICES ASSUME Init PROVE DecodedInv
    OBVIOUS
  <2>1. \A c \in Conn : inbox[c] = <<>> /\ got[c] = <<>> /\ client[c] = "new" /\ pos[c] = 0
    BY DEF Init
  <2>2. Blocks
    BY <2>1 DEF Blocks
  <2>3. AtBody /\ AtHeader
    BY <2>1 DEF AtBody, AtHeader
  <2>4. DecodedWhole
    BY <2>1 DEF DecodedWhole
  <2> QED BY <2>2, <2>3, <2>4, InitType DEF DecodedInv
<1>2. DecodedInv /\ ServedInv /\ TypeInv' /\ [Next]_vars => DecodedInv'
  <2> SUFFICES ASSUME DecodedInv, ServedInv, TypeInv', [Next]_vars PROVE DecodedInv'
    OBVIOUS
  <2>1. CASE AcceptorNext \/ UNCHANGED vars
    <3>1. UNCHANGED <<inbox, client, pos, recv, got, over>>
      BY <2>1 DEF AcceptorNext, vars
    <3>2. Blocks'
      BY <3>1 DEF DecodedInv, Blocks, BlockAt
    <3>3. AtBody' /\ AtHeader'
      BY <3>1 DEF DecodedInv, AtBody, AtHeader
    <3>4. DecodedWhole'
      BY <3>1, NoneMore
    <3> QED BY <3>2, <3>3, <3>4 DEF DecodedInv
  <2> QED BY <2>1, ThreadDecoded, ClientDecoded DEF Next
<1> QED BY <1>1, <1>2, TypeInvariant, ServedInvariant, PTL DEF Spec

\* What a client takes for the body of a record is the body of one, whatever
\* pieces it arrives in, unless one of its reads went past the end of a record;
\* it takes nothing for one only when the server is no more or a thread copied
\* the wrong descriptor.
THEOREM BodiesAreWhole == Spec => []DecodedWhole
<1>1. DecodedInv => DecodedWhole
  BY DEF DecodedInv
<1> QED BY <1>1, DecodedInvariant, PTL

=============================================================================
