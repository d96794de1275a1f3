------------------------------ MODULE LockProofs ------------------------------
(***************************************************************************)
(* Proofs about the two programs of ch18 whose threads take turns at what  *)
(* they share: RoomServer, where a mutex keeps them apart, for any number  *)
(* of clients, rooms, lines and entries of the list; and, at the end,      *)
(* Handoff, where two semaphores do, for any number of rounds and any      *)
(* numbers.                                                                *)
(***************************************************************************)
EXTENDS RoomServer, Handoff, Integers, TLAPS

-----------------------------------------------------------------------------
(* The list and who is on it. *)

\* A connection is met, accepted and enlisted once.
Place ==
  /\ mpc = "enlist" =>
       cur \in Conn \ backlog /\ client[cur] # "new" /\ tpc[cur] = "none"
  /\ \A c \in backlog : client[c] # "new" /\ tpc[c] = "none"
  /\ \A c \in Conn : client[c] = "new" => tpc[c] = "none"

\* The thread in send_msg's loop has the mutex, and has read what it relays.
Sending ==
  /\ \A c \in Conn : mutx = c <=> tpc[c] = "send"
  /\ \A c \in Conn : tpc[c] \in {"lock", "send"} => taken[c] > 0

ListInv == TypeOK /\ Place /\ Sending /\ Directory

\* What is before the end of the list is an entry of a connection served.
LEMMA Entries ==
  ASSUME TypeOK, Directory, NEW i \in 0..(clnt_cnt - 1)
  PROVE  /\ i \in DOMAIN clnt_socks /\ i \in 0..(MAX_CLNT - 1)
         /\ clnt_socks[i] \in Entry
         /\ clnt_socks[i].who \in Listed
<1>1. clnt_cnt \in 0..MAX_CLNT /\ MAX_CLNT \in Nat
  BY RoomAssumption DEF TypeOK
<1>2. i \in 0..(MAX_CLNT - 1)
  BY <1>1
<1>3. clnt_socks \in [0..(MAX_CLNT - 1) -> Entry]
  BY DEF TypeOK
<1>4. clnt_socks[i].who \in Listed
  BY DEF Directory
<1> QED BY <1>2, <1>3, <1>4

\* Who is on the list has one entry.
LEMMA EntryOfListed ==
  ASSUME Directory, NEW c \in Listed
  PROVE  \E p \in 0..(clnt_cnt - 1) : clnt_socks[p].who = c
BY DEF Directory

\* From there on, and from nowhere before, the entries move up.
LEMMA ShiftsFrom ==
  ASSUME TypeOK, Directory, NEW p \in 0..(clnt_cnt - 1),
         NEW i \in 0..(MAX_CLNT - 1)
  PROVE  Shifts(clnt_socks[p].who, i) <=> p <= i /\ i < clnt_cnt
<1>1. clnt_cnt \in Nat
  BY DEF TypeOK
<1>2. ASSUME Shifts(clnt_socks[p].who, i) PROVE p <= i /\ i < clnt_cnt
  <2>1. PICK k \in 0..i : EntryOf(clnt_socks[p].who, k)
    BY <1>2 DEF Shifts
  <2>2. k \in 0..(clnt_cnt - 1) /\ clnt_socks[k].who = clnt_socks[p].who
    BY <2>1, <1>1 DEF EntryOf
  <2>3. k = p
    BY <2>2 DEF Directory
  <2> QED BY <2>3, <1>2, <1>1 DEF Shifts
<1>3. ASSUME p <= i, i < clnt_cnt PROVE Shifts(clnt_socks[p].who, i)
  <2>1. p \in 0..i /\ EntryOf(clnt_socks[p].who, p)
    BY <1>1, <1>3 DEF EntryOf
  <2> QED BY <2>1, <1>3 DEF Shifts
<1> QED BY <1>2, <1>3

\* What stands where after somebody has left.
LEMMA AfterRemoval ==
  ASSUME TypeOK, Directory, NEW p \in 0..(clnt_cnt - 1), NEW behind \in Behind,
         NEW i \in 0..(MAX_CLNT - 1)
  PROVE  LET new == Removed(clnt_socks[p].who, behind)
             following == IF i + 1 < MAX_CLNT THEN clnt_socks[i + 1] ELSE behind
         IN  /\ new \in [0..(MAX_CLNT - 1) -> Entry]
             /\ i < p \/ i >= clnt_cnt => new[i] = clnt_socks[i]
             /\ p <= i /\ i < clnt_cnt =>
                  /\ new[i].who = following.who
                  /\ lhsFirst => new[i].room = following.room
<1> DEFINE c == clnt_socks[p].who
           following(k) == IF k + 1 < MAX_CLNT THEN clnt_socks[k + 1] ELSE behind
           new == Removed(c, behind)
<1>1. clnt_socks \in [0..(MAX_CLNT - 1) -> Entry] /\ MAX_CLNT \in Nat
      /\ clnt_cnt \in Nat
  BY RoomAssumption DEF TypeOK
<1>2. behind \in Entry
  BY DEF Behind, Entry
<1>3. \A k \in 0..(MAX_CLNT - 1) : following(k) \in Entry
  <2> TAKE k \in 0..(MAX_CLNT - 1)
  <2>1. CASE k + 1 < MAX_CLNT
    <3>1. k + 1 \in 0..(MAX_CLNT - 1)
      BY <1>1, <2>1
    <3> QED BY <3>1, <1>1, <2>1
  <2>2. CASE ~(k + 1 < MAX_CLNT)
    BY <2>2, <1>2
  <2> QED BY <2>1, <2>2
<1>4. new = [k \in 0..(MAX_CLNT - 1) |->
               IF Shifts(c, k)
               THEN [who  |-> following(k).who,
                     room |-> (IF lhsFirst THEN following(k) ELSE clnt_socks[k]).room]
               ELSE clnt_socks[k]]
  BY <1>1 DEF Removed
<1>5. new \in [0..(MAX_CLNT - 1) -> Entry]
  <2>1. \A k \in 0..(MAX_CLNT - 1) : new[k] \in Entry
    <3> TAKE k \in 0..(MAX_CLNT - 1)
    <3> HIDE DEF following
    <3> QED BY <1>1, <1>3, <1>4 DEF Entry
  <2> HIDE DEF new, following
  <2> QED BY <2>1, <1>4
<1>6. Shifts(c, i) <=> p <= i /\ i < clnt_cnt
  BY ShiftsFrom
<1>7. i < p \/ i >= clnt_cnt => new[i] = clnt_socks[i]
  <2> HIDE DEF c, following, new
  <2>1. i < p \/ i >= clnt_cnt => ~Shifts(c, i)
    BY <1>1, <1>6
  <2> QED BY <2>1, <1>4
<1>8. p <= i /\ i < clnt_cnt =>
        new[i].who = following(i).who /\ (lhsFirst => new[i].room = following(i).room)
  <2> HIDE DEF c, following, new
  <2> QED BY <1>4, <1>6
<1> QED BY <1>5, <1>7, <1>8
-----------------------------------------------------------------------------
(* ListInv: the beginning, the clients and main. *)

LEMMA InitList == Init => ListInv
<1> SUFFICES ASSUME Init PROVE ListInv
  OBVIOUS
<1>1. TypeOK
  <2>1. 0 \in Room
    BY RoomAssumption DEF Room
  <2>2. [i \in 0..(MAX_CLNT - 1) |-> [who |-> NoConn, room |-> 0]]
          \in [0..(MAX_CLNT - 1) -> Entry]
    BY <2>1 DEF Entry
  <2> QED BY <2>1, <2>2, RoomAssumption DEF Init, TypeOK
<1>2. Place /\ Sending
  BY RoomAssumption DEF Init, Place, Sending
<1>3. Listed = {} /\ 0..(clnt_cnt - 1) = {}
  BY DEF Init, Listed
<1>4. Directory
  BY <1>3 DEF Directory
<1> QED BY <1>1, <1>2, <1>4 DEF ListInv

\* The list stays exact when its entries keep their owners.
LEMMA SameOwners ==
  ASSUME Directory, clnt_cnt' = clnt_cnt, Listed' = Listed,
         \A i \in 0..(clnt_cnt - 1) : clnt_socks'[i].who = clnt_socks[i].who
  PROVE  Directory'
<1>1. {clnt_socks'[i].who : i \in 0..(clnt_cnt - 1)}
        = {clnt_socks[i].who : i \in 0..(clnt_cnt - 1)}
  OBVIOUS
<1> QED BY <1>1 DEF Directory

LEMMA ClientKeepsList ==
  ASSUME ListInv, NEW c \in Conn, ClientNext(c), UNCHANGED <<wasFull, lhsFirst>>
  PROVE  ListInv'
<1> USE DEF ListInv
<1>1. UNCHANGED <<proc, heard, listVars, mutx, memcount, tpc, rnum, taken, next>>
  BY DEF ClientNext
<1>2. /\ mpc' = mpc /\ cur' = cur
      /\ client' \in [Conn -> {"new", "on", "off"}]
      /\ pick' \in [Conn -> Room \cup {NoRoom}] /\ sent' \in [Conn -> 0..MaxSend]
      /\ backlog' \subseteq Conn
  <2>1. CASE Connect(c)
    BY <2>1 DEF Connect, TypeOK
  <2>2. CASE SendLine(c)
    <3>1. sent[c] + 1 \in 0..MaxSend
      BY <2>2, RoomAssumption DEF SendLine, TypeOK
    <3> QED BY <3>1, <2>2 DEF SendLine, TypeOK, mainVars
  <2>3. CASE Hangup(c)
    BY <2>3 DEF Hangup, TypeOK, mainVars
  <2> QED BY <2>1, <2>2, <2>3 DEF ClientNext
<1>3. TypeOK'
  BY <1>1, <1>2 DEF TypeOK, listVars
<1>4. Place'
  <2>1. CASE Connect(c)
    BY <1>1, <2>1 DEF Connect, TypeOK, Place
  <2>2. CASE SendLine(c)
    BY <1>1, <2>2 DEF SendLine, TypeOK, Place, mainVars
  <2>3. CASE Hangup(c)
    BY <1>1, <2>3 DEF Hangup, TypeOK, Place, mainVars
  <2> QED BY <2>1, <2>2, <2>3 DEF ClientNext
<1>5. Sending'
  BY <1>1 DEF Sending
<1>6. Directory'
  BY <1>1, SameOwners DEF Listed, listVars
<1> QED BY <1>3, <1>4, <1>5, <1>6

LEMMA AcceptKeepsList ==
  ASSUME ListInv, Accept,
         UNCHANGED <<proc, clientVars, heard, mutx, memcount, rnum, taken, next, lhsFirst>>
  PROVE  ListInv'
<1> USE DEF ListInv
<1>1. TypeOK'
  BY DEF TypeOK, Accept, listVars, clientVars
<1>2. Place'
  BY DEF TypeOK, Accept, Place, clientVars
<1>3. Sending'
  BY DEF Sending, Accept
<1>4. Directory'
  BY SameOwners DEF Accept, Listed, listVars
<1> QED BY <1>1, <1>2, <1>3, <1>4

LEMMA EnlistKeepsList ==
  ASSUME ListInv, Enlist,
         UNCHANGED <<proc, clientVars, heard, mutx, memcount, rnum, taken, next, lhsFirst>>
  PROVE  ListInv'
<1> USE DEF ListInv
<1>1. cur \in Conn /\ tpc[cur] = "none" /\ cur \notin backlog /\ client[cur] # "new"
  BY DEF Enlist, Place
<1>2. /\ clnt_cnt \in 0..(MAX_CLNT - 1)
      /\ clnt_cnt' = clnt_cnt + 1 /\ clnt_cnt' \in 0..MAX_CLNT
      /\ wasFull' \in BOOLEAN
  BY RoomAssumption DEF Enlist, TypeOK
<1>3. clnt_socks \in [0..(MAX_CLNT - 1) -> Entry]
  BY DEF TypeOK
<1>4. NewEntry \in Entry /\ NewEntry.who = cur
  <2>1. clnt_socks[clnt_cnt] \in Entry
    BY <1>2, <1>3
  <2> QED BY <2>1, <1>1 DEF NewEntry, Entry
<1>5. /\ clnt_socks' \in [0..(MAX_CLNT - 1) -> Entry]
      /\ \A i \in 0..(MAX_CLNT - 1) :
           clnt_socks'[i] = IF i = clnt_cnt THEN NewEntry ELSE clnt_socks[i]
  BY <1>2, <1>3, <1>4 DEF Enlist
<1>6. TypeOK'
  BY <1>1, <1>2, <1>5 DEF Enlist, TypeOK, clientVars
<1>7. Place'
  BY <1>1 DEF Enlist, TypeOK, Place, clientVars
<1>8. Sending'
  BY <1>1, RoomAssumption DEF Enlist, TypeOK, Sending
<1>9. Directory'
  <2>1. Listed' = Listed \cup {cur} /\ cur \notin Listed
    BY <1>1 DEF Enlist, Listed, TypeOK
  <2>2. 0..(clnt_cnt' - 1) = 0..(clnt_cnt - 1) \cup {clnt_cnt}
    BY <1>2
  <2>3. \A i \in 0..(clnt_cnt - 1) :
          clnt_socks'[i].who = clnt_socks[i].who /\ clnt_socks[i].who \in Listed
    <3> TAKE i \in 0..(clnt_cnt - 1)
    <3>1. i \in 0..(MAX_CLNT - 1) /\ i # clnt_cnt
      BY <1>2, RoomAssumption
    <3> QED BY <3>1, <1>5, Entries
  <2>4. clnt_socks'[clnt_cnt].who = cur
    BY <1>2, <1>4, <1>5
  <2>5. {clnt_socks'[i].who : i \in 0..(clnt_cnt' - 1)} = Listed'
    <3>1. {clnt_socks'[i].who : i \in 0..(clnt_cnt' - 1)}
            = {clnt_socks'[i].who : i \in 0..(clnt_cnt - 1)} \cup {cur}
      BY <2>2, <2>4
    <3>2. {clnt_socks'[i].who : i \in 0..(clnt_cnt - 1)}
            = {clnt_socks[i].who : i \in 0..(clnt_cnt - 1)}
      BY <2>3
    <3> QED BY <3>1, <3>2, <2>1 DEF Directory
  <2>6. \A i, j \in 0..(clnt_cnt' - 1) :
          clnt_socks'[i].who = clnt_socks'[j].who => i = j
    BY <2>1, <2>2, <2>3, <2>4 DEF Directory
  <2> QED BY <2>5, <2>6 DEF Directory
<1> QED BY <1>6, <1>7, <1>8, <1>9
-----------------------------------------------------------------------------
(* ListInv: the threads. *)

Working == {"list", "choose", "enter", "count", "name", "recv", "lock",
            "send", "leave"}

\* A thread that goes on changes neither who is met nor who is on the list.
LEMMA GoingOn ==
  ASSUME ListInv, NEW c \in Conn, NEW pc \in Working, tpc[c] \in Working,
         tpc' = [tpc EXCEPT ![c] = pc],
         UNCHANGED <<clientVars, mainVars, clnt_cnt>>,
         \A i \in 0..(clnt_cnt - 1) : clnt_socks'[i].who = clnt_socks[i].who
  PROVE  Place' /\ Directory'
<1> USE DEF ListInv
<1>1. \A d \in Conn : tpc'[d] = IF d = c THEN pc ELSE tpc[d]
  BY DEF TypeOK
<1>2. \A d \in Conn : /\ tpc'[d] = "none" <=> tpc[d] = "none"
                      /\ tpc'[d] = "done" <=> tpc[d] = "done"
  BY <1>1 DEF Working
<1>3. Place'
  BY <1>2 DEF Place, clientVars, mainVars, TypeOK
<1>4. Listed' = Listed
  BY <1>2 DEF Listed
<1> QED BY <1>3, <1>4, SameOwners

\* Of a thread that neither locks nor unlocks nothing need be known.
LEMMA NotSending ==
  ASSUME ListInv, NEW c \in Conn, NEW pc \in Working \ {"lock", "send"},
         tpc[c] # "send", tpc' = [tpc EXCEPT ![c] = pc], mutx' = mutx,
         \A d \in Conn \ {c} : taken'[d] = taken[d]
  PROVE  Sending'
<1>1. \A d \in Conn : tpc'[d] = IF d = c THEN pc ELSE tpc[d]
  BY DEF ListInv, TypeOK
<1> QED BY <1>1 DEF ListInv, Sending

\* read: it returns a line, or the client has closed.
LEMMA Reading ==
  ASSUME TypeOK, NEW c \in Conn, ReadLine(c)
  PROVE  /\ taken' \in [Conn -> 0..MaxSend]
         /\ \A d \in Conn \ {c} : taken'[d] = taken[d]
         /\ ~Eof(c) => taken'[c] > 0
<1>1. taken[c] \in Nat /\ sent[c] \in 0..MaxSend /\ MaxSend \in Nat
  BY RoomAssumption DEF TypeOK
<1>2. Arrived(c) => taken[c] + 1 \in 0..MaxSend /\ taken[c] + 1 > 0
  BY <1>1 DEF Arrived
<1>3. taken' = [taken EXCEPT ![c] = IF Arrived(c) THEN @ + 1 ELSE @]
  BY DEF ReadLine
<1>4. taken'[c] = IF Arrived(c) THEN taken[c] + 1 ELSE taken[c]
  BY <1>3 DEF TypeOK
<1>5. taken' \in [Conn -> 0..MaxSend]
  BY <1>2, <1>3 DEF TypeOK
<1>6. ~Eof(c) => Arrived(c)
  BY DEF ReadLine
<1> QED BY <1>2, <1>3, <1>4, <1>5, <1>6 DEF TypeOK

\* The steps that touch neither list nor mutex.
LEMMA PlainStepKeepsList ==
  ASSUME ListInv, NEW c \in Conn, NEW pc \in Working,
         UNCHANGED <<clientVars, mainVars, listVars, mutx, heard, next, lhsFirst>>,
         tpc[c] \in Working \ {"send"}, pc # "send",
         tpc' = [tpc EXCEPT ![c] = pc],
         proc' \in {"up", "killed"}, memcount' \in [Room -> Nat],
         rnum' \in [Conn -> Room], taken' \in [Conn -> 0..MaxSend],
         \A d \in Conn \ {c} : taken'[d] = taken[d],
         pc = "lock" => taken'[c] > 0
  PROVE  ListInv'
<1>1. TypeOK'
  BY DEF ListInv, TypeOK, clientVars, mainVars, listVars, Working
<1>2. Place' /\ Directory'
  BY GoingOn DEF listVars
<1>3. Sending'
  <2>1. \A d \in Conn : tpc'[d] = IF d = c THEN pc ELSE tpc[d]
    BY DEF ListInv, TypeOK
  <2> QED BY <2>1 DEF ListInv, Sending
<1> QED BY <1>1, <1>2, <1>3 DEF ListInv

LEMMA OutOfTheLoopKeepsList ==
  ASSUME ListInv, NEW c \in Conn, proc = "up",
         \/ SendList(c) \/ ReadChoice(c) \/ CountMember(c) \/ ReadName(c)
         \/ Recv(c),
         UNCHANGED <<clientVars, mainVars, lhsFirst>>
  PROVE  ListInv'
<1> DEFINE Kept == UNCHANGED <<clientVars, mainVars, listVars, mutx, heard, next,
                               lhsFirst>>
           Went(pc) == /\ pc \in Working \ {"send"}
                       /\ tpc[c] \in Working \ {"send"}
                       /\ tpc' = [tpc EXCEPT ![c] = pc]
           Types == /\ proc' \in {"up", "killed"} /\ memcount' \in [Room -> Nat]
                    /\ rnum' \in [Conn -> Room]
           Read(pc) == /\ taken' \in [Conn -> 0..MaxSend]
                       /\ \A d \in Conn \ {c} : taken'[d] = taken[d]
                       /\ pc = "lock" => taken'[c] > 0
<1>1. ASSUME NEW pc, Kept, Went(pc), Types, Read(pc) PROVE ListInv'
  BY <1>1, PlainStepKeepsList
<1>2. TypeOK
  BY DEF ListInv
<1>3. CASE SendList(c)
  <2>1. Went("choose") /\ Kept /\ Types /\ Read("choose")
    BY <1>2, <1>3 DEF SendList, Goto, Working, WriteTo, TypeOK
  <2> QED BY <1>1, <2>1
<1>4. CASE ReadChoice(c)
  <2>1. PICK pc \in {"enter", "recv"} : tpc' = [tpc EXCEPT ![c] = pc]
    BY <1>4 DEF ReadChoice, Goto
  <2>2. Went(pc) /\ Kept
    BY <1>4, <2>1 DEF ReadChoice, Working
  <2>3. Types
    BY <1>2, <1>4 DEF ReadChoice, TypeOK, IsDigit
  <2>4. Read(pc)
    BY <1>2, <1>4, Reading DEF ReadChoice
  <2> QED BY <1>1, <2>2, <2>3, <2>4
<1>5. CASE CountMember(c)
  <2>1. PICK pc \in {"name", "recv"} : tpc' = [tpc EXCEPT ![c] = pc]
    BY <1>5 DEF CountMember, Goto
  <2>2. Went(pc) /\ Kept
    BY <1>5, <2>1 DEF CountMember, Working
  <2>3. memcount' \in [Room -> Nat]
    <3>1. rnum[c] \in Room /\ memcount[rnum[c]] \in Nat
      BY <1>2 DEF TypeOK
    <3>2. memcount[rnum[c]] + 1 \in Nat
      BY <3>1
    <3> QED BY <1>2, <1>5, <3>1, <3>2 DEF CountMember, TypeOK
  <2>4. Types
    BY <1>2, <1>5, <2>3 DEF CountMember, TypeOK, WriteTo
  <2>5. Read(pc)
    BY <1>2, <1>5, <2>1 DEF CountMember, TypeOK
  <2> QED BY <1>1, <2>2, <2>4, <2>5
<1>6. CASE ReadName(c)
  <2>1. Went("recv") /\ Kept /\ Types
    BY <1>2, <1>6 DEF ReadName, Goto, Working, WriteTo, TypeOK
  <2>2. Read("recv")
    BY <1>2, <1>6, Reading DEF ReadName
  <2> QED BY <1>1, <2>1, <2>2
<1>7. CASE Recv(c)
  <2>1. PICK pc : pc = (IF Eof(c) THEN "leave" ELSE "lock")
    OBVIOUS
  <2>2. Went(pc) /\ Kept /\ Types
    BY <1>2, <1>7, <2>1 DEF Recv, Goto, Working, TypeOK
  <2>3. Read(pc)
    BY <1>2, <1>7, <2>1, Reading DEF Recv
  <2> QED BY <1>1, <2>2, <2>3
<1> QED BY <1>3, <1>4, <1>5, <1>6, <1>7
LEMMA EnterKeepsList ==
  ASSUME ListInv, NEW c \in Conn, EnterRoom(c),
         UNCHANGED <<clientVars, mainVars, lhsFirst>>
  PROVE  ListInv'
<1>1. clnt_socks \in [0..(MAX_CLNT - 1) -> Entry] /\ rnum[c] \in Room
  BY DEF ListInv, TypeOK
<1>2. /\ clnt_socks' \in [0..(MAX_CLNT - 1) -> Entry]
      /\ \A i \in 0..(MAX_CLNT - 1) : clnt_socks'[i].who = clnt_socks[i].who
  BY <1>1 DEF EnterRoom, Entry
<1>3. tpc' = [tpc EXCEPT ![c] = "count"] /\ tpc[c] = "enter"
  BY DEF EnterRoom, Goto
<1>4. TypeOK'
  BY <1>2, <1>3 DEF ListInv, TypeOK, EnterRoom, clientVars, mainVars
<1>5. \A i \in 0..(clnt_cnt - 1) : clnt_socks'[i].who = clnt_socks[i].who
  BY <1>2, Entries DEF ListInv
<1>6. Place' /\ Directory'
  BY <1>3, <1>5, GoingOn DEF EnterRoom, Working
<1>7. Sending'
  BY <1>3, NotSending DEF EnterRoom, Working
<1> QED BY <1>4, <1>6, <1>7 DEF ListInv

LEMMA LockKeepsList ==
  ASSUME ListInv, NEW c \in Conn, Lock(c),
         UNCHANGED <<clientVars, mainVars, lhsFirst>>
  PROVE  ListInv'
<1>1. tpc' = [tpc EXCEPT ![c] = "send"] /\ tpc[c] = "lock" /\ mutx = NoConn /\ mutx' = c
  BY DEF Lock, Goto
<1>2. TypeOK'
  <2>1. next' \in [Conn -> 0..MAX_CLNT]
    <3>1. 0 \in 0..MAX_CLNT
      BY RoomAssumption
    <3> QED BY <3>1 DEF Lock, ListInv, TypeOK
  <2> QED BY <1>1, <2>1 DEF ListInv, TypeOK, Lock, clientVars, mainVars, listVars
<1>3. Place' /\ Directory'
  BY <1>1, GoingOn DEF Lock, Working, listVars
<1>4. Sending'
  BY <1>1, RoomAssumption DEF ListInv, TypeOK, Sending, Lock
<1> QED BY <1>2, <1>3, <1>4 DEF ListInv

LEMMA UnlockKeepsList ==
  ASSUME ListInv, NEW c \in Conn, Unlock(c),
         UNCHANGED <<clientVars, mainVars, lhsFirst>>
  PROVE  ListInv'
<1>1. tpc' = [tpc EXCEPT ![c] = "recv"] /\ tpc[c] = "send" /\ mutx' = NoConn
  BY DEF Unlock, Goto
<1>2. TypeOK'
  BY <1>1 DEF ListInv, TypeOK, Unlock, clientVars, mainVars, listVars
<1>3. Place' /\ Directory'
  BY <1>1, GoingOn DEF Unlock, Working, listVars
<1>4. Sending'
  BY <1>1, RoomAssumption DEF ListInv, TypeOK, Sending, Unlock
<1> QED BY <1>2, <1>3, <1>4 DEF ListInv

\* send_msg's loop looks at entries of the list only.
LEMMA SendNextLooksAt ==
  ASSUME ListInv, NEW c \in Conn, SendNext(c)
  PROVE  /\ next[c] \in 0..(clnt_cnt - 1)
         /\ clnt_socks[next[c]].who \in Listed
         /\ clnt_socks[next[c]].who \in Conn
         /\ [from |-> c, n |-> taken[c]] \in Line
<1>1. next[c] \in 0..(clnt_cnt - 1)
  BY RoomAssumption DEF SendNext, ListInv, TypeOK
<1>2. clnt_socks[next[c]].who \in Listed
  BY <1>1, Entries DEF ListInv
<1>3. taken[c] \in 1..MaxSend
  BY RoomAssumption DEF SendNext, ListInv, TypeOK, Sending
<1> QED BY <1>1, <1>2, <1>3 DEF Line, Listed

LEMMA SendNextKeepsList ==
  ASSUME ListInv, NEW c \in Conn, proc = "up", SendNext(c),
         UNCHANGED <<clientVars, mainVars, lhsFirst>>
  PROVE  ListInv'
<1> DEFINE d == clnt_socks[next[c]].who
<1>1. next[c] \in 0..(clnt_cnt - 1) /\ d \in Conn
      /\ [from |-> c, n |-> taken[c]] \in Line
  BY SendNextLooksAt
<1>2. next' \in [Conn -> 0..MAX_CLNT]
  <2>1. clnt_cnt \in 0..MAX_CLNT
    BY DEF ListInv, TypeOK
  <2>2. next[c] + 1 \in 0..MAX_CLNT
    BY <1>1, <2>1, RoomAssumption
  <2> QED BY <2>2 DEF SendNext, ListInv, TypeOK
<1>3. heard' \in [Conn -> Seq(Line)]
  <2>1. heard \in [Conn -> Seq(Line)]
    BY DEF ListInv, TypeOK
  <2>2. heard[d] \in Seq(Line)
    BY <1>1, <2>1
  <2>3. Append(heard[d], [from |-> c, n |-> taken[c]]) \in Seq(Line)
    BY <1>1, <2>2
  <2>4. \/ heard' = heard
        \/ heard' = [heard EXCEPT ![d] = Append(@, [from |-> c, n |-> taken[c]])]
    BY DEF SendNext
  <2> QED BY <2>1, <2>3, <2>4
<1>4. proc' \in {"up", "killed"}
  BY DEF SendNext, WriteTo
<1>5. TypeOK'
  BY <1>2, <1>3, <1>4 DEF ListInv, TypeOK, SendNext, clientVars, mainVars, listVars
<1>6. Place'
  BY DEF ListInv, Place, SendNext, clientVars, mainVars
<1>7. Sending'
  BY DEF ListInv, Sending, SendNext
<1>8. Directory'
  BY SameOwners DEF ListInv, SendNext, Listed, listVars
<1> QED BY <1>5, <1>6, <1>7, <1>8 DEF ListInv

\* The entry that goes is the leaver's; the others are where the list still
\* reaches, in their order, with their rooms if rooms move.
LEMMA LeaveMoves ==
  ASSUME ListInv, NEW c \in Conn, Leave(c)
  PROVE  \E p \in 0..(clnt_cnt - 1) :
           /\ clnt_socks[p].who = c
           /\ clnt_socks' \in [0..(MAX_CLNT - 1) -> Entry]
           /\ \A i \in 0..(clnt_cnt' - 1) :
                LET k == IF i < p THEN i ELSE i + 1 IN
                /\ k \in 0..(clnt_cnt - 1) \ {p}
                /\ clnt_socks'[i].who = clnt_socks[k].who
                /\ lhsFirst => clnt_socks'[i].room = clnt_socks[k].room
           /\ \A i \in 0..(MAX_CLNT - 1) :
                /\ i >= clnt_cnt => clnt_socks'[i] = clnt_socks[i]
                /\ lhsFirst /\ i = clnt_cnt' /\ i + 1 < MAX_CLNT =>
                     clnt_socks'[i].room = clnt_socks[i + 1].room
<1> USE DEF ListInv
<1>1. c \in Listed
  BY DEF Leave, Listed
<1>2. PICK p \in 0..(clnt_cnt - 1) : clnt_socks[p].who = c
  BY <1>1, EntryOfListed
<1>3. PICK behind \in Behind : clnt_socks' = Removed(c, behind)
  BY DEF Leave
<1>4. clnt_cnt \in 1..MAX_CLNT /\ clnt_cnt' = clnt_cnt - 1 /\ MAX_CLNT \in Nat
      /\ p \in Nat /\ p < clnt_cnt
  BY <1>2, RoomAssumption DEF Leave, TypeOK
<1>5. clnt_socks' \in [0..(MAX_CLNT - 1) -> Entry]
  BY <1>2, <1>3, <1>4, AfterRemoval
<1> DEFINE from(i) == IF i < p THEN i ELSE i + 1
<1>6. ASSUME NEW i \in 0..(clnt_cnt' - 1)
      PROVE  /\ from(i) \in 0..(clnt_cnt - 1) \ {p}
             /\ clnt_socks'[i].who = clnt_socks[from(i)].who
             /\ lhsFirst => clnt_socks'[i].room = clnt_socks[from(i)].room
  <2>1. i \in 0..(MAX_CLNT - 1) /\ i < clnt_cnt /\ i + 1 < MAX_CLNT
        /\ from(i) \in 0..(clnt_cnt - 1) \ {p}
    BY <1>4
  <2>2. CASE i < p
    BY <1>2, <1>3, <2>1, <2>2, AfterRemoval
  <2>3. CASE ~(i < p)
    <3>1. p <= i
      BY <1>4, <2>1, <2>3
    <3> DEFINE following == IF i + 1 < MAX_CLNT THEN clnt_socks[i + 1] ELSE behind
    <3>2. /\ clnt_socks'[i].who = following.who
          /\ lhsFirst => clnt_socks'[i].room = following.room
      BY <1>2, <1>3, <2>1, <3>1, AfterRemoval
    <3>3. following = clnt_socks[from(i)]
      BY <2>1, <2>3
    <3> HIDE DEF following, from
    <3> QED BY <2>1, <3>2, <3>3
  <2> QED BY <2>1, <2>2, <2>3
<1>7. ASSUME NEW i \in 0..(MAX_CLNT - 1)
      PROVE  /\ i >= clnt_cnt => clnt_socks'[i] = clnt_socks[i]
             /\ lhsFirst /\ i = clnt_cnt' /\ i + 1 < MAX_CLNT =>
                  clnt_socks'[i].room = clnt_socks[i + 1].room
  <2>1. i >= clnt_cnt => clnt_socks'[i] = clnt_socks[i]
    BY <1>2, <1>3, <1>4, AfterRemoval
  <2>2. ASSUME lhsFirst, i = clnt_cnt', i + 1 < MAX_CLNT
        PROVE  clnt_socks'[i].room = clnt_socks[i + 1].room
    <3>1. p <= i /\ i < clnt_cnt
      BY <1>4, <2>2
    <3>2. clnt_socks'[i].room
            = (IF i + 1 < MAX_CLNT THEN clnt_socks[i + 1] ELSE behind).room
      BY <1>2, <1>3, <2>2, <3>1, AfterRemoval
    <3> QED BY <2>2, <3>2
  <2> QED BY <2>1, <2>2
<1> QED BY <1>2, <1>5, <1>6, <1>7

\* Shift and decrement keep in step.
LEMMA LeaveKeepsList ==
  ASSUME ListInv, NEW c \in Conn, Leave(c),
         UNCHANGED <<clientVars, mainVars, lhsFirst>>
  PROVE  ListInv'
<1> USE DEF ListInv
<1>1. c \in Listed /\ tpc[c] = "leave" /\ tpc' = [tpc EXCEPT ![c] = "done"]
  BY DEF Leave, Listed, Goto
<1> DEFINE from(p, i) == IF i < p THEN i ELSE i + 1
<1>2. PICK p \in 0..(clnt_cnt - 1) :
        /\ clnt_socks[p].who = c
        /\ clnt_socks' \in [0..(MAX_CLNT - 1) -> Entry]
        /\ \A i \in 0..(clnt_cnt' - 1) :
             /\ from(p, i) \in 0..(clnt_cnt - 1) \ {p}
             /\ clnt_socks'[i].who = clnt_socks[from(p, i)].who
  BY LeaveMoves
<1>3. clnt_cnt \in 1..MAX_CLNT /\ clnt_cnt' = clnt_cnt - 1 /\ clnt_cnt' \in 0..MAX_CLNT
      /\ MAX_CLNT \in Nat /\ p \in Nat /\ p < clnt_cnt
  BY <1>2, RoomAssumption DEF Leave, TypeOK
<1>4. TypeOK'
  BY <1>1, <1>2, <1>3 DEF Leave, TypeOK, clientVars, mainVars
<1>5. Place'
  BY <1>1 DEF Place, TypeOK, clientVars, mainVars
<1>6. Sending'
  <2>1. \A d \in Conn : tpc'[d] = IF d = c THEN "done" ELSE tpc[d]
    BY <1>1 DEF TypeOK
  <2> QED BY <1>1, <2>1 DEF Sending, Leave
<1>7. Listed' = Listed \ {c}
  BY <1>1 DEF Listed, TypeOK
<1>8. ASSUME NEW k \in 0..(clnt_cnt - 1) \ {p}
       PROVE  \E i \in 0..(clnt_cnt' - 1) : from(p, i) = k
  <2>1. CASE k < p
    <3>1. k \in 0..(clnt_cnt' - 1) /\ from(p, k) = k
      BY <1>3, <2>1
    <3> QED BY <3>1
  <2>2. CASE ~(k < p)
    <3>1. k - 1 \in 0..(clnt_cnt' - 1) /\ from(p, k - 1) = k
      BY <1>3, <2>2
    <3> QED BY <3>1
  <2> QED BY <2>1, <2>2
<1>9. ASSUME NEW i \in 0..(clnt_cnt' - 1), NEW j \in 0..(clnt_cnt' - 1), from(p, i) = from(p, j)
       PROVE  i = j
  BY <1>3, <1>9
<1> HIDE DEF from
<1>10. {clnt_socks'[i].who : i \in 0..(clnt_cnt' - 1)} = Listed \ {c}
  <2>1. \A k \in 0..(clnt_cnt - 1) : clnt_socks[k].who = c <=> k = p
    BY <1>2 DEF Directory
  <2>2. \A i \in 0..(clnt_cnt' - 1) : clnt_socks'[i].who \in Listed \ {c}
    <3> TAKE i \in 0..(clnt_cnt' - 1)
    <3>1. clnt_socks[from(p, i)].who \in Listed /\ clnt_socks[from(p, i)].who # c
      BY <1>2, <2>1 DEF Directory
    <3> QED BY <3>1, <1>2
  <2>3. ASSUME NEW d \in Listed \ {c}
        PROVE  \E i \in 0..(clnt_cnt' - 1) : clnt_socks'[i].who = d
    <3>1. PICK k \in 0..(clnt_cnt - 1) : clnt_socks[k].who = d
      BY EntryOfListed
    <3>2. k # p
      BY <1>2, <2>3, <3>1
    <3>3. PICK i \in 0..(clnt_cnt' - 1) : from(p, i) = k
      BY <1>8, <3>2
    <3> QED BY <1>2, <3>1, <3>3
  <2> QED BY <2>2, <2>3
<1>11. \A i, j \in 0..(clnt_cnt' - 1) : clnt_socks'[i].who = clnt_socks'[j].who => i = j
  <2> TAKE i, j \in 0..(clnt_cnt' - 1)
  <2> HAVE clnt_socks'[i].who = clnt_socks'[j].who
  <2>1. from(p, i) = from(p, j)
    BY <1>2 DEF Directory
  <2> QED BY <1>9, <2>1
<1>12. Directory'
  BY <1>7, <1>10, <1>11 DEF Directory
<1> QED BY <1>4, <1>5, <1>6, <1>12

LEMMA ThreadKeepsList ==
  ASSUME ListInv, NEW c \in Conn, proc = "up", ThreadNext(c), UNCHANGED lhsFirst
  PROVE  ListInv'
BY OutOfTheLoopKeepsList, EnterKeepsList, LockKeepsList, UnlockKeepsList,
   SendNextKeepsList, LeaveKeepsList DEF ThreadNext

LEMMA NextList == ListInv /\ [Next]_vars => ListInv'
<1> SUFFICES ASSUME ListInv, [Next]_vars PROVE ListInv'
  OBVIOUS
<1>1. CASE Next /\ MainNext
  BY <1>1, AcceptKeepsList, EnlistKeepsList DEF Next, MainNext
<1>2. ASSUME NEW c \in Conn, Next, ThreadNext(c) PROVE ListInv'
  BY <1>2, ThreadKeepsList DEF Next
<1>3. ASSUME NEW c \in Conn, Next, ClientNext(c) PROVE ListInv'
  BY <1>3, ClientKeepsList DEF Next, ClientNext, listVars
<1>4. CASE UNCHANGED vars
  <2> USE <1>4 DEF vars, clientVars, mainVars, listVars
  <2>1. TypeOK'
    BY DEF ListInv, TypeOK
  <2>2. Place' /\ Sending'
    BY DEF ListInv, Place, Sending
  <2>3. Directory'
    BY SameOwners DEF ListInv, Listed
  <2> QED BY <2>1, <2>2, <2>3 DEF ListInv
<1> QED BY <1>1, <1>2, <1>3, <1>4 DEF Next

LEMMA ListInvariant == Spec => []ListInv
BY InitList, NextList, PTL DEF Spec

\* Every variable keeps its type: the count never falls below zero, and what a
\* thread relays is a line its client has written.
THEOREM TypeCorrect == Spec => []TypeOK
<1>1. ListInv => TypeOK
  BY DEF ListInv
<1> QED BY <1>1, ListInvariant, PTL

\* The list holds every connection that is served, once each, under either
\* reading of the unsequenced shift, for any number of clients and entries.
THEOREM ListIsExact == Spec => []Directory
<1>1. ListInv => Directory
  BY DEF ListInv
<1> QED BY <1>1, ListInvariant, PTL
-----------------------------------------------------------------------------
(* Rooms. *)

Chosen == {"enter", "count", "name"} \cup Relaying

\* What its first line chose does not change any more when a client's choice
\* has been read; one that left before it wrote any has chosen none.
Choosing ==
  /\ \A c \in Conn : sent[c] = 0 => pick[c] = NoRoom
  /\ \A c \in Conn : tpc[c] \in {"none", "list", "choose"} => taken[c] = 0
  /\ \A c \in Conn : taken[c] <= sent[c]
  /\ \A c \in Conn : tpc[c] \in Chosen => sent[c] > 0 \/ client[c] = "off"
  /\ \A c \in Conn : tpc[c] = "enter" => pick[c] \in Room \/ client[c] = "off"

\* When rooms move with the descriptors, an entry has its owner's room; it has
\* room 0 while he has entered none, and behind the end of the list.
Rooms ==
  lhsFirst =>
    /\ \A i \in 0..(clnt_cnt - 1) :
         Entered(clnt_socks[i].who) => clnt_socks[i].room = rnum[clnt_socks[i].who]
    /\ ~wasFull =>
         \A i \in 0..(clnt_cnt - 1) :
           \/ Entered(clnt_socks[i].who)
           \/ client[clnt_socks[i].who] = "off"
           \/ clnt_socks[i].room = 0
    /\ ~wasFull =>
         \A i \in 0..(MAX_CLNT - 1) : i >= clnt_cnt => clnt_socks[i].room = 0

\* The list is full only when it has been.
Fullness == clnt_cnt = MAX_CLNT => wasFull

\* Whoever of the room the loop in send_msg has passed has the line.
HasLine(d, c) == \E k \in 1..Len(heard[d]) : heard[d][k] = [from |-> c, n |-> taken[c]]

Reached ==
  lhsFirst =>
    \A c \in Conn : mutx = c =>
      \A i \in 0..(clnt_cnt - 1) :
        LET d == clnt_socks[i].who IN
        i < next[c] /\ d # c /\ Entered(d) /\ client[d] = "on" /\ rnum[d] = rnum[c]
          => HasLine(d, c)

RoomInv == Choosing /\ Rooms /\ Fullness /\ Reached
LEMMA InitRooms == Init => RoomInv
<1> SUFFICES ASSUME Init PROVE RoomInv
  OBVIOUS
<1>1. Choosing
  BY DEF Init, Choosing, Chosen, Relaying
<1>2. 0..(clnt_cnt - 1) = {}
  BY DEF Init
<1>3. Rooms
  BY <1>2 DEF Init, Rooms
<1>4. Fullness
  BY RoomAssumption DEF Init, Fullness
<1>5. Reached
  BY RoomAssumption DEF Init, Reached
<1> QED BY <1>1, <1>3, <1>4, <1>5 DEF RoomInv

\* A client that writes on has chosen; one that has not has entered no room.
LEMMA ClientKeepsChoosing ==
  ASSUME ListInv, Choosing, NEW c \in Conn, ClientNext(c)
  PROVE  /\ Choosing'
         /\ \A d \in Conn : /\ Entered(d)' <=> Entered(d)
                            /\ client[d] = "off" => client'[d] = "off"
                            /\ client'[d] = "on" => client[d] \in {"new", "on"}
<1> USE DEF ListInv
<1>1. UNCHANGED <<tpc, rnum, taken>>
  BY DEF ClientNext
<1>2. \A d \in Conn : taken[d] \in Nat /\ sent[d] \in Nat
  BY RoomAssumption DEF TypeOK
<1>3. CASE Connect(c)
  <2>1. sent' = sent /\ pick' = pick /\ client' = [client EXCEPT ![c] = "on"]
        /\ client[c] = "new" /\ tpc[c] = "none"
    BY <1>3 DEF Connect, Place
  <2>2. \A d \in Conn : client[d] = "off" <=> client'[d] = "off"
    BY <2>1 DEF TypeOK
  <2>3. Choosing'
    BY <1>1, <2>1, <2>2 DEF Choosing
  <2> QED BY <1>1, <2>1, <2>2, <2>3 DEF Entered, TypeOK
<1>4. CASE Hangup(c)
  <2>1. sent' = sent /\ pick' = pick /\ client' = [client EXCEPT ![c] = "off"]
        /\ client[c] = "on"
    BY <1>4 DEF Hangup
  <2>2. \A d \in Conn : client'[d] = "off" <=> client[d] = "off" \/ d = c
    BY <2>1 DEF TypeOK
  <2>3. Choosing'
    BY <1>1, <2>1, <2>2 DEF Choosing
  <2> QED BY <1>1, <2>1, <2>2, <2>3 DEF Entered, TypeOK
<1>5. CASE SendLine(c)
  <2>1. client' = client /\ client[c] = "on"
    BY <1>5 DEF SendLine
  <2>2. \A d \in Conn : sent'[d] = IF d = c THEN sent[d] + 1 ELSE sent[d]
    BY <1>5 DEF SendLine, TypeOK
  <2>3. \A d \in Conn : d # c \/ sent[c] > 0 => pick'[d] = pick[d]
    BY <1>2, <1>5 DEF SendLine, TypeOK
  <2>4. \A d \in Conn : tpc[d] \in Chosen => pick'[d] = pick[d]
    BY <2>1, <2>3 DEF Choosing
  <2>5. \A d \in Conn : /\ sent'[d] >= sent[d] /\ sent'[d] \in Nat
                        /\ d = c => sent'[d] > 0
    BY <1>2, <2>2
  <2>6. Choosing'
    <3>1. \A d \in Conn : sent'[d] = 0 => pick'[d] = NoRoom
      <4> TAKE d \in Conn
      <4> HAVE sent'[d] = 0
      <4>1. d # c /\ sent[d] = 0
        BY <1>2, <2>2, <2>5
      <4> QED BY <2>3, <4>1 DEF Choosing
    <3>2. \A d \in Conn : taken[d] <= sent'[d]
      BY <1>2, <2>5 DEF Choosing
    <3>3. \A d \in Conn : tpc[d] \in Chosen => sent'[d] > 0 \/ client[d] = "off"
      BY <1>2, <2>5 DEF Choosing
    <3>4. \A d \in Conn : tpc[d] = "enter" => pick'[d] \in Room \/ client[d] = "off"
      BY <2>4 DEF Choosing, Chosen
    <3> QED BY <1>1, <2>1, <3>1, <3>2, <3>3, <3>4 DEF Choosing
  <2>7. \A d \in Conn : Entered(d)' <=> Entered(d)
    BY <1>1, <2>4 DEF Entered, Chosen
  <2> QED BY <2>1, <2>6, <2>7 DEF TypeOK
<1> QED BY <1>3, <1>4, <1>5 DEF ClientNext

\* A thread moves on within Chosen, and enters a room only under the mutex.
LEMMA ThreadKeepsChoosing ==
  ASSUME ListInv, Choosing, NEW c \in Conn, ThreadNext(c)
  PROVE  /\ Choosing'
         /\ \A d \in Conn : Entered(d) => rnum'[d] = rnum[d]
         /\ ~EnterRoom(c) /\ ~Leave(c) => \A d \in Conn : Entered(d)' <=> Entered(d)
<1> USE DEF ListInv
<1>1. UNCHANGED <<client, pick, sent>>
  BY DEF ThreadNext, clientVars
<1>2. \A d \in Conn : taken[d] \in Nat /\ sent[d] \in Nat
  BY RoomAssumption DEF TypeOK
<1>3. ASSUME NEW pc, tpc[c] \in Chosen, pc \in (Chosen \ {"enter"}) \cup {"done"},
             tpc' = [tpc EXCEPT ![c] = pc], taken' = taken \/ ReadLine(c)
      PROVE  Choosing'
  <2>1. \A d \in Conn : tpc'[d] = IF d = c THEN pc ELSE tpc[d]
    BY <1>3 DEF TypeOK
  <2>2. \A d \in Conn : d # c => taken'[d] = taken[d]
    BY <1>3 DEF ReadLine, TypeOK
  <2>3. taken'[c] <= sent[c]
    <3>1. CASE taken' = taken
      BY <3>1 DEF Choosing
    <3>2. CASE ReadLine(c)
      BY <1>2, <3>2 DEF ReadLine, Arrived, Eof, TypeOK
    <3> QED BY <1>3, <3>1, <3>2
  <2>4. pc \notin {"none", "list", "choose", "enter"}
    BY <1>3 DEF Chosen, Relaying
  <2>5. \A d \in Conn : tpc'[d] \in {"none", "list", "choose"} => taken'[d] = 0
    BY <2>1, <2>2, <2>4 DEF Choosing
  <2>6. \A d \in Conn : taken'[d] <= sent[d]
    BY <2>2, <2>3 DEF Choosing
  <2>7. \A d \in Conn : tpc'[d] \in Chosen => sent[d] > 0 \/ client[d] = "off"
    BY <1>3, <2>1 DEF Choosing
  <2>8. \A d \in Conn : tpc'[d] = "enter" => pick[d] \in Room \/ client[d] = "off"
    BY <2>1, <2>4 DEF Choosing
  <2> QED BY <1>1, <2>5, <2>6, <2>7, <2>8 DEF Choosing
<1>4. CASE SendList(c)
  <2>1. \A d \in Conn : tpc'[d] = IF d = c THEN "choose" ELSE tpc[d]
    BY <1>4 DEF SendList, Goto, TypeOK
  <2>2. tpc[c] = "list" /\ taken' = taken /\ rnum' = rnum
    BY <1>4 DEF SendList
  <2>3. Choosing'
    BY <1>1, <2>1, <2>2 DEF Choosing, Chosen, Relaying
  <2> QED BY <1>1, <2>1, <2>2, <2>3 DEF Entered, Relaying
<1>5. CASE ReadChoice(c)
  <2>1. tpc[c] = "choose" /\ ReadLine(c) /\ taken[c] = 0
    BY <1>5 DEF ReadChoice, Choosing
  <2>2. ~Entered(c)
    BY <2>1 DEF Entered, Relaying
  <2>3. PICK pc \in {"enter", "recv"} :
          /\ \A d \in Conn : tpc'[d] = IF d = c THEN pc ELSE tpc[d]
          /\ pc = "enter" <=> IsDigit(c)
    BY <1>5 DEF ReadChoice, Goto, TypeOK
  <2>4. \A d \in Conn \ {c} : rnum'[d] = rnum[d] /\ taken'[d] = taken[d]
    BY <1>5 DEF ReadChoice, ReadLine, TypeOK
  <2>5. taken'[c] <= sent[c] /\ (sent[c] > 0 \/ client[c] = "off")
    BY <1>2, <2>1 DEF ReadLine, Arrived, Eof, TypeOK
  <2>6. Eof(c) => IsDigit(c)
    BY RoomAssumption DEF IsDigit, Choice, Room
  <2>7. ~Eof(c) => (IsDigit(c) <=> pick[c] \in Room)
    BY DEF IsDigit, Choice
  <2>8. pc = "enter" => pick[c] \in Room \/ client[c] = "off"
    BY <2>3, <2>7 DEF Eof
  <2>9. pc = "recv" => pick[c] \notin Room
    BY <2>3, <2>6, <2>7
  <2>10. Choosing'
    <3>1. \A d \in Conn : tpc'[d] \in {"none", "list", "choose"} => taken'[d] = 0
      BY <2>3, <2>4 DEF Choosing
    <3>2. \A d \in Conn : taken'[d] <= sent[d]
      BY <2>4, <2>5 DEF Choosing
    <3>3. \A d \in Conn : tpc'[d] \in Chosen => sent[d] > 0 \/ client[d] = "off"
      BY <2>3, <2>5 DEF Choosing
    <3>4. \A d \in Conn : tpc'[d] = "enter" => pick[d] \in Room \/ client[d] = "off"
      BY <2>3, <2>8 DEF Choosing
    <3> QED BY <1>1, <3>1, <3>2, <3>3, <3>4 DEF Choosing
  <2>11. \A d \in Conn : Entered(d)' <=> Entered(d)
    BY <1>1, <2>2, <2>3, <2>9 DEF Entered, Relaying
  <2> QED BY <2>2, <2>4, <2>10, <2>11
<1>6. ASSUME NEW pc, pc \in {"name"} \cup Relaying,
             tpc[c] \in {"count", "name"} \cup Relaying,
             tpc' = [tpc EXCEPT ![c] = pc]
      PROVE  \A d \in Conn : Entered(d)' <=> Entered(d)
  BY <1>1, <1>6 DEF Entered, TypeOK
<1>7. CASE EnterRoom(c)
  <2>1. Choosing'
    BY <1>3, <1>7 DEF EnterRoom, Goto, Chosen, Relaying
  <2> QED BY <1>7, <2>1 DEF EnterRoom
<1>8. CASE CountMember(c)
  <2>1. PICK pc \in {"name", "recv"} : tpc' = [tpc EXCEPT ![c] = pc]
    BY <1>8 DEF CountMember, Goto
  <2> QED BY <1>3, <1>6, <1>8, <2>1 DEF CountMember, Chosen, Relaying
<1>9. CASE ReadName(c)
  BY <1>3, <1>6, <1>9 DEF ReadName, Goto, Chosen, Relaying
<1>10. CASE Recv(c)
  <2>1. PICK pc \in {"leave", "lock"} : tpc' = [tpc EXCEPT ![c] = pc]
    BY <1>10 DEF Recv, Goto
  <2> QED BY <1>3, <1>6, <1>10, <2>1 DEF Recv, Chosen, Relaying
<1>11. CASE Lock(c)
  BY <1>3, <1>6, <1>11 DEF Lock, Goto, Chosen, Relaying
<1>12. CASE SendNext(c)
  BY <1>1, <1>12 DEF SendNext, Choosing, Entered
<1>13. CASE Unlock(c)
  BY <1>3, <1>6, <1>13 DEF Unlock, Goto, Chosen, Relaying
<1>14. CASE Leave(c)
  <2>1. /\ tpc[c] = "leave" /\ tpc' = [tpc EXCEPT ![c] = "done"]
        /\ taken' = taken /\ rnum' = rnum
    BY <1>14 DEF Leave, Goto
  <2>2. Choosing'
    BY <1>3, <2>1 DEF Chosen, Relaying
  <2> QED BY <1>14, <2>1, <2>2
<1> QED BY <1>4, <1>5, <1>7, <1>8, <1>9, <1>10, <1>11, <1>12, <1>13, <1>14 DEF ThreadNext
-----------------------------------------------------------------------------
(* The rooms of the entries, and who has been reached. *)

\* A step that leaves list and rooms alone.
LEMMA SameRooms ==
  ASSUME ListInv, RoomInv, UNCHANGED <<listVars, lhsFirst>>,
         \A d \in Conn : /\ Entered(d)' <=> Entered(d)
                         /\ Entered(d) => rnum'[d] = rnum[d]
                         /\ client[d] = "off" => client'[d] = "off"
  PROVE  Rooms' /\ Fullness'
<1>1. \A i \in 0..(clnt_cnt - 1) : clnt_socks[i].who \in Conn
  BY Entries DEF ListInv, Listed
<1>2. Rooms'
  BY <1>1 DEF RoomInv, Rooms, listVars
<1>3. Fullness'
  BY DEF RoomInv, Fullness, listVars
<1> QED BY <1>2, <1>3

\* A step in which send_msg's loop stands still, if there is one.
LEMMA SameReached ==
  ASSUME ListInv, RoomInv, mutx' = mutx,
         UNCHANGED <<clnt_socks, clnt_cnt, heard, next, lhsFirst>>,
         mutx \in Conn => taken'[mutx] = taken[mutx] /\ rnum'[mutx] = rnum[mutx],
         \A d \in Listed : /\ Entered(d)' => Entered(d)
                           /\ Entered(d) => rnum'[d] = rnum[d]
                           /\ client'[d] = "on" => client[d] = "on"
  PROVE  Reached'
<1> SUFFICES ASSUME lhsFirst, NEW c \in Conn, mutx = c, NEW i \in 0..(clnt_cnt - 1),
                    i < next[c], clnt_socks[i].who # c,
                    Entered(clnt_socks[i].who)', client'[clnt_socks[i].who] = "on",
                    rnum'[clnt_socks[i].who] = rnum'[c]
             PROVE  HasLine(clnt_socks[i].who, c)'
  BY DEF Reached
<1>1. clnt_socks[i].who \in Listed
  BY Entries DEF ListInv
<1>2. HasLine(clnt_socks[i].who, c)
  BY <1>1 DEF RoomInv, Reached
<1>3. taken'[c] = taken[c]
  OBVIOUS
<1> QED BY <1>2, <1>3 DEF HasLine

LEMMA NobodyReaches ==
  ASSUME mutx' = NoConn
  PROVE  Reached'
BY RoomAssumption DEF Reached

LEMMA ClientKeepsRooms ==
  ASSUME ListInv, RoomInv, NEW c \in Conn, ClientNext(c), UNCHANGED lhsFirst
  PROVE  RoomInv'
<1>1. /\ Choosing'
      /\ \A d \in Conn : /\ Entered(d)' <=> Entered(d)
                         /\ client[d] = "off" => client'[d] = "off"
                         /\ client'[d] = "on" => client[d] \in {"new", "on"}
  BY ClientKeepsChoosing DEF RoomInv
<1>2. UNCHANGED <<proc, heard, listVars, mutx, memcount, tpc, rnum, taken, next>>
  BY DEF ClientNext
<1>3. Rooms' /\ Fullness'
  BY <1>1, <1>2, SameRooms
<1>4. \A d \in Listed : client[d] # "new"
  BY DEF ListInv, Place, Listed
<1>5. Reached'
  BY <1>1, <1>2, <1>4, SameReached DEF Listed, listVars
<1> QED BY <1>1, <1>3, <1>5 DEF RoomInv

LEMMA AcceptKeepsRooms ==
  ASSUME ListInv, RoomInv, Accept,
         UNCHANGED <<proc, clientVars, heard, mutx, memcount, rnum, taken, next, lhsFirst>>
  PROVE  RoomInv'
<1>1. UNCHANGED <<tpc, client, pick, sent, listVars>>
  BY DEF Accept, clientVars
<1>2. \A d \in Conn : Entered(d)' <=> Entered(d)
  BY <1>1 DEF Entered
<1>3. Choosing'
  BY <1>1 DEF RoomInv, Choosing
<1>4. Rooms' /\ Fullness'
  BY <1>1, <1>2, SameRooms
<1>5. Reached'
  BY <1>1, <1>2, SameReached DEF Listed, listVars
<1> QED BY <1>3, <1>4, <1>5 DEF RoomInv

\* The newcomer gets an entry of room 0.
LEMMA EnlistKeepsRooms ==
  ASSUME ListInv, RoomInv, Enlist,
         UNCHANGED <<proc, clientVars, heard, mutx, memcount, rnum, taken, next, lhsFirst>>
  PROVE  RoomInv'
<1> USE DEF ListInv, RoomInv
<1>1. cur \in Conn /\ tpc[cur] = "none"
  BY DEF Enlist, Place
<1>2. /\ clnt_cnt \in 0..(MAX_CLNT - 1) /\ clnt_cnt' = clnt_cnt + 1
      /\ MAX_CLNT \in Nat /\ mutx' = NoConn
  BY RoomAssumption DEF Enlist, TypeOK
<1>3. /\ ~wasFull' => ~wasFull
      /\ clnt_cnt' = MAX_CLNT => wasFull'
  BY DEF Enlist
<1>4. \A d \in Conn : tpc'[d] = IF d = cur THEN "list" ELSE tpc[d]
  BY DEF Enlist, TypeOK
<1>5. UNCHANGED <<client, pick, sent, taken, rnum>>
  BY DEF clientVars
<1>6. Choosing'
  BY <1>1, <1>4, <1>5 DEF Choosing, Chosen, Relaying
<1>7. \A d \in Conn : Entered(d)' <=> Entered(d)
  BY <1>1, <1>4, <1>5 DEF Entered, Relaying
<1>8. ~Entered(cur)
  BY <1>1 DEF Entered, Relaying
<1>9. clnt_socks \in [0..(MAX_CLNT - 1) -> Entry]
  BY DEF TypeOK
<1>10. /\ clnt_socks'[clnt_cnt].who = cur
       /\ clnt_socks'[clnt_cnt].room = clnt_socks[clnt_cnt].room
       /\ \A i \in 0..(MAX_CLNT - 1) : i # clnt_cnt => clnt_socks'[i] = clnt_socks[i]
  <2>1. clnt_socks[clnt_cnt] \in Entry
    BY <1>2, <1>9
  <2>2. NewEntry.who = cur /\ NewEntry.room = clnt_socks[clnt_cnt].room
    BY <2>1 DEF NewEntry, Entry
  <2> QED BY <1>2, <1>9, <2>2 DEF Enlist
<1>11. ASSUME NEW i \in 0..(clnt_cnt' - 1), i # clnt_cnt
       PROVE  /\ i \in 0..(clnt_cnt - 1) /\ clnt_socks'[i] = clnt_socks[i]
              /\ clnt_socks[i].who \in Conn
  <2>1. i \in 0..(clnt_cnt - 1) /\ i \in 0..(MAX_CLNT - 1)
    BY <1>2, <1>11
  <2> QED BY <1>10, <1>11, <2>1, Entries DEF Listed
<1>12. ASSUME lhsFirst, NEW i \in 0..(clnt_cnt' - 1), Entered(clnt_socks[i].who)'
       PROVE  clnt_socks'[i].room = rnum'[clnt_socks'[i].who]
  <2>1. i # clnt_cnt
    BY <1>1, <1>7, <1>8, <1>10, <1>12
  <2>2. i \in 0..(clnt_cnt - 1) /\ clnt_socks'[i] = clnt_socks[i]
        /\ clnt_socks[i].who \in Conn
    BY <1>11, <2>1
  <2>3. Entered(clnt_socks[i].who)
    BY <1>7, <1>12, <2>2
  <2> QED BY <1>5, <1>12, <2>2, <2>3 DEF Rooms
<1>13. ASSUME lhsFirst, ~wasFull', NEW i \in 0..(clnt_cnt' - 1)
       PROVE  \/ Entered(clnt_socks[i].who)'
              \/ client'[clnt_socks'[i].who] = "off"
              \/ clnt_socks'[i].room = 0
  <2>1. CASE i = clnt_cnt
    <3>1. clnt_socks[clnt_cnt].room = 0
      BY <1>2, <1>3, <1>13 DEF Rooms
    <3> QED BY <1>10, <2>1, <3>1
  <2>2. CASE i # clnt_cnt
    <3>1. i \in 0..(clnt_cnt - 1) /\ clnt_socks'[i] = clnt_socks[i]
          /\ clnt_socks[i].who \in Conn
      BY <1>11, <2>2
    <3> QED BY <1>3, <1>5, <1>7, <1>13, <3>1 DEF Rooms
  <2> QED BY <2>1, <2>2
<1>14. ASSUME lhsFirst, ~wasFull', NEW i \in 0..(MAX_CLNT - 1), i >= clnt_cnt'
       PROVE  clnt_socks'[i].room = 0
  <2>1. i >= clnt_cnt /\ i # clnt_cnt
    BY <1>2, <1>14
  <2> QED BY <1>3, <1>10, <1>14, <2>1 DEF Rooms
<1>15. Rooms'
  BY <1>12, <1>13, <1>14 DEF Rooms
<1>16. Fullness'
  BY <1>3 DEF Fullness
<1> QED BY <1>2, <1>6, <1>15, <1>16, NobodyReaches
\* The steps that touch neither list nor mutex, nor anybody's hearing.
LEMMA PlainStepKeepsRooms ==
  ASSUME ListInv, RoomInv, NEW c \in Conn,
         \/ SendList(c) \/ ReadChoice(c) \/ CountMember(c) \/ ReadName(c)
         \/ Recv(c),
         ThreadNext(c), UNCHANGED lhsFirst
  PROVE  RoomInv'
<1>1. UNCHANGED <<heard, clnt_socks, clnt_cnt, wasFull, mutx, next>>
  BY DEF SendList, ReadChoice, CountMember, ReadName, Recv, listVars
<1>2. tpc[c] # "send" /\ ~EnterRoom(c) /\ ~Leave(c)
  BY DEF SendList, ReadChoice, CountMember, ReadName, Recv, EnterRoom, Leave
<1>3. /\ Choosing'
      /\ \A d \in Conn : /\ Entered(d)' <=> Entered(d)
                         /\ Entered(d) => rnum'[d] = rnum[d]
  BY <1>2, ThreadKeepsChoosing DEF RoomInv
<1>4. client' = client
  BY DEF ThreadNext, clientVars
<1>5. Rooms' /\ Fullness'
  BY <1>1, <1>3, <1>4, SameRooms DEF listVars
<1>6. mutx # c
  BY <1>2 DEF ListInv, Sending
<1>7. \A d \in Conn \ {c} : taken'[d] = taken[d] /\ rnum'[d] = rnum[d]
  BY DEF SendList, ReadChoice, CountMember, ReadName, Recv, ReadLine, ListInv, TypeOK
<1>8. Reached'
  BY <1>1, <1>3, <1>4, <1>6, <1>7, SameReached DEF Listed
<1> QED BY <1>3, <1>5, <1>8 DEF RoomInv

\* The entry gets its owner's room.
LEMMA EnterKeepsRooms ==
  ASSUME ListInv, RoomInv, NEW c \in Conn, EnterRoom(c), ThreadNext(c),
         UNCHANGED lhsFirst
  PROVE  RoomInv'
<1> USE DEF RoomInv
<1>1. /\ Choosing' /\ Choosing
      /\ mutx' = NoConn
  BY ThreadKeepsChoosing, RoomAssumption DEF EnterRoom
<1>2. UNCHANGED <<client, pick, clnt_cnt, wasFull, rnum>> /\ tpc[c] = "enter"
  BY DEF ThreadNext, EnterRoom, clientVars
<1>3. \A d \in Conn : tpc'[d] = IF d = c THEN "count" ELSE tpc[d]
  BY DEF EnterRoom, Goto, ListInv, TypeOK
<1>4. ~Entered(c) /\ (Entered(c)' \/ client[c] = "off")
  BY <1>1, <1>2, <1>3 DEF Entered, Relaying, Choosing
<1>5. \A d \in Conn \ {c} : Entered(d)' <=> Entered(d)
  BY <1>2, <1>3 DEF Entered
<1>6. \A i \in 0..(MAX_CLNT - 1) :
        clnt_socks'[i] = IF EntryOf(c, i)
                         THEN [clnt_socks[i] EXCEPT !.room = rnum[c]]
                         ELSE clnt_socks[i]
  BY DEF EnterRoom, ListInv, TypeOK
<1>7. ASSUME NEW i \in 0..(clnt_cnt - 1)
      PROVE  /\ clnt_socks[i].who \in Conn
             /\ clnt_socks'[i].who = clnt_socks[i].who
             /\ clnt_socks'[i].room
                  = IF clnt_socks[i].who = c THEN rnum[c] ELSE clnt_socks[i].room
  <2>1. i \in 0..(MAX_CLNT - 1) /\ clnt_socks[i] \in Entry /\ clnt_socks[i].who \in Listed
    BY Entries DEF ListInv
  <2>2. EntryOf(c, i) <=> clnt_socks[i].who = c
    <3>1. i < clnt_cnt
      BY DEF ListInv, TypeOK
    <3> QED BY <3>1 DEF EntryOf
  <2> QED BY <1>6, <2>1, <2>2 DEF Entry, Listed
<1>8. ASSUME NEW i \in 0..(MAX_CLNT - 1), i >= clnt_cnt
      PROVE  clnt_socks'[i] = clnt_socks[i]
  <2>1. ~EntryOf(c, i)
    BY <1>8 DEF EntryOf, ListInv, TypeOK
  <2> QED BY <1>6, <2>1
<1>9. Rooms'
  <2> SUFFICES ASSUME lhsFirst PROVE Rooms'
    BY DEF Rooms
  <2>1. ASSUME NEW i \in 0..(clnt_cnt - 1), Entered(clnt_socks[i].who)'
        PROVE  clnt_socks'[i].room = rnum[clnt_socks[i].who]
    BY <1>5, <1>7, <2>1 DEF Rooms
  <2>2. ASSUME ~wasFull, NEW i \in 0..(clnt_cnt - 1)
        PROVE  \/ Entered(clnt_socks[i].who)'
               \/ client[clnt_socks[i].who] = "off"
               \/ clnt_socks'[i].room = 0
    <3>1. CASE clnt_socks[i].who = c
      BY <1>4, <1>7, <3>1
    <3>2. CASE clnt_socks[i].who # c
      BY <1>5, <1>7, <2>2, <3>2 DEF Rooms
    <3> QED BY <3>1, <3>2
  <2>3. ASSUME ~wasFull, NEW i \in 0..(MAX_CLNT - 1), i >= clnt_cnt
        PROVE  clnt_socks'[i].room = 0
    BY <1>8, <2>3 DEF Rooms
  <2> QED BY <1>2, <1>7, <2>1, <2>2, <2>3 DEF Rooms
<1>10. Fullness'
  BY <1>2 DEF Fullness
<1> QED BY <1>1, <1>9, <1>10, NobodyReaches

\* Every entry that moves takes its room along; behind the last one room 0
\* moves in.
LEMMA LeaveKeepsRooms ==
  ASSUME ListInv, RoomInv, NEW c \in Conn, Leave(c), ThreadNext(c),
         UNCHANGED lhsFirst
  PROVE  RoomInv'
<1> USE DEF RoomInv
<1>1. Choosing' /\ mutx' = NoConn
  BY ThreadKeepsChoosing, RoomAssumption DEF Leave
<1>2. UNCHANGED <<client, pick, wasFull, rnum>>
  BY DEF ThreadNext, Leave, clientVars
<1>3. \A d \in Conn : tpc'[d] = IF d = c THEN "done" ELSE tpc[d]
  BY DEF Leave, Goto, ListInv, TypeOK
<1>4. \A d \in Conn \ {c} : Entered(d)' <=> Entered(d)
  BY <1>2, <1>3 DEF Entered
<1> DEFINE from(p, i) == IF i < p THEN i ELSE i + 1
<1>5. PICK p \in 0..(clnt_cnt - 1) :
        /\ clnt_socks[p].who = c
        /\ \A i \in 0..(clnt_cnt' - 1) :
             /\ from(p, i) \in 0..(clnt_cnt - 1) \ {p}
             /\ clnt_socks'[i].who = clnt_socks[from(p, i)].who
             /\ lhsFirst => clnt_socks'[i].room = clnt_socks[from(p, i)].room
        /\ \A i \in 0..(MAX_CLNT - 1) :
             /\ i >= clnt_cnt => clnt_socks'[i] = clnt_socks[i]
             /\ lhsFirst /\ i = clnt_cnt' /\ i + 1 < MAX_CLNT =>
                  clnt_socks'[i].room = clnt_socks[i + 1].room
  BY LeaveMoves
<1> HIDE DEF from
<1>6. clnt_cnt \in 1..MAX_CLNT /\ clnt_cnt' = clnt_cnt - 1 /\ MAX_CLNT \in Nat
  <2>1. clnt_cnt \in 0..MAX_CLNT /\ clnt_cnt' = clnt_cnt - 1 /\ MAX_CLNT \in Nat
    BY RoomAssumption DEF Leave, ListInv, TypeOK
  <2> QED BY <1>5, <2>1
<1>7. \A i \in 0..(clnt_cnt' - 1) : clnt_socks[from(p, i)].who \in Conn \ {c}
  <2> TAKE i \in 0..(clnt_cnt' - 1)
  <2>1. from(p, i) \in 0..(clnt_cnt - 1) /\ from(p, i) # p
    BY <1>5
  <2>2. clnt_socks[from(p, i)].who \in Listed
    BY <2>1, Entries DEF ListInv
  <2>3. clnt_socks[from(p, i)].who # c
    BY <1>5, <2>1 DEF ListInv, Directory
  <2> QED BY <2>2, <2>3 DEF Listed
<1>8. Rooms'
  <2> SUFFICES ASSUME lhsFirst PROVE Rooms'
    BY DEF Rooms
  <2>1. ASSUME NEW i \in 0..(clnt_cnt' - 1), Entered(clnt_socks[i].who)'
        PROVE  clnt_socks'[i].room = rnum[clnt_socks'[i].who]
    <3>1. Entered(clnt_socks[from(p, i)].who)
      BY <1>4, <1>5, <1>7, <2>1
    <3> QED BY <1>5, <3>1 DEF Rooms
  <2>2. ASSUME ~wasFull, NEW i \in 0..(clnt_cnt' - 1)
        PROVE  \/ Entered(clnt_socks[i].who)'
               \/ client[clnt_socks'[i].who] = "off"
               \/ clnt_socks'[i].room = 0
    <3>1. \/ Entered(clnt_socks[from(p, i)].who)
          \/ client[clnt_socks[from(p, i)].who] = "off"
          \/ clnt_socks[from(p, i)].room = 0
      BY <1>5, <2>2 DEF Rooms
    <3> QED BY <1>4, <1>5, <1>7, <3>1
  <2>3. ASSUME ~wasFull, NEW i \in 0..(MAX_CLNT - 1), i >= clnt_cnt'
        PROVE  clnt_socks'[i].room = 0
    <3>1. CASE i = clnt_cnt'
      <4>1. clnt_cnt # MAX_CLNT
        BY <2>3 DEF Fullness
      <4>2. i + 1 \in 0..(MAX_CLNT - 1) /\ i + 1 >= clnt_cnt /\ i + 1 < MAX_CLNT
        BY <1>6, <3>1, <4>1
      <4>3. clnt_socks[i + 1].room = 0
        BY <2>3, <4>2 DEF Rooms
      <4> QED BY <1>5, <3>1, <4>2, <4>3
    <3>2. CASE i # clnt_cnt'
      <4>1. i >= clnt_cnt
        BY <1>6, <2>3, <3>2
      <4> QED BY <1>5, <2>3, <4>1 DEF Rooms
    <3> QED BY <3>1, <3>2
  <2> QED BY <1>2, <2>1, <2>2, <2>3 DEF Rooms
<1>9. Fullness'
  BY <1>6 DEF Fullness
<1> QED BY <1>1, <1>8, <1>9, NobodyReaches

LEMMA LockKeepsRooms ==
  ASSUME ListInv, RoomInv, NEW c \in Conn, Lock(c), ThreadNext(c), UNCHANGED lhsFirst
  PROVE  RoomInv'
<1>1. ~EnterRoom(c) /\ ~Leave(c)
  BY DEF Lock, EnterRoom, Leave
<1>2. /\ Choosing'
      /\ \A d \in Conn : /\ Entered(d)' <=> Entered(d)
                         /\ Entered(d) => rnum'[d] = rnum[d]
  BY <1>1, ThreadKeepsChoosing DEF RoomInv
<1>3. Rooms' /\ Fullness'
  BY <1>2, SameRooms DEF Lock, ThreadNext, clientVars
<1>4. next'[c] = 0 /\ mutx' = c /\ clnt_cnt' \in Nat
  BY DEF Lock, ListInv, TypeOK, listVars
<1>5. Reached'
  BY <1>4 DEF Reached
<1> QED BY <1>2, <1>3, <1>5 DEF RoomInv

LEMMA UnlockKeepsRooms ==
  ASSUME ListInv, RoomInv, NEW c \in Conn, Unlock(c), ThreadNext(c), UNCHANGED lhsFirst
  PROVE  RoomInv'
<1>1. ~EnterRoom(c) /\ ~Leave(c)
  BY DEF Unlock, EnterRoom, Leave
<1>2. /\ Choosing'
      /\ \A d \in Conn : /\ Entered(d)' <=> Entered(d)
                         /\ Entered(d) => rnum'[d] = rnum[d]
  BY <1>1, ThreadKeepsChoosing DEF RoomInv
<1>3. Rooms' /\ Fullness'
  BY <1>2, SameRooms DEF Unlock, ThreadNext, clientVars
<1>4. Reached'
  BY NobodyReaches DEF Unlock
<1> QED BY <1>2, <1>3, <1>4 DEF RoomInv

\* The loop takes the next entry: a line goes to its owner if the room is the
\* sender's, and to nobody else.
LEMMA SendNextEffect ==
  ASSUME ListInv, NEW c \in Conn, SendNext(c), UNCHANGED client
  PROVE  LET e == clnt_socks[next[c]]
             line == [from |-> c, n |-> taken[c]]
         IN  /\ mutx = c
             /\ next[c] \in 0..(clnt_cnt - 1) /\ e.who \in Listed
             /\ \A d \in Conn : heard'[d] # heard[d] =>
                  d = e.who /\ client[d] = "on" /\ e.room = rnum[c]
             /\ ToBeSent(c, e) /\ client[e.who] = "on" =>
                  heard'[e.who] = Append(heard[e.who], line)
             /\ \A d \in Conn : \/ heard'[d] = heard[d]
                                \/ heard'[d] = Append(heard[d], line)
<1> DEFINE e == clnt_socks[next[c]]
           line == [from |-> c, n |-> taken[c]]
<1>1. next[c] \in 0..(clnt_cnt - 1) /\ e.who \in Listed /\ e.who \in Conn
  BY SendNextLooksAt
<1>2. mutx = c
  BY DEF SendNext, ListInv, Sending
<1>3. \/ ToBeSent(c, e) /\ client[e.who] = "on"
           /\ heard' = [heard EXCEPT ![e.who] = Append(@, line)]
      \/ ~(ToBeSent(c, e) /\ client[e.who] = "on") /\ heard' = heard
  BY DEF SendNext
<1>4. heard \in [Conn -> Seq(Line)]
  BY DEF ListInv, TypeOK
<1> HIDE DEF e, line
<1>5. CASE /\ ToBeSent(c, e) /\ client[e.who] = "on"
           /\ heard' = [heard EXCEPT ![e.who] = Append(@, line)]
  <2>1. \A d \in Conn : heard'[d] = IF d = e.who THEN Append(heard[d], line) ELSE heard[d]
    BY <1>1, <1>4, <1>5
  <2> QED BY <1>1, <1>2, <1>5, <2>1 DEF ToBeSent, e, line
<1>6. CASE ~(ToBeSent(c, e) /\ client[e.who] = "on") /\ heard' = heard
  BY <1>1, <1>2, <1>6 DEF e, line
<1> QED BY <1>3, <1>5, <1>6

\* A line heard stays heard.
LEMMA HasLineStays ==
  ASSUME ListInv, NEW c \in Conn, NEW d \in Conn, taken' = taken,
         NEW line \in Line,
         heard'[d] = heard[d] \/ heard'[d] = Append(heard[d], line),
         HasLine(d, c)
  PROVE  HasLine(d, c)'
<1>1. heard[d] \in Seq(Line)
  BY DEF ListInv, TypeOK
<1>2. PICK k \in 1..Len(heard[d]) : heard[d][k] = [from |-> c, n |-> taken[c]]
  BY DEF HasLine
<1>3. k \in 1..Len(heard'[d]) /\ heard'[d][k] = heard[d][k]
  BY <1>1, <1>2
<1> QED BY <1>2, <1>3 DEF HasLine

LEMMA SendNextKeepsRooms ==
  ASSUME ListInv, RoomInv, NEW c \in Conn, SendNext(c), ThreadNext(c),
         UNCHANGED lhsFirst
  PROVE  RoomInv'
<1>1. ~EnterRoom(c) /\ ~Leave(c)
  BY DEF SendNext, EnterRoom, Leave
<1>2. /\ Choosing'
      /\ \A d \in Conn : /\ Entered(d)' <=> Entered(d)
                         /\ Entered(d) => rnum'[d] = rnum[d]
  BY <1>1, ThreadKeepsChoosing DEF RoomInv
<1>3. client' = client /\ rnum' = rnum /\ taken' = taken /\ mutx' = mutx
      /\ clnt_socks' = clnt_socks /\ clnt_cnt' = clnt_cnt
  BY DEF SendNext, ThreadNext, clientVars, listVars
<1>4. Rooms' /\ Fullness'
  BY <1>2, <1>3, SameRooms DEF SendNext
<1> DEFINE e == clnt_socks[next[c]]
           line == [from |-> c, n |-> taken[c]]
<1>5. /\ mutx = c /\ next[c] \in 0..(clnt_cnt - 1) /\ e.who \in Conn /\ line \in Line
      /\ ToBeSent(c, e) /\ client[e.who] = "on" =>
           heard'[e.who] = Append(heard[e.who], line)
      /\ \A d \in Conn : heard'[d] = heard[d] \/ heard'[d] = Append(heard[d], line)
  BY <1>3, SendNextEffect, SendNextLooksAt
<1>6. next'[c] = next[c] + 1 /\ next[c] \in Nat
  BY <1>5 DEF SendNext, ListInv, TypeOK
<1>7. ASSUME lhsFirst, NEW i \in 0..(clnt_cnt - 1), i < next'[c],
             clnt_socks[i].who # c, Entered(clnt_socks[i].who),
             client[clnt_socks[i].who] = "on", rnum[clnt_socks[i].who] = rnum[c]
      PROVE  HasLine(clnt_socks[i].who, c)'
  <2>1. clnt_socks[i].who \in Conn
    BY Entries DEF ListInv, Listed
  <2>2. CASE i < next[c]
    <3>1. HasLine(clnt_socks[i].who, c)
      BY <1>5, <1>7, <2>2 DEF RoomInv, Reached
    <3> QED BY <1>3, <1>5, <2>1, <3>1, HasLineStays
  <2>3. CASE ~(i < next[c])
    <3>1. i = next[c]
      BY <1>6, <1>7, <2>3
    <3>2. ToBeSent(c, e)
      BY <1>7, <3>1 DEF ToBeSent, RoomInv, Rooms
    <3>3. heard'[e.who] = Append(heard[e.who], line)
      BY <1>5, <1>7, <3>1, <3>2
    <3>4. heard[e.who] \in Seq(Line)
      BY <1>5 DEF ListInv, TypeOK
    <3>5. Len(heard'[e.who]) = Len(heard[e.who]) + 1
          /\ heard'[e.who][Len(heard[e.who]) + 1] = line
          /\ Len(heard[e.who]) \in Nat
      <4> HIDE DEF e, line
      <4> QED BY <1>5, <3>3, <3>4
    <3>6. ASSUME NEW d \in Conn, d = e.who PROVE HasLine(d, c)'
      <4>1. Len(heard[d]) + 1 \in 1..Len(heard'[d])
        BY <3>5, <3>6
      <4>2. heard'[d][Len(heard[d]) + 1] = [from |-> c, n |-> taken'[c]]
        BY <1>3, <3>5, <3>6
      <4> QED BY <4>1, <4>2 DEF HasLine
    <3> QED BY <1>3, <2>1, <3>1, <3>6
  <2> QED BY <2>2, <2>3
<1>8. \A i \in 0..(clnt_cnt - 1) : clnt_socks[i].who \in Conn
  BY Entries DEF ListInv, Listed
<1>9. Reached'
  <2> SUFFICES ASSUME lhsFirst, NEW i \in 0..(clnt_cnt - 1), i < next'[c],
                      clnt_socks[i].who # c, Entered(clnt_socks[i].who)',
                      client[clnt_socks[i].who] = "on",
                      rnum[clnt_socks[i].who] = rnum[c]
               PROVE  HasLine(clnt_socks[i].who, c)'
    BY <1>3, <1>5 DEF Reached
  <2>1. Entered(clnt_socks[i].who)
    BY <1>2, <1>3, <1>8
  <2> QED BY <1>7, <2>1
<1> QED BY <1>2, <1>4, <1>9 DEF RoomInv

LEMMA NextRooms == ListInv /\ RoomInv /\ [Next]_vars => RoomInv'
<1> SUFFICES ASSUME ListInv, RoomInv, [Next]_vars PROVE RoomInv'
  OBVIOUS
<1>1. CASE Next /\ MainNext
  BY <1>1, AcceptKeepsRooms, EnlistKeepsRooms DEF Next, MainNext
<1>2. ASSUME NEW c \in Conn, Next, ThreadNext(c) PROVE RoomInv'
  BY <1>2, PlainStepKeepsRooms, EnterKeepsRooms, LockKeepsRooms, UnlockKeepsRooms,
     SendNextKeepsRooms, LeaveKeepsRooms DEF Next, ThreadNext
<1>3. ASSUME NEW c \in Conn, Next, ClientNext(c) PROVE RoomInv'
  BY <1>3, ClientKeepsRooms DEF Next
<1>4. CASE UNCHANGED vars
  <2> USE <1>4 DEF vars, clientVars, mainVars, listVars
  <2>1. Choosing'
    BY DEF RoomInv, Choosing
  <2>2. \A d \in Conn : Entered(d)' <=> Entered(d)
    BY DEF Entered
  <2>3. Rooms' /\ Fullness'
    BY <2>2, SameRooms
  <2>4. Reached'
    BY <2>2, SameReached DEF Listed
  <2> QED BY <2>1, <2>3, <2>4 DEF RoomInv
<1> QED BY <1>1, <1>2, <1>3, <1>4 DEF Next

LEMMA RoomInvariant == Spec => [](ListInv /\ RoomInv)
<1>1. Init => ListInv /\ RoomInv
  BY InitList, InitRooms
<1>2. (ListInv /\ RoomInv) /\ [Next]_vars => (ListInv /\ RoomInv)'
  BY NextList, NextRooms
<1> QED BY <1>1, <1>2, PTL DEF Spec
-----------------------------------------------------------------------------
(* What the steps show. *)

LEMMA OnlySendNextIsHeard ==
  ASSUME [Next]_vars, NEW d \in Conn, heard'[d] # heard[d]
  PROVE  \E c \in Conn : SendNext(c) /\ UNCHANGED client
<1>1. heard' # heard
  OBVIOUS
<1>2. CASE UNCHANGED vars
  BY <1>1, <1>2 DEF vars
<1>3. CASE MainNext
  BY <1>1, <1>3 DEF MainNext
<1>4. ASSUME NEW c \in Conn, ClientNext(c) PROVE FALSE
  BY <1>1, <1>4 DEF ClientNext
<1>5. ASSUME NEW c \in Conn, ThreadNext(c) PROVE SendNext(c) /\ UNCHANGED client
  BY <1>1, <1>5 DEF ThreadNext, SendList, ReadChoice, EnterRoom, CountMember, ReadName,
     Recv, Lock, Unlock, Leave, clientVars
<1> QED BY <1>2, <1>3, <1>4, <1>5 DEF Next

LEMMA OnlyUnlockFrees ==
  ASSUME ListInv, [Next]_vars, NEW c \in Conn, mutx = c, mutx' = NoConn
  PROVE  Unlock(c)
<1>1. mutx' # mutx
  BY RoomAssumption
<1>2. CASE UNCHANGED vars
  BY <1>1, <1>2 DEF vars
<1>3. CASE MainNext
  BY <1>1, <1>3 DEF MainNext
<1>4. ASSUME NEW d \in Conn, ClientNext(d) PROVE FALSE
  BY <1>1, <1>4 DEF ClientNext
<1>5. ASSUME NEW d \in Conn, ThreadNext(d) PROVE Unlock(d)
  BY <1>1, <1>5 DEF ThreadNext, SendList, ReadChoice, EnterRoom, CountMember, ReadName,
     Recv, Lock, SendNext, Leave
<1>6. ASSUME NEW d \in Conn, Unlock(d) PROVE d = c
  BY <1>6 DEF Unlock, ListInv, Sending
<1> QED BY <1>2, <1>3, <1>4, <1>5, <1>6 DEF Next

\* A client that has entered a room hears that room only, although entries
\* move when others leave, for any number of clients, rooms and lines.
THEOREM OwnRoom == Spec => OwnRoomOnly
<1>1. ASSUME ListInv, RoomInv, [Next]_vars, NEW d \in Conn, lhsFirst, Entered(d),
             heard'[d] # heard[d]
      PROVE  rnum[d] = rnum[mutx]
  <2>1. PICK c \in Conn : SendNext(c) /\ UNCHANGED client
    BY <1>1, OnlySendNextIsHeard
  <2> DEFINE e == clnt_socks[next[c]]
  <2>2. mutx = c /\ next[c] \in 0..(clnt_cnt - 1) /\ d = e.who /\ e.room = rnum[c]
    BY <1>1, <2>1, SendNextEffect
  <2>3. e.room = rnum[d]
    BY <1>1, <2>2 DEF RoomInv, Rooms
  <2> QED BY <2>2, <2>3
<1>2. ListInv /\ RoomInv /\ [Next]_vars =>
        [\A d \in Conn : lhsFirst /\ Entered(d) /\ heard'[d] # heard[d]
                           => rnum[d] = rnum[mutx]]_vars
  BY <1>1
<1> QED BY <1>2, RoomInvariant, PTL DEF Spec, OwnRoomOnly

\* A client that has entered no room hears room 0 only, whoever has left, as
\* long as the list has not been full.
THEOREM StrangersInRoomZero == Spec => StrangersHearRoomZero
<1>1. ASSUME ListInv, RoomInv, [Next]_vars, NEW d \in Conn, lhsFirst, ~wasFull,
             ~Entered(d), heard'[d] # heard[d]
      PROVE  rnum[mutx] = 0
  <2>1. PICK c \in Conn : SendNext(c) /\ UNCHANGED client
    BY <1>1, OnlySendNextIsHeard
  <2> DEFINE e == clnt_socks[next[c]]
  <2>2. /\ mutx = c /\ next[c] \in 0..(clnt_cnt - 1) /\ d = e.who
        /\ e.room = rnum[c] /\ client[d] = "on"
    BY <1>1, <2>1, SendNextEffect
  <2>3. e.room = 0
    BY <1>1, <2>2 DEF RoomInv, Rooms
  <2> QED BY <2>2, <2>3
<1>2. ListInv /\ RoomInv /\ [Next]_vars =>
        [\A d \in Conn : lhsFirst /\ ~wasFull /\ ~Entered(d) /\ heard'[d] # heard[d]
                           => rnum[mutx] = 0]_vars
  BY <1>1
<1> QED BY <1>2, RoomInvariant, PTL DEF Spec, StrangersHearRoomZero

\* When send_msg gives the mutex back, everyone who has entered the room and is
\* still there has the line.
THEOREM WholeRoomHears == Spec => WholeRoom
<1>1. ASSUME ListInv, RoomInv, [Next]_vars, NEW c \in Conn, lhsFirst, mutx = c,
             mutx' = NoConn, NEW d \in Conn \ {c}, Entered(d), client[d] = "on",
             rnum[d] = rnum[c]
      PROVE  HasLine(d, c)
  <2>1. Unlock(c)
    BY <1>1, OnlyUnlockFrees
  <2>2. d \in Listed
    BY <1>1 DEF Entered, Relaying, Listed
  <2>3. PICK i \in 0..(clnt_cnt - 1) : clnt_socks[i].who = d
    BY <1>1, <2>2, EntryOfListed DEF ListInv
  <2>4. i < next[c]
    BY <1>1, <2>1 DEF Unlock, ListInv, TypeOK
  <2> QED BY <1>1, <2>3, <2>4 DEF RoomInv, Reached
<1>2. ListInv /\ RoomInv /\ [Next]_vars =>
        [\A c \in Conn : lhsFirst /\ mutx = c /\ mutx' = NoConn =>
           \A d \in Conn \ {c} :
             Entered(d) /\ client[d] = "on" /\ rnum[d] = rnum[c] =>
               \E k \in 1..Len(heard[d]) : heard[d][k] = [from |-> c, n |-> taken[c]]]_vars
  BY <1>1 DEF HasLine
<1> QED BY <1>2, RoomInvariant, PTL DEF Spec, WholeRoom

-----------------------------------------------------------------------------
(* The semaphores. *)

\* One token goes round: it is in sem_two, with the reader, in sem_one or
\* with the adder, and in one place only.
TokenIsAt(two, reader, one, adder) ==
  /\ sem_two = two
  /\ reader <=> rpc \in {"scan", "post"}
  /\ sem_one = one
  /\ adder <=> apc \in {"add", "post"}

Token == \/ TokenIsAt(1, FALSE, 0, FALSE)
         \/ TokenIsAt(0, TRUE, 0, FALSE)
         \/ TokenIsAt(0, FALSE, 1, FALSE)
         \/ TokenIsAt(0, FALSE, 0, TRUE)

RoundsLeft == /\ rpc # "wait" => ri < Rounds
              /\ apc # "wait" => ai < Rounds

TokenInv == SemTypeOK /\ Token /\ RoundsLeft

LEMMA InitToken == SemInit => TokenInv
BY HandoffAssumption DEF SemInit, TokenInv, SemTypeOK, Token, TokenIsAt, RoundsLeft

LEMMA NextToken == TokenInv /\ [SemNext]_semVars => TokenInv'
<1> SUFFICES ASSUME TokenInv, [SemNext]_semVars PROVE TokenInv'
  OBVIOUS
<1> USE HandoffAssumption DEF TokenInv, SemTypeOK, Token, TokenIsAt, RoundsLeft
<1>1. CASE ReadWait
  BY <1>1 DEF ReadWait, MayRead, accuVars
<1>2. CASE Scan
  BY <1>2 DEF Scan, accuVars
<1>3. CASE ReadPost
  BY <1>3 DEF ReadPost, accuVars
<1>4. CASE AccuWait
  BY <1>4 DEF AccuWait, readVars
<1>5. CASE Add
  BY <1>5 DEF Add, readVars
<1>6. CASE AccuPost
  BY <1>6 DEF AccuPost, GivesBack, readVars
<1>7. CASE UNCHANGED semVars
  BY <1>7 DEF semVars, readVars, accuVars
<1> QED BY <1>1, <1>2, <1>3, <1>4, <1>5, <1>6, <1>7 DEF SemNext, ReadNext, AccuNext

LEMMA TokenInvariant == SemSpec => []TokenInv
BY InitToken, NextToken, PTL DEF SemSpec

\* Every variable keeps its type: neither semaphore ever exceeds one.
THEOREM SemaphoresTypeCorrect == SemSpec => []SemTypeOK
<1>1. TokenInv => SemTypeOK
  BY DEF TokenInv
<1> QED BY <1>1, TokenInvariant, PTL

\* The two threads never have num at once.
THEOREM MutualExclusion == SemSpec => []OneHolder
<1>1. TokenInv => OneHolder
  BY DEF TokenInv, Token, TokenIsAt, OneHolder
<1> QED BY <1>1, TokenInvariant, PTL

LEMMA NextNothingLost ==
  ASSUME TokenInv, NothingLost, [SemNext]_semVars
  PROVE  NothingLost'
<1> USE DEF TokenInv, SemTypeOK, Token, TokenIsAt, NothingLost
<1>1. CASE ReadWait
  BY <1>1 DEF ReadWait, accuVars
<1>2. CASE Scan
  BY <1>2 DEF Scan, accuVars
<1>3. CASE ReadPost
  BY <1>3 DEF ReadPost, accuVars
<1>4. CASE AccuWait
  BY <1>4 DEF AccuWait, readVars
<1>5. CASE Add
  BY <1>5 DEF Add, readVars
<1>6. CASE AccuPost
  BY <1>6 DEF AccuPost, GivesBack, readVars
<1>7. CASE UNCHANGED semVars
  BY <1>7 DEF semVars, readVars, accuVars
<1> QED BY <1>1, <1>2, <1>3, <1>4, <1>5, <1>6, <1>7 DEF SemNext, ReadNext, AccuNext

\* Every number handed over is added exactly once.
THEOREM NothingIsLost == SemSpec => []NothingLost
<1>1. SemInit => NothingLost
  BY DEF SemInit, NothingLost
<1>2. TokenInv /\ NothingLost /\ [SemNext]_semVars => NothingLost'
  BY NextNothingLost
<1> QED BY <1>1, <1>2, TokenInvariant, PTL DEF SemSpec
===============================================================================
