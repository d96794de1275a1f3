----------------------------- MODULE RoomServer -----------------------------
(***************************************************************************)
(* ch18/chatroom_serv.c with its client ch18/chatroom_clnt.c: a chat       *)
(* server with rooms.  A client's first line chooses a room by its first   *)
(* character, its second names the room, and the others are relayed to the *)
(* clients whose entry in the list has the same room.                      *)
(*                                                                         *)
(* What ChatServer is about is taken for granted here: a thread has copied *)
(* its argument before the next accept returns, one write is one read, and *)
(* buffers do not fill.  So a thread and a descriptor both go by the name  *)
(* of the connection.  The ten writes of the room list are one.            *)
(***************************************************************************)
EXTENDS Naturals, Sequences

CONSTANTS Conn,      \* the clients
          NoConn,    \* nobody: an entry never used, a mutex that is free
          MAX_CLNT,  \* entries in clnt_socks
          MaxRoom,   \* rooms are 0..MaxRoom: 9
          NoRoom,    \* a first line that begins with no digit
          MaxSend    \* bound: lines a client writes

ASSUME RoomAssumption ==
  /\ NoConn \notin Conn
  /\ MAX_CLNT \in Nat \ {0}
  /\ MaxRoom \in Nat
  /\ NoRoom \notin Nat
  /\ MaxSend \in Nat

VARIABLES
  proc,        \* "up", or "killed" by SIGPIPE
  client,      \* a client is "new", "on" or "off"
  pick,        \* what its first line chose
  sent,        \* lines it has written
  heard,       \* what has been relayed to it: who wrote which line
  backlog,     \* clients connected and not accepted
  mpc, cur,    \* main is about to "accept", or to "enlist" cur
  clnt_socks,  \* the list: whose entry it is, and the room
  clnt_cnt,
  mutx,        \* the thread relaying a line, which holds the mutex
  memcount,    \* of each room
  tpc,         \* what the thread of a connection is about to do
  rnum,        \* its room
  taken,       \* lines it has read
  next,        \* its i in send_msg
  wasFull,     \* history: the list has been full
  lhsFirst     \* how the build reads clnt_socks[i][1] = clnt_socks[++i][1]

clientVars == <<client, pick, sent>>
mainVars == <<backlog, mpc, cur>>
listVars == <<clnt_socks, clnt_cnt, wasFull>>
vars == <<proc, clientVars, heard, mainVars, listVars, mutx, memcount, tpc,
          rnum, taken, next, lhsFirst>>

Room == 0..MaxRoom
Line == [from : Conn, n : 1..MaxSend]
Entry == [who : Conn \cup {NoConn}, room : Room \cup {NoRoom}]

TypeOK ==
  /\ proc \in {"up", "killed"}
  /\ client \in [Conn -> {"new", "on", "off"}]
  /\ pick \in [Conn -> Room \cup {NoRoom}]
  /\ sent \in [Conn -> 0..MaxSend] /\ taken \in [Conn -> 0..MaxSend]
  /\ heard \in [Conn -> Seq(Line)]
  /\ backlog \subseteq Conn
  /\ mpc \in {"accept", "enlist"} /\ cur \in Conn \cup {NoConn}
  /\ clnt_socks \in [0..(MAX_CLNT - 1) -> Entry]
  /\ clnt_cnt \in 0..MAX_CLNT
  /\ mutx \in Conn \cup {NoConn}
  /\ memcount \in [Room -> Nat]
  /\ tpc \in [Conn -> {"none", "list", "choose", "enter", "count", "name",
                       "recv", "lock", "send", "leave", "done"}]
  /\ rnum \in [Conn -> Room]
  /\ next \in [Conn -> 0..MAX_CLNT]
  /\ wasFull \in BOOLEAN /\ lhsFirst \in BOOLEAN

Init ==
  /\ proc = "up"
  /\ client = [c \in Conn |-> "new"]
  /\ pick = [c \in Conn |-> NoRoom]
  /\ sent = [c \in Conn |-> 0]
  /\ heard = [c \in Conn |-> <<>>]
  /\ backlog = {} /\ mpc = "accept" /\ cur = NoConn
  /\ clnt_socks = [i \in 0..(MAX_CLNT - 1) |-> [who |-> NoConn, room |-> 0]]
  /\ clnt_cnt = 0 /\ wasFull = FALSE
  /\ mutx = NoConn
  /\ memcount = [r \in Room |-> 0]
  /\ tpc = [c \in Conn |-> "none"]
  /\ rnum = [c \in Conn |-> 0]
  /\ taken = [c \in Conn |-> 0]
  /\ next = [c \in Conn |-> 0]
  /\ lhsFirst \in BOOLEAN

-----------------------------------------------------------------------------
(* The client. *)

Connect(c) ==
  /\ client[c] = "new"
  /\ client' = [client EXCEPT ![c] = "on"]
  /\ backlog' = backlog \cup {c}
  /\ UNCHANGED <<pick, sent, mpc, cur>>

\* The first line goes out as it is typed; the others bear the name.
SendLine(c) ==
  /\ client[c] = "on" /\ sent[c] < MaxSend
  /\ sent' = [sent EXCEPT ![c] = @ + 1]
  /\ \E r \in Room \cup {NoRoom} :
       pick' = IF sent[c] = 0 THEN [pick EXCEPT ![c] = r] ELSE pick
  /\ UNCHANGED <<client, mainVars>>

Hangup(c) ==
  /\ client[c] = "on"
  /\ client' = [client EXCEPT ![c] = "off"]
  /\ UNCHANGED <<pick, sent, mainVars>>

ClientNext(c) ==
  /\ Connect(c) \/ SendLine(c) \/ Hangup(c)
  /\ UNCHANGED <<proc, heard, listVars, mutx, memcount, tpc, rnum, taken, next>>

-----------------------------------------------------------------------------
(* The main thread. *)

Accept ==
  /\ mpc = "accept"
  /\ \E c \in backlog : cur' = c /\ backlog' = backlog \ {c}
  /\ mpc' = "enlist"
  /\ UNCHANGED <<listVars, tpc>>

\* Only the descriptor is set: the room is what the entry had before.
NewEntry == [clnt_socks[clnt_cnt] EXCEPT !.who = cur]

Enlist ==
  /\ mpc = "enlist"
  /\ mutx = NoConn
  /\ clnt_cnt < MAX_CLNT
  /\ clnt_socks' = [clnt_socks EXCEPT ![clnt_cnt] = NewEntry]
  /\ clnt_cnt' = clnt_cnt + 1
  /\ wasFull' = (wasFull \/ clnt_cnt' = MAX_CLNT)
  /\ tpc' = [tpc EXCEPT ![cur] = "list"]
  /\ mpc' = "accept"
  /\ UNCHANGED <<backlog, cur>>

MainNext ==
  /\ Accept \/ Enlist
  /\ UNCHANGED <<proc, clientVars, heard, mutx, memcount, rnum, taken, next>>

-----------------------------------------------------------------------------
(* The thread of connection c. *)

Goto(c, pc) == tpc' = [tpc EXCEPT ![c] = pc]

\* A write to a client that is gone may be the one that raises SIGPIPE.
WriteTo(c) == proc' \in IF client[c] = "on" THEN {"up"} ELSE {"up", "killed"}

Arrived(c) == taken[c] < sent[c]
Eof(c) == taken[c] = sent[c] /\ client[c] = "off"
ReadLine(c) ==
  /\ Arrived(c) \/ Eof(c)
  /\ taken' = [taken EXCEPT ![c] = IF Arrived(c) THEN @ + 1 ELSE @]

SendList(c) ==
  /\ tpc[c] = "list"
  /\ WriteTo(c)
  /\ Goto(c, "choose")
  /\ UNCHANGED <<heard, listVars, mutx, memcount, rnum, taken, next>>

\* At the end of the input buf still holds the last line of the list, "9: ".
Choice(c) == IF Eof(c) THEN MaxRoom ELSE pick[c]

\* Variant: the character is not checked.
AnyCharacter(c) == TRUE

IsDigit(c) == Choice(c) \in Room

ReadChoice(c) ==
  /\ tpc[c] = "choose"
  /\ ReadLine(c)
  /\ IF IsDigit(c)
     THEN rnum' = [rnum EXCEPT ![c] = Choice(c)] /\ Goto(c, "enter")
     ELSE UNCHANGED rnum /\ Goto(c, "recv")
  /\ UNCHANGED <<proc, heard, listVars, mutx, memcount, next>>

\* Variant: the first entry is taken for the client's.
FirstOnly(c, i) == i = 0 /\ clnt_cnt > 0

EntryOf(c, i) == i < clnt_cnt /\ clnt_socks[i].who = c

EnterRoom(c) ==
  /\ tpc[c] = "enter"
  /\ mutx = NoConn
  /\ clnt_socks' = [i \in DOMAIN clnt_socks |->
       IF EntryOf(c, i) THEN [clnt_socks[i] EXCEPT !.room = rnum[c]] ELSE clnt_socks[i]]
  /\ Goto(c, "count")
  /\ UNCHANGED <<proc, heard, clnt_cnt, wasFull, mutx, memcount, rnum, taken, next>>

\* Nothing makes the first one to enter count, so everyone is asked for a
\* name, in a write.
CountMember(c) ==
  /\ tpc[c] = "count"
  /\ memcount' = [memcount EXCEPT ![rnum[c]] = IF @ > 0 THEN @ + 1 ELSE @]
  /\ IF memcount[rnum[c]] > 0
     THEN Goto(c, "recv") /\ UNCHANGED proc
     ELSE Goto(c, "name") /\ WriteTo(c)
  /\ UNCHANGED <<heard, listVars, mutx, rnum, taken, next>>

ReadName(c) ==
  /\ tpc[c] = "name"
  /\ ReadLine(c)
  /\ WriteTo(c)
  /\ Goto(c, "recv")
  /\ UNCHANGED <<heard, listVars, mutx, memcount, rnum, next>>

Recv(c) ==
  /\ tpc[c] = "recv"
  /\ ReadLine(c)
  /\ Goto(c, IF Eof(c) THEN "leave" ELSE "lock")
  /\ UNCHANGED <<proc, heard, listVars, mutx, memcount, rnum, next>>

Lock(c) ==
  /\ tpc[c] = "lock"
  /\ mutx = NoConn
  /\ mutx' = c
  /\ next' = [next EXCEPT ![c] = 0]
  /\ Goto(c, "send")
  /\ UNCHANGED <<proc, heard, listVars, memcount, rnum, taken>>

\* Variant: everybody on the list is sent the line.
AnyRoom(c, e) == e.who # c

ToBeSent(c, e) == e.who # c /\ e.room = rnum[c]

SendNext(c) ==
  /\ tpc[c] = "send" /\ next[c] < clnt_cnt
  /\ LET e == clnt_socks[next[c]] IN
       IF ToBeSent(c, e)
       THEN /\ WriteTo(e.who)
            /\ heard' = IF client[e.who] = "on"
                        THEN [heard EXCEPT ![e.who] =
                                Append(@, [from |-> c, n |-> taken[c]])]
                        ELSE heard
       ELSE UNCHANGED <<proc, heard>>
  /\ next' = [next EXCEPT ![c] = @ + 1]
  /\ UNCHANGED <<listVars, mutx, memcount, tpc, rnum, taken>>

Unlock(c) ==
  /\ tpc[c] = "send" /\ next[c] = clnt_cnt
  /\ mutx' = NoConn
  /\ Goto(c, "recv")
  /\ UNCHANGED <<proc, heard, listVars, memcount, rnum, taken, next>>

\* Variant: an if in place of the while.
ShiftsOnce(c, i) == EntryOf(c, i)

Shifts(c, i) == i < clnt_cnt /\ \E k \in 0..i : EntryOf(c, k)

\* The shift reads the entry at clnt_cnt too, and of a full list that one is
\* behind the array, where anything may stand.
Behind == [who : {NoConn}, room : Room \cup {NoRoom}]

\* clnt_socks[i][1] = clnt_socks[++i][1] is unsequenced: i on the left is the
\* old one, and the rooms move with the descriptors; or the new one, and they
\* stay where they are.
Removed(c, behind) ==
  LET following(i) == IF i + 1 < MAX_CLNT THEN clnt_socks[i + 1] ELSE behind
  IN  [i \in DOMAIN clnt_socks |->
         IF Shifts(c, i)
         THEN [who  |-> following(i).who,
               room |-> (IF lhsFirst THEN following(i) ELSE clnt_socks[i]).room]
         ELSE clnt_socks[i]]

Leave(c) ==
  /\ tpc[c] = "leave"
  /\ mutx = NoConn
  /\ \E behind \in Behind : clnt_socks' = Removed(c, behind)
  /\ clnt_cnt' = clnt_cnt - 1
  /\ Goto(c, "done")
  /\ UNCHANGED <<proc, heard, wasFull, mutx, memcount, rnum, taken, next>>

ThreadNext(c) ==
  /\ \/ SendList(c) \/ ReadChoice(c) \/ EnterRoom(c) \/ CountMember(c)
     \/ ReadName(c) \/ Recv(c) \/ Lock(c) \/ SendNext(c) \/ Unlock(c) \/ Leave(c)
  /\ UNCHANGED <<clientVars, mainVars>>

Next ==
  /\ proc = "up"
  /\ MainNext \/ \E c \in Conn : ThreadNext(c) \/ ClientNext(c)
  /\ UNCHANGED lhsFirst

Spec == Init /\ [][Next]_vars

-----------------------------------------------------------------------------
(* Properties. *)

Relaying == {"recv", "lock", "send", "leave"}

\* Connections with an entry: from Enlist to Leave.
Listed == {c \in Conn : tpc[c] \notin {"none", "done"}}

\* The list holds every connection that is served, once each, whatever was
\* chosen and whoever left: the shift and the decrement keep in step.
Directory ==
  /\ {clnt_socks[i].who : i \in 0..(clnt_cnt - 1)} = Listed
  /\ \A i, j \in 0..(clnt_cnt - 1) : clnt_socks[i].who = clnt_socks[j].who => i = j

Entered(c) == tpc[c] \in {"count", "name"} \cup Relaying /\ pick[c] \in Room

\* In a build that reads the left i first, a client that has entered a room
\* hears that room only, although entries move when others leave.
OwnRoomOnly ==
  [][\A d \in Conn :
       lhsFirst /\ Entered(d) /\ heard'[d] # heard[d] => rnum[d] = rnum[mutx]]_vars

\* In such a build everyone who has entered the room and is still there has
\* the line when send_msg gives the mutex back.
WholeRoom ==
  [][\A c \in Conn : lhsFirst /\ mutx = c /\ mutx' = NoConn =>
       \A d \in Conn \ {c} :
         Entered(d) /\ client[d] = "on" /\ rnum[d] = rnum[c] =>
           \E k \in 1..Len(heard[d]) : heard[d][k] = [from |-> c, n |-> taken[c]]]_vars

\* A client that has entered no room hears one all the same.  In such a build
\* it is room 0 only, whoever leaves, as long as the list has not been full:
\* no entry keeps a room for the next who gets it.
StrangersHearRoomZero ==
  [][\A d \in Conn :
       lhsFirst /\ ~wasFull /\ ~Entered(d) /\ heard'[d] # heard[d] =>
         rnum[mutx] = 0]_vars
=============================================================================
