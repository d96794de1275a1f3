-------------------------- MODULE ChatServerProofs --------------------------
(***************************************************************************)
(* Proofs about ChatServer, for any number of clients, threads and         *)
(* descriptors and any MAX_CLNT.  The first four theorems are about Spec,  *)
(* the program with the race on the threads' argument; the last two, that  *)
(* the list is exact and that the server implements the room, are about    *)
(* SpacedSpec, in which a thread copies its argument in time.              *)
(***************************************************************************)
EXTENDS ChatServer, FiniteSetTheorems, TLAPS

-----------------------------------------------------------------------------
(* The connections: every step of a client and every call of the server     *)
(* keeps their types.                                                       *)

LEMMA ClientType ==
  ASSUME SockTypeOK, ClientNext
  PROVE  SockTypeOK'
<1>1. PICK c \in Conn : \/ Connect(c) \/ ClientSend(c) \/ ClientRecv(c)
                        \/ Hangup(c) \/ ResetArrives(c)
  BY DEF ClientNext
<1>2. CASE Connect(c)
  BY <1>2 DEF SockTypeOK, Connect, PeerState
<1>3. CASE ClientSend(c)
  BY <1>3, SocketsAssumption DEF SockTypeOK, ClientSend
<1>4. CASE ClientRecv(c)
  BY <1>4, SocketsAssumption DEF SockTypeOK, ClientRecv
<1>5. CASE Hangup(c)
  BY <1>5, SocketsAssumption DEF SockTypeOK, Hangup, PeerState
<1>6. CASE ResetArrives(c)
  BY <1>6 DEF SockTypeOK, ResetArrives, PeerState
<1> QED BY <1>1, <1>2, <1>3, <1>4, <1>5, <1>6

LEMMA AcceptType ==
  ASSUME SockTypeOK, NEW c \in Conn, NEW f \in Fd, AcceptAs(c, f)
  PROVE  SockTypeOK'
BY DEF SockTypeOK, AcceptAs

LEMMA ReadType ==
  ASSUME SockTypeOK, NEW c \in Conn, Take(c) \/ TakeError(c)
  PROVE  SockTypeOK'
<1>1. CASE Take(c)
  BY <1>1, SocketsAssumption DEF SockTypeOK, Take, HasData
<1>2. CASE TakeError(c)
  BY <1>2 DEF SockTypeOK, TakeError, PeerState
<1> QED BY <1>1, <1>2

LEMMA WriteType ==
  ASSUME SockTypeOK, NEW c \in Conn, NEW m \in Msg, Write(c, m)
  PROVE  SockTypeOK'
<1>1. CASE peer[c] = "open"
  <2>1. inbox' = [inbox EXCEPT ![c] = Append(@, m)] /\ inbox[c] \in Seq(Msg)
    BY <1>1 DEF SockTypeOK, Write
  <2>2. inbox' \in [Conn -> Seq(Msg)]
    BY <2>1 DEF SockTypeOK
  <2>3. unread' \in [Conn -> 0..SndBuf]
    BY <1>1, SocketsAssumption DEF SockTypeOK, Write
  <2> QED BY <1>1, <2>2, <2>3 DEF SockTypeOK, Write
<1>2. CASE peer[c] # "open"
  BY <1>2 DEF SockTypeOK, Write, PeerState
<1> QED BY <1>1, <1>2

LEMMA CloseType ==
  ASSUME SockTypeOK, NEW f, CloseFd(f)
  PROVE  SockTypeOK'
BY DEF SockTypeOK, CloseFd

LEMMA AtType ==
  ASSUME SockTypeOK, NEW f, At(f) # NoConn
  PROVE  f \in Fd /\ At(f) \in Conn
BY DEF SockTypeOK, At

LEMMA NextMsgType ==
  ASSUME SockTypeOK, NEW c \in Conn, HasData(c)
  PROVE  NextMsg(c) \in Msg
BY SocketsAssumption DEF SockTypeOK, HasData, NextMsg, Msg

-----------------------------------------------------------------------------
(* Types, and the count of clients that types rest on. *)

\* A thread reads from a connection.
Reading == \A t \in Thread : tpc[t] = "recv" => tsrc[t] \in Conn

TypeInv == TypeOK /\ Accounting /\ Reading

\* A step that keeps the connections typed and changes no server variable.
LEMMA SameServerType ==
  ASSUME TypeInv, SockTypeOK', ServerUnchanged
  PROVE  TypeInv'
BY DEF TypeInv, TypeOK, Accounting, Counted, Reading, ServerUnchanged,
       mainVars, listVars, threadVars

LEMMA CountedFinite ==
  IsFiniteSet(Counted) /\ Cardinality(Counted) \in Nat
BY ChatServerAssumption, FS_Subset, FS_CardinalityType DEF Counted

LEMMA InitType == Init => TypeInv
<1> SUFFICES ASSUME Init PROVE TypeInv
  OBVIOUS
<1>1. SockTypeOK
  BY SocketsAssumption DEF Init, SockInit, SockTypeOK, PeerState
<1>2. Counted = {}
  BY DEF Init, Counted
<1>3. Accounting
  BY <1>2, FS_EmptySet DEF Init, Accounting
<1>4. TypeOK
  BY <1>1, ChatServerAssumption DEF Init, TypeOK, Index, ThreadPc
<1> QED BY <1>3, <1>4 DEF Init, TypeInv, Reading

LEMMA AcceptTypeInv ==
  ASSUME TypeInv, Accept
  PROVE  TypeInv'
<1>1. SockTypeOK'
  BY AcceptType DEF Accept, TypeInv, TypeOK, SockTypeOK, sockVars
<1>2. TypeOK'
  BY <1>1 DEF Accept, TypeInv, TypeOK, listVars, threadVars, AcceptAs
<1>3. Accounting'
  BY DEF Accept, TypeInv, Accounting, Counted, listVars, threadVars
<1> QED BY <1>2, <1>3 DEF Accept, TypeInv, Reading, threadVars

LEMMA EnlistTypeInv ==
  ASSUME TypeInv, Enlist
  PROVE  TypeInv'
<1>1. SockTypeOK'
  BY DEF Enlist, TypeInv, TypeOK, SockTypeOK, sockVars
<1>2. TypeOK'
  BY <1>1, ChatServerAssumption
     DEF Enlist, TypeInv, TypeOK, listVars, threadVars, Index
<1>3. Accounting'
  BY CountedFinite
     DEF Enlist, TypeInv, TypeOK, Accounting, Counted, listVars, threadVars
<1> QED BY <1>2, <1>3 DEF Enlist, TypeInv, Reading, threadVars

LEMMA SpawnTypeInv ==
  ASSUME TypeInv, NEW t \in Thread, Spawn(t)
  PROVE  TypeInv'
<1>1. SockTypeOK'
  BY DEF Spawn, TypeInv, TypeOK, SockTypeOK, sockVars
<1>2. TypeOK'
  BY <1>1 DEF Spawn, Goto, TypeInv, TypeOK, listVars, ThreadPc
<1>3. Counted' = Counted \cup {t} /\ t \notin Counted
  BY DEF Spawn, Goto, Counted, TypeInv, TypeOK
<1>4. Cardinality(Counted') = Cardinality(Counted) + 1
  BY <1>3, CountedFinite, FS_AddElement
<1>5. Accounting'
  BY <1>4, CountedFinite DEF Spawn, TypeInv, Accounting, listVars
<1> QED BY <1>2, <1>5 DEF Spawn, Goto, TypeInv, TypeOK, Reading

\* Steps of a thread that keep it counted, and the list as it is.
LEMMA StillCounted ==
  ASSUME TypeInv, NEW t \in Counted, NEW pc, Goto(t, pc),
         pc \in {"start", "call", "recv", "lock", "send", "unlist"},
         UNCHANGED <<mpc, clnt_cnt>>
  PROVE  Accounting'
<1>1. Counted' = Counted
  BY DEF Goto, Counted, TypeInv, TypeOK
<1> QED BY <1>1 DEF Accounting, TypeInv

LEMMA StartTypeInv ==
  ASSUME TypeInv, NEW t \in Thread, Start(t)
  PROVE  TypeInv'
<1>1. SockTypeOK'
  BY DEF Start, TypeInv, TypeOK, SockTypeOK, sockVars
<1>2. TypeOK'
  BY <1>1 DEF Start, Goto, TypeInv, TypeOK, mainVars, listVars, ThreadPc
<1>3. Accounting'
  BY StillCounted DEF Start, mainVars, listVars, Counted
<1> QED BY <1>2, <1>3 DEF Start, Goto, TypeInv, TypeOK, Reading

LEMMA ReadCallTypeInv ==
  ASSUME TypeInv, NEW t \in Thread, ReadCall(t)
  PROVE  TypeInv'
<1>1. SockTypeOK'
  BY DEF ReadCall, TypeInv, TypeOK, SockTypeOK, sockVars
<1>2. At(tfd[t]) \in Conn \cup {NoConn}
  BY AtType DEF TypeInv, TypeOK
<1>3. tsrc' \in [Thread -> Conn \cup {NoConn}]
  BY <1>2 DEF ReadCall, TypeInv, TypeOK
<1>4. TypeOK'
  BY <1>1, <1>3
     DEF ReadCall, Goto, TypeInv, TypeOK, mainVars, listVars, ThreadPc
<1>5. Reading'
  BY <1>2 DEF ReadCall, Goto, TypeInv, TypeOK, Reading
<1>6. Accounting'
  BY StillCounted DEF ReadCall, mainVars, listVars, Counted
<1> QED BY <1>4, <1>5, <1>6 DEF TypeInv

LEMMA ReadReturnsTypeInv ==
  ASSUME TypeInv, NEW t \in Thread, ReadReturns(t)
  PROVE  TypeInv'
<1> USE DEF ReadReturns
<1>1. tsrc[t] \in Conn
  BY DEF TypeInv, Reading
<1>2. SockTypeOK'
  BY <1>1, ReadType DEF TypeInv, TypeOK, SockTypeOK, sockVars
<1>3. tmsg' \in [Thread -> Msg \cup {NoMsg}]
  BY <1>1, NextMsgType DEF TypeInv, TypeOK, Take
<1>4. TypeOK' /\ Reading'
  BY <1>2, <1>3
     DEF Goto, TypeInv, TypeOK, Reading, mainVars, listVars, ThreadPc
<1>5. Accounting'
  BY StillCounted DEF mainVars, listVars, Counted
<1> QED BY <1>4, <1>5 DEF TypeInv

LEMMA LockTypeInv ==
  ASSUME TypeInv, NEW t \in Thread, Lock(t)
  PROVE  TypeInv'
<1>1. SockTypeOK'
  BY DEF Lock, TypeInv, TypeOK, SockTypeOK, sockVars
<1>2. order' \in Seq(Msg)
  BY DEF Lock, TypeInv, TypeOK
<1>3. TypeOK'
  BY <1>1, <1>2 DEF Lock, Goto, TypeInv, TypeOK, mainVars, listVars, ThreadPc
<1>4. Accounting'
  BY StillCounted DEF Lock, mainVars, listVars, Counted
<1> QED BY <1>3, <1>4 DEF Lock, Goto, TypeInv, TypeOK, Reading

LEMMA SendNextTypeInv ==
  ASSUME TypeInv, NEW t \in Thread, SendNext(t)
  PROVE  TypeInv'
<1> DEFINE c == At(clnt_socks[ti[t]])
<1>1. SockTypeOK'
  <2>1. CASE Write(c, tmsg[t]) /\ c # NoConn /\ tmsg[t] # NoMsg
    <3>1. c \in Conn /\ tmsg[t] \in Msg
      BY <2>1, AtType DEF TypeInv, TypeOK
    <3> QED BY <2>1, <3>1, WriteType DEF TypeInv, TypeOK
  <2>2. CASE UNCHANGED sockVars
    BY <2>2 DEF TypeInv, TypeOK, SockTypeOK, sockVars
  <2> QED BY <2>1, <2>2 DEF SendNext
<1>2. ti' \in [Thread -> 0..MAX_CLNT]
  BY ChatServerAssumption DEF SendNext, LoopIsOver, TypeInv, TypeOK
<1>3. proc' \in {"up", "killed", "overrun"}
  BY DEF SendNext, TypeInv, TypeOK
<1>4. TypeOK'
  BY <1>1, <1>2, <1>3 DEF SendNext, TypeInv, TypeOK, mainVars, listVars
<1>5. Accounting'
  BY DEF SendNext, TypeInv, Accounting, Counted, mainVars, listVars
<1> QED BY <1>4, <1>5 DEF SendNext, TypeInv, Reading

LEMMA UnlockTypeInv ==
  ASSUME TypeInv, NEW t \in Thread, Unlock(t)
  PROVE  TypeInv'
<1>1. SockTypeOK'
  BY DEF Unlock, TypeInv, TypeOK, SockTypeOK, sockVars
<1>2. TypeOK'
  BY <1>1, ChatServerAssumption
     DEF Unlock, Goto, TypeInv, TypeOK, mainVars, listVars, ThreadPc, Released
<1>3. Accounting'
  BY StillCounted DEF Unlock, mainVars, listVars, Counted
<1> QED BY <1>2, <1>3 DEF Unlock, Goto, TypeInv, TypeOK, Reading

LEMMA UnlistTypeInv ==
  ASSUME TypeInv, NEW t \in Thread, Unlist(t)
  PROVE  TypeInv'
<1>1. SockTypeOK'
  BY DEF Unlist, TypeInv, TypeOK, SockTypeOK, sockVars
<1>2. clnt_socks' \in [Index -> Fd \cup {NoFd}]
  BY ChatServerAssumption
     DEF Unlist, Removed, ShiftedFrom, TypeInv, TypeOK, Index
<1>3. Counted' = Counted \ {t} /\ t \in Counted
  BY DEF Unlist, Goto, Counted, TypeInv, TypeOK
<1>4. Cardinality(Counted') = Cardinality(Counted) - 1 /\ IsFiniteSet(Counted')
  BY <1>3, CountedFinite, FS_RemoveElement
<1>5. Cardinality(Counted') \in Nat
  BY <1>4, FS_CardinalityType
<1>6. Accounting' /\ clnt_cnt' \in 0..MAX_CLNT
  BY <1>4, <1>5, CountedFinite, ChatServerAssumption
     DEF Unlist, CountedOff, TypeInv, TypeOK, Accounting, mainVars
<1>7. TypeOK'
  BY <1>1, <1>2, <1>6 DEF Unlist, Goto, TypeInv, TypeOK, mainVars, ThreadPc
<1> QED BY <1>6, <1>7 DEF Unlist, Goto, TypeInv, TypeOK, Reading

LEMMA CloseTypeInv ==
  ASSUME TypeInv, NEW t \in Thread, Close(t)
  PROVE  TypeInv'
<1>1. SockTypeOK'
  BY CloseType DEF Close, TypeInv, TypeOK
<1>2. TypeOK'
  BY <1>1 DEF Close, Goto, TypeInv, TypeOK, mainVars, listVars, ThreadPc
<1>3. Counted' = Counted
  BY DEF Close, Goto, Counted, TypeInv, TypeOK
<1>4. Accounting'
  BY <1>3 DEF Close, TypeInv, Accounting, mainVars, listVars
<1> QED BY <1>2, <1>4 DEF Close, Goto, TypeInv, TypeOK, Reading

LEMMA NextType == TypeInv /\ [Next]_vars => TypeInv'
<1> SUFFICES ASSUME TypeInv, [Next]_vars PROVE TypeInv'
  OBVIOUS
<1>1. CASE MainNext
  BY <1>1, AcceptTypeInv, EnlistTypeInv, SpawnTypeInv DEF MainNext
<1>2. CASE \E t \in Thread : ThreadNext(t)
  BY <1>2, StartTypeInv, ReadCallTypeInv, ReadReturnsTypeInv, LockTypeInv,
     SendNextTypeInv, UnlockTypeInv, UnlistTypeInv, CloseTypeInv
     DEF ThreadNext
<1>3. CASE ClientNext /\ ServerUnchanged
  BY <1>3, ClientType, SameServerType DEF TypeInv, TypeOK
<1>4. CASE UNCHANGED vars
  BY <1>4 DEF vars, sockVars, ServerUnchanged, TypeInv, TypeOK, SockTypeOK,
     Accounting, Counted, Reading, mainVars, listVars, threadVars
<1> QED BY <1>1, <1>2, <1>3, <1>4 DEF Next

LEMMA TypeInvariant == Spec => []TypeInv
BY InitType, NextType, PTL DEF Spec

\* Every variable keeps its type; the count in particular stays between zero
\* and MAX_CLNT although handle_clnt decrements it blindly.
THEOREM TypeCorrect == Spec => []TypeOK
<1>1. TypeInv => TypeOK
  BY DEF TypeInv
<1> QED BY <1>1, TypeInvariant, PTL

\* clnt_cnt is the number of clients enlisted and not yet counted off, even
\* when two threads work on one descriptor.
THEOREM CountIsExact == Spec => []Accounting
<1>1. TypeInv => Accounting
  BY DEF TypeInv
<1> QED BY <1>1, TypeInvariant, PTL

-----------------------------------------------------------------------------
(* No self-echo.  send_msg compares descriptors, so the argument is that a  *)
(* connection leads nowhere but to one descriptor, for good: a message is   *)
(* held by a thread whose descriptor is that of the sender, or has been     *)
(* closed, in which case the sender is behind no descriptor at all.         *)

\* Connection c has been accepted, and leads to f if to any descriptor.
OnlyAt(c, f) ==
  /\ peer[c] # "new"
  /\ c \notin backlog
  /\ \A g \in Fd : fdt[g] = c => g = f

NewIsNotInBacklog == \A c \in Conn : peer[c] = "new" => c \notin backlog
FdsAreDistinct == \A g \in Fd : fdt[g] # NoConn => OnlyAt(fdt[g], g)
ReadsOwnFd ==
  \A t \in Thread :
    tsrc[t] # NoConn => tpc[t] = "recv" /\ OnlyAt(tsrc[t], tfd[t])
RelaysOwnFd ==
  \A t \in Thread :
    tmsg[t] # NoMsg => tpc[t] \in {"lock", "send"}
                         /\ OnlyAt(tmsg[t].from, tfd[t])

EchoInv == /\ NewIsNotInBacklog /\ FdsAreDistinct
           /\ ReadsOwnFd /\ RelaysOwnFd /\ NoSelfEcho

\* What a step of any actor does to the connections.
LEMMA SocketSteps ==
  ASSUME TypeInv, Next
  PROVE  \/ ClientNext
         \/ \E c \in Conn, f \in Fd : AcceptAs(c, f)
         \/ \E f \in Fd \cup {NoFd} : CloseFd(f)
         \/ \E c \in Conn : Take(c) \/ TakeError(c)
         \/ \E c \in Conn, m \in Msg : Write(c, m)
         \/ UNCHANGED sockVars
<1>1. CASE MainNext
  BY <1>1 DEF MainNext, Accept, Enlist, Spawn
<1>2. ASSUME NEW t \in Thread, ThreadNext(t)
      PROVE  \/ \E f \in Fd \cup {NoFd} : CloseFd(f)
             \/ \E c \in Conn : Take(c) \/ TakeError(c)
             \/ \E c \in Conn, m \in Msg : Write(c, m)
             \/ UNCHANGED sockVars
  <2>1. CASE ReadReturns(t)
    BY <2>1 DEF ReadReturns, TypeInv, Reading
  <2>2. CASE SendNext(t)
    BY <2>2, AtType DEF SendNext, TypeInv, TypeOK
  <2>3. CASE Close(t)
    BY <2>3 DEF Close, TypeInv, TypeOK
  <2>4. CASE Start(t) \/ ReadCall(t) \/ Lock(t) \/ Unlock(t) \/ Unlist(t)
    BY <2>4 DEF Start, ReadCall, Lock, Unlock, Unlist
  <2> QED BY <1>2, <2>1, <2>2, <2>3, <2>4 DEF ThreadNext
<1> QED BY <1>1, <1>2 DEF Next

LEMMA OnlyAtStable ==
  ASSUME TypeInv, EchoInv, Next, NEW c \in Conn, NEW f, OnlyAt(c, f)
  PROVE  OnlyAt(c, f)'
<1> USE DEF OnlyAt, TypeInv, TypeOK, SockTypeOK
<1>1. CASE ClientNext
  <2>1. PICK d \in Conn : \/ Connect(d) \/ ClientSend(d) \/ ClientRecv(d)
                          \/ Hangup(d) \/ ResetArrives(d)
    BY <1>1 DEF ClientNext
  <2>2. CASE Connect(d)
    BY <2>2 DEF Connect
  <2>3. CASE ClientSend(d) \/ ClientRecv(d)
    BY <2>3 DEF ClientSend, ClientRecv
  <2>4. CASE Hangup(d) \/ ResetArrives(d)
    BY <2>4 DEF Hangup, ResetArrives
  <2> QED BY <2>1, <2>2, <2>3, <2>4
<1>2. ASSUME NEW d \in Conn, NEW g \in Fd, AcceptAs(d, g) PROVE OnlyAt(c, f)'
  BY <1>2 DEF AcceptAs
<1>3. ASSUME NEW g, CloseFd(g) PROVE OnlyAt(c, f)'
  BY <1>3, SocketsAssumption DEF CloseFd
<1>4. ASSUME NEW d \in Conn, Take(d) \/ TakeError(d) PROVE OnlyAt(c, f)'
  BY <1>4 DEF Take, TakeError
<1>5. ASSUME NEW d \in Conn, NEW m \in Msg, Write(d, m) PROVE OnlyAt(c, f)'
  BY <1>5 DEF Write
<1>6. CASE UNCHANGED sockVars
  BY <1>6 DEF sockVars
<1> QED BY SocketSteps, <1>1, <1>2, <1>3, <1>4, <1>5, <1>6

LEMMA BacklogStep ==
  ASSUME TypeInv, EchoInv, Next
  PROVE  NewIsNotInBacklog' /\ FdsAreDistinct'
<1> USE DEF TypeInv, TypeOK, SockTypeOK, EchoInv, NewIsNotInBacklog
<1>1. NewIsNotInBacklog'
  <2>1. CASE ClientNext
    <3>1. PICK d \in Conn : \/ Connect(d) \/ ClientSend(d) \/ ClientRecv(d)
                            \/ Hangup(d) \/ ResetArrives(d)
      BY <2>1 DEF ClientNext
    <3>2. CASE Connect(d)
      BY <3>2 DEF Connect
    <3>3. CASE ClientSend(d) \/ ClientRecv(d)
      BY <3>3 DEF ClientSend, ClientRecv
    <3>4. CASE Hangup(d) \/ ResetArrives(d)
      BY <3>4 DEF Hangup, ResetArrives
    <3> QED BY <3>1, <3>2, <3>3, <3>4
  <2>2. ASSUME NEW d \in Conn, NEW g \in Fd, AcceptAs(d, g)
        PROVE  NewIsNotInBacklog'
    BY <2>2 DEF AcceptAs
  <2>3. ASSUME NEW g, CloseFd(g) PROVE NewIsNotInBacklog'
    BY <2>3 DEF CloseFd
  <2>4. ASSUME NEW d \in Conn, Take(d) \/ TakeError(d)
        PROVE  NewIsNotInBacklog'
    BY <2>4 DEF Take, TakeError
  <2>5. ASSUME NEW d \in Conn, NEW m \in Msg, Write(d, m)
        PROVE  NewIsNotInBacklog'
    BY <2>5 DEF Write
  <2>6. CASE UNCHANGED sockVars
    BY <2>6 DEF sockVars
  <2> QED BY SocketSteps, <2>1, <2>2, <2>3, <2>4, <2>5, <2>6
<1>2. ASSUME NEW g \in Fd, fdt'[g] # NoConn PROVE OnlyAt(fdt[g], g)'
  <2>1. CASE fdt'[g] = fdt[g]
    BY <2>1, <1>2, OnlyAtStable DEF FdsAreDistinct
  <2>2. CASE fdt'[g] # fdt[g]
    <3>1. PICK d \in Conn : AcceptAs(d, g)
      <4>1. ASSUME NEW d \in Conn, NEW h \in Fd, AcceptAs(d, h)
            PROVE  h = g
        BY <4>1, <2>2 DEF AcceptAs
      <4>2. ASSUME NEW h, CloseFd(h) PROVE FALSE
        BY <4>2, <1>2, <2>2 DEF CloseFd
      <4>3. ASSUME ClientNext PROVE FALSE
        BY <4>3, <2>2 DEF ClientNext, Connect, ClientSend, ClientRecv, Hangup,
           ResetArrives
      <4>4. ASSUME NEW d \in Conn, Take(d) \/ TakeError(d) PROVE FALSE
        BY <4>4, <2>2 DEF Take, TakeError
      <4>5. ASSUME NEW d \in Conn, NEW m \in Msg, Write(d, m) PROVE FALSE
        BY <4>5, <2>2 DEF Write
      <4> QED BY SocketSteps, <4>1, <4>2, <4>3, <4>4, <4>5, <2>2 DEF sockVars
    <3> QED BY <3>1, SocketsAssumption DEF AcceptAs, OnlyAt, FdsAreDistinct
  <2> QED BY <2>1, <2>2
<1> QED BY <1>1, <1>2 DEF FdsAreDistinct

\* What a step of thread t does to the read or relay of any thread u.
LEMMA ThreadEchoStep ==
  ASSUME TypeInv, EchoInv, Next, NEW t \in Thread, ThreadNext(t)
  PROVE  ReadsOwnFd' /\ RelaysOwnFd'
<1> USE DEF TypeInv, TypeOK, EchoInv, ReadsOwnFd, RelaysOwnFd, Goto
<1>1. ASSUME NEW u \in Thread, tsrc'[u] # NoConn, tsrc[u] = tsrc'[u],
             tfd[u] = tfd'[u]
      PROVE  OnlyAt(tsrc[u], tfd[u])'
  BY <1>1, OnlyAtStable
<1>2. ASSUME NEW u \in Thread, tmsg'[u] # NoMsg, tmsg[u] = tmsg'[u],
             tfd[u] = tfd'[u]
      PROVE  OnlyAt(tmsg[u].from, tfd[u])'
  <2>1. tmsg[u].from \in Conn /\ OnlyAt(tmsg[u].from, tfd[u])
    BY <1>2 DEF Msg
  <2> QED BY <2>1, <1>2, OnlyAtStable
<1>3. CASE Start(t)
  BY <1>1, <1>2, <1>3 DEF Start
<1>4. CASE ReadCall(t)
  <2>1. ASSUME At(tfd[t]) # NoConn PROVE OnlyAt(At(tfd[t]), tfd[t])
    BY <2>1, AtType DEF At, FdsAreDistinct
  <2>2. ASSUME tsrc'[t] # NoConn
        PROVE  tpc'[t] = "recv" /\ OnlyAt(tsrc[t], tfd[t])'
    <3>1. tsrc'[t] = At(tfd[t]) /\ At(tfd[t]) # NoConn /\ tpc'[t] = "recv"
      BY <2>2, <1>4 DEF ReadCall
    <3> QED BY <3>1, <2>1, <1>4 DEF ReadCall, sockVars, OnlyAt
  <2>3. ReadsOwnFd'
    BY <1>1, <2>2, <1>4 DEF ReadCall
  <2>4. RelaysOwnFd'
    BY <1>2, <1>4 DEF ReadCall
  <2> QED BY <2>3, <2>4
<1>5. CASE ReadReturns(t)
  <2>1. tsrc[t] \in Conn /\ OnlyAt(tsrc[t], tfd[t])
    BY <1>5, SocketsAssumption DEF ReadReturns, Reading
  <2>2. ASSUME NEW c \in Conn, c = tsrc[t]
        PROVE  OnlyAt(c, tfd[t])'
    <3>1. OnlyAt(c, tfd[t]) /\ tfd' = tfd
      BY <2>1, <2>2, <1>5 DEF ReadReturns
    <3> QED BY <3>1, OnlyAtStable
  <2>3. ReadsOwnFd'
    BY <1>1, <1>5 DEF ReadReturns
  <2>4. RelaysOwnFd'
    <3>1. ASSUME NEW u \in Thread, tmsg'[u] # NoMsg
          PROVE  /\ tpc'[u] \in {"lock", "send"}
                 /\ OnlyAt(tmsg[u].from, tfd[u])'
      <4>1. CASE u # t
        BY <4>1, <3>1, <1>2, <1>5 DEF ReadReturns
      <4>2. CASE u = t /\ tmsg'[t] = NextMsg(tsrc[t]) /\ tpc'[t] = "lock"
        <5>1. tmsg'[t].from = tsrc[t]
          BY <4>2 DEF NextMsg
        <5> QED BY <5>1, <4>2, <2>1, <2>2
      <4>3. CASE u = t /\ tmsg' = tmsg
        BY <4>3, <3>1, <1>5 DEF ReadReturns
      <4> QED BY <4>1, <4>2, <4>3, <1>5 DEF ReadReturns
    <3> QED BY <3>1
  <2> QED BY <2>3, <2>4
<1>6. CASE Lock(t)
  BY <1>1, <1>2, <1>6 DEF Lock
<1>7. CASE SendNext(t)
  BY <1>1, <1>2, <1>7 DEF SendNext
<1>8. CASE Unlock(t)
  BY <1>1, <1>2, <1>8 DEF Unlock
<1>9. CASE Unlist(t)
  BY <1>1, <1>2, <1>9 DEF Unlist
<1>10. CASE Close(t)
  BY <1>1, <1>2, <1>10 DEF Close
<1> QED BY <1>3, <1>4, <1>5, <1>6, <1>7, <1>8, <1>9, <1>10 DEF ThreadNext

LEMMA OthersEchoStep ==
  ASSUME TypeInv, EchoInv, Next, MainNext \/ ServerUnchanged
  PROVE  ReadsOwnFd' /\ RelaysOwnFd'
<1> USE DEF TypeInv, TypeOK, EchoInv, ReadsOwnFd, RelaysOwnFd
<1>1. /\ UNCHANGED <<tfd, tsrc, tmsg>>
      /\ \A u \in Thread : tpc[u] # "none" => tpc'[u] = tpc[u]
  BY DEF MainNext, Accept, Enlist, Spawn, Goto, ServerUnchanged, threadVars
<1>2. ReadsOwnFd'
  BY <1>1, OnlyAtStable
<1>3. ASSUME NEW u \in Thread, tmsg[u] # NoMsg
      PROVE  OnlyAt(tmsg[u].from, tfd[u])'
  BY <1>1, <1>3, OnlyAtStable DEF Msg
<1>4. RelaysOwnFd'
  BY <1>1, <1>3
<1> QED BY <1>2, <1>4

LEMMA NoSelfEchoStep ==
  ASSUME TypeInv, EchoInv, Next
  PROVE  NoSelfEcho'
<1> USE DEF TypeInv, TypeOK, SockTypeOK, EchoInv
<1>1. CASE inbox' = inbox
  BY <1>1 DEF NoSelfEcho
<1>2. CASE inbox' # inbox
  <2>1. PICK t \in Thread : SendNext(t) /\ ~UNCHANGED sockVars
    <3>1. ~ClientNext
      BY <1>2 DEF ClientNext, Connect, ClientSend, ClientRecv, Hangup,
         ResetArrives
    <3>2. ~MainNext
      BY <1>2 DEF MainNext, Accept, Enlist, Spawn, AcceptAs, sockVars
    <3>3. ASSUME NEW t \in Thread, ThreadNext(t) PROVE SendNext(t)
      BY <3>3, <1>2 DEF ThreadNext, Start, ReadCall, ReadReturns, Lock, Unlock,
         Unlist, Close, CloseFd, Take, TakeError, sockVars
    <3> QED BY <3>1, <3>2, <3>3, <1>2 DEF Next, sockVars
  <2> DEFINE c == At(clnt_socks[ti[t]])
             m == tmsg[t]
  <2>2. /\ c \in Conn /\ m \in Msg /\ Write(c, m)
        /\ clnt_socks[ti[t]] \in Fd /\ clnt_socks[ti[t]] # tfd[t]
    BY <2>1, AtType DEF SendNext, IsOwnEntry
  <2>3. c # m.from
    <3>1. OnlyAt(m.from, tfd[t]) /\ m # NoMsg
      BY <2>1, <2>2 DEF SendNext, RelaysOwnFd, sockVars
    <3> QED BY <3>1, <2>2 DEF OnlyAt, At
  <2>4. inbox' = [inbox EXCEPT ![c] = Append(@, m)]
    BY <2>2, <1>2 DEF Write
  <2>5. ASSUME NEW d \in Conn, NEW k \in 1..Len(inbox'[d])
        PROVE  inbox'[d][k].from # d
    <3>1. CASE d # c
      BY <3>1, <2>4, <2>2 DEF NoSelfEcho
    <3>2. CASE d = c
      <4>1. inbox'[c] = Append(inbox[c], m) /\ inbox[c] \in Seq(Msg)
        BY <2>4, <2>2
      <4>2. CASE k = Len(inbox[c]) + 1
        <5>1. inbox'[c][k] = m
          BY <4>1, <4>2, <2>2
        <5> QED BY <5>1, <3>2, <2>3
      <4>3. CASE k \in 1..Len(inbox[c])
        <5>1. inbox'[c][k] = inbox[c][k]
          BY <4>1, <4>3, <2>2
        <5> QED BY <5>1, <4>3, <3>2, <2>2 DEF NoSelfEcho
      <4> QED BY <4>1, <4>2, <4>3, <3>2, <2>2
    <3> QED BY <3>1, <3>2
  <2> QED BY <2>5 DEF NoSelfEcho
<1> QED BY <1>1, <1>2

LEMMA EchoInvariant == Spec => []EchoInv
<1>1. Init => EchoInv
  BY DEF Init, SockInit, EchoInv, NewIsNotInBacklog, FdsAreDistinct,
     ReadsOwnFd, RelaysOwnFd, NoSelfEcho
<1>2. TypeInv /\ EchoInv /\ [Next]_vars => EchoInv'
  <2> SUFFICES ASSUME TypeInv, EchoInv, [Next]_vars PROVE EchoInv'
    OBVIOUS
  <2>1. CASE Next
    <3>1. ReadsOwnFd' /\ RelaysOwnFd'
      BY <2>1, ThreadEchoStep, OthersEchoStep DEF Next
    <3> QED BY <2>1, <3>1, BacklogStep, NoSelfEchoStep DEF EchoInv
  <2>2. CASE UNCHANGED vars
    BY <2>2 DEF vars, sockVars, threadVars, EchoInv, NewIsNotInBacklog,
       FdsAreDistinct, ReadsOwnFd, RelaysOwnFd, NoSelfEcho, OnlyAt
  <2> QED BY <2>1, <2>2
<1> QED BY <1>1, <1>2, TypeInvariant, PTL DEF Spec

\* No client is ever sent back what it wrote, whichever descriptors the
\* threads picked up and however often a number is closed and used again.
THEOREM NeverEchoed == Spec => []NoSelfEcho
<1>1. EchoInv => NoSelfEcho
  BY DEF EchoInv
<1> QED BY <1>1, EchoInvariant, PTL

-----------------------------------------------------------------------------
(* One order for all.  order lists the relays in the order they locked      *)
(* mutx.  Every inbox runs through order forwards, because whoever writes   *)
(* holds the mutex and so relays the last message of order.                 *)

MsgsTaken ==
  /\ \A k \in 1..Len(order) : order[k].n <= taken[order[k].from]
  /\ \A t \in Thread : tmsg[t] # NoMsg => tmsg[t].n <= taken[tmsg[t].from]

OrderedOnce == \A j, k \in 1..Len(order) : order[j] = order[k] => j = k

WaitingIsNew ==
  \A t \in Thread : tpc[t] = "lock" /\ tmsg[t] # NoMsg =>
    /\ \A k \in 1..Len(order) : order[k] # tmsg[t]
    /\ \A u \in Thread \ {t} : tmsg[u] # tmsg[t]

SenderIsLast ==
  \A t \in Thread : tpc[t] = "send" =>
    /\ mutx = t
    /\ tmsg[t] # NoMsg => Len(order) > 0 /\ order[Len(order)] = tmsg[t]

InboxInOrder ==
  \A c \in Conn :
    /\ \A i \in 1..Len(inbox[c]) :
         \E p \in 1..Len(order) : order[p] = inbox[c][i]
    /\ \A i, j \in 1..Len(inbox[c]) : \A p, q \in 1..Len(order) :
         i <= j /\ order[p] = inbox[c][i] /\ order[q] = inbox[c][j] => p <= q

OrderInv == /\ MsgsTaken /\ OrderedOnce /\ WaitingIsNew
            /\ SenderIsLast /\ InboxInOrder

\* A step that takes, orders and writes nothing, and starts no relay of data.
LEMMA QuietStep ==
  ASSUME TypeInv, OrderInv, UNCHANGED <<order, taken, inbox, tmsg, mutx>>,
         \A t \in Thread : tpc'[t] \in {"lock", "send"} =>
            tpc'[t] = tpc[t] \/ (tpc'[t] = "lock" /\ tmsg[t] = NoMsg)
  PROVE  OrderInv'
<1>1. MsgsTaken' /\ OrderedOnce' /\ InboxInOrder'
  BY DEF OrderInv, MsgsTaken, OrderedOnce, InboxInOrder
<1>2. WaitingIsNew'
  BY DEF OrderInv, WaitingIsNew
<1>3. SenderIsLast'
  BY DEF OrderInv, SenderIsLast
<1> QED BY <1>1, <1>2, <1>3 DEF OrderInv

LEMMA OrderType ==
  ASSUME TypeInv
  PROVE  \A k \in 1..Len(order) :
           /\ order[k] \in Msg /\ order[k].from \in Conn
           /\ order[k].n \in Nat
<1> SUFFICES ASSUME NEW k \in 1..Len(order)
             PROVE  /\ order[k] \in Msg /\ order[k].from \in Conn
                    /\ order[k].n \in Nat
  OBVIOUS
<1>1. order[k] \in Msg
  BY DEF TypeInv, TypeOK
<1> QED BY <1>1, SocketsAssumption DEF Msg

LEMMA TakeOrderStep ==
  ASSUME TypeInv, EchoInv, OrderInv, NEW t \in Thread, ReadReturns(t),
         Take(tsrc[t]), tmsg' = [tmsg EXCEPT ![t] = NextMsg(tsrc[t])],
         Goto(t, "lock")
  PROVE  OrderInv'
<1> DEFINE c == tsrc[t]
<1> USE DEF TypeInv, TypeOK, SockTypeOK, OrderInv
<1>1. c \in Conn /\ UNCHANGED <<order, inbox, mutx>>
  BY DEF ReadReturns, Reading, Take
<1>2. /\ taken[c] \in Nat
      /\ taken' = [taken EXCEPT ![c] = @ + 1]
      /\ \A d \in Conn : taken[d] \in Nat /\ taken[d] <= taken'[d]
  BY <1>1, SocketsAssumption DEF Take
<1>3. \A u \in Thread : tmsg[u] # NoMsg => tmsg[u].from \in Conn /\ tmsg[u].n \in Nat
  BY SocketsAssumption DEF Msg
<1>4. \A k \in 1..Len(order) : order[k].from \in Conn /\ order[k].n \in Nat
  BY OrderType
<1>5. /\ tmsg'[t].from = c /\ tmsg'[t].n = taken[c] + 1
      /\ \A u \in Thread \ {t} : tmsg'[u] = tmsg[u]
  BY DEF NextMsg
<1>6. MsgsTaken'
  <2>1. \A k \in 1..Len(order') : order'[k].n <= taken'[order'[k].from]
    BY <1>1, <1>2, <1>4 DEF MsgsTaken
  <2>2. ASSUME NEW u \in Thread, tmsg'[u] # NoMsg
        PROVE  tmsg'[u].n <= taken'[tmsg'[u].from]
    <3>1. CASE u = t
      BY <3>1, <1>1, <1>2, <1>5
    <3>2. CASE u # t
      BY <3>2, <2>2, <1>2, <1>3, <1>5 DEF MsgsTaken
    <3> QED BY <3>1, <3>2
  <2> QED BY <2>1, <2>2 DEF MsgsTaken
<1>7. WaitingIsNew'
  <2>1. \A k \in 1..Len(order) : order[k] # tmsg'[t]
    BY <1>2, <1>4, <1>5 DEF MsgsTaken
  <2>2. \A u \in Thread \ {t} : tmsg'[u] # tmsg'[t]
    <3>1. ASSUME NEW u \in Thread \ {t}, tmsg[u] = tmsg'[t] PROVE FALSE
      <4>1. CASE tmsg[u] = NoMsg
        BY <4>1, <3>1, <1>5, <1>2 DEF NoMsg
      <4>2. CASE tmsg[u] # NoMsg
        BY <4>2, <3>1, <1>5, <1>2, <1>3 DEF MsgsTaken
      <4> QED BY <4>1, <4>2
    <3> QED BY <3>1, <1>5
  <2>3. ASSUME NEW u \in Thread \ {t}, tpc'[u] = "lock", tmsg'[u] # NoMsg
        PROVE  /\ \A k \in 1..Len(order) : order[k] # tmsg'[u]
               /\ \A v \in Thread \ {u} : tmsg'[v] # tmsg'[u]
    BY <2>2, <2>3, <1>5 DEF WaitingIsNew, Goto
  <2> QED BY <2>1, <2>2, <2>3, <1>1 DEF WaitingIsNew
<1>8. SenderIsLast'
  BY <1>1, <1>5 DEF SenderIsLast, Goto
<1>9. OrderedOnce' /\ InboxInOrder'
  BY <1>1 DEF OrderedOnce, InboxInOrder
<1> QED BY <1>6, <1>7, <1>8, <1>9

LEMMA LockOrderStep ==
  ASSUME TypeInv, EchoInv, OrderInv, NEW t \in Thread, Lock(t)
  PROVE  OrderInv'
<1> USE DEF TypeInv, TypeOK, SockTypeOK, OrderInv, Lock
<1>1. UNCHANGED <<tmsg, taken, inbox>> /\ mutx' = t
  BY DEF sockVars
<1>2. \A u \in Thread : tpc[u] # "send"
  BY ChatServerAssumption DEF SenderIsLast, MutexIsFree
<1>3. CASE tmsg[t] = NoMsg
  <2>1. order' = order
    BY <1>3
  <2>2. SenderIsLast'
    BY <1>1, <1>2, <1>3 DEF SenderIsLast, Goto
  <2>3. WaitingIsNew'
    BY <2>1, <1>1 DEF WaitingIsNew, Goto
  <2> QED BY <2>1, <2>2, <2>3, <1>1 DEF MsgsTaken, OrderedOnce, InboxInOrder
<1>4. CASE tmsg[t] # NoMsg
  <2> DEFINE m == tmsg[t]
             L == Len(order)
  <2>1. /\ m \in Msg /\ L \in Nat
        /\ order' = Append(order, m) /\ Len(order') = L + 1
        /\ order'[L + 1] = m
        /\ \A k \in 1..L : order'[k] = order[k]
    BY <1>4
  <2>2. \A k \in 1..L : order[k] # m
    BY <1>4 DEF WaitingIsNew
  <2> HIDE DEF m, L
  <2>3. OrderedOnce'
    BY <2>1, <2>2 DEF OrderedOnce, L
  <2>4. MsgsTaken'
    BY <2>1, <1>1, <1>4 DEF MsgsTaken, L, m
  <2>5. WaitingIsNew'
    BY <2>1, <1>1, <1>4 DEF WaitingIsNew, Goto, L, m
  <2>6. SenderIsLast'
    BY <2>1, <1>1, <1>2 DEF SenderIsLast, Goto, m
  <2>7. ASSUME NEW c \in Conn, NEW i \in 1..Len(inbox[c])
        PROVE  /\ \E p \in 1..L : order[p] = inbox[c][i]
               /\ \A p \in 1..(L + 1) : order'[p] = inbox[c][i] =>
                     p \in 1..L /\ order[p] = inbox[c][i]
    <3>1. PICK p \in 1..L : order[p] = inbox[c][i]
      BY DEF InboxInOrder, L
    <3> QED BY <3>1, <2>1, <2>2
  <2>8. InboxInOrder'
    <3>1. ASSUME NEW c \in Conn, NEW i \in 1..Len(inbox[c])
          PROVE  \E p \in 1..Len(order') : order'[p] = inbox[c][i]
      BY <3>1, <2>7, <2>1
    <3>2. ASSUME NEW c \in Conn, NEW i \in 1..Len(inbox[c]),
                 NEW j \in 1..Len(inbox[c]),
                 NEW p \in 1..Len(order'), NEW q \in 1..Len(order'),
                 i <= j, order'[p] = inbox[c][i], order'[q] = inbox[c][j]
          PROVE  p <= q
      <4>1. p \in 1..L /\ order[p] = inbox[c][i]
        BY <3>2, <2>7, <2>1
      <4>2. q \in 1..L /\ order[q] = inbox[c][j]
        BY <3>2, <2>7, <2>1
      <4> QED BY <4>1, <4>2, <3>2 DEF InboxInOrder, L
    <3>3. inbox' = inbox
      BY <1>1
    <3> HIDE DEF TypeInv, TypeOK, SockTypeOK, OrderInv, Lock
    <3> QED BY <3>1, <3>2, <3>3 DEF InboxInOrder
  <2> QED BY <2>3, <2>4, <2>5, <2>6, <2>8
<1> QED BY <1>3, <1>4

LEMMA WriteOrderStep ==
  ASSUME TypeInv, EchoInv, OrderInv, NEW t \in Thread, SendNext(t)
  PROVE  OrderInv'
<1> USE DEF TypeInv, TypeOK, SockTypeOK, OrderInv, SendNext
<1> DEFINE c == At(clnt_socks[ti[t]])
           m == tmsg[t]
           L == Len(order)
<1>1. CASE UNCHANGED inbox
  BY <1>1, QuietStep DEF Write, sockVars
<1>2. CASE ~ UNCHANGED inbox
  <2>1. /\ c \in Conn /\ m \in Msg /\ m # NoMsg
        /\ inbox' = [inbox EXCEPT ![c] = Append(@, m)]
        /\ UNCHANGED <<order, taken, tmsg, mutx, tpc>>
    BY <1>2, AtType DEF Write, sockVars
  <2>2. L \in Nat /\ L > 0 /\ order[L] = m
    BY <2>1 DEF SenderIsLast
  <2>3. ASSUME NEW d \in Conn, NEW i \in 1..Len(inbox'[d])
        PROVE  \/ i \in 1..Len(inbox[d]) /\ inbox'[d][i] = inbox[d][i]
               \/ d = c /\ i = Len(inbox[c]) + 1 /\ inbox'[d][i] = m
    <3>1. CASE d # c
      BY <3>1, <2>1
    <3>2. CASE d = c
      <4>1. inbox'[c] = Append(inbox[c], m) /\ inbox[c] \in Seq(Msg)
        BY <2>1
      <4> QED BY <4>1, <3>2, <2>1
    <3> QED BY <3>1, <3>2
  <2>4. ASSUME NEW d \in Conn, NEW i \in 1..Len(inbox'[d])
        PROVE  \E p \in 1..L : order[p] = inbox'[d][i]
    <3>1. CASE i \in 1..Len(inbox[d]) /\ inbox'[d][i] = inbox[d][i]
      BY <3>1 DEF InboxInOrder
    <3>2. CASE inbox'[d][i] = m
      BY <3>2, <2>2
    <3> QED BY <3>1, <3>2, <2>3
  <2>5. ASSUME NEW d \in Conn, NEW i \in 1..Len(inbox'[d]),
               NEW j \in 1..Len(inbox'[d]), NEW p \in 1..L, NEW q \in 1..L,
               i <= j, order[p] = inbox'[d][i], order[q] = inbox'[d][j]
        PROVE  p <= q
    <3>1. CASE inbox'[d][j] = m
      <4>1. q = L
        <5>1. \A a, b \in 1..L : order[a] = order[b] => a = b
          BY DEF OrderedOnce
        <5>2. L \in 1..L
          BY <2>2
        <5>3. order[q] = order[L]
          BY <3>1, <2>2, <2>5
        <5> HIDE DEF TypeInv, TypeOK, SockTypeOK, OrderInv, SendNext, L, m, c
        <5> QED BY <2>5, <5>1, <5>2, <5>3
      <4> QED BY <4>1, <2>2
    <3>2. CASE inbox'[d][j] # m
      <4>1. j \in 1..Len(inbox[d]) /\ inbox'[d][j] = inbox[d][j]
        BY <3>2, <2>3
      <4>2. i \in 1..Len(inbox[d]) /\ inbox'[d][i] = inbox[d][i]
        BY <4>1, <2>3, <2>5
      <4> QED BY <4>1, <4>2, <2>5 DEF InboxInOrder
    <3> QED BY <3>1, <3>2
  <2>6. InboxInOrder'
    <3>1. order' = order
      BY <2>1
    <3> HIDE DEF TypeInv, TypeOK, SockTypeOK, OrderInv, SendNext, m, c
    <3> QED BY <3>1, <2>4, <2>5 DEF InboxInOrder
  <2>7. MsgsTaken' /\ OrderedOnce' /\ WaitingIsNew' /\ SenderIsLast'
    BY <2>1 DEF MsgsTaken, OrderedOnce, WaitingIsNew, SenderIsLast
  <2> QED BY <2>6, <2>7
<1> QED BY <1>1, <1>2

LEMMA UnlockOrderStep ==
  ASSUME TypeInv, EchoInv, OrderInv, NEW t \in Thread, Unlock(t)
  PROVE  OrderInv'
<1> USE DEF TypeInv, TypeOK, SockTypeOK, OrderInv, Unlock
<1>1. UNCHANGED <<order, taken, inbox>> /\ tmsg' = [tmsg EXCEPT ![t] = NoMsg]
  BY DEF sockVars
<1>2. \A u \in Thread \ {t} : tpc'[u] = tpc[u] /\ tpc[u] # "send"
  BY DEF SenderIsLast, Goto
<1>3. tpc'[t] = "call"
  BY DEF Goto
<1>4. MsgsTaken'
  BY <1>1 DEF MsgsTaken
<1>5. OrderedOnce' /\ InboxInOrder'
  BY <1>1 DEF OrderedOnce, InboxInOrder
<1>6. WaitingIsNew'
  BY <1>1, <1>2, <1>3 DEF WaitingIsNew
<1>7. SenderIsLast'
  BY <1>2, <1>3 DEF SenderIsLast
<1> QED BY <1>4, <1>5, <1>6, <1>7

LEMMA OrderStep ==
  ASSUME TypeInv, EchoInv, OrderInv, [Next]_vars
  PROVE  OrderInv'
<1> USE DEF TypeInv, TypeOK, Goto
<1>1. CASE MainNext
  BY <1>1, QuietStep DEF MainNext, Accept, Enlist, Spawn, AcceptAs, sockVars,
     threadVars
<1>2. ASSUME NEW t \in Thread, ThreadNext(t) PROVE OrderInv'
  <2>1. CASE ReadReturns(t)
    <3>1. tmsg[t] = NoMsg
      BY <2>1 DEF ReadReturns, EchoInv, RelaysOwnFd
    <3>2. CASE /\ Take(tsrc[t]) /\ Goto(t, "lock")
               /\ tmsg' = [tmsg EXCEPT ![t] = NextMsg(tsrc[t])]
      BY <2>1, <3>2, TakeOrderStep
    <3>3. CASE TakeError(tsrc[t]) /\ Goto(t, "lock") /\ UNCHANGED tmsg
      BY <2>1, <3>1, <3>3, QuietStep DEF ReadReturns, TakeError
    <3>4. CASE Goto(t, "unlist") /\ UNCHANGED <<sockVars, tmsg>>
      BY <2>1, <3>4, QuietStep DEF ReadReturns, sockVars
    <3> QED BY <2>1, <3>2, <3>3, <3>4 DEF ReadReturns
  <2>2. CASE Start(t)
    BY <2>2, QuietStep DEF Start, sockVars
  <2>3. CASE ReadCall(t)
    <3>1. tmsg[t] = NoMsg
      BY <2>3 DEF ReadCall, EchoInv, RelaysOwnFd
    <3> QED BY <2>3, <3>1, QuietStep DEF ReadCall, sockVars
  <2>4. CASE Unlist(t)
    BY <2>4, QuietStep DEF Unlist, sockVars
  <2>5. CASE Close(t)
    BY <2>5, QuietStep DEF Close, CloseFd
  <2> QED BY <1>2, <2>1, <2>2, <2>3, <2>4, <2>5, LockOrderStep, WriteOrderStep,
          UnlockOrderStep DEF ThreadNext
<1>3. CASE ClientNext /\ ServerUnchanged
  BY <1>3, QuietStep DEF ClientNext, Connect, ClientSend, ClientRecv, Hangup,
     ResetArrives, ServerUnchanged, threadVars
<1>4. CASE UNCHANGED vars
  BY <1>4, QuietStep DEF vars, sockVars, threadVars
<1> QED BY <1>1, <1>2, <1>3, <1>4 DEF Next

LEMMA OrderInvariant == Spec => []OrderInv
<1>1. Init => OrderInv
  BY DEF Init, SockInit, OrderInv, MsgsTaken, OrderedOnce, WaitingIsNew,
     SenderIsLast, InboxInOrder
<1>2. TypeInv /\ EchoInv /\ OrderInv /\ [Next]_vars => OrderInv'
  BY OrderStep
<1> QED BY <1>1, <1>2, TypeInvariant, EchoInvariant, PTL DEF Spec

\* Whatever two clients both see they see in one order, race or not.
THEOREM OneOrder == Spec => []SameOrder
<1>1. TypeInv /\ OrderInv => SameOrder
  <2> SUFFICES ASSUME TypeInv, OrderInv,
                      NEW a \in Conn, NEW b \in Conn,
                      NEW i \in 1..Len(inbox[a]), NEW j \in 1..Len(inbox[a]),
                      NEW k \in 1..Len(inbox[b]), NEW l \in 1..Len(inbox[b]),
                      i < j, inbox[a][i] = inbox[b][l],
                      inbox[a][j] = inbox[b][k], inbox[a][i] # inbox[a][j],
                      ~ (l < k)
               PROVE  FALSE
    BY DEF SameOrder
  <2>1. /\ InboxInOrder
        /\ Len(inbox[a]) \in Nat /\ Len(inbox[b]) \in Nat /\ Len(order) \in Nat
    BY DEF OrderInv, TypeInv, TypeOK, SockTypeOK
  <2>2. PICK p \in 1..Len(order) : order[p] = inbox[a][i]
    BY <2>1 DEF InboxInOrder
  <2>3. PICK q \in 1..Len(order) : order[q] = inbox[a][j]
    BY <2>1 DEF InboxInOrder
  <2>4. i <= j /\ k <= l
    BY <2>1
  <2>5. p <= q
    BY <2>1, <2>2, <2>3, <2>4 DEF InboxInOrder
  <2>6. q <= p
    BY <2>1, <2>2, <2>3, <2>4 DEF InboxInOrder
  <2>7. p = q
    BY <2>1, <2>5, <2>6
  <2> QED BY <2>2, <2>3, <2>7
<1> QED BY <1>1, TypeInvariant, OrderInvariant, PTL

-----------------------------------------------------------------------------
(* The list, when a thread copies its argument in time: every descriptor is *)
(* in one hand, main's or a thread's, from accept to close, and the list is *)
(* what the hands of the counted threads hold.                              *)

\* The descriptor a thread has, or is about to copy.
Hand(t) == IF tpc[t] = "start" THEN clnt_sock ELSE tfd[t]

Holders == {t \in Thread : tpc[t] \notin {"none", "done"}}

OneStarts ==
  \A t \in Thread : tpc[t] = "start" =>
    mpc = "accept" /\ \A u \in Thread \ {t} : tpc[u] # "start"

HandsApart ==
  \A t, u \in Holders : Hand(t) = Hand(u) /\ Hand(t) # NoFd => t = u

HandsOpen == \A t \in Holders : Hand(t) # NoFd => At(Hand(t)) # NoConn

MainsOwn ==
  mpc \in {"enlist", "spawn"} /\ clnt_sock # NoFd =>
    At(clnt_sock) # NoConn /\ \A t \in Holders : Hand(t) # clnt_sock

\* Only a thread that has a descriptor reads, and so leaves.
ReadersHaveFds == \A t \in Thread : tpc[t] \in {"recv", "unlist", "close"} => tfd[t] # NoFd

EntriesApart ==
  \A i, j \in 0..(clnt_cnt - 1) : clnt_socks[i] = clnt_socks[j] /\ clnt_socks[i] # NoFd => i = j

HandsListed ==
  /\ \A i \in 0..(clnt_cnt - 1) :
       \/ \E t \in Counted : clnt_socks[i] = Hand(t)
       \/ mpc = "spawn" /\ clnt_socks[i] = clnt_sock
  /\ \A t \in Counted : \E i \in 0..(clnt_cnt - 1) : clnt_socks[i] = Hand(t)
  /\ mpc = "spawn" => \E i \in 0..(clnt_cnt - 1) : clnt_socks[i] = clnt_sock

ListInv == /\ OneStarts /\ HandsApart /\ HandsOpen /\ MainsOwn
           /\ ReadersHaveFds /\ EntriesApart /\ HandsListed

(* The room.  A thread's connection is the one behind its descriptor, and   *)
(* everything taken from a connection is in order, but for what a thread    *)
(* waits to relay.                                                          *)

OwnConn ==
  \A t \in Thread :
    /\ tsrc[t] # NoConn => At(tfd[t]) = tsrc[t]
    /\ tmsg[t] # NoMsg => At(tfd[t]) = tmsg[t].from
    /\ tpc[t] = "unlist" => peer[At(tfd[t])] \notin {"new", "open"}
    /\ tpc[t] # "send" => ti[t] = 0

MutexIsSenders == mutx # NoThread => tpc[mutx] = "send"

Spoken(c) == {k \in 1..Len(order) : order[k].from = c}

Waiting(c) == {t \in Thread : tpc[t] = "lock" /\ tmsg[t] # NoMsg /\ tmsg[t].from = c}

\* What a client wrote is relayed in the order it wrote it, nothing left out.
NothingSkipped ==
  \A c \in Conn :
    /\ Waiting(c) = {} => Cardinality(Spoken(c)) = taken[c]
    /\ \A t \in Waiting(c) : tmsg[t].n = taken[c] /\ Cardinality(Spoken(c)) + 1 = taken[c]

RoomInv == OwnConn /\ MutexIsSenders /\ NothingSkipped

-----------------------------------------------------------------------------
(* The list stays exact. *)

LEMMA HandType ==
  ASSUME TypeInv
  PROVE  /\ \A t \in Thread : Hand(t) \in Fd \cup {NoFd}
         /\ Counted \subseteq Holders /\ Holders \subseteq Thread
         /\ clnt_cnt \in Nat /\ MAX_CLNT \in Nat /\ clnt_cnt <= MAX_CLNT
         /\ \A i \in 0..(clnt_cnt - 1) : i \in Index /\ clnt_socks[i] \in Fd \cup {NoFd}
<1>1. clnt_cnt \in 0..MAX_CLNT /\ MAX_CLNT \in Nat
  BY ChatServerAssumption DEF TypeInv, TypeOK
<1>2. \A i \in 0..(clnt_cnt - 1) : i \in Index
  BY <1>1 DEF Index
<1> QED BY <1>1, <1>2 DEF TypeInv, TypeOK, Hand, Counted, Holders

\* A step that passes no descriptor from hand to hand.
LEMMA HandsKept ==
  ASSUME TypeInv, ListInv, UNCHANGED <<clnt_socks, clnt_cnt, mpc, clnt_sock, fdt>>,
         \A t \in Thread :
           /\ tfd'[t] = tfd[t]
           /\ \/ tpc'[t] = tpc[t]
              \/ /\ tpc[t] \in {"call", "recv", "lock", "send"}
                 /\ tpc'[t] \in {"call", "recv", "lock", "send", "unlist"}
                 /\ tpc'[t] \in {"recv", "unlist"} => tfd[t] # NoFd
  PROVE  ListInv'
<1>1. \A t \in Thread : Hand(t)' = Hand(t)
  BY DEF Hand
<1>2. Holders' = Holders /\ Counted' = Counted
  BY DEF Holders, Counted
<1>3. \A t \in Thread : At(Hand(t))' = At(Hand(t))
  BY <1>1 DEF At
<1>4. HandsApart' /\ HandsOpen'
  BY <1>1, <1>2, <1>3, HandType DEF ListInv, HandsApart, HandsOpen
<1>5. MainsOwn' /\ EntriesApart'
  BY <1>1, <1>2, HandType DEF ListInv, MainsOwn, EntriesApart, At
<1>6. OneStarts' /\ ReadersHaveFds'
  BY DEF ListInv, OneStarts, ReadersHaveFds
<1>7. HandsListed'
  BY <1>1, <1>2, HandType DEF ListInv, HandsListed
<1> QED BY <1>4, <1>5, <1>6, <1>7 DEF ListInv

LEMMA AcceptList ==
  ASSUME TypeInv, ListInv, Accept, Spaced
  PROVE  ListInv'
<1>1. /\ mpc = "accept" /\ mpc' = "enlist" /\ UNCHANGED <<tpc, tfd, clnt_socks, clnt_cnt>>
      /\ \/ \E c \in Conn : AcceptAs(c, clnt_sock') /\ clnt_sock' \in Fd
         \/ clnt_sock' = NoFd /\ UNCHANGED sockVars
  BY DEF Accept, listVars, threadVars
<1>2. \A t \in Thread : tpc[t] # "start"
  BY <1>1 DEF Spaced
<1>3. Holders' = Holders /\ Counted' = Counted /\ \A t \in Thread : Hand(t)' = Hand(t)
  BY <1>1, <1>2 DEF Holders, Counted, Hand
<1>4. /\ \A g \in Fd \cup {NoFd} : At(g) # NoConn => At(g)' = At(g) /\ g # clnt_sock'
      /\ clnt_sock' # NoFd => At(clnt_sock)' # NoConn
  <2>1. CASE clnt_sock' = NoFd /\ UNCHANGED sockVars
    <3>1. fdt' = fdt
      BY <2>1 DEF sockVars
    <3> QED BY <2>1, <3>1, SocketsAssumption DEF At
  <2>2. ASSUME NEW c \in Conn, AcceptAs(c, clnt_sock'), clnt_sock' \in Fd
        PROVE  /\ \A g \in Fd \cup {NoFd} : At(g) # NoConn => At(g)' = At(g) /\ g # clnt_sock'
               /\ clnt_sock' # NoFd => At(clnt_sock)' # NoConn
    <3>1. PICK f \in Fd : f = clnt_sock'
      BY <2>2
    <3>2. fdt[f] = NoConn /\ fdt' = [fdt EXCEPT ![f] = c] /\ fdt \in [Fd -> Conn \cup {NoConn}]
      BY <2>2, <3>1 DEF AcceptAs, FreeFds, TypeInv, TypeOK, SockTypeOK
    <3>3. c # NoConn
      BY SocketsAssumption
    <3> QED BY <3>1, <3>2, <3>3 DEF At
  <2> QED BY <1>1, <2>1, <2>2
<1>5. HandsApart' /\ ReadersHaveFds' /\ EntriesApart' /\ OneStarts'
  BY <1>1, <1>2, <1>3, HandType DEF ListInv, HandsApart, ReadersHaveFds, EntriesApart, OneStarts
<1>6. HandsOpen'
  <2>1. ASSUME NEW t \in Holders, Hand(t) # NoFd PROVE At(Hand(t))' # NoConn
    <3>1. At(Hand(t)) # NoConn /\ Hand(t) \in Fd \cup {NoFd} /\ Hand(t)' = Hand(t)
      BY <1>3, <2>1, HandType DEF ListInv, HandsOpen
    <3>2. PICK g \in Fd \cup {NoFd} : g = Hand(t)
      BY <3>1
    <3>3. At(g)' # NoConn
      BY <1>4, <3>1, <3>2
    <3> QED BY <3>1, <3>2, <3>3 DEF At
  <2> QED BY <1>3, <2>1, HandType DEF HandsOpen
<1>7. MainsOwn'
  <2>1. ASSUME NEW t \in Holders, clnt_sock' # NoFd PROVE Hand(t) # clnt_sock'
    <3>1. CASE Hand(t) = NoFd
      BY <2>1, <3>1
    <3>2. CASE Hand(t) # NoFd
      <4>1. At(Hand(t)) # NoConn /\ Hand(t) \in Fd \cup {NoFd}
        BY <3>2, HandType DEF ListInv, HandsOpen
      <4> QED BY <1>4, <4>1
    <3> QED BY <3>1, <3>2
  <2> QED BY <1>3, <1>4, <2>1, HandType DEF MainsOwn
<1>8. HandsListed'
  BY <1>1, <1>3, HandType DEF ListInv, HandsListed
<1> QED BY <1>5, <1>6, <1>7, <1>8 DEF ListInv

LEMMA EnlistList ==
  ASSUME TypeInv, ListInv, Enlist
  PROVE  ListInv'
<1>1. mpc = "enlist" /\ UNCHANGED <<tpc, tfd, fdt, clnt_sock>>
  BY DEF Enlist, threadVars, sockVars
<1>2. /\ \A t \in Thread : tpc[t] # "start"
      /\ Holders' = Holders /\ Counted' = Counted /\ \A t \in Thread : Hand(t)' = Hand(t)
  BY <1>1 DEF ListInv, OneStarts, Holders, Counted, Hand
<1>3. CASE UNCHANGED <<mpc, listVars>>
  BY <1>1, <1>3, HandsKept DEF listVars
<1>4. CASE /\ clnt_cnt # MAX_CLNT /\ clnt_socks' = [clnt_socks EXCEPT ![clnt_cnt] = clnt_sock]
           /\ clnt_cnt' = clnt_cnt + 1 /\ mpc' = "spawn"
  <2>1. /\ clnt_cnt \in Index /\ clnt_cnt \in Nat
        /\ clnt_socks'[clnt_cnt] = clnt_sock
        /\ \A i \in 0..(clnt_cnt - 1) : clnt_socks'[i] = clnt_socks[i]
        /\ \A i \in 0..(clnt_cnt' - 1) : i \in 0..(clnt_cnt - 1) \/ i = clnt_cnt
        /\ clnt_cnt \in 0..(clnt_cnt' - 1) /\ 0..(clnt_cnt - 1) \subseteq 0..(clnt_cnt' - 1)
    <3>1. clnt_cnt \in 0..MAX_CLNT /\ MAX_CLNT \in Nat /\ clnt_cnt < MAX_CLNT
      BY <1>4, HandType DEF TypeInv, TypeOK
    <3>2. clnt_cnt \in Index
      BY <3>1 DEF Index
    <3>3. \A i \in 0..(clnt_cnt - 1) : i \in Index /\ i # clnt_cnt
      BY <3>1 DEF Index
    <3>4. /\ clnt_socks'[clnt_cnt] = clnt_sock
          /\ \A i \in 0..(clnt_cnt - 1) : clnt_socks'[i] = clnt_socks[i]
      BY <1>4, <3>2, <3>3 DEF TypeInv, TypeOK
    <3>5. /\ \A i \in 0..(clnt_cnt' - 1) : i \in 0..(clnt_cnt - 1) \/ i = clnt_cnt
          /\ clnt_cnt \in 0..(clnt_cnt' - 1) /\ 0..(clnt_cnt - 1) \subseteq 0..(clnt_cnt' - 1)
      BY <1>4, <3>1
    <3> QED BY <3>1, <3>2, <3>4, <3>5
  <2>2. \A i \in 0..(clnt_cnt - 1) : clnt_sock # NoFd => clnt_socks[i] # clnt_sock
    <3>1. \A i \in 0..(clnt_cnt - 1) : \E t \in Counted : clnt_socks[i] = Hand(t)
      BY <1>1 DEF ListInv, HandsListed
    <3>2. clnt_sock # NoFd => \A t \in Holders : Hand(t) # clnt_sock
      BY <1>1 DEF ListInv, MainsOwn
    <3> QED BY <3>1, <3>2, HandType
  <2>3. EntriesApart'
    <3>1. SUFFICES ASSUME NEW i \in 0..(clnt_cnt' - 1), NEW j \in 0..(clnt_cnt' - 1),
                          clnt_socks'[i] = clnt_socks'[j], clnt_socks'[i] # NoFd
                   PROVE  i = j
      BY DEF EntriesApart
    <3>2. CASE i \in 0..(clnt_cnt - 1) /\ j \in 0..(clnt_cnt - 1)
      BY <2>1, <3>1, <3>2 DEF ListInv, EntriesApart
    <3>3. CASE i = clnt_cnt /\ j \in 0..(clnt_cnt - 1)
      BY <2>1, <2>2, <3>1, <3>3
    <3>4. CASE j = clnt_cnt /\ i \in 0..(clnt_cnt - 1)
      BY <2>1, <2>2, <3>1, <3>4
    <3> QED BY <2>1, <3>2, <3>3, <3>4
  <2>4. HandsListed'
    <3>1. \A i \in 0..(clnt_cnt' - 1) :
             (\E t \in Counted : clnt_socks'[i] = Hand(t)) \/ clnt_socks'[i] = clnt_sock
      BY <1>1, <2>1 DEF ListInv, HandsListed
    <3>2. \A t \in Counted : \E i \in 0..(clnt_cnt' - 1) : clnt_socks'[i] = Hand(t)
      BY <2>1 DEF ListInv, HandsListed
    <3> QED BY <1>1, <1>2, <1>4, <2>1, <3>1, <3>2, HandType DEF HandsListed
  <2>5. HandsApart' /\ HandsOpen'
    BY <1>1, <1>2, HandType DEF ListInv, HandsApart, HandsOpen, At
  <2>6. MainsOwn'
    BY <1>1, <1>2, HandType DEF ListInv, MainsOwn, At
  <2>7. ReadersHaveFds' /\ OneStarts'
    BY <1>1, <1>2 DEF ListInv, ReadersHaveFds, OneStarts
  <2> QED BY <2>3, <2>4, <2>5, <2>6, <2>7 DEF ListInv
<1> QED BY <1>3, <1>4 DEF Enlist

LEMMA SpawnList ==
  ASSUME TypeInv, ListInv, NEW t \in Thread, Spawn(t)
  PROVE  ListInv'
<1>1. /\ mpc = "spawn" /\ mpc' = "accept" /\ tpc[t] = "none"
      /\ UNCHANGED <<tfd, fdt, clnt_sock, clnt_socks, clnt_cnt>>
      /\ tpc'[t] = "start" /\ \A u \in Thread \ {t} : tpc'[u] = tpc[u]
  BY DEF Spawn, Goto, TypeInv, TypeOK, listVars, sockVars
<1>2. /\ \A u \in Thread : tpc[u] # "start"
      /\ Holders' = Holders \cup {t} /\ Counted' = Counted \cup {t} /\ t \notin Holders
      /\ \A u \in Holders : Hand(u)' = Hand(u)
      /\ Hand(t)' = clnt_sock
  BY <1>1 DEF ListInv, OneStarts, Holders, Counted, Hand
<1>3. clnt_sock # NoFd => At(clnt_sock) # NoConn /\ \A u \in Holders : Hand(u) # clnt_sock
  BY <1>1 DEF ListInv, MainsOwn
<1>4. OneStarts' /\ MainsOwn' /\ ReadersHaveFds' /\ EntriesApart'
  BY <1>1, <1>2 DEF ListInv, OneStarts, MainsOwn, ReadersHaveFds, EntriesApart
<1>5. HandsApart'
  BY <1>2, <1>3 DEF ListInv, HandsApart
<1>6. HandsOpen'
  BY <1>1, <1>2, <1>3 DEF ListInv, HandsOpen, At
<1>7. HandsListed'
  <2>1. ASSUME NEW i \in 0..(clnt_cnt - 1) PROVE \E u \in Counted' : clnt_socks[i] = Hand(u)'
    <3>1. CASE clnt_socks[i] = clnt_sock
      BY <1>2, <3>1
    <3>2. CASE \E u \in Counted : clnt_socks[i] = Hand(u)
      BY <1>2, <3>2, HandType
    <3> QED BY <1>1, <3>1, <3>2 DEF ListInv, HandsListed
  <2>2. ASSUME NEW u \in Counted' PROVE \E i \in 0..(clnt_cnt - 1) : clnt_socks[i] = Hand(u)'
    <3>1. CASE u = t
      BY <1>1, <1>2, <3>1 DEF ListInv, HandsListed
    <3>2. CASE u \in Counted
      BY <1>2, <3>2, HandType DEF ListInv, HandsListed
    <3> QED BY <1>2, <3>1, <3>2
  <2> QED BY <1>1, <2>1, <2>2 DEF HandsListed
<1> QED BY <1>4, <1>5, <1>6, <1>7 DEF ListInv

LEMMA StartList ==
  ASSUME TypeInv, ListInv, NEW t \in Thread, Start(t)
  PROVE  ListInv'
<1>1. /\ tpc[t] = "start" /\ tpc'[t] = "call" /\ tfd'[t] = clnt_sock
      /\ \A u \in Thread \ {t} : tpc'[u] = tpc[u] /\ tfd'[u] = tfd[u]
      /\ UNCHANGED <<mpc, fdt, clnt_sock, clnt_socks, clnt_cnt>>
  BY DEF Start, Goto, TypeInv, TypeOK, listVars, mainVars, sockVars
<1>2. /\ \A u \in Thread : Hand(u)' = Hand(u)
      /\ Holders' = Holders /\ Counted' = Counted
  BY <1>1 DEF Hand, Holders, Counted
<1>3. HandsApart' /\ HandsOpen' /\ MainsOwn' /\ EntriesApart'
  BY <1>1, <1>2, HandType DEF ListInv, HandsApart, HandsOpen, MainsOwn, EntriesApart, At
<1>4. OneStarts' /\ ReadersHaveFds'
  BY <1>1 DEF ListInv, OneStarts, ReadersHaveFds
<1>5. HandsListed'
  BY <1>1, <1>2, HandType DEF ListInv, HandsListed
<1> QED BY <1>3, <1>4, <1>5 DEF ListInv

\* The shift leaves out the one entry that was looked for.
LEMMA RemovedEntry ==
  ASSUME TypeInv, ListInv, NEW k \in 0..(clnt_cnt - 1), clnt_socks[k] # NoFd,
         NEW i \in 0..(clnt_cnt - 2)
  PROVE  Removed(clnt_socks[k])[i] = IF i < k THEN clnt_socks[i] ELSE clnt_socks[i + 1]
<1> DEFINE f == clnt_socks[k]
<1>1. clnt_cnt \in Nat /\ k \in Index /\ i \in Index /\ i < clnt_cnt - 1 /\ k < clnt_cnt
  <2>1. i \in 0..(clnt_cnt - 1)
    BY HandType
  <2> QED BY <2>1, HandType
<1>2. Places(f) = {k}
  <2>1. \A j \in Places(f) : j \in 0..(clnt_cnt - 1) /\ clnt_socks[j] = f
    BY <1>1 DEF Places, Index
  <2>2. \A j \in Places(f) : j = k
    BY <2>1 DEF ListInv, EntriesApart
  <2>3. k \in Places(f)
    BY <1>1 DEF Places
  <2> QED BY <2>2, <2>3
<1>3. FirstPlace(f) = k
  <2>1. \E j \in Places(f) : \A l \in Places(f) : j <= l
    BY <1>1, <1>2
  <2>2. FirstPlace(f) \in Places(f)
    BY <2>1 DEF FirstPlace
  <2> QED BY <1>2, <2>2
<1>4. Removed(f) = ShiftedFrom(k)
  BY <1>2, <1>3 DEF Removed
<1>5. ShiftedFrom(k)[i] = IF k <= i THEN clnt_socks[i + 1] ELSE clnt_socks[i]
  BY <1>1 DEF ShiftedFrom
<1>6. k <= i <=> ~(i < k)
  BY <1>1
<1> QED BY <1>4, <1>5, <1>6

LEMMA UnlistList ==
  ASSUME TypeInv, ListInv, NEW t \in Thread, Unlist(t)
  PROVE  ListInv'
<1>1. /\ tpc[t] = "unlist" /\ tpc'[t] = "close" /\ \A u \in Thread \ {t} : tpc'[u] = tpc[u]
      /\ UNCHANGED <<tfd, fdt, mpc, clnt_sock>>
      /\ clnt_socks' = Removed(tfd[t]) /\ clnt_cnt' = clnt_cnt - 1
  BY DEF Unlist, Goto, TypeInv, TypeOK, sockVars, mainVars, CountedOff
<1>2. /\ \A u \in Thread : Hand(u)' = Hand(u)
      /\ Holders' = Holders /\ Counted' = Counted \ {t} /\ t \in Counted /\ t \in Holders
      /\ Hand(t) = tfd[t] /\ tfd[t] # NoFd
  BY <1>1 DEF ListInv, ReadersHaveFds, Hand, Holders, Counted
<1>3. PICK k \in 0..(clnt_cnt - 1) : clnt_socks[k] = tfd[t]
  BY <1>2 DEF ListInv, HandsListed
<1> DEFINE src(i) == IF i < k THEN i ELSE i + 1
<1>4. \A i \in 0..(clnt_cnt' - 1) :
        /\ src(i) \in 0..(clnt_cnt - 1) /\ src(i) # k /\ clnt_socks'[i] = clnt_socks[src(i)]
  <2>1. ASSUME NEW i \in 0..(clnt_cnt' - 1)
        PROVE  /\ src(i) \in 0..(clnt_cnt - 1) /\ src(i) # k
               /\ clnt_socks'[i] = clnt_socks[src(i)]
    <3>1. i \in 0..(clnt_cnt - 2)
      BY <1>1, HandType
    <3>2. clnt_socks'[i] = clnt_socks[src(i)]
      BY <1>1, <1>2, <1>3, <3>1, RemovedEntry
    <3>3. src(i) \in 0..(clnt_cnt - 1) /\ src(i) # k
      BY <3>1, HandType
    <3> QED BY <3>2, <3>3
  <2> QED BY <2>1
<1>5. \A j \in 0..(clnt_cnt - 1) : j # k =>
        \E i \in 0..(clnt_cnt' - 1) : src(i) = j
  <2>1. ASSUME NEW j \in 0..(clnt_cnt - 1), j # k
        PROVE  \E i \in 0..(clnt_cnt' - 1) : src(i) = j
    <3>1. CASE j < k
      <4>1. j \in 0..(clnt_cnt' - 1) /\ src(j) = j
        BY <1>1, <3>1, HandType
      <4> QED BY <4>1
    <3>2. CASE ~(j < k)
      <4>1. j - 1 \in 0..(clnt_cnt' - 1) /\ src(j - 1) = j
        BY <1>1, <2>1, <3>2, HandType
      <4> QED BY <4>1
    <3> QED BY <3>1, <3>2
  <2> QED BY <2>1
<1>6. \A i, j \in 0..(clnt_cnt' - 1) : src(i) = src(j) => i = j
  BY <1>1, HandType
<1>7. \A j \in 0..(clnt_cnt - 1) : clnt_socks[j] = tfd[t] => j = k
  BY <1>2, <1>3 DEF ListInv, EntriesApart
<1> HIDE DEF src
<1>8. EntriesApart'
  BY <1>4, <1>6 DEF ListInv, EntriesApart
<1>9. HandsListed'
  <2>1. ASSUME NEW i \in 0..(clnt_cnt' - 1)
        PROVE  \/ \E u \in Counted' : clnt_socks'[i] = Hand(u)'
               \/ mpc' = "spawn" /\ clnt_socks'[i] = clnt_sock'
    <3>1. clnt_socks'[i] = clnt_socks[src(i)] /\ clnt_socks'[i] # tfd[t]
      BY <1>4, <1>7
    <3>2. \/ \E u \in Counted : clnt_socks[src(i)] = Hand(u)
          \/ mpc = "spawn" /\ clnt_socks[src(i)] = clnt_sock
      BY <1>4 DEF ListInv, HandsListed
    <3> QED BY <1>1, <1>2, <3>1, <3>2, HandType
  <2>2. ASSUME NEW g, g # tfd[t], \E j \in 0..(clnt_cnt - 1) : clnt_socks[j] = g
        PROVE  \E i \in 0..(clnt_cnt' - 1) : clnt_socks'[i] = g
    <3>1. PICK j \in 0..(clnt_cnt - 1) : clnt_socks[j] = g /\ j # k
      BY <1>3, <2>2
    <3>2. PICK i \in 0..(clnt_cnt' - 1) : src(i) = j
      BY <1>5, <3>1
    <3> QED BY <1>4, <3>1, <3>2
  <2>3. ASSUME NEW u \in Counted' PROVE \E i \in 0..(clnt_cnt' - 1) : clnt_socks'[i] = Hand(u)'
    <3>1. u \in Counted /\ u \in Holders /\ u # t
      BY <1>2, HandType
    <3>2. Hand(u) # tfd[t] /\ Hand(u)' = Hand(u)
      BY <1>2, <3>1, HandType DEF ListInv, HandsApart
    <3>3. \E j \in 0..(clnt_cnt - 1) : clnt_socks[j] = Hand(u)
      BY <3>1 DEF ListInv, HandsListed
    <3> QED BY <2>2, <3>2, <3>3
  <2>4. ASSUME mpc = "spawn" PROVE \E i \in 0..(clnt_cnt' - 1) : clnt_socks'[i] = clnt_sock'
    <3>1. clnt_sock # tfd[t] /\ clnt_sock' = clnt_sock
      BY <1>1, <1>2, <2>4 DEF ListInv, MainsOwn
    <3>2. \E j \in 0..(clnt_cnt - 1) : clnt_socks[j] = clnt_sock
      BY <2>4 DEF ListInv, HandsListed
    <3> QED BY <2>2, <3>1, <3>2
  <2> QED BY <1>1, <2>1, <2>3, <2>4 DEF HandsListed
<1>10. HandsApart' /\ HandsOpen' /\ MainsOwn'
  BY <1>1, <1>2, HandType DEF ListInv, HandsApart, HandsOpen, MainsOwn, At
<1>11. OneStarts' /\ ReadersHaveFds'
  BY <1>1, <1>2 DEF ListInv, OneStarts, ReadersHaveFds
<1> QED BY <1>8, <1>9, <1>10, <1>11 DEF ListInv

LEMMA CloseList ==
  ASSUME TypeInv, ListInv, NEW t \in Thread, Close(t)
  PROVE  ListInv'
<1>1. /\ tpc[t] = "close" /\ tpc'[t] = "done" /\ tfd'[t] = NoFd
      /\ \A u \in Thread \ {t} : tpc'[u] = tpc[u] /\ tfd'[u] = tfd[u]
      /\ UNCHANGED <<mpc, clnt_sock, clnt_socks, clnt_cnt>>
  BY DEF Close, Goto, TypeInv, TypeOK, mainVars, listVars
<1>2. /\ Holders' = Holders \ {t} /\ t \in Holders /\ Counted' = Counted /\ t \notin Counted
      /\ \A u \in Thread \ {t} : Hand(u)' = Hand(u)
      /\ Hand(t) = tfd[t] /\ tfd[t] # NoFd
  BY <1>1 DEF ListInv, ReadersHaveFds, Hand, Holders, Counted
<1>3. \A g \in Fd \cup {NoFd} : g # tfd[t] => At(g)' = At(g)
  BY DEF Close, CloseFd, At, TypeInv, TypeOK, SockTypeOK
<1>4. ASSUME NEW u \in Holders \ {t}
      PROVE  Hand(u) # tfd[t] /\ Hand(u)' = Hand(u) /\ Hand(u) \in Fd \cup {NoFd}
  BY <1>2, HandType DEF ListInv, HandsApart
<1>5. HandsApart'
  BY <1>2, <1>4 DEF ListInv, HandsApart
<1>6. HandsOpen'
  <2>1. ASSUME NEW u \in Holders \ {t}, Hand(u) # NoFd PROVE At(Hand(u))' # NoConn
    <3>1. PICK g \in Fd \cup {NoFd} : g = Hand(u) /\ g = Hand(u)' /\ g # tfd[t]
      BY <1>4
    <3>2. At(g) # NoConn
      BY <2>1, <3>1 DEF ListInv, HandsOpen
    <3>3. At(g)' # NoConn
      BY <1>3, <3>1, <3>2
    <3> QED BY <3>1, <3>3 DEF At
  <2> QED BY <1>2, <1>4, <2>1 DEF HandsOpen
<1>7. MainsOwn'
  <2>1. SUFFICES ASSUME mpc \in {"enlist", "spawn"}, clnt_sock # NoFd
                 PROVE  At(clnt_sock)' # NoConn /\ \A u \in Holders \ {t} : Hand(u) # clnt_sock
    BY <1>1, <1>2, <1>4 DEF MainsOwn
  <2>2. At(clnt_sock) # NoConn /\ \A u \in Holders : Hand(u) # clnt_sock
    BY <2>1 DEF ListInv, MainsOwn
  <2>3. clnt_sock # tfd[t] /\ clnt_sock \in Fd \cup {NoFd} /\ clnt_sock' = clnt_sock
    BY <1>1, <1>2, <2>2 DEF TypeInv, TypeOK
  <2>4. PICK g \in Fd \cup {NoFd} : g = clnt_sock /\ g = clnt_sock'
    BY <2>3
  <2>5. At(g)' # NoConn
    BY <1>3, <2>2, <2>3, <2>4
  <2> QED BY <2>2, <2>4, <2>5 DEF At
<1>8. HandsListed'
  BY <1>1, <1>2, HandType DEF ListInv, HandsListed
<1>9. OneStarts' /\ ReadersHaveFds' /\ EntriesApart'
  BY <1>1 DEF ListInv, OneStarts, ReadersHaveFds, EntriesApart
<1> QED BY <1>5, <1>6, <1>7, <1>8, <1>9 DEF ListInv

LEMMA NextList ==
  ASSUME TypeInv, ListInv, [Next /\ Spaced]_vars
  PROVE  ListInv'
<1>1. CASE MainNext /\ Spaced
  BY <1>1, AcceptList, EnlistList, SpawnList DEF MainNext
<1>2. ASSUME NEW t \in Thread, ThreadNext(t) PROVE ListInv'
  <2>1. CASE ReadCall(t)
    <3>1. At(tfd[t]) # NoConn => tfd[t] # NoFd
      BY SocketsAssumption DEF At
    <3> QED BY <2>1, <3>1, HandsKept
            DEF ReadCall, Goto, TypeInv, TypeOK, sockVars, mainVars, listVars
  <2>2. CASE ReadReturns(t)
    <3>1. tfd[t] # NoFd /\ fdt' = fdt
      BY <2>2 DEF ReadReturns, ListInv, ReadersHaveFds, Take, TakeError, sockVars
    <3> QED BY <2>2, <3>1, HandsKept
            DEF ReadReturns, Goto, TypeInv, TypeOK, mainVars, listVars
  <2>3. CASE Lock(t)
    BY <2>3, HandsKept DEF Lock, Goto, TypeInv, TypeOK, sockVars, mainVars, listVars
  <2>4. CASE SendNext(t)
    <3>1. fdt' = fdt
      BY <2>4 DEF SendNext, Write, sockVars
    <3> QED BY <2>4, <3>1, HandsKept DEF SendNext, mainVars, listVars
  <2>5. CASE Unlock(t)
    BY <2>5, HandsKept DEF Unlock, Goto, TypeInv, TypeOK, sockVars, mainVars, listVars
  <2> QED BY <1>2, <2>1, <2>2, <2>3, <2>4, <2>5, StartList, UnlistList, CloseList
          DEF ThreadNext
<1>3. CASE ClientNext /\ ServerUnchanged
  <2>1. fdt' = fdt
    BY <1>3 DEF ClientNext, Connect, ClientSend, ClientRecv, Hangup, ResetArrives
  <2> QED BY <1>3, <2>1, HandsKept DEF ServerUnchanged, mainVars, listVars, threadVars
<1>4. CASE UNCHANGED vars
  BY <1>4, HandsKept DEF vars, sockVars, mainVars, listVars, threadVars
<1> QED BY <1>1, <1>2, <1>3, <1>4 DEF Next

LEMMA InitList == Init => ListInv
<1> SUFFICES ASSUME Init PROVE ListInv
  OBVIOUS
<1>1. Holders = {} /\ Counted = {} /\ mpc = "accept" /\ \A t \in Thread : tpc[t] = "none"
  BY DEF Init, Holders, Counted
<1>2. 0..(clnt_cnt - 1) = {}
  BY DEF Init
<1> QED BY <1>1, <1>2 DEF ListInv, OneStarts, HandsApart, HandsOpen, MainsOwn, ReadersHaveFds,
           EntriesApart, HandsListed

LEMMA SpacedInvariant == SpacedSpec => [](TypeInv /\ EchoInv /\ OrderInv /\ ListInv)
<1>1. [Next /\ Spaced]_vars => [Next]_vars
  OBVIOUS
<1>2. SpacedSpec => Spec
  BY <1>1, PTL DEF SpacedSpec, Spec
<1>3. TypeInv /\ ListInv /\ [Next /\ Spaced]_vars => ListInv'
  BY NextList
<1> QED BY <1>2, <1>3, InitList, TypeInvariant, EchoInvariant, OrderInvariant, PTL
        DEF SpacedSpec

\* What is listed is in a hand.
LEMMA ListedHands ==
  ASSUME TypeInv, ListInv
  PROVE  Listed = {Hand(t) : t \in Counted} \cup (IF mpc = "spawn" THEN {clnt_sock} ELSE {})
<1> DEFINE Hands == {Hand(t) : t \in Counted} \cup (IF mpc = "spawn" THEN {clnt_sock} ELSE {})
<1>1. Listed \subseteq Hands
  BY DEF Listed, ListInv, HandsListed
<1>2. ASSUME NEW g \in Hands PROVE g \in Listed
  BY <1>2 DEF Listed, ListInv, HandsListed
<1> QED BY <1>1, <1>2

\* What is listed is open.
LEMMA ListedOpen ==
  ASSUME TypeInv, ListInv, NEW f \in Listed \ {NoFd}
  PROVE  f \in Fd /\ At(f) = fdt[f] /\ fdt[f] \in Conn
<1>1. \A t \in Counted : Hand(t) # NoFd => At(Hand(t)) # NoConn
  BY HandType DEF ListInv, HandsOpen
<1>2. mpc = "spawn" /\ clnt_sock # NoFd => At(clnt_sock) # NoConn
  BY DEF ListInv, MainsOwn
<1>3. At(f) # NoConn
  BY <1>1, <1>2, ListedHands
<1> QED BY <1>3, AtType DEF At, TypeInv, TypeOK

\* If a thread copies its argument before the next accept returns, the list is
\* exact: no descriptor twice, and every one open and in the hand of a thread
\* that has not counted it off.
THEOREM ListIsExact == SpacedSpec => []Directory
<1>1. TypeInv /\ ListInv => Directory
  <2> SUFFICES ASSUME TypeInv, ListInv PROVE Directory
    OBVIOUS
  <2>1. \A t \in Thread : tpc[t] = "start" => t \in Counted
    BY DEF Counted
  <2>2. ASSUME NEW g \in Held PROVE g \in Listed
    <3>1. (\E t \in Counted : g = Hand(t)) \/ (mpc = "spawn" /\ g = clnt_sock)
      BY <2>1, <2>2 DEF Held, Hand
    <3> QED BY <3>1, ListedHands
  <2>3. ASSUME NEW g \in Listed PROVE g \in Held
    <3>1. (\E t \in Counted : g = Hand(t)) \/ (mpc = "spawn" /\ g = clnt_sock)
      BY <2>3, ListedHands
    <3> QED BY <3>1 DEF Held, Hand, Counted
  <2>4. \A f \in Listed \ {NoFd} : At(f) # NoConn
    BY ListedOpen, SocketsAssumption
  <2> QED BY <2>2, <2>3, <2>4 DEF Directory, ListInv, EntriesApart
<1> QED BY <1>1, SpacedInvariant, PTL
-----------------------------------------------------------------------------
(* What a client wrote is relayed, nothing skipped. *)

\* Two threads that have a descriptor of one connection are one thread.
LEMMA OneThreadEach ==
  ASSUME TypeInv, EchoInv, ListInv, NEW t \in Holders, NEW u \in Holders,
         tpc[t] # "start", tpc[u] # "start",
         At(tfd[t]) # NoConn, At(tfd[t]) = At(tfd[u])
  PROVE  t = u
<1>1. t \in Thread /\ u \in Thread /\ Hand(t) = tfd[t] /\ Hand(u) = tfd[u]
  BY DEF Hand, Holders
<1>2. tfd[t] \in Fd /\ tfd[u] \in Fd /\ fdt[tfd[t]] = fdt[tfd[u]] /\ fdt[tfd[t]] # NoConn
  BY DEF At
<1>3. tfd[u] = tfd[t] /\ tfd[t] # NoFd
  BY <1>2, SocketsAssumption DEF EchoInv, FdsAreDistinct, OnlyAt
<1> QED BY <1>1, <1>3 DEF ListInv, HandsApart

\* Only the thread itself takes its connection from its descriptor.
LEMMA ConnKept ==
  ASSUME TypeInv, ListInv, Next, NEW t \in Thread,
         tpc[t] \in {"call", "recv", "lock", "send", "unlist"}, At(tfd[t]) # NoConn
  PROVE  tfd'[t] = tfd[t] /\ At(tfd[t])' = At(tfd[t])
<1>1. tfd'[t] = tfd[t]
  BY DEF Next, MainNext, Accept, Enlist, Spawn, ThreadNext, Start, ReadCall, ReadReturns, Lock,
     SendNext, Unlock, Unlist, Close, ServerUnchanged, threadVars, TypeInv, TypeOK
<1>2. tfd[t] \in Fd /\ fdt[tfd[t]] # NoConn
  BY DEF At
<1>3. PICK f \in Fd : f = tfd[t]
  BY <1>2
<1>4. fdt'[f] = fdt[f]
  <2>1. CASE fdt' = fdt
    BY <2>1
  <2>2. ASSUME NEW c \in Conn, NEW g \in Fd, AcceptAs(c, g) PROVE fdt'[f] = fdt[f]
    BY <1>2, <1>3, <2>2 DEF AcceptAs, FreeFds, TypeInv, TypeOK, SockTypeOK
  <2>3. ASSUME NEW u \in Thread, Close(u) PROVE fdt'[f] = fdt[f]
    <3>1. t \in Holders /\ u \in Holders /\ Hand(t) = f /\ Hand(u) = tfd[u] /\ t # u
      BY <1>3, <2>3 DEF Holders, Hand, Close
    <3>2. f # tfd[u]
      BY <3>1, SocketsAssumption DEF ListInv, HandsApart
    <3> QED BY <2>3, <3>2 DEF Close, CloseFd, TypeInv, TypeOK, SockTypeOK
  <2> QED BY <2>1, <2>2, <2>3
          DEF Next, MainNext, Accept, Enlist, Spawn, ThreadNext, Start, ReadCall, ReadReturns,
          Lock, SendNext, Unlock, Unlist, ClientNext, Connect, ClientSend, ClientRecv, Hangup,
          ResetArrives, Take, TakeError, Write, sockVars
<1> QED BY <1>1, <1>3, <1>4 DEF At

\* Who has hung up stays gone.
LEMMA GoneForGood ==
  ASSUME TypeInv, Next, NEW c \in Conn, peer[c] \notin {"new", "open"}
  PROVE  peer'[c] \notin {"new", "open"}
<1> USE DEF TypeInv, TypeOK, SockTypeOK
<1>1. CASE ClientNext
  BY <1>1 DEF ClientNext, Connect, ClientSend, ClientRecv, Hangup, ResetArrives
<1>2. ASSUME NEW d \in Conn, Take(d) \/ TakeError(d) PROVE peer'[c] \notin {"new", "open"}
  BY <1>2 DEF Take, TakeError
<1>3. ASSUME NEW d \in Conn, NEW m \in Msg, Write(d, m) PROVE peer'[c] \notin {"new", "open"}
  BY <1>3 DEF Write
<1>4. CASE UNCHANGED peer
  BY <1>4
<1> QED BY <1>1, <1>2, <1>3, <1>4, SocketSteps DEF AcceptAs, CloseFd, sockVars

LEMMA OwnConnStep ==
  ASSUME TypeInv, EchoInv, OrderInv, ListInv, RoomInv, Next
  PROVE  OwnConn' /\ MutexIsSenders'
<1> USE DEF TypeInv, TypeOK
<1> DEFINE Own(u) ==
      /\ tsrc[u] # NoConn => At(tfd[u]) = tsrc[u]
      /\ tmsg[u] # NoMsg => At(tfd[u]) = tmsg[u].from
      /\ tpc[u] = "unlist" => peer[At(tfd[u])] \notin {"new", "open"}
      /\ tpc[u] # "send" => ti[u] = 0
<1>1. \A u \in Thread : Own(u)
  BY DEF RoomInv, OwnConn
<1>2. ASSUME NEW u \in Thread, tsrc'[u] = tsrc[u], tmsg'[u] = tmsg[u], ti'[u] = ti[u],
             \/ tpc'[u] = tpc[u]
             \/ tpc'[u] # "unlist" /\ tpc[u] # "send"
      PROVE  Own(u)'
  <2>1. tsrc[u] # NoConn => tpc[u] = "recv" /\ At(tfd[u]) = tsrc[u]
    BY <1>1 DEF EchoInv, ReadsOwnFd
  <2>2. tmsg[u] # NoMsg => tpc[u] \in {"lock", "send"} /\ At(tfd[u]) = tmsg[u].from
                              /\ tmsg[u].from # NoConn
    BY <1>1, SocketsAssumption DEF EchoInv, RelaysOwnFd, Msg
  <2>3. tsrc'[u] # NoConn => At(tfd[u])' = tsrc'[u]
    BY <1>2, <2>1, ConnKept
  <2>4. tmsg'[u] # NoMsg => At(tfd[u])' = tmsg'[u].from
    BY <1>2, <2>2, ConnKept
  <2>5. ASSUME tpc'[u] = "unlist" PROVE peer'[At(tfd[u])'] \notin {"new", "open"}
    <3>1. tpc[u] = "unlist" /\ u \in Holders /\ Hand(u) = tfd[u]
      BY <1>2, <2>5 DEF Holders, Hand
    <3>2. At(tfd[u]) # NoConn
      BY <3>1 DEF ListInv, HandsOpen, ReadersHaveFds
    <3>3. PICK c \in Conn : c = At(tfd[u]) /\ peer[c] \notin {"new", "open"}
      BY <1>1, <3>1, <3>2, AtType
    <3>4. c = At(tfd[u])'
      BY <3>1, <3>2, <3>3, ConnKept
    <3> QED BY <3>3, <3>4, GoneForGood
  <2>6. tpc'[u] # "send" => ti'[u] = 0
    BY <1>1, <1>2
  <2> QED BY <2>3, <2>4, <2>5, <2>6
<1>3. MutexIsSenders
  BY DEF RoomInv
<1>4. CASE MainNext \/ ServerUnchanged
  <2>1. /\ UNCHANGED <<tsrc, tmsg, ti, mutx>>
        /\ \A u \in Thread : \/ tpc'[u] = tpc[u]
                             \/ tpc'[u] = "start" /\ tpc[u] = "none"
    <3>1. CASE UNCHANGED threadVars /\ mutx' = mutx
      BY <3>1 DEF threadVars
    <3>2. ASSUME NEW t \in Thread, Spawn(t)
          PROVE  /\ UNCHANGED <<tsrc, tmsg, ti, mutx>>
                 /\ \A u \in Thread : \/ tpc'[u] = tpc[u]
                                      \/ tpc'[u] = "start" /\ tpc[u] = "none"
      BY <3>2 DEF Spawn, Goto
    <3> QED BY <1>4, <3>1, <3>2 DEF MainNext, Accept, Enlist, ServerUnchanged
  <2> HIDE DEF Own
  <2>2. \A u \in Thread : Own(u)'
    BY <1>2, <2>1
  <2>3. MutexIsSenders'
    BY <1>3, <2>1 DEF MutexIsSenders
  <2> QED BY <2>2, <2>3 DEF OwnConn, Own
<1>5. ASSUME NEW t \in Thread, ThreadNext(t) PROVE OwnConn' /\ MutexIsSenders'
  <2>1. \A u \in Thread \ {t} : /\ tsrc'[u] = tsrc[u] /\ tmsg'[u] = tmsg[u]
                                /\ ti'[u] = ti[u] /\ tpc'[u] = tpc[u]
    BY <1>5 DEF ThreadNext, Start, ReadCall, ReadReturns, Lock, SendNext, Unlock, Unlist, Close, Goto
  <2>2. \A u \in Thread \ {t} : Own(u)'
    <3> HIDE DEF Own
    <3> QED BY <1>2, <2>1
  <2>3. Own(t)'
    <3>1. CASE Start(t) \/ Lock(t) \/ Unlist(t)
      BY <1>2, <3>1 DEF Start, Lock, Unlist, Goto
    <3>2. CASE ReadCall(t)
      <4>1. tmsg[t] = NoMsg /\ tsrc[t] = NoConn
        BY <3>2 DEF ReadCall, EchoInv, RelaysOwnFd, ReadsOwnFd
      <4>2. At(tfd[t])' = At(tfd[t])
        BY <3>2 DEF ReadCall, At, sockVars
      <4> QED BY <1>1, <3>2, <4>1, <4>2 DEF ReadCall, Goto
    <3>3. CASE ReadReturns(t)
      <4>1. tmsg[t] = NoMsg /\ tsrc[t] \in Conn /\ At(tfd[t]) = tsrc[t] /\ tsrc[t] # NoConn
        BY <1>1, <3>3, SocketsAssumption DEF ReadReturns, EchoInv, RelaysOwnFd, Reading
      <4>2. At(tfd[t])' = At(tfd[t])
        BY <3>3, <4>1, ConnKept DEF ReadReturns
      <4>3. /\ tsrc'[t] = NoConn /\ tpc'[t] # "send" /\ ti'[t] = 0
            /\ tmsg'[t] # NoMsg => tmsg'[t] = NextMsg(tsrc[t])
            /\ tpc'[t] = "unlist" => AtEnd(tsrc[t]) /\ peer' = peer
        BY <1>1, <3>3, <4>1 DEF ReadReturns, Goto, sockVars
      <4> QED BY <4>1, <4>2, <4>3 DEF NextMsg, AtEnd
    <3>4. CASE SendNext(t)
      <4>1. tsrc[t] = NoConn
        BY <3>4 DEF SendNext, EchoInv, ReadsOwnFd
      <4>2. At(tfd[t])' = At(tfd[t])
        BY <3>4 DEF SendNext, At, Write, sockVars
      <4> QED BY <1>1, <3>4, <4>1, <4>2 DEF SendNext
    <3>5. CASE Unlock(t) \/ Close(t)
      <4>1. tsrc[t] = NoConn /\ (Close(t) => tmsg[t] = NoMsg)
        BY <3>5 DEF Unlock, Close, EchoInv, ReadsOwnFd, RelaysOwnFd
      <4> QED BY <1>1, <3>5, <4>1 DEF Unlock, Close, Goto
    <3> QED BY <1>5, <3>1, <3>2, <3>3, <3>4, <3>5 DEF ThreadNext
  <2>4. MutexIsSenders'
    <3>1. CASE Lock(t)
      BY <3>1 DEF Lock, Goto, MutexIsSenders
    <3>2. CASE Unlock(t)
      BY <3>2 DEF Unlock, Released, MutexIsSenders
    <3>3. CASE mutx' = mutx /\ (tpc[t] = "send" => tpc'[t] = "send")
      BY <1>3, <2>1, <3>3 DEF MutexIsSenders
    <3> QED BY <1>5, <3>1, <3>2, <3>3 DEF ThreadNext, Start, ReadCall, ReadReturns, SendNext, Unlist,
                Close, Goto
  <2> HIDE DEF Own
  <2>5. \A u \in Thread : Own(u)'
    BY <2>2, <2>3
  <2> QED BY <2>4, <2>5 DEF OwnConn, Own
<1> QED BY <1>4, <1>5 DEF Next
LEMMA SpokenFinite ==
  ASSUME TypeInv, NEW c
  PROVE  IsFiniteSet(Spoken(c)) /\ Cardinality(Spoken(c)) \in Nat
<1>1. Len(order) \in Nat
  BY DEF TypeInv, TypeOK
<1>2. IsFiniteSet(1..Len(order)) /\ Spoken(c) \subseteq 1..Len(order)
  BY <1>1, FS_Interval DEF Spoken
<1> QED BY <1>2, FS_Subset, FS_CardinalityType

\* Of one connection one thread waits to relay.
LEMMA OneWaits ==
  ASSUME TypeInv, EchoInv, ListInv, RoomInv, NEW t \in Thread,
         tpc[t] \in {"recv", "lock", "send"}, At(tfd[t]) \in Conn,
         NEW u \in Waiting(At(tfd[t]))
  PROVE  u = t
<1>1. u \in Holders /\ t \in Holders /\ tpc[u] # "start" /\ tpc[t] # "start"
  BY DEF Waiting, Holders
<1>2. At(tfd[u]) = At(tfd[t]) /\ At(tfd[t]) # NoConn
  BY SocketsAssumption DEF Waiting, RoomInv, OwnConn
<1> QED BY <1>1, <1>2, OneThreadEach

\* A step that neither takes nor orders, and starts no relay of data.
LEMMA WaitingKept ==
  ASSUME RoomInv, UNCHANGED <<order, taken>>,
         \A t \in Thread : \/ tpc'[t] = tpc[t] /\ tmsg'[t] = tmsg[t]
                           \/ /\ tpc[t] # "lock" \/ tmsg[t] = NoMsg
                              /\ tpc'[t] # "lock" \/ tmsg'[t] = NoMsg
  PROVE  NothingSkipped'
<1>1. \A c : Spoken(c)' = Spoken(c)
  BY DEF Spoken
<1>2. \A c : Waiting(c)' = Waiting(c)
  BY DEF Waiting
<1>3. \A c : \A t \in Waiting(c) : tmsg'[t] = tmsg[t]
  BY DEF Waiting
<1> QED BY <1>1, <1>2, <1>3 DEF RoomInv, NothingSkipped

LEMMA TakeRoom ==
  ASSUME TypeInv, EchoInv, ListInv, RoomInv, NEW t \in Thread, tpc[t] = "recv",
         tsrc[t] \in Conn, At(tfd[t]) = tsrc[t], Take(tsrc[t]),
         tmsg' = [tmsg EXCEPT ![t] = NextMsg(tsrc[t])], Goto(t, "lock"), order' = order
  PROVE  NothingSkipped'
<1> PICK c \in Conn : c = tsrc[t]
  OBVIOUS
<1>1. /\ tpc'[t] = "lock" /\ tmsg'[t] = [from |-> c, n |-> taken[c] + 1]
      /\ \A u \in Thread \ {t} : tpc'[u] = tpc[u] /\ tmsg'[u] = tmsg[u]
      /\ taken'[c] = taken[c] + 1 /\ taken[c] \in Nat /\ \A d \in Conn \ {c} : taken'[d] = taken[d]
  BY SocketsAssumption DEF Goto, NextMsg, Take, TypeInv, TypeOK, SockTypeOK
<1>2. tmsg'[t] # NoMsg /\ tmsg'[t].from = c /\ tmsg'[t].n = taken[c] + 1
  BY <1>1, SocketsAssumption DEF NoMsg
<1>3. Waiting(c) = {}
  <2>1. ASSUME NEW u \in Waiting(c) PROVE FALSE
    <3>1. u = t
      BY <2>1, OneWaits
    <3> QED BY <2>1, <3>1 DEF Waiting
  <2> QED BY <2>1
<1>4. Waiting(c)' = {t}
  <2>1. ASSUME NEW u \in Waiting(c)' PROVE u = t
    BY <1>1, <1>3, <2>1 DEF Waiting
  <2>2. t \in Waiting(c)'
    BY <1>1, <1>2 DEF Waiting
  <2> QED BY <2>1, <2>2
<1>5. \A d \in Conn \ {c} : Waiting(d)' = Waiting(d) /\ t \notin Waiting(d)
  BY <1>1, <1>2 DEF Waiting
<1>6. \A d \in Conn : Spoken(d)' = Spoken(d)
  BY DEF Spoken
<1>7. Cardinality(Spoken(c)) = taken[c]
  BY <1>3 DEF RoomInv, NothingSkipped
<1>8. ASSUME NEW d \in Conn \ {c}
      PROVE  /\ Waiting(d)' = {} => Cardinality(Spoken(d)') = taken'[d]
             /\ \A u \in Waiting(d)' : tmsg'[u].n = taken'[d] /\ Cardinality(Spoken(d)') + 1 = taken'[d]
  <2>1. \A u \in Waiting(d) : tmsg'[u] = tmsg[u]
    BY <1>1, <1>5 DEF Waiting
  <2> QED BY <1>1, <1>5, <1>6, <2>1 DEF RoomInv, NothingSkipped
<1>9. Cardinality(Spoken(c)') + 1 = taken'[c] /\ Waiting(c)' # {}
  BY <1>1, <1>4, <1>6, <1>7
<1>10. \A u \in Waiting(c)' : tmsg'[u].n = taken'[c]
  BY <1>1, <1>2, <1>4
<1> QED BY <1>8, <1>9, <1>10 DEF NothingSkipped

\* A relay puts the message after those of its writer that went before.
LEMMA LockSpoken ==
  ASSUME TypeInv, EchoInv, ListInv, RoomInv, NEW t \in Thread, Lock(t), tmsg[t] # NoMsg
  PROVE  /\ tmsg[t].from \in Conn /\ At(tfd[t]) = tmsg[t].from
         /\ Waiting(tmsg[t].from) = {t}
         /\ tmsg[t].n = Cardinality(Spoken(tmsg[t].from)) + 1
         /\ tmsg[t].n = taken[tmsg[t].from]
         /\ Cardinality(Spoken(tmsg[t].from)') = Cardinality(Spoken(tmsg[t].from)) + 1
         /\ \A d \in Conn \ {tmsg[t].from} : Spoken(d)' = Spoken(d)
<1>1. tmsg[t] \in Msg /\ tmsg[t].from \in Conn /\ At(tfd[t]) = tmsg[t].from /\ tpc[t] = "lock"
  BY DEF TypeInv, TypeOK, Msg, RoomInv, OwnConn, Lock
<1> PICK c \in Conn : c = tmsg[t].from
  BY <1>1
<1>2. Waiting(c) = {t}
  <2>1. t \in Waiting(c)
    BY <1>1 DEF Waiting
  <2>2. \A u \in Waiting(c) : u = t
    BY <1>1, OneWaits
  <2> QED BY <2>1, <2>2
<1>3. tmsg[t].n = taken[c] /\ Cardinality(Spoken(c)) + 1 = taken[c]
  BY <1>2 DEF RoomInv, NothingSkipped
<1>4. /\ order' = Append(order, tmsg[t]) /\ Len(order) \in Nat /\ Len(order') = Len(order) + 1
      /\ order'[Len(order) + 1] = tmsg[t]
      /\ \A k \in 1..Len(order) : order'[k] = order[k]
      /\ 1..Len(order') = (1..Len(order)) \cup {Len(order) + 1}
      /\ Len(order) + 1 \notin 1..Len(order)
  BY <1>1 DEF Lock, TypeInv, TypeOK
<1>5. Spoken(c)' = Spoken(c) \cup {Len(order) + 1} /\ Len(order) + 1 \notin Spoken(c)
  BY <1>4 DEF Spoken
<1>6. Cardinality(Spoken(c)') = Cardinality(Spoken(c)) + 1
  BY <1>5, SpokenFinite, FS_AddElement
<1>7. \A d \in Conn \ {c} : Spoken(d)' = Spoken(d)
  BY <1>4 DEF Spoken
<1>8. tmsg[t].n = Cardinality(Spoken(c)) + 1
  BY <1>3
<1>9. tmsg' = tmsg
  BY DEF Lock
<1> QED BY <1>1, <1>2, <1>3, <1>6, <1>7, <1>8, <1>9

LEMMA LockRoom ==
  ASSUME TypeInv, EchoInv, ListInv, RoomInv, NEW t \in Thread, Lock(t), tmsg[t] # NoMsg
  PROVE  NothingSkipped'
<1> PICK c \in Conn : c = tmsg[t].from
  BY LockSpoken
<1>1. /\ \A u \in Thread \ {t} : tpc'[u] = tpc[u]
      /\ tpc'[t] = "send" /\ UNCHANGED <<tmsg, taken>>
  BY DEF Lock, Goto, TypeInv, TypeOK, sockVars
<1>2. Waiting(c)' = {}
  <2>1. \A u \in Waiting(c)' : u \in Waiting(c) /\ u # t
    BY <1>1 DEF Waiting
  <2> QED BY <2>1, LockSpoken
<1>3. \A d \in Conn \ {c} : Waiting(d)' = Waiting(d)
  BY <1>1 DEF Waiting
<1>4. Cardinality(Spoken(c)') = taken'[c]
  BY <1>1, LockSpoken
<1>5. ASSUME NEW d \in Conn \ {c}
      PROVE  /\ Waiting(d)' = {} => Cardinality(Spoken(d)') = taken'[d]
             /\ \A u \in Waiting(d)' : tmsg'[u].n = taken'[d] /\ Cardinality(Spoken(d)') + 1 = taken'[d]
  BY <1>1, <1>3, LockSpoken DEF RoomInv, NothingSkipped
<1> QED BY <1>2, <1>4, <1>5 DEF NothingSkipped

LEMMA SkippedStep ==
  ASSUME TypeInv, EchoInv, OrderInv, ListInv, RoomInv, Next
  PROVE  NothingSkipped'
<1> USE DEF TypeInv, TypeOK
<1>1. CASE MainNext
  BY <1>1, WaitingKept DEF MainNext, Accept, Enlist, Spawn, Goto, AcceptAs, sockVars, threadVars
<1>2. ASSUME NEW t \in Thread, ThreadNext(t) PROVE NothingSkipped'
  <2>1. CASE ReadReturns(t)
    <3>1. tmsg[t] = NoMsg /\ tsrc[t] \in Conn /\ At(tfd[t]) = tsrc[t] /\ tpc[t] = "recv"
      BY <2>1, SocketsAssumption DEF ReadReturns, EchoInv, RelaysOwnFd, Reading, RoomInv, OwnConn
    <3>2. CASE /\ Take(tsrc[t]) /\ Goto(t, "lock")
               /\ tmsg' = [tmsg EXCEPT ![t] = NextMsg(tsrc[t])]
      BY <2>1, <3>1, <3>2, TakeRoom DEF ReadReturns
    <3>3. CASE TakeError(tsrc[t]) /\ Goto(t, "lock") /\ UNCHANGED tmsg
      BY <2>1, <3>1, <3>3, WaitingKept DEF ReadReturns, TakeError, Goto
    <3>4. CASE Goto(t, "unlist") /\ UNCHANGED <<sockVars, tmsg>>
      BY <2>1, <3>1, <3>4, WaitingKept DEF ReadReturns, sockVars, Goto
    <3> QED BY <2>1, <3>2, <3>3, <3>4 DEF ReadReturns
  <2>2. CASE Lock(t)
    BY <2>2, LockRoom, WaitingKept DEF Lock, Goto, sockVars
  <2>3. CASE ReadCall(t)
    <3>1. tmsg[t] = NoMsg
      BY <2>3 DEF ReadCall, EchoInv, RelaysOwnFd
    <3> QED BY <2>3, <3>1, WaitingKept DEF ReadCall, Goto, sockVars
  <2>4. CASE Start(t) \/ SendNext(t) \/ Unlock(t) \/ Unlist(t) \/ Close(t)
    BY <2>4, WaitingKept DEF Start, SendNext, Unlock, Unlist, Close, CloseFd, Write, Goto, sockVars
  <2> QED BY <1>2, <2>1, <2>2, <2>3, <2>4 DEF ThreadNext
<1>3. CASE ClientNext /\ ServerUnchanged
  BY <1>3, WaitingKept DEF ClientNext, Connect, ClientSend, ClientRecv, Hangup,
     ResetArrives, ServerUnchanged, threadVars
<1> QED BY <1>1, <1>2, <1>3 DEF Next

LEMMA InitRoom == Init => RoomInv
<1> SUFFICES ASSUME Init PROVE RoomInv
  OBVIOUS
<1>1. OwnConn /\ MutexIsSenders
  BY DEF Init, OwnConn, MutexIsSenders
<1>2. \A c \in Conn : Spoken(c) = {} /\ Waiting(c) = {} /\ taken[c] = 0
  <2>1. Len(order) = 0 /\ \A t \in Thread : tpc[t] = "none"
    BY DEF Init
  <2>2. 1..Len(order) = {}
    BY <2>1
  <2> QED BY <2>1, <2>2 DEF Init, SockInit, Spoken, Waiting
<1>3. NothingSkipped
  <2>1. Cardinality({}) = 0
    BY FS_EmptySet
  <2> QED BY <1>2, <2>1 DEF NothingSkipped
<1> QED BY <1>1, <1>3 DEF RoomInv

AllInv == TypeInv /\ EchoInv /\ OrderInv /\ ListInv /\ RoomInv

LEMMA AllInvariant == SpacedSpec => []AllInv
<1>1. TypeInv /\ EchoInv /\ OrderInv /\ ListInv /\ RoomInv /\ [Next /\ Spaced]_vars => RoomInv'
  <2> SUFFICES ASSUME TypeInv, EchoInv, OrderInv, ListInv, RoomInv, [Next /\ Spaced]_vars
               PROVE  RoomInv'
    OBVIOUS
  <2>1. CASE Next
    BY <2>1, OwnConnStep, SkippedStep DEF RoomInv
  <2>2. CASE UNCHANGED vars
    <3>1. OwnConn' /\ MutexIsSenders'
      BY <2>2 DEF vars, sockVars, threadVars, RoomInv, OwnConn, MutexIsSenders, At
    <3> QED BY <2>2, <3>1, WaitingKept DEF vars, sockVars, threadVars, RoomInv
  <2> QED BY <2>1, <2>2
<1>2. TypeInv /\ EchoInv /\ OrderInv /\ ListInv /\ RoomInv => AllInv
  BY DEF AllInv
<1> QED BY <1>1, <1>2, InitRoom, SpacedInvariant, PTL DEF SpacedSpec
-----------------------------------------------------------------------------
(* The chat server implements the room. *)

Roommates == {fdt[f] : f \in Listed \ {NoFd}}
Gone == {c \in Conn : peer[c] \notin {"new", "open"}}

\* The entries thread t has yet to go to, from the k-th on.
Ahead(t, k) == {clnt_socks[i] : i \in k..(clnt_cnt - 1)} \ {NoFd, tfd[t]}

LEMMA OwedIs ==
  /\ mutx = NoThread => Owed = {}
  /\ mutx # NoThread /\ tmsg[mutx] = NoMsg => Owed = {}
  /\ mutx # NoThread /\ tmsg[mutx] # NoMsg => Owed = {fdt[f] : f \in Ahead(mutx, ti[mutx])}
BY DEF Owed, Ahead

LEMMA ListedApart ==
  ASSUME TypeInv, EchoInv, NEW f \in Fd, NEW g \in Fd, fdt[f] \in Conn, fdt[f] = fdt[g]
  PROVE  f = g
BY SocketsAssumption DEF EchoInv, FdsAreDistinct, OnlyAt

LEMMA AheadListed ==
  ASSUME TypeInv, NEW t \in Thread, NEW k \in Nat
  PROVE  Ahead(t, k) \subseteq Listed \ {NoFd, tfd[t]}
<1>1. \A i \in k..(clnt_cnt - 1) : i \in 0..(clnt_cnt - 1)
  BY HandType
<1> QED BY <1>1 DEF Ahead, Listed

LEMMA MutexType ==
  ASSUME AllInv, mutx # NoThread
  PROVE  mutx \in Thread /\ tpc[mutx] = "send" /\ ti[mutx] \in Nat
BY ChatServerAssumption DEF AllInv, TypeInv, TypeOK, RoomInv, MutexIsSenders

LEMMA ListedHandsNext ==
  ASSUME ListInv'
  PROVE  Listed' = {Hand(t)' : t \in Counted'} \cup (IF mpc' = "spawn" THEN {clnt_sock'} ELSE {})
<1> DEFINE Hands == {Hand(t)' : t \in Counted'} \cup (IF mpc' = "spawn" THEN {clnt_sock'} ELSE {})
<1>1. ASSUME NEW g \in Listed' PROVE g \in Hands
  BY <1>1 DEF Listed, ListInv, HandsListed
<1>2. ASSUME NEW g \in Hands PROVE g \in Listed'
  BY <1>2 DEF Listed, ListInv, HandsListed
<1> QED BY <1>1, <1>2

\* A step nobody in the room notices.
LEMMA RoomStutter ==
  ASSUME AllInv, UNCHANGED <<clnt_socks, clnt_cnt, mutx, order, inbox>>, Gone' = Gone,
         \A f \in Listed \ {NoFd} : fdt'[f] = fdt[f],
         mutx # NoThread => tfd'[mutx] = tfd[mutx] /\ tmsg'[mutx] = tmsg[mutx] /\ ti'[mutx] = ti[mutx]
  PROVE  UNCHANGED Room!vars
<1>1. Listed' = Listed
  BY DEF Listed
<1>2. Roommates' = Roommates
  BY <1>1 DEF Roommates
<1>3. Owed' = Owed
  <2>1. CASE mutx = NoThread
    BY <2>1 DEF Owed
  <2>2. CASE mutx # NoThread /\ tmsg[mutx] = NoMsg
    BY <2>2 DEF Owed
  <2>3. CASE mutx # NoThread /\ tmsg[mutx] # NoMsg
    <3>1. Ahead(mutx, ti[mutx])' = Ahead(mutx, ti[mutx])
      BY <2>3 DEF Ahead
    <3>2. Ahead(mutx, ti[mutx]) \subseteq Listed \ {NoFd}
      BY <2>3, MutexType, AheadListed DEF AllInv
    <3>3. Owed = {fdt[f] : f \in Ahead(mutx, ti[mutx])}
      BY <2>3, OwedIs
    <3>4. Owed' = {fdt'[f] : f \in Ahead(mutx, ti[mutx])'}
      BY <2>3 DEF Owed, Ahead
    <3> QED BY <3>1, <3>2, <3>3, <3>4
  <2> QED BY <2>1, <2>2, <2>3
<1> QED BY <1>2, <1>3 DEF Room!vars, Roommates, Gone

\* Main enlists a client, between two messages.
LEMMA EnlistInRoom ==
  ASSUME AllInv, AllInv', Enlist
  PROVE  Room!Next \/ UNCHANGED Room!vars
<1> USE DEF AllInv
<1>1. mpc = "enlist" /\ mutx = NoThread
      /\ UNCHANGED <<tpc, tfd, fdt, peer, clnt_sock, mutx, order, inbox, tmsg, ti>>
  BY DEF Enlist, MutexIsFree, threadVars, sockVars
<1>2. Gone' = Gone /\ Owed = {} /\ Owed' = {}
  BY <1>1 DEF Gone, Owed
<1>3. CASE UNCHANGED listVars
  BY <1>1, <1>2, <1>3, RoomStutter DEF listVars
<1>4. CASE mpc' = "spawn"
  <2>1. Listed' = Listed \cup {clnt_sock}
    <3>1. Listed = {Hand(t) : t \in Counted}
      BY <1>1, ListedHands
    <3>2. Listed' = {Hand(t)' : t \in Counted'} \cup {clnt_sock'}
      BY <1>4, ListedHandsNext
    <3>3. Counted' = Counted /\ \A t \in Counted : Hand(t)' = Hand(t)
      BY <1>1 DEF Counted, Hand
    <3> QED BY <1>1, <3>1, <3>2, <3>3
  <2>2. CASE clnt_sock = NoFd
    <3>1. Roommates' = Roommates
      BY <1>1, <2>1, <2>2 DEF Roommates
    <3> QED BY <1>1, <1>2, <3>1 DEF Room!vars, Roommates, Gone
  <2>3. CASE clnt_sock # NoFd
    <3>1. clnt_sock \in Fd /\ At(clnt_sock) = fdt[clnt_sock] /\ fdt[clnt_sock] \in Conn
      BY <1>1, <2>3, AtType DEF TypeInv, TypeOK, ListInv, MainsOwn, At
    <3> PICK c \in Conn : c = fdt[clnt_sock]
      BY <3>1
    <3>2. Roommates' = Roommates \cup {c}
      BY <1>1, <2>1, <2>3 DEF Roommates
    <3>3. c \notin Roommates
      <4>1. ASSUME NEW f \in Listed \ {NoFd}, fdt[f] = c PROVE FALSE
        <5>1. f \in Fd /\ f = clnt_sock
          BY <3>1, <4>1, ListedOpen, ListedApart
        <5>2. PICK t \in Counted : f = Hand(t)
          BY <1>1, ListedHands
        <5> QED BY <1>1, <2>3, <5>1, <5>2, HandType DEF ListInv, MainsOwn
      <4> QED BY <4>1 DEF Roommates
    <3>4. Room!Join(c)
      BY <1>1, <1>2, <3>2, <3>3 DEF Room!Join, Roommates, Gone
    <3> QED BY <3>4 DEF Room!Next
  <2> QED BY <2>2, <2>3
<1> QED BY <1>3, <1>4 DEF Enlist

\* A thread counts its client off, between two messages.
LEMMA UnlistInRoom ==
  ASSUME AllInv, AllInv', NEW t \in Thread, Unlist(t)
  PROVE  Room!Next
<1> USE DEF AllInv
<1>1. /\ tpc[t] = "unlist" /\ tpc'[t] = "close" /\ \A u \in Thread \ {t} : tpc'[u] = tpc[u]
      /\ UNCHANGED <<tfd, fdt, peer, mpc, clnt_sock, mutx, order, inbox>> /\ mutx = NoThread
  BY DEF Unlist, MutexIsFree, Goto, TypeInv, TypeOK, sockVars, mainVars
<1>2. Gone' = Gone /\ Owed = {} /\ Owed' = {}
  BY <1>1 DEF Gone, Owed
<1>3. /\ \A u \in Thread : Hand(u)' = Hand(u)
      /\ Counted' = Counted \ {t} /\ t \in Counted
      /\ Hand(t) = tfd[t] /\ tfd[t] # NoFd
  BY <1>1 DEF ListInv, ReadersHaveFds, Hand, Counted
<1>4. Listed' = Listed \ {tfd[t]}
  <2>1. Listed = {Hand(u) : u \in Counted} \cup (IF mpc = "spawn" THEN {clnt_sock} ELSE {})
    BY ListedHands
  <2>2. Listed' = {Hand(u)' : u \in Counted'} \cup (IF mpc' = "spawn" THEN {clnt_sock'} ELSE {})
    BY ListedHandsNext
  <2>3. \A u \in Counted \ {t} : Hand(u) # tfd[t]
    BY <1>3, HandType DEF ListInv, HandsApart
  <2>4. mpc = "spawn" => clnt_sock # tfd[t]
    BY <1>3, HandType DEF ListInv, MainsOwn
  <2>5. ASSUME NEW g PROVE g \in Listed' <=> g \in Listed /\ g # tfd[t]
    BY <1>1, <1>3, <2>1, <2>2, <2>3, <2>4, HandType
  <2> QED BY <2>5
<1>5. tfd[t] \in Listed \ {NoFd}
  BY <1>3, ListedHands
<1> PICK c \in Conn : c = fdt[tfd[t]] /\ c = At(tfd[t])
  BY <1>5, ListedOpen
<1>6. Roommates' = Roommates \ {c} /\ c \in Roommates
  <2>1. \A f \in Listed \ {NoFd} : fdt[f] = c => f = tfd[t]
    BY <1>5, ListedOpen, ListedApart
  <2> QED BY <1>1, <1>4, <1>5, <2>1 DEF Roommates
<1>7. c \in Gone
  BY <1>1 DEF RoomInv, OwnConn, Gone
<1>8. Room!Leave(c)
  BY <1>1, <1>2, <1>6, <1>7 DEF Room!Leave, Roommates, Gone
<1> QED BY <1>8 DEF Room!Next
\* The counting of the room's module is that of this one.
LEMMA RoomCounts ==
  ASSUME NEW S
  PROVE  Room!Cardinality(S) = Cardinality(S)
BY DEF Cardinality, Room!Cardinality

\* A relay begins: the message is said, and owed to the others.
LEMMA LockInRoom ==
  ASSUME AllInv, NEW t \in Thread, Lock(t)
  PROVE  Room!Next \/ UNCHANGED Room!vars
<1> USE DEF AllInv
<1>1. /\ tpc[t] = "lock" /\ mutx = NoThread /\ mutx' = t /\ t # NoThread
      /\ UNCHANGED <<tfd, fdt, peer, clnt_socks, clnt_cnt, inbox, tmsg, ti>>
  BY ChatServerAssumption DEF Lock, MutexIsFree, sockVars, listVars
<1>2. Gone' = Gone /\ Owed = {} /\ Listed' = Listed /\ Roommates' = Roommates
  BY <1>1 DEF Gone, Owed, Listed, Roommates
<1>3. CASE tmsg[t] = NoMsg
  <2>1. Owed' = {} /\ order' = order
    BY <1>1, <1>3 DEF Owed, Lock
  <2> QED BY <1>1, <1>2, <2>1 DEF Room!vars, Roommates, Gone
<1>4. CASE tmsg[t] # NoMsg
  <2> PICK c \in Conn : c = tmsg[t].from /\ c = At(tfd[t])
    BY <1>4, LockSpoken
  <2>1. tfd[t] \in Fd /\ fdt[tfd[t]] = c /\ tfd[t] # NoFd
    BY SocketsAssumption DEF At
  <2>2. t \in Counted /\ Hand(t) = tfd[t]
    BY <1>1 DEF Counted, Hand
  <2>3. tfd[t] \in Listed \ {NoFd}
    BY <2>1, <2>2, ListedHands
  <2>4. c \in Roommates
    BY <2>1, <2>3 DEF Roommates
  <2>5. order' = Append(order, [from |-> c, n |-> Cardinality(Spoken(c)) + 1])
    <3>1. tmsg[t] \in Msg
      BY <1>4 DEF TypeInv, TypeOK
    <3>2. tmsg[t] = [from |-> tmsg[t].from, n |-> tmsg[t].n]
      BY <3>1 DEF Msg
    <3>3. tmsg[t].n = Cardinality(Spoken(c)) + 1
      BY <1>4, LockSpoken
    <3> QED BY <1>4, <3>2, <3>3 DEF Lock
  <2>6. Owed' = Roommates \ {c}
    <3>1. ti[t] = 0
      BY <1>1 DEF RoomInv, OwnConn
    <3>2. Owed' = {fdt[f] : f \in Listed \ {NoFd, tfd[t]}}
      BY <1>1, <1>4, <3>1 DEF Owed, Listed
    <3>3. \A f \in Listed \ {NoFd} : fdt[f] = c <=> f = tfd[t]
      BY <2>1, ListedOpen, ListedApart
    <3> QED BY <3>2, <3>3 DEF Roommates
  <2>7. Room!SaidBy(c) = Spoken(c) /\ Room!Cardinality(Spoken(c)) = Cardinality(Spoken(c))
    BY RoomCounts DEF Room!SaidBy, Spoken
  <2>8. order' = Append(order, [from |-> c, n |-> Room!Cardinality(Room!SaidBy(c)) + 1])
    BY <2>5, <2>7
  <2>9. Room!Say(c)
    BY <1>1, <1>2, <2>4, <2>6, <2>8 DEF Room!Say, Roommates, Gone
  <2> QED BY <2>9 DEF Room!Next
<1> QED BY <1>3, <1>4

\* What is owed before a turn of the loop, and after it.
LEMMA OwedTurn ==
  ASSUME AllInv, NEW t \in Thread, SendNext(t), tmsg[t] # NoMsg
  PROVE  LET g == clnt_socks[ti[t]] IN
         /\ g \in Listed
         /\ g \in {NoFd, tfd[t]} => Owed' = Owed
         /\ g \notin {NoFd, tfd[t]} => fdt[g] \in Owed /\ Owed' = Owed \ {fdt[g]}
<1> USE DEF AllInv
<1>1. /\ tpc[t] = "send" /\ ti' = [ti EXCEPT ![t] = @ + 1]
      /\ UNCHANGED <<clnt_socks, clnt_cnt, mutx, tfd, tmsg, fdt>>
  BY DEF SendNext, listVars, Write, sockVars
<1>2. mutx = t /\ mutx # NoThread
  BY <1>1, ChatServerAssumption DEF OrderInv, SenderIsLast
<1>3. PICK k \in Nat : k = ti[t]
  BY DEF TypeInv, TypeOK
<1>4. PICK n \in Nat : n = clnt_cnt
  BY DEF TypeInv, TypeOK
<1>5. k < n
  BY <1>3, <1>4 DEF SendNext, LoopIsOver
<1>6. ti'[t] = k + 1
  BY <1>1, <1>3 DEF TypeInv, TypeOK
<1>7. /\ k \in 0..(n - 1) /\ k \notin (k + 1)..(n - 1)
      /\ k..(n - 1) = ((k + 1)..(n - 1)) \cup {k}
      /\ \A i \in (k + 1)..(n - 1) : i \in 0..(n - 1) /\ i # k
  BY <1>5
<1> PICK g \in Listed : g = clnt_socks[k]
  BY <1>4, <1>7 DEF Listed
<1>8. Ahead(t, k) = Ahead(t, k + 1) \cup ({g} \ {NoFd, tfd[t]})
  BY <1>4, <1>7 DEF Ahead
<1>9. g # NoFd => g \notin Ahead(t, k + 1)
  <2>1. \A i \in (k + 1)..(n - 1) : g # NoFd => clnt_socks[i] # g
    BY <1>4, <1>7 DEF ListInv, EntriesApart
  <2> QED BY <1>4, <2>1 DEF Ahead
<1>10. Owed = {fdt[f] : f \in Ahead(t, k)}
  BY <1>2, <1>3, OwedIs
<1>11. Owed' = {fdt[f] : f \in Ahead(t, k + 1)}
  BY <1>1, <1>2, <1>6 DEF Owed, Ahead
<1>12. Ahead(t, k) \subseteq Listed \ {NoFd}
  BY <1>3, AheadListed
<1>13. CASE g \in {NoFd, tfd[t]}
  BY <1>3, <1>8, <1>10, <1>11, <1>13
<1>14. CASE g \notin {NoFd, tfd[t]}
  <2>1. g \in Ahead(t, k) /\ Ahead(t, k + 1) = Ahead(t, k) \ {g}
    BY <1>8, <1>9, <1>14
  <2>2. \A f \in Ahead(t, k) : fdt[f] = fdt[g] => f = g
    BY <1>12, <2>1, ListedOpen, ListedApart
  <2>3. fdt[g] \in Owed
    BY <1>10, <2>1
  <2>4. Owed' = Owed \ {fdt[g]}
    BY <1>10, <1>11, <2>1, <2>2
  <2> QED BY <1>3, <1>14, <2>3, <2>4
<1> QED BY <1>13, <1>14

\* A turn of the loop: a client hears the message, or has hung up and misses it.
LEMMA SendInRoom ==
  ASSUME AllInv, NEW t \in Thread, SendNext(t)
  PROVE  Room!Next \/ UNCHANGED Room!vars
<1> USE DEF AllInv
<1>1. /\ tpc[t] = "send" /\ ti' = [ti EXCEPT ![t] = @ + 1]
      /\ UNCHANGED <<clnt_socks, clnt_cnt, mutx, tfd, tmsg, order, fdt>>
  BY DEF SendNext, listVars, Write, sockVars
<1>2. mutx = t /\ mutx # NoThread
  BY <1>1, ChatServerAssumption DEF OrderInv, SenderIsLast
<1>3. Roommates' = Roommates
  BY <1>1 DEF Roommates, Listed
<1>4. CASE tmsg[t] = NoMsg
  <2>1. Owed = {} /\ Owed' = {}
    BY <1>1, <1>2, <1>4 DEF Owed
  <2>2. UNCHANGED <<peer, inbox>>
    BY <1>4 DEF SendNext, sockVars
  <2> QED BY <1>1, <1>3, <2>1, <2>2 DEF Room!vars, Roommates
<1>5. CASE tmsg[t] # NoMsg
  <2> PICK g \in Listed : g = clnt_socks[ti[t]]
    BY <1>5, OwedTurn
  <2>1. CASE g \in {NoFd, tfd[t]}
    <3>1. UNCHANGED <<peer, inbox>>
      <4>1. IsOwnEntry(t) \/ At(g) = NoConn
        BY <2>1, SocketsAssumption DEF IsOwnEntry, At
      <4> QED BY <4>1 DEF SendNext, sockVars
    <3>2. Owed' = Owed
      BY <1>5, <2>1, OwedTurn
    <3> QED BY <1>1, <1>3, <3>1, <3>2 DEF Room!vars, Roommates
  <2>2. CASE g \notin {NoFd, tfd[t]}
    <3> PICK c \in Conn : c = fdt[g] /\ c = At(g) /\ c # NoConn
      BY <2>2, ListedOpen, SocketsAssumption
    <3>1. c \in Owed /\ Owed' = Owed \ {c}
      BY <1>5, <2>2, OwedTurn
    <3>2. \/ Write(c, tmsg[t])
          \/ RaisesSigpipe(c) /\ UNCHANGED sockVars
      BY <1>5, <2>2 DEF SendNext, IsOwnEntry
    <3>3. order[Len(order)] = tmsg[t]
      BY <1>1, <1>5 DEF OrderInv, SenderIsLast
    <3>4. CASE peer[c] = "open"
      <4>1. inbox' = [inbox EXCEPT ![c] = Append(@, tmsg[t])] /\ peer' = peer
        BY <3>2, <3>4 DEF Write, RaisesSigpipe
      <4>2. c \notin Gone /\ Gone' = Gone
        BY <3>4, <4>1 DEF Gone
      <4>3. Room!Hear(c)
        BY <1>1, <1>3, <3>1, <3>3, <4>1, <4>2 DEF Room!Hear, Roommates, Gone
      <4> QED BY <4>3 DEF Room!Next
    <3>5. CASE peer[c] # "open"
      <4>1. /\ inbox' = inbox /\ \A d \in Conn \ {c} : peer'[d] = peer[d]
            /\ peer[c] \notin {"new", "open"} /\ peer'[c] \notin {"new", "open"}
        BY <3>2, <3>5 DEF Write, RaisesSigpipe, sockVars, TypeInv, TypeOK, SockTypeOK
      <4>2. c \in Gone /\ Gone' = Gone
        BY <4>1 DEF Gone
      <4>3. Room!Miss(c)
        BY <1>1, <1>3, <3>1, <4>1, <4>2 DEF Room!Miss, Roommates, Gone
      <4> QED BY <4>3 DEF Room!Next
    <3> QED BY <3>4, <3>5
  <2> QED BY <2>1, <2>2
<1> QED BY <1>4, <1>5

\* The loop is over: nothing is owed any more.
LEMMA UnlockInRoom ==
  ASSUME AllInv, NEW t \in Thread, Unlock(t)
  PROVE  UNCHANGED Room!vars
<1> USE DEF AllInv
<1>1. /\ tpc[t] = "send" /\ mutx' = NoThread
      /\ UNCHANGED <<clnt_socks, clnt_cnt, fdt, peer, order, inbox>>
  BY DEF Unlock, Released, listVars, sockVars
<1>2. mutx = t /\ mutx # NoThread
  BY <1>1, ChatServerAssumption DEF OrderInv, SenderIsLast
<1>3. ti[t]..(clnt_cnt - 1) = {}
  <2>1. ti[t] \in Nat /\ clnt_cnt \in Nat
    BY DEF TypeInv, TypeOK
  <2>2. ti[t] >= clnt_cnt
    BY DEF Unlock, LoopIsOver
  <2> QED BY <2>1, <2>2
<1>4. Owed = {} /\ Owed' = {}
  BY <1>1, <1>2, <1>3 DEF Owed
<1>5. Roommates' = Roommates /\ Gone' = Gone
  BY <1>1 DEF Roommates, Listed, Gone
<1> QED BY <1>1, <1>4, <1>5 DEF Room!vars, Roommates, Gone
\* The clients: one who hangs up is noticed, whatever else they do is not.
LEMMA ClientInRoom ==
  ASSUME AllInv, ClientNext, ServerUnchanged
  PROVE  Room!Next \/ UNCHANGED Room!vars
<1> USE DEF AllInv
<1>1. UNCHANGED <<clnt_socks, clnt_cnt, mutx, order, tfd, tmsg, ti, fdt, inbox>>
  BY DEF ServerUnchanged, listVars, threadVars, ClientNext, Connect, ClientSend, ClientRecv, Hangup,
     ResetArrives
<1>2. PICK c \in Conn : \/ Connect(c) \/ ClientSend(c) \/ ClientRecv(c)
                        \/ Hangup(c) \/ ResetArrives(c)
  BY DEF ClientNext
<1>3. CASE Hangup(c)
  <2>1. /\ peer'[c] \in {"fin", "reset", "poked"}
        /\ \A d \in Conn \ {c} : peer'[d] = peer[d]
    BY <1>3 DEF Hangup, TypeInv, TypeOK, SockTypeOK
  <2>2. Gone' = Gone \cup {c}
    BY <2>1 DEF Gone
  <2>3. Roommates' = Roommates /\ Owed' = Owed
    BY <1>1 DEF Roommates, Listed, Owed
  <2>4. Room!HangUp(c)
    BY <1>1, <2>2, <2>3 DEF Room!HangUp, Roommates, Gone
  <2> QED BY <2>4 DEF Room!Next
<1>4. CASE Connect(c) \/ ClientSend(c) \/ ClientRecv(c) \/ ResetArrives(c)
  <2>1. Gone' = Gone
    BY <1>4 DEF Gone, Connect, ClientSend, ClientRecv, ResetArrives, TypeInv, TypeOK, SockTypeOK
  <2> QED BY <1>1, <2>1, RoomStutter
<1> QED BY <1>2, <1>3, <1>4

\* What main and the threads do outside the critical sections.
LEMMA OthersInRoom ==
  ASSUME AllInv, NEW t \in Thread,
         Accept \/ Spawn(t) \/ Start(t) \/ ReadCall(t) \/ ReadReturns(t) \/ Close(t)
  PROVE  UNCHANGED Room!vars
<1> USE DEF AllInv
<1>1. mutx # NoThread => mutx \in Thread /\ tpc[mutx] = "send"
  BY MutexType
<1>2. UNCHANGED <<clnt_socks, clnt_cnt, mutx, order, inbox>>
  BY DEF Accept, Spawn, Start, ReadCall, ReadReturns, Close, AcceptAs, CloseFd, Take, TakeError,
     listVars, sockVars
<1>3. mutx # NoThread => tfd'[mutx] = tfd[mutx] /\ tmsg'[mutx] = tmsg[mutx] /\ ti'[mutx] = ti[mutx]
  BY <1>1 DEF Accept, Spawn, Start, ReadCall, ReadReturns, Close, threadVars, TypeInv, TypeOK
<1>4. Gone' = Gone
  <2>1. CASE peer' = peer
    BY <2>1 DEF Gone
  <2>2. ASSUME NEW c \in Conn, TakeError(c) PROVE Gone' = Gone
    BY <2>2 DEF Gone, TakeError, HasError, TypeInv, TypeOK, SockTypeOK
  <2>3. ReadReturns(t) => tsrc[t] \in Conn
    BY DEF ReadReturns, TypeInv, Reading
  <2> QED BY <2>1, <2>2, <2>3 DEF Accept, Spawn, Start, ReadCall, ReadReturns, Close, AcceptAs,
              CloseFd, Take, sockVars
<1>5. ASSUME NEW f \in Listed \ {NoFd} PROVE fdt'[f] = fdt[f]
  <2>1. f \in Fd /\ fdt[f] \in Conn /\ fdt[f] # NoConn
    BY <1>5, ListedOpen, SocketsAssumption
  <2>2. CASE fdt' = fdt
    BY <2>2
  <2>3. ASSUME NEW c \in Conn, NEW g \in Fd, AcceptAs(c, g) PROVE fdt'[f] = fdt[f]
    BY <2>1, <2>3 DEF AcceptAs, FreeFds, TypeInv, TypeOK, SockTypeOK
  <2>4. CASE Close(t)
    <3>1. t \in Holders /\ t \notin Counted /\ Hand(t) = tfd[t] /\ tfd[t] # NoFd
      BY <2>4 DEF Close, Holders, Counted, Hand, ListInv, ReadersHaveFds
    <3>2. f # tfd[t]
      <4>1. \A u \in Counted : Hand(u) # tfd[t]
        BY <3>1, HandType DEF ListInv, HandsApart
      <4>2. mpc = "spawn" => clnt_sock # tfd[t]
        BY <3>1 DEF ListInv, MainsOwn
      <4> QED BY <4>1, <4>2, ListedHands
    <3> QED BY <2>1, <2>4, <3>2 DEF Close, CloseFd, TypeInv, TypeOK, SockTypeOK
  <2> QED BY <2>2, <2>3, <2>4 DEF Accept, Spawn, Start, ReadCall, ReadReturns, Take, TakeError, sockVars
<1> QED BY <1>2, <1>3, <1>4, <1>5, RoomStutter

LEMMA NextInRoom ==
  ASSUME AllInv, AllInv', [Next /\ Spaced]_vars
  PROVE  [Room!Next]_(Room!vars)
<1>1. CASE UNCHANGED vars
  <2>1. UNCHANGED Room!vars
    <3>1. UNCHANGED <<clnt_socks, clnt_cnt, mutx, order, inbox, fdt, tfd, tmsg, ti>> /\ Gone' = Gone
      BY <1>1 DEF vars, sockVars, listVars, threadVars, Gone
    <3> QED BY <3>1, RoomStutter
  <2> QED BY <2>1
<1>2. CASE MainNext
  <2>1. CASE Accept
    <3>1. PICK t \in Thread : TRUE
      BY <2>1 DEF Accept
    <3> QED BY <2>1, <3>1, OthersInRoom
  <2> QED BY <1>2, <2>1, EnlistInRoom, OthersInRoom DEF MainNext
<1>3. ASSUME NEW t \in Thread, ThreadNext(t) PROVE Room!Next \/ UNCHANGED Room!vars
  BY <1>3, LockInRoom, SendInRoom, UnlockInRoom, UnlistInRoom, OthersInRoom DEF ThreadNext
<1> QED BY <1>1, <1>2, <1>3, ClientInRoom DEF Next

\* The server implements the room: whoever is in the list hears everything
\* said, once and in the one order, each writer's messages in the order it
\* wrote them and none left out; only a client that has hung up misses any,
\* and nobody joins or leaves in the middle of a message.  This holds as long
\* as a thread copies its argument before the next accept returns.
THEOREM ImplementsRoom == SpacedSpec => RoomSpec
<1>1. Init => Room!Init
  <2> SUFFICES ASSUME Init PROVE Room!Init
    OBVIOUS
  <2>1. 0..(clnt_cnt - 1) = {}
    BY DEF Init
  <2>2. Listed = {}
    BY <2>1 DEF Listed
  <2>3. Owed = {}
    BY DEF Init, Owed
  <2>4. \A c \in Conn : peer[c] = "new"
    BY DEF Init, SockInit
  <2> QED BY <2>2, <2>3, <2>4 DEF Room!Init, Init, SockInit
<1>2. AllInv /\ AllInv' /\ [Next /\ Spaced]_vars => [Room!Next]_(Room!vars)
  BY NextInRoom
<1> QED BY <1>1, <1>2, AllInvariant, PTL DEF SpacedSpec, RoomSpec, Room!Spec
=============================================================================
