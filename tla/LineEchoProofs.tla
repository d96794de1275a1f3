--------------------------- MODULE LineEchoProofs ---------------------------
(***************************************************************************)
(* Proofs about a line and its echo: over TCP in EpollEcho, for any number *)
(* of clients and descriptors and lines of any length, and in datagrams in *)
(* DatagramTalk, for any number of clients, lines and faults.              *)
(***************************************************************************)
EXTENDS EpollEcho, DatagramTalk, SequenceTheorems, FiniteSetTheorems, TLAPS

-----------------------------------------------------------------------------
(* The connections: every step of a client and every call of the server     *)
(* keeps their types.                                                       *)

LEMMA InitSockType == SockInit => SockTypeOK
BY SocketsAssumption DEF SockInit, SockTypeOK, PeerState

LEMMA ClientType ==
  ASSUME SockTypeOK, ClientNext
  PROVE  SockTypeOK'
<1>1. PICK c \in Conn : \/ Connect(c) \/ ClientSend(c) \/ ClientRecv(c)
                        \/ Hangup(c) \/ ResetArrives(c)
  BY DEF ClientNext
<1>2. CASE Connect(c)
  BY <1>2 DEF SockTypeOK, Connect, PeerState
<1>3. CASE ClientSend(c)
  BY <1>3, SocketsAssumption DEF SockTypeOK, ClientSend
<1>4. CASE ClientRecv(c)
  BY <1>4, SocketsAssumption DEF SockTypeOK, ClientRecv
<1>5. CASE Hangup(c)
  BY <1>5, SocketsAssumption DEF SockTypeOK, Hangup, PeerState
<1>6. CASE ResetArrives(c)
  BY <1>6 DEF SockTypeOK, ResetArrives, PeerState
<1> QED BY <1>1, <1>2, <1>3, <1>4, <1>5, <1>6

LEMMA AcceptType ==
  ASSUME SockTypeOK, NEW c \in Conn, NEW f \in Fd, AcceptAs(c, f)
  PROVE  SockTypeOK'
BY DEF SockTypeOK, AcceptAs

LEMMA ReadType ==
  ASSUME SockTypeOK, NEW c \in Conn, Take(c) \/ TakeError(c)
  PROVE  SockTypeOK'
<1>1. CASE Take(c)
  BY <1>1, SocketsAssumption DEF SockTypeOK, Take, HasData
<1>2. CASE TakeError(c)
  BY <1>2 DEF SockTypeOK, TakeError, PeerState
<1> QED BY <1>1, <1>2

LEMMA WriteType ==
  ASSUME SockTypeOK, NEW c \in Conn, NEW m \in Msg, Write(c, m)
  PROVE  SockTypeOK'
<1>1. CASE peer[c] = "open"
  <2>1. inbox' = [inbox EXCEPT ![c] = Append(@, m)] /\ inbox[c] \in Seq(Msg)
    BY <1>1 DEF SockTypeOK, Write
  <2>2. inbox' \in [Conn -> Seq(Msg)]
    BY <2>1 DEF SockTypeOK
  <2>3. unread' \in [Conn -> 0..SndBuf]
    BY <1>1, SocketsAssumption DEF SockTypeOK, Write
  <2> QED BY <1>1, <2>2, <2>3 DEF SockTypeOK, Write
<1>2. CASE peer[c] # "open"
  BY <1>2 DEF SockTypeOK, Write, PeerState
<1> QED BY <1>1, <1>2

LEMMA CloseType ==
  ASSUME SockTypeOK, NEW f, CloseFd(f)
  PROVE  SockTypeOK'
BY DEF SockTypeOK, CloseFd

LEMMA NextMsgType ==
  ASSUME SockTypeOK, NEW c \in Conn, HasData(c)
  PROVE  NextMsg(c) \in Msg
BY SocketsAssumption DEF SockTypeOK, HasData, NextMsg, Msg

-----------------------------------------------------------------------------
(* Types rest on what epoll watches being open. *)

Open == {f \in Fd : fdt[f] # NoConn}

Watching ==
  /\ interest = Open
  /\ events \subseteq interest \cup {Listen}

\* The piece in the buffer is the last one read of the event's client.
InHand ==
  \/ cur = NoFd /\ buf = NoMsg
  \/ /\ cur \in Fd /\ fdt[cur] \in Conn
     /\ buf = [from |-> fdt[cur], n |-> taken[fdt[cur]]]

TypeInv == TypeOK /\ Watching /\ InHand

\* What the server leaves alone of the clients.
USE DEF clientVars

LEMMA InitType == Init => TypeInv
<1> SUFFICES ASSUME Init PROVE TypeInv
  OBVIOUS
<1>1. SockTypeOK
  BY InitSockType DEF Init
<1>2. TypeOK
  BY <1>1 DEF Init, TypeOK
<1>3. Watching
  BY DEF Init, SockInit, Watching, Open
<1> QED BY <1>2, <1>3 DEF Init, TypeInv, InHand

\* A step of the clients that leaves the loop alone.
LEMMA ClientKeeps ==
  ASSUME TypeInv, SockTypeOK', asking' \subseteq Conn, long' \subseteq Conn,
         UNCHANGED <<fdt, taken, loopVars>>
  PROVE  TypeInv'
<1> USE DEF TypeInv, loopVars
<1>1. TypeOK'
  BY DEF TypeOK
<1>2. Watching'
  BY DEF Watching, Open
<1> QED BY <1>1, <1>2 DEF InHand

LEMMA ArriveType ==
  ASSUME TypeInv, NEW c \in Conn, Arrive(c)
  PROVE  TypeInv'
<1> USE DEF TypeInv, Arrive
<1>1. SockTypeOK'
  BY ClientType DEF ClientNext, TypeOK
<1>2. missed' \in Nat
  BY DEF TypeOK
<1>3. TypeOK'
  BY <1>1, <1>2 DEF TypeOK
<1> QED BY <1>3 DEF Watching, Open, InHand, Connect

LEMMA SendLineType ==
  ASSUME TypeInv, NEW c \in Conn, SendLine(c)
  PROVE  TypeInv'
<1>1. sent' \in [Conn -> 0..MaxSend]
  BY SocketsAssumption, EpollAssumption
     DEF SendLine, TypeInv, TypeOK, SockTypeOK
<1>2. SockTypeOK'
  BY <1>1 DEF SendLine, TypeInv, TypeOK, SockTypeOK
<1>3. asking' \subseteq Conn /\ long' \subseteq Conn
  BY DEF SendLine, TypeInv, TypeOK
<1> QED BY <1>2, <1>3, ClientKeeps DEF SendLine

LEMMA ReadAnswerType ==
  ASSUME TypeInv, NEW c \in Conn, ReadAnswer(c)
  PROVE  TypeInv'
<1>1. SockTypeOK'
  BY SocketsAssumption DEF ReadAnswer, TypeInv, TypeOK, SockTypeOK
<1>2. asking' \subseteq Conn /\ long' \subseteq Conn
  BY DEF ReadAnswer, TypeInv, TypeOK
<1> QED BY <1>1, <1>2, ClientKeeps DEF ReadAnswer

LEMMA GoneType ==
  ASSUME TypeInv, NEW c \in Conn, Leave(c) \/ NetworkReset(c)
  PROVE  TypeInv'
<1>1. SockTypeOK'
  BY ClientType DEF ClientNext, Leave, NetworkReset, TypeInv, TypeOK
<1> QED BY <1>1, ClientKeeps
        DEF Leave, NetworkReset, Hangup, ResetArrives, TypeInv, TypeOK

LEMMA WaitType ==
  ASSUME TypeInv, Wait
  PROVE  TypeInv'
<1> USE DEF TypeInv, Wait, sockVars
<1>1. Ready \subseteq interest \cup {Listen}
  BY DEF Ready
<1>2. TypeOK'
  BY <1>1 DEF TypeOK, SockTypeOK
<1>3. Watching'
  BY <1>1 DEF Watching, Open
<1> QED BY <1>2, <1>3 DEF InHand

LEMMA HandleListenType ==
  ASSUME TypeInv, HandleListen
  PROVE  TypeInv'
<1>1. CASE \E c \in backlog, f \in FreeFds :
             AcceptAs(c, f) /\ interest' = Watched(f) /\ UNCHANGED missed
  <2>1. PICK c \in backlog, f \in FreeFds :
          AcceptAs(c, f) /\ interest' = Watched(f) /\ UNCHANGED missed
    BY <1>1
  <2>2. c \in Conn /\ f \in Fd /\ f # NoFd
    BY SocketsAssumption DEF TypeInv, TypeOK, SockTypeOK, FreeFds
  <2>3. SockTypeOK'
    BY <2>1, <2>2, AcceptType DEF TypeInv, TypeOK
  <2>4. interest' = interest \cup {f}
    BY <2>1, <2>2 DEF Watched
  <2>5. TypeOK'
    BY <2>1, <2>2, <2>3, <2>4 DEF HandleListen, TypeInv, TypeOK
  <2>6. Open' = Open \cup {f}
    BY <2>1, <2>2, SocketsAssumption DEF AcceptAs, Open, TypeInv, TypeOK, SockTypeOK
  <2>7. Watching'
    BY <2>4, <2>6 DEF HandleListen, TypeInv, Watching
  <2>8. InHand'
    BY SocketsAssumption DEF HandleListen, TypeInv, InHand
  <2> QED BY <2>5, <2>7, <2>8 DEF TypeInv
<1>2. CASE (backlog = {} \/ FreeFds = {}) /\ interest' = Watched(NoFd)
           /\ missed' = missed + (IF backlog = {} THEN 0 ELSE 1)
           /\ UNCHANGED sockVars
  <2>1. interest' = interest
    BY <1>2 DEF Watched
  <2>2. SockTypeOK' /\ missed' \in Nat
    BY <1>2 DEF sockVars, TypeInv, TypeOK, SockTypeOK
  <2>3. TypeOK'
    BY <2>1, <2>2 DEF HandleListen, TypeInv, TypeOK
  <2>4. Watching' /\ InHand'
    BY <1>2, <2>1 DEF HandleListen, sockVars, TypeInv, Watching, Open, InHand
  <2> QED BY <2>3, <2>4 DEF TypeInv
<1> QED BY <1>1, <1>2 DEF HandleListen

LEMMA EventIsOpen ==
  ASSUME TypeInv, NEW f \in events \ {Listen}
  PROVE  f \in Open /\ f \in Fd /\ fdt[f] \in Conn
BY DEF TypeInv, Watching, Open, TypeOK, SockTypeOK

LEMMA HandleReadType ==
  ASSUME TypeInv, NEW f \in Fd, HandleRead(f)
  PROVE  TypeInv'
<1>1. fdt[f] \in Conn /\ f \in Open
  BY EventIsOpen DEF HandleRead
<1> DEFINE c == fdt[f]
<1>2. CASE Take(c) /\ cur' = f /\ buf' = NextMsg(c) /\ events' = events \ {f}
           /\ UNCHANGED interest
  <2>1. SockTypeOK' /\ NextMsg(c) \in Msg
    BY <1>1, <1>2, ReadType, NextMsgType DEF TypeInv, TypeOK, Take
  <2>2. TypeOK'
    BY <1>2, <2>1 DEF HandleRead, TypeInv, TypeOK
  <2>3. Watching'
    BY <1>2 DEF Take, TypeInv, Watching, Open
  <2>4. taken'[c] = taken[c] + 1 /\ fdt' = fdt
    BY <1>1, <1>2 DEF Take, TypeInv, TypeOK, SockTypeOK
  <2>5. InHand'
    BY <1>1, <1>2, <2>4 DEF InHand, NextMsg
  <2> QED BY <2>2, <2>3, <2>5 DEF TypeInv
<1>3. CASE TakeError(c) /\ events' = AfterError(f)
           /\ UNCHANGED <<cur, buf, interest>>
  <2>1. SockTypeOK'
    BY <1>1, <1>3, ReadType DEF TypeInv, TypeOK
  <2>2. TypeOK'
    BY <1>3, <2>1 DEF HandleRead, AfterError, TypeInv, TypeOK
  <2>3. Watching' /\ InHand'
    BY <1>3 DEF TakeError, AfterError, TypeInv, Watching, Open, InHand
  <2> QED BY <2>2, <2>3 DEF TypeInv
<1>4. CASE AtEnd(c) /\ Closed(f) /\ interest' = interest \ {f}
           /\ events' = events \ {f} /\ UNCHANGED <<cur, buf>>
  <2>1. SockTypeOK'
    BY <1>4, CloseType DEF Closed, TypeInv, TypeOK
  <2>2. TypeOK'
    BY <1>4, <2>1 DEF HandleRead, TypeInv, TypeOK
  <2>3. fdt' = [fdt EXCEPT ![f] = NoConn]
    BY <1>4 DEF Closed, CloseFd
  <2>4. Open' = Open \ {f}
    BY <2>3 DEF Open, TypeInv, TypeOK, SockTypeOK
  <2>5. Watching'
    BY <1>4, <2>4, EpollAssumption DEF TypeInv, Watching
  <2>6. InHand'
    BY <1>4, SocketsAssumption DEF HandleRead, TypeInv, InHand
  <2> QED BY <2>2, <2>5, <2>6 DEF TypeInv
<1> QED BY <1>2, <1>3, <1>4 DEF HandleRead

LEMMA EchoType ==
  ASSUME TypeInv, Echo
  PROVE  TypeInv'
<1>1. cur \in Fd /\ fdt[cur] \in Conn /\ buf \in Msg
  BY SocketsAssumption DEF Echo, TypeInv, TypeOK, InHand, NoMsg, Msg
<1>2. SockTypeOK' /\ UNCHANGED fdt
  BY <1>1, WriteType DEF Echo, EchoFd, TypeInv, TypeOK, SockTypeOK, sockVars, Write
<1>3. proc' \in {"up", "killed"}
  BY DEF Echo, TypeInv, TypeOK
<1>4. TypeOK'
  BY <1>2, <1>3 DEF Echo, TypeInv, TypeOK
<1>5. Watching' /\ InHand'
  BY <1>2 DEF Echo, TypeInv, Watching, Open, InHand
<1> QED BY <1>4, <1>5 DEF TypeInv

LEMMA NextType == TypeInv /\ [Next]_vars => TypeInv'
<1> SUFFICES ASSUME TypeInv, [Next]_vars PROVE TypeInv'
  OBVIOUS
<1>1. CASE ServerNext
  BY <1>1, WaitType, HandleListenType, EchoType, HandleReadType DEF ServerNext
<1>2. ASSUME NEW c \in Conn,
             Arrive(c) \/ SendLine(c) \/ ReadAnswer(c) \/ Leave(c) \/ NetworkReset(c)
      PROVE  TypeInv'
  BY <1>2, ArriveType, SendLineType, ReadAnswerType, GoneType
<1>3. CASE UNCHANGED vars
  BY <1>3 DEF vars, sockVars, loopVars, TypeInv, TypeOK, SockTypeOK, Watching,
              Open, InHand
<1> QED BY <1>1, <1>2, <1>3 DEF Next

LEMMA TypeInvariant == Spec => []TypeInv
BY InitType, NextType, PTL DEF Spec

\* Every variable keeps its type: an event is never for a descriptor that
\* leads nowhere, and a failed accept is not watched.
THEOREM TypeCorrect == Spec => []TypeOK
<1>1. TypeInv => TypeOK
  BY DEF TypeInv
<1> QED BY <1>1, TypeInvariant, PTL

-----------------------------------------------------------------------------
(* Every connection has one place. *)

Fresh == \A c \in Conn : peer[c] = "new" => c \notin backlog
Queued == \A c \in backlog : \A f \in Fd : fdt[f] # c
Met == \A f \in Fd : \A c \in Conn : fdt[f] = c => peer[c] # "new"
Single == \A f, g \in Fd : fdt[f] = fdt[g] /\ fdt[f] # NoConn => f = g

PlaceInv == Fresh /\ Queued /\ Met /\ Single

LEMMA PlaceUnchanged ==
  ASSUME PlaceInv, UNCHANGED <<backlog, fdt>>,
         \A c \in Conn : peer'[c] = "new" => peer[c] = "new"
  PROVE  PlaceInv'
BY DEF PlaceInv, Fresh, Queued, Met, Single

LEMMA ArrivePlace ==
  ASSUME TypeInv, PlaceInv, NEW c \in Conn, Arrive(c)
  PROVE  PlaceInv'
<1> USE DEF Arrive, Connect, PlaceInv
<1>1. \A d \in Conn : peer'[d] = "new" => peer[d] = "new" /\ d # c
  BY DEF TypeInv, TypeOK, SockTypeOK
<1>2. Fresh' /\ Met'
  BY <1>1 DEF Fresh, Met
<1>3. Queued'
  BY DEF Queued, Met
<1> QED BY <1>2, <1>3 DEF Single

LEMMA AcceptPlace ==
  ASSUME TypeInv, PlaceInv, NEW c \in backlog, NEW f \in FreeFds, AcceptAs(c, f)
  PROVE  PlaceInv'
<1> USE DEF AcceptAs, PlaceInv, FreeFds
<1>1. c \in Conn /\ f \in Fd /\ fdt[f] = NoConn
  BY DEF TypeInv, TypeOK, SockTypeOK
<1>2. fdt'[f] = c /\ \A g \in Fd \ {f} : fdt'[g] = fdt[g] /\ fdt[g] # c
  BY <1>1 DEF TypeInv, TypeOK, SockTypeOK, Queued
<1>3. Fresh' /\ Queued'
  BY <1>2 DEF Fresh, Queued
<1>4. Met'
  BY <1>1, <1>2 DEF Met, Fresh
<1>5. Single'
  BY <1>1, <1>2 DEF Single
<1> QED BY <1>3, <1>4, <1>5

LEMMA ClosePlace ==
  ASSUME TypeInv, PlaceInv, NEW f \in Fd, CloseFd(f)
  PROVE  PlaceInv'
<1> USE DEF CloseFd, PlaceInv
<1>1. fdt'[f] = NoConn /\ \A g \in Fd \ {f} : fdt'[g] = fdt[g]
  BY DEF TypeInv, TypeOK, SockTypeOK
<1>2. backlog \subseteq Conn
  BY DEF TypeInv, TypeOK, SockTypeOK
<1>3. Queued' /\ Met'
  BY <1>1, <1>2, SocketsAssumption DEF Queued, Met
<1>4. Single'
  BY <1>1 DEF Single
<1> QED BY <1>3, <1>4 DEF Fresh

LEMMA NextPlace ==
  ASSUME TypeInv, PlaceInv, [Next]_vars
  PROVE  PlaceInv'
<1> USE DEF TypeInv, TypeOK, SockTypeOK
<1>1. ASSUME NEW c \in Conn, SendLine(c) \/ ReadAnswer(c)
      PROVE  PlaceInv'
  BY <1>1, PlaceUnchanged DEF SendLine, ReadAnswer
<1>2. ASSUME NEW c \in Conn, Leave(c) PROVE PlaceInv'
  <2>1. \A d \in Conn : peer'[d] = "new" => peer[d] = "new"
    BY <1>2 DEF Leave, Hangup
  <2> QED BY <1>2, <2>1, PlaceUnchanged DEF Leave, Hangup
<1>3. ASSUME NEW c \in Conn, NetworkReset(c) PROVE PlaceInv'
  BY <1>3, PlaceUnchanged DEF NetworkReset, ResetArrives
<1>4. CASE Wait
  BY <1>4, PlaceUnchanged DEF Wait, sockVars
<1>5. CASE HandleListen
  <2>1. CASE UNCHANGED sockVars
    BY <2>1, PlaceUnchanged DEF sockVars
  <2> QED BY <1>5, <2>1, AcceptPlace DEF HandleListen
<1>6. CASE Echo
  <2>1. cur \in Fd /\ fdt[cur] \in Conn
    BY <1>6 DEF Echo, InHand
  <2>2. CASE UNCHANGED sockVars
    BY <2>2, PlaceUnchanged DEF sockVars
  <2>3. CASE Write(fdt[cur], buf)
    BY <2>1, <2>3, PlaceUnchanged DEF Write
  <2> QED BY <1>6, <2>2, <2>3 DEF Echo, EchoFd
<1>7. ASSUME NEW f \in Fd, HandleRead(f) PROVE PlaceInv'
  <2>1. fdt[f] \in Conn
    BY <1>7, EventIsOpen DEF HandleRead
  <2>2. CASE Take(fdt[f])
    BY <2>2, PlaceUnchanged DEF Take
  <2>3. CASE TakeError(fdt[f])
    BY <2>1, <2>3, PlaceUnchanged DEF TakeError
  <2>4. CASE CloseFd(f)
    BY <2>4, ClosePlace
  <2> QED BY <1>7, <2>2, <2>3, <2>4 DEF HandleRead, Closed
<1>8. CASE UNCHANGED vars
  BY <1>8, PlaceUnchanged DEF vars, sockVars
<1> QED BY <1>1, <1>2, <1>3, <1>4, <1>5, <1>6, <1>7, <1>8, ArrivePlace
        DEF Next, ServerNext

LEMMA PlaceInvariant == Spec => []PlaceInv
<1>1. Init => PlaceInv
  BY SocketsAssumption DEF Init, SockInit, PlaceInv, Fresh, Queued, Met, Single
<1>2. TypeInv /\ PlaceInv /\ [Next]_vars => PlaceInv'
  BY NextPlace
<1> QED BY <1>1, <1>2, TypeInvariant, PTL DEF Spec

\* epoll watches exactly the open descriptors, no two of them lead to one
\* client, and no event of a batch outlives its descriptor.
THEOREM WatchesExactly == Spec => []WatchesWhatIsOpen
<1>1. TypeInv /\ PlaceInv => WatchesWhatIsOpen
  BY DEF TypeInv, PlaceInv, Watching, Open, Single, WatchesWhatIsOpen
<1> QED BY <1>1, TypeInvariant, PlaceInvariant, PTL

-----------------------------------------------------------------------------
(* The connections left behind are counted. *)

LeftInv == IsFiniteSet(backlog) /\ LeftBehindWereMissed

\* A step that takes nothing from what stands for the connections waiting.
LEMMA LeftUnchanged ==
  ASSUME LeftInv, UNCHANGED <<backlog, missed>>, Pending' = Pending
  PROVE  LeftInv'
BY DEF LeftInv, LeftBehindWereMissed

LEMMA ArriveLeft ==
  ASSUME TypeInv, LeftInv, NEW c \in Conn, Arrive(c)
  PROVE  LeftInv'
<1>1. backlog' = backlog \cup {c} /\ IsFiniteSet(backlog)
  BY DEF Arrive, Connect, LeftInv
<1>2. IsFiniteSet(backlog') /\ Cardinality(backlog) \in Nat
      /\ Cardinality(backlog') \in Nat
  BY <1>1, FS_AddElement, FS_CardinalityType
<1>3. Cardinality(backlog') <= Cardinality(backlog) + 1
  BY <1>1, <1>2, FS_AddElement
<1>4. /\ missed' + Pending' = missed + Pending + 1
      /\ missed \in Nat /\ Pending \in Nat /\ missed' \in Nat /\ Pending' \in Nat
  BY DEF Arrive, Pending, TypeInv, TypeOK
<1>5. Cardinality(backlog) <= missed + Pending
  BY DEF LeftInv, LeftBehindWereMissed
<1>6. Cardinality(backlog') <= missed' + Pending'
  <2>1. Cardinality(backlog) + 1 <= missed + Pending + 1
    BY <1>2, <1>4, <1>5
  <2>2. Cardinality(backlog') <= missed + Pending + 1
    BY <1>2, <1>3, <1>4, <2>1
  <2> QED BY <1>4, <2>2
<1> QED BY <1>2, <1>6 DEF LeftInv, LeftBehindWereMissed

LEMMA ListenLeft ==
  ASSUME TypeInv, LeftInv, HandleListen
  PROVE  LeftInv'
<1> USE DEF TypeInv, TypeOK, LeftInv, HandleListen
<1>1. Pending' = Pending - 1 /\ Pending \in Nat /\ Pending' \in Nat
  BY DEF Pending
<1>2. Cardinality(backlog) \in Nat
  BY FS_CardinalityType
<1>3. CASE \E c \in backlog, f \in FreeFds : AcceptAs(c, f) /\ UNCHANGED missed
  <2>1. PICK c \in backlog : backlog' = backlog \ {c} /\ UNCHANGED missed
    BY <1>3 DEF AcceptAs
  <2>2. IsFiniteSet(backlog') /\ Cardinality(backlog') = Cardinality(backlog) - 1
    BY <2>1, FS_RemoveElement
  <2> QED BY <1>1, <1>2, <2>1, <2>2 DEF LeftBehindWereMissed
<1>4. CASE /\ backlog' = backlog
           /\ missed' = missed + (IF backlog = {} THEN 0 ELSE 1)
  <2>1. CASE backlog = {}
    BY <1>1, <1>4, <2>1, FS_EmptySet DEF LeftBehindWereMissed
  <2>2. CASE backlog # {}
    BY <1>1, <1>2, <1>4, <2>2 DEF LeftBehindWereMissed
  <2> QED BY <2>1, <2>2
<1> QED BY <1>3, <1>4 DEF sockVars

LEMMA NextLeft ==
  ASSUME TypeInv, LeftInv, [Next]_vars
  PROVE  LeftInv'
<1>1. ASSUME NEW c \in Conn,
             SendLine(c) \/ ReadAnswer(c) \/ Leave(c) \/ NetworkReset(c)
      PROVE  LeftInv'
  BY <1>1, LeftUnchanged DEF SendLine, ReadAnswer, Leave, Hangup, NetworkReset,
                             ResetArrives, loopVars, Pending
<1>2. CASE Wait
  <2>1. Pending' = Pending
    BY <1>2, EpollAssumption DEF Wait, Ready, Pending, TypeInv, TypeOK
  <2> QED BY <1>2, <2>1, LeftUnchanged DEF Wait, sockVars
<1>3. CASE Echo
  BY <1>3, LeftUnchanged DEF Echo, Write, sockVars, Pending
<1>4. ASSUME NEW f \in Fd, HandleRead(f) PROVE LeftInv'
  <2>1. Pending' = Pending
    BY <1>4, EpollAssumption DEF HandleRead, AfterError, Pending
  <2> QED BY <1>4, <2>1, LeftUnchanged
          DEF HandleRead, Take, TakeError, Closed, CloseFd
<1>5. CASE UNCHANGED vars
  BY <1>5, LeftUnchanged DEF vars, sockVars, loopVars, Pending
<1> QED BY <1>1, <1>2, <1>3, <1>4, <1>5, ArriveLeft, ListenLeft
        DEF Next, ServerNext

\* No connection waits unaccepted but for an edge that was missed, or one
\* that is still to be handled.
THEOREM LeftBehindIsMissed == Spec => []LeftBehindWereMissed
<1>1. Init => LeftInv
  BY FS_EmptySet DEF Init, SockInit, LeftInv, LeftBehindWereMissed, Pending
<1>2. TypeInv /\ LeftInv /\ [Next]_vars => LeftInv'
  BY NextLeft
<1>3. LeftInv => LeftBehindWereMissed
  BY DEF LeftInv
<1> QED BY <1>1, <1>2, <1>3, TypeInvariant, PTL DEF Spec

-----------------------------------------------------------------------------
(* What comes back is what was sent. *)

Exact(c) == \A k \in 1..Len(inbox[c]) : inbox[c][k] = [from |-> c, n |-> k]

InStep(c) ==
  peer[c] \in {"new", "open"} =>
    /\ buf.from = c => taken[c] = Len(inbox[c]) + 1
    /\ buf.from # c => taken[c] = Len(inbox[c])

EchoInv == \A c \in Conn : Exact(c) /\ InStep(c)

\* A step that reads and writes nothing.
LEMMA EchoUnchanged ==
  ASSUME EchoInv, UNCHANGED <<taken, inbox, buf>>,
         \A c \in Conn : peer'[c] \in {"new", "open"} => peer[c] \in {"new", "open"}
  PROVE  EchoInv'
BY DEF EchoInv, Exact, InStep

LEMMA TakeEcho ==
  ASSUME TypeInv, EchoInv, NEW c \in Conn, cur = NoFd, Take(c), buf' = NextMsg(c)
  PROVE  EchoInv'
<1>1. buf.from = NoConn /\ NoConn \notin Conn
  BY SocketsAssumption DEF TypeInv, InHand, NoMsg
<1>2. buf'.from = c
  BY DEF NextMsg
<1>3. UNCHANGED <<inbox, peer>> /\ taken' = [taken EXCEPT ![c] = @ + 1]
      /\ taken \in [Conn -> 0..MaxSend]
  BY DEF Take, TypeInv, TypeOK, SockTypeOK
<1>4. ASSUME NEW d \in Conn PROVE Len(inbox[d]) \in Nat
  BY DEF TypeInv, TypeOK, SockTypeOK
<1>5. ASSUME NEW d \in Conn PROVE Exact(d)' /\ InStep(d)'
  <2>1. CASE d = c
    BY <1>1, <1>2, <1>3, <1>4, <2>1 DEF EchoInv, Exact, InStep
  <2>2. CASE d # c
    BY <1>1, <1>2, <1>3, <2>2 DEF EchoInv, Exact, InStep
  <2> QED BY <2>1, <2>2
<1> QED BY <1>5 DEF EchoInv

LEMMA WriteEcho ==
  ASSUME TypeInv, EchoInv, Echo, NEW c \in Conn, c = fdt[cur], Write(c, buf)
  PROVE  EchoInv'
<1>1. buf = [from |-> c, n |-> taken[c]]
  BY DEF Echo, TypeInv, InHand
<1>2. buf'.from = NoConn /\ NoConn \notin Conn /\ taken' = taken
  BY SocketsAssumption DEF Echo, NoMsg, Write
<1>3. ASSUME NEW d \in Conn, d # c PROVE Exact(d)' /\ InStep(d)'
  <2>1. inbox'[d] = inbox[d] /\ peer'[d] = peer[d]
    BY <1>1, <1>3 DEF Write, TypeInv, TypeOK, SockTypeOK
  <2> QED BY <1>1, <1>2, <1>3, <2>1 DEF EchoInv, Exact, InStep
<1>4. Exact(c)' /\ InStep(c)'
  <2>1. CASE peer[c] = "open"
    <3>1. inbox' = [inbox EXCEPT ![c] = Append(@, buf)] /\ peer' = peer
      BY <2>1 DEF Write
    <3>2. inbox[c] \in Seq(Msg) /\ inbox'[c] = Append(inbox[c], buf)
      BY <1>1, <3>1 DEF TypeInv, TypeOK, SockTypeOK
    <3>3. taken[c] = Len(inbox[c]) + 1
      BY <1>1, <2>1 DEF EchoInv, InStep
    <3>4. Len(inbox'[c]) = Len(inbox[c]) + 1 /\ Len(inbox[c]) \in Nat
      BY <3>2
    <3>5. ASSUME NEW k \in 1..Len(inbox'[c])
          PROVE  inbox'[c][k] = [from |-> c, n |-> k]
      <4>1. CASE k = Len(inbox[c]) + 1
        BY <1>1, <3>2, <3>3, <4>1
      <4>2. CASE k \in 1..Len(inbox[c])
        <5>1. inbox'[c][k] = inbox[c][k]
          BY <3>2, <4>2
        <5> QED BY <1>1, <4>2, <5>1 DEF EchoInv, Exact
      <4> QED BY <3>4, <4>1, <4>2
    <3>6. Exact(c)'
      BY <3>2, <3>5, <1>1 DEF Exact
    <3>7. InStep(c)'
      BY <1>1, <1>2, <3>1, <3>3, <3>4 DEF InStep
    <3> QED BY <3>6, <3>7
  <2>2. CASE peer[c] # "open"
    <3>1. inbox' = inbox /\ peer'[c] \notin {"new", "open"}
      BY <1>1, <2>2 DEF Write, TypeInv, TypeOK, SockTypeOK
    <3> QED BY <1>1, <3>1 DEF EchoInv, Exact, InStep
  <2> QED BY <2>1, <2>2
<1> QED BY <1>3, <1>4 DEF EchoInv

LEMMA NextEcho ==
  ASSUME TypeInv, PlaceInv, EchoInv, [Next]_vars
  PROVE  EchoInv'
<1> USE DEF TypeInv, TypeOK, SockTypeOK
<1>1. ASSUME NEW c \in Conn, Arrive(c) \/ Leave(c) \/ NetworkReset(c)
      PROVE  EchoInv'
  <2>1. \A d \in Conn : peer'[d] \in {"new", "open"} => peer[d] \in {"new", "open"}
    BY <1>1 DEF Arrive, Connect, Leave, Hangup, NetworkReset, ResetArrives
  <2> QED BY <1>1, <2>1, EchoUnchanged DEF Arrive, Connect, Leave, Hangup,
                                           NetworkReset, ResetArrives, loopVars
<1>2. ASSUME NEW c \in Conn, SendLine(c) \/ ReadAnswer(c) PROVE EchoInv'
  BY <1>2, EchoUnchanged DEF SendLine, ReadAnswer, loopVars
<1>3. CASE Wait
  BY <1>3, EchoUnchanged DEF Wait, sockVars
<1>4. CASE HandleListen
  BY <1>4, EchoUnchanged DEF HandleListen, AcceptAs, sockVars
<1>5. CASE Echo
  <2>1. CASE RaisesSigpipe(fdt[cur]) /\ UNCHANGED sockVars
    <3>1. cur \in Fd /\ fdt[cur] \in Conn /\ buf.from = fdt[cur]
      BY <1>5 DEF Echo, InHand
    <3>2. buf'.from = NoConn /\ NoConn \notin Conn
      BY <1>5, SocketsAssumption DEF Echo, NoMsg
    <3> QED BY <2>1, <3>1, <3>2
            DEF EchoInv, Exact, InStep, RaisesSigpipe, sockVars
  <2>2. CASE Write(fdt[cur], buf)
    BY <1>5, <2>2, WriteEcho DEF Echo, InHand
  <2> QED BY <1>5, <2>1, <2>2 DEF Echo, EchoFd
<1>6. ASSUME NEW f \in Fd, HandleRead(f) PROVE EchoInv'
  <2>1. fdt[f] \in Conn /\ cur = NoFd
    BY <1>6, EventIsOpen DEF HandleRead
  <2>2. CASE Take(fdt[f]) /\ buf' = NextMsg(fdt[f])
    BY <2>1, <2>2, TakeEcho
  <2>3. CASE TakeError(fdt[f]) /\ buf' = buf
    BY <2>1, <2>3, EchoUnchanged DEF TakeError
  <2>4. CASE CloseFd(f) /\ buf' = buf
    BY <2>4, EchoUnchanged DEF CloseFd
  <2> QED BY <1>6, <2>2, <2>3, <2>4 DEF HandleRead, Closed
<1>7. CASE UNCHANGED vars
  BY <1>7, EchoUnchanged DEF vars, sockVars, loopVars
<1> QED BY <1>1, <1>2, <1>3, <1>4, <1>5, <1>6, <1>7 DEF Next, ServerNext

LEMMA EchoInvariant == Spec => []EchoInv
<1>1. ASSUME Init PROVE EchoInv
  <2>1. buf.from = NoConn /\ NoConn \notin Conn
    BY <1>1, SocketsAssumption DEF Init, NoMsg
  <2>2. ASSUME NEW c \in Conn PROVE Len(inbox[c]) = 0 /\ taken[c] = 0
    BY <1>1 DEF Init, SockInit
  <2>3. ASSUME NEW c \in Conn PROVE Exact(c) /\ InStep(c)
    <3>1. buf.from # c
      BY <2>1
    <3>2. Exact(c)
      BY <2>2 DEF Exact
    <3>3. InStep(c)
      BY <2>2, <3>1 DEF InStep
    <3> QED BY <3>2, <3>3
  <2> QED BY <2>3 DEF EchoInv
<1>2. TypeInv /\ PlaceInv /\ EchoInv /\ [Next]_vars => EchoInv'
  BY NextEcho
<1> QED BY <1>1, <1>2, TypeInvariant, PlaceInvariant, PTL DEF Spec

\* A client gets back its own pieces, each once and in order, whatever the
\* other clients do and however descriptors are reused.
THEOREM EchoIsExact == Spec => []EchoExact
<1>1. ASSUME TypeInv, EchoInv PROVE EchoExact
  <2>1. ASSUME NEW c \in Conn, peer[c] = "open"
        PROVE  taken[c] = IF buf.from = c THEN Len(inbox[c]) + 1 ELSE Len(inbox[c])
    BY <1>1, <2>1 DEF EchoInv, InStep
  <2> QED BY <1>1, <2>1 DEF EchoInv, Exact, EchoExact
<1> QED BY <1>1, TypeInvariant, EchoInvariant, PTL

-----------------------------------------------------------------------------
(* The promise of an echo server. *)

TakenSent == \A c \in Conn : taken[c] <= sent[c]

LEMMA TakenInvariant == Spec => []TakenSent
<1>1. ASSUME Init PROVE TakenSent
  <2>1. ASSUME NEW c \in Conn PROVE taken[c] = 0 /\ sent[c] = 0
    BY <1>1 DEF Init, SockInit
  <2>2. ASSUME NEW c \in Conn PROVE taken[c] <= sent[c]
    BY <2>1
  <2> QED BY <2>2 DEF TakenSent
<1>2. TypeInv /\ TakenSent /\ [Next]_vars => TakenSent'
  <2> SUFFICES ASSUME TypeInv, TakenSent, [Next]_vars PROVE TakenSent'
    OBVIOUS
  <2> USE DEF TypeInv, TypeOK, SockTypeOK
  <2>1. ASSUME NEW c \in Conn, SendLine(c) PROVE TakenSent'
    BY <2>1, SocketsAssumption, EpollAssumption DEF SendLine, TakenSent
  <2>2. ASSUME NEW f \in Fd, HandleRead(f) PROVE TakenSent'
    <3>1. fdt[f] \in Conn
      BY <2>2, EventIsOpen DEF HandleRead
    <3>2. CASE Take(fdt[f])
      BY <3>1, <3>2, SocketsAssumption DEF Take, HasData, TakenSent
    <3>3. CASE UNCHANGED <<sent, taken>>
      BY <3>3 DEF TakenSent
    <3> QED BY <2>2, <3>2, <3>3 DEF HandleRead, TakeError, Closed, CloseFd
  <2>3. CASE UNCHANGED <<sent, taken>>
    BY <2>3 DEF TakenSent
  <2> QED BY <2>1, <2>2, <2>3 DEF Next, ServerNext, Wait, HandleListen, AcceptAs, Echo, Write,
          Arrive, Connect, ReadAnswer, Leave, Hangup, NetworkReset, ResetArrives, vars, sockVars
<1> QED BY <1>1, <1>2, TypeInvariant, PTL DEF Spec

LEMMA SendLinePromised ==
  ASSUME TypeInv, NEW c \in Conn, SendLine(c)
  PROVE  Promised!Next
<1>1. PICK k \in 1..LineMax : sent' = [sent EXCEPT ![c] = @ + k]
  BY DEF SendLine
<1>2. sent'[c] = sent[c] + k /\ sent[c] \in Nat /\ k > 0
  <2>1. sent \in [Conn -> 0..MaxSend] /\ k \in Nat /\ k > 0
    BY EpollAssumption DEF TypeInv, TypeOK, SockTypeOK
  <2> QED BY <1>1, <2>1, SocketsAssumption
<1>3. sent' = [sent EXCEPT ![c] = sent'[c]] /\ inbox' = inbox
  BY <1>1, <1>2 DEF SendLine
<1> QED BY <1>2, <1>3 DEF Promised!Next, Promised!Write

LEMMA EchoPromised ==
  ASSUME TypeInv, EchoInv, TakenSent, Echo
  PROVE  Promised!Next \/ UNCHANGED <<sent, inbox>>
<1> USE DEF TypeInv, TypeOK, SockTypeOK
<1> SUFFICES ASSUME inbox' # inbox PROVE Promised!Next
  BY DEF Echo, Write, sockVars
<1>0. cur \in Fd /\ cur # NoFd /\ fdt[cur] \in Conn
  BY SocketsAssumption DEF Echo, InHand
<1> PICK c \in Conn : c = fdt[cur]
  BY <1>0
<1>1. /\ peer[c] = "open" /\ inbox' = [inbox EXCEPT ![c] = Append(@, buf)]
      /\ UNCHANGED sent
  BY DEF Echo, EchoFd, Write, sockVars
<1>2. buf = [from |-> c, n |-> taken[c]]
  BY <1>0 DEF InHand
<1>3. taken[c] = Len(inbox[c]) + 1 /\ taken[c] <= sent[c]
  BY <1>1, <1>2 DEF EchoInv, InStep, TakenSent
<1>4. inbox[c] \in Seq(Msg) /\ Len(inbox[c]) \in Nat
  OBVIOUS
<1>5. Len(inbox[c]) < sent[c]
  BY <1>3, <1>4, SocketsAssumption
<1>6. inbox' = [inbox EXCEPT ![c] = Append(@, [from |-> c, n |-> Len(@) + 1])]
  BY <1>1, <1>2, <1>3
<1> QED BY <1>1, <1>5, <1>6 DEF Promised!Next, Promised!Echo

LEMMA NextPromised ==
  ASSUME TypeInv, EchoInv, TakenSent, [Next]_vars
  PROVE  [Promised!Next]_<<sent, inbox>>
<1>1. CASE Wait \/ HandleListen \/ UNCHANGED vars
  BY <1>1 DEF Wait, HandleListen, AcceptAs, vars, sockVars
<1>2. ASSUME NEW f \in Fd, HandleRead(f) PROVE UNCHANGED <<sent, inbox>>
  BY <1>2 DEF HandleRead, Take, TakeError, Closed, CloseFd
<1>3. ASSUME NEW c \in Conn, Arrive(c) \/ ReadAnswer(c) \/ Leave(c) \/ NetworkReset(c)
      PROVE  UNCHANGED <<sent, inbox>>
  BY <1>3 DEF Arrive, Connect, ReadAnswer, Leave, Hangup, NetworkReset, ResetArrives
<1> QED BY <1>1, <1>2, <1>3, SendLinePromised, EchoPromised DEF Next, ServerNext

\* The server on epoll implements the echo service, as the one on select does:
\* for any number of clients and descriptors and lines of any length.
THEOREM ImplementsEchoService == Spec => EchoSpec
<1>1. Init => Promised!Init
  BY DEF Init, SockInit, Promised!Init
<1>2. TypeInv /\ EchoInv /\ TakenSent /\ [Next]_vars => [Promised!Next]_<<sent, inbox>>
  BY NextPromised
<1> QED BY <1>1, <1>2, TypeInvariant, EchoInvariant, TakenInvariant, PTL
        DEF Spec, EchoSpec, Promised!Spec
-----------------------------------------------------------------------------
(* Short lines do not kill. *)

Held(c) == IF buf.from = c THEN 1 ELSE 0

\* What the server and the client still have to do about the lines of c:
\* pieces to read, one in the server's hands, answers to be read.
Debt(c) == sent[c] - taken[c] + Held(c) + unread[c]

\* A client whose lines are short is owed one answer at most, and nothing
\* when it types, nor when an answer has found it gone.
ShortInv ==
  \A c \in Conn \ long :
    /\ Debt(c) <= 1
    /\ peer[c] = "open" => c \in asking \/ Debt(c) = 0
    /\ peer[c] \in {"new", "poked", "reset", "rst"} => Debt(c) = 0

LEMMA DebtType ==
  ASSUME TypeInv, TakenSent, NEW c \in Conn
  PROVE  /\ sent[c] - taken[c] \in Nat /\ Held(c) \in {0, 1} /\ unread[c] \in Nat
         /\ Debt(c) \in Nat /\ sent[c] \in Nat /\ taken[c] \in Nat
<1>1. sent[c] \in Nat /\ taken[c] \in Nat /\ unread[c] \in Nat /\ taken[c] <= sent[c]
  BY SocketsAssumption DEF TypeInv, TypeOK, SockTypeOK, TakenSent
<1>2. Held(c) \in {0, 1}
  BY DEF Held
<1> QED BY <1>1, <1>2 DEF Debt

\* A step that changes nothing that is owed.
LEMMA ShortUnchanged ==
  ASSUME ShortInv, UNCHANGED <<peer, sent, taken, unread, buf, asking, long>>
  PROVE  ShortInv'
BY DEF ShortInv, Debt, Held

LEMMA ArriveShort ==
  ASSUME TypeInv, ShortInv, NEW c \in Conn, Arrive(c)
  PROVE  ShortInv'
<1>1. UNCHANGED <<sent, taken, unread, buf, asking, long>>
  BY DEF Arrive, Connect
<1>2. peer[c] = "new" /\ peer'[c] = "open" /\ \A d \in Conn \ {c} : peer'[d] = peer[d]
  BY DEF Arrive, Connect, TypeInv, TypeOK, SockTypeOK
<1>3. \A d \in Conn : Debt(d)' = Debt(d)
  BY <1>1 DEF Debt, Held
<1> QED BY <1>1, <1>2, <1>3 DEF ShortInv

LEMMA SendLineShort ==
  ASSUME TypeInv, TakenSent, ShortInv, NEW c \in Conn, SendLine(c)
  PROVE  ShortInv'
<1>1. UNCHANGED <<peer, taken, unread, buf>> /\ asking' = asking \cup {c}
  BY DEF SendLine, loopVars
<1>2. PICK k \in 1..LineMax : /\ sent' = [sent EXCEPT ![c] = @ + k]
                              /\ long' = IF k > 1 THEN long \cup {c} ELSE long
  BY DEF SendLine
<1>3. peer[c] = "open" /\ c \notin asking
  BY DEF SendLine, MayType
<1>4. ASSUME NEW d \in Conn \ {c} PROVE Debt(d)' = Debt(d) /\ (d \in long' <=> d \in long)
  BY <1>1, <1>2, <1>4 DEF Debt, Held, TypeInv, TypeOK, SockTypeOK
<1>5. ASSUME c \notin long' PROVE Debt(c)' = 1
  <2>1. k = 1 /\ long' = long
    BY <1>2, <1>5, EpollAssumption
  <2>2. Debt(c) = 0
    BY <1>3, <1>5, <2>1 DEF ShortInv
  <2>3. sent'[c] = sent[c] + 1
    BY <1>2, <2>1 DEF TypeInv, TypeOK, SockTypeOK
  <2>4. Held(c)' = Held(c)
    BY <1>1 DEF Held
  <2>5. sent[c] - taken[c] \in Nat /\ sent[c] \in Nat /\ taken[c] \in Nat
        /\ Held(c) \in Nat /\ unread[c] \in Nat
    BY DebtType
  <2>6. sent[c] - taken[c] = 0 /\ Held(c) = 0 /\ unread[c] = 0
    BY <2>2, <2>5 DEF Debt
  <2>7. sent'[c] - taken'[c] = 1 /\ Held(c)' = 0 /\ unread'[c] = 0
    BY <1>1, <2>3, <2>4, <2>5, <2>6
  <2> QED BY <2>7 DEF Debt
<1> QED BY <1>1, <1>3, <1>4, <1>5 DEF ShortInv

LEMMA ReadAnswerShort ==
  ASSUME TypeInv, TakenSent, ShortInv, NEW c \in Conn, ReadAnswer(c)
  PROVE  ShortInv'
<1>1. UNCHANGED <<peer, sent, taken, buf, long>> /\ asking' = asking \ {c}
  BY DEF ReadAnswer, loopVars
<1>2. peer[c] = "open" /\ unread[c] > 0
  BY DEF ReadAnswer
<1>3. unread'[c] = 0 /\ \A d \in Conn \ {c} : unread'[d] = unread[d]
  BY DEF ReadAnswer, TypeInv, TypeOK, SockTypeOK
<1>4. \A d \in Conn : Held(d)' = Held(d)
  BY <1>1 DEF Held
<1>5. \A d \in Conn \ {c} : Debt(d)' = Debt(d)
  BY <1>1, <1>3, <1>4 DEF Debt
<1>6. ASSUME c \notin long PROVE Debt(c)' = 0
  <2>1. Debt(c) <= 1
    BY <1>6 DEF ShortInv
  <2> QED BY <1>1, <1>2, <1>3, <1>4, <2>1, DebtType DEF Debt
<1> QED BY <1>1, <1>2, <1>5, <1>6 DEF ShortInv

LEMMA LeaveShort ==
  ASSUME TypeInv, TakenSent, ShortInv, NEW c \in Conn, Leave(c)
  PROVE  ShortInv'
<1>1. UNCHANGED <<sent, taken, buf, long, asking>>
  BY DEF Leave, Hangup, loopVars
<1>2. \A d \in Conn \ {c} : unread'[d] = unread[d] /\ peer'[d] = peer[d]
  BY DEF Leave, Hangup, TypeInv, TypeOK, SockTypeOK
<1>3. /\ peer[c] = "open" /\ unread'[c] = 0
      /\ IF unread[c] = 0 THEN peer'[c] = "fin" ELSE peer'[c] \in {"reset", "poked"}
  BY DEF Leave, Hangup, TypeInv, TypeOK, SockTypeOK
<1>4. \A d \in Conn : Held(d)' = Held(d)
  BY <1>1 DEF Held
<1>5. \A d \in Conn \ {c} : Debt(d)' = Debt(d)
  BY <1>1, <1>2, <1>4 DEF Debt
<1>6. ASSUME c \notin long
      PROVE  Debt(c)' <= 1 /\ (unread[c] # 0 => Debt(c)' = 0)
  <2>1. Debt(c) <= 1
    BY <1>6 DEF ShortInv
  <2>2. Debt(c)' = sent[c] - taken[c] + Held(c)
    BY <1>1, <1>3, <1>4, DebtType DEF Debt
  <2> QED BY <2>1, <2>2, DebtType DEF Debt
<1> QED BY <1>1, <1>2, <1>3, <1>5, <1>6 DEF ShortInv

LEMMA NetworkResetShort ==
  ASSUME TypeInv, ShortInv, NEW c \in Conn, NetworkReset(c)
  PROVE  ShortInv'
<1>1. UNCHANGED <<sent, taken, unread, buf, long, asking>>
  BY DEF NetworkReset, ResetArrives, loopVars
<1>2. peer[c] = "poked" /\ peer'[c] = "rst" /\ \A d \in Conn \ {c} : peer'[d] = peer[d]
  BY DEF NetworkReset, ResetArrives, TypeInv, TypeOK, SockTypeOK
<1>3. \A d \in Conn : Debt(d)' = Debt(d)
  BY <1>1 DEF Debt, Held
<1> QED BY <1>1, <1>2, <1>3 DEF ShortInv

\* A read moves a piece from the connection into the server's hands.
LEMMA TakeShort ==
  ASSUME TypeInv, TakenSent, ShortInv, NEW c \in Conn, cur = NoFd,
         Take(c), buf' = NextMsg(c), UNCHANGED clientVars
  PROVE  ShortInv'
<1>1. buf.from = NoConn /\ NoConn \notin Conn /\ buf'.from = c
  BY SocketsAssumption DEF TypeInv, InHand, NoMsg, NextMsg
<1>2. UNCHANGED <<peer, sent, unread, long, asking>>
  BY DEF Take
<1>3. taken'[c] = taken[c] + 1 /\ \A d \in Conn \ {c} : taken'[d] = taken[d]
  BY DEF Take, TypeInv, TypeOK, SockTypeOK
<1>4. Held(c) = 0 /\ Held(c)' = 1 /\ \A d \in Conn \ {c} : Held(d) = 0 /\ Held(d)' = 0
  BY <1>1 DEF Held
<1>5. \A d \in Conn \ {c} : Debt(d)' = Debt(d)
  BY <1>2, <1>3, <1>4 DEF Debt
<1>6. Debt(c)' = Debt(c)
  BY <1>2, <1>3, <1>4, DebtType DEF Debt
<1> QED BY <1>2, <1>5, <1>6 DEF ShortInv

LEMMA TakeErrorShort ==
  ASSUME TypeInv, ShortInv, NEW c \in Conn, TakeError(c), UNCHANGED <<buf, clientVars>>
  PROVE  ShortInv'
<1>1. UNCHANGED <<sent, taken, unread, long, asking>>
  BY DEF TakeError
<1>2. peer[c] = "reset" /\ peer'[c] = "rst" /\ \A d \in Conn \ {c} : peer'[d] = peer[d]
  BY DEF TakeError, HasError, TypeInv, TypeOK, SockTypeOK
<1>3. \A d \in Conn : Debt(d)' = Debt(d)
  BY <1>1 DEF Debt, Held
<1> QED BY <1>1, <1>2, <1>3 DEF ShortInv

\* A write hands the piece over, or finds the client gone.
LEMMA WriteShort ==
  ASSUME TypeInv, TakenSent, ShortInv, Echo, NEW c \in Conn, c = fdt[cur], Write(c, buf)
  PROVE  ShortInv'
<1>1. buf.from = c /\ buf'.from = NoConn /\ NoConn \notin Conn
  BY SocketsAssumption DEF Echo, TypeInv, InHand, NoMsg
<1>2. UNCHANGED <<sent, taken, long, asking>>
  BY DEF Echo, Write
<1>3. Held(c) = 1 /\ Held(c)' = 0 /\ \A d \in Conn \ {c} : Held(d) = 0 /\ Held(d)' = 0
  BY <1>1 DEF Held
<1>4. \A d \in Conn \ {c} : unread'[d] = unread[d] /\ peer'[d] = peer[d]
  BY DEF Write, TypeInv, TypeOK, SockTypeOK
<1>5. \A d \in Conn \ {c} : Debt(d)' = Debt(d)
  BY <1>2, <1>3, <1>4 DEF Debt
<1>6. CASE peer[c] = "open"
  <2>1. unread'[c] = unread[c] + 1 /\ peer' = peer
    BY <1>6 DEF Write, TypeInv, TypeOK, SockTypeOK
  <2>2. Debt(c)' = sent[c] - taken[c] + 0 + (unread[c] + 1)
    BY <1>2, <1>3, <2>1 DEF Debt
  <2>3. Debt(c) = sent[c] - taken[c] + 1 + unread[c]
    BY <1>3 DEF Debt
  <2>4. Debt(c)' = Debt(c)
    BY <2>2, <2>3, DebtType
  <2> QED BY <1>2, <1>5, <2>1, <2>4 DEF ShortInv
<1>7. CASE peer[c] # "open"
  <2>1. unread'[c] = unread[c] /\ peer'[c] \in {"poked", "rst"}
    BY <1>7 DEF Write, TypeInv, TypeOK, SockTypeOK
  <2>2. Debt(c)' = Debt(c) - 1
    BY <1>2, <1>3, <2>1, DebtType DEF Debt
  <2>3. ASSUME c \notin long PROVE Debt(c)' = 0
    <3>1. Debt(c) <= 1 /\ Debt(c) >= 1
      BY <1>3, <2>3, DebtType DEF ShortInv, Debt
    <3> QED BY <2>2, <3>1, DebtType
  <2> QED BY <1>2, <1>4, <1>5, <2>1, <2>3 DEF ShortInv
<1> QED BY <1>6, <1>7

LEMMA EchoShort ==
  ASSUME TypeInv, TakenSent, ShortInv, Echo, proc = "up"
  PROVE  ShortInv' /\ ShortLinesDoNotKill'
<1>1. /\ cur \in Fd /\ fdt[cur] \in Conn /\ buf.from = fdt[cur]
      /\ buf'.from = NoConn /\ NoConn \notin Conn
  BY SocketsAssumption DEF Echo, TypeInv, InHand, NoMsg
<1> PICK c \in Conn : c = fdt[cur]
  BY <1>1
<1>2. CASE Write(c, buf) /\ UNCHANGED proc
  BY <1>2, WriteShort DEF ShortLinesDoNotKill
<1>3. CASE RaisesSigpipe(c) /\ UNCHANGED sockVars
  <2>1. Held(c) = 1 /\ peer[c] = "rst" /\ UNCHANGED <<long, asking>>
    BY <1>1, <1>3 DEF Held, RaisesSigpipe, Echo
  <2>2. c \in long
    <3>1. Debt(c) # 0
      BY <2>1, DebtType DEF Debt
    <3> QED BY <2>1, <3>1 DEF ShortInv
  <2>3. \A d \in Conn \ {c} : Held(d) = 0 /\ Held(d)' = 0
    BY <1>1 DEF Held
  <2>4. \A d \in Conn \ {c} : Debt(d)' = Debt(d)
    BY <1>3, <2>3 DEF Debt, sockVars
  <2>5. ShortInv'
    BY <1>3, <2>1, <2>2, <2>4 DEF ShortInv, sockVars
  <2> QED BY <1>3, <2>1, <2>2, <2>5 DEF ShortLinesDoNotKill, sockVars
<1> QED BY <1>2, <1>3 DEF Echo, EchoFd

LEMMA NextShort ==
  ASSUME TypeInv, TakenSent, ShortInv, Next
  PROVE  ShortInv'
<1>1. CASE Wait
  BY <1>1, ShortUnchanged DEF Wait, sockVars
<1>2. CASE HandleListen
  BY <1>2, ShortUnchanged DEF HandleListen, AcceptAs, sockVars
<1>3. ASSUME NEW f \in Fd, HandleRead(f) PROVE ShortInv'
  <2>1. fdt[f] \in Conn /\ cur = NoFd /\ UNCHANGED clientVars
    BY <1>3, EventIsOpen DEF HandleRead
  <2>2. CASE Take(fdt[f]) /\ buf' = NextMsg(fdt[f])
    BY <2>1, <2>2, TakeShort
  <2>3. CASE TakeError(fdt[f]) /\ buf' = buf
    BY <2>1, <2>3, TakeErrorShort
  <2>4. CASE CloseFd(f) /\ buf' = buf
    BY <2>1, <2>4, ShortUnchanged DEF CloseFd
  <2> QED BY <1>3, <2>2, <2>3, <2>4 DEF HandleRead, Closed
<1> QED BY <1>1, <1>2, <1>3, EchoShort, ArriveShort, SendLineShort, ReadAnswerShort,
           LeaveShort, NetworkResetShort DEF Next, ServerNext

\* Only a client with a line longer than one read brings the server down: for
\* any number of clients, whenever and however they leave.
THEOREM ShortLinesAreSafe == Spec => []ShortLinesDoNotKill
<1>1. ASSUME Init PROVE ShortInv /\ ShortLinesDoNotKill
  <2>1. buf.from = NoConn /\ NoConn \notin Conn
    BY <1>1, SocketsAssumption DEF Init, NoMsg
  <2>2. \A c \in Conn : sent[c] = 0 /\ taken[c] = 0 /\ unread[c] = 0 /\ Held(c) = 0
    BY <1>1, <2>1 DEF Init, SockInit, Held
  <2>3. ASSUME NEW c \in Conn PROVE Debt(c) = 0
    <3>1. Debt(c) = 0 - 0 + 0 + 0
      BY <2>2 DEF Debt
    <3> QED BY <3>1
  <2> QED BY <1>1, <2>3 DEF Init, ShortInv, ShortLinesDoNotKill
<1>2. ASSUME TypeInv, TakenSent, ShortInv, ShortLinesDoNotKill, [Next]_vars
      PROVE  ShortInv' /\ ShortLinesDoNotKill'
  <2>1. CASE UNCHANGED vars
    BY <1>2, <2>1, ShortUnchanged
       DEF vars, sockVars, loopVars, ShortLinesDoNotKill
  <2>2. CASE Next /\ proc' = proc
    BY <1>2, <2>2, NextShort DEF Next, ShortLinesDoNotKill
  <2>3. CASE Next /\ proc' # proc
    <3>1. Echo
      BY <2>3 DEF Next, ServerNext, Wait, HandleListen, HandleRead, Arrive, SendLine,
                  ReadAnswer, Leave, NetworkReset, loopVars
    <3> QED BY <1>2, <2>3, <3>1, EchoShort DEF Next
  <2> QED BY <1>2, <2>1, <2>2, <2>3
<1> QED BY <1>1, <1>2, TypeInvariant, TakenInvariant, PTL DEF Spec

-----------------------------------------------------------------------------
(* Datagrams: types. *)

USE DEF net, server, clients

LEMMA RemoveAtType ==
  ASSUME NEW S, NEW s \in Seq(S), NEW i \in 1..Len(s)
  PROVE  /\ RemoveAt(s, i) \in Seq(S) /\ Len(RemoveAt(s, i)) = Len(s) - 1
         /\ \A j \in 1..Len(s) - 1 : RemoveAt(s, i)[j] = IF j < i THEN s[j] ELSE s[j + 1]
<1>1. Len(s) \in Nat /\ \A j \in 1..Len(s) : s[j] \in S
  BY LenProperties, ElementOfSeq
<1>2. PICK a \in Int : a = i - 1
  OBVIOUS
<1>3. PICK b \in Int : b = i + 1
  OBVIOUS
<1>4. PICK n \in Int : n = Len(s)
  BY <1>1
<1>5. /\ SubSeq(s, 1, a) \in Seq(S) /\ Len(SubSeq(s, 1, a)) = a
      /\ \A j \in 1..a : SubSeq(s, 1, a)[j] = s[j]
  <2>1. \A j \in 1..a : s[j] \in S
    BY <1>1, <1>2
  <2>2. /\ SubSeq(s, 1, a) \in Seq(S)
        /\ Len(SubSeq(s, 1, a)) = IF 1 <= a THEN a - 1 + 1 ELSE 0
        /\ \A j \in 1..a - 1 + 1 : SubSeq(s, 1, a)[j] = s[1 + j - 1]
    BY <2>1, SubSeqProperties
  <2>3. (IF 1 <= a THEN a - 1 + 1 ELSE 0) = a /\ a - 1 + 1 = a /\ \A j \in 1..a : 1 + j - 1 = j
    BY <1>2
  <2> QED BY <2>2, <2>3
<1>6. /\ SubSeq(s, b, n) \in Seq(S) /\ Len(SubSeq(s, b, n)) = n - i
      /\ \A j \in 1..n - i : SubSeq(s, b, n)[j] = s[i + j]
  <2>1. \A j \in b..n : s[j] \in S
    BY <1>1, <1>3, <1>4
  <2>2. /\ SubSeq(s, b, n) \in Seq(S)
        /\ Len(SubSeq(s, b, n)) = IF b <= n THEN n - b + 1 ELSE 0
        /\ \A j \in 1..n - b + 1 : SubSeq(s, b, n)[j] = s[b + j - 1]
    BY <2>1, SubSeqProperties
  <2>3. /\ (IF b <= n THEN n - b + 1 ELSE 0) = n - i /\ n - b + 1 = n - i
        /\ \A j \in 1..n - i : b + j - 1 = i + j
    BY <1>1, <1>3, <1>4
  <2> QED BY <2>2, <2>3
<1>7. RemoveAt(s, i) = SubSeq(s, 1, a) \o SubSeq(s, b, n)
  BY <1>2, <1>3, <1>4 DEF RemoveAt
<1>8. /\ RemoveAt(s, i) \in Seq(S) /\ Len(RemoveAt(s, i)) = a + (n - i)
      /\ \A j \in 1..a + (n - i) :
           RemoveAt(s, i)[j] = IF j <= a THEN SubSeq(s, 1, a)[j] ELSE SubSeq(s, b, n)[j - a]
  <2>1. PICK p \in Seq(S), q \in Seq(S) : p = SubSeq(s, 1, a) /\ q = SubSeq(s, b, n)
    BY <1>5, <1>6
  <2>2. /\ p \o q \in Seq(S) /\ Len(p \o q) = Len(p) + Len(q)
        /\ \A j \in 1..Len(p) + Len(q) : (p \o q)[j] = IF j <= Len(p) THEN p[j] ELSE q[j - Len(p)]
    BY ConcatProperties
  <2>3. Len(p) = a /\ Len(q) = n - i /\ RemoveAt(s, i) = p \o q
    BY <1>5, <1>6, <1>7, <2>1
  <2> QED BY <2>1, <2>2, <2>3
<1>9. a + (n - i) = Len(s) - 1
  BY <1>1, <1>2, <1>4
<1>10. ASSUME NEW j \in 1..Len(s) - 1
       PROVE  RemoveAt(s, i)[j] = IF j < i THEN s[j] ELSE s[j + 1]
  <2>1. CASE j < i
    <3>1. j <= a /\ j \in 1..a
      BY <1>1, <1>2, <2>1
    <3> QED BY <1>5, <1>8, <1>9, <2>1, <3>1
  <2>2. CASE ~(j < i)
    <3>1. ~(j <= a) /\ j - a \in 1..n - i /\ i + (j - a) = j + 1
      BY <1>1, <1>2, <1>4, <2>2
    <3> QED BY <1>6, <1>8, <1>9, <2>2, <3>1
  <2> QED BY <2>1, <2>2
<1> QED BY <1>8, <1>9, <1>10

Paths == [Client -> Seq(Line)]

LEMMA PathType ==
  ASSUME NEW path \in Paths, NEW c \in Client
  PROVE  /\ \A m \in Line : Sent(path, c, m) \in Paths
         /\ \A i \in 1..Len(path[c]) : path[c][i] \in Line /\ Received(path, c, i) \in Paths
<1> USE DEF Paths
<1>1. path[c] \in Seq(Line)
  OBVIOUS
<1>2. ASSUME NEW m \in Line PROVE Sent(path, c, m) \in Paths
  BY <1>1, AppendProperties DEF Sent
<1>3. ASSUME NEW i \in 1..Len(path[c]) PROVE path[c][i] \in Line /\ Received(path, c, i) \in Paths
  <2>1. RemoveAt(path[c], i) \in Seq(Line)
    BY <1>1, RemoveAtType
  <2> QED BY <1>1, <2>1, ElementOfSeq DEF Received
<1> QED BY <1>2, <1>3

LEMMA InitTalkType == TalkInit => TalkTypeOK
<1> SUFFICES ASSUME TalkInit PROVE TalkTypeOK
  OBVIOUS
<1>1. NoLine \in Line
  BY DEF NoLine, Line
<1>2. <<>> \in Seq(Line) /\ 0 \in 0..MaxLine
  BY DatagramAssumption
<1> QED BY <1>1, <1>2 DEF TalkInit, TalkTypeOK

LEMMA TypedType ==
  ASSUME TalkTypeOK, NEW u \in Client \cup {Server}, typed[u] < MaxLine
  PROVE  /\ [typed EXCEPT ![u] = @ + 1] \in [Client \cup {Server} -> 0..MaxLine]
         /\ [by |-> u, n |-> typed[u] + 1] \in Line
<1>1. typed[u] \in 0..MaxLine /\ MaxLine \in Nat
  BY DatagramAssumption DEF TalkTypeOK
<1>2. typed[u] + 1 \in 0..MaxLine /\ typed[u] + 1 \in Nat
  BY <1>1
<1> QED BY <1>2 DEF TalkTypeOK, Line

LEMMA ServerType ==
  ASSUME TalkTypeOK, TalkServerNext
  PROVE  TalkTypeOK'
<1> USE DEF TalkTypeOK
<1>0. UNCHANGED <<prog, clients>>
  BY DEF TalkServerNext
<1>1. ASSUME NEW from \in {"recv", "recv_echo"}, NEW to \in {"echo", "recv"}, Receive(from, to)
      PROVE  TalkTypeOK'
  <2>1. PICK c \in Client : \E i \in 1..Len(toServer[c]) :
          /\ message' = toServer[c][i] /\ toServer' = Received(toServer, c, i)
          /\ adr' = SenderAddress(c) /\ Overtakes(i)
    BY <1>1 DEF Receive
  <2>2. PICK i \in 1..Len(toServer[c]) :
          /\ message' = toServer[c][i] /\ toServer' = Received(toServer, c, i)
          /\ adr' = SenderAddress(c) /\ Overtakes(i)
    BY <2>1
  <2>3. message' \in Line /\ toServer' \in [Client -> Seq(Line)]
    BY <2>2, PathType DEF Paths
  <2>4. overtaken' \in BOOLEAN /\ adr' \in Client
    BY <2>2 DEF Overtakes, SenderAddress
  <2> QED BY <1>0, <1>1, <2>3, <2>4 DEF Receive
<1>2. ASSUME NEW from, NEW to \in {"recv", "type", "recv_echo"}, SendTo(from, to)
      PROVE  TalkTypeOK'
  <2>1. toClient' \in [Client -> Seq(Line)]
    <3>1. CASE adr \in Client
      BY <1>2, <3>1, PathType DEF SendTo, Paths
    <3>2. CASE adr \notin Client
      BY <1>2, <3>2 DEF SendTo, Sent
    <3> QED BY <3>1, <3>2
  <2> QED BY <1>0, <1>2, <2>1 DEF SendTo
<1>3. CASE TypeAtServer
  <2>1. CASE typed[Server] < MaxLine /\ typed' = [typed EXCEPT ![Server] = @ + 1]
             /\ message' = [by |-> Server, n |-> typed[Server] + 1] /\ at' = "send"
    BY <1>0, <1>3, <2>1, TypedType DEF TypeAtServer
  <2>2. CASE at' = "end" /\ UNCHANGED <<typed, message>>
    BY <1>0, <1>3, <2>2 DEF TypeAtServer
  <2> QED BY <1>3, <2>1, <2>2 DEF TypeAtServer
<1> QED BY <1>1, <1>2, <1>3 DEF TalkServerNext, AfterEcho

LEMMA TalkClientType ==
  ASSUME TalkTypeOK, NEW c \in Client, TalkClientNext(c)
  PROVE  TalkTypeOK'
<1> USE DEF TalkTypeOK
<1>0. UNCHANGED <<prog, server>>
  BY DEF TalkClientNext, Program
<1>1. CASE TypeAtClient(c)
  <2>1. CASE typed[c] < MaxLine /\ typed' = [typed EXCEPT ![c] = @ + 1]
             /\ cmessage' = [cmessage EXCEPT ![c] = [by |-> c, n |-> typed[c] + 1]]
             /\ Goes(c, "send")
    BY <1>0, <1>1, <2>1, TypedType DEF TypeAtClient, Goes
  <2>2. CASE Goes(c, "left") /\ UNCHANGED <<typed, cmessage>>
    BY <1>0, <1>1, <2>2 DEF TypeAtClient, Goes
  <2> QED BY <1>1, <2>1, <2>2 DEF TypeAtClient
<1>2. CASE SendDatagram(c)
  <2>1. toServer' \in [Client -> Seq(Line)]
    BY <1>2, PathType DEF SendDatagram, Paths
  <2> QED BY <1>0, <1>2, <2>1 DEF SendDatagram, Goes
<1>3. ASSUME NEW from \in {"recv_echo", "recv_line"}, NEW to \in {"type", "recv_line", "send_back"},
             ReceiveLine(c, from, to)
      PROVE  TalkTypeOK'
  <2>1. PICK i \in 1..Len(toClient[c]) :
          /\ cmessage' = [cmessage EXCEPT ![c] = toClient[c][i]]
          /\ answers' = IF from = "recv_echo"
                        THEN [answers EXCEPT ![c] = Append(@, toClient[c][i])] ELSE answers
          /\ toClient' = Received(toClient, c, i) /\ Overtakes(i)
    BY <1>3 DEF ReceiveLine
  <2>2. toClient[c][i] \in Line /\ toClient' \in [Client -> Seq(Line)]
    BY <2>1, PathType DEF Paths
  <2>3. answers' \in [Client -> Seq(Line)]
    <3>1. Append(answers[c], toClient[c][i]) \in Seq(Line)
      BY <2>2, AppendProperties
    <3> QED BY <2>1, <3>1
  <2>4. cmessage' \in [Client -> Line] /\ overtaken' \in BOOLEAN
    BY <2>1, <2>2 DEF Overtakes
  <2> QED BY <1>0, <1>3, <2>2, <2>3, <2>4 DEF ReceiveLine, Goes
<1>4. CASE SendBack(c)
  BY <1>0, <1>4 DEF SendBack, Goes, net
<1> QED BY <1>1, <1>2, <1>3, <1>4 DEF TalkClientNext, Program, AfterAnswer

LEMMA NetworkType ==
  ASSUME TalkTypeOK, NEW c \in Client, Lose(c) \/ Double(c)
  PROVE  TalkTypeOK'
<1> USE DEF TalkTypeOK
<1>1. toServer' \in [Client -> Seq(Line)] /\ toClient' \in [Client -> Seq(Line)]
  <2>1. toServer \in Paths /\ toClient \in Paths
    BY DEF Paths
  <2>2. \/ \E i \in 1..Len(toServer[c]) : toServer' = Received(toServer, c, i)
                                        \/ toServer' = Sent(toServer, c, toServer[c][i])
        \/ toServer' = toServer
    BY DEF Lose, Double
  <2>3. \/ \E i \in 1..Len(toClient[c]) : toClient' = Received(toClient, c, i)
                                        \/ toClient' = Sent(toClient, c, toClient[c][i])
        \/ toClient' = toClient
    BY DEF Lose, Double
  <2>4. toServer' \in Paths
    BY <2>1, <2>2, PathType
  <2>5. toClient' \in Paths
    BY <2>1, <2>3, PathType
  <2> QED BY <2>4, <2>5 DEF Paths
<1>2. lost' \in Nat /\ twice' \in Nat
  BY DEF Lose, Double
<1>3. UNCHANGED <<prog, typed, overtaken, server, clients>>
  BY DEF Lose, Double
<1> QED BY <1>1, <1>2, <1>3

LEMMA NextTalkType == TalkTypeOK /\ [TalkNext]_talkVars => TalkTypeOK'
<1>1. CASE UNCHANGED talkVars
  BY <1>1 DEF talkVars, TalkTypeOK
<1> QED BY <1>1, ServerType, TalkClientType, NetworkType DEF TalkNext

\* Every variable keeps its type.
THEOREM TalkTypeCorrect == TalkSpec => []TalkTypeOK
BY InitTalkType, NextTalkType, PTL DEF TalkSpec

-----------------------------------------------------------------------------
(* What a path holds after a datagram was sent or received. *)

LEMMA SentPath ==
  ASSUME NEW path \in Paths, NEW c \in Client, NEW m \in Line
  PROVE  /\ Len(Sent(path, c, m)[c]) = Len(path[c]) + 1
         /\ ToSet(Sent(path, c, m)[c]) = ToSet(path[c]) \cup {m}
         /\ \A j \in 1..Len(path[c]) : Sent(path, c, m)[c][j] = path[c][j]
         /\ Sent(path, c, m)[c][Len(path[c]) + 1] = m
         /\ \A d \in Client \ {c} : Sent(path, c, m)[d] = path[d]
<1>1. path[c] \in Seq(Line) /\ Sent(path, c, m)[c] = Append(path[c], m)
      /\ \A d \in Client \ {c} : Sent(path, c, m)[d] = path[d]
  BY DEF Paths, Sent
<1>2. PICK s \in Seq(Line) : s = path[c]
  BY <1>1
<1>3. /\ Len(s) \in Nat /\ Append(s, m) \in Seq(Line) /\ Len(Append(s, m)) = Len(s) + 1
      /\ \A j \in 1..Len(s) : Append(s, m)[j] = s[j]
      /\ Append(s, m)[Len(s) + 1] = m
  BY AppendProperties, LenProperties
<1>4. ToSet(Append(s, m)) = ToSet(s) \cup {m}
  <2>1. DOMAIN s = 1..Len(s) /\ DOMAIN Append(s, m) = 1..Len(s) + 1
    BY <1>3, LenProperties
  <2>2. 1..Len(s) + 1 = (1..Len(s)) \cup {Len(s) + 1}
    BY <1>3
  <2> QED BY <1>3, <2>1, <2>2 DEF ToSet
<1> QED BY <1>1, <1>2, <1>3, <1>4

LEMMA ReceivedPath ==
  ASSUME NEW path \in Paths, NEW c \in Client, NEW i \in 1..Len(path[c])
  PROVE  /\ path[c][i] \in ToSet(path[c])
         /\ Len(path[c]) \in Nat
         /\ Len(Received(path, c, i)[c]) = Len(path[c]) - 1
         /\ ToSet(Received(path, c, i)[c]) \subseteq ToSet(path[c])
         /\ \A j \in 1..Len(path[c]) - 1 :
              Received(path, c, i)[c][j] = IF j < i THEN path[c][j] ELSE path[c][j + 1]
         /\ \A d \in Client \ {c} : Received(path, c, i)[d] = path[d]
<1>1. path[c] \in Seq(Line) /\ Received(path, c, i)[c] = RemoveAt(path[c], i)
      /\ \A d \in Client \ {c} : Received(path, c, i)[d] = path[d]
  BY DEF Paths, Received
<1>2. PICK s \in Seq(Line) : s = path[c]
  BY <1>1
<1>3. /\ Len(s) \in Nat /\ Len(RemoveAt(s, i)) = Len(s) - 1 /\ RemoveAt(s, i) \in Seq(Line)
      /\ \A j \in 1..Len(s) - 1 : RemoveAt(s, i)[j] = IF j < i THEN s[j] ELSE s[j + 1]
  BY <1>2, RemoveAtType, LenProperties
<1>4. DOMAIN s = 1..Len(s) /\ DOMAIN RemoveAt(s, i) = 1..Len(s) - 1
  BY <1>3, LenProperties
<1>5. ToSet(RemoveAt(s, i)) \subseteq ToSet(s)
  <2>1. ASSUME NEW j \in 1..Len(s) - 1 PROVE RemoveAt(s, i)[j] \in ToSet(s)
    <3>1. j \in 1..Len(s) /\ j + 1 \in 1..Len(s)
      BY <1>3
    <3>2. s[j] \in ToSet(s) /\ s[j + 1] \in ToSet(s)
      BY <1>4, <3>1 DEF ToSet
    <3> QED BY <1>3, <3>2
  <2> QED BY <1>4, <2>1 DEF ToSet
<1>6. s[i] \in ToSet(s)
  BY <1>2, <1>4 DEF ToSet
<1> QED BY <1>1, <1>2, <1>3, <1>5, <1>6

-----------------------------------------------------------------------------
(* Both programs: a client has as many answers as lines, but for the one it *)
(* is at.                                                                   *)

Waits(c) == IF cat[c] \in {"send", "recv_echo"} THEN 1 ELSE 0

Counted(c) ==
  /\ Len(answers[c]) + Waits(c) = typed[c]
  /\ cat[c] = "send" => cmessage[c] = [by |-> c, n |-> typed[c]]

BaseInv ==
  /\ \A c \in Client : Counted(c)
  /\ at # "recv" => adr \in Client
  /\ IsFiniteSet(Talkers)

(* uecho: the datagrams on a client's paths are its lines, and but for one  *)
(* that came twice they are one at most, the line it waits for.             *)

EchoInHand(c) == at = "echo" /\ adr = c

Quiet(c) == Len(toServer[c]) = 0 /\ Len(toClient[c]) = 0 /\ ~EchoInHand(c)

OnlyOne(c) ==
  \/ Len(toServer[c]) = 1 /\ Len(toClient[c]) = 0 /\ ~EchoInHand(c)
  \/ Len(toServer[c]) = 0 /\ Len(toClient[c]) = 1 /\ ~EchoInHand(c)
  \/ Len(toServer[c]) = 0 /\ Len(toClient[c]) = 0 /\ EchoInHand(c)

Around(c) == ToSet(toServer[c]) \cup ToSet(toClient[c]) \cup IF EchoInHand(c) THEN {message} ELSE {}

Uecho(c) ==
  /\ at \in {"recv", "echo"}
  /\ cat[c] \in {"type", "send", "recv_echo", "left"}
  /\ \A m \in Around(c) : m.by = c /\ m.n <= typed[c]
  /\ twice = 0 => /\ Quiet(c) \/ (cat[c] = "recv_echo" /\ OnlyOne(c))
                  /\ \A m \in Around(c) : m.n = typed[c]

UechoInv == prog = "uecho" => \A c \in Client : Uecho(c)

(* chat, while no datagram was lost, doubled or overtaken. *)

Calm == lost = 0 /\ twice = 0 /\ ~overtaken

Owed(c) == adr = c /\ at \in {"echo", "type", "send"}

Idle(c) == Len(toServer[c]) = 0 /\ Len(toClient[c]) = 0 /\ ~Owed(c)

\* A client in recv_echo has its line on the way to the server, or in the
\* server's hands, or behind it the echo and then the line of the server; or
\* nothing at all, when the server took the line for an echo.
AwaitsEcho(c) ==
  LET mine == [by |-> c, n |-> typed[c]] IN
    /\ Len(toServer[c]) > 0 => /\ Len(toServer[c]) = 1 /\ toServer[c][1] = mine
                               /\ Len(toClient[c]) = 0 /\ ~Owed(c)
    /\ Len(toClient[c]) > 0 => Len(toClient[c]) <= 2 /\ toClient[c][1] = mine
    /\ EchoInHand(c) => message = mine /\ Len(toClient[c]) = 0
    /\ Owed(c) /\ ~EchoInHand(c) => Len(toClient[c]) = 1

AwaitsLine(c) ==
  /\ Len(toServer[c]) = 0 /\ Len(toClient[c]) <= 1
  /\ ~EchoInHand(c) /\ (Owed(c) => Len(toClient[c]) = 0)

Chat(c) ==
  /\ cat[c] \in {"type", "left", "send", "send_back"} => Idle(c)
  /\ cat[c] = "recv_echo" => AwaitsEcho(c)
  /\ cat[c] = "recv_line" => AwaitsLine(c)

ChatInv == prog = "chat" /\ Calm => \A c \in Client : Chat(c)

\* The conversation of a client that is alone ends with its second line.
Alone(c) == typed[c] > 0 /\ \A d \in Client \ {c} : typed[d] = 0

Stuck(c) == typed[c] = 2 /\ cat[c] \in {"send", "recv_echo"} /\ Len(toClient[c]) = 0

Lone(c) ==
  /\ at = "recv" => \/ typed[c] = 1 /\ cat[c] \in {"send", "recv_echo"} /\ Len(toClient[c]) = 0
                    \/ Stuck(c) /\ cat[c] = "recv_echo" /\ Len(toServer[c]) = 0
  /\ at \in {"echo", "type", "send", "end"} => typed[c] = 1 /\ adr = c
  /\ at = "end" => /\ cat[c] \in {"recv_echo", "recv_line"}
                   /\ Len(toServer[c]) = 0
                   /\ Len(toClient[c]) = IF cat[c] = "recv_echo" THEN 1 ELSE 0
  /\ at = "recv_echo" => typed[c] = 1 \/ Stuck(c)

LoneInv ==
  prog = "chat" /\ Calm =>
    /\ (\A c \in Client : typed[c] = 0) => at = "recv"
    /\ \A c \in Client : Alone(c) => Lone(c)
-----------------------------------------------------------------------------
(* What the steps do. *)

LEMMA ReceiveDoes ==
  ASSUME TalkTypeOK, NEW from, NEW to, Receive(from, to)
  PROVE  \E c \in Client : \E i \in 1..Len(toServer[c]) :
           /\ at = from /\ at' = to /\ adr' = c
           /\ message' = toServer[c][i] /\ toServer' = Received(toServer, c, i)
           /\ overtaken' = (overtaken \/ i > 1)
           /\ UNCHANGED <<typed, toClient, lost, twice>>
BY DEF Receive, SenderAddress, Overtakes

\* No count goes down.
LEMMA TypedGrows ==
  ASSUME TalkTypeOK, [TalkNext]_talkVars
  PROVE  \A u \in Client \cup {Server} :
           typed[u] \in Nat /\ typed'[u] \in Nat /\ typed[u] <= typed'[u]
<1> USE DatagramAssumption DEF TalkTypeOK
<1>1. CASE TalkServerNext
  <2>1. typed' = typed \/ typed' = [typed EXCEPT ![Server] = @ + 1]
    BY <1>1 DEF TalkServerNext, Receive, SendTo, TypeAtServer
  <2> QED BY <2>1
<1>2. ASSUME NEW c \in Client, TalkClientNext(c) \/ Lose(c) \/ Double(c)
      PROVE  typed' = typed \/ typed' = [typed EXCEPT ![c] = @ + 1]
  BY <1>2 DEF TalkClientNext, Program, TypeAtClient, SendDatagram, ReceiveLine, SendBack, Lose, Double
<1>3. CASE \E c \in Client : TalkClientNext(c) \/ Lose(c) \/ Double(c)
  <2>1. PICK c \in Client : TalkClientNext(c) \/ Lose(c) \/ Double(c)
    BY <1>3
  <2>2. typed' = typed \/ typed' = [typed EXCEPT ![c] = @ + 1]
    BY <1>2, <2>1, Zenon
  <2>3. c \in Client \cup {Server} /\ \A u \in Client \cup {Server} : typed[u] \in Nat
    OBVIOUS
  <2>4. \A u \in Client \cup {Server} : typed'[u] = typed[u] \/ typed'[u] = typed[u] + 1
    BY <2>2
  <2>5. ASSUME NEW u \in Client \cup {Server}
        PROVE  typed[u] \in Nat /\ typed'[u] \in Nat /\ typed[u] <= typed'[u]
    <3>1. PICK n \in Nat : n = typed[u]
      BY <2>3
    <3>2. typed'[u] = n \/ typed'[u] = n + 1
      BY <2>4, <3>1
    <3> QED BY <3>1, <3>2
  <2> QED BY <2>5
<1>4. CASE UNCHANGED talkVars
  BY <1>4 DEF talkVars
<1> QED BY <1>1, <1>3, <1>4 DEF TalkNext

LEMMA FaultsGrow ==
  ASSUME TalkTypeOK, [TalkNext]_talkVars
  PROVE  /\ prog' = prog
         /\ lost' = 0 => lost' = lost
         /\ twice' = 0 => twice' = twice
         /\ overtaken => overtaken'
<1>1. ASSUME TalkServerNext PROVE UNCHANGED <<prog, lost, twice>> /\ (overtaken => overtaken')
  <2>1. ASSUME NEW from, NEW to, Receive(from, to)
        PROVE  UNCHANGED <<lost, twice>> /\ (overtaken => overtaken')
    <3>1. PICK i \in Int : overtaken' = (overtaken \/ i > 1)
      BY <2>1, ReceiveDoes
    <3>2. overtaken => overtaken'
      BY <3>1, Zenon
    <3> QED BY <2>1, <3>2 DEF Receive
  <2>2. ASSUME NEW from, NEW to, SendTo(from, to) \/ TypeAtServer
        PROVE  UNCHANGED <<lost, twice>> /\ (overtaken => overtaken')
    BY <2>2 DEF SendTo, TypeAtServer
  <2> QED BY <1>1, <2>1, <2>2 DEF TalkServerNext
<1>2. ASSUME NEW c \in Client, TalkClientNext(c)
      PROVE  UNCHANGED <<prog, lost, twice>> /\ (overtaken => overtaken')
  <2>1. ASSUME NEW from, NEW to, ReceiveLine(c, from, to)
        PROVE  UNCHANGED <<lost, twice>> /\ (overtaken => overtaken')
    <3>1. PICK i : overtaken' = (overtaken \/ i > 1)
      BY <2>1 DEF ReceiveLine, Overtakes
    <3>2. overtaken => overtaken'
      BY <3>1, Zenon
    <3> QED BY <2>1, <3>2 DEF ReceiveLine
  <2>2. ASSUME TypeAtClient(c) \/ SendDatagram(c) \/ SendBack(c)
        PROVE  UNCHANGED <<lost, twice>> /\ (overtaken => overtaken')
    BY <2>2 DEF TypeAtClient, SendDatagram, SendBack
  <2> QED BY <1>2, <2>1, <2>2 DEF TalkClientNext, Program
<1>3. ASSUME NEW c \in Client, Lose(c) \/ Double(c)
      PROVE  UNCHANGED <<prog, overtaken>> /\ (lost' = 0 => lost' = lost)
             /\ (twice' = 0 => twice' = twice)
  <2>1. lost' \in {lost, lost + 1} /\ twice' \in {twice, twice + 1} /\ lost \in Nat /\ twice \in Nat
    BY <1>3 DEF Lose, Double, TalkTypeOK
  <2>2. (lost' = 0 => lost' = lost) /\ (twice' = 0 => twice' = twice)
    BY <2>1
  <2> QED BY <1>3, <2>2 DEF Lose, Double
<1>4. CASE UNCHANGED talkVars
  BY <1>4 DEF talkVars
<1> QED
  <2>1. TalkServerNext \/ (\E c \in Client : TalkClientNext(c) \/ Lose(c) \/ Double(c)) \/ UNCHANGED talkVars
    BY DEF TalkNext
  <2> QED BY <1>1, <1>2, <1>3, <1>4, <2>1

LEMMA CalmBefore ==
  ASSUME TalkTypeOK, [TalkNext]_talkVars, Calm'
  PROVE  Calm /\ UNCHANGED <<lost, twice>>
BY FaultsGrow DEF Calm

-----------------------------------------------------------------------------
(* The counts. *)

LEMMA CountedUnchanged ==
  ASSUME NEW c \in Client, Counted(c), answers'[c] = answers[c], typed'[c] = typed[c],
         cmessage'[c] = cmessage[c], cat'[c] = cat[c]
  PROVE  Counted(c)'
BY DEF Counted, Waits

\* A client moves on, with a line more to wait for or an answer more.
LEMMA CountedMoves ==
  ASSUME TalkTypeOK, TalkTypeOK', NEW c \in Client, Counted(c), cat'[c] # "send",
         typed'[c] = typed[c],
         \/ Waits(c)' = Waits(c) /\ Len(answers'[c]) = Len(answers[c])
         \/ Waits(c) = 1 /\ Waits(c)' = 0 /\ Len(answers'[c]) = Len(answers[c]) + 1
  PROVE  Counted(c)'
<1>1. answers[c] \in Seq(Line) /\ answers'[c] \in Seq(Line)
  BY DEF TalkTypeOK
<1>2. PICK a \in Nat, b \in Nat : a = Len(answers[c]) /\ b = Len(answers'[c])
  BY <1>1, LenProperties
<1>3. PICK t \in Nat : t = typed[c] /\ t = typed'[c]
  BY DatagramAssumption DEF TalkTypeOK
<1>4. PICK w \in Nat, v \in Nat : w = Waits(c) /\ v = Waits(c)'
  BY DEF Waits
<1>5. a + w = t /\ ((v = w /\ b = a) \/ (w = 1 /\ v = 0 /\ b = a + 1))
  BY <1>2, <1>3, <1>4 DEF Counted
<1>6. b + v = t
  BY <1>5
<1> QED BY <1>2, <1>3, <1>4, <1>6 DEF Counted

LEMMA TalkersFinite ==
  ASSUME IsFiniteSet(Talkers), NEW c, \A d \in Client \ {c} : typed'[d] = typed[d]
  PROVE  IsFiniteSet(Talkers')
<1>1. IsFiniteSet(Talkers \cup {c})
  BY FS_AddElement
<1>2. Talkers' \subseteq Talkers \cup {c}
  BY DEF Talkers
<1> QED BY <1>1, <1>2, FS_Subset

LEMMA ServerBase ==
  ASSUME TalkTypeOK, BaseInv, TalkServerNext
  PROVE  BaseInv'
<1>1. /\ UNCHANGED <<answers, cmessage, cat>>
      /\ \A c \in Client : typed'[c] = typed[c]
  BY DatagramAssumption DEF TalkServerNext, Receive, SendTo, TypeAtServer, TalkTypeOK
<1>2. \A c \in Client : Counted(c)'
  BY <1>1, CountedUnchanged DEF BaseInv
<1>3. at' # "recv" => adr' \in Client
  <2>1. ASSUME NEW from, NEW to, Receive(from, to) PROVE adr' \in Client
    BY <2>1, ReceiveDoes
  <2>2. CASE SendTo("echo", AfterEcho) \/ TypeAtServer \/ SendTo("send", "recv_echo")
    BY <2>2 DEF SendTo, TypeAtServer, BaseInv
  <2> QED BY <2>1, <2>2 DEF TalkServerNext
<1>4. IsFiniteSet(Talkers')
  BY <1>1, TalkersFinite DEF BaseInv
<1> QED BY <1>2, <1>3, <1>4 DEF BaseInv

LEMMA ClientBase ==
  ASSUME TalkTypeOK, BaseInv, NEW c \in Client, TalkClientNext(c)
  PROVE  BaseInv'
<1> USE DEF TalkTypeOK
<1>1. UNCHANGED <<at, adr>>
  BY DEF TalkClientNext, Program
<1>2. ASSUME NEW d \in Client \ {c}
      PROVE  /\ answers'[d] = answers[d] /\ typed'[d] = typed[d]
             /\ cmessage'[d] = cmessage[d] /\ cat'[d] = cat[d]
  BY DEF TalkClientNext, Program, TypeAtClient, SendDatagram, ReceiveLine, SendBack, Goes
<1>3. \A d \in Client \ {c} : Counted(d)'
  BY <1>2, CountedUnchanged DEF BaseInv
<1>4. Counted(c) /\ answers[c] \in Seq(Line) /\ Len(answers[c]) \in Nat /\ typed[c] \in Nat
  BY DatagramAssumption, LenProperties DEF BaseInv
<1>5. ASSUME TypeAtClient(c) PROVE Counted(c)'
  <2>1. cat[c] = "type" /\ answers' = answers
    BY <1>5 DEF TypeAtClient
  <2>2. CASE /\ typed' = [typed EXCEPT ![c] = @ + 1] /\ Goes(c, "send")
             /\ cmessage' = [cmessage EXCEPT ![c] = [by |-> c, n |-> typed[c] + 1]]
    <3>1. typed'[c] = typed[c] + 1 /\ cat'[c] = "send"
      BY <2>2 DEF Goes
    <3>2. Waits(c) = 0 /\ Waits(c)' = 1
      BY <2>1, <3>1 DEF Waits
    <3>3. Len(answers[c]) = typed[c]
      BY <1>4, <3>2 DEF Counted
    <3>4. Len(answers'[c]) + Waits(c)' = typed'[c]
      BY <1>4, <2>1, <3>1, <3>2, <3>3
    <3>5. cmessage'[c] = [by |-> c, n |-> typed'[c]]
      BY <2>2
    <3> QED BY <3>4, <3>5 DEF Counted
  <2>3. CASE Goes(c, "left") /\ UNCHANGED <<typed, cmessage>>
    BY <1>4, <2>1, <2>3, TalkClientType, CountedMoves DEF Goes, Waits
  <2> QED BY <1>5, <2>2, <2>3 DEF TypeAtClient
<1>6. ASSUME SendDatagram(c) PROVE Counted(c)'
  BY <1>4, <1>6, TalkClientType, CountedMoves DEF SendDatagram, Goes, Waits
<1>7. ASSUME NEW to \in {"type", "recv_line"}, ReceiveLine(c, "recv_echo", to)
      PROVE  Counted(c)'
  <2>1. \E i \in 1..Len(toClient[c]) :
          /\ cat[c] = "recv_echo" /\ cat'[c] = to /\ typed' = typed
          /\ answers' = [answers EXCEPT ![c] = Append(@, toClient[c][i])]
    BY <1>7 DEF ReceiveLine, Goes
  <2>2. PICK i \in 1..Len(toClient[c]) :
          /\ cat[c] = "recv_echo" /\ cat'[c] = to /\ typed' = typed
          /\ answers' = [answers EXCEPT ![c] = Append(@, toClient[c][i])]
    BY <2>1
  <2>3. toClient[c][i] \in Line
    BY PathType DEF Paths
  <2>4. Len(answers'[c]) = Len(answers[c]) + 1
    BY <1>4, <2>2, <2>3, AppendProperties
  <2>5. Waits(c) = 1 /\ Waits(c)' = 0 /\ cat'[c] # "send"
    BY <2>2 DEF Waits
  <2> QED BY <1>4, <2>2, <2>4, <2>5, TalkClientType, CountedMoves
<1>8. ASSUME ReceiveLine(c, "recv_line", "send_back") PROVE Counted(c)'
  <2>1. /\ cat[c] = "recv_line" /\ cat'[c] = "send_back" /\ typed' = typed /\ answers' = answers
    BY <1>8 DEF ReceiveLine, Goes
  <2> QED BY <1>4, <2>1, TalkClientType, CountedMoves DEF Waits
<1>9. ASSUME SendBack(c) PROVE Counted(c)'
  BY <1>4, <1>9, TalkClientType, CountedMoves DEF SendBack, Goes, Waits
<1>10. Counted(c)'
  BY <1>5, <1>6, <1>7, <1>8, <1>9 DEF TalkClientNext, Program, AfterAnswer
<1>11. IsFiniteSet(Talkers')
  BY <1>2, TalkersFinite DEF BaseInv
<1> QED BY <1>1, <1>3, <1>10, <1>11 DEF BaseInv

LEMMA NextBase ==
  ASSUME TalkTypeOK, BaseInv, [TalkNext]_talkVars
  PROVE  BaseInv'
<1>1. CASE UNCHANGED <<at, adr, typed, cat, cmessage, answers>>
  BY <1>1 DEF BaseInv, Counted, Waits, Talkers
<1> QED BY <1>1, ServerBase, ClientBase DEF TalkNext, Lose, Double, talkVars

-----------------------------------------------------------------------------
(* What a step is for one client. *)

\* The server takes a datagram of this client, or of another.
Turns == (at = "recv" /\ at' = "echo") \/ (at = "recv_echo" /\ at' = "recv")

Takes(c) ==
  /\ Turns /\ adr' = c /\ toClient' = toClient
  /\ \E i \in 1..Len(toServer[c]) : message' = toServer[c][i]
  /\ message' \in ToSet(toServer[c])
  /\ Len(toServer[c]) > 0 /\ Len(toServer'[c]) = Len(toServer[c]) - 1
  /\ ToSet(toServer'[c]) \subseteq ToSet(toServer[c])

TakesOther(c) ==
  /\ Turns /\ adr' # c /\ toClient' = toClient /\ toServer'[c] = toServer[c]
  /\ \E d \in Client \ {c} : adr' = d /\ Len(toServer[d]) > 0

\* It sends one to this client, or to another.
Answers == (at = "echo" /\ at' = AfterEcho) \/ (at = "send" /\ at' = "recv_echo")

Sends(c) ==
  /\ Answers /\ adr = c /\ adr' = adr /\ message' = message /\ toServer' = toServer
  /\ Len(toClient'[c]) = Len(toClient[c]) + 1
  /\ ToSet(toClient'[c]) = ToSet(toClient[c]) \cup {message}
  /\ \A j \in 1..Len(toClient[c]) : toClient'[c][j] = toClient[c][j]
  /\ toClient'[c][Len(toClient[c]) + 1] = message

SendsOther(c) ==
  /\ Answers /\ adr # c /\ adr' = adr /\ message' = message /\ toServer' = toServer
  /\ toClient'[c] = toClient[c]

\* Its user types.
Types == at = "type" /\ at' \in {"send", "end"} /\ UNCHANGED <<adr, toServer, toClient>>

LEMMA ServerSteps ==
  ASSUME TalkTypeOK, BaseInv, TalkServerNext, NEW c \in Client
  PROVE  /\ UNCHANGED <<prog, cat, cmessage, answers, lost, twice>>
         /\ typed'[c] = typed[c]
         /\ Takes(c) \/ TakesOther(c) \/ Sends(c) \/ SendsOther(c) \/ Types
<1>1. /\ UNCHANGED <<prog, cat, cmessage, answers, lost, twice>>
      /\ typed'[c] = typed[c]
  BY DatagramAssumption DEF TalkServerNext, Receive, SendTo, TypeAtServer, TalkTypeOK
<1>2. ASSUME NEW from, NEW to, Receive(from, to),
             (from = "recv" /\ to = "echo") \/ (from = "recv_echo" /\ to = "recv")
      PROVE  Takes(c) \/ TakesOther(c)
  <2>1. PICK d \in Client : \E i \in 1..Len(toServer[d]) :
          /\ at = from /\ at' = to /\ adr' = d
          /\ message' = toServer[d][i] /\ toServer' = Received(toServer, d, i)
          /\ overtaken' = (overtaken \/ i > 1)
          /\ UNCHANGED <<typed, toClient, lost, twice>>
    BY <1>2, ReceiveDoes
  <2>2. PICK i \in 1..Len(toServer[d]) :
          /\ at = from /\ at' = to /\ adr' = d
          /\ message' = toServer[d][i] /\ toServer' = Received(toServer, d, i)
          /\ toClient' = toClient
    BY <2>1
  <2>3. Turns
    BY <1>2, <2>2 DEF Turns
  <2>4. toServer \in Paths
    BY DEF Paths, TalkTypeOK
  <2>5. Len(toServer[d]) \in Nat /\ Len(toServer[d]) > 0
    BY <2>4, ReceivedPath
  <2>6. CASE d = c
    <3>1. /\ toServer[c][i] \in ToSet(toServer[c])
          /\ Len(toServer'[c]) = Len(toServer[c]) - 1
          /\ ToSet(toServer'[c]) \subseteq ToSet(toServer[c])
      BY <2>2, <2>4, <2>6, ReceivedPath
    <3> QED BY <2>2, <2>3, <2>5, <2>6, <3>1 DEF Takes
  <2>7. CASE d # c
    <3>1. \A e \in Client \ {d} : Received(toServer, d, i)[e] = toServer[e]
      BY <2>4, ReceivedPath
    <3>2. toServer'[c] = toServer[c]
      BY <2>2, <2>7, <3>1
    <3> QED BY <2>2, <2>3, <2>5, <2>7, <3>2 DEF TakesOther
  <2> QED BY <2>6, <2>7
<1>3. ASSUME NEW from, NEW to, SendTo(from, to),
             (from = "echo" /\ to = AfterEcho) \/ (from = "send" /\ to = "recv_echo")
      PROVE  Sends(c) \/ SendsOther(c)
  <2>1. /\ at = from /\ at' = to /\ toClient' = Sent(toClient, adr, message)
        /\ UNCHANGED <<adr, message, toServer>>
    BY <1>3 DEF SendTo
  <2>2. Answers
    BY <1>3, <2>1 DEF Answers
  <2>3. toClient \in Paths /\ adr \in Client /\ message \in Line
    BY <1>3, <2>1 DEF BaseInv, Paths, TalkTypeOK
  <2>4. CASE adr = c
    <3>1. PICK m \in Line : m = message
      BY <2>3
    <3>2. PICK path \in Paths : path = toClient
      BY <2>3
    <3>3. /\ Len(Sent(path, c, m)[c]) = Len(path[c]) + 1
          /\ ToSet(Sent(path, c, m)[c]) = ToSet(path[c]) \cup {m}
          /\ \A j \in 1..Len(path[c]) : Sent(path, c, m)[c][j] = path[c][j]
          /\ Sent(path, c, m)[c][Len(path[c]) + 1] = m
      BY ONLY SentPath
    <3> QED BY <2>1, <2>2, <2>4, <3>1, <3>2, <3>3 DEF Sends
  <2>5. CASE adr # c
    <3>2. toClient'[c] = toClient[c]
      BY <2>1, <2>3, <2>5 DEF Sent, Paths
    <3> QED BY <2>1, <2>2, <2>5, <3>2 DEF SendsOther
  <2> QED BY <2>4, <2>5
<1>4. ASSUME TypeAtServer PROVE Types
  BY <1>4 DEF TypeAtServer, Types
<1> QED BY <1>1, <1>2, <1>3, <1>4 DEF TalkServerNext

\* Nothing of this client is touched, or of what the server has in hand.
Elsewhere(c) ==
  /\ UNCHANGED <<prog, at, adr, message>>
  /\ typed'[c] = typed[c] /\ cat'[c] = cat[c] /\ answers'[c] = answers[c]
  /\ toServer'[c] = toServer[c] /\ toClient'[c] = toClient[c]

\* The client types, sends its line, takes a datagram, or sends nothing back.
TypesLine(c) ==
  /\ cat[c] = "type" /\ cat'[c] = "send" /\ typed'[c] = typed[c] + 1
  /\ UNCHANGED <<answers, toServer, toClient>>

Leaves(c) ==
  /\ cat[c] = "type" /\ cat'[c] = "left"
  /\ UNCHANGED <<typed, answers, toServer, toClient>>

SendsLine(c) ==
  /\ cat[c] = "send" /\ cat'[c] = "recv_echo" /\ UNCHANGED <<typed, answers, toClient>>
  /\ Len(toServer'[c]) = Len(toServer[c]) + 1
  /\ ToSet(toServer'[c]) = ToSet(toServer[c]) \cup {cmessage[c]}
  /\ Len(toServer[c]) = 0 => toServer'[c][1] = cmessage[c]

TakesLine(c, i) ==
  /\ i \in 1..Len(toClient[c]) /\ UNCHANGED <<typed, toServer>>
  /\ \/ /\ cat[c] = "recv_echo" /\ cat'[c] = AfterAnswer
        /\ answers'[c] = Append(answers[c], toClient[c][i])
     \/ /\ cat[c] = "recv_line" /\ cat'[c] = "send_back"
        /\ answers'[c] = answers[c]
  /\ toClient[c][i] \in ToSet(toClient[c])
  /\ Len(toClient[c]) \in Nat /\ Len(toClient[c]) > 0
  /\ Len(toClient'[c]) = Len(toClient[c]) - 1
  /\ ToSet(toClient'[c]) \subseteq ToSet(toClient[c])
  /\ i = 1 \/ overtaken'

SendsBack(c) ==
  /\ cat[c] = "send_back" /\ cat'[c] = "type"
  /\ UNCHANGED <<typed, answers, toServer, toClient>>

LEMMA ClientSteps ==
  ASSUME TalkTypeOK, NEW c \in Client, TalkClientNext(c)
  PROVE  /\ UNCHANGED <<prog, at, adr, message, lost, twice>>
         /\ \A d \in Client \ {c} : Elsewhere(d)
         /\ \/ TypesLine(c) \/ Leaves(c) \/ SendsLine(c) \/ SendsBack(c)
            \/ \E i \in 1..Len(toClient[c]) : TakesLine(c, i)
<1>0. toServer \in Paths /\ toClient \in Paths
  BY DEF Paths, TalkTypeOK
<1>1. UNCHANGED <<prog, at, adr, message>>
  BY DEF TalkClientNext, Program
<1>2. UNCHANGED <<lost, twice>>
  BY DEF TalkClientNext, Program, TypeAtClient, SendDatagram, ReceiveLine, SendBack
<1>3. \A d \in Client \ {c} : /\ typed'[d] = typed[d] /\ cat'[d] = cat[d]
                              /\ answers'[d] = answers[d]
  BY DEF TalkClientNext, Program, TypeAtClient, SendDatagram, ReceiveLine, SendBack, Goes, TalkTypeOK
<1>4. \A d \in Client \ {c} : toServer'[d] = toServer[d] /\ toClient'[d] = toClient[d]
  BY DEF TalkClientNext, Program, TypeAtClient, SendDatagram, ReceiveLine, SendBack, Sent, Received, TalkTypeOK
<1>5. ASSUME TypeAtClient(c) PROVE TypesLine(c) \/ Leaves(c)
  BY <1>5 DEF TypeAtClient, Goes, TypesLine, Leaves, TalkTypeOK
<1>6. ASSUME SendDatagram(c) PROVE SendsLine(c)
  <2>1. /\ cat[c] = "send" /\ cat'[c] = "recv_echo" /\ UNCHANGED <<typed, answers, toClient>>
        /\ toServer' = Sent(toServer, c, cmessage[c]) /\ cmessage[c] \in Line
    BY <1>6 DEF SendDatagram, Goes, TalkTypeOK
  <2>2. /\ Len(toServer'[c]) = Len(toServer[c]) + 1
        /\ ToSet(toServer'[c]) = ToSet(toServer[c]) \cup {cmessage[c]}
        /\ toServer'[c][Len(toServer[c]) + 1] = cmessage[c]
    <3>1. PICK m \in Line : m = cmessage[c]
      BY <2>1
    <3>2. PICK path \in Paths : path = toServer
      BY <1>0
    <3>3. /\ Len(Sent(path, c, m)[c]) = Len(path[c]) + 1
          /\ ToSet(Sent(path, c, m)[c]) = ToSet(path[c]) \cup {m}
          /\ Sent(path, c, m)[c][Len(path[c]) + 1] = m
      BY ONLY SentPath
    <3> QED BY <2>1, <3>1, <3>2, <3>3
  <2>3. Len(toServer[c]) = 0 => Len(toServer[c]) + 1 = 1
    OBVIOUS
  <2> QED BY <2>1, <2>2, <2>3 DEF SendsLine
<1>7. ASSUME NEW from, NEW to, ReceiveLine(c, from, to),
             (from = "recv_echo" /\ to = AfterAnswer) \/ (from = "recv_line" /\ to = "send_back")
      PROVE  \E i \in 1..Len(toClient[c]) : TakesLine(c, i)
  <2>1. PICK i \in 1..Len(toClient[c]) :
          /\ answers' = IF from = "recv_echo"
                        THEN [answers EXCEPT ![c] = Append(@, toClient[c][i])] ELSE answers
          /\ toClient' = Received(toClient, c, i)
          /\ overtaken' = (overtaken \/ i > 1)
    BY <1>7 DEF ReceiveLine, Overtakes
  <2>2. cat[c] = from /\ cat'[c] = to /\ UNCHANGED <<typed, toServer>>
    BY <1>7 DEF ReceiveLine, Goes, AfterAnswer, TalkTypeOK
  <2>3. /\ toClient[c][i] \in ToSet(toClient[c]) /\ Len(toClient[c]) \in Nat
        /\ Len(toClient'[c]) = Len(toClient[c]) - 1
        /\ ToSet(toClient'[c]) \subseteq ToSet(toClient[c])
    BY <1>0, <2>1, ReceivedPath
  <2>4. i = 1 \/ i > 1
    BY <2>3
  <2>5. i = 1 \/ overtaken'
    BY <2>1, <2>4, Zenon
  <2>6. Len(toClient[c]) > 0
    BY <2>3
  <2>7. \/ /\ cat[c] = "recv_echo" /\ cat'[c] = AfterAnswer
           /\ answers'[c] = Append(answers[c], toClient[c][i])
        \/ /\ cat[c] = "recv_line" /\ cat'[c] = "send_back"
           /\ answers'[c] = answers[c]
    <3>1. CASE from = "recv_echo" /\ to = AfterAnswer
      BY <2>1, <2>2, <3>1 DEF TalkTypeOK
    <3>2. CASE from = "recv_line" /\ to = "send_back"
      BY <2>1, <2>2, <3>2
    <3> QED BY <1>7, <3>1, <3>2
  <2>8. TakesLine(c, i)
    BY <2>2, <2>3, <2>5, <2>6, <2>7 DEF TakesLine
  <2> QED BY <2>8
<1>8. ASSUME SendBack(c) PROVE SendsBack(c)
  BY <1>8 DEF SendBack, Goes, SendsBack, TalkTypeOK
<1>9. \/ TypesLine(c) \/ Leaves(c) \/ SendsLine(c) \/ SendsBack(c)
      \/ \E i \in 1..Len(toClient[c]) : TakesLine(c, i)
  BY <1>5, <1>6, <1>7, <1>8 DEF TalkClientNext, Program
<1> QED BY <1>1, <1>2, <1>3, <1>4, <1>9 DEF Elsewhere-----------------------------------------------------------------------------
(* uecho. *)

LEMMA UechoElsewhere ==
  ASSUME prog = "uecho", NEW c \in Client, Uecho(c), Elsewhere(c), UNCHANGED twice
  PROVE  Uecho(c)'
<1>1. EchoInHand(c)' = EchoInHand(c)
  BY DEF Elsewhere, EchoInHand
<1>2. Around(c)' = Around(c) /\ (Quiet(c) => Quiet(c)') /\ (OnlyOne(c) => OnlyOne(c)')
  BY <1>1 DEF Elsewhere, Around, Quiet, OnlyOne
<1> QED BY <1>2 DEF Elsewhere, Uecho

LEMMA UechoServer ==
  ASSUME TalkTypeOK, BaseInv, UechoInv, TalkServerNext, prog = "uecho", NEW c \in Client
  PROVE  Uecho(c)'
<1>1. Uecho(c)
  BY DEF UechoInv
<1>2. /\ twice' = twice /\ typed'[c] = typed[c] /\ cat' = cat
      /\ Takes(c) \/ TakesOther(c) \/ Sends(c) \/ SendsOther(c) \/ Types
  BY ServerSteps
<1>3. /\ Len(toServer[c]) \in Nat /\ Len(toClient[c]) \in Nat
  BY LenProperties DEF TalkTypeOK
<1>4. SUFFICES /\ at' \in {"recv", "echo"}
               /\ Around(c)' \subseteq Around(c)
               /\ Quiet(c) => Quiet(c)'
               /\ OnlyOne(c) => OnlyOne(c)'
  BY <1>1, <1>2 DEF Uecho
<1>5. CASE Takes(c)
  <2>1. at = "recv" /\ at' = "echo" /\ ~EchoInHand(c) /\ EchoInHand(c)'
    BY <1>1, <1>5 DEF Takes, Turns, EchoInHand, Uecho
  <2>2. Around(c)' \subseteq Around(c)
    BY <1>5, <2>1 DEF Takes, Around
  <2>3. ~Quiet(c) /\ (OnlyOne(c) => OnlyOne(c)')
    BY <1>3, <1>5, <2>1 DEF Takes, Quiet, OnlyOne
  <2> QED BY <2>1, <2>2, <2>3
<1>6. CASE TakesOther(c)
  <2>1. at = "recv" /\ at' = "echo" /\ ~EchoInHand(c) /\ ~EchoInHand(c)'
    BY <1>1, <1>6 DEF TakesOther, Turns, EchoInHand, Uecho
  <2> QED BY <1>6, <2>1 DEF TakesOther, Around, Quiet, OnlyOne
<1>7. CASE Sends(c)
  <2>1. at = "echo" /\ at' = "recv" /\ EchoInHand(c) /\ ~EchoInHand(c)'
    BY <1>1, <1>7 DEF Sends, Answers, AfterEcho, EchoInHand, Uecho
  <2>2. Around(c)' \subseteq Around(c)
    BY <1>7, <2>1 DEF Sends, Around
  <2>3. ~Quiet(c) /\ (OnlyOne(c) => OnlyOne(c)')
    BY <1>3, <1>7, <2>1 DEF Sends, Quiet, OnlyOne
  <2> QED BY <2>1, <2>2, <2>3
<1>8. CASE SendsOther(c)
  <2>1. at = "echo" /\ at' = "recv" /\ ~EchoInHand(c) /\ ~EchoInHand(c)'
    BY <1>1, <1>8 DEF SendsOther, Answers, AfterEcho, EchoInHand, Uecho
  <2> QED BY <1>8, <2>1 DEF SendsOther, Around, Quiet, OnlyOne
<1>9. CASE Types
  BY <1>1, <1>9 DEF Types, Uecho
<1> QED BY <1>2, <1>5, <1>6, <1>7, <1>8, <1>9

\* A client with nothing under way has no datagrams around.
LEMMA QuietIsEmpty ==
  ASSUME TalkTypeOK, NEW c \in Client, Quiet(c)
  PROVE  Around(c) = {}
<1>1. ASSUME NEW s \in Seq(Line), Len(s) = 0 PROVE ToSet(s) = {}
  BY <1>1, LenProperties DEF ToSet
<1>2. toServer[c] \in Seq(Line) /\ toClient[c] \in Seq(Line)
  BY DEF TalkTypeOK
<1> QED BY <1>1, <1>2 DEF Quiet, Around

LEMMA UechoClient ==
  ASSUME TalkTypeOK, BaseInv, UechoInv, NEW c \in Client, TalkClientNext(c), prog = "uecho"
  PROVE  UechoInv'
<1>1. Uecho(c) /\ Counted(c)
  BY DEF UechoInv, BaseInv
<1>2. /\ UNCHANGED <<prog, at, adr, message, lost, twice>>
      /\ \A d \in Client \ {c} : Elsewhere(d)
      /\ \/ TypesLine(c) \/ Leaves(c) \/ SendsLine(c) \/ SendsBack(c)
         \/ \E i \in 1..Len(toClient[c]) : TakesLine(c, i)
  BY ClientSteps
<1>3. \A d \in Client \ {c} : Uecho(d)'
  BY <1>2, UechoElsewhere DEF UechoInv
<1>4. EchoInHand(c)' = EchoInHand(c) /\ at \in {"recv", "echo"}
  BY <1>1, <1>2 DEF EchoInHand, Uecho
<1>5. /\ Len(toServer[c]) \in Nat /\ Len(toClient[c]) \in Nat
      /\ typed[c] \in Nat
  BY LenProperties, DatagramAssumption DEF TalkTypeOK
<1>6. ASSUME NEW m \in Around(c) PROVE m.by = c /\ m.n \in Int /\ m.n <= typed[c]
  <2>1. m \in Line
    <3>1. ASSUME NEW s \in Seq(Line) PROVE ToSet(s) \subseteq Line
      BY <3>1, ElementOfSeq, LenProperties DEF ToSet
    <3>2. toServer[c] \in Seq(Line) /\ toClient[c] \in Seq(Line) /\ message \in Line
      BY DEF TalkTypeOK
    <3> QED BY <1>6, <3>1, <3>2 DEF Around
  <2> QED BY <1>1, <1>6, <2>1 DEF Uecho, Line
<1>7. ASSUME TypesLine(c) PROVE Uecho(c)'
  <2>1. Around(c)' = Around(c) /\ (Quiet(c) => Quiet(c)')
    BY <1>2, <1>4, <1>7 DEF TypesLine, Around, Quiet
  <2>2. \A m \in Around(c)' : m.by = c /\ m.n <= typed'[c]
    BY <1>5, <1>6, <1>7, <2>1 DEF TypesLine
  <2>3. twice = 0 => Quiet(c) /\ Around(c) = {}
    BY <1>1, <1>7, QuietIsEmpty DEF TypesLine, Uecho
  <2> QED BY <1>2, <1>4, <1>7, <2>1, <2>2, <2>3 DEF TypesLine, Uecho
<1>8. ASSUME Leaves(c) PROVE Uecho(c)'
  <2>1. Around(c)' = Around(c) /\ (Quiet(c) => Quiet(c)')
    BY <1>2, <1>4, <1>8 DEF Leaves, Around, Quiet
  <2> QED BY <1>1, <1>2, <1>4, <1>8, <2>1 DEF Leaves, Uecho
<1>9. ASSUME SendsLine(c) PROVE Uecho(c)'
  <2>1. cmessage[c] = [by |-> c, n |-> typed[c]]
    BY <1>1, <1>9 DEF Counted, SendsLine
  <2>2. Around(c)' = Around(c) \cup {cmessage[c]}
    BY <1>2, <1>4, <1>9 DEF SendsLine, Around
  <2>3. \A m \in Around(c)' : m.by = c /\ m.n <= typed[c]
    BY <1>5, <1>6, <2>1, <2>2
  <2>4. twice = 0 => Quiet(c) /\ \A m \in Around(c)' : m.n = typed[c]
    BY <1>1, <1>9, <2>1, <2>2, QuietIsEmpty DEF SendsLine, Uecho
  <2>5. Quiet(c) => OnlyOne(c)'
    BY <1>4, <1>9 DEF SendsLine, Quiet, OnlyOne
  <2> QED BY <1>2, <1>4, <1>9, <2>3, <2>4, <2>5 DEF SendsLine, Uecho
<1>10. ASSUME NEW i \in 1..Len(toClient[c]), TakesLine(c, i) PROVE Uecho(c)'
  <2>1. cat[c] = "recv_echo" /\ cat'[c] = "type"
    BY <1>1, <1>10 DEF TakesLine, AfterAnswer, Uecho
  <2>2. Around(c)' \subseteq Around(c)
    BY <1>2, <1>4, <1>10 DEF TakesLine, Around
  <2>3. (OnlyOne(c) => Quiet(c)') /\ ~Quiet(c)
    BY <1>4, <1>5, <1>10 DEF TakesLine, Quiet, OnlyOne
  <2> QED BY <1>1, <1>2, <1>4, <1>10, <2>1, <2>2, <2>3 DEF TakesLine, Uecho
<1>11. Uecho(c)'
  BY <1>1, <1>2, <1>7, <1>8, <1>9, <1>10 DEF SendsBack, Uecho
<1> QED BY <1>3, <1>11 DEF UechoInv

\* What the network does to a path: the datagrams are of those there were, and
\* there are more only when one came twice.
LEMMA PathFaults ==
  ASSUME NEW path \in Paths, NEW now, NEW c \in Client, NEW d \in Client,
         \E i \in 1..Len(path[c]) : now = Received(path, c, i) \/ now = Sent(path, c, path[c][i])
  PROVE  ToSet(now[d]) \subseteq ToSet(path[d])
<1>1. PICK i \in 1..Len(path[c]) : now = Received(path, c, i) \/ now = Sent(path, c, path[c][i])
  OBVIOUS
<1>2. path[c][i] \in Line /\ path[c][i] \in ToSet(path[c])
  BY PathType, ReceivedPath
<1>3. ToSet(Received(path, c, i)[d]) \subseteq ToSet(path[d])
  <2>1. CASE d = c
    BY <2>1, ReceivedPath
  <2>2. CASE d # c
    <3>1. Received(path, c, i)[d] = path[d]
      BY <2>2, ReceivedPath
    <3> QED BY <3>1
  <2> QED BY <2>1, <2>2
<1>4. ToSet(Sent(path, c, path[c][i])[d]) \subseteq ToSet(path[d])
  <2>1. CASE d = c
    BY <1>2, <2>1, SentPath
  <2>2. CASE d # c
    <3>1. Sent(path, c, path[c][i])[d] = path[d]
      BY <1>2, <2>2, SentPath
    <3> QED BY <3>1
  <2> QED BY <2>1, <2>2
<1> QED BY <1>1, <1>3, <1>4

LEMMA PathLosses ==
  ASSUME NEW path \in Paths, NEW now, NEW c \in Client, NEW d \in Client,
         \E i \in 1..Len(path[c]) : now = Received(path, c, i)
  PROVE  Len(now[d]) = Len(path[d]) \/ (Len(path[d]) > 0 /\ Len(now[d]) = Len(path[d]) - 1)
<1>1. PICK i \in 1..Len(path[c]) : now = Received(path, c, i)
  OBVIOUS
<1>2. CASE d = c
  <2>1. Len(path[c]) \in Nat /\ Len(now[c]) = Len(path[c]) - 1
    BY <1>1, ReceivedPath
  <2>2. Len(path[c]) > 0
    BY <2>1
  <2> QED BY <1>2, <2>1, <2>2
<1>3. CASE d # c
  <2>1. now[d] = path[d]
    BY <1>1, <1>3, ReceivedPath
  <2> QED BY <2>1
<1> QED BY <1>2, <1>3

LEMMA UechoNetwork ==
  ASSUME TalkTypeOK, UechoInv, NEW c \in Client, Lose(c) \/ Double(c), prog = "uecho"
  PROVE  UechoInv'
<1>1. UNCHANGED <<at, adr, message, typed, cat, prog>>
  BY DEF Lose, Double
<1>2. toServer \in Paths /\ toClient \in Paths
  BY DEF Paths, TalkTypeOK
<1>3. ASSUME NEW d \in Client PROVE Uecho(d)'
  <2>0. TalkTypeOK'
    BY NetworkType
  <2>1. EchoInHand(d)' = EchoInHand(d) /\ Uecho(d)
    BY <1>1 DEF EchoInHand, UechoInv
  <2>2. ToSet(toServer'[d]) \subseteq ToSet(toServer[d])
    <3>1. CASE toServer' = toServer
      BY <3>1
    <3>2. CASE \E i \in 1..Len(toServer[c]) : toServer' = Received(toServer, c, i)
                                             \/ toServer' = Sent(toServer, c, toServer[c][i])
      BY <1>2, <3>2, PathFaults
    <3> QED BY <3>1, <3>2 DEF Lose, Double
  <2>3. ToSet(toClient'[d]) \subseteq ToSet(toClient[d])
    <3>1. CASE toClient' = toClient
      BY <3>1
    <3>2. CASE \E i \in 1..Len(toClient[c]) : toClient' = Received(toClient, c, i)
                                             \/ toClient' = Sent(toClient, c, toClient[c][i])
      BY <1>2, <3>2, PathFaults
    <3> QED BY <3>1, <3>2 DEF Lose, Double
  <2>4. Around(d)' \subseteq Around(d)
    BY <1>1, <2>1, <2>2, <2>3 DEF Around
  <2>5. \A m \in Around(d)' : m.by = d /\ m.n <= typed'[d]
    BY <1>1, <2>1, <2>4 DEF Uecho
  <2>6. ASSUME twice' = 0
        PROVE  /\ Quiet(d)' \/ (cat'[d] = "recv_echo" /\ OnlyOne(d)')
               /\ \A m \in Around(d)' : m.n = typed'[d]
    <3>1. Lose(c) /\ twice = 0
      <4>1. twice \in Nat /\ (Double(c) => twice' = twice + 1)
        BY DEF TalkTypeOK, Double
      <4>2. ~Double(c)
        BY <2>6, <4>1
      <4> QED BY <2>6, <4>2 DEF Lose
    <3>2. /\ Len(toServer'[d]) = Len(toServer[d])
             \/ (Len(toServer[d]) > 0 /\ Len(toServer'[d]) = Len(toServer[d]) - 1)
      <4>1. CASE toServer' = toServer
        BY <4>1
      <4>2. CASE \E i \in 1..Len(toServer[c]) : toServer' = Received(toServer, c, i)
        BY <1>2, <4>2, PathLosses
      <4> QED BY <3>1, <4>1, <4>2 DEF Lose
    <3>3. /\ Len(toClient'[d]) = Len(toClient[d])
             \/ (Len(toClient[d]) > 0 /\ Len(toClient'[d]) = Len(toClient[d]) - 1)
      <4>1. CASE toClient' = toClient
        BY <4>1
      <4>2. CASE \E i \in 1..Len(toClient[c]) : toClient' = Received(toClient, c, i)
        BY <1>2, <4>2, PathLosses
      <4> QED BY <3>1, <4>1, <4>2 DEF Lose
    <3>4. /\ Len(toServer[d]) = 0 => Len(toServer'[d]) = 0
          /\ Len(toServer[d]) = 1 => Len(toServer'[d]) = 1 \/ Len(toServer'[d]) = 0
      <4>1. PICK n \in Nat, k \in Nat : n = Len(toServer[d]) /\ k = Len(toServer'[d])
        BY <2>0, LenProperties DEF TalkTypeOK
      <4>2. k = n \/ (n > 0 /\ k = n - 1)
        BY <3>2, <4>1
      <4>3. (n = 0 => k = 0) /\ (n = 1 => k = 1 \/ k = 0)
        BY <4>2
      <4> QED BY <4>1, <4>3
    <3>5. /\ Len(toClient[d]) = 0 => Len(toClient'[d]) = 0
          /\ Len(toClient[d]) = 1 => Len(toClient'[d]) = 1 \/ Len(toClient'[d]) = 0
      <4>1. PICK n \in Nat, k \in Nat : n = Len(toClient[d]) /\ k = Len(toClient'[d])
        BY <2>0, LenProperties DEF TalkTypeOK
      <4>2. k = n \/ (n > 0 /\ k = n - 1)
        BY <3>3, <4>1
      <4>3. (n = 0 => k = 0) /\ (n = 1 => k = 1 \/ k = 0)
        BY <4>2
      <4> QED BY <4>1, <4>3
    <3>6. (Quiet(d) => Quiet(d)') /\ (OnlyOne(d) => OnlyOne(d)' \/ Quiet(d)')
      BY <2>1, <3>4, <3>5, Zenon DEF Quiet, OnlyOne
    <3> QED BY <1>1, <2>1, <2>4, <3>1, <3>6 DEF Uecho
  <2> QED BY <1>1, <2>1, <2>5, <2>6 DEF Uecho
<1> QED BY <1>3 DEF UechoInv

LEMMA NextUecho ==
  ASSUME TalkTypeOK, BaseInv, UechoInv, [TalkNext]_talkVars
  PROVE  UechoInv'
<1>1. prog' = prog
  BY FaultsGrow
<1>2. SUFFICES ASSUME prog = "uecho" PROVE UechoInv'
  BY <1>1 DEF UechoInv
<1>3. CASE TalkServerNext
  BY <1>2, <1>3, UechoServer DEF UechoInv
<1>4. CASE UNCHANGED talkVars
  <2>1. \A c \in Client : Elsewhere(c) /\ UNCHANGED twice
    BY <1>4 DEF talkVars, Elsewhere
  <2> QED BY <1>2, <2>1, UechoElsewhere DEF UechoInv
<1> QED BY <1>2, <1>3, <1>4, UechoClient, UechoNetwork DEF TalkNext-----------------------------------------------------------------------------
(* chat. *)

LEMMA ChatElsewhere ==
  ASSUME NEW c \in Client, Chat(c), Elsewhere(c)
  PROVE  Chat(c)'
<1>1. EchoInHand(c)' = EchoInHand(c) /\ Owed(c)' = Owed(c)
  BY DEF Elsewhere, EchoInHand, Owed
<1>2. Idle(c)' = Idle(c) /\ AwaitsEcho(c)' = AwaitsEcho(c) /\ AwaitsLine(c)' = AwaitsLine(c)
  BY <1>1 DEF Elsewhere, Idle, AwaitsEcho, AwaitsLine
<1> QED BY <1>2 DEF Elsewhere, Chat

\* Only a client that awaits an echo has something under way to the server.
LEMMA OnTheWay ==
  ASSUME TalkTypeOK, NEW c \in Client, Chat(c), Len(toServer[c]) > 0
  PROVE  /\ cat[c] = "recv_echo" /\ AwaitsEcho(c)
         /\ Len(toServer[c]) = 1 /\ toServer[c][1] = [by |-> c, n |-> typed[c]]
         /\ Len(toClient[c]) = 0 /\ ~Owed(c)
<1>1. Len(toServer[c]) # 0
  BY LenProperties DEF TalkTypeOK
<1>2. cat[c] = "recv_echo" /\ AwaitsEcho(c)
  BY <1>1 DEF Chat, Idle, AwaitsLine, TalkTypeOK
<1> QED BY <1>2 DEF AwaitsEcho

LEMMA ChatServer ==
  ASSUME TalkTypeOK, TalkTypeOK', BaseInv, TalkServerNext, prog = "chat", NEW c \in Client, Chat(c)
  PROVE  Chat(c)'
<1>1. /\ typed'[c] = typed[c] /\ cat' = cat
      /\ Takes(c) \/ TakesOther(c) \/ Sends(c) \/ SendsOther(c) \/ Types
  BY ServerSteps
<1>2. /\ Len(toServer[c]) \in Nat /\ Len(toClient[c]) \in Nat
      /\ Len(toServer'[c]) \in Nat /\ Len(toClient'[c]) \in Nat
  BY LenProperties DEF TalkTypeOK
<1>3. SUFFICES /\ Idle(c) => Idle(c)'
               /\ cat[c] = "recv_echo" /\ AwaitsEcho(c) => AwaitsEcho(c)'
               /\ AwaitsLine(c) => AwaitsLine(c)'
  BY <1>1 DEF Chat
<1>4. CASE Takes(c)
  <2>1. /\ cat[c] = "recv_echo" /\ AwaitsEcho(c)
        /\ Len(toServer[c]) = 1 /\ toServer[c][1] = [by |-> c, n |-> typed[c]]
        /\ Len(toClient[c]) = 0 /\ ~Owed(c)
    BY <1>4, OnTheWay DEF Takes
  <2>2. Len(toServer'[c]) = 0 /\ Len(toClient'[c]) = 0 /\ message' = [by |-> c, n |-> typed[c]]
    BY <1>2, <1>4, <2>1 DEF Takes
  <2>3. ~Idle(c) /\ ~AwaitsLine(c)
    BY <2>1 DEF Idle, AwaitsLine
  <2>4. Owed(c)' => EchoInHand(c)'
    BY <1>4 DEF Takes, Turns, Owed, EchoInHand
  <2>5. AwaitsEcho(c)'
    BY <1>1, <2>2, <2>4 DEF AwaitsEcho
  <2> QED BY <2>3, <2>5
<1>5. CASE TakesOther(c)
  <2>1. ~EchoInHand(c) /\ ~EchoInHand(c)' /\ ~Owed(c) /\ ~Owed(c)'
    BY <1>5 DEF TakesOther, Turns, Owed, EchoInHand
  <2> QED BY <1>1, <1>5, <2>1 DEF TakesOther, Idle, AwaitsEcho, AwaitsLine
<1>6. CASE Sends(c)
  <2>1. Owed(c) /\ ~Idle(c) /\ toServer' = toServer /\ Len(toClient'[c]) = Len(toClient[c]) + 1
    BY <1>6 DEF Sends, Answers, Owed, Idle
  <2>2. CASE at = "echo"
    <3>1. at' = "type" /\ adr' = c /\ EchoInHand(c) /\ ~EchoInHand(c)' /\ Owed(c)'
      BY <1>6, <2>2 DEF Sends, Answers, AfterEcho, EchoInHand, Owed
    <3>2. ~AwaitsLine(c)
      BY <3>1 DEF AwaitsLine
    <3>3. ASSUME AwaitsEcho(c) PROVE AwaitsEcho(c)'
      <4>1. Len(toServer[c]) = 0 /\ message = [by |-> c, n |-> typed[c]] /\ Len(toClient[c]) = 0
        BY <1>2, <2>1, <3>1, <3>3 DEF AwaitsEcho
      <4>2. Len(toServer'[c]) = 0 /\ Len(toClient'[c]) = 1
        BY <1>2, <2>1, <4>1
      <4>3. toClient'[c][1] = [by |-> c, n |-> typed'[c]]
        <5>1. Len(toClient[c]) + 1 = 1
          BY <4>1
        <5> QED BY <1>1, <1>6, <4>1, <5>1 DEF Sends
      <4> QED BY <3>1, <4>2, <4>3 DEF AwaitsEcho
    <3> QED BY <2>1, <3>2, <3>3
  <2>3. CASE at = "send"
    <3>1. at' = "recv_echo" /\ ~EchoInHand(c) /\ ~EchoInHand(c)' /\ ~Owed(c)'
      BY <1>6, <2>3 DEF Sends, Answers, EchoInHand, Owed
    <3>2. ASSUME AwaitsEcho(c) PROVE AwaitsEcho(c)'
      <4>1. Len(toServer[c]) = 0 /\ Len(toClient[c]) = 1
            /\ toClient[c][1] = [by |-> c, n |-> typed[c]]
        BY <1>2, <2>1, <3>1, <3>2 DEF AwaitsEcho
      <4>2. Len(toServer'[c]) = 0 /\ Len(toClient'[c]) = 2
        BY <1>2, <2>1, <4>1
      <4>3. toClient'[c][1] = toClient[c][1]
        <5>1. 1 \in 1..Len(toClient[c])
          BY <4>1
        <5> QED BY <1>6, <5>1 DEF Sends
      <4> QED BY <1>1, <3>1, <4>1, <4>2, <4>3 DEF AwaitsEcho
    <3>3. ASSUME AwaitsLine(c) PROVE AwaitsLine(c)'
      <4>1. Len(toServer[c]) = 0 /\ Len(toClient[c]) = 0
        BY <2>1, <3>3 DEF AwaitsLine
      <4>2. Len(toServer'[c]) = 0 /\ Len(toClient'[c]) = 1
        BY <1>2, <2>1, <4>1
      <4> QED BY <3>1, <4>2 DEF AwaitsLine
    <3> QED BY <2>1, <3>2, <3>3
  <2> QED BY <1>6, <2>2, <2>3 DEF Sends, Answers
<1>7. CASE SendsOther(c)
  <2>1. ~EchoInHand(c) /\ ~EchoInHand(c)' /\ ~Owed(c) /\ ~Owed(c)'
    BY <1>7 DEF SendsOther, Answers, Owed, EchoInHand
  <2> QED BY <1>1, <1>7, <2>1 DEF SendsOther, Idle, AwaitsEcho, AwaitsLine
<1>8. CASE Types
  <2>1. ~EchoInHand(c) /\ ~EchoInHand(c)' /\ (Owed(c)' => Owed(c))
    BY <1>8 DEF Types, Owed, EchoInHand
  <2> QED BY <1>1, <1>8, <2>1 DEF Types, Idle, AwaitsEcho, AwaitsLine
<1> QED BY <1>1, <1>4, <1>5, <1>6, <1>7, <1>8

LEMMA ChatClient ==
  ASSUME TalkTypeOK, TalkTypeOK', BaseInv, NEW c \in Client, TalkClientNext(c), prog = "chat", Chat(c)
  PROVE  Chat(c)'
<1>1. /\ UNCHANGED <<prog, at, adr, message>>
      /\ \/ TypesLine(c) \/ Leaves(c) \/ SendsLine(c) \/ SendsBack(c)
         \/ \E i \in 1..Len(toClient[c]) : TakesLine(c, i)
  BY ClientSteps
<1>2. /\ Len(toServer[c]) \in Nat /\ Len(toClient[c]) \in Nat
      /\ Len(toServer'[c]) \in Nat /\ Len(toClient'[c]) \in Nat
  BY LenProperties DEF TalkTypeOK
<1>3. EchoInHand(c)' = EchoInHand(c) /\ Owed(c)' = Owed(c) /\ (EchoInHand(c) => Owed(c))
  BY <1>1 DEF EchoInHand, Owed
<1>4. ASSUME TypesLine(c) \/ Leaves(c) \/ SendsBack(c) PROVE Chat(c)'
  <2>1. Idle(c) /\ UNCHANGED <<toServer, toClient>> /\ cat'[c] \in {"send", "left", "type"}
    BY <1>4 DEF TypesLine, Leaves, SendsBack, Chat
  <2> QED BY <1>3, <2>1 DEF Idle, Chat
<1>5. ASSUME SendsLine(c) PROVE Chat(c)'
  <2>1. Idle(c) /\ cat'[c] = "recv_echo" /\ UNCHANGED <<typed, toClient>>
    BY <1>5 DEF SendsLine, Chat
  <2>2. Len(toServer[c]) = 0 /\ Len(toClient'[c]) = 0 /\ ~Owed(c) /\ ~EchoInHand(c)
    BY <1>3, <2>1 DEF Idle
  <2>3. toServer'[c][1] = [by |-> c, n |-> typed'[c]]
    BY <1>5, <2>1, <2>2 DEF SendsLine, BaseInv, Counted
  <2>4. Len(toServer'[c]) = 1
    BY <1>5, <2>2 DEF SendsLine
  <2>5. AwaitsEcho(c)'
    BY <1>3, <2>2, <2>3, <2>4 DEF AwaitsEcho
  <2> QED BY <2>1, <2>5 DEF Chat
<1>6. ASSUME NEW i \in 1..Len(toClient[c]), TakesLine(c, i) PROVE Chat(c)'
  <2>1. /\ UNCHANGED <<typed, toServer>> /\ Len(toClient[c]) # 0
        /\ Len(toClient'[c]) = Len(toClient[c]) - 1
    BY <1>6 DEF TakesLine
  <2>2. CASE cat[c] = "recv_echo"
    <3>1. cat'[c] = "recv_line" /\ AwaitsEcho(c)
      BY <1>6, <2>2 DEF TakesLine, AfterAnswer, Chat
    <3>2. Len(toServer[c]) = 0 /\ ~EchoInHand(c) /\ Len(toClient[c]) <= 2
          /\ (Owed(c) => Len(toClient[c]) = 1)
      BY <1>2, <2>1, <3>1 DEF AwaitsEcho
    <3>3. Len(toClient'[c]) <= 1 /\ (Len(toClient[c]) = 1 => Len(toClient'[c]) = 0)
      BY <1>2, <2>1, <3>2
    <3>4. AwaitsLine(c)'
      BY <1>3, <2>1, <3>2, <3>3 DEF AwaitsLine
    <3> QED BY <3>1, <3>4 DEF Chat
  <2>3. CASE cat[c] = "recv_line"
    <3>1. cat'[c] = "send_back" /\ AwaitsLine(c)
      BY <1>6, <2>3 DEF TakesLine, Chat
    <3>2. Len(toServer[c]) = 0 /\ ~Owed(c) /\ Len(toClient[c]) <= 1
      BY <2>1, <3>1 DEF AwaitsLine
    <3>3. Len(toClient'[c]) = 0
      <4>1. PICK n \in Nat, k \in Nat : n = Len(toClient[c]) /\ k = Len(toClient'[c])
        BY <1>2
      <4>2. n # 0 /\ n <= 1 /\ k = n - 1
        BY <2>1, <3>2, <4>1
      <4>3. k = 0
        BY <4>2
      <4> QED BY <4>1, <4>3
    <3> QED BY <1>3, <2>1, <3>1, <3>2, <3>3 DEF Idle, Chat
  <2> QED BY <1>6, <2>2, <2>3 DEF TakesLine
<1> QED BY <1>1, <1>4, <1>5, <1>6

LEMMA NextChat ==
  ASSUME TalkTypeOK, TalkTypeOK', BaseInv, ChatInv, [TalkNext]_talkVars
  PROVE  ChatInv'
<1>1. SUFFICES ASSUME prog = "chat", Calm' PROVE \A c \in Client : Chat(c)'
  BY FaultsGrow DEF ChatInv
<1>2. Calm /\ UNCHANGED <<lost, twice>> /\ \A c \in Client : Chat(c)
  BY <1>1, CalmBefore DEF ChatInv
<1>3. CASE TalkServerNext
  BY <1>1, <1>2, <1>3, ChatServer
<1>4. ASSUME NEW c \in Client, TalkClientNext(c) PROVE \A d \in Client : Chat(d)'
  <2>1. Chat(c)'
    BY <1>1, <1>2, <1>4, ChatClient
  <2>2. ASSUME NEW d \in Client \ {c} PROVE Chat(d)'
    BY <1>2, <1>4, ClientSteps, ChatElsewhere
  <2> QED BY <2>1, <2>2
<1>5. ASSUME NEW c \in Client, Lose(c) \/ Double(c) PROVE FALSE
  <2>1. lost \in Nat /\ twice \in Nat
    BY DEF TalkTypeOK
  <2>2. lost' = lost + 1 \/ twice' = twice + 1
    BY <1>5 DEF Lose, Double
  <2> QED BY <1>2, <2>1, <2>2
<1>6. CASE UNCHANGED talkVars
  <2>1. \A c \in Client : Elsewhere(c)
    BY <1>6 DEF talkVars, Elsewhere
  <2> QED BY <1>2, <2>1, ChatElsewhere
<1> QED BY <1>3, <1>4, <1>5, <1>6 DEF TalkNext-----------------------------------------------------------------------------
(* chat, with one client. *)

LEMMA LoneServer ==
  ASSUME TalkTypeOK, TalkTypeOK', BaseInv, TalkServerNext, prog = "chat", NEW c \in Client,
         \A d \in Client : Chat(d), Alone(c), Lone(c)
  PROVE  Lone(c)'
<1>1. /\ typed'[c] = typed[c] /\ cat' = cat
      /\ Takes(c) \/ TakesOther(c) \/ Sends(c) \/ SendsOther(c) \/ Types
  BY ServerSteps
<1>2. /\ Len(toServer[c]) \in Nat /\ Len(toClient[c]) \in Nat
      /\ Len(toServer'[c]) \in Nat /\ Len(toClient'[c]) \in Nat
  BY LenProperties DEF TalkTypeOK
<1>3. CASE Takes(c)
  <2>1. /\ cat[c] = "recv_echo" /\ Len(toServer[c]) = 1 /\ Len(toClient[c]) = 0
    BY <1>3, OnTheWay DEF Takes
  <2>2. Len(toServer'[c]) = 0 /\ Len(toClient'[c]) = 0
    BY <1>2, <1>3, <2>1 DEF Takes
  <2>3. CASE at = "recv"
    <3>1. typed[c] = 1
      BY <2>1, <2>3 DEF Lone
    <3>2. at' = "echo" /\ adr' = c
      BY <1>3, <2>3 DEF Takes, Turns
    <3> QED BY <1>1, <3>1, <3>2 DEF Lone
  <2>4. CASE at = "recv_echo"
    <3>1. typed[c] = 1 \/ Stuck(c)
      BY <2>4 DEF Lone
    <3>2. at' = "recv"
      BY <1>3, <2>4 DEF Takes, Turns
    <3> QED BY <1>1, <2>1, <2>2, <3>1, <3>2 DEF Lone, Stuck
  <2> QED BY <1>3, <2>3, <2>4 DEF Takes, Turns
<1>4. CASE TakesOther(c)
  <2>1. PICK d \in Client \ {c} : Len(toServer[d]) > 0
    BY <1>4 DEF TakesOther
  <2>2. cat[d] = "recv_echo" /\ typed[d] = 0 /\ Counted(d)
    BY <2>1, OnTheWay DEF Alone, BaseInv
  <2>3. Len(answers[d]) \in Nat /\ Len(answers[d]) + 1 = 0
    BY <2>2, LenProperties DEF Counted, Waits, TalkTypeOK
  <2> QED BY <2>3
<1>5. CASE Sends(c)
  <2>1. typed[c] = 1 /\ (at' = "type" \/ at' = "recv_echo") /\ adr' = c
    BY <1>5 DEF Sends, Answers, AfterEcho, Lone
  <2> QED BY <1>1, <2>1 DEF Lone
<1>6. CASE SendsOther(c)
  BY <1>6 DEF SendsOther, Answers, Lone
<1>7. CASE Types
  <2>1. typed[c] = 1 /\ Owed(c) /\ ~EchoInHand(c)
    BY <1>7 DEF Types, Lone, Owed, EchoInHand
  <2>2. /\ adr' = c /\ UNCHANGED <<toServer, toClient>> /\ at' \in {"send", "end"}
    BY <1>7, <2>1 DEF Types, Owed
  <2>3. cat[c] \in {"recv_echo", "recv_line"}
    <3>1. Chat(c) /\ ~Idle(c)
      BY <2>1 DEF Idle
    <3>2. cat[c] \in {"type", "send", "recv_echo", "recv_line", "send_back", "left"}
      BY DEF TalkTypeOK
    <3> QED BY <3>1, <3>2 DEF Chat
  <2>4. CASE cat[c] = "recv_echo"
    <3>1. AwaitsEcho(c)
      BY <2>4 DEF Chat
    <3>2. ~(Len(toServer[c]) > 0) /\ Len(toClient[c]) = 1
      BY <2>1, <3>1 DEF AwaitsEcho
    <3>3. Len(toServer[c]) = 0
      BY <1>2, <3>2
    <3> QED BY <1>1, <2>1, <2>2, <2>4, <3>2, <3>3 DEF Lone
  <2>5. CASE cat[c] = "recv_line"
    <3>1. AwaitsLine(c)
      BY <2>5 DEF Chat
    <3>2. Len(toServer[c]) = 0 /\ Len(toClient[c]) = 0
      BY <2>1, <3>1 DEF AwaitsLine
    <3> QED BY <1>1, <2>1, <2>2, <2>5, <3>2 DEF Lone
  <2> QED BY <2>3, <2>4, <2>5
<1> QED BY <1>1, <1>3, <1>4, <1>5, <1>6, <1>7

\* A client that types is at its first line, or has been answered its first and
\* has the server take its second for an echo.
LEMMA LoneTypes ==
  ASSUME TalkTypeOK, NEW c \in Client, Chat(c), Lone(c), cat[c] = "type"
  PROVE  at = "recv_echo" /\ typed[c] = 1 /\ Len(toClient[c]) = 0
<1>1. ~Owed(c) /\ Len(toClient[c]) = 0
  BY DEF Chat, Idle
<1>2. at # "recv" /\ at # "end" /\ at \notin {"echo", "type", "send"}
  BY <1>1 DEF Lone, Owed, Stuck
<1> QED BY <1>1, <1>2 DEF Lone, Stuck, TalkTypeOK

LEMMA LoneClient ==
  ASSUME TalkTypeOK, TalkTypeOK', BaseInv, NEW c \in Client, TalkClientNext(c), prog = "chat",
         Chat(c), Chat(c)', Alone(c), Lone(c)
  PROVE  Lone(c)'
<1>1. /\ UNCHANGED <<prog, at, adr, message>>
      /\ \/ TypesLine(c) \/ Leaves(c) \/ SendsLine(c) \/ SendsBack(c)
         \/ \E i \in 1..Len(toClient[c]) : TakesLine(c, i)
  BY ClientSteps
<1>2. /\ Len(toServer[c]) \in Nat /\ Len(toClient[c]) \in Nat
  BY LenProperties DEF TalkTypeOK
<1>3. ASSUME TypesLine(c) PROVE Lone(c)'
  <2>1. at = "recv_echo" /\ typed[c] = 1 /\ Len(toClient[c]) = 0
    BY <1>3, LoneTypes DEF TypesLine
  <2>2. at' = "recv_echo" /\ typed'[c] = 2 /\ Len(toClient'[c]) = 0 /\ cat'[c] = "send"
    BY <1>1, <1>3, <2>1 DEF TypesLine
  <2> QED BY <2>2 DEF Lone, Stuck
<1>4. ASSUME Leaves(c) PROVE Lone(c)'
  <2>1. at = "recv_echo" /\ typed[c] = 1
    BY <1>4, LoneTypes DEF Leaves
  <2> QED BY <1>1, <1>4, <2>1 DEF Leaves, Lone
<1>5. ASSUME SendsLine(c) PROVE Lone(c)'
  <2>1. cat[c] = "send" /\ cat'[c] = "recv_echo" /\ UNCHANGED <<typed, toClient>>
    BY <1>5 DEF SendsLine
  <2> QED BY <1>1, <2>1 DEF Lone, Stuck
<1>6. ASSUME SendsBack(c) PROVE Lone(c)'
  <2>1. cat[c] = "send_back" /\ UNCHANGED <<typed, toServer, toClient>>
    BY <1>6 DEF SendsBack
  <2> QED BY <1>1, <2>1 DEF Lone, Stuck
<1>7. ASSUME NEW i \in 1..Len(toClient[c]), TakesLine(c, i) PROVE Lone(c)'
  <2>1. /\ UNCHANGED <<typed, toServer>> /\ Len(toClient[c]) # 0
        /\ Len(toClient'[c]) = Len(toClient[c]) - 1
    BY <1>7 DEF TakesLine
  <2>2. at # "recv" /\ ~Stuck(c)
    BY <2>1 DEF Lone, Stuck
  <2>3. CASE at = "end"
    <3>1. cat[c] = "recv_echo" /\ Len(toClient[c]) = 1 /\ Len(toServer[c]) = 0
      BY <2>1, <2>3 DEF Lone
    <3>2. cat'[c] = "recv_line" /\ Len(toClient'[c]) = 0
      BY <1>7, <2>1, <3>1 DEF TakesLine, AfterAnswer
    <3> QED BY <1>1, <2>1, <2>3, <3>1, <3>2 DEF Lone
  <2>4. CASE at # "end"
    BY <1>1, <2>1, <2>2, <2>4 DEF Lone
  <2> QED BY <2>3, <2>4
<1> QED BY <1>1, <1>3, <1>4, <1>5, <1>6, <1>7

\* The first line of the first client.
LEMMA LoneBegins ==
  ASSUME TalkTypeOK, TalkTypeOK', BaseInv, NEW c \in Client, TalkClientNext(c), prog = "chat",
         Chat(c), typed[c] = 0, at = "recv", typed'[c] > 0
  PROVE  Lone(c)'
<1>1. /\ UNCHANGED <<prog, at, adr, message>>
      /\ \/ TypesLine(c) \/ Leaves(c) \/ SendsLine(c) \/ SendsBack(c)
         \/ \E i \in 1..Len(toClient[c]) : TakesLine(c, i)
  BY ClientSteps
<1>2. TypesLine(c)
  BY <1>1 DEF Leaves, SendsLine, SendsBack, TakesLine
<1>3. Len(toClient[c]) = 0
  BY <1>2 DEF TypesLine, Chat, Idle
<1>4. typed'[c] = 1 /\ cat'[c] = "send" /\ Len(toClient'[c]) = 0 /\ at' = "recv"
  BY <1>1, <1>2, <1>3 DEF TypesLine
<1> QED BY <1>4 DEF Lone

LEMMA NextLone ==
  ASSUME TalkTypeOK, TalkTypeOK', BaseInv, ChatInv, ChatInv', LoneInv, [TalkNext]_talkVars
  PROVE  LoneInv'
<1>1. SUFFICES ASSUME prog = "chat", prog' = "chat", Calm'
               PROVE /\ (\A c \in Client : typed'[c] = 0) => at' = "recv"
                     /\ \A c \in Client : Alone(c)' => Lone(c)'
  BY FaultsGrow DEF LoneInv
<1>2. /\ Calm /\ UNCHANGED <<lost, twice>>
      /\ \A c \in Client : Chat(c) /\ Chat(c)'
      /\ (\A c \in Client : typed[c] = 0) => at = "recv"
      /\ \A c \in Client : Alone(c) => Lone(c)
  BY <1>1, CalmBefore DEF ChatInv, LoneInv
<1>3. \A c \in Client : typed'[c] = 0 => typed[c] = 0
  BY TypedGrows
<1>4. CASE TalkServerNext
  <2>1. \A c \in Client : typed'[c] = typed[c]
    BY <1>4, ServerSteps
  <2>2. ASSUME \A c \in Client : typed[c] = 0 PROVE at' = "recv"
    <3>1. at = "recv"
      BY <1>2, <2>2
    <3>2. PICK d \in Client : Len(toServer[d]) > 0
      BY <1>4, <3>1, ServerSteps, ReceiveDoes DEF TalkServerNext, SendTo, TypeAtServer
    <3>3. cat[d] = "recv_echo" /\ Counted(d)
      BY <1>2, <3>2, OnTheWay DEF BaseInv
    <3>4. Len(answers[d]) \in Nat /\ Len(answers[d]) + 1 = 0
      BY <2>2, <3>3, LenProperties DEF Counted, Waits, TalkTypeOK
    <3> QED BY <3>4
  <2>3. ASSUME NEW c \in Client, Alone(c)' PROVE Lone(c)'
    <3>1. Alone(c)
      BY <2>1, <2>3 DEF Alone
    <3> QED BY <1>1, <1>2, <1>4, <3>1, LoneServer
  <2> QED BY <2>1, <2>2, <2>3
<1>5. ASSUME NEW c \in Client, TalkClientNext(c)
      PROVE  /\ (\A d \in Client : typed'[d] = 0) => at' = "recv"
             /\ \A d \in Client : Alone(d)' => Lone(d)'
  <2>1. UNCHANGED <<prog, at, adr, message>> /\ \A d \in Client \ {c} : Elsewhere(d)
    BY <1>5, ClientSteps
  <2>2. (\A d \in Client : typed'[d] = 0) => at' = "recv"
    BY <1>2, <1>3, <2>1
  <2>3. ASSUME Alone(c)' PROVE Lone(c)'
    <3>1. \A d \in Client \ {c} : typed[d] = 0
      BY <1>3, <2>3 DEF Alone
    <3>2. CASE typed[c] > 0
      <4>1. Lone(c)
        BY <1>2, <3>1, <3>2 DEF Alone
      <4> QED BY <1>1, <1>2, <1>5, <3>1, <3>2, <4>1, LoneClient DEF Alone
    <3>3. CASE ~(typed[c] > 0)
      <4>1. typed[c] = 0 /\ at = "recv"
        <5>1. typed[c] = 0
          BY <3>3, TypedGrows
        <5> QED BY <1>2, <3>1, <5>1
      <4> QED BY <1>1, <1>2, <1>5, <2>3, <4>1, LoneBegins DEF Alone
    <3> QED BY <3>2, <3>3
  <2>4. ASSUME NEW d \in Client \ {c}, Alone(d)' PROVE Lone(d)'
    <3>1. Elsewhere(d) /\ Alone(d)
      BY <1>3, <2>1, <2>4 DEF Alone, Elsewhere
    <3> QED BY <1>2, <3>1 DEF Lone, Stuck, Elsewhere
  <2> QED BY <2>2, <2>3, <2>4
<1>6. ASSUME NEW c \in Client, Lose(c) \/ Double(c) PROVE FALSE
  <2>1. lost \in Nat /\ twice \in Nat
    BY DEF TalkTypeOK
  <2>2. lost' = lost + 1 \/ twice' = twice + 1
    BY <1>6 DEF Lose, Double
  <2> QED BY <1>2, <2>1, <2>2
<1>7. CASE UNCHANGED talkVars
  BY <1>2, <1>7 DEF talkVars, Alone, Lone, Stuck
<1> QED BY <1>4, <1>5, <1>6, <1>7 DEF TalkNext-----------------------------------------------------------------------------
(* The echoes. *)

\* What a client takes for the echo of its line.
LEMMA NewAnswer ==
  ASSUME TalkTypeOK, BaseInv, UechoInv, ChatInv, [TalkNext]_talkVars, NEW c \in Client,
         NEW i \in 1..Len(toClient[c]), TakesLine(c, i), cat[c] = "recv_echo"
  PROVE  LET k == Len(answers[c]) + 1
             m == toClient[c][i]
         IN  \/ m = [by |-> c, n |-> k]
             \/ prog = "uecho" /\ twice > 0 /\ m.by = c /\ m.n < k
             \/ prog = "chat" /\ ~Calm'
<1> DEFINE k == Len(answers[c]) + 1
           m == toClient[c][i]
<1>1. k = typed[c] /\ typed[c] \in Nat
  BY DatagramAssumption DEF BaseInv, Counted, Waits, TalkTypeOK
<1>2. m \in Line /\ m \in ToSet(toClient[c])
  BY PathType DEF Paths, TalkTypeOK, TakesLine
<1>3. m.by = c /\ m.n = k => m = [by |-> c, n |-> k]
  BY <1>2 DEF Line
<1> HIDE DEF k, m
<1>4. CASE prog = "uecho"
  <2>1. Uecho(c) /\ m \in Around(c)
    BY <1>2, <1>4 DEF UechoInv, Around, m
  <2>2. m.by = c /\ m.n <= typed[c] /\ (twice = 0 => m.n = typed[c])
    BY <2>1 DEF Uecho
  <2>3. PICK n \in Nat, t \in Nat, w \in Nat : n = m.n /\ t = typed[c] /\ w = twice
    BY <1>1, <1>2 DEF Line, TalkTypeOK
  <2>4. n = t \/ (w > 0 /\ n < t)
    BY <2>2, <2>3
  <2>5. m.n = k \/ (twice > 0 /\ m.n < k)
    BY <1>1, <2>3, <2>4
  <2> QED BY <1>3, <1>4, <2>2, <2>5 DEF k, m
<1>5. CASE prog = "chat"
  <2>1. SUFFICES ASSUME Calm' PROVE m = [by |-> c, n |-> k]
    BY <1>5 DEF k, m
  <2>2. i = 1
    BY <2>1 DEF TakesLine, Calm
  <2>3. AwaitsEcho(c) /\ Len(toClient[c]) > 0
    BY <1>5, <2>1, CalmBefore DEF ChatInv, Chat, TakesLine
  <2>4. toClient[c][1] = [by |-> c, n |-> typed[c]]
    BY <2>3 DEF AwaitsEcho
  <2> QED BY <1>1, <2>2, <2>4 DEF m
<1> QED BY <1>4, <1>5, DatagramAssumption DEF TalkTypeOK

LEMMA NextMatches ==
  ASSUME TalkTypeOK, TalkTypeOK', BaseInv, UechoInv, ChatInv, Matches, [TalkNext]_talkVars
  PROVE  Matches'
<1>1. prog' = prog /\ (twice > 0 => twice' > 0)
      /\ (lost > 0 \/ twice > 0 \/ overtaken => lost' > 0 \/ twice' > 0 \/ overtaken')
  <2>1. PICK l \in Nat, m \in Nat, t \in Nat, u \in Nat :
          l = lost /\ m = lost' /\ t = twice /\ u = twice'
    BY DEF TalkTypeOK
  <2>2. (m = 0 => m = l) /\ (u = 0 => u = t) /\ (overtaken => overtaken') /\ prog' = prog
    BY <2>1, FaultsGrow
  <2>3. (l > 0 => m > 0) /\ (t > 0 => u > 0)
    BY <2>2
  <2> QED BY <2>1, <2>2, <2>3
<1>2. ASSUME NEW c \in Client, NEW k \in 1..Len(answers'[c]),
             k \in 1..Len(answers[c]), answers'[c][k] = answers[c][k]
      PROVE  \/ answers'[c][k] = [by |-> c, n |-> k]
             \/ prog' = "uecho" /\ twice' > 0 /\ answers'[c][k].by = c /\ answers'[c][k].n < k
             \/ prog' = "chat" /\ (lost' > 0 \/ twice' > 0 \/ overtaken')
  BY <1>1, <1>2 DEF Matches
<1>3. ASSUME NEW c \in Client, answers'[c] = answers[c], NEW k \in 1..Len(answers'[c])
      PROVE  \/ answers'[c][k] = [by |-> c, n |-> k]
             \/ prog' = "uecho" /\ twice' > 0 /\ answers'[c][k].by = c /\ answers'[c][k].n < k
             \/ prog' = "chat" /\ (lost' > 0 \/ twice' > 0 \/ overtaken')
  BY <1>2, <1>3
<1>4. CASE answers' = answers
  BY <1>3, <1>4 DEF Matches
<1>5. ASSUME NEW c \in Client, TalkClientNext(c) PROVE Matches'
  <2>1. \A d \in Client \ {c} : answers'[d] = answers[d]
    BY <1>5, ClientSteps DEF Elsewhere
  <2>2. ASSUME NEW k \in 1..Len(answers'[c])
        PROVE  \/ answers'[c][k] = [by |-> c, n |-> k]
               \/ prog' = "uecho" /\ twice' > 0 /\ answers'[c][k].by = c /\ answers'[c][k].n < k
               \/ prog' = "chat" /\ (lost' > 0 \/ twice' > 0 \/ overtaken')
    <3>1. CASE answers'[c] = answers[c]
      BY <1>3, <3>1
    <3>2. CASE answers'[c] # answers[c]
      <4>1. PICK i \in 1..Len(toClient[c]) : TakesLine(c, i) /\ cat[c] = "recv_echo"
              /\ answers'[c] = Append(answers[c], toClient[c][i])
        BY <1>5, <3>2, ClientSteps DEF TypesLine, Leaves, SendsLine, SendsBack, TakesLine
      <4>2. answers[c] \in Seq(Line) /\ toClient[c][i] \in Line
        BY PathType DEF Paths, TalkTypeOK
      <4>3. /\ Len(answers[c]) \in Nat /\ Len(answers'[c]) = Len(answers[c]) + 1
            /\ \A j \in 1..Len(answers[c]) : answers'[c][j] = answers[c][j]
            /\ answers'[c][Len(answers[c]) + 1] = toClient[c][i]
        BY <4>1, <4>2, AppendProperties, LenProperties
      <4>4. CASE k \in 1..Len(answers[c])
        BY <1>2, <4>3, <4>4
      <4>5. CASE k = Len(answers[c]) + 1
        <5>1. answers'[c][k] = toClient[c][i]
          BY <4>3, <4>5
        <5>2. \/ answers'[c][k] = [by |-> c, n |-> k]
              \/ prog = "uecho" /\ twice > 0 /\ answers'[c][k].by = c /\ answers'[c][k].n < k
              \/ prog = "chat" /\ ~Calm'
          BY <4>1, <4>5, <5>1, NewAnswer
        <5>3. ~Calm' => lost' > 0 \/ twice' > 0 \/ overtaken'
          BY DEF Calm, TalkTypeOK
        <5> QED BY <1>1, <5>2, <5>3
      <4> QED BY <4>3, <4>4, <4>5
    <3> QED BY <3>1, <3>2
  <2>3. ASSUME NEW d \in Client \ {c}, NEW k \in 1..Len(answers'[d])
        PROVE  \/ answers'[d][k] = [by |-> d, n |-> k]
               \/ prog' = "uecho" /\ twice' > 0 /\ answers'[d][k].by = d /\ answers'[d][k].n < k
               \/ prog' = "chat" /\ (lost' > 0 \/ twice' > 0 \/ overtaken')
    BY <1>3, <2>1
  <2> QED BY <2>2, <2>3 DEF Matches
<1> QED
  <2>1. answers' = answers \/ \E c \in Client : TalkClientNext(c)
    BY ServerSteps DEF TalkNext, TalkServerNext, Lose, Double, talkVars
  <2> QED BY <1>4, <1>5, <2>1

\* Two that have typed are a crowd.
LEMMA OnlyTalker ==
  ASSUME BaseInv, NEW c \in Client, typed[c] > 0, ~(Cardinality(Talkers) > 1)
  PROVE  \A d \in Client \ {c} : ~(typed[d] > 0)
<1>1. SUFFICES ASSUME NEW d \in Client \ {c}, typed[d] > 0 PROVE FALSE
  OBVIOUS
<1>2. {c, d} \subseteq Talkers /\ IsFiniteSet(Talkers)
  BY <1>1 DEF Talkers, BaseInv
<1>3. Cardinality({c, d}) = 2
  <2>1. IsFiniteSet({c}) /\ Cardinality({c}) = 1
    BY FS_Singleton
  <2>2. {c} \cup {d} = {c, d} /\ d \notin {c}
    BY <1>1
  <2>3. Cardinality({c} \cup {d}) = Cardinality({c}) + 1
    BY <2>1, <2>2, FS_AddElement
  <2> QED BY <2>1, <2>2, <2>3
<1>4. Cardinality({c, d}) <= Cardinality(Talkers) /\ Cardinality(Talkers) \in Nat
  BY <1>2, FS_Subset, FS_CardinalityType
<1> QED BY <1>3, <1>4

LEMMA LoneHasOneAnswer ==
  ASSUME TalkTypeOK, BaseInv, LoneInv
  PROVE  OneAnswer
<1>1. SUFFICES ASSUME NEW c \in Client, prog = "chat", Len(answers[c]) > 1, Calm, ~Crowd
               PROVE  FALSE
  BY DEF OneAnswer, Calm, TalkTypeOK
<1>2. Len(answers[c]) \in Nat /\ typed[c] \in Nat /\ \A d \in Client : typed[d] \in Nat
  BY LenProperties, DatagramAssumption DEF TalkTypeOK
<1>3. Waits(c) \in {0, 1} /\ Len(answers[c]) + Waits(c) = typed[c]
  BY DEF BaseInv, Counted, Waits
<1>4. typed[c] > 1
  BY <1>1, <1>2, <1>3
<1>5. Alone(c)
  <2>1. \A d \in Client \ {c} : ~(typed[d] > 0)
    BY <1>1, <1>2, <1>4, OnlyTalker DEF Crowd
  <2> QED BY <1>2, <1>4, <2>1 DEF Alone
<1>6. Lone(c) /\ typed[c] # 1
  BY <1>1, <1>4, <1>5 DEF LoneInv
<1>7. Stuck(c)
  BY <1>6 DEF Lone, TalkTypeOK
<1>8. typed[c] = 2 /\ Waits(c) = 1
  BY <1>7 DEF Stuck, Waits
<1> QED BY <1>1, <1>2, <1>3, <1>8

TalkInv == TalkTypeOK /\ BaseInv /\ UechoInv /\ ChatInv /\ LoneInv /\ Matches

LEMMA InitTalk == TalkInit => TalkInv
<1> SUFFICES ASSUME TalkInit PROVE TalkInv
  OBVIOUS
<1>1. /\ \A c \in Client : /\ Len(toServer[c]) = 0 /\ Len(toClient[c]) = 0 /\ Len(answers[c]) = 0
                           /\ ToSet(toServer[c]) = {} /\ ToSet(toClient[c]) = {}
                           /\ typed[c] = 0 /\ cat[c] = "type"
      /\ at = "recv"
  BY DEF TalkInit, ToSet
<1>2. BaseInv
  <2>1. \A c \in Client : Counted(c)
    <3>1. \A c \in Client : Len(answers[c]) = 0 /\ typed[c] = 0 /\ Waits(c) = 0 /\ cat[c] # "send"
      BY <1>1 DEF Waits
    <3> QED BY <3>1 DEF Counted
  <2>2. Talkers = {}
    BY <1>1 DEF Talkers
  <2> QED BY <1>1, <2>1, <2>2, FS_EmptySet DEF BaseInv
<1>3. UechoInv
  <2>1. \A c \in Client : Around(c) = {} /\ Quiet(c)
    BY <1>1 DEF Around, Quiet, EchoInHand
  <2> QED BY <1>1, <2>1 DEF UechoInv, Uecho
<1>4. ChatInv
  BY <1>1 DEF ChatInv, Chat, Idle, Owed
<1>5. LoneInv
  BY <1>1 DEF LoneInv, Alone
<1>6. Matches
  BY <1>1 DEF Matches
<1> QED BY InitTalkType, <1>2, <1>3, <1>4, <1>5, <1>6 DEF TalkInv

\* What a client prints as the echo of a line is that line, and in chat a lone
\* client gets one at most.
THEOREM EchoesMatch == TalkSpec => []EchoOfTheLine
<1>1. TalkInv /\ [TalkNext]_talkVars => TalkInv'
  <2>1. SUFFICES ASSUME TalkInv, [TalkNext]_talkVars PROVE TalkInv'
    OBVIOUS
  <2>2. TalkTypeOK'
    BY <2>1, NextTalkType DEF TalkInv
  <2>3. BaseInv' /\ UechoInv' /\ ChatInv'
    BY <2>1, <2>2, NextBase, NextUecho, NextChat DEF TalkInv
  <2>4. LoneInv' /\ Matches'
    BY <2>1, <2>2, <2>3, NextLone, NextMatches DEF TalkInv
  <2> QED BY <2>2, <2>3, <2>4 DEF TalkInv
<1>2. TalkInv => EchoOfTheLine
  BY LoneHasOneAnswer DEF TalkInv, EchoOfTheLine
<1> QED BY <1>1, <1>2, InitTalk, PTL DEF TalkSpec
=============================================================================
