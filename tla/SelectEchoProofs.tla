-------------------------- MODULE SelectEchoProofs --------------------------
(***************************************************************************)
(* Proofs about SelectEcho, for any number of clients and descriptors and  *)
(* lines of any length: the types, the bits of a scan, and the promise of  *)
(* an echo server.                                                         *)
(***************************************************************************)
EXTENDS SelectEcho, SequenceTheorems, TLAPS

-----------------------------------------------------------------------------
(* Types rest on what select looks at being open. *)

Open == {f \in Fd : fdt[f] # NoConn}

Watching ==
  /\ reads = {Listen} \cup Open
  /\ copy \subseteq reads

\* What is to be written is the greeting, or the piece last read.
InHand ==
  \/ cur = NoFd /\ buf = NoMsg
  \/ /\ cur \in Fd /\ fdt[cur] \in Conn
     /\ \/ prog = "hello" /\ buf = Greeting
        \/ buf \in Msg /\ buf = [from |-> fdt[cur], n |-> taken[fdt[cur]]]

TypeInv == TypeOK /\ Watching /\ InHand

USE DEF typing

LEMMA ListenIsApart == Listen \notin Fd
BY SelectAssumption

LEMMA InitType == Init => TypeInv
BY SocketsAssumption, SelectAssumption
   DEF Init, SockInit, TypeInv, TypeOK, Watching, InHand, Open, PeerState

\* A step of the clients that leaves the loop alone.
LEMMA ClientKeeps ==
  ASSUME TypeInv, TypeOK', UNCHANGED <<fdt, taken, loopVars>>
  PROVE  TypeInv'
BY DEF TypeInv, Watching, Open, InHand, loopVars

LEMMA ArriveType ==
  ASSUME TypeInv, NEW c \in Conn, Arrive(c)
  PROVE  TypeInv'
<1>1. TypeOK'
  BY DEF TypeInv, TypeOK, Arrive, Connect, loopVars, PeerState
<1> QED BY <1>1, ClientKeeps DEF Arrive, Connect

LEMMA SendLineType ==
  ASSUME TypeInv, NEW c \in Conn, SendLine(c)
  PROVE  TypeInv'
<1>1. sent' \in [Conn -> 0..MaxSend]
  BY SocketsAssumption, SelectAssumption DEF SendLine, TypeInv, TypeOK
<1>2. asking' \subseteq Conn /\ long' \subseteq Conn
  BY DEF SendLine, TypeInv, TypeOK
<1>3. TypeOK'
  BY <1>1, <1>2 DEF SendLine, TypeInv, TypeOK, loopVars
<1> QED BY <1>3, ClientKeeps DEF SendLine

LEMMA ReadAnswerType ==
  ASSUME TypeInv, NEW c \in Conn, ReadAnswer(c)
  PROVE  TypeInv'
<1>1. TypeOK'
  BY SocketsAssumption DEF ReadAnswer, TypeInv, TypeOK, loopVars
<1> QED BY <1>1, ClientKeeps DEF ReadAnswer

LEMMA GoneType ==
  ASSUME TypeInv, NEW c \in Conn, Leave(c) \/ NetworkReset(c)
  PROVE  TypeInv'
<1>1. CASE Leave(c)
  <2>1. peer' \in [Conn -> PeerState] /\ unread' \in [Conn -> 0..SndBuf]
    BY <1>1, SocketsAssumption DEF Leave, Hangup, TypeInv, TypeOK, PeerState
  <2>2. TypeOK'
    BY <1>1, <2>1 DEF Leave, Hangup, TypeInv, TypeOK, loopVars
  <2> QED BY <1>1, <2>2, ClientKeeps DEF Leave, Hangup
<1>2. CASE NetworkReset(c)
  <2>1. TypeOK'
    BY <1>2 DEF NetworkReset, ResetArrives, TypeInv, TypeOK, loopVars, PeerState
  <2> QED BY <1>2, <2>1, ClientKeeps DEF NetworkReset, ResetArrives
<1> QED BY <1>1, <1>2

LEMMA SelectType ==
  ASSUME TypeInv, Select
  PROVE  TypeInv'
<1>1. Ready \subseteq reads
  BY DEF Ready
<1>2. TypeOK'
  BY <1>1 DEF Select, TypeInv, TypeOK, sockVars
<1> QED BY <1>1, <1>2 DEF Select, TypeInv, Watching, Open, InHand, sockVars

LEMMA HandleListenType ==
  ASSUME TypeInv, HandleListen
  PROVE  TypeInv'
<1>1. PICK c \in backlog, f \in FreeFds : AcceptAs(c, f) /\ SetInReads(f) /\ Accepted(f)
  BY DEF HandleListen
<1>2. c \in Conn /\ f \in Fd /\ fdt[f] = NoConn
  BY DEF TypeInv, TypeOK, FreeFds
<1>3. fdt' = [fdt EXCEPT ![f] = c] /\ backlog' = backlog \ {c}
  BY <1>1 DEF AcceptAs
<1>4. reads' = reads \cup {f} /\ copy' = copy \ {Listen}
  BY <1>1 DEF SetInReads
<1>5. \/ prog = "hello" /\ cur' = f /\ buf' = Greeting /\ UNCHANGED proc
      \/ cur' = cur /\ buf' = buf /\ proc' \in {proc, "killed"}
  BY <1>1 DEF Accepted
<1>6. cur' \in Fd \cup {NoFd} /\ buf' \in Msg \cup {NoMsg, Greeting}
      /\ proc' \in {"up", "killed", "crashed"}
  BY <1>2, <1>5 DEF TypeInv, TypeOK
<1>7. TypeOK'
  <2>1. UNCHANGED <<peer, sent, taken, inbox, unread, prog, asking, long>>
    BY <1>1 DEF HandleListen, AcceptAs
  <2>2. fdt' \in [Fd -> Conn \cup {NoConn}] /\ backlog' \subseteq Conn
    BY <1>2, <1>3 DEF TypeInv, TypeOK
  <2>3. reads' \subseteq Fd \cup {Listen} /\ copy' \subseteq Fd \cup {Listen}
    BY <1>2, <1>4 DEF TypeInv, TypeOK
  <2> QED BY <1>6, <2>1, <2>2, <2>3 DEF TypeInv, TypeOK
<1>8. Open' = Open \cup {f}
  BY <1>2, <1>3, SocketsAssumption DEF Open, TypeInv, TypeOK
<1>9. Watching'
  BY <1>4, <1>8 DEF TypeInv, Watching
<1>10. cur = NoFd /\ buf = NoMsg /\ prog' = prog
  BY SelectAssumption DEF HandleListen, Turn, TypeInv, InHand
<1>11. fdt'[f] \in Conn
  BY <1>2, <1>3 DEF TypeInv, TypeOK
<1>12. InHand'
  BY <1>2, <1>5, <1>10, <1>11 DEF InHand
<1> QED BY <1>7, <1>9, <1>12 DEF TypeInv

LEMMA AcceptFailsType ==
  ASSUME TypeInv, AcceptFails
  PROVE  TypeInv'
<1>1. TypeOK'
  BY DEF AcceptFails, TypeInv, TypeOK, sockVars
<1> QED BY <1>1 DEF AcceptFails, TypeInv, Watching, Open, InHand, sockVars

LEMMA BitIsOpen ==
  ASSUME TypeInv, NEW f \in copy \ {Listen}
  PROVE  f \in Open /\ f \in Fd /\ fdt[f] \in Conn
BY DEF TypeInv, Watching, Open, TypeOK

LEMMA NextMsgIsMsg ==
  ASSUME TypeOK, NEW c \in Conn, HasData(c)
  PROVE  NextMsg(c) \in Msg
BY SocketsAssumption DEF TypeOK, HasData, NextMsg, Msg

LEMMA HandleReadType ==
  ASSUME TypeInv, NEW f \in Fd, HandleRead(f)
  PROVE  TypeInv'
<1>1. fdt[f] \in Conn /\ f \in Open /\ f # Listen /\ cur = NoFd /\ prog' = prog
  BY BitIsOpen DEF HandleRead, Turn
<1>2. buf = NoMsg /\ copy' = copy \ {f}
  BY SelectAssumption DEF HandleRead, Turn, TypeInv, InHand
<1> DEFINE c == fdt[f]
<1>3. CASE Take(c) /\ cur' = f /\ buf' = NextMsg(c) /\ UNCHANGED <<proc, reads>>
  <2>1. NextMsg(c) \in Msg
    BY <1>1, <1>3, NextMsgIsMsg DEF TypeInv, Take
  <2>2. taken' \in [Conn -> 0..MaxSend]
    BY <1>1, <1>3, SocketsAssumption DEF Take, HasData, TypeInv, TypeOK
  <2>3. TypeOK'
    BY <1>2, <1>3, <2>1, <2>2 DEF HandleRead, Take, TypeInv, TypeOK
  <2>4. Watching'
    BY <1>2, <1>3 DEF Take, TypeInv, Watching, Open
  <2>5. taken'[c] = taken[c] + 1 /\ fdt' = fdt /\ taken[c] \in Nat
    BY <1>1, <1>3 DEF Take, TypeInv, TypeOK
  <2>6. InHand'
    BY <1>1, <1>3, <2>1, <2>5 DEF InHand, NextMsg
  <2> QED BY <2>3, <2>4, <2>6 DEF TypeInv
<1>4. CASE TakeError(c) /\ AfterError /\ UNCHANGED <<reads, cur, buf>>
  <2>1. TypeOK'
    BY <1>2, <1>4 DEF HandleRead, TakeError, AfterError, TypeInv, TypeOK, PeerState
  <2>2. Watching' /\ InHand'
    BY <1>1, <1>2, <1>4 DEF TakeError, TypeInv, Watching, Open, InHand
  <2> QED BY <2>1, <2>2 DEF TypeInv
<1>5. CASE AtEnd(c) /\ Closed(f) /\ reads' = reads \ {f} /\ UNCHANGED <<proc, cur, buf>>
  <2>1. fdt' = [fdt EXCEPT ![f] = NoConn]
    BY <1>5 DEF Closed, CloseFd
  <2>2. TypeOK'
    BY <1>2, <1>5, <2>1 DEF HandleRead, Closed, CloseFd, TypeInv, TypeOK
  <2>3. Open' = Open \ {f}
    BY <2>1 DEF Open, TypeInv, TypeOK
  <2>4. Watching'
    BY <1>1, <1>2, <1>5, <2>3 DEF TypeInv, Watching
  <2> QED BY <1>1, <1>2, <1>5, <2>2, <2>4 DEF TypeInv, InHand
<1> QED BY <1>3, <1>4, <1>5 DEF HandleRead

LEMMA WriteOutType ==
  ASSUME TypeInv, WriteOut
  PROVE  TypeInv'
<1>1. cur \in Fd /\ fdt[cur] \in Conn /\ buf \in Msg \cup {Greeting}
  BY DEF WriteOut, TypeInv, InHand
<1> DEFINE c == fdt[cur]
<1>2. ASSUME Write(c, buf), peer[c] = "open"
      PROVE  /\ inbox' \in [Conn -> Seq(Msg \cup {Greeting})]
             /\ unread' \in [Conn -> 0..SndBuf] /\ peer' = peer
  <2>1. inbox[c] \in Seq(Msg \cup {Greeting})
    BY <1>1 DEF TypeInv, TypeOK
  <2>2. Append(inbox[c], buf) \in Seq(Msg \cup {Greeting})
    BY <1>1, <2>1
  <2>3. inbox' = [inbox EXCEPT ![c] = Append(inbox[c], buf)] /\ peer' = peer
        /\ unread[c] < SndBuf /\ unread' = [unread EXCEPT ![c] = @ + 1]
    BY <1>2 DEF Write
  <2>4. inbox' \in [Conn -> Seq(Msg \cup {Greeting})]
    BY <1>1, <2>2, <2>3 DEF TypeInv, TypeOK
  <2>5. unread' \in [Conn -> 0..SndBuf]
    BY <1>1, <2>3, SocketsAssumption DEF TypeInv, TypeOK
  <2> QED BY <2>3, <2>4, <2>5
<1>3. ASSUME Write(c, buf), peer[c] # "open"
      PROVE  UNCHANGED <<inbox, unread>> /\ peer' \in [Conn -> PeerState]
  BY <1>1, <1>3 DEF Write, TypeInv, TypeOK, PeerState
<1>4. TypeOK' /\ fdt' = fdt
  <2>1. CASE Write(c, buf) /\ UNCHANGED proc
    <3>1. peer' \in [Conn -> PeerState] /\ unread' \in [Conn -> 0..SndBuf]
          /\ inbox' \in [Conn -> Seq(Msg \cup {Greeting})]
      <4>1. CASE peer[c] = "open"
        BY <1>2, <2>1, <4>1 DEF TypeInv, TypeOK
      <4>2. CASE peer[c] # "open"
        BY <1>3, <2>1, <4>2 DEF TypeInv, TypeOK
      <4> QED BY <4>1, <4>2
    <3> QED BY <2>1, <3>1 DEF WriteOut, Write, TypeInv, TypeOK
  <2>2. CASE proc' = "killed" /\ UNCHANGED sockVars
    BY <2>2 DEF WriteOut, TypeInv, TypeOK, sockVars
  <2> QED BY <2>1, <2>2 DEF WriteOut, WriteFd
<1> QED BY <1>4 DEF WriteOut, TypeInv, Watching, Open, InHand

LEMMA NextType == TypeInv /\ [Next]_vars => TypeInv'
<1> SUFFICES ASSUME TypeInv, [Next]_vars PROVE TypeInv'
  OBVIOUS
<1>1. CASE ServerNext
  BY <1>1, SelectType, HandleListenType, AcceptFailsType, WriteOutType, HandleReadType
     DEF ServerNext
<1>2. ASSUME NEW c \in Conn,
             Arrive(c) \/ SendLine(c) \/ ReadAnswer(c) \/ Leave(c) \/ NetworkReset(c)
      PROVE  TypeInv'
  BY <1>2, ArriveType, SendLineType, ReadAnswerType, GoneType
<1>3. CASE UNCHANGED vars
  BY <1>3 DEF vars, sockVars, loopVars, TypeInv, TypeOK, Watching, Open, InHand
<1> QED BY <1>1, <1>2, <1>3 DEF Next

LEMMA TypeInvariant == Spec => []TypeInv
BY InitType, NextType, PTL DEF Spec

\* Every variable keeps its type: what select looks at is open, and what is
\* written is the greeting or what was read of the client it goes to.
THEOREM TypeCorrect == Spec => []TypeOK
<1>1. TypeInv => TypeOK
  BY DEF TypeInv
<1> QED BY <1>1, TypeInvariant, PTL

-----------------------------------------------------------------------------
(* Every connection has one place. *)

Fresh == \A c \in Conn : peer[c] = "new" => c \notin backlog
Queued == \A c \in backlog : \A f \in Fd : fdt[f] # c
Met == \A f \in Fd : \A c \in Conn : fdt[f] = c => peer[c] # "new"
Single == \A f, g \in Fd : fdt[f] = fdt[g] /\ fdt[f] # NoConn => f = g

PlaceInv == Fresh /\ Queued /\ Met /\ Single

LEMMA PlaceUnchanged ==
  ASSUME PlaceInv, UNCHANGED <<backlog, fdt>>,
         \A c \in Conn : peer'[c] = "new" => peer[c] = "new"
  PROVE  PlaceInv'
BY DEF PlaceInv, Fresh, Queued, Met, Single

LEMMA ArrivePlace ==
  ASSUME TypeInv, PlaceInv, NEW c \in Conn, Arrive(c)
  PROVE  PlaceInv'
<1> USE DEF Arrive, Connect, PlaceInv
<1>1. \A d \in Conn : peer'[d] = "new" => peer[d] = "new" /\ d # c
  BY DEF TypeInv, TypeOK
<1>2. Fresh' /\ Met'
  BY <1>1 DEF Fresh, Met
<1>3. Queued'
  BY DEF Queued, Met
<1> QED BY <1>2, <1>3 DEF Single

LEMMA AcceptPlace ==
  ASSUME TypeInv, PlaceInv, NEW c \in backlog, NEW f \in FreeFds, AcceptAs(c, f)
  PROVE  PlaceInv'
<1> USE DEF AcceptAs, PlaceInv, FreeFds
<1>1. c \in Conn /\ f \in Fd /\ fdt[f] = NoConn
  BY DEF TypeInv, TypeOK
<1>2. fdt'[f] = c /\ \A g \in Fd \ {f} : fdt'[g] = fdt[g] /\ fdt[g] # c
  BY <1>1 DEF TypeInv, TypeOK, Queued
<1>3. Fresh' /\ Queued'
  BY <1>2 DEF Fresh, Queued
<1>4. Met'
  BY <1>1, <1>2 DEF Met, Fresh
<1>5. Single'
  BY <1>1, <1>2 DEF Single
<1> QED BY <1>3, <1>4, <1>5

LEMMA ClosePlace ==
  ASSUME TypeInv, PlaceInv, NEW f \in Fd, CloseFd(f)
  PROVE  PlaceInv'
<1> USE DEF CloseFd, PlaceInv
<1>1. fdt'[f] = NoConn /\ \A g \in Fd \ {f} : fdt'[g] = fdt[g]
  BY DEF TypeInv, TypeOK
<1>2. backlog \subseteq Conn
  BY DEF TypeInv, TypeOK
<1>3. Queued' /\ Met'
  BY <1>1, <1>2, SocketsAssumption DEF Queued, Met
<1>4. Single'
  BY <1>1 DEF Single
<1> QED BY <1>3, <1>4 DEF Fresh

LEMMA NextPlace ==
  ASSUME TypeInv, PlaceInv, [Next]_vars
  PROVE  PlaceInv'
<1> USE DEF TypeInv, TypeOK
<1>1. ASSUME NEW c \in Conn, SendLine(c) \/ ReadAnswer(c) PROVE PlaceInv'
  BY <1>1, PlaceUnchanged DEF SendLine, ReadAnswer
<1>2. ASSUME NEW c \in Conn, Leave(c) PROVE PlaceInv'
  <2>1. \A d \in Conn : peer'[d] = "new" => peer[d] = "new"
    BY <1>2 DEF Leave, Hangup
  <2> QED BY <1>2, <2>1, PlaceUnchanged DEF Leave, Hangup
<1>3. ASSUME NEW c \in Conn, NetworkReset(c) PROVE PlaceInv'
  BY <1>3, PlaceUnchanged DEF NetworkReset, ResetArrives
<1>4. CASE Select \/ AcceptFails \/ UNCHANGED vars
  BY <1>4, PlaceUnchanged DEF Select, AcceptFails, vars, sockVars
<1>5. CASE HandleListen
  BY <1>5, AcceptPlace DEF HandleListen
<1>6. CASE WriteOut
  <2>1. cur \in Fd /\ fdt[cur] \in Conn
    BY <1>6 DEF WriteOut, InHand
  <2>2. CASE UNCHANGED sockVars
    BY <2>2, PlaceUnchanged DEF sockVars
  <2>3. CASE Write(fdt[cur], buf)
    BY <2>1, <2>3, PlaceUnchanged DEF Write
  <2> QED BY <1>6, <2>2, <2>3 DEF WriteOut, WriteFd
<1>7. ASSUME NEW f \in Fd, HandleRead(f) PROVE PlaceInv'
  <2>1. fdt[f] \in Conn
    BY <1>7, BitIsOpen DEF HandleRead, Turn
  <2>2. CASE Take(fdt[f])
    BY <2>2, PlaceUnchanged DEF Take
  <2>3. CASE TakeError(fdt[f])
    BY <2>1, <2>3, PlaceUnchanged DEF TakeError
  <2>4. CASE CloseFd(f)
    BY <2>4, ClosePlace
  <2> QED BY <1>7, <2>2, <2>3, <2>4 DEF HandleRead, Closed
<1> QED BY <1>1, <1>2, <1>3, <1>4, <1>5, <1>6, <1>7, ArrivePlace DEF Next, ServerNext

LEMMA PlaceInvariant == Spec => []PlaceInv
<1>1. Init => PlaceInv
  BY SocketsAssumption DEF Init, SockInit, PlaceInv, Fresh, Queued, Met, Single
<1>2. TypeInv /\ PlaceInv /\ [Next]_vars => PlaceInv'
  BY NextPlace
<1> QED BY <1>1, <1>2, TypeInvariant, PTL DEF Spec

-----------------------------------------------------------------------------
(* The bits of a scan. *)

Bits == \A f \in copy \ {Listen} : Readable(fdt[f])

\* What has something to read keeps it, whatever another descriptor's read, a
\* write or a client does.
LEMMA ReadableStays ==
  ASSUME TypeOK, NEW c \in Conn, Readable(c), sent[c] <= sent'[c],
         sent' \in [Conn -> 0..MaxSend], taken'[c] = taken[c],
         \/ peer'[c] = peer[c]
         \/ peer[c] \in {"new", "open"}
         \/ peer'[c] \in {"poked", "rst"} /\ peer[c] # "new"
  PROVE  Readable(c)'
BY SocketsAssumption DEF Readable, HasData, HasError, AtEnd, TypeOK

LEMMA BitsKept ==
  ASSUME TypeInv, Bits, fdt' = fdt, copy' \subseteq copy,
         \A f \in copy' \ {Listen} : Readable(fdt[f]) => Readable(fdt[f])'
  PROVE  Bits'
BY DEF Bits

LEMMA NextBits ==
  ASSUME TypeInv, PlaceInv, Bits, [Next]_vars
  PROVE  Bits'
<1> USE SocketsAssumption
<1>1. ASSUME NEW d \in Conn,
             Arrive(d) \/ SendLine(d) \/ ReadAnswer(d) \/ Leave(d) \/ NetworkReset(d)
      PROVE  Bits'
  <2>1. ASSUME NEW c \in Conn, Readable(c) PROVE Readable(c)'
    <3>1. sent[c] <= sent'[c] /\ sent' \in [Conn -> 0..MaxSend] /\ taken'[c] = taken[c]
      <4>1. CASE SendLine(d)
        BY <4>1, SelectAssumption DEF SendLine, TypeInv, TypeOK
      <4>2. CASE UNCHANGED <<sent, taken>>
        BY <4>2 DEF TypeInv, TypeOK
      <4> QED BY <1>1, <4>1, <4>2 DEF Arrive, Connect, ReadAnswer, Leave, Hangup,
                                      NetworkReset, ResetArrives
    <3>2. \/ peer'[c] = peer[c]
          \/ peer[c] \in {"new", "open"}
          \/ peer'[c] \in {"poked", "rst"} /\ peer[c] # "new"
      BY <1>1 DEF Arrive, Connect, SendLine, ReadAnswer, Leave, Hangup, NetworkReset,
                  ResetArrives, TypeInv, TypeOK
    <3> QED BY <2>1, <3>1, <3>2, ReadableStays DEF TypeInv
  <2>2. UNCHANGED <<fdt, copy>>
    BY <1>1 DEF Arrive, Connect, SendLine, ReadAnswer, Leave, Hangup, NetworkReset,
                ResetArrives, loopVars
  <2> QED BY <2>1, <2>2, BitIsOpen DEF Bits
<1>2. CASE Select
  <2>1. copy' = Ready /\ UNCHANGED sockVars
    BY <1>2 DEF Select
  <2> QED BY <2>1 DEF Bits, Ready, Readable, HasData, HasError, AtEnd, sockVars
<1>3. CASE AcceptFails \/ UNCHANGED vars
  BY <1>3 DEF AcceptFails, vars, loopVars, sockVars, Bits, Readable, HasData, HasError, AtEnd
<1>4. CASE HandleListen
  <2>1. PICK c \in backlog, f \in FreeFds : AcceptAs(c, f) /\ SetInReads(f)
    BY <1>4 DEF HandleListen
  <2>2. f \in Fd /\ fdt[f] = NoConn /\ f \notin copy
    BY SelectAssumption DEF FreeFds, TypeInv, Watching, Open
  <2>3. copy' = copy \ {Listen} /\ \A g \in copy' : fdt'[g] = fdt[g]
    BY <2>1, <2>2 DEF AcceptAs, SetInReads, TypeInv, TypeOK
  <2> QED BY <2>1, <2>3 DEF AcceptAs, Bits, Readable, HasData, HasError, AtEnd
<1>5. CASE WriteOut
  <2>1. UNCHANGED <<fdt, copy, sent, taken>>
    BY <1>5 DEF WriteOut, Write, sockVars
  <2>2. cur \in Fd /\ fdt[cur] \in Conn /\ peer[fdt[cur]] # "new"
    BY <1>5 DEF WriteOut, TypeInv, InHand, PlaceInv, Met
  <2>3. ASSUME NEW c \in Conn, Readable(c) PROVE Readable(c)'
    <3>1. \/ peer'[c] = peer[c]
          \/ peer'[c] \in {"poked", "rst"} /\ peer[c] # "new"
      <4>1. CASE peer' = peer
        BY <4>1
      <4>2. CASE peer' = [peer EXCEPT ![fdt[cur]] = IF @ = "reset" THEN "rst" ELSE "poked"]
        BY <2>2, <4>2 DEF TypeInv, TypeOK
      <4> QED BY <1>5, <4>1, <4>2 DEF WriteOut, WriteFd, Write, sockVars
    <3>2. sent[c] <= sent'[c] /\ sent' \in [Conn -> 0..MaxSend]
      BY <2>1 DEF TypeInv, TypeOK
    <3> QED BY <2>1, <2>3, <3>1, <3>2, ReadableStays DEF TypeInv
  <2> QED BY <2>1, <2>3, BitIsOpen DEF Bits
<1>6. ASSUME NEW f \in Fd, HandleRead(f) PROVE Bits'
  <2>1. fdt[f] \in Conn /\ copy' = copy \ {f} /\ peer[fdt[f]] # "new"
    BY <1>6, BitIsOpen DEF HandleRead, Turn, PlaceInv, Met
  <2>2. ASSUME NEW g \in copy' \ {Listen} PROVE Readable(fdt[g])' /\ fdt'[g] = fdt[g]
    <3>1. g \in Fd /\ fdt[g] \in Conn /\ g # f /\ Readable(fdt[g])
      BY <2>1, <2>2, BitIsOpen DEF Bits
    <3>2. fdt[g] # fdt[f]
      BY <2>1, <3>1 DEF PlaceInv, Single
    <3>3. CASE Take(fdt[f]) \/ TakeError(fdt[f])
      <4>1. sent' = sent /\ taken'[fdt[g]] = taken[fdt[g]]
            /\ peer'[fdt[g]] = peer[fdt[g]] /\ fdt' = fdt
        BY <2>1, <3>1, <3>2, <3>3 DEF Take, TakeError, TypeInv, TypeOK
      <4>2. sent[fdt[g]] <= sent'[fdt[g]] /\ sent' \in [Conn -> 0..MaxSend]
        BY <3>1, <4>1 DEF TypeInv, TypeOK
      <4> QED BY <3>1, <4>1, <4>2, ReadableStays DEF TypeInv
    <3>4. CASE CloseFd(f)
      BY <3>1, <3>4 DEF CloseFd, Readable, HasData, HasError, AtEnd, TypeInv, TypeOK
    <3> QED BY <1>6, <3>3, <3>4 DEF HandleRead, Closed
  <2> QED BY <2>2 DEF Bits
<1> QED BY <1>1, <1>2, <1>3, <1>4, <1>5, <1>6 DEF Next, ServerNext

\* No bit of a scan is stale: each is of an open descriptor whose read has
\* something to return, whatever else the scan closed and accepted.
THEOREM NoReadBlocks == Spec => []ReadsNeverBlock
<1>1. Init => Bits
  BY DEF Init, Bits
<1>2. TypeInv /\ PlaceInv /\ Bits /\ [Next]_vars => Bits'
  BY NextBits
<1>3. TypeInv /\ Bits => ReadsNeverBlock
  BY DEF TypeInv, Watching, Open, Bits, ReadsNeverBlock
<1> QED BY <1>1, <1>2, <1>3, TypeInvariant, PlaceInvariant, PTL DEF Spec

-----------------------------------------------------------------------------
(* The promise of an echo server. *)

Exact(c) == \A k \in 1..Len(inbox[c]) : inbox[c][k] = [from |-> c, n |-> k]

InStep(c) ==
  peer[c] \in {"new", "open"} =>
    /\ buf.from = c => taken[c] = Len(inbox[c]) + 1
    /\ buf.from # c => taken[c] = Len(inbox[c])

\* The server that greets: nobody writes to it, and it greets a client once.
Unserved(c) == peer[c] = "new" \/ c \in backlog

GreetsOnce(c) ==
  /\ sent[c] = 0
  /\ inbox[c] = <<>> \/ inbox[c] = <<Greeting>>
  /\ Unserved(c) \/ (cur # NoFd /\ fdt[cur] = c) => inbox[c] = <<>>

EchoInv ==
  \A c \in Conn :
    /\ taken[c] <= sent[c]
    /\ prog = "hello" => GreetsOnce(c)
    /\ prog # "hello" => buf # Greeting /\ Exact(c) /\ InStep(c)

EchoesShown == \A c \in Conn : Echoes(c) = IF prog = "hello" THEN <<>> ELSE inbox[c]

LEMMA EchoesAre == TypeOK /\ EchoInv => EchoesShown
<1> SUFFICES ASSUME TypeOK, EchoInv, NEW c \in Conn
             PROVE  Echoes(c) = IF prog = "hello" THEN <<>> ELSE inbox[c]
  BY DEF EchoesShown
<1>1. inbox[c] \in Seq(Msg \cup {Greeting})
  BY DEF TypeOK
<1>2. CASE prog = "hello"
  <2>1. inbox[c] = <<>> \/ inbox[c] = <<Greeting>>
    BY <1>2 DEF EchoInv, GreetsOnce
  <2>2. /\ Tail(<<Greeting>>) = <<>> /\ Head(<<Greeting>>) = Greeting
        /\ <<Greeting>> # <<>>
    OBVIOUS
  <2> QED BY <1>2, <2>1, <2>2 DEF Echoes
<1>3. CASE prog # "hello"
  <2>1. inbox[c] # <<>> => Head(inbox[c]) = [from |-> c, n |-> 1]
    BY <1>1, <1>3 DEF EchoInv, Exact
  <2>2. [from |-> c, n |-> 1] # Greeting
    BY SocketsAssumption DEF Greeting
  <2> QED BY <1>3, <2>1, <2>2 DEF Echoes
<1> QED BY <1>2, <1>3

\* A step that reads and writes nothing.
LEMMA EchoUnchanged ==
  ASSUME EchoInv, UNCHANGED <<prog, fdt, taken, inbox, buf, cur>>,
         \A c \in Conn : sent[c] <= sent'[c] /\ sent[c] \in Nat /\ sent'[c] \in Nat
                           /\ taken[c] \in Nat,
         prog = "hello" => sent' = sent,
         \A c \in Conn : peer'[c] \in {"new", "open"} => peer[c] \in {"new", "open"},
         \A c \in Conn : Unserved(c)' => Unserved(c)
  PROVE  EchoInv'
<1>1. ASSUME NEW c \in Conn PROVE taken'[c] <= sent'[c]
  BY DEF EchoInv
<1>2. ASSUME NEW c \in Conn, prog' = "hello" PROVE GreetsOnce(c)'
  BY <1>2 DEF EchoInv, GreetsOnce
<1>3. ASSUME NEW c \in Conn, prog' # "hello" PROVE buf' # Greeting /\ Exact(c)' /\ InStep(c)'
  BY <1>3 DEF EchoInv, Exact, InStep
<1> QED BY <1>1, <1>2, <1>3 DEF EchoInv

LEMMA ClientEcho ==
  ASSUME TypeInv, PlaceInv, EchoInv, NEW d \in Conn,
         Arrive(d) \/ SendLine(d) \/ ReadAnswer(d) \/ Leave(d) \/ NetworkReset(d)
  PROVE  EchoInv'
<1> USE DEF TypeInv, TypeOK
<1>1. UNCHANGED <<prog, fdt, taken, inbox, buf, cur>>
  BY DEF Arrive, Connect, SendLine, ReadAnswer, Leave, Hangup, NetworkReset, ResetArrives,
         loopVars
<1>2. \A c \in Conn : peer'[c] \in {"new", "open"} => peer[c] \in {"new", "open"}
  BY DEF Arrive, Connect, SendLine, ReadAnswer, Leave, Hangup, NetworkReset, ResetArrives
<1>3. \A c \in Conn : Unserved(c)' => Unserved(c)
  <2>1. CASE Arrive(d)
    BY <2>1 DEF Arrive, Connect, Unserved
  <2>2. CASE Leave(d) \/ NetworkReset(d)
    BY <2>2 DEF Leave, Hangup, NetworkReset, ResetArrives, Unserved
  <2>3. CASE SendLine(d) \/ ReadAnswer(d)
    BY <2>3 DEF SendLine, ReadAnswer, Unserved
  <2> QED BY <2>1, <2>2, <2>3
<1>4. ASSUME NEW c \in Conn
      PROVE  sent[c] <= sent'[c] /\ sent[c] \in Nat /\ sent'[c] \in Nat /\ taken[c] \in Nat
  <2>1. CASE SendLine(d)
    BY <2>1, SocketsAssumption, SelectAssumption DEF SendLine
  <2>2. CASE sent' = sent
    BY <2>2, SocketsAssumption
  <2> QED BY <2>1, <2>2 DEF Arrive, Connect, ReadAnswer, Leave, Hangup, NetworkReset,
                            ResetArrives
<1>5. prog = "hello" => sent' = sent
  BY DEF Arrive, Connect, SendLine, ReadAnswer, Leave, Hangup, NetworkReset, ResetArrives
<1> QED BY <1>1, <1>2, <1>3, <1>4, <1>5, EchoUnchanged

LEMMA QuietEcho ==
  ASSUME TypeInv, EchoInv, UNCHANGED <<prog, sent, taken, inbox, buf, cur, fdt, peer, backlog>>
  PROVE  EchoInv'
BY DEF EchoInv, GreetsOnce, Unserved, Exact, InStep

LEMMA AcceptEcho ==
  ASSUME TypeInv, PlaceInv, EchoInv, HandleListen
  PROVE  EchoInv'
<1> USE DEF TypeInv, TypeOK
<1>1. PICK c \in backlog, f \in FreeFds : AcceptAs(c, f) /\ SetInReads(f) /\ Accepted(f)
  BY DEF HandleListen
<1>2. c \in Conn /\ f \in Fd /\ Unserved(c) /\ cur = NoFd
  BY DEF FreeFds, Unserved, HandleListen, Turn
<1>3. UNCHANGED <<prog, peer, sent, taken, inbox>> /\ backlog' = backlog \ {c}
      /\ fdt'[f] = c
  BY <1>1, <1>2 DEF AcceptAs, HandleListen
<1>4. ASSUME NEW d \in Conn, prog' = "hello" PROVE GreetsOnce(d)'
  <2>1. CASE cur' = f
    BY <1>2, <1>3, <1>4, <2>1 DEF EchoInv, GreetsOnce, Unserved
  <2>2. CASE cur' = cur
    BY <1>2, <1>3, <1>4, <2>2 DEF EchoInv, GreetsOnce, Unserved
  <2> QED BY <1>1, <2>1, <2>2 DEF Accepted
<1>5. ASSUME NEW d \in Conn, prog' # "hello" PROVE buf' # Greeting /\ Exact(d)' /\ InStep(d)'
  <2>1. buf' = buf
    BY <1>1, <1>3, <1>5 DEF Accepted
  <2> QED BY <1>3, <1>5, <2>1 DEF EchoInv, Exact, InStep
<1> QED BY <1>3, <1>4, <1>5 DEF EchoInv

LEMMA ReadEcho ==
  ASSUME TypeInv, PlaceInv, EchoInv, NEW f \in Fd, HandleRead(f)
  PROVE  EchoInv'
<1> USE DEF TypeInv, TypeOK
<1> DEFINE c == fdt[f]
<1>1. c \in Conn /\ cur = NoFd /\ prog' = prog /\ buf = NoMsg
  BY BitIsOpen, SelectAssumption DEF HandleRead, Turn, InHand
<1>2. CASE Take(c) /\ cur' = f /\ buf' = NextMsg(c)
  <2>1. UNCHANGED <<inbox, peer, backlog, sent, fdt>> /\ taken' = [taken EXCEPT ![c] = @ + 1]
        /\ taken[c] < sent[c]
    BY <1>2 DEF Take, HasData
  <2>2. prog # "hello"
    BY <1>1, <2>1, SocketsAssumption DEF EchoInv, GreetsOnce
  <2>3. buf.from \notin Conn /\ buf' # Greeting /\ buf'.from = c
    BY <1>1, <1>2, SocketsAssumption DEF NoMsg, Greeting, NextMsg
  <2>4. ASSUME NEW d \in Conn PROVE taken'[d] <= sent'[d] /\ Exact(d)' /\ InStep(d)'
    <3>1. CASE d = c
      BY <1>1, <2>1, <2>2, <2>3, <3>1 DEF EchoInv, Exact, InStep
    <3>2. CASE d # c
      BY <1>1, <2>1, <2>2, <2>3, <3>2 DEF EchoInv, Exact, InStep
    <3> QED BY <3>1, <3>2
  <2> QED BY <1>1, <2>2, <2>3, <2>4 DEF EchoInv
<1>3. CASE TakeError(c) /\ UNCHANGED <<cur, buf>>
  BY <1>1, <1>3, EchoUnchanged, SocketsAssumption DEF TakeError, Unserved
<1>4. CASE CloseFd(f) /\ UNCHANGED <<cur, buf>>
  BY <1>1, <1>4 DEF CloseFd, EchoInv, GreetsOnce, Unserved, Exact, InStep
<1> QED BY <1>2, <1>3, <1>4 DEF HandleRead, Closed

LEMMA WriteEcho ==
  ASSUME TypeInv, PlaceInv, EchoInv, WriteOut
  PROVE  EchoInv'
<1> USE DEF TypeInv, TypeOK
<1>0. cur \in Fd /\ cur # NoFd /\ fdt[cur] \in Conn
  BY SocketsAssumption DEF WriteOut, InHand
<1> PICK c \in Conn : c = fdt[cur]
  BY <1>0
<1>1. /\ cur \in Fd /\ cur # NoFd /\ ~Unserved(c) /\ cur' = NoFd
      /\ buf' = NoMsg /\ NoMsg.from \notin Conn /\ NoMsg # Greeting
      /\ UNCHANGED <<prog, fdt, backlog, sent, taken>>
  BY <1>0, SocketsAssumption
     DEF WriteOut, Write, sockVars, InHand, PlaceInv, Met, Queued, Unserved, NoMsg, Greeting
<1>2. inbox[c] \in Seq(Msg \cup {Greeting}) /\ peer[c] # "new"
  BY <1>1 DEF Unserved
<1>3. \/ /\ peer[c] = "open" /\ peer' = peer
         /\ inbox' = [inbox EXCEPT ![c] = Append(inbox[c], buf)]
      \/ peer[c] # "open" /\ inbox' = inbox /\ peer'[c] \notin {"new", "open"}
         /\ \A d \in Conn \ {c} : peer'[d] = peer[d]
  BY <1>1 DEF WriteOut, WriteFd, Write, RaisesSigpipe, sockVars
<1>4. ASSUME NEW d \in Conn \ {c} PROVE inbox'[d] = inbox[d] /\ peer'[d] = peer[d]
  BY <1>3, <1>4
<1>5. ASSUME NEW d \in Conn, prog' = "hello" PROVE GreetsOnce(d)'
  <2>1. prog = "hello" /\ GreetsOnce(d) /\ GreetsOnce(c)
    BY <1>1, <1>5 DEF EchoInv
  <2>2. sent'[d] = 0
    BY <1>1, <2>1 DEF GreetsOnce
  <2>3. CASE d = c
    <3>1. inbox[c] = <<>> /\ buf = Greeting
      <4>1. buf # Greeting => taken[c] > 0
        BY <1>1, <2>1 DEF InHand, Msg
      <4>2. taken[c] <= 0
        BY <1>1, <2>1 DEF EchoInv, GreetsOnce
      <4> QED BY <1>1, <2>1, <4>1, <4>2, SocketsAssumption, SelectAssumption
              DEF GreetsOnce, EchoInv
    <3>2. inbox'[c] = <<>> \/ inbox'[c] = <<Greeting>>
      BY <1>1, <1>3, <3>1
    <3>3. ~Unserved(c)'
      BY <1>1, <1>2, <1>3 DEF Unserved
    <3> QED BY <1>1, <2>2, <2>3, <3>2, <3>3 DEF GreetsOnce
  <2>4. CASE d # c
    BY <1>1, <1>4, <2>1, <2>4 DEF GreetsOnce, Unserved
  <2> QED BY <2>3, <2>4
<1>6. ASSUME NEW d \in Conn, prog' # "hello" PROVE Exact(d)' /\ InStep(d)'
  <2>1. buf = [from |-> c, n |-> taken[c]]
    BY <1>1, <1>6 DEF InHand
  <2>2. CASE d # c
    BY <1>1, <1>4, <1>6, <2>1, <2>2 DEF EchoInv, Exact, InStep
  <2>3. CASE d = c /\ peer[c] # "open"
    BY <1>1, <1>2, <1>3, <1>6, <2>3 DEF EchoInv, Exact, InStep
  <2>4. CASE d = c /\ peer[c] = "open"
    <3>1. inbox'[c] = Append(inbox[c], buf) /\ peer' = peer
      BY <1>1, <1>3, <2>4
    <3>2. taken[c] = Len(inbox[c]) + 1
      BY <1>1, <1>6, <2>1, <2>4 DEF EchoInv, InStep
    <3>3. Len(inbox'[c]) = Len(inbox[c]) + 1 /\ Len(inbox[c]) \in Nat
      BY <1>2, <3>1
    <3>4. ASSUME NEW k \in 1..Len(inbox'[c]) PROVE inbox'[c][k] = [from |-> c, n |-> k]
      <4>1. CASE k = Len(inbox[c]) + 1
        BY <1>2, <2>1, <3>1, <3>2, <4>1
      <4>2. CASE k \in 1..Len(inbox[c])
        <5>1. inbox'[c][k] = inbox[c][k]
          BY <1>2, <3>1, <4>2
        <5> QED BY <1>1, <1>6, <4>2, <5>1 DEF EchoInv, Exact
      <4> QED BY <3>3, <4>1, <4>2
    <3> QED BY <1>1, <2>4, <3>1, <3>2, <3>3, <3>4 DEF Exact, InStep
  <2> QED BY <2>2, <2>3, <2>4
<1> QED BY <1>1, <1>5, <1>6 DEF EchoInv

LEMMA EchoInvariant == Spec => []EchoInv
<1>1. ASSUME Init PROVE EchoInv
  <2>1. ASSUME NEW c \in Conn
        PROVE  Len(inbox[c]) = 0 /\ inbox[c] = <<>> /\ taken[c] = 0 /\ sent[c] = 0
    BY <1>1 DEF Init, SockInit
  <2>2. buf.from \notin Conn /\ buf # Greeting
    BY <1>1, SocketsAssumption DEF Init, NoMsg, Greeting
  <2>3. ASSUME NEW c \in Conn PROVE GreetsOnce(c) /\ Exact(c) /\ InStep(c)
    BY <2>1, <2>2 DEF GreetsOnce, Exact, InStep
  <2>4. ASSUME NEW c \in Conn PROVE taken[c] <= sent[c]
    BY <2>1
  <2> QED BY <2>2, <2>3, <2>4 DEF EchoInv
<1>2. TypeInv /\ PlaceInv /\ EchoInv /\ [Next]_vars => EchoInv'
  <2> SUFFICES ASSUME TypeInv, PlaceInv, EchoInv, [Next]_vars PROVE EchoInv'
    OBVIOUS
  <2>1. CASE Select \/ AcceptFails \/ UNCHANGED vars
    BY <2>1, QuietEcho DEF Select, AcceptFails, vars, loopVars, sockVars
  <2> QED BY <2>1, ClientEcho, AcceptEcho, ReadEcho, WriteEcho DEF Next, ServerNext
<1> QED BY <1>1, <1>2, TypeInvariant, PlaceInvariant, PTL DEF Spec

LEMMA InitPromised == Init => Promised!Init
<1> SUFFICES ASSUME Init PROVE Promised!Init
  OBVIOUS
<1>1. ASSUME NEW c \in Conn PROVE Echoes(c) = <<>>
  BY DEF Init, SockInit, Echoes
<1> QED BY <1>1 DEF Init, SockInit, Promised!Init

\* Every step but the typing of a line and the write of a piece to a client
\* that is there leaves the promised variables alone.
LEMMA StutterPromised ==
  ASSUME EchoesShown, EchoesShown', UNCHANGED <<prog, sent>>,
         prog # "hello" => inbox' = inbox
  PROVE  UNCHANGED <<sent, [c \in Conn |-> Echoes(c)]>>
BY DEF EchoesShown

LEMMA SendLinePromised ==
  ASSUME TypeInv, EchoesShown, EchoesShown', NEW c \in Conn, SendLine(c)
  PROVE  Promised!Next
<1>1. PICK k \in 1..LineMax : sent' = [sent EXCEPT ![c] = @ + k]
  BY DEF SendLine
<1>2. sent'[c] = sent[c] + k /\ sent[c] \in Nat /\ k > 0
  BY <1>1, SelectAssumption, SocketsAssumption DEF TypeInv, TypeOK
<1>3. UNCHANGED [d \in Conn |-> Echoes(d)]
  BY DEF EchoesShown, SendLine, loopVars
<1>4. sent' = [sent EXCEPT ![c] = sent'[c]]
  BY <1>1, <1>2
<1> QED BY <1>2, <1>3, <1>4 DEF Promised!Next, Promised!Write

LEMMA WriteOutPromised ==
  ASSUME TypeInv, EchoInv, EchoesShown, EchoesShown', WriteOut,
         prog # "hello", inbox' # inbox
  PROVE  Promised!Next
<1> USE DEF TypeInv, TypeOK
<1>0. cur \in Fd /\ cur # NoFd /\ fdt[cur] \in Conn
  BY SocketsAssumption DEF WriteOut, InHand
<1> PICK c \in Conn : c = fdt[cur]
  BY <1>0
<1>1. /\ peer[c] = "open" /\ inbox' = [inbox EXCEPT ![c] = Append(@, buf)]
      /\ UNCHANGED <<prog, sent>>
  BY DEF WriteOut, WriteFd, Write, sockVars
<1>2. buf = [from |-> c, n |-> taken[c]]
  BY <1>0 DEF InHand
<1>3. taken[c] = Len(inbox[c]) + 1 /\ taken[c] <= sent[c]
  BY <1>1, <1>2 DEF EchoInv, InStep
<1>4. inbox[c] \in Seq(Msg \cup {Greeting}) /\ Len(inbox[c]) \in Nat
  OBVIOUS
<1>5. Len(inbox[c]) < sent[c]
  BY <1>3, <1>4, SocketsAssumption
<1>6. \A d \in Conn : Echoes(d) = inbox[d] /\ Echoes(d)' = inbox'[d]
  BY <1>1 DEF EchoesShown
<1> DEFINE echoed == [d \in Conn |-> Echoes(d)]
<1>7. echoed[c] = inbox[c]
  BY <1>6
<1>8. echoed' = [echoed EXCEPT ![c] = Append(@, [from |-> c, n |-> Len(@) + 1])]
  <2>1. ASSUME NEW d \in Conn
        PROVE  inbox'[d] = [echoed EXCEPT ![c] = Append(@, [from |-> c, n |-> Len(@) + 1])][d]
    BY <1>1, <1>2, <1>3, <1>6
  <2> QED BY <1>6, <2>1
<1> QED BY <1>1, <1>5, <1>7, <1>8 DEF Promised!Next, Promised!Echo

LEMMA NextPromised ==
  ASSUME TypeInv, EchoInv, EchoesShown, EchoesShown', [Next]_vars
  PROVE  [Promised!Next]_<<sent, [c \in Conn |-> Echoes(c)]>>
<1>1. CASE Select \/ AcceptFails \/ UNCHANGED vars
  BY <1>1, StutterPromised DEF Select, AcceptFails, vars, loopVars, sockVars
<1>2. CASE HandleListen
  BY <1>2, StutterPromised DEF HandleListen, AcceptAs
<1>3. ASSUME NEW f \in Fd, HandleRead(f)
      PROVE  UNCHANGED <<sent, [c \in Conn |-> Echoes(c)]>>
  BY <1>3, StutterPromised DEF HandleRead, Take, TakeError, Closed, CloseFd
<1>4. CASE WriteOut
  <2>1. UNCHANGED <<prog, sent>>
    BY <1>4 DEF WriteOut, Write, sockVars
  <2> QED BY <1>4, <2>1, StutterPromised, WriteOutPromised
<1>5. ASSUME NEW c \in Conn, Arrive(c) \/ ReadAnswer(c) \/ Leave(c) \/ NetworkReset(c)
      PROVE  UNCHANGED <<sent, [d \in Conn |-> Echoes(d)]>>
  BY <1>5, StutterPromised DEF Arrive, Connect, ReadAnswer, Leave, Hangup, NetworkReset,
                               ResetArrives, loopVars
<1> QED BY <1>1, <1>2, <1>3, <1>4, <1>5, SendLinePromised DEF Next, ServerNext

\* The server on select implements the echo service: every client gets its
\* own pieces back, each once and in order, for any number of clients, any
\* number of descriptors and lines of any length.
THEOREM ImplementsEchoService == Spec => EchoSpec
<1>1. TypeInv /\ EchoInv => EchoesShown
  BY EchoesAre DEF TypeInv
<1>2. TypeInv /\ EchoInv /\ EchoesShown /\ EchoesShown' /\ [Next]_vars
        => [Promised!Next]_<<sent, [c \in Conn |-> Echoes(c)]>>
  BY NextPromised
<1> QED BY <1>1, <1>2, InitPromised, TypeInvariant, EchoInvariant, PTL
        DEF Spec, EchoSpec, Promised!Spec
-----------------------------------------------------------------------------
(* What ends the server. *)

TakenSent == \A c \in Conn : taken[c] <= sent[c]

Held(c) == IF cur # NoFd /\ fdt[cur] = c THEN 1 ELSE 0
Ungreeted(c) == IF prog = "hello" /\ Unserved(c) THEN 1 ELSE 0

\* What the server and the client still have to do about c: pieces to read,
\* one in the server's hands, a greeting to come, answers to be read.
Debt(c) == sent[c] - taken[c] + Held(c) + Ungreeted(c) + unread[c]

\* A client whose lines are short is owed one answer, or the greeting, at most,
\* and nothing when it types, nor when an answer has found it gone.
ShortInv ==
  \A c \in Conn \ long :
    /\ Debt(c) <= 1
    /\ peer[c] = "open" => c \in asking \/ prog = "hello" \/ Debt(c) = 0
    /\ peer[c] = "new" => prog = "hello" \/ Debt(c) = 0
    /\ peer[c] \in {"poked", "reset", "rst"} => Debt(c) = 0

EndInv == TypeInv /\ PlaceInv /\ TakenSent

LEMMA DebtType ==
  ASSUME EndInv, NEW c \in Conn
  PROVE  /\ sent[c] - taken[c] \in Nat /\ Held(c) \in {0, 1} /\ Ungreeted(c) \in {0, 1}
         /\ unread[c] \in Nat /\ Debt(c) \in Nat /\ sent[c] \in Nat /\ taken[c] \in Nat
<1>1. sent[c] \in Nat /\ taken[c] \in Nat /\ unread[c] \in Nat /\ taken[c] <= sent[c]
  BY SocketsAssumption DEF EndInv, TypeInv, TypeOK, TakenSent
<1>2. Held(c) \in {0, 1} /\ Ungreeted(c) \in {0, 1}
  BY DEF Held, Ungreeted
<1> QED BY <1>1, <1>2 DEF Debt

\* A step that changes nothing that is owed.
LEMMA ShortUnchanged ==
  ASSUME ShortInv, UNCHANGED <<prog, peer, backlog, fdt, sent, taken, unread, cur, asking, long>>
  PROVE  ShortInv'
BY DEF ShortInv, Debt, Held, Ungreeted, Unserved

LEMMA ArriveShort ==
  ASSUME EndInv, ShortInv, NEW c \in Conn, Arrive(c)
  PROVE  ShortInv'
<1>1. UNCHANGED <<prog, fdt, sent, taken, unread, cur, asking, long>>
  BY DEF Arrive, Connect, loopVars
<1>2. /\ peer[c] = "new" /\ peer'[c] = "open" /\ \A d \in Conn \ {c} : peer'[d] = peer[d]
      /\ backlog' = backlog \cup {c}
  BY DEF Arrive, Connect, EndInv, TypeInv, TypeOK
<1>3. \A d \in Conn : Held(d)' = Held(d) /\ Ungreeted(d)' = Ungreeted(d)
  BY <1>1, <1>2 DEF Held, Ungreeted, Unserved
<1>4. \A d \in Conn : Debt(d)' = Debt(d)
  BY <1>1, <1>3 DEF Debt
<1> QED BY <1>1, <1>2, <1>4 DEF ShortInv

LEMMA SendLineShort ==
  ASSUME EndInv, ShortInv, NEW c \in Conn, SendLine(c)
  PROVE  ShortInv'
<1>1. UNCHANGED <<prog, peer, backlog, fdt, taken, unread, cur>> /\ asking' = asking \cup {c}
  BY DEF SendLine, loopVars
<1>2. PICK k \in 1..LineMax : /\ sent' = [sent EXCEPT ![c] = @ + k]
                              /\ long' = IF k > 1 THEN long \cup {c} ELSE long
  BY DEF SendLine
<1>3. peer[c] = "open" /\ c \notin asking /\ prog = "select"
  BY DEF SendLine
<1>4. \A d \in Conn : Held(d)' = Held(d) /\ Ungreeted(d)' = Ungreeted(d)
  BY <1>1 DEF Held, Ungreeted, Unserved
<1>5. ASSUME NEW d \in Conn \ {c} PROVE Debt(d)' = Debt(d) /\ (d \in long' <=> d \in long)
  <2>1. sent'[d] = sent[d]
    BY <1>2 DEF EndInv, TypeInv, TypeOK
  <2> QED BY <1>1, <1>2, <1>4, <2>1 DEF Debt
<1>6. ASSUME c \notin long' PROVE Debt(c)' = 1
  <2>1. k = 1 /\ long' = long
    BY <1>2, <1>6, SelectAssumption
  <2>2. Debt(c) = 0
    BY <1>3, <1>6, <2>1 DEF ShortInv
  <2>3. sent'[c] = sent[c] + 1
    BY <1>2, <2>1 DEF EndInv, TypeInv, TypeOK
  <2>4. /\ sent[c] - taken[c] \in Nat /\ sent[c] \in Nat /\ taken[c] \in Nat
        /\ Held(c) \in Nat /\ Ungreeted(c) \in Nat /\ unread[c] \in Nat
    BY DebtType
  <2>5. sent[c] - taken[c] = 0 /\ Held(c) = 0 /\ Ungreeted(c) = 0 /\ unread[c] = 0
    <3>1. sent[c] - taken[c] + Held(c) + Ungreeted(c) + unread[c] = 0
      BY <2>2 DEF Debt
    <3>2. PICK a \in Nat, b \in Nat, u \in Nat, r \in Nat :
            /\ a = sent[c] - taken[c] /\ b = Held(c) /\ u = Ungreeted(c) /\ r = unread[c]
      BY <2>4
    <3>3. a + b + u + r = 0
      BY <3>1, <3>2
    <3>4. a = 0 /\ b = 0 /\ u = 0 /\ r = 0
      BY <3>3
    <3> QED BY <3>2, <3>4
  <2>6. sent'[c] - taken'[c] = 1 /\ Held(c)' = 0 /\ Ungreeted(c)' = 0 /\ unread'[c] = 0
    BY <1>1, <1>4, <2>3, <2>4, <2>5
  <2> QED BY <2>6 DEF Debt
<1> QED BY <1>1, <1>3, <1>5, <1>6 DEF ShortInv

LEMMA ReadAnswerShort ==
  ASSUME EndInv, ShortInv, NEW c \in Conn, ReadAnswer(c)
  PROVE  ShortInv'
<1>1. UNCHANGED <<prog, peer, backlog, fdt, sent, taken, cur, long>> /\ asking' = asking \ {c}
  BY DEF ReadAnswer, loopVars
<1>2. peer[c] = "open" /\ unread[c] > 0
  BY DEF ReadAnswer
<1>3. unread'[c] = 0 /\ \A d \in Conn \ {c} : unread'[d] = unread[d]
  BY DEF ReadAnswer, EndInv, TypeInv, TypeOK
<1>4. \A d \in Conn : Held(d)' = Held(d) /\ Ungreeted(d)' = Ungreeted(d)
  BY <1>1 DEF Held, Ungreeted, Unserved
<1>5. \A d \in Conn \ {c} : Debt(d)' = Debt(d)
  BY <1>1, <1>3, <1>4 DEF Debt
<1>6. ASSUME c \notin long PROVE Debt(c)' = 0
  <2>1. Debt(c) <= 1
    BY <1>6 DEF ShortInv
  <2>2. sent[c] - taken[c] = 0 /\ Held(c) = 0 /\ Ungreeted(c) = 0
    BY <1>2, <2>1, DebtType DEF Debt
  <2>3. sent'[c] - taken'[c] = 0 /\ Held(c)' = 0 /\ Ungreeted(c)' = 0
    BY <1>1, <1>4, <2>2
  <2> QED BY <1>3, <2>3 DEF Debt
<1> QED BY <1>1, <1>2, <1>5, <1>6 DEF ShortInv

LEMMA LeaveShort ==
  ASSUME EndInv, ShortInv, NEW c \in Conn, Leave(c)
  PROVE  ShortInv'
<1>1. UNCHANGED <<prog, backlog, fdt, sent, taken, cur, long, asking>>
  BY DEF Leave, Hangup, loopVars
<1>2. \A d \in Conn \ {c} : unread'[d] = unread[d] /\ peer'[d] = peer[d]
  BY DEF Leave, Hangup, EndInv, TypeInv, TypeOK
<1>3. /\ peer[c] = "open" /\ unread'[c] = 0
      /\ IF unread[c] = 0 THEN peer'[c] = "fin" ELSE peer'[c] \in {"reset", "poked"}
  BY DEF Leave, Hangup, EndInv, TypeInv, TypeOK
<1>4. \A d \in Conn : Held(d)' = Held(d) /\ Ungreeted(d)' = Ungreeted(d)
  BY <1>1, <1>2, <1>3 DEF Held, Ungreeted, Unserved
<1>5. \A d \in Conn \ {c} : Debt(d)' = Debt(d)
  BY <1>1, <1>2, <1>4 DEF Debt
<1>6. ASSUME c \notin long
      PROVE  Debt(c)' <= 1 /\ (unread[c] # 0 => Debt(c)' = 0)
  <2>1. Debt(c) <= 1
    BY <1>6 DEF ShortInv
  <2>2. Debt(c)' = sent[c] - taken[c] + Held(c) + Ungreeted(c)
    BY <1>1, <1>3, <1>4, DebtType DEF Debt
  <2> QED BY <2>1, <2>2, DebtType DEF Debt
<1> QED BY <1>1, <1>2, <1>3, <1>5, <1>6 DEF ShortInv

\* A connection that was poked or reset is known to be: nothing else changes.
LEMMA ResetShort ==
  ASSUME EndInv, ShortInv, NEW c \in Conn, NetworkReset(c) \/ TakeError(c),
         UNCHANGED <<prog, cur, typing>>
  PROVE  ShortInv'
<1>1. UNCHANGED <<prog, backlog, fdt, sent, taken, unread, cur, long, asking>>
  BY DEF NetworkReset, ResetArrives, TakeError
<1>2. /\ peer[c] \in {"poked", "reset"} /\ peer'[c] = "rst"
      /\ \A d \in Conn \ {c} : peer'[d] = peer[d]
  BY DEF NetworkReset, ResetArrives, TakeError, HasError, EndInv, TypeInv, TypeOK
<1>3. \A d \in Conn : Held(d)' = Held(d) /\ Ungreeted(d)' = Ungreeted(d)
  BY <1>1, <1>2 DEF Held, Ungreeted, Unserved
<1>4. \A d \in Conn : Debt(d)' = Debt(d)
  BY <1>1, <1>3 DEF Debt
<1> QED BY <1>1, <1>2, <1>4 DEF ShortInv

\* An accepted connection waits for its greeting in the server's hands.
LEMMA AcceptShort ==
  ASSUME EndInv, ShortInv, HandleListen
  PROVE  ShortInv'
<1>1. PICK c \in backlog, f \in FreeFds : AcceptAs(c, f) /\ Accepted(f)
  BY DEF HandleListen
<1>2. c \in Conn /\ f \in Fd /\ f # NoFd /\ cur = NoFd
  BY <1>1, SocketsAssumption, SelectAssumption
     DEF EndInv, TypeInv, TypeOK, FreeFds, HandleListen, Turn
<1>3. UNCHANGED <<prog, peer, sent, taken, unread, asking, long>>
  BY <1>1 DEF HandleListen, AcceptAs
<1>4. fdt'[f] = c /\ backlog' = backlog \ {c} /\ peer[c] # "new"
  BY <1>1, <1>2 DEF AcceptAs, EndInv, TypeInv, TypeOK, PlaceInv, Fresh
<1>5. cur' = IF prog = "hello" THEN f ELSE NoFd
  BY <1>1, <1>2 DEF Accepted
<1>6. ASSUME NEW d \in Conn PROVE Held(d)' + Ungreeted(d)' = Held(d) + Ungreeted(d)
  <2>1. CASE prog = "hello"
    <3>1. CASE d = c
      <4>1. Held(d)' = 1 /\ Ungreeted(d)' = 0 /\ Held(d) = 0 /\ Ungreeted(d) = 1
        BY <1>2, <1>3, <1>4, <1>5, <2>1, <3>1 DEF Held, Ungreeted, Unserved
      <4> QED BY <4>1
    <3>2. CASE d # c
      <4>1. Held(d)' = 0 /\ Held(d) = 0
        BY <1>2, <1>4, <1>5, <2>1, <3>2 DEF Held
      <4>2. Ungreeted(d)' = Ungreeted(d)
        BY <1>3, <1>4, <2>1, <3>2 DEF Ungreeted, Unserved
      <4> QED BY <4>1, <4>2
    <3> QED BY <3>1, <3>2
  <2>2. CASE prog # "hello"
    BY <1>2, <1>3, <1>5, <2>2 DEF Held, Ungreeted
  <2> QED BY <2>1, <2>2
<1>7. ASSUME NEW d \in Conn PROVE Debt(d)' = Debt(d)
  <2>1. /\ Held(d) \in Nat /\ Ungreeted(d) \in Nat /\ sent[d] - taken[d] \in Nat
        /\ unread[d] \in Nat
    BY DebtType
  <2>2. Held(d)' \in Nat /\ Ungreeted(d)' \in Nat
    BY DEF Held, Ungreeted
  <2> QED BY <1>3, <1>6, <2>1, <2>2 DEF Debt
<1> QED BY <1>3, <1>7 DEF ShortInv

\* A read moves a piece from the connection into the server's hands.
LEMMA TakeShort ==
  ASSUME EndInv, ShortInv, NEW f \in Fd, NEW c \in Conn, c = fdt[f], cur = NoFd,
         Take(c), cur' = f, UNCHANGED <<prog, typing>>
  PROVE  ShortInv'
<1>1. UNCHANGED <<prog, peer, backlog, fdt, sent, unread, long, asking>>
  BY DEF Take
<1>2. taken'[c] = taken[c] + 1 /\ \A d \in Conn \ {c} : taken'[d] = taken[d]
  BY DEF Take, EndInv, TypeInv, TypeOK
<1>3. /\ Held(c) = 0 /\ Held(c)' = 1 /\ \A d \in Conn \ {c} : Held(d) = 0 /\ Held(d)' = 0
      /\ \A d \in Conn : Ungreeted(d)' = Ungreeted(d)
  BY <1>1, SocketsAssumption DEF Held, Ungreeted, Unserved
<1>4. \A d \in Conn \ {c} : Debt(d)' = Debt(d)
  BY <1>1, <1>2, <1>3 DEF Debt
<1>5. Debt(c)' = Debt(c)
  BY <1>1, <1>2, <1>3, DebtType DEF Debt
<1> QED BY <1>1, <1>4, <1>5 DEF ShortInv

LEMMA CloseShort ==
  ASSUME EndInv, ShortInv, NEW f \in Fd, CloseFd(f), cur = NoFd, UNCHANGED <<prog, cur, typing>>
  PROVE  ShortInv'
<1>1. UNCHANGED <<prog, peer, backlog, sent, taken, unread, long, asking>>
  BY DEF CloseFd
<1>2. \A d \in Conn : Held(d)' = Held(d) /\ Ungreeted(d)' = Ungreeted(d)
  BY <1>1 DEF Held, Ungreeted, Unserved
<1>3. \A d \in Conn : Debt(d)' = Debt(d)
  BY <1>1, <1>2 DEF Debt
<1> QED BY <1>1, <1>3 DEF ShortInv

\* A write hands the piece over, or finds the client gone.
LEMMA WriteShort ==
  ASSUME EndInv, ShortInv, WriteOut, NEW c \in Conn, c = fdt[cur], Write(c, buf)
  PROVE  ShortInv'
<1>1. UNCHANGED <<prog, backlog, fdt, sent, taken, long, asking>> /\ cur' = NoFd
  BY DEF WriteOut, Write
<1>2. \A d \in Conn \ {c} : unread'[d] = unread[d] /\ peer'[d] = peer[d]
  BY DEF Write, EndInv, TypeInv, TypeOK
<1>3. peer[c] # "new" /\ peer'[c] # "new"
  BY DEF Write, EndInv, TypeInv, TypeOK
<1>4. /\ Held(c) = 1 /\ Held(c)' = 0 /\ \A d \in Conn \ {c} : Held(d) = 0 /\ Held(d)' = 0
      /\ \A d \in Conn : Ungreeted(d)' = Ungreeted(d)
  BY <1>1, <1>2, <1>3 DEF WriteOut, Held, Ungreeted, Unserved
<1>5. \A d \in Conn \ {c} : Debt(d)' = Debt(d)
  BY <1>1, <1>2, <1>4 DEF Debt
<1>6. CASE peer[c] = "open"
  <2>1. unread'[c] = unread[c] + 1 /\ peer' = peer
    BY <1>6 DEF Write, EndInv, TypeInv, TypeOK
  <2>2. Debt(c)' = sent[c] - taken[c] + 0 + Ungreeted(c) + (unread[c] + 1)
    BY <1>1, <1>4, <2>1 DEF Debt
  <2>3. Debt(c) = sent[c] - taken[c] + 1 + Ungreeted(c) + unread[c]
    BY <1>4 DEF Debt
  <2>4. Debt(c)' = Debt(c)
    BY <2>2, <2>3, DebtType
  <2> QED BY <1>1, <1>5, <2>1, <2>4 DEF ShortInv
<1>7. CASE peer[c] # "open"
  <2>1. unread'[c] = unread[c] /\ peer'[c] \in {"poked", "rst"}
    BY <1>7 DEF Write, EndInv, TypeInv, TypeOK
  <2>2. Debt(c)' = Debt(c) - 1
    BY <1>1, <1>4, <2>1, DebtType DEF Debt
  <2>3. ASSUME c \notin long PROVE Debt(c)' = 0
    <3>1. Debt(c) <= 1 /\ Debt(c) >= 1
      BY <1>4, <2>3, DebtType DEF ShortInv, Debt
    <3> QED BY <2>2, <3>1, DebtType
  <2> QED BY <1>1, <1>2, <1>5, <2>1, <2>3 DEF ShortInv
<1> QED BY <1>6, <1>7

LEMMA WriteOutShort ==
  ASSUME EndInv, ShortInv, WriteOut, proc = "up"
  PROVE  ShortInv' /\ EndsForACause'
<1>1. cur \in Fd /\ cur # NoFd /\ fdt[cur] \in Conn
  BY SocketsAssumption DEF WriteOut, EndInv, TypeInv, InHand
<1> PICK c \in Conn : c = fdt[cur]
  BY <1>1
<1>2. CASE Write(c, buf) /\ UNCHANGED proc
  BY <1>2, WriteShort DEF EndsForACause
<1>3. CASE RaisesSigpipe(c) /\ UNCHANGED sockVars /\ proc' = "killed"
  <2>1. Held(c) = 1 /\ peer[c] = "rst" /\ UNCHANGED <<prog, long, asking>> /\ cur' = NoFd
    BY <1>1, <1>3 DEF Held, RaisesSigpipe, WriteOut
  <2>2. c \in long
    <3>1. Debt(c) # 0
      BY <2>1, DebtType DEF Debt
    <3> QED BY <2>1, <3>1 DEF ShortInv
  <2>3. \A d \in Conn \ {c} : Held(d) = 0 /\ Held(d)' = 0
    BY <2>1 DEF Held
  <2>4. \A d \in Conn : Ungreeted(d)' = Ungreeted(d)
    BY <1>3, <2>1 DEF Ungreeted, Unserved, sockVars
  <2>5. \A d \in Conn \ {c} : Debt(d)' = Debt(d)
    BY <1>3, <2>3, <2>4 DEF Debt, sockVars
  <2>6. ShortInv'
    BY <1>3, <2>1, <2>2, <2>5 DEF ShortInv, sockVars
  <2> QED BY <1>3, <2>1, <2>2, <2>6 DEF EndsForACause, sockVars
<1> QED BY <1>2, <1>3 DEF WriteOut, WriteFd

LEMMA NextShort ==
  ASSUME EndInv, ShortInv, Next
  PROVE  ShortInv'
<1>1. CASE Select \/ AcceptFails
  BY <1>1, ShortUnchanged DEF Select, AcceptFails, sockVars
<1>2. ASSUME NEW f \in Fd, HandleRead(f) PROVE ShortInv'
  <2>1. fdt[f] \in Conn /\ cur = NoFd /\ UNCHANGED <<prog, typing>>
    BY <1>2, BitIsOpen DEF HandleRead, Turn, EndInv
  <2>2. CASE Take(fdt[f]) /\ cur' = f
    BY <2>1, <2>2, TakeShort
  <2>3. CASE TakeError(fdt[f]) /\ cur' = cur
    BY <2>1, <2>3, ResetShort
  <2>4. CASE CloseFd(f) /\ cur' = cur
    BY <2>1, <2>4, CloseShort
  <2> QED BY <1>2, <2>2, <2>3, <2>4 DEF HandleRead, Closed
<1>3. ASSUME NEW c \in Conn, NetworkReset(c) PROVE ShortInv'
  BY <1>3, ResetShort DEF NetworkReset, loopVars
<1> QED BY <1>1, <1>2, <1>3, AcceptShort, WriteOutShort, ArriveShort, SendLineShort,
           ReadAnswerShort, LeaveShort DEF Next, ServerNext

\* The first step of a server that ends has one of the causes.
LEMMA EndHasACause ==
  ASSUME EndInv, ShortInv, Next
  PROVE  EndsForACause'
<1>1. proc = "up"
  BY DEF Next
<1>2. CASE UNCHANGED proc
  BY <1>1, <1>2 DEF EndsForACause
<1>3. CASE WriteOut
  BY <1>1, <1>3, WriteOutShort
<1>4. CASE AcceptFails
  BY <1>1, <1>4 DEF AcceptFails, EndsForACause, FreeFds, sockVars
<1>5. CASE HandleListen
  BY <1>1, <1>5 DEF HandleListen, Accepted, EndsForACause
<1>6. ASSUME NEW f \in Fd, HandleRead(f) PROVE EndsForACause'
  <2>1. fdt[f] \in Conn /\ prog' = prog
    BY <1>6, BitIsOpen DEF HandleRead, Turn, EndInv
  <2>2. CASE TakeError(fdt[f]) /\ AfterError
    <3>1. peer'[fdt[f]] = "rst"
      BY <2>1, <2>2 DEF TakeError, EndInv, TypeInv, TypeOK
    <3> QED BY <1>1, <2>1, <2>2, <3>1 DEF AfterError, EndsForACause
  <2> QED BY <1>2, <1>6, <2>2 DEF HandleRead
<1> QED BY <1>2, <1>3, <1>4, <1>5, <1>6
        DEF Next, ServerNext, Select, Arrive, SendLine, ReadAnswer, Leave, NetworkReset, loopVars

\* Whatever the clients do, the servers on select end only as they must: for
\* any number of clients and descriptors, and lines of any length.
THEOREM ServerEndsForACause == Spec => []EndsForACause
<1>1. ASSUME Init PROVE ShortInv /\ EndsForACause
  <2>1. \A c \in Conn : sent[c] = 0 /\ taken[c] = 0 /\ unread[c] = 0 /\ peer[c] = "new"
    BY <1>1 DEF Init, SockInit
  <2>2. \A c \in Conn : Held(c) = 0 /\ Ungreeted(c) = IF prog = "hello" THEN 1 ELSE 0
    BY <1>1, <2>1 DEF Init, Held, Ungreeted, Unserved
  <2>3. ASSUME NEW c \in Conn PROVE Debt(c) = IF prog = "hello" THEN 1 ELSE 0
    BY <2>1, <2>2 DEF Debt
  <2> QED BY <1>1, <2>1, <2>3 DEF Init, ShortInv, EndsForACause
<1>2. TypeInv /\ PlaceInv /\ EchoInv => EndInv
  BY DEF EndInv, EchoInv, TakenSent
<1>3. ASSUME EndInv, ShortInv, EndsForACause, [Next]_vars
      PROVE  ShortInv' /\ EndsForACause'
  <2>1. CASE UNCHANGED vars
    BY <1>3, <2>1, ShortUnchanged DEF vars, sockVars, loopVars, EndsForACause, FreeFds
  <2> QED BY <1>3, <2>1, NextShort, EndHasACause
<1> QED BY <1>1, <1>2, <1>3, TypeInvariant, PlaceInvariant, EchoInvariant, PTL DEF Spec
=============================================================================
