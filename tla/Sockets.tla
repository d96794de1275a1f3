------------------------------ MODULE Sockets ------------------------------
(***************************************************************************)
(* The TCP connections a chat server serves, seen from the server: the     *)
(* clients at their far ends (ch18/chatroom_clnt.c) and the part of the     *)
(* kernel the server calls.  The kernel's side is external: it is modelled *)
(* from how the server uses accept, read, write and close.                 *)
(*                                                                         *)
(* One message is what one write sends and one read returns; the n-th      *)
(* message of client c is the record [from |-> c, n |-> n].                *)
(***************************************************************************)
EXTENDS Integers, Sequences

CONSTANTS Conn,     \* connections, one per run of the client program
          NoConn,   \* what an unused descriptor leads to
          Fd,       \* the descriptors the process may have open at once
          NoFd,     \* the -1 that accept returns when it fails
          MaxSend,  \* bound: messages a client writes, its farewell included
          SndBuf    \* messages the buffers of a connection hold

ASSUME SocketsAssumption ==
  /\ NoConn \notin Conn
  /\ NoFd \notin Fd
  /\ MaxSend \in Nat
  /\ SndBuf \in Nat \ {0}

VARIABLES
  peer,     \* what the server's end of the connection knows of the client
  backlog,  \* established connections that accept has not returned yet
  fdt,      \* the descriptor table of the server
  sent,     \* how many messages the client has written
  taken,    \* how many of them read has returned to the server
  inbox,    \* all the server ever wrote to the client, in order
  unread    \* how much of inbox the client has not read yet

sockVars == <<peer, backlog, fdt, sent, taken, inbox, unread>>

Msg == [from : Conn, n : 1..MaxSend]

(***************************************************************************)
(* "fin": the client has closed.  "poked": it has closed, and data it will *)
(* answer with a reset is on its way to it.  "reset": the reset has come   *)
(* and no call has reported it.  "rst": it has been reported, or came for  *)
(* a connection known to be closing; reads find the end, writes SIGPIPE.   *)
(***************************************************************************)
PeerState == {"new", "open", "fin", "poked", "reset", "rst"}

SockTypeOK ==
  /\ peer \in [Conn -> PeerState]
  /\ backlog \subseteq Conn
  /\ fdt \in [Fd -> Conn \cup {NoConn}]
  /\ sent \in [Conn -> 0..MaxSend]
  /\ taken \in [Conn -> 0..MaxSend]
  /\ inbox \in [Conn -> Seq(Msg)]
  /\ unread \in [Conn -> 0..SndBuf]

SockInit ==
  /\ peer = [c \in Conn |-> "new"]
  /\ backlog = {}
  /\ fdt = [f \in Fd |-> NoConn]
  /\ sent = [c \in Conn |-> 0]
  /\ taken = [c \in Conn |-> 0]
  /\ inbox = [c \in Conn |-> <<>>]
  /\ unread = [c \in Conn |-> 0]

-----------------------------------------------------------------------------
(* The clients. *)

\* connect() completes in the kernel, whether or not the server accepts.
Connect(c) ==
  /\ peer[c] = "new"
  /\ peer' = [peer EXCEPT ![c] = "open"]
  /\ backlog' = backlog \cup {c}
  /\ UNCHANGED <<fdt, sent, taken, inbox, unread>>

\* The send thread writes a line, the farewell of "q" being the last one.
ClientSend(c) ==
  /\ peer[c] = "open"
  /\ sent[c] < MaxSend
  /\ sent' = [sent EXCEPT ![c] = @ + 1]
  /\ UNCHANGED <<peer, backlog, fdt, taken, inbox, unread>>

\* The receive thread reads a message.
ClientRecv(c) ==
  /\ peer[c] = "open"
  /\ unread[c] > 0
  /\ unread' = [unread EXCEPT ![c] = @ - 1]
  /\ UNCHANGED <<peer, backlog, fdt, sent, taken, inbox>>

\* close and exit after "q", or the death of the client at any other point.
\* With data unread the kernel sends a reset, at once for what is in the
\* receive buffer ("reset") or when what is in flight arrives ("poked").
Hangup(c) ==
  /\ peer[c] = "open"
  /\ \E p \in IF unread[c] = 0 THEN {"fin"} ELSE {"reset", "poked"} :
       peer' = [peer EXCEPT ![c] = p]
  /\ unread' = [unread EXCEPT ![c] = 0]
  /\ UNCHANGED <<backlog, fdt, sent, taken, inbox>>

\* The answer to a write that reached a closed client.
ResetArrives(c) ==
  /\ peer[c] = "poked"
  /\ peer' = [peer EXCEPT ![c] = "rst"]
  /\ UNCHANGED <<backlog, fdt, sent, taken, inbox, unread>>

ClientNext ==
  \E c \in Conn : \/ Connect(c) \/ ClientSend(c) \/ ClientRecv(c)
                  \/ Hangup(c) \/ ResetArrives(c)

-----------------------------------------------------------------------------
(* The calls of the server. *)

\* Where a descriptor leads; NoConn is EBADF.
At(f) == IF f \in Fd THEN fdt[f] ELSE NoConn

FreeFds == {f \in Fd : fdt[f] = NoConn}

\* accept returns c under f.  POSIX takes the lowest free number, but the
\* moment it is looked up is the kernel's affair: any free number here.
AcceptAs(c, f) ==
  /\ c \in backlog
  /\ f \in FreeFds
  /\ backlog' = backlog \ {c}
  /\ fdt' = [fdt EXCEPT ![f] = c]
  /\ UNCHANGED <<peer, sent, taken, inbox, unread>>

CloseFd(f) ==
  /\ fdt' = IF f \in Fd THEN [fdt EXCEPT ![f] = NoConn] ELSE fdt
  /\ UNCHANGED <<peer, backlog, sent, taken, inbox, unread>>

\* read looks at the data first, then at the error, then at the end.
HasData(c) == taken[c] < sent[c]
HasError(c) == ~HasData(c) /\ peer[c] = "reset"
AtEnd(c) == ~HasData(c) /\ peer[c] \in {"fin", "poked", "rst"}

NextMsg(c) == [from |-> c, n |-> taken[c] + 1]

Take(c) ==
  /\ HasData(c)
  /\ taken' = [taken EXCEPT ![c] = @ + 1]
  /\ UNCHANGED <<peer, backlog, fdt, sent, inbox, unread>>

TakeError(c) ==
  /\ HasError(c)
  /\ peer' = [peer EXCEPT ![c] = "rst"]
  /\ UNCHANGED <<backlog, fdt, sent, taken, inbox, unread>>

\* A write that does not raise SIGPIPE.  It waits while an open connection's
\* buffers are full; to a client that closed, the first write provokes the
\* reset or reports it.
Write(c, m) ==
  /\ \/ /\ peer[c] = "open"
        /\ unread[c] < SndBuf
        /\ inbox' = [inbox EXCEPT ![c] = Append(@, m)]
        /\ unread' = [unread EXCEPT ![c] = @ + 1]
        /\ peer' = peer
     \/ /\ peer[c] \in {"fin", "poked", "reset"}
        /\ peer' = [peer EXCEPT ![c] = IF @ = "reset" THEN "rst" ELSE "poked"]
        /\ UNCHANGED <<inbox, unread>>
  /\ UNCHANGED <<backlog, fdt, sent, taken>>

RaisesSigpipe(c) == peer[c] = "rst"
=============================================================================
