----------------------------- MODULE EpollEcho -----------------------------
(***************************************************************************)
(* ch17/11.c, an echo server on epoll, and its client ch17/22.c.  One      *)
(* thread serves every client; the listening socket is edge-triggered, the *)
(* clients' sockets are level-triggered, and one event on the listening    *)
(* socket makes the server accept once.                                    *)
(*                                                                         *)
(* A message of Sockets is here a piece: what one read of BUF_SIZE bytes   *)
(* takes.  A line of the client is one piece or more, and the client       *)
(* believes that its next read is the answer to the line.                  *)
(*                                                                         *)
(* epoll_wait returns at most EPOLL_SIZE events; the instances have fewer  *)
(* descriptors than that.                                                  *)
(***************************************************************************)
EXTENDS Sockets, FiniteSets

CONSTANTS Listen,   \* the descriptor of the listening socket
          LineMax   \* bound: pieces in a line

ASSUME EpollAssumption ==
  /\ Listen \notin Fd \cup {NoFd}
  /\ LineMax \in Nat \ {0}

VARIABLES
  proc,      \* "up", or "killed" by SIGPIPE
  asking,    \* the clients that have written a line and wait for the answer
  long,      \* history: the clients that have written a line of several pieces
  edge,      \* the listening socket is on epoll's ready list
  interest,  \* the clients' descriptors that epoll watches
  events,    \* what is left of the events of the last epoll_wait
  cur,       \* the descriptor of the event whose data is to be echoed
  buf,       \* the piece read
  missed     \* history: connections no event will stand for

loopVars == <<proc, edge, interest, events, cur, buf, missed>>
clientVars == <<asking, long>>
vars == <<sockVars, loopVars, clientVars>>

NoMsg == [from |-> NoConn, n |-> 0]

TypeOK ==
  /\ SockTypeOK
  /\ proc \in {"up", "killed"}
  /\ asking \subseteq Conn
  /\ long \subseteq Conn
  /\ edge \in BOOLEAN
  /\ interest \subseteq Fd
  /\ events \subseteq Fd \cup {Listen}
  /\ cur \in Fd \cup {NoFd}
  /\ buf \in Msg \cup {NoMsg}
  /\ missed \in Nat

Init ==
  /\ SockInit
  /\ proc = "up"
  /\ asking = {}
  /\ long = {}
  /\ edge = FALSE
  /\ interest = {}
  /\ events = {}
  /\ cur = NoFd
  /\ buf = NoMsg
  /\ missed = 0

-----------------------------------------------------------------------------
(* The clients. *)

\* A connection puts the listening socket on the ready list; one that is on
\* it already stays there once.
Arrive(c) ==
  /\ Connect(c)
  /\ edge' = TRUE
  /\ missed' = missed + IF edge THEN 1 ELSE 0
  /\ UNCHANGED <<proc, clientVars, interest, events, cur, buf>>

MayType(c) == peer[c] = "open" /\ c \notin asking

SendLine(c) ==
  /\ MayType(c)
  /\ \E k \in 1..LineMax :
       /\ sent[c] + k <= MaxSend
       /\ sent' = [sent EXCEPT ![c] = @ + k]
       /\ long' = IF k > 1 THEN long \cup {c} ELSE long
  /\ asking' = asking \cup {c}
  /\ UNCHANGED <<peer, backlog, fdt, taken, inbox, unread, loopVars>>

\* One read, of all that has come.
ReadAnswer(c) ==
  /\ peer[c] = "open"
  /\ c \in asking
  /\ unread[c] > 0
  /\ unread' = [unread EXCEPT ![c] = 0]
  /\ asking' = asking \ {c}
  /\ UNCHANGED <<peer, backlog, fdt, sent, taken, inbox, loopVars, long>>

\* "q" when a line is due; killed at any point.
Leave(c) == Hangup(c) /\ UNCHANGED <<loopVars, clientVars>>

NetworkReset(c) == ResetArrives(c) /\ UNCHANGED <<loopVars, clientVars>>

-----------------------------------------------------------------------------
(* The server. *)

Readable(c) == HasData(c) \/ HasError(c) \/ AtEnd(c)

Ready ==
  {f \in interest : Readable(fdt[f])} \cup (IF edge THEN {Listen} ELSE {})

\* epoll_wait takes the listening socket off its ready list.
Wait ==
  /\ cur = NoFd /\ events = {}
  /\ Ready # {}
  /\ events' = Ready
  /\ edge' = FALSE
  /\ UNCHANGED <<sockVars, clientVars, proc, interest, cur, buf, missed>>

\* epoll_ctl(ADD) of the -1 of a failed accept fails.
Watched(f) == IF f = NoFd THEN interest ELSE interest \cup {f}

\* One accept; without a descriptor to spare it fails, and the connection
\* has had its event.
HandleListen ==
  /\ cur = NoFd /\ Listen \in events
  /\ events' = events \ {Listen}
  /\ \/ \E c \in backlog, f \in FreeFds :
          AcceptAs(c, f) /\ interest' = Watched(f) /\ UNCHANGED missed
     \/ /\ backlog = {} \/ FreeFds = {}
        /\ interest' = Watched(NoFd)
        /\ missed' = missed + IF backlog = {} THEN 0 ELSE 1
        /\ UNCHANGED sockVars
  /\ UNCHANGED <<clientVars, proc, edge, cur, buf>>

\* Variant: break after any error, not only after EAGAIN.
NoneAfterError(f) == {}

\* A blocking socket that is readable has no EAGAIN: the loop goes on.
AfterError(f) == events \ {f}

Closed(f) == CloseFd(f)

HandleRead(f) ==
  /\ cur = NoFd /\ f \in events \ {Listen}
  /\ LET c == fdt[f] IN
       \/ /\ Take(c)
          /\ cur' = f
          /\ buf' = NextMsg(c)
          /\ events' = events \ {f}
          /\ UNCHANGED interest
       \/ /\ TakeError(c)
          /\ events' = AfterError(f)
          /\ UNCHANGED <<cur, buf, interest>>
       \/ /\ AtEnd(c)
          /\ Closed(f)
          /\ interest' = interest \ {f}
          /\ events' = events \ {f}
          /\ UNCHANGED <<cur, buf>>
  /\ UNCHANGED <<clientVars, proc, edge, missed>>

\* Variant: the answer goes to a client of the batch, not to the one read.
EchoFdOfNext == IF events \ {Listen} = {} THEN cur
                ELSE CHOOSE f \in events \ {Listen} : TRUE

EchoFd == cur

\* write(ep_events[i].data.fd, buf, str_len)
Echo ==
  /\ cur # NoFd
  /\ \/ Write(fdt[EchoFd], buf) /\ UNCHANGED proc
     \/ RaisesSigpipe(fdt[EchoFd]) /\ proc' = "killed" /\ UNCHANGED sockVars
  /\ cur' = NoFd
  /\ buf' = NoMsg
  /\ UNCHANGED <<clientVars, edge, interest, events, missed>>

ServerNext == Wait \/ HandleListen \/ Echo \/ \E f \in Fd : HandleRead(f)

Next ==
  /\ proc = "up"
  /\ \/ ServerNext
     \/ \E c \in Conn : \/ Arrive(c) \/ SendLine(c) \/ ReadAnswer(c)
                        \/ Leave(c) \/ NetworkReset(c)

Spec == Init /\ [][Next]_vars

\* The loop goes on while it has something to do; of the clients nothing is
\* asked, and the kernel may take its time with a reset.
FairSpec == Spec /\ WF_vars(proc = "up" /\ ServerNext)

-----------------------------------------------------------------------------
(* Properties. *)

\* epoll watches the open descriptors and no other, each leads to a client
\* of its own, and no event of a batch is for a descriptor that was closed
\* (and maybe opened again) by an earlier event of the batch.
WatchesWhatIsOpen ==
  /\ interest = {f \in Fd : fdt[f] # NoConn}
  /\ \A f, g \in interest : fdt[f] = fdt[g] => f = g
  /\ events \subseteq interest \cup {Listen}

Pending == (IF edge THEN 1 ELSE 0) + (IF Listen \in events THEN 1 ELSE 0)

\* Connections are left behind only by the two ways the server has to miss
\* one: connecting while an event is pending, and accept without descriptor.
LeftBehindWereMissed == Cardinality(backlog) <= missed + Pending

\* A client gets back what it wrote: every piece, once, in order; one piece
\* of one client at most is in the server's hands.
EchoExact ==
  \A c \in Conn :
    /\ \A k \in 1..Len(inbox[c]) : inbox[c][k] = [from |-> c, n |-> k]
    /\ peer[c] = "open" =>
         taken[c] = IF buf.from = c THEN Len(inbox[c]) + 1 ELSE Len(inbox[c])

Promised == INSTANCE EchoService WITH echoed <- inbox

\* The server keeps the promise of an echo server: a step writes to one client
\* at most, the next of the pieces that client wrote.
EchoSpec == Promised!Spec

\* SIGPIPE takes a second answer to a client that left, or one to a client
\* that left without reading the last.  A client that waits for each answer
\* gives rise to that only by a line longer than one read: one whose lines
\* are short does not bring the server down, however it leaves.
ShortLinesDoNotKill ==
  proc = "killed" => \E c \in Conn : peer[c] = "rst" /\ c \in long

Accepted(c) == \E f \in Fd : fdt[f] = c

\* Every piece an accepted client wrote comes back, unless it leaves or the
\* server is killed: level-triggered events are not missed.
EveryPieceIsEchoed ==
  \A c \in Conn :
    Accepted(c) /\ Len(inbox[c]) < sent[c]
      ~> peer[c] # "open" \/ Len(inbox[c]) = sent[c] \/ proc = "killed"

\* Every connection is accepted as long as none was missed.
AcceptedUnlessMissed ==
  \A c \in Conn : c \in backlog ~> c \notin backlog \/ missed > 0 \/ proc = "killed"
=============================================================================
