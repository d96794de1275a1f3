----------------------------- MODULE SelectEcho -----------------------------
(***************************************************************************)
(* The servers on select and their clients:                                *)
(*   "select"  ch12/select_server.c, an echo server                        *)
(*   "hello"   quiz2/selectS.c, which greets a client and then reads the   *)
(*             header of a request                                         *)
(*   "answer"  quiz2/answer/selectS.c, which reads and drops               *)
(*   "quiz"    quiz2/select_server.c                                       *)
(* One thread scans the descriptors from the lowest up; the listening      *)
(* socket has the lowest number.  A message of Sockets is a piece: what    *)
(* one read of BUF_SIZE bytes takes of the 1024 bytes a client writes.     *)
(***************************************************************************)
EXTENDS Sockets, FiniteSets

CONSTANTS Prog,    \* the programs of the instance
          Listen,  \* the descriptor of the listening socket
          LineMax  \* bound: pieces in a line

ASSUME SelectAssumption ==
  /\ Prog \subseteq {"select", "hello", "answer", "quiz"}
  /\ Fd \subseteq Nat /\ Listen \in Nat /\ NoFd \notin Nat
  /\ \A f \in Fd : Listen < f
  /\ LineMax \in Nat \ {0}

VARIABLES
  prog,    \* the program that runs
  proc,    \* "up", "killed" by a signal, "crashed" in an endless loop
  asking,  \* the clients that have written a line and wait for the answer
  long,    \* history: the clients that have written a line of several pieces
  reads,   \* the descriptors select looks at
  copy,    \* the bits of cpy_reads that the scan has still to come to
  cur,     \* the descriptor whose data is to be echoed, or who is to be greeted
  buf      \* what is to be written to it

loopVars == <<prog, proc, reads, copy, cur, buf>>
typing == <<asking, long>>
vars == <<sockVars, loopVars, typing>>

NoMsg == [from |-> NoConn, n |-> 0]
Greeting == [from |-> NoConn, n |-> 1]

TypeOK ==
  /\ peer \in [Conn -> PeerState] /\ backlog \subseteq Conn
  /\ fdt \in [Fd -> Conn \cup {NoConn}]
  /\ sent \in [Conn -> 0..MaxSend] /\ taken \in [Conn -> 0..MaxSend]
  /\ inbox \in [Conn -> Seq(Msg \cup {Greeting})]
  /\ unread \in [Conn -> 0..SndBuf]
  /\ prog \in Prog
  /\ proc \in {"up", "killed", "crashed"}
  /\ asking \subseteq Conn /\ long \subseteq Conn
  /\ reads \subseteq Fd \cup {Listen}
  /\ copy \subseteq Fd \cup {Listen}
  /\ cur \in Fd \cup {NoFd}
  /\ buf \in Msg \cup {NoMsg, Greeting}

Init ==
  /\ SockInit
  /\ prog \in Prog
  /\ proc = "up"
  /\ asking = {} /\ long = {}
  /\ reads = {Listen}
  /\ copy = {}
  /\ cur = NoFd
  /\ buf = NoMsg

-----------------------------------------------------------------------------
(* The clients. *)

Arrive(c) == Connect(c) /\ UNCHANGED <<loopVars, typing>>

\* A line of the client of ch12.  That of quiz2 is killed by its sprintf
\* before it writes, that of quiz2/answer waits for a header no one sends.
SendLine(c) ==
  /\ prog = "select" /\ peer[c] = "open" /\ c \notin asking
  /\ \E k \in 1..LineMax :
       /\ sent[c] + k <= MaxSend
       /\ sent' = [sent EXCEPT ![c] = @ + k]
       /\ long' = IF k > 1 THEN long \cup {c} ELSE long
  /\ asking' = asking \cup {c}
  /\ UNCHANGED <<peer, backlog, fdt, taken, inbox, unread, loopVars>>

\* One read of all that has come: the answer, or the greeting.
ReadAnswer(c) ==
  /\ peer[c] = "open" /\ unread[c] > 0
  /\ c \in asking \/ prog = "hello"
  /\ unread' = [unread EXCEPT ![c] = 0]
  /\ asking' = asking \ {c}
  /\ UNCHANGED <<peer, backlog, fdt, sent, taken, inbox, loopVars, long>>

\* "q", the end of a client that was greeted, or its death at any point.
Leave(c) == Hangup(c) /\ UNCHANGED <<loopVars, typing>>

NetworkReset(c) == ResetArrives(c) /\ UNCHANGED <<loopVars, typing>>

-----------------------------------------------------------------------------
(* The server. *)

Readable(c) == HasData(c) \/ HasError(c) \/ AtEnd(c)

Ready == {f \in reads : IF f = Listen THEN backlog # {} ELSE Readable(fdt[f])}

\* cpy_reads = reads, and select leaves the bits of those that are ready.
Select ==
  /\ cur = NoFd /\ copy = {}
  /\ Ready # {}
  /\ copy' = Ready
  /\ UNCHANGED <<sockVars, typing, prog, proc, reads, cur, buf>>

\* The scan has come to f.
Turn(f) == cur = NoFd /\ f \in copy /\ \A g \in copy : f <= g

\* Variant: only the descriptors of the last scan are looked at again.
SetInCopy(f) == copy' = (copy \ {Listen}) \cup {f} /\ UNCHANGED reads

\* FD_SET(clnt_sock, &reads)
SetInReads(f) == reads' = reads \cup {f} /\ copy' = copy \ {Listen}

Accepted(f) ==
  CASE prog = "hello" -> cur' = f /\ buf' = Greeting /\ UNCHANGED proc
    [] prog = "quiz" -> proc' = "killed" /\ UNCHANGED <<cur, buf>>
    [] OTHER -> UNCHANGED <<proc, cur, buf>>

\* accept, of a connection or, without a descriptor to spare, of none; the
\* quiz server then writes to the listening socket, which is SIGPIPE.
HandleListen ==
  /\ Turn(Listen)
  /\ \E c \in backlog, f \in FreeFds :
       AcceptAs(c, f) /\ SetInReads(f) /\ Accepted(f)
  /\ UNCHANGED <<typing, prog>>

\* FD_SET(-1, &reads) is undefined: it may be without effect, or abort.
AcceptFails ==
  /\ Turn(Listen)
  /\ FreeFds = {}
  /\ proc' \in {"up", "killed"}
  /\ copy' = copy \ {Listen}
  /\ UNCHANGED <<sockVars, typing, prog, reads, cur, buf>>

Closed(f) == CloseFd(f)

\* After an error the header loop of quiz2 reads nothing for ever, and counts
\* up the index it writes at; the echo server's write of -1 bytes fails.
AfterError == IF prog = "hello" THEN proc' = "crashed" ELSE UNCHANGED proc

HandleRead(f) ==
  /\ Turn(f) /\ f # Listen
  /\ copy' = copy \ {f}
  /\ LET c == fdt[f] IN
       \/ /\ Take(c)
          /\ cur' = f
          /\ buf' = NextMsg(c)
          /\ UNCHANGED <<proc, reads>>
       \/ /\ TakeError(c)
          /\ AfterError
          /\ UNCHANGED <<reads, cur, buf>>
       \/ /\ AtEnd(c)
          /\ Closed(f)
          /\ reads' = reads \ {f}
          /\ UNCHANGED <<proc, cur, buf>>
  /\ UNCHANGED <<typing, prog>>

\* Variant: the answer goes to the client accepted last.
LastAccepted == CHOOSE f \in reads \ {Listen} : \A g \in reads : g <= f

WriteFd == cur

\* write(i, buf, str_len), or the greeting.
WriteOut ==
  /\ cur # NoFd
  /\ \/ Write(fdt[WriteFd], buf) /\ UNCHANGED proc
     \/ RaisesSigpipe(fdt[WriteFd]) /\ proc' = "killed" /\ UNCHANGED sockVars
  /\ cur' = NoFd
  /\ buf' = NoMsg
  /\ UNCHANGED <<typing, prog, reads, copy>>

ServerNext ==
  Select \/ HandleListen \/ AcceptFails \/ WriteOut \/ \E f \in Fd : HandleRead(f)

Next ==
  /\ proc = "up"
  /\ \/ ServerNext
     \/ \E c \in Conn : \/ Arrive(c) \/ SendLine(c) \/ ReadAnswer(c)
                        \/ Leave(c) \/ NetworkReset(c)

Spec == Init /\ [][Next]_vars

\* The loop goes on while it has something to do, and a client reads what it
\* waits for; it need not type or leave.
FairSpec ==
  /\ Spec
  /\ WF_vars(proc = "up" /\ ServerNext)
  /\ \A c \in Conn : WF_vars(proc = "up" /\ ReadAnswer(c))

-----------------------------------------------------------------------------
(* Properties. *)

\* The greeting, which comes first, is no echo.
Echoes(c) ==
  IF inbox[c] # <<>> /\ Head(inbox[c]) = Greeting THEN Tail(inbox[c]) ELSE inbox[c]

Promised == INSTANCE EchoService WITH echoed <- [c \in Conn |-> Echoes(c)]

\* The server on select keeps the promise of an echo server, as the one on
\* epoll does: every client gets its own pieces back, once, in order.
EchoSpec == Promised!Spec

\* A bit of the scan is never stale: the descriptor is open, leads to one
\* client, and its read has something to return, so that the one thread never
\* waits for one client while others have written.
ReadsNeverBlock ==
  /\ reads = {Listen} \cup {f \in Fd : fdt[f] # NoConn}
  /\ \A f \in copy \ {Listen} : f \in reads /\ Readable(fdt[f])

\* The echo server is brought down by a client that leaves with a line longer
\* than one read unanswered, or by an accept without descriptors; the one that
\* greets by a client that dies without having read the greeting; the quiz
\* server by its first client.
EndsForACause ==
  /\ proc = "killed" => \/ prog = "quiz" \/ FreeFds = {}
                        \/ \E c \in long : peer[c] = "rst"
  /\ proc = "crashed" => prog = "hello" /\ \E c \in Conn : peer[c] = "rst"

\* Level-triggered, the listening socket is reported until every connection is
\* accepted: a client is left waiting only while every descriptor is taken.
EveryClientIsAccepted ==
  \A c \in Conn : c \in backlog ~> c \notin backlog \/ FreeFds = {} \/ proc # "up"
=============================================================================
