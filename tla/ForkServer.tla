----------------------------- MODULE ForkServer -----------------------------
(***************************************************************************)
(* The servers that fork a child per connection, and their clients:        *)
(*   "ch10"   ch10/echo_server_mp.c: no handler for SIGCHLD                *)
(*   "ch11"   ch11/echo_server_mp.c: a handler, and the client's name in a *)
(*            log file                                                     *)
(*   "commu"  ch11/mp_commu_server.c: the log is a process of its own      *)
(*   "chat"   ch11/chat_mp_server.c: the same, and a line goes to the      *)
(*            descriptor of the other client                               *)
(*   "kakao"  kakao_test/kakao_mp_server.c: one question, one answer       *)
(* The programs share the parent's loop; prog says which of them runs.     *)
(*                                                                         *)
(* What a client writes is counted in units, a few bytes each: its name    *)
(* and its lines are one unit or more.  A read takes what has come, up to  *)
(* the BUF_SIZE of the program, and leaves it at the beginning of its buf; *)
(* the read of the name takes at most FirstRead units in ch11.             *)
(***************************************************************************)
EXTENDS Processes, LogPipe, Integers

CONSTANTS Prog,       \* the programs of the instance
          Fd,         \* the parent's descriptors, from the lowest up
          NoConn,     \* what an unused descriptor leads to
          MaxSend,    \* bound: units a client writes
          PieceMax,   \* bound: units of a name or a line
          FirstRead,  \* units read(dataSock, chatname, 10) takes
          BufUnits    \* units of BUF_SIZE

ASSUME ForkAssumption ==
  /\ Prog \subseteq {"ch10", "ch11", "commu", "chat", "kakao"}
  /\ NoConn \notin Conn
  /\ Exit \notin Conn
  /\ Fd \subseteq Nat /\ \E f \in Fd : \A g \in Fd : f <= g
  /\ MaxSend \in Nat /\ PieceMax \in Nat \ {0} /\ FirstRead \in Nat \ {0}
  /\ BufUnits \in Nat \ {0}

VARIABLES
  prog,     \* the program that runs
  main,     \* where the parent is
  hand,     \* the parent is in read_childproc, before waitpid
  cur,      \* the connection of clnt_sock
  tab,      \* the parent's descriptor table
  arr,      \* clnt_sock_arr and Client_Count of the chat server
  intr,     \* the processes that have a SIGINT to take
  asleep,   \* the processes in read_int that have written "exit"
  backlog,  \* connections established and not accepted
  dropped,  \* connections the server closed without a child
  client,   \* where each client is
  name,     \* units of the name each client gave
  sent, taken,  \* units each client wrote, and units its child has read
  got,      \* units each client has read
  stop,     \* the clients of kakao that sent -1
  first,    \* units the read of the name took
  held,     \* units the child has read and not written back
  buf,      \* the units in the buf of each child
  child,    \* where each child is
  copy,     \* tab and arr as each child found them at its fork
  inbox,    \* the units the server wrote to each client, in order
  poked     \* clients written to after they had gone

parentVars == <<main, hand, cur, tab, arr>>
sigVars == <<intr, asleep>>
clientVars == <<client, name, sent, got, stop>>
childVars == <<child, copy, taken, first, held, buf, inbox, poked>>
vars == <<procVars, logVars, prog, parentVars, sigVars, backlog, dropped,
          clientVars, childVars>>

\* The n-th unit of client c.
Unit == [from : Conn, n : 1..MaxSend]
\* What is in buf before anything was read into it.
NoUnit == [from |-> NoConn, n |-> 0]
NoArr == [who |-> <<-1, -1>>, count |-> 0]
NoCopy == [tab |-> [f \in Fd |-> NoConn], fd |-> -1, arr |-> NoArr]

LogsByProcess == prog \in {"commu", "chat"}
HasHandler == prog \in {"ch11", "commu", "chat"}

Init ==
  /\ prog \in Prog
  /\ main = "boot" /\ hand = FALSE /\ cur = NoConn
  /\ tab = [f \in Fd |-> NoConn]
  /\ arr = NoArr
  /\ intr = {} /\ asleep = {} /\ backlog = {} /\ dropped = {} /\ poked = {}
  /\ client = [c \in Conn |-> "new"]
  /\ sent = [c \in Conn |-> 0] /\ taken = [c \in Conn |-> 0]
  /\ name = [c \in Conn |-> 0] /\ got = [c \in Conn |-> 0] /\ stop = {}
  /\ first = [c \in Conn |-> 0] /\ held = [c \in Conn |-> 0]
  /\ child = [c \in Conn |-> "none"]
  /\ copy = [c \in Conn |-> NoCopy]
  /\ buf = [c \in Conn |-> [k \in 1..BufUnits |-> NoUnit]]
  /\ inbox = [c \in Conn |-> <<>>]
  /\ LogInit
  /\ pending = FALSE /\ merged = 0
  /\ life = [p \in Proc |-> IF p = Main \/ (p = Logger /\ LogsByProcess)
                            THEN "runs" ELSE "none"]

TypeOK ==
  /\ ProcTypeOK
  /\ pipe \in Seq(Conn \cup {Exit}) /\ written \in Seq(Conn \cup {Exit})
  /\ fbuf \in Seq(Conn \cup {Exit}) /\ file \in Seq(Conn \cup {Exit})
  /\ swallowed \in BOOLEAN
  /\ prog \in Prog
  /\ main \in {"boot", "accept", "failed", "fork", "close", "unstarted", "end"}
  /\ hand \in BOOLEAN
  /\ cur \in Conn \cup {NoConn}
  /\ tab \in [Fd -> Conn \cup {NoConn}]
  /\ arr \in [who : Seq(Fd \cup {-1}), count : 0..1]
  /\ intr \subseteq Proc /\ asleep \subseteq Proc
  /\ backlog \subseteq Conn /\ dropped \subseteq Conn /\ poked \subseteq Conn
  /\ client \in [Conn -> {"new", "nameless", "ready", "asks", "done", "left"}]
  /\ name \in [Conn -> 0..MaxSend] /\ got \in [Conn -> Nat] /\ stop \subseteq Conn
  /\ sent \in [Conn -> 0..MaxSend] /\ taken \in [Conn -> 0..MaxSend]
  /\ first \in [Conn -> 0..MaxSend] /\ held \in [Conn -> 0..MaxSend]
  /\ child \in [Conn -> {"none", "hello", "name", "log", "echo", "map", "end"}]
  /\ copy \in [Conn -> [tab : [Fd -> Conn \cup {NoConn}], fd : Fd \cup {-1},
                        arr : [who : Seq(Fd \cup {-1}), count : 0..1]]]
  /\ buf \in [Conn -> [1..BufUnits -> Unit \cup {NoUnit}]]
  /\ inbox \in [Conn -> Seq(Unit \cup {NoUnit})]

-----------------------------------------------------------------------------
(* The clients. *)

HasName == prog \in {"ch11", "commu", "chat"}
Lockstep == prog \in {"ch10", "ch11", "kakao"}
Listening == Runs(Main) /\ main # "boot"
AtEnd(c) == client[c] \in {"done", "left"}

Connect(c) ==
  /\ client[c] = "new" /\ Listening
  /\ client' = [client EXCEPT ![c] = IF HasName THEN "nameless" ELSE "ready"]
  /\ backlog' = backlog \cup {c}
  /\ UNCHANGED <<name, sent, got, stop>>

\* One write of a name or a line, which is a unit or more.
Writes(c, k) ==
  /\ sent[c] + k <= MaxSend
  /\ sent' = [sent EXCEPT ![c] = @ + k]

\* The client of ch11/client reads the "hello" first.
SendName(c) ==
  /\ client[c] = "nameless"
  /\ LogsByProcess => child[c] \notin {"none", "hello"}
  /\ \E k \in 1..PieceMax : Writes(c, k) /\ name' = [name EXCEPT ![c] = k]
  /\ client' = [client EXCEPT ![c] = "ready"]
  /\ UNCHANGED <<got, stop, backlog>>

\* A client in lockstep waits for the answer; the one of ch11/client reads in
\* a process of its own.
SendLine(c) ==
  /\ client[c] = "ready"
  /\ \E k \in 1..PieceMax : Writes(c, k)
  /\ client' = [client EXCEPT ![c] = IF Lockstep THEN "asks" ELSE "ready"]
  /\ UNCHANGED <<name, got, stop, backlog>>

\* kakao_mp_client: -1 is written, and the client exits.
SendStop(c) ==
  /\ prog = "kakao" /\ client[c] = "ready"
  /\ Writes(c, 1)
  /\ client' = [client EXCEPT ![c] = "left"]
  /\ stop' = stop \cup {c}
  /\ UNCHANGED <<name, got, backlog>>

\* One read, of all that has come.
ReadAnswer(c) ==
  /\ client[c] = "asks" /\ got[c] < Len(inbox[c])
  /\ got' = [got EXCEPT ![c] = Len(inbox[c])]
  /\ client' = [client EXCEPT ![c] = IF prog = "kakao" THEN "left" ELSE "ready"]
  /\ UNCHANGED <<name, sent, stop, backlog>>

\* "q" in ch11/client: the writer shuts its direction down, the reader stays.
Quit(c) ==
  /\ LogsByProcess /\ client[c] = "ready"
  /\ client' = [client EXCEPT ![c] = "done"]
  /\ UNCHANGED <<name, sent, got, stop, backlog>>

\* "q" in lockstep, or the death of the client at any point.
Leave(c) ==
  /\ client[c] \notin {"new", "left"}
  /\ client' = [client EXCEPT ![c] = "left"]
  /\ UNCHANGED <<name, sent, got, stop, backlog>>

ClientNext ==
  /\ \E c \in Conn : \/ Connect(c) \/ SendName(c) \/ SendLine(c) \/ SendStop(c)
                     \/ ReadAnswer(c) \/ Quit(c) \/ Leave(c)
  /\ UNCHANGED <<procVars, logVars, prog, parentVars, sigVars, dropped, childVars>>

-----------------------------------------------------------------------------
(* The parent. *)

MainRuns(pc) == Runs(Main) /\ main = pc /\ ~hand /\ Main \notin asleep

\* exit of the parent: what waits to be accepted is refused.
ParentExits(pc) ==
  /\ ParentEnds
  /\ main' = pc
  /\ dropped' = dropped \cup backlog
  /\ backlog' = {}

\* socket, bind and listen; one that fails, bind to a port in use for one,
\* ends the parent, and the logger has been forked by then.
Boot ==
  /\ MainRuns("boot")
  /\ \/ main' = "accept" /\ UNCHANGED <<procVars, backlog, dropped>>
     \/ ParentExits("unstarted")
  /\ UNCHANGED <<hand, cur, tab, arr>>

LowestFree ==
  CHOOSE f \in Fd : tab[f] = NoConn /\ \A g \in Fd : tab[g] = NoConn => f <= g

\* clnt_sock_arr[Client_Count++] = clnt_sock; Client_Count = Client_Count % 2;
Enlisted(f) == [who |-> [arr.who EXCEPT ![arr.count + 1] = f],
                count |-> (arr.count + 1) % 2]

Accept ==
  /\ MainRuns("accept")
  /\ \E c \in backlog :
       /\ backlog' = backlog \ {c}
       /\ cur' = c
       /\ tab' = [tab EXCEPT ![LowestFree] = c]
  /\ arr' = IF prog = "chat" THEN Enlisted(LowestFree) ELSE arr
  /\ main' = "fork"
  /\ UNCHANGED <<procVars, hand, dropped>>

\* Variant: a failed accept ends the server, as in ch11/echo_server_mp.c.
EveryFailureIsFatal == ParentExits("end")

\* continue
AcceptAgain ==
  /\ main' = "accept"
  /\ UNCHANGED <<procVars, backlog, dropped>>

\* error_handling("accept() error")
AcceptError == ParentExits("end")

\* What accept's -1 leads to, which a handler that ran meanwhile brings about.
AcceptFailed ==
  /\ MainRuns("failed")
  /\ IF prog = "ch11" THEN AcceptError ELSE AcceptAgain
  /\ UNCHANGED <<hand, cur, tab, arr>>

FdOf(c) == CHOOSE f \in Fd : tab[f] = c

FirstPlace ==
  CASE prog = "ch10" -> "echo"
    [] prog = "ch11" -> "name"
    [] prog = "kakao" -> "map"
    [] OTHER -> "hello"

\* The child starts with a copy of all the parent has; without a child the
\* connection is closed all the same.
Fork ==
  /\ MainRuns("fork")
  /\ \/ /\ Forked(cur)
        /\ child' = [child EXCEPT ![cur] = FirstPlace]
        /\ copy' = [copy EXCEPT ![cur] = [tab |-> tab, fd |-> FdOf(cur), arr |-> arr]]
        /\ UNCHANGED dropped
     \/ /\ dropped' = dropped \cup {cur}
        /\ UNCHANGED <<procVars, child, copy>>
  /\ main' = "close"
  /\ UNCHANGED <<hand, cur, tab, arr, backlog>>

\* Variant: the parent keeps the descriptor of the connection.
KeepsData == tab' = tab

ClosesData == tab' = [tab EXCEPT ![FdOf(cur)] = NoConn]

CloseData ==
  /\ MainRuns("close")
  /\ ClosesData
  /\ cur' = NoConn
  /\ main' = "accept"
  /\ UNCHANGED <<procVars, hand, arr, backlog, dropped>>

\* A SIGCHLD is taken.  If the parent sleeps in accept, accept fails: sa_flags
\* is 0.  With a connection waiting accept returns that.
TakeChld ==
  /\ Runs(Main) /\ HasHandler /\ pending /\ ~hand
  /\ pending' = FALSE
  /\ hand' = TRUE
  /\ \/ main' = main
     \/ /\ main = "accept" /\ backlog = {} /\ Main \notin asleep
        /\ main' = "failed"
  /\ UNCHANGED <<life, merged, cur, tab, arr, backlog, dropped>>

\* Variant: the handler returns without waitpid.
ReapsNothing == UNCHANGED procVars

Reaped == WaitNoHang

\* The rest of read_childproc; SIGCHLD is blocked till it returns.
Reap ==
  /\ Runs(Main) /\ hand
  /\ Reaped
  /\ hand' = FALSE
  /\ UNCHANGED <<main, cur, tab, arr, backlog, dropped>>

ParentNext ==
  /\ \/ Fork
     \/ /\ Boot \/ Accept \/ AcceptFailed \/ CloseData \/ TakeChld \/ Reap
        /\ UNCHANGED <<child, copy>>
  /\ UNCHANGED <<logVars, prog, sigVars, clientVars, taken, first, held, buf, inbox, poked>>

-----------------------------------------------------------------------------
(* The children. *)

ChildRuns(c, pc) == Runs(c) /\ c \notin asleep /\ child[c] = pc
Arrived(c) == sent[c] - taken[c]

Ends(c) == ChildEnds(c) /\ child' = [child EXCEPT ![c] = "end"]
Goes(c, pc) == UNCHANGED procVars /\ child' = [child EXCEPT ![c] = pc]

Touched(c) == poked' = IF client[c] = "left" THEN poked \cup {c} ELSE poked

\* write(clnt_sock, helloMsg, sizeof(helloMsg))
Hello(c) ==
  /\ ChildRuns(c, "hello")
  /\ Goes(c, "name")
  /\ Touched(c)
  /\ UNCHANGED <<copy, taken, first, held, buf, inbox, logVars>>

\* read(dataSock, chatname, 10)
ReadTen(c) == IF Arrived(c) < FirstRead THEN Arrived(c) ELSE FirstRead

\* read(clnt_sock, buf, BUF_SIZE)
ReadAll(c) == IF Arrived(c) < BufUnits THEN Arrived(c) ELSE BufUnits

\* buf after a read of n units: what is behind them stays.
Filled(c, n) == [k \in 1..BufUnits |-> IF k <= n THEN [from |-> c, n |-> taken[c] + k]
                                       ELSE buf[c][k]]

\* The read of the name takes what there is, a line that follows it too; of a
\* client that left without a name it takes nothing.  ch11 has an array of its
\* own for the name, the others read it into buf.
ReadName(c) ==
  /\ ChildRuns(c, "name")
  /\ Arrived(c) > 0 \/ AtEnd(c)
  /\ LET n == IF prog = "ch11" THEN ReadTen(c) ELSE ReadAll(c) IN
       /\ taken' = [taken EXCEPT ![c] = @ + n]
       /\ first' = [first EXCEPT ![c] = n]
       /\ buf' = IF prog = "ch11" THEN buf ELSE [buf EXCEPT ![c] = Filled(c, n)]
  /\ Goes(c, "log")
  /\ UNCHANGED <<copy, held, inbox, poked, logVars>>

\* write(fd, tmp, strlen(tmp)), to a file opened with O_APPEND
AppendToFile(c) ==
  /\ file' = Append(file, c)
  /\ UNCHANGED <<pipe, written, fbuf, swallowed>>

LogName(c) ==
  /\ ChildRuns(c, "log")
  /\ IF LogsByProcess THEN WritePipe(c) ELSE AppendToFile(c)
  /\ Goes(c, "echo")
  /\ UNCHANGED <<copy, taken, first, held, buf, inbox, poked>>

\* Variant: one less than was read is written back.
TakesAllButOne(c, n) == held' = [held EXCEPT ![c] = n - 1]

TakesAll(c, n) == held' = [held EXCEPT ![c] = n]

ReadLine(c) ==
  /\ ChildRuns(c, "echo") /\ held[c] = 0
  /\ Arrived(c) > 0
  /\ TakesAll(c, ReadAll(c))
  /\ taken' = [taken EXCEPT ![c] = @ + ReadAll(c)]
  /\ buf' = [buf EXCEPT ![c] = Filled(c, ReadAll(c))]
  /\ Goes(c, "echo")
  /\ UNCHANGED <<copy, first, inbox, poked, logVars>>

\* if(clnt_sock == clnt_sock_arr[0]) write(clnt_sock_arr[1], ...)
\* else write(clnt_sock_arr[0], ...), as the child found them at its fork.
OtherFd(c) ==
  LET k == copy[c] IN IF k.fd = k.arr.who[1] THEN k.arr.who[2] ELSE k.arr.who[1]

\* The connection that the child writes to; NoConn is EBADF.
Target(c) ==
  IF prog # "chat" THEN c
  ELSE IF OtherFd(c) \in Fd THEN copy[c].tab[OtherFd(c)] ELSE NoConn

\* write(clnt_sock, buf, str_len); but the chat server writes BUF_SIZE, what
\* it read and what was left behind that in buf.
WrittenUnits(c) == IF prog = "chat" THEN BufUnits ELSE held[c]
HeldUnits(c) == SubSeq(buf[c], 1, WrittenUnits(c))

\* Once data has reached a client that is gone, the next write may find the
\* reset and raise SIGPIPE.
WriteBack(c) ==
  /\ ChildRuns(c, "echo") /\ held[c] > 0
  /\ held' = [held EXCEPT ![c] = 0]
  /\ LET t == Target(c) IN
       \/ /\ inbox' = [d \in Conn |-> IF d = t /\ client[d] # "left"
                                      THEN inbox[d] \o HeldUnits(c) ELSE inbox[d]]
          /\ poked' = IF t \in Conn /\ client[t] = "left" THEN poked \cup {t} ELSE poked
          /\ Goes(c, "echo")
       \/ /\ t \in poked
          /\ Ends(c)
          /\ UNCHANGED <<inbox, poked>>
  /\ UNCHANGED <<copy, taken, first, buf, logVars>>

\* read returns 0, perhaps after a -1 of a connection that was reset.  The
\* write that follows a -1 fails; the one of the chat server, of the whole of
\* buf, may raise SIGPIPE: the child ends, and nobody hears of it.
EndOfClient(c) ==
  /\ ChildRuns(c, "echo") /\ held[c] = 0
  /\ Arrived(c) = 0 /\ AtEnd(c)
  /\ Ends(c)
  /\ UNCHANGED <<copy, taken, first, held, buf, inbox, poked, logVars>>

\* kakao: five numbers are read, and unless the first is -1 their map is
\* written; the child ends either way.
AnswerMap(c) ==
  /\ ChildRuns(c, "map")
  /\ Arrived(c) > 0 \/ AtEnd(c)
  /\ taken' = [taken EXCEPT ![c] = sent[c]]
  /\ IF c \in stop \/ client[c] = "left" THEN inbox' = inbox
     ELSE inbox' = [inbox EXCEPT ![c] = [k \in 1..Arrived(c) |-> [from |-> c, n |-> k]]]
  /\ Ends(c)
  /\ UNCHANGED <<copy, first, held, buf, poked, logVars>>

ChildNext(c) ==
  /\ \/ Hello(c) \/ ReadName(c) \/ LogName(c) \/ ReadLine(c) \/ WriteBack(c)
     \/ EndOfClient(c) \/ AnswerMap(c)
  /\ UNCHANGED <<prog, parentVars, sigVars, backlog, dropped, clientVars>>

-----------------------------------------------------------------------------
(* The logger, and SIGINT. *)

LoggerNext ==
  /\ Runs(Logger) /\ Logger \notin asleep
  /\ \/ ReadLines /\ UNCHANGED procVars
     \/ ReadExit /\ ChildEnds(Logger)
  /\ UNCHANGED <<prog, parentVars, sigVars, backlog, dropped, clientVars, childVars>>

\* kill -INT of the parent, or Ctrl-C, which reaches the whole group.  Once.
Interrupt ==
  /\ LogsByProcess /\ Runs(Main) /\ intr = {} /\ Main \notin asleep
  /\ \E S \in {{Main}, {p \in Proc : Runs(p)}} : intr' = S
  /\ UNCHANGED <<procVars, logVars, prog, parentVars, asleep, backlog, dropped,
                 clientVars, childVars>>

\* Every process has inherited the handler: "exit" into the pipe, sleep(3).
ReadInt(p) ==
  /\ Runs(p) /\ p \in intr
  /\ WritePipe(Exit)
  /\ intr' = intr \ {p}
  /\ asleep' = asleep \cup {p}
  /\ UNCHANGED <<procVars, prog, parentVars, backlog, dropped, clientVars, childVars>>

\* exit(1), which flushes the logger's file.
IntExits(p) ==
  /\ Runs(p) /\ p \in asleep
  /\ IF p = Main THEN ParentExits("end") ELSE ChildEnds(p) /\ UNCHANGED <<main, backlog, dropped>>
  /\ child' = [c \in Conn |-> IF c = p THEN "end" ELSE child[c]]
  /\ IF p = Logger THEN Flush /\ UNCHANGED <<pipe, written, swallowed>> ELSE UNCHANGED logVars
  /\ UNCHANGED <<prog, hand, cur, tab, arr, sigVars, clientVars, copy, taken, first,
                 held, buf, inbox, poked>>

SignalNext == \E p \in Proc : ReadInt(p) \/ IntExits(p)

Next == \/ ParentNext \/ LoggerNext \/ SignalNext \/ Interrupt \/ ClientNext
        \/ \E c \in Conn : ChildNext(c)

Spec == Init /\ [][Next]_vars

\* Every process is scheduled, and a client reads what it waits for; nobody
\* has to type, leave or interrupt.
FairSpec ==
  /\ Spec
  /\ WF_vars(ParentNext) /\ WF_vars(LoggerNext)
  /\ \A c \in Conn : WF_vars(ChildNext(c))
  /\ \A c \in Conn : WF_vars(ReadAnswer(c) /\ ClientNext)
  /\ \A p \in Proc : WF_vars(ReadInt(p) \/ IntExits(p))

-----------------------------------------------------------------------------
(* Properties. *)

\* A child that ended stays a zombie only if its signal is still to come or
\* was merged with another child's: the handler reaps one child per signal.
ZombiesWereMerged ==
  HasHandler /\ Runs(Main) =>
    Cardinality(Zombies) <= merged + (IF pending THEN 1 ELSE 0) + (IF hand THEN 1 ELSE 0)

\* A client hears nothing but what it wrote itself, in order, from the point
\* where the read of its name stopped.  The chat server means to relay, but its
\* two entries are one number, in every child; and it writes all of buf, so
\* that what a client hears there is its own, but not only the rest: its line,
\* behind that its name and its earlier lines, and what nobody wrote.
EchoIsTheRest ==
  \A c \in Conn :
    /\ prog # "chat" =>
         /\ \A k \in 1..Len(inbox[c]) : inbox[c][k] = [from |-> c, n |-> first[c] + k]
         /\ client[c] # "left" => taken[c] = first[c] + Len(inbox[c]) + held[c]
    /\ prog = "chat" =>
         \A k \in 1..Len(inbox[c]) :
           inbox[c][k] = NoUnit \/ (inbox[c][k].from = c /\ inbox[c][k].n <= taken[c])

\* The server ends only when it was told to, or could not start; the one of
\* ch11 also when a client has come and gone.
EndsForACause ==
  main = "end" => IF prog = "ch11" THEN \E c \in Conn : child[c] = "end"
                  ELSE \E k \in 1..Len(written) : written[k] = Exit

\* A logger that ended at "exit" has left all that was written before it in
\* the file, in order.
LogIsComplete ==
  LogsByProcess /\ ~Runs(Logger) /\ Logger \notin asleep =>
    \E k \in 1..Len(written) : written[k] = Exit /\ file = SubSeq(written, 1, k - 1)

\* The logger ends with its server, unless the server could not start or a
\* read took "exit" together with a line before it.
LoggerEnds ==
  ~Runs(Main) ~> ~Runs(Logger) \/ swallowed \/ main = "unstarted"

\* A client that waits for an answer gets one, unless its line was taken for
\* a part of its name or the server closed its connection.
QuestionsAreAnswered ==
  \A c \in Conn :
    client[c] = "asks" ~> client[c] # "asks" \/ first[c] > name[c] \/ c \in dropped
=============================================================================
