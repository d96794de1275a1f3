--------------------------- MODULE ServerDirectory ---------------------------
(***************************************************************************)
(* The directory of chat servers and its clients:                          *)
(*   "sm1122"  ch18/sm1122.c, two ports, two threads per connection, with  *)
(*             ch18/cn1122.c                                               *)
(*   "mserv"   ch18/chat_mserv.c, one port, one thread per connection,     *)
(*             with ch18/chat_clnt.c                                       *)
(* A client is sent two records, "length$ip$port$name$count", and the one  *)
(* of sm1122 answers with the number of a server.  A record is counted in  *)
(* units: its header up to the first "$", and Body units of a body.  TCP   *)
(* may deliver what was written in any pieces.                             *)
(*                                                                         *)
(* The threads of a connection are named by what accept returned for them; *)
(* they serve what clnt_sock holds when they copy it.                      *)
(***************************************************************************)
EXTENDS Integers, Sequences, FiniteSets

CONSTANTS Prog,    \* the programs of the instance
          Conn,    \* connections
          NoConn,  \* what an unused descriptor leads to
          Fd,      \* descriptors of the server
          NoFd,    \* a descriptor not known yet
          Body     \* units of the body of a record

ASSUME DirectoryAssumption ==
  /\ Prog \subseteq {"sm1122", "mserv"}
  /\ NoConn \notin Conn
  /\ NoFd \notin Fd
  /\ Body \in Nat \ {0}

VARIABLES
  prog,     \* the program that runs
  proc,     \* "up", "killed" by SIGPIPE, or "exited" by error_handling
  port,     \* the acceptors: where each of them is
  arg,      \* clnt_sock or sclnt_sock[0], which its acceptor's threads copy
  cur,      \* the connection each acceptor has just accepted
  fdt,      \* the descriptor table
  at,       \* the acceptor whose port each connection is to
  backlog,  \* connections established and not accepted
  writer,   \* handle_clnt of each connection
  wfd,      \* the descriptor it has copied
  chooser,  \* send_msg of each connection
  cfd,      \* the descriptor it has copied
  reads,    \* the connection its read is on
  client,   \* where each client is
  inbox,    \* all units the server wrote to it
  came,     \* how many of them have arrived
  pos,      \* how many it has read
  recv,     \* recvSize
  got,      \* the bodies it has decoded
  chosen,   \* the clients whose choice is on its way
  over,     \* history: a read went past the end of a record
  poked,    \* clients written to after they had gone
  raced     \* history: a thread copied a descriptor that is not its connection's

serverVars == <<proc, port, arg, cur, fdt, backlog>>
threadVars == <<writer, wfd, chooser, cfd, reads>>
clientVars == <<at, client, came, pos, recv, got, over>>
wireVars == <<inbox, chosen, poked>>
vars == <<prog, serverVars, threadVars, clientVars, wireVars, raced>>

Acceptor == {"main", "wait_serv"}
Unit == [rec : 1..2, part : 0..Body, by : Conn]

\* Bytes that were in a buffer of chat_clnt before.
Stale == [rec |-> 0, part |-> 0, by |-> NoConn]

TypeOK ==
  /\ prog \in Prog
  /\ proc \in {"up", "killed", "exited"}
  /\ port \in [Acceptor -> {"boot", "accept", "spawn"}]
  /\ arg \in [Acceptor -> Fd \cup {NoFd}]
  /\ cur \in [Acceptor -> Conn \cup {NoConn}]
  /\ fdt \in [Fd -> Conn \cup {NoConn}]
  /\ backlog \subseteq Conn /\ at \in [Conn -> Acceptor]
  /\ writer \in [Conn -> {"none", "copy", "first", "second", "close", "end"}]
  /\ chooser \in [Conn -> {"none", "copy", "call", "read", "close", "end"}]
  /\ wfd \in [Conn -> Fd \cup {NoFd}] /\ cfd \in [Conn -> Fd \cup {NoFd}]
  /\ reads \in [Conn -> Conn \cup {NoConn}]
  /\ client \in [Conn -> {"new", "header", "body", "choose", "lost", "left"}]
  /\ inbox \in [Conn -> Seq(Unit)]
  /\ came \in [Conn -> Nat] /\ pos \in [Conn -> Nat] /\ recv \in [Conn -> Nat]
  /\ got \in [Conn -> Seq(Seq(Unit \cup {Stale}))]
  /\ chosen \subseteq Conn /\ over \subseteq Conn /\ poked \subseteq Conn
  /\ raced \in BOOLEAN

Init ==
  /\ prog \in Prog
  /\ proc = "up"
  /\ port = [a \in Acceptor |-> IF a = "main" THEN "accept" ELSE "boot"]
  /\ at \in [Conn -> IF prog = "sm1122" THEN Acceptor ELSE {"main"}]
  /\ arg = [a \in Acceptor |-> NoFd]
  /\ cur = [a \in Acceptor |-> NoConn]
  /\ fdt = [f \in Fd |-> NoConn]
  /\ writer = [c \in Conn |-> "none"] /\ chooser = [c \in Conn |-> "none"]
  /\ wfd = [c \in Conn |-> NoFd] /\ cfd = [c \in Conn |-> NoFd]
  /\ reads = [c \in Conn |-> NoConn]
  /\ client = [c \in Conn |-> "new"]
  /\ inbox = [c \in Conn |-> <<>>]
  /\ came = [c \in Conn |-> 0] /\ pos = [c \in Conn |-> 0] /\ recv = [c \in Conn |-> 0]
  /\ got = [c \in Conn |-> <<>>]
  /\ backlog = {} /\ chosen = {} /\ over = {} /\ poked = {}
  /\ raced = FALSE

-----------------------------------------------------------------------------
(* The acceptors. *)

\* bind and listen of the servers' port, in wait_serv.
BootWait ==
  /\ prog = "sm1122" /\ port["wait_serv"] = "boot"
  /\ \/ port' = [port EXCEPT !["wait_serv"] = "accept"] /\ UNCHANGED proc
     \/ proc' = "exited" /\ UNCHANGED port
  /\ UNCHANGED <<arg, cur, fdt, backlog, threadVars>>

At(f) == IF f \in Fd THEN fdt[f] ELSE NoConn
FreeFds == {f \in Fd : fdt[f] = NoConn}

\* accept writes the variable whose address the threads have.  serv_count is
\* never counted up, so that wait_serv has one variable too.
Accept(a) ==
  /\ port[a] = "accept"
  /\ \E c \in Conn, f \in FreeFds :
       /\ c \in backlog /\ at[c] = a
       /\ backlog' = backlog \ {c}
       /\ fdt' = [fdt EXCEPT ![f] = c]
       /\ arg' = [arg EXCEPT ![a] = f]
       /\ cur' = [cur EXCEPT ![a] = c]
  /\ port' = [port EXCEPT ![a] = "spawn"]
  /\ UNCHANGED <<proc, threadVars>>

\* With no descriptor left accept returns -1 at once, whether or not a client is
\* waiting, and writes it there, for threads that have not copied theirs.  The threads started on it are of no connection:
\* what they would do is left out.
AcceptFails(a) ==
  /\ port[a] = "accept" /\ FreeFds = {}
  /\ arg' = [arg EXCEPT ![a] = NoFd]
  /\ UNCHANGED <<proc, port, cur, fdt, backlog, threadVars>>

Spawn(a) ==
  /\ port[a] = "spawn"
  /\ writer' = [writer EXCEPT ![cur[a]] = "copy"]
  /\ chooser' = IF prog = "sm1122" THEN [chooser EXCEPT ![cur[a]] = "copy"] ELSE chooser
  /\ port' = [port EXCEPT ![a] = "accept"]
  /\ UNCHANGED <<proc, arg, cur, fdt, backlog, wfd, cfd, reads>>

AcceptorNext ==
  /\ BootWait \/ \E a \in Acceptor : Accept(a) \/ AcceptFails(a) \/ Spawn(a)
  /\ UNCHANGED <<prog, clientVars, wireVars, raced>>

-----------------------------------------------------------------------------
(* The threads. *)

Record(c, k) == [i \in 1..Body + 1 |-> [rec |-> k, part |-> i - 1, by |-> c]]

Goto(c, pc) == writer' = [writer EXCEPT ![c] = pc]

\* int clnt_sock = *((int*)arg), in either thread.
CopyToWriter(c) ==
  /\ writer[c] = "copy"
  /\ Goto(c, "first")
  /\ wfd' = [wfd EXCEPT ![c] = arg[at[c]]]
  /\ raced' = (raced \/ At(arg[at[c]]) # c)
  /\ UNCHANGED <<serverVars, chooser, cfd, reads, wireVars>>

CopyToChooser(c) ==
  /\ chooser[c] = "copy"
  /\ chooser' = [chooser EXCEPT ![c] = "call"]
  /\ cfd' = [cfd EXCEPT ![c] = arg[at[c]]]
  /\ raced' = (raced \/ At(arg[at[c]]) # c)
  /\ UNCHANGED <<serverVars, writer, wfd, reads, wireVars>>

\* Variant: handle_clnt closes the descriptor as it does in chat_mserv.c.
ClosesToo(c) == IF writer[c] = "first" THEN "second" ELSE "close"

\* handle_clnt of sm1122 leaves the close to send_msg.
AfterWrite(c) ==
  IF writer[c] = "first" THEN "second" ELSE IF prog = "mserv" THEN "close" ELSE "end"

\* A record is written, to whatever the descriptor leads to now.
WriteRecord(c) ==
  /\ writer[c] \in {"first", "second"}
  /\ LET t == At(wfd[c])
         k == IF writer[c] = "first" THEN 1 ELSE 2
     IN \/ /\ inbox' = [d \in Conn |-> IF d = t /\ client[d] # "left"
                                       THEN inbox[d] \o Record(c, k) ELSE inbox[d]]
           /\ poked' = IF t \in Conn /\ client[t] = "left" THEN poked \cup {t} ELSE poked
           /\ UNCHANGED proc
        \/ /\ t \in poked
           /\ proc' = "killed"
           /\ UNCHANGED <<inbox, poked>>
  /\ Goto(c, AfterWrite(c))
  /\ UNCHANGED <<port, arg, cur, fdt, backlog, wfd, chooser, cfd, reads, chosen, raced>>

CloseFd(f) == fdt' = IF f \in Fd THEN [fdt EXCEPT ![f] = NoConn] ELSE fdt

\* close(clnt_sock) of chat_mserv's handle_clnt.
CloseInWriter(c) ==
  /\ writer[c] = "close"
  /\ CloseFd(wfd[c])
  /\ Goto(c, "end")
  /\ UNCHANGED <<proc, port, arg, cur, backlog, wfd, chooser, cfd, reads, wireVars, raced>>

\* read(clnt_sock, &num, 4): the call holds the connection it is made for.
CallRead(c) ==
  /\ chooser[c] = "call"
  /\ reads' = [reads EXCEPT ![c] = At(cfd[c])]
  /\ chooser' = [chooser EXCEPT ![c] = IF At(cfd[c]) = NoConn THEN "close" ELSE "read"]
  /\ UNCHANGED <<serverVars, writer, wfd, cfd, wireVars, raced>>

\* It returns with the choice, or when the client has gone.
ReadReturns(c) ==
  /\ chooser[c] = "read"
  /\ reads[c] \in chosen \/ client[reads[c]] = "left"
  /\ chosen' = chosen \ {reads[c]}
  /\ reads' = [reads EXCEPT ![c] = NoConn]
  /\ chooser' = [chooser EXCEPT ![c] = "close"]
  /\ UNCHANGED <<serverVars, writer, wfd, cfd, inbox, poked, raced>>

\* close(clnt_sock), whatever the number leads to by now.
CloseInChooser(c) ==
  /\ chooser[c] = "close"
  /\ CloseFd(cfd[c])
  /\ chooser' = [chooser EXCEPT ![c] = "end"]
  /\ UNCHANGED <<proc, port, arg, cur, backlog, writer, wfd, cfd, reads, wireVars, raced>>

ThreadNext(c) ==
  /\ \/ CopyToWriter(c) \/ WriteRecord(c) \/ CloseInWriter(c)
     \/ CopyToChooser(c) \/ CallRead(c) \/ ReadReturns(c) \/ CloseInChooser(c)
  /\ UNCHANGED <<prog, clientVars>>

-----------------------------------------------------------------------------
(* The clients. *)

Connect(c) ==
  /\ client[c] = "new" /\ port[at[c]] # "boot"
  /\ client' = [client EXCEPT ![c] = "header"]
  /\ backlog' = backlog \cup {c}
  /\ UNCHANGED <<came, pos, recv, got, over, chosen>>

\* The network: some more of what was written arrives.
Arrive(c) ==
  /\ \E n \in came[c] + 1..Len(inbox[c]) : came' = [came EXCEPT ![c] = n]
  /\ UNCHANGED <<client, pos, recv, got, over, chosen, backlog>>

Available(c) == came[c] - pos[c]
Next1(c) == inbox[c][pos[c] + 1]

\* No descriptor and no call of the server holds the connection any more.
ServerClosed(c) ==
  /\ writer[c] # "none"
  /\ \A f \in Fd : fdt[f] # c
  /\ \A d \in Conn : reads[d] # c

AtEof(c) == pos[c] = Len(inbox[c]) /\ (ServerClosed(c) \/ proc # "up")

\* The bytes up to "$" are read one by one.  Three bytes of anything else, and
\* the client has lost its place.
ReadHeader(c) ==
  /\ client[c] = "header" /\ Available(c) > 0
  /\ pos' = [pos EXCEPT ![c] = @ + 1]
  /\ client' = [client EXCEPT ![c] = IF Next1(c).part = 0 THEN "body" ELSE "lost"]
  /\ recv' = [recv EXCEPT ![c] = 0]
  /\ UNCHANGED <<came, got, over, chosen, backlog>>

\* What a text is taken for: cn1122 ends it with a 0, chat_clnt does not, and
\* finds what was in sinfo behind it.
TextsOf(u) == IF prog = "mserv" THEN {u, Append(u, Stale)} ELSE {u}

\* for(k=0;k<2;k++)
AfterBody(c) == IF Len(got[c]) = 0 THEN "header" ELSE "choose"

\* At the end of the input a read leaves the byte as it was.  cn1122 has a "$"
\* there from the first header and takes the second for a length of 0;
\* chat_clnt has the first byte of a body there and reads for ever.  Before
\* the first header it is any byte, which stays what it is.
NoBodyYet(c) == \A i \in 1..Len(got[c]) : got[c][i] \in TextsOf(<<>>)
TakesNothing(c) == prog = "sm1122" \/ NoBodyYet(c)
ReadsForEver(c) == got[c] = <<>> \/ (prog = "mserv" /\ ~NoBodyYet(c))

HeaderCutOff(c) ==
  /\ client[c] = "header" /\ AtEof(c)
  /\ \/ /\ TakesNothing(c)
        /\ \E u \in TextsOf(<<>>) : got' = [got EXCEPT ![c] = Append(@, u)]
        /\ client' = [client EXCEPT ![c] = AfterBody(c)]
     \/ /\ ReadsForEver(c)
        /\ client' = [client EXCEPT ![c] = "lost"]
        /\ UNCHANGED got
  /\ recv' = [recv EXCEPT ![c] = 0]
  /\ UNCHANGED <<came, pos, over, chosen, backlog>>

\* read(sock, &name_msg[recvSize], str_len): all of the length, every time.
Asked(c) == Body

\* Variant: the body is taken for complete one unit too early.
NearlyComplete(r) == r >= Body - 1

\* while(recvSize < str_len)
Complete(r) == r >= Body

\* Variant: every read goes to the beginning of name_msg.
LastPiece(c, r) == SubSeq(inbox[c], pos[c] + 1, pos'[c])

\* name_msg[str_len] = 0 cuts off what was read past the end of the body, in
\* cn1122.
Decoded(c, r) ==
  SubSeq(inbox[c], pos'[c] - r + 1, IF prog = "mserv" THEN pos'[c] ELSE pos'[c] - r + Body)

ReadBody(c) ==
  /\ client[c] = "body"
  /\ Available(c) > 0
  /\ LET n == IF Available(c) < Asked(c) THEN Available(c) ELSE Asked(c)
         r == recv[c] + n
     IN /\ pos' = [pos EXCEPT ![c] = @ + n]
        /\ recv' = [recv EXCEPT ![c] = r]
        /\ over' = IF r > Body THEN over \cup {c} ELSE over
        /\ IF Complete(r)
           THEN /\ \E u \in TextsOf(Decoded(c, r)) : got' = [got EXCEPT ![c] = Append(@, u)]
                /\ client' = [client EXCEPT ![c] = AfterBody(c)]
           ELSE UNCHANGED <<got, client>>
  /\ UNCHANGED <<came, chosen, backlog>>

\* read returns 0 at the end, and the loop goes round for ever.
BodyCutOff(c) ==
  /\ client[c] = "body" /\ Available(c) = 0 /\ AtEof(c)
  /\ client' = [client EXCEPT ![c] = "lost"]
  /\ UNCHANGED <<came, pos, recv, got, over, chosen, backlog>>

\* cn1122 writes its choice and closes; chat_clnt has done.
Choose(c) ==
  /\ client[c] = "choose"
  /\ chosen' = IF prog = "sm1122" THEN chosen \cup {c} ELSE chosen
  /\ client' = [client EXCEPT ![c] = "left"]
  /\ UNCHANGED <<came, pos, recv, got, over, backlog>>

\* The client is killed, or was lost and got out of its loops somehow.
Die(c) ==
  /\ client[c] \notin {"new", "left"}
  /\ client' = [client EXCEPT ![c] = "left"]
  /\ UNCHANGED <<came, pos, recv, got, over, chosen, backlog>>

ClientStep(c) ==
  \/ Arrive(c) \/ ReadHeader(c) \/ HeaderCutOff(c) \/ ReadBody(c) \/ BodyCutOff(c)

ClientNext(c) ==
  /\ Connect(c) \/ ClientStep(c) \/ Choose(c) \/ Die(c)
  /\ UNCHANGED <<prog, at, proc, port, arg, cur, fdt, threadVars, inbox, poked, raced>>

Next ==
  \/ proc = "up" /\ (AcceptorNext \/ \E c \in Conn : ThreadNext(c))
  \/ \E c \in Conn : ClientNext(c)

Spec == Init /\ [][Next]_vars

\* The server's threads are scheduled, what is written arrives, and a client
\* reads; it need not choose, and accept need not fail.
FairSpec ==
  /\ Spec
  /\ WF_vars(proc = "up" /\ AcceptorNext /\ ~\E a \in Acceptor : AcceptFails(a))
  /\ \A c \in Conn : WF_vars(proc = "up" /\ ThreadNext(c)) /\ WF_vars(ClientStep(c) /\ ClientNext(c))

-----------------------------------------------------------------------------
(* Properties. *)

Whole == 2 * (Body + 1)
LeftEarly == \E c \in Conn : client[c] = "left" /\ Len(inbox[c]) < Whole
OwnRecords(c) == Record(c, 1) \o Record(c, 2)

Written(c) ==
  CASE writer[c] \in {"none", "copy", "first"} -> 0
    [] writer[c] = "second" -> 1
    [] OTHER -> 2

\* A client is sent what its thread writes, all of it and nothing else,
\* although one thread closes the descriptor that another writes to: records
\* go astray only if a thread copied the wrong descriptor, or if a client left
\* before it was sent all, when its descriptor is closed, maybe opened for
\* another client, and then written to.
StraysHaveACause ==
  raced \/ LeftEarly
    \/ \A c \in Conn : inbox[c] = SubSeq(OwnRecords(c), 1, Written(c) * (Body + 1))

\* What a client takes for the body of a record is the body of a record, to
\* which chat_clnt adds what its buffer held, as long as none of its reads went
\* past the end of one.  It takes nothing for a body only when the server is no
\* more or a thread copied the wrong descriptor: no thread closes a connection
\* whose client is still owed a record.
DecodedWhole ==
  \A c \in Conn \ over : \A i \in 1..Len(got[c]) :
    \/ \E k \in 1..2, d \in Conn : got[c][i] \in TextsOf(Tail(Record(d, k)))
    \/ got[c][i] \in TextsOf(<<>>) /\ (raced \/ proc # "up")

\* A client that stays gets as far as choosing, unless a record reached it in
\* pieces and a read went past its end, records went astray, or the server is
\* no more.
PatientClientsChoose ==
  \A c \in Conn :
    client[c] = "header" ~>
      \/ client[c] \in {"choose", "left"} \/ c \in over
      \/ raced \/ LeftEarly \/ proc # "up"
=============================================================================
