# Net_Linux, specified in TLA+

The repository is a course in Linux network programming: some thirty small
servers and their clients, from an iterative echo server to threaded chat
rooms, a help desk with a record file, and servers built on `fork`, `select`
and `epoll`.  There are no tests.  What the programs share is concurrency over
sockets, and that is what these specifications are about.

## 1. The system and its parts

| part | source | state | operations | who it talks to |
|---|---|---|---|---|
| broadcast chat server | `ch18/chat_sserv.c`, `sn1122.c` (same program) | `clnt_socks`, `clnt_cnt` under `mutx`; main's `clnt_sock`; one thread per client | accept and enlist, relay, unlist and close | chat clients over TCP |
| chat room server | `ch18/chatroom_serv.c` | as above, a room per entry, the table `ri` of rooms | list rooms, enter, name a room, relay within a room, leave | `chatroom_clnt.c` |
| server directory | `ch18/sm1122.c`, `chat_mserv.c` | two acceptors, the variables their threads copy, the descriptor table | send the table as framed records, take a choice | `cn1122.c`, `chat_clnt.c` |
| help desk | `Project/mainserver.c`, `client.c`, `log.txt` | the record file, each thread's stdio buffer, `fmutex` | ask the role, register, search | its client |
| epoll echo server | `ch17/11.c`, client `22.c` | epoll set, non-blocking listening socket | accept on an edge, echo, close | echo clients |
| select servers | `ch12/select_server.c`, `quiz2/selectS.c`, `quiz2/answer/selectS.c`, `quiz2/select_server.c` | `reads`, the scan's copy of it | accept, greet, echo, close | echo and quiz clients |
| fork servers | `ch10/echo_server_mp.c`, `ch11/echo_server_mp.c`, `ch11/mp_commu_server.c`, `ch11/chat_mp_server.c`, `kakao_test/kakao_mp_server.c` | children, pending SIGCHLD, the pipe to a logger, a pair of clients | fork per client, reap, log, echo or relay, stop on SIGINT | echo clients, each other through signals and the pipe |
| servers that serve in turn | `ch05/op_server.c`, `assignment2/tcp_server.c`, `ch04/tcp_ser_src.c`, `kakao_test/kakao_server.c` | the place in the stream, `opnd_cnt`, `recv_len` | read a count or a length, then that much; answer; next client | their clients |
| datagram programs | `ch06` | `clnt_adr`, `message` | lock-step question and answer | each other |
| threads and semaphores | `ch18/sync/semaphore.c` | `num`, two semaphores | hand over, add | threads of one process |
| file transfer, hello | `ch01`-`ch03`, `tmp1`, `tmp2` | a file descriptor | copy | their clients |
| exercises | `ch18/thread`, `ch18/sync/mutex.c`, `ch10` demos | a shared counter, a child | count, wait | - |
| neural network | `AI/EBA.c`, `EBA.cpp` | weights (floating point) | train | nobody |

### How the parts interact

Every server is one process or a family of them; its clients are other
processes, and the two share nothing but TCP connections (datagrams in `ch06`).
Inside a server there is shared state of four kinds: globals under a mutex
(`clnt_socks` and `clnt_cnt` under `mutx`, `log.txt` under `fmutex`); the
descriptor table of the kernel, which every thread uses without a lock; the
variable `clnt_sock` of `main`, whose address each new thread is handed; and,
between the processes of the fork servers, what a child copied at its fork, the
pipe to the logger, and signals.  Calls between components are the socket
calls; the only callbacks are the signal handlers `read_childproc` and
`read_int` of the fork servers, which interrupt `accept`.

### What is hard about it

* *Interleaving.*  A thread is started with the address of a variable that the
  next `accept` overwrites.  Main, the relays and the removals interleave at
  every call that blocks; in the directory two threads of one connection share
  a descriptor that only one of them closes.
* *Identity by descriptor.*  Senders, list entries and events are told apart by
  descriptor, and descriptors are closed and reused while others still hold
  the number.  A forked child holds the numbers of its parent.
* *Signals.*  A pending SIGCHLD is one however many children have ended, and the
  handler reaps one.  A handler makes `accept` fail.  Ctrl-C reaches every
  process, and every process has inherited the handler.
* *Buffers and framing.*  `write` blocks with the mutex held; a record
  registered at the help desk is in a stdio buffer when the client is told that
  it is complete; a read returns any part of what was written, or two writes.
* *Failure.*  A client may be gone at any call.  The first write to it provokes
  a reset, a later one raises SIGPIPE, which no program handles.  `accept`,
  `fork` and `bind` fail, and it is not always looked at.  Datagrams are lost,
  doubled and overtaken.
* *Edges.*  One epoll event may stand for several connections.
* *Liveness.*  Servers wait on clients: for a role, for room in a buffer, for
  the end of a line, for the client whose turn it is.

`PROJECT.json` lists the hazards one by one, each at its line, with the
properties that watch it or the reason why none does.

### What makes each part correct

* Chat server: every message reaches every other client present, once, in one
  order for all, and its own sender never; the list holds exactly the clients
  that are served; departed clients leave no descriptor behind.
* Room server: the list is exact; who has entered a room hears that room and
  all of it; a line stays within the room.
* Directory: a client is sent its records and no other's, and decodes what was
  sent however the stream is cut.
* Help desk: what a client was told is registered is in the file; a search
  finds what was there; the two programs never misread each other.
* Echo servers, on epoll, on select and forked: every client is accepted and
  gets its own bytes back, exactly; a bit or an event is never used for the
  wrong client.
* Fork servers: no child stays a zombie for good; the server survives the end
  of a child; every log line written before "exit" is in the log; the logger
  ends with its server.
* Servers in turn: an answer is made of its question alone; nobody's departure
  costs the others their turn.
* Datagrams: question and answer stay paired.
* Hand-off: each number is added once; both threads finish.

Where the code falls short of these, the properties say by how much: they name
the circumstances in which it does (`ZombiesWereMerged`, `StraysHaveACause`,
the `EndsForACause` of three modules), and TLC checks that there are no others.

## 2. The modules

| module | models | uses |
|---|---|---|
| `Sockets` | connections, descriptors, `accept`, `read`, `write`, `close`, resets, SIGPIPE; the chat client | |
| `ChatServer` | `chat_sserv.c` | extends `Sockets`, instantiates `ChatRoom` |
| `ChatRoom` | the abstract specification of a chat room | |
| `EchoService` | the abstract specification of an echo server | |
| `EpollEcho` | `ch17/11.c`, `22.c` | extends `Sockets`, instantiates `EchoService` |
| `SelectEcho` | the four servers on `select` | extends `Sockets`, instantiates `EchoService` |
| `Processes` | processes, SIGCHLD, `waitpid` | |
| `LogPipe` | the pipe, the logger and its file | |
| `ForkServer` | the five forking servers and their clients | extends `Processes` and `LogPipe` |
| `ServerDirectory` | `sm1122.c` with `cn1122.c`, `chat_mserv.c` with `chat_clnt.c` | |
| `RoomServer` | `chatroom_serv.c`, `chatroom_clnt.c` | |
| `HelpDesk` | `Project/mainserver.c`, `client.c` | |
| `TurnServer` | the four servers that serve in turn, and their clients | |
| `DatagramTalk` | the two pairs of programs of `ch06` | |
| `Handoff` | `ch18/sync/semaphore.c` | |
| `ChatServerProofs`, `SelectEchoProofs`, `ForkServerProofs`, `ServerDirectoryProofs`, `HelpDeskProofs`, `TurnServerProofs` | theorems and their proofs | extends the module of the name, TLAPS |
| `LineEchoProofs` | theorems about `EpollEcho` and `DatagramTalk` | extends both, TLAPS |
| `LockProofs` | theorems about `RoomServer` and `Handoff` | extends both, TLAPS |
| `MCChat`, `MCEpoll`, `MCSelect`, `MCFork`, `MCDirectory`, `MCRoom`, `MCHelpDesk`, `MCTurn`, `MCDatagram`, `MCHandoff` | instances for TLC: symmetry and bounds | |

Several modules stand for a family of programs that share their loop.  There a
variable `prog`, chosen in `Init` and never changed, says which program runs,
and the guards say where the programs differ.

One module of proofs can extend two components only if they share no name:
`DatagramTalk` calls its specification `TalkSpec` (`TalkInit`, `TalkNext`,
`TalkTypeOK`), `Handoff` calls it `SemSpec`.

### Sockets

What the server can tell of a client is `peer[c]`: "new", "open", then "fin"
(closed in good order), "poked" (closed, and an answer to it is on its way),
"reset" (a reset that no call has reported) and "rst".  The last two differ
because `read` reports a reset once, and a write to a connection in "rst" is
the one that raises SIGPIPE.  `fdt` is the descriptor table; a closed
descriptor leads to `NoConn`.  `sent`, `taken`, `inbox` and `unread` are the
stream in both directions, one element for each read's worth.  What a stream
may do to message boundaries is the subject of `ServerDirectory`, `TurnServer`
and, for the name and the log, `ForkServer`.  `SndBuf` bounds what an unread
connection holds: a write to a full one waits.  The kernel's side is external;
it is modelled as far as these programs can see it.

### ChatServer and ChatRoom

The steps are cut where another thread can come between: each `read`, `write`,
`close`, `accept`, lock and unlock.  `Enlist` and `Unlist` are whole critical
sections in one step, because everything that touches the list holds `mutx`;
`send_msg` is cut up, because it blocks in `write` while it holds the mutex
(`Lock`, `SendNext`, `Unlock`).  `read` is two steps (`ReadCall`,
`ReadReturns`): a thread blocked in `read` stays with its connection though
another thread closes the descriptor.

`Spec` is the program as it stands.  `Start` copies `*arg` whenever the
scheduler lets it, so two threads may serve one descriptor.  `SpacedSpec` adds
one assumption, `Spaced`: a thread has copied its argument before the next
`accept` returns.  Properties that hold only then are stated under `SpacedSpec`,
and the run `chat_race_loses` shows what becomes of one without it.

`ChatRoom` says what a room is: members join, say something, hear what is said
in order, leave when they have hung up.  `ChatServer` implements it (`RoomSpec`)
under the mapping room = the connections listed, said = the order in which
relays locked `mutx`, heard = everything written to a client, owed = the rest of
the relay under way.

### EchoService, EpollEcho, SelectEcho

`EchoService` is what an echo server promises whatever it waits with: a client
writes pieces, and is sent the next of its own pieces, once.  Both servers
implement it under the identity on `sent`, with `echoed` = `inbox` (less the
greeting of `quiz2/selectS.c`).

`EpollEcho` is one thread: `Wait`, then one event at a time (`HandleListen`,
`HandleRead`, `Echo`).  `edge` is the ready bit of the edge-triggered listening
socket, which connections set and `Wait` clears; the connections are
level-triggered, so `Ready` is computed from their state.  `missed` counts the
connections for which no event will come: those that found the edge already
set, and those whose `accept` failed for lack of a descriptor.

`SelectEcho` is one thread too: `Select` leaves in `copy` the bits that are
ready, and `Turn(f)` lets the scan come to them from the lowest number up, which
is why a bit may belong to a descriptor that the same scan has closed, or
opened.  `HandleListen`, `AcceptFails` (whose `FD_SET(-1)` is undefined: without
effect, or an abort), `HandleRead`, `WriteOut` are the branches.  The programs
differ in what accepting a client leads to (`Accepted`: a greeting, or the quiz
server's write to its *listening* socket, which kills it) and in `AfterError`
(the header loop of `quiz2/selectS.c`, which never ends after a -1).

In both, `long` records which connections had a line of more than one read:
only their resets can kill the server, since it takes a second write to a
closed peer.

### Processes, LogPipe, ForkServer

`Processes` keeps `life` of each process, whether a SIGCHLD is `pending`, and
`merged`, the ends that raised one already pending.  `LogPipe` has the `pipe`
as the sequence of writes that one read may take together, the stdio buffer
`fbuf` and the `file`.  `SaysExit` is the logger's
`strcmp(msgbuf, "exit") == 0`: only an "exit" at the head of what was read ends
the loop, one behind a line is `swallowed`.

`ForkServer` has the parent's loop (`Boot`, `Accept`, `AcceptFailed`, `Fork`,
`CloseData`), the handlers (`TakeChld`, `Reap`; `Interrupt`, `ReadInt`,
`IntExits`), one child per connection (`Hello`, `ReadName`, `LogName`,
`ReadLine`, `WriteBack`, `EndOfClient`, `AnswerMap`), the logger, and the
clients.  `copy[c]` is the parent's descriptor table and `clnt_sock_arr` as the
child found them.  `TakeChld` may make a sleeping `accept` fail, since
`sa_flags` is 0; `ch11/echo_server_mp.c` ends then, the others go on.  Names and
lines are counted in units, so that the read of ten bytes for the name
(`ReadTen`) may take a part of it, or of the line behind it.  `buf` is the
child's array of `BufUnits` units: a read overwrites its beginning (`Filled`),
and what is behind stays.  The others write back what they read; the chat
server writes the whole array (`HeldUnits`), so that a client hears its line
and, behind it, its name, earlier lines, or what nobody wrote (`NoUnit`).

### ServerDirectory

A record is a header unit (the length up to "$") and `Body` units; `came` is how
much of what was written has arrived, `pos` how much was read.  The client's
loop is `ReadHeader`, which loses its place if it does not find a header, and
`ReadBody`, which asks for the whole length every time (`Asked`) and so may run
`over` into the next record.  At the end of the input a read leaves `ch` as it
was (`HeaderCutOff`): cn1122 has the "$" of the first header there and takes the
second for a length of 0, so that it goes on with an empty body; chat_clnt has a
byte of a body and reads for ever; before the first header it is any byte.
chat_clnt does not end the text it read, so that what it takes for a body may
have old bytes of its buffer behind it (`Stale`, `TextsOf`).  On the server's
side each connection has the threads `writer` (`handle_clnt`) and `chooser`
(`send_msg`) that copy `arg` on their own (`raced` if it was not their
connection's any more); in sm1122 the chooser closes the descriptor, whoever it
leads to by then.  `AcceptFails` stores accept's -1 where such threads look. 
`chat_clnt.c` joins a thread that was never created, which is why its client may
end early (`Die`).

### TurnServer

What a client writes at once is a frame of units, header and body; `stream` has
the frames of each client one behind the other.  A read returns some of the
units that are written and not `taken`, so `ReadHead` and `ReadBody` choose how
many.  `inbox` has the answers as they were written, `echoes` their units
without the bounds between them, which TCP does not keep either.
`proc` says how a server ended: "done", "exited" (`error_handling`), "killed",
"spins" (the loop at the end of the input), or "lost" (what it takes for a
length is none).  `NextClient`, `NextRound` and `EndOfEcho` are the three ways
to go on.

kakao's `intarr` is declared once and never cleared: `buf` keeps what earlier
clients wrote behind what the last read overwrote (`Stored`, `Emptied`), and
`kept` says what its first number comes to.  Each answer divides the number by
32 (`Halved`), and C divides towards zero, so that every negative number is -1
after enough answers: `first` of a client is 1 when it sends -1, k + 1 when what
it sends is -1 after k answers, and 0 when it never is.  `Stopped` looks at
`kept`, as the program does at `intarr[0]`, whoever the number is from.

A client of string that reads a length in two pieces leaves units of an answer
unread and takes those for the next length: it is `behind` for good, and goes on
to its next round without its answer (`ReadLeftover`) or waits for bytes that
never come.

### DatagramTalk

`toServer` and `toClient` hold the datagrams on their way; `Lose`, `Double` and
receiving any but the first are the network's faults, and `lost`, `twice` and
`overtaken` remember them.  `adr` is `clnt_adr`, one variable for all clients.
`SendBack` changes nothing: the `sendto` of `chat_client.c:41` is given the
address of the length for the length, and fails.

### RoomServer

Takes for granted what ChatServer is about (arguments are copied in time, a
write is a read) and so can call threads and descriptors by connection.  Its
own subjects are the room of an entry, which `Enlist` leaves as it finds it,
and the removal, whose `clnt_socks[i][1] = clnt_socks[++i][1]` has no sequence
point: `lhsFirst` is chosen once, like a compiler does, and decides whether the
rooms move with the descriptors.  The shift also copies the entry at `clnt_cnt`,
which of a full list lies behind the array: its room is any (`Behind`), and
`wasFull` remembers that this may have happened.  `memcount` is incremented only
when positive and therefore never.  Reads return nothing but lines and the end.

### HelpDesk

A thread's stdio stream is `at`, `buf`, `pend`: position, read buffer and the
record to be written with the slot `fseek` found.  `Register` fills `pend`
under `fmutex`, `Reply` answers, `CloseLog` is the `fclose` that writes it.
Records have one length, so a late `fclose` replaces a record or appends one.
`Scan` is one `fgets`; the file may grow between two of them.  `cpc` is where
the client program is, and every frame bears what the server meant it to be, so
that `InStep` can say the client takes it for that.

The client compares a role with "1" and "2" (`client.c:53`, `119`) where the
server converts it (`mainserver.c:75`), and it converts the whole of a choice
where the server reads four bytes of it (`mainserver.c:178`).  A text is
therefore right for both, wrong for both (`TypeWrong`), or one that they read
differently (`TypeOdd`): "01" and "1x" as roles, "00001" as a choice.  After one
of those, or after a text typed behind another that the server has not read yet,
client and thread take bytes for something else than the other has written,
lengths too.  `GoAstray` then empties both directions, and from there on any
read of the two may find anything, or wait (`Arrived`, `Texts`); a length that
is none may end the process (`Lengthless`).

### Handoff

Two threads, two semaphores, `num` unprotected between `sem_wait` and
`sem_post`.  `Scan` may leave `num` as it is, since the result of `scanf` is not
looked at.

## 3. What TLC checks

| run | instance | states | shows |
|---|---|---|---|
| `chat_race` | `Spec`; 3 clients, 3 descriptors, 4 threads, list of 3; one client writes at most 2 messages, one hangs up | 1,539,755 | `clnt_cnt` is exact although the decrement is unconditional (`Accounting`); one order for all (`SameOrder`), in spite of the race |
| `chat_spaced` | `FairSpec` over `SpacedSpec`; 3 clients, 3 threads; at most 2 messages by all, 1 hang-up | 623,592 | the list is exact and one thread holds each descriptor (`Directory`), `ChatRoom` is implemented (`RoomSpec`), every message is relayed and every departed client let go (`EverybodyIsServed`) |
| `chat_race_loses` | `Spec` | - | a violation: with the race a client present misses a message (`SendToAll`) |
| `epoll` | `FairSpec`; 3 clients, 2 descriptors, 3 pieces, lines of 1 or 2; two may leave | 201,009 | `EchoService` is implemented, pieces of accepted clients come back, a client is accepted unless its edge was missed, short lines do not kill the server |
| `select` | `FairSpec`; 4 programs, 3 clients, 2 descriptors, 3 pieces, lines of 1 or 2; two may leave | 206,651 | `EchoService` is implemented, every client is accepted while a descriptor is free, the servers end for the causes named only |
| `fork` | `FairSpec`; 5 programs, 2 clients, 3 descriptors, 2 to 4 units, a `buf` of 3 | 439,355 | zombies are merged signals, a client hears its own stream only (from the chat server what was left in `buf` too), the parent ends for a cause, the log is complete up to "exit", the logger ends, questions are answered |
| `directory` | `FairSpec`; 2 programs, 2 clients, 2 descriptors, bodies of 2 units | 533,176 | records go astray and bodies are misread for the causes named only; patient clients get to choose |
| `room` | `Spec`; 3 clients, 2 rooms, list of 3; one talks, one leaves | 3,060,159 | the list is exact under both readings of the shift; rooms are kept apart when rooms move with descriptors; who has entered none hears room 0 only |
| `desk` | `FairSpec`; 3 clients, 2 ids, buffer of 1 record, 1 wrong or odd text | 825,650 | the two programs stay in step unless a text is read differently; what is lost was lost to an overlap or to the server's death before `fclose`; searches are complete; the server dies only of a client that left or went astray; whoever waits is served, unless a user who types no role keeps `main` |
| `turn` | `FairSpec`; 4 programs, 3 clients, 2 turns and rounds, counts up to 2, 1 division | 768,427 | answers are made of one's own frame; the servers end, spin, die, or lose their place for the causes named only; who asked is answered unless an idle client holds the server |
| `datagram` | `FairSpec`; 2 programs, 3 clients, 2 lines each, one datagram lost and one doubled | 273,229 | which echoes may differ from their lines, and when a client waits for ever |
| `handoff` | `FairSpec`; 5 rounds, the number of the program | 379 | nothing lost, both finish |

A theorem establishes the type invariant of every module.  The runs check those
of `HelpDesk`, `RoomServer` and `TurnServer` as well and leave the others to the
proofs.

### The bounds and why they are enough

Three clients are the fewest with which a broadcast has an order to disagree
on (a sender and two hearers) and a list a middle to remove from; the fourth
thread of `chat_race` serves an accept without a descriptor, and a list of
three overflows.  With two messages one can be in a relay while the other is
read; one client hanging up lets its number be reused by the third.  Buffers of
one message make writes block.  Under the race the messages that two of three
clients both see are the third one's, relayed by two threads on its connection:
so one client that writes is enough for `SameOrder` there.

The servers on epoll and select with fewer descriptors than clients meet EMFILE
and reuse; lines of two pieces and a total of three let a short line follow a
long one; with two clients leaving, one descriptor is closed and opened again
within one batch or scan.

In `fork`, two children can end together, which merges their signals, or one end
while the handler runs for the other, and they are a pair for the chat server. 
Client 1 of `ch11` has up to four units, so that the read of its name (two units
of ten bytes) takes less than the name, all of it, or a line too; the others
have a name and a line.  A `buf` of three units holds a name and a line, and a
shorter line leaves something of both behind it.  `MCFork`'s `Bounds` looks at
each of the two servers with a logger for what the other does not have: the chat
server without SIGINT, and `mp_commu_server.c` with SIGINT and clients that
stay; there is one SIGINT, to the parent or to the group.

In `directory`, a body of two units can come whole, in halves, and with the next
header behind it; two clients and two descriptors let a descriptor that is
closed be opened for the other client while a thread still writes to it.  Only
one client dies and only what is written to it comes in pieces (`LowestFirst` of
`MCDirectory`).  Behaviours are followed up to the step of the race
(`NotRaced`): after it only `DecodedWhole` says anything, and that is proved. 
Two clients that stay use up both descriptors, and `accept` fails; it is
followed up where a thread has not copied its argument yet (`FailsUnderACopy`),
since otherwise the -1 is overwritten before anybody looks at it.

In `room`, one client talks, one leaves and one stays or arrives, and clients
choose between two rooms and none: the least that shows a slot passed on; a
client writes when its last line has been read.  In `desk`, three threads allow
two registrations to overlap while a third one overwrites or searches; a buffer
of one record makes every search refill; `Roles` of `MCHelpDesk` gives client 1
the part of the helper, 3 that of the searcher, and 2 every freedom; when 2 goes
astray, after which it may do anything at any time, one of the other two is
there, the one or the other.

In `turn`, frames of up to four units are cut in every way, and one division
brings a number down to -1 (`Halvings`; six in the code's 32 bits), so that a
client's number, another's answer and a third one's departure end kakao; the
third client is the one whose turn has not come (with the echo server there are
two clients, `Bounds` of `MCTurn`, since its lines are read in every possible
way).  In `datagram`, three clients let a late datagram of one meet the exchange
of another.  `handoff` is the program's own size.

Every bound is a constant of the module, a constraint named in an MC module, or
a guard commented as a bound.  `LowestFirst` takes connections and descriptors
in order where constants are numbers: it stands for symmetry, which TLC cannot
use with liveness.

`CHECK_DEADLOCK` is off everywhere: the programs stop when the clients are done
or the process has died.  Where they should not stop before that, a liveness
property says so.

### Fairness

Each `FairSpec` asks that a process or a thread that can run does: weak fairness
for each of them, which Linux provides.  Where a server blocks on its clients it
promises nothing without clients that read, and fairness is asked of the reading
that the client programs do by themselves (`ClientRecv`, `ReadAnswer`,
`ClientStep`, `Program`, `Read`).  No user has to connect, type, leave or
interrupt, and the kernel may keep a reset back for ever: where a server waits
for a user, as `main` of the help desk for a role, the property names the idle
user as its excuse (`Held`).  Nothing is asked of a client of the help desk that
is astray, nor of a client of string that is behind: they may wait for bytes of
a length that nobody wrote.  Only in `handoff` does the user type all five
numbers, or `scanf` return without one.  `ServerDirectory` asks that what is
written arrives (TCP does that), and of its acceptors everything but that
`accept` fails; `DatagramTalk` only that what is not lost is received.  Waiting
for the mutex of `chat_sserv.c` needs no strong fairness because messages are
finite in number.  The liveness of `chat_spaced` is that of `SpacedSpec`.

## 4. What the checks found out about the code

* `chat_sserv.c:86` says "send to all".  With the race on `clnt_sock`
  (line 54) two threads serve one client; the other one is served by nobody,
  and when both threads leave, the unconditional `clnt_cnt--` (line 81) takes
  one entry too many off the list, so that a client still connected is sent
  nothing any more (`chat_race_loses`).
* `NP sum.txt:12` says of edge triggering that I/O has to be carried through to
  `EAGAIN`.  `ch17/11.c:68` accepts once per edge, and of two clients that
  connect together one waits for the next (`missed` in `AcceptedUnlessMissed`).
* `mainserver.c:196` says "input complete" before the record is in the file,
  and an overlapping registration may overwrite it, or SIGPIPE in another thread
  end the process before `fclose` (`LossHasACause`).

Less is said about the rest, but the properties had to be stated around it:

* `ch11`: the handler reaps one child per signal and signals merge
  (`mp_commu_server.c:174`); a child's end interrupts `accept`, which ends
  `ch11/echo_server_mp.c` (line 147); an "exit" read behind a log line leaves
  the logger waiting for ever (`mp_commu_server.c:62`).
* `chat_mp_server.c:138`: a child compares with the array as it was at its
  fork.  Both entries of the parent are one number, because it closes the
  descriptor after each fork, so that nobody hears anybody else; and line 139
  writes `BUF_SIZE` bytes whatever was read, so that a client hears old bytes of
  `buf` behind its line (`EchoIsTheRest`).
* `client.c:53` compares a role that `mainserver.c:75` converts, and
  `mainserver.c:178` reads four bytes of a choice that `client.c` reads whole:
  "01" or "1x", or "00001", puts the two out of step (`InStep`).
  `mainserver.c:74` waits for a role before it accepts anybody else
  (`WaitingIsServed`).
* `kakao_server.c:17` declares an array that line 58 halves and nothing clears:
  a client that leaves without writing ends the server when another's negative
  number has come to -1 (`EndsForACause`).
* `kakao_mp_server.c:61`: the -1 that should stop the server ends the child.
* `ch11/echo_server_mp.c:75`: a line that comes at once is read as a part of the
  name and never answered; the rest of a long name is echoed as a line.
* `sm1122.c:143`: `serv_count` is not counted up, so that all threads share one
  variable; `send_msg` closes a descriptor that `handle_clnt` may be writing to.
  `cn1122.c:61` connects to the first server whatever was chosen, and
  `cn1122.c:117` asks for the whole length again after a partial read;
  at the end of the input `cn1122.c:104` finds the "$" of the header before and
  takes the record for an empty one (`DecodedWhole`).
  `chat_clnt.c:44` joins a thread that was never created.
* `op_server.c:53` spins at the end of the input; a count of 0 makes it compute
  with the operator and bytes it did not receive.  `tcp_server.c:50` loses its
  place when the length comes in two pieces.  `ch04` and `kakao_server.c` never
  close a client's descriptor before they end.
* `quiz2/select_server.c:118` greets the listening socket, which is SIGPIPE, so
  that its questions and ranking are never reached; `quiz2/selectC.c:69` prints
  an int with `%s`, and the client dies; `quiz2/selectS.c:94` loops for ever on
  a client that reset its connection.
* `ch06/chat_client.c:41` passes an address for a length; its `sendto` fails,
  the server takes the next line for the answer, and the chat stops at the
  second line.
* `chatroom_serv.c:73` gives a newcomer an entry and no room: until it enters
  one it hears room 0, and the room of somebody who has left where the build
  reads the new `i` in line 164 or the list has been full
  (`StrangersHearRoomZero`).

## 5. What is proved

TLAPS proves the following for every value of the constants, from the named
assumptions of the modules alone (names that stand for nothing are not members,
bounds are numbers, a lowest descriptor exists where the code takes it, and, for
counting, the set of threads is finite, and that of `TurnServer`'s clients).

* `ChatServerProofs`, about `Spec`, the racy program: `TypeCorrect` and
  `CountIsExact` need each other: `clnt_cnt` is a natural number because it is
  the number of threads that have not counted their client off, plus the one
  main is about to start; a step that decrements takes a thread out of a
  non-empty finite set.  The invariant conjoins types, the count and the fact
  that the mutex is held exactly by the thread in its sending loop. 
  `NeverEchoed` looks simple and is not: `send_msg` compares descriptors, and a
  thread's descriptor may have been closed by another thread and given to
  another client.  The invariant says where a message in a thread's hands came
  from and that a connection keeps its number as long as it is open. 
  `OneOrder`: every inbox follows the order of the locks; the invariant says
  that each inbox holds positions of `order` in increasing order and that only
  the last message is still being written.  About `SpacedSpec`, in which each
  argument is copied before the next accept returns: `ListIsExact` rests on
  `ListInv`, in which every descriptor in use is in one hand (main's or one
  thread's) and the entries of the list are the descriptors in hand; a removal
  then takes out its own entry and no other.  `ImplementsRoom` is the refinement
  of `ChatRoom`: `RoomInv` adds that a thread relays what its own descriptor
  gave it and that what a client wrote is relayed in order with nothing left out
  (`NothingSkipped`); each action is shown to be a step of the room or a
  stutter.
* `LineEchoProofs`, for `EpollEcho`.  `TypeCorrect` needs the watching
  invariant, since reading an event means looking its descriptor up;
  `WatchesExactly` is that invariant; `LeftBehindIsMissed` counts the backlog
  against edges missed and pending; `EchoIsExact` says of each client that what
  it got back is a prefix of what was read from it, short of the piece in the
  server's hands.  `ImplementsEchoService` follows: a write is the next piece of
  one client, and all other steps stutter or write for the client. 
  `ShortLinesAreSafe` is an argument about debts: a client whose lines are short
  leaves at most one piece unanswered (`Debt`), so that its connection takes one
  write after its end and no second one, and SIGPIPE needs two.  For
  `DatagramTalk`: `TalkTypeCorrect`, with what taking a datagram out of the
  middle of a path returns.  `EchoesMatch`: in uecho, whatever is on its way to
  the server, in its hands or coming back is the client's own and, unless a
  datagram was doubled, one line at most, the one it waits for; in chat the two
  programs go in lockstep as long as the network does nothing; and a lone
  client's second line is taken for the answer.
* `SelectEchoProofs`.  The same argument with the scan in place of the batch.
  `TypeInv` has that `reads` is the listening socket and what is open, and that
  what is in hand is the greeting or the piece last read; `NoReadBlocks` adds
  that a connection has one descriptor and is new, queued or met (`PlaceInv`),
  and with it that a bit still to come is open and has something to read:
  clients can only make more of it, and the scan clears a bit when it handles
  it.  `ImplementsEchoService` rests on `EchoInv`, for which the greeting is
  taken off.  `ServerEndsForACause` carries the argument about debts over, with
  the greeting as one more thing owed.
* `ForkServerProofs`.  `TypeCorrect` needs that a child reads no more than was
  sent (`ReadWithin`) and that the parent has at most the current connection
  open (`OneOpen`), which gives it a free descriptor.  `ZombiesAccounted`: every
  step of the program does one of six things to the processes (`ProcStep`);
  an end adds a zombie and either raises or merges a signal, the handler takes
  the pending one into its hand, and gives it up with a zombie or with none
  left.  `ParentEndsForACause`: `accept` fails only after a signal, a signal
  needs a child that ended, and the parent falls asleep to exit only after
  writing "exit".  `LogIsWhole`: while the logger runs, its buffer and the pipe
  behind it are all that was ever written (`LogInv`).  `EchoesItself`:
  `RestInv` keeps each client's account: what it heard, what its child holds and
  what was taken for its name make up what was read from it.  It rests on
  `BufHolds`: the units in hand are at the beginning of `buf`, and everything in
  `buf` is a unit read from this client or what nobody wrote, so that the chat
  server, which writes all of it, writes nothing of another client's.
* `ServerDirectoryProofs`.  `TypeCorrect` needs that reads stay within what
  arrived and that within what was written.  `BodiesAreWhole`: wherever a header
  stands in an inbox its body stands behind it, whoever wrote it, race or no
  race (`Blocks`), and a client in the body of a record stands behind its header
  by what it has received (`AtBody`); so what it decodes is the body, unless it
  went over, followed in chat_clnt by what its buffer held.  That it takes
  nothing for a record only when the server is no more or a copy was late has an
  argument of its own: as long as every copy was in time, a connection whose
  client is still there and still owed a record has a descriptor that leads to
  it (`ServedInv`), so that no read of a header finds the end of the input
  (`AtHeader` says how far a client at a header has read). 
  `StraysAreExplained`: until a copy comes late or somebody leaves early, a
  connection's threads hold its own descriptor, that is closed only after its
  client has left, and each inbox is what its writer has written, in order
  (`StrayInv`).
* `HelpDeskProofs`.  One invariant, `HelpDeskInv`, with three parts, each needed
  by the others.  `TalkInv` is a table: for each place the server's thread can
  be at in the conversation, where the client can be and what is on its way to
  either of them, for clients that are right, wrong or dead, but not astray
  (`Fits`); `StaysInStep` and `ServerDiesForACause` are read off it.  `FileInv`
  says that a record has one slot, behind what the file had when its thread
  sought the end, and that nobody's record is ever there but that of one who
  sought the same slot; a record not in the file is therefore overwritten, or
  its thread has not come to `fclose`, and then will not if the process is no
  more, for which `ServerDiesForACause` has the reason (`LossIsExplained`). 
  `ScanInv` says of a search that what lies behind it has been compared, and
  that its buffer agrees with the file where the file has not changed
  (`SearchFindsAll`).
* `LockProofs`.  For `RoomServer`, `TypeCorrect` and `ListIsExact` are one
  invariant, `ListInv`: a shift needs to know that the leaver has an entry and
  has one only, and that entries before the end belong to connections; both
  readings of line 164 keep it.  `RoomInv` says of the build that reads the left
  `i` first that an entry's room is its owner's, 0 if he has entered none and 0
  behind the end, which the shift needs when the last entry moves up (so not of
  a list that has been full); from it follow `OwnRoom` and
  `StrangersInRoomZero`.  `WholeRoomHears` adds that whoever of the room the
  loop has passed has the line, and that nobody enters a room while it runs: the
  mutex is held, and a choice once read is not made again (`Choosing`).  For
  `Handoff`, `SemaphoresTypeCorrect`, `MutualExclusion`, `NothingIsLost`: a
  single token is in one of four places, and the place decides who holds `num`.
* `TurnServerProofs`.  One invariant, `ServingInv`, has a part for each program,
  since what a server can do depends on how far it is with its client's frame. 
  `TypeInv` says that reads stay within what was written, that units name frames
  there are, and that the clients counted were accepted.  `ClientInv`: a stream
  ends with the last frame, and of a client not yet accepted nothing was read. 
  `SingleInv`, for calc and kakao: what is in the buffer is what comes behind
  the header in the only frame, or a frame cut short.  `ArrayInv`, for kakao:
  the first number of the array is that of the client served, or what halving
  left of another's that was read (`Leftover`).  `StringInv`: client and server
  go frame by frame, unless the client is behind; where no length was cut, what
  arrives and what is in the buffer are one frame's body, and where one was, the
  rest of that frame never shows a place where a length starts.  `EchoInv`: what
  was written back is the beginning of the stream, as long as what was read less
  what is in hand; and of a client whose lines are of one unit, one unit at most
  is ever on its way (`LineByLine`).  `TypeCorrect` and `OnlyForACause` are read
  off it: a second answer to a closed connection, which is SIGPIPE, needs two
  pieces of one line, or a round of string still to come.  `AnswersStayOwn` adds
  for each answer given that it is the body of the frame with its number
  (`OwnInv`).

`ChatServerProofs` and `LineEchoProofs` begin with lemmas on the calls of
`Sockets` they use.  Each proof goes: initial states, one lemma per action,
stuttering, and a last step in temporal logic.  The inductive invariants were
checked with TLC on the instances of section 3 before they were proved.

Every invariant that a run checks is stated by a theorem, and so are the two
refinements.  Only model-checked: liveness under fairness, which the prover does
not do (`EverybodyIsServed`, `EveryPieceIsEchoed`, `AcceptedUnlessMissed`,
`EveryClientIsAccepted`, `LoggerEnds`, `QuestionsAreAnswered`,
`PatientClientsChoose`, `WaitingIsServed`, `AskedIsAnswered`,
`LineIsAnswered`, `BothFinish`), and the violation of `SendToAll`.  No module
declares a RECURSIVE operator.  `TurnServer` keeps the concatenation of frames
and answers in variables (`stream`, `echoes`) that grow with each write, because
flattening a sequence of frames is a recursion over data, about which nothing
can be proved here: the induction theorems of the library take an operator as a
parameter, which the provers cannot instantiate.

## 6. What is not modelled, and why

* Text: names, formats, `printf`.  Nothing is decided by it in the modules
  above, except `memcount`, menu choices, roles, lengths and "exit", which are
  modelled.
* In ChatServer: `pthread_create` failing; and a write that is blocked on a
  descriptor which another thread closes meanwhile, as can happen after the
  race: `SendNext` is one step when there is room, so that the message goes to
  what the descriptor leads to then.  No property tells the two apart.
* In RoomServer and HelpDesk: the race on the thread's argument, which
  ChatServer and ServerDirectory show.
* In HelpDesk: records of unequal length, which could be overwritten in part,
  and with them what a client that is astray has registered; answers that
  overflow `msg`; what a wrong length writes behind `msg`, beyond ending the
  process; a log file that cannot be opened; `accept` returning -1 when
  connections, which `main` never closes, have used up the descriptors.
* In ServerDirectory: the threads that are started on accept's -1 of no
  connection.  In ForkServer: what a log line says, and the characters of the
  map.
* In TurnServer: the arithmetic of `calculate`, beyond which operands and
  operator it gets; a read of kakao that ends within a number; lengths that
  disagree with the string typed.
* In DatagramTalk: the address length that `uecho_client.c:16` and
  `chat_client.c:16` do not initialise.  `recvfrom` may return -1 for it, after
  it has taken the datagram and copied it; the clients print it all the same,
  perhaps with bytes behind it.
* Code that cannot be reached: the ranking of `quiz2/select_server.c` and with
  it `select_client.c`; `handle_serv` and the `send_msg` of `chat_mserv.c`.
* Programs that do not compile as they stand: `ch05/char_client.c`,
  `ch04/tcp_cli_src.c`.  `mp_commu_client.c` is modelled as it is meant.
* Memory behind an array: `clnt_cnt` is not compared with `MAX_CLNT`
  (`chat_sserv.c:51`, `chatroom_serv.c:73`); the models stop at the write that
  runs over.
* File transfer, hello programs and the exercises of one system call: one
  thread, one direction, nothing to interleave.  `ch18/thread/two.c` and
  `ch18/sync/mutex.c` add to one variable without a lock.
* `AI/EBA.c`: floating point.

## 7. Plan

What is left: `SharedCounter` for `ch18/thread`, where the result of N unlocked
increments and decrements is at least -N and at most N, and each of these is
possible.
