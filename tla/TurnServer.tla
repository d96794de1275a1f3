----------------------------- MODULE TurnServer -----------------------------
(***************************************************************************)
(* The servers that serve one client after another, and their clients:     *)
(*   "calc"    ch05/op_server.c: a count, so many operands, an operator    *)
(*   "string"  assignment2/tcp_server.c: one client, strings with a length *)
(*             before them, sent back                                      *)
(*   "echo"    ch04/tcp_ser_src.c: whatever is read, until the end         *)
(*   "kakao"   kakao_test/kakao_server.c: a fixed number of numbers, and a *)
(*             map for an answer; -1 ends the server                       *)
(* What a client writes in one go is a frame of units: a header, which is  *)
(* one unit in calc, LengthUnits in string and nothing in the others, and  *)
(* a body.  TCP may deliver it in any pieces: a read returns some of the   *)
(* units written.                                                          *)
(***************************************************************************)
EXTENDS Integers, FiniteSets, SequencesExt

CONSTANTS Prog,      \* the programs of the instance
          Conn,      \* connections
          NoConn,    \* dataSock leads to none
          Turns,     \* the clients calc and echo serve; 5 in the code
          Rounds,    \* frames of a client of string; 3 in the code.  A bound in echo
          MaxCount,  \* bound: operands, characters, units of a line
          LengthUnits,  \* units of the length in string
          Numbers,   \* numbers of a question of kakao; 5 in the code
          Halvings   \* how often a number can be divided by 32 before it is
                     \* -1; 6 in the code, whose int has 32 bits

ASSUME TurnAssumption ==
  /\ Prog \subseteq {"calc", "string", "echo", "kakao"}
  /\ IsFiniteSet(Conn) /\ NoConn \notin Conn
  /\ Turns \in Nat \ {0} /\ Rounds \in Nat \ {0} /\ MaxCount \in Nat \ {0}
  /\ LengthUnits \in Nat \ {0} /\ Numbers \in Nat \ {0} /\ Halvings \in Nat

VARIABLES
  prog,     \* the program that runs
  proc,     \* "up", or how the server ended
  at,       \* where the server is
  turn,     \* i, the clients it has finished with (in string: the rounds)
  cur,      \* the connection of dataSock
  cnt,      \* opnd_cnt
  buf,      \* opinfo or message: the units read for this answer; intarr,
            \* where those of former clients stay till they are overwritten
  kept,     \* what intarr[0] comes to, like first
  backlog,  \* connections established and not accepted
  peer,     \* what the server's end knows of each client
  phase,    \* what each client does
  size,     \* the counts of the frames each client has written
  stream,   \* the units of these frames, one behind the other
  first,    \* what the first number of each client of kakao comes to: 1 if
            \* it is -1, k + 1 if it is after k divisions by 32, 0 if it never is
  taken,    \* units the server has read of each client
  inbox,    \* the answers written to each client
  echoes,   \* the units of these answers, one behind the other
  pos,      \* how many of them it has read
  behind,   \* the clients of string that left units of an answer unread
  short     \* history: the clients of whom a read took a part only

serverVars == <<proc, at, turn, cur, cnt, buf, kept>>
clientVars == <<phase, size, stream, first, pos, behind>>
answerVars == <<inbox, echoes>>
wireVars == <<backlog, peer, taken, answerVars, short>>
vars == <<prog, serverVars, clientVars, wireVars>>

Unit == [by : Conn, frame : Nat, part : Int]

TypeOK ==
  /\ prog \in Prog
  /\ proc \in {"up", "done", "spins", "exited", "killed", "lost"}
  /\ at \in {"accept", "head", "body", "answer"}
  /\ turn \in 0..CASE prog = "kakao" -> Cardinality(Conn) [] prog = "string" -> Rounds
                 [] OTHER -> Turns
  /\ cur \in Conn \cup {NoConn}
  /\ cnt \in Nat
  /\ buf \in Seq(Unit) /\ kept \in 0..Halvings + 1
  /\ backlog \subseteq Conn /\ short \subseteq Conn /\ behind \subseteq Conn
  /\ peer \in [Conn -> {"new", "open", "fin", "poked", "reset", "rst"}]
  /\ phase \in [Conn -> {"ready", "waits"}] /\ first \in [Conn -> 0..Halvings + 1]
  /\ size \in [Conn -> Seq(Nat)] /\ stream \in [Conn -> Seq(Unit)]
  /\ taken \in [Conn -> Nat]
  /\ inbox \in [Conn -> Seq(Seq(Unit))] /\ echoes \in [Conn -> Seq(Unit)]
  /\ pos \in [Conn -> Nat]

Init ==
  /\ prog \in Prog
  /\ proc = "up" /\ at = "accept" /\ turn = 0 /\ cur = NoConn
  /\ cnt = 0 /\ buf = <<>> /\ kept = 0
  /\ backlog = {} /\ short = {} /\ behind = {}
  /\ peer = [c \in Conn |-> "new"]
  /\ phase = [c \in Conn |-> "ready"] /\ first = [c \in Conn |-> 0]
  /\ size = [c \in Conn |-> <<>>] /\ stream = [c \in Conn |-> <<>>]
  /\ taken = [c \in Conn |-> 0]
  /\ inbox = [c \in Conn |-> <<>>] /\ echoes = [c \in Conn |-> <<>>]
  /\ pos = [c \in Conn |-> 0]

-----------------------------------------------------------------------------
(* Frames. *)

HeadLen == CASE prog = "calc" -> 1 [] prog = "string" -> LengthUnits [] OTHER -> 0
BodyLen(n) == IF prog = "calc" THEN n + 1 ELSE n

\* The k-th frame of c, of count n.  Parts of a header are numbered up to 0,
\* those of a body from 1.
Frame(c, k, n) ==
  [i \in 1..HeadLen + BodyLen(n) |-> [by |-> c, frame |-> k, part |-> i - HeadLen]]

Counts ==
  CASE prog = "kakao" -> {Numbers}
    [] prog = "echo" -> 1..MaxCount
    [] OTHER -> 0..MaxCount

MaxFrames == IF prog \in {"string", "echo"} THEN Rounds ELSE 1

-----------------------------------------------------------------------------
(* The clients. *)

Connect(c) ==
  /\ peer[c] = "new"
  /\ peer' = [peer EXCEPT ![c] = "open"]
  /\ backlog' = backlog \cup {c}
  /\ UNCHANGED clientVars

Writes(c, n) ==
  /\ size' = [size EXCEPT ![c] = Append(@, n)]
  /\ stream' = [stream EXCEPT ![c] = @ \o Frame(c, Len(size[c]) + 1, n)]

\* What the first number comes to when it is not -1.
FirstNumbers == IF prog = "kakao" THEN {0} \cup 2..Halvings + 1 ELSE {0}

\* A frame in one write, whether or not the server has accepted.
Ask(c) ==
  /\ peer[c] = "open" /\ phase[c] = "ready"
  /\ Len(size[c]) < MaxFrames
  /\ \E n \in Counts : Writes(c, n)
  /\ \E f \in FirstNumbers : first' = [first EXCEPT ![c] = f]
  /\ phase' = [phase EXCEPT ![c] = "waits"]
  /\ UNCHANGED <<pos, behind, peer, backlog>>

\* kakao_client: -1 for the first number is written, and the client exits.
AskStop(c) ==
  /\ prog = "kakao" /\ peer[c] = "open" /\ phase[c] = "ready" /\ size[c] = <<>>
  /\ Writes(c, Numbers)
  /\ first' = [first EXCEPT ![c] = 1]
  /\ peer' = [peer EXCEPT ![c] = "fin"]
  /\ UNCHANGED <<phase, pos, behind, backlog>>

\* The answer is read.  The client of string reads the length first, and when
\* that comes in two pieces it leaves units unread, and is behind for good.
ReadAnswer(c) ==
  /\ peer[c] = "open" /\ phase[c] = "waits" /\ pos[c] < Len(inbox[c])
  /\ phase' = [phase EXCEPT ![c] = "ready"]
  /\ pos' = [pos EXCEPT ![c] = Len(inbox[c])]
  /\ \/ UNCHANGED behind
     \/ prog = "string" /\ LengthUnits > 1 /\ behind' = behind \cup {c}
  /\ UNCHANGED <<size, stream, first, peer, backlog>>

\* What it left unread is the next length it reads: it goes on to its next round
\* without the answer if that comes to 0, or waits for as much as it comes to.
ReadLeftover(c) ==
  /\ peer[c] = "open" /\ phase[c] = "waits" /\ c \in behind
  /\ phase' = [phase EXCEPT ![c] = "ready"]
  /\ UNCHANGED <<size, stream, first, pos, behind, peer, backlog>>

\* What is known of a client that closes: its end in good order, or a reset if
\* it leaves an answer or a part of one unread, or has one coming.
Closing(c) ==
  IF pos[c] < Len(inbox[c]) THEN {"reset", "poked"}
  ELSE IF c \in behind THEN {"fin", "reset"} ELSE {"fin"}

\* The end of the client, after its answer or at any other point.
Leave(c) ==
  /\ peer[c] = "open"
  /\ \E p \in Closing(c) : peer' = [peer EXCEPT ![c] = p]
  /\ UNCHANGED <<clientVars, backlog>>

\* The reset that answers data for a client that is gone.
ResetArrives(c) ==
  /\ peer[c] = "poked"
  /\ peer' = [peer EXCEPT ![c] = "rst"]
  /\ UNCHANGED <<clientVars, backlog>>

ClientNext ==
  /\ \E c \in Conn : \/ Connect(c) \/ Ask(c) \/ AskStop(c) \/ ReadAnswer(c)
                     \/ ReadLeftover(c) \/ Leave(c) \/ ResetArrives(c)
  /\ UNCHANGED <<prog, serverVars, taken, answerVars, short>>

-----------------------------------------------------------------------------
(* The server. *)

Arrived(c) == Len(stream[c]) - taken[c]
ReadsError == Arrived(cur) = 0 /\ peer[cur] = "reset"
ReadsEnd == Arrived(cur) = 0 /\ peer[cur] \in {"fin", "poked", "rst"}

\* n units are read.
Takes(n) == taken' = [taken EXCEPT ![cur] = @ + n]
Chunk(n) == SubSeq(stream[cur], taken[cur] + 1, taken[cur] + n)

\* A -1 that the program does not look at; the connection has reported it.
ErrorReported == peer' = [peer EXCEPT ![cur] = IF @ = "reset" THEN "rst" ELSE @]

\* recv_len = 0; nothing empties intarr.
Emptied == IF prog = "kakao" THEN buf ELSE <<>>

FirstPlace == IF prog \in {"calc", "string"} THEN "head" ELSE "body"

Accept ==
  /\ at = "accept"
  /\ \E c \in backlog : cur' = c /\ backlog' = backlog \ {c}
  /\ at' = FirstPlace
  /\ cnt' = 0 /\ buf' = Emptied
  /\ UNCHANGED <<proc, turn, kept, peer, taken, answerVars, short>>

\* read(dataSock, &opnd_cnt, 1), and 4 in string.  At the end, or after an
\* error, opnd_cnt is 0.  What is not a header is taken for a number all the
\* same: opinfo is overrun, or the server waits for what nobody sends.
ReadHead ==
  /\ at = "head"
  /\ \/ \E n \in 1..HeadLen :
          /\ n <= Arrived(cur)
          /\ Takes(n)
          /\ short' = IF n < HeadLen THEN short \cup {cur} ELSE short
          /\ LET u == Chunk(n)[1] IN
               IF u.part = 1 - HeadLen THEN cnt' = size[cur][u.frame] /\ UNCHANGED proc
                                       ELSE proc' = "lost" /\ UNCHANGED cnt
          /\ UNCHANGED peer
     \/ /\ ReadsError \/ ReadsEnd
        /\ cnt' = 0
        /\ ErrorReported
        /\ UNCHANGED <<proc, taken, short>>
  /\ at' = "body" /\ buf' = <<>>
  /\ UNCHANGED <<turn, cur, kept, backlog, answerVars>>

\* Variant: the operator is not waited for.
NeedsOperands == IF prog = "calc" THEN cnt > Len(buf) ELSE BodyLen(cnt) > Len(buf)

\* while(opnd_cnt * OPSZ + 1 > recv_len), while(opnd_cnt > recv_len)
NeedsMore == BodyLen(cnt) > Len(buf)

AtMost == CASE prog = "string" -> 1 [] prog = "kakao" -> Numbers [] OTHER -> Arrived(cur)

\* recv_len += 0, for ever.
EndSpins == proc' = "spins" /\ UNCHANGED <<at, turn, cur>>

\* Variant: the end is taken for one more line, of no units.
EmptyLine == at' = "answer" /\ UNCHANGED <<proc, turn, cur>>

\* if(!str_len) break
EndOfEcho ==
  /\ turn' = turn + 1
  /\ cur' = NoConn
  /\ at' = "accept"
  /\ proc' = IF turn + 1 = Turns THEN "done" ELSE proc

\* The loop of calc and string does not look at a 0 and ends the server at a
\* -1; that of echo ends at a 0 and does not look at a -1.  kakao reads once.
BodyOver ==
  CASE prog = "echo" -> IF ReadsEnd THEN EndOfEcho ELSE UNCHANGED <<proc, at, turn, cur>>
    [] prog = "kakao" -> at' = "answer" /\ UNCHANGED <<proc, turn, cur>>
    [] OTHER -> IF ReadsEnd THEN EndSpins ELSE proc' = "exited" /\ UNCHANGED <<at, turn, cur>>

\* read(clnt_sock, intarr, ...) writes over the beginning; the others read on.
Stored(w) == IF prog = "kakao" THEN w \o SubSeq(buf, Len(w) + 1, Len(buf)) ELSE buf \o w

ReadBody ==
  /\ at = "body"
  /\ prog \in {"calc", "string"} => NeedsMore
  /\ \/ \E n \in 1..AtMost :
          /\ n <= Arrived(cur)
          /\ Takes(n)
          /\ buf' = Stored(Chunk(n))
          /\ kept' = IF prog = "kakao" THEN first[cur] ELSE kept
          /\ short' = IF prog = "kakao" /\ n < Numbers THEN short \cup {cur} ELSE short
          /\ at' = IF prog \in {"echo", "kakao"} THEN "answer" ELSE "body"
          /\ UNCHANGED <<proc, turn, cur, peer>>
     \/ /\ ReadsError \/ ReadsEnd
        /\ BodyOver
        /\ ErrorReported
        /\ UNCHANGED <<buf, kept, taken, short>>
  /\ UNCHANGED <<cnt, backlog, answerVars>>

BodyComplete ==
  /\ at = "body" /\ prog \in {"calc", "string"} /\ ~NeedsMore
  /\ at' = "answer"
  /\ UNCHANGED <<proc, turn, cur, cnt, buf, kept, backlog, peer, taken, answerVars, short>>

\* calculate(opnd_cnt, opinfo, opinfo[recv_len - 1]).  Without operands the
\* first one is the operator and three bytes that were there before.
Result == IF cnt = 0 THEN <<>> ELSE Append(SubSeq(buf, 1, cnt), buf[Len(buf)])

Reply == IF prog = "calc" THEN Result ELSE buf

\* if(intarr[0] == -1) break, whoever the number is from.
Stopped == prog = "kakao" /\ kept = 1

\* Five times intarr[i] /= 2, for the map.
Halved == IF kept > 1 THEN kept - 1 ELSE kept

\* Variant: the next client is not taken.
SameClient == at' = FirstPlace /\ UNCHANGED <<proc, turn, cur>>

\* Variant: the clients are not counted.
OneMoreClient == turn' = turn + 1 /\ cur' = NoConn /\ at' = "accept" /\ UNCHANGED proc

\* calc closes dataSock after its answer, kakao only takes the next client.
NextClient ==
  /\ turn' = turn + 1
  /\ cur' = NoConn
  /\ at' = "accept"
  /\ proc' = IF prog = "calc" /\ turn + 1 = Turns THEN "done" ELSE proc

\* In string the next round, and the end after the last.
NextRound ==
  /\ turn' = turn + 1
  /\ at' = "head"
  /\ proc' = IF turn + 1 = Rounds THEN "done" ELSE proc
  /\ UNCHANGED cur

Onward ==
  CASE prog = "string" -> NextRound
    [] prog = "echo" -> at' = "body" /\ UNCHANGED <<proc, turn, cur>>
    [] OTHER -> NextClient

Answers ==
  /\ inbox' = [inbox EXCEPT ![cur] = Append(@, Reply)]
  /\ echoes' = [echoes EXCEPT ![cur] = @ \o Reply]

\* A write to a client that has gone provokes its reset or reports it; the one
\* after that raises SIGPIPE.
WriteAnswer ==
  /\ at = "answer"
  /\ \/ /\ Stopped
        /\ proc' = "done"
        /\ UNCHANGED <<at, turn, cur, peer, answerVars>>
     \/ /\ ~Stopped /\ peer[cur] = "open"
        /\ Answers
        /\ Onward
        /\ UNCHANGED peer
     \/ /\ ~Stopped /\ peer[cur] \in {"fin", "poked", "reset"}
        /\ peer' = [peer EXCEPT ![cur] = IF @ = "reset" THEN "rst" ELSE "poked"]
        /\ Onward
        /\ UNCHANGED answerVars
     \/ /\ ~Stopped /\ peer[cur] = "rst"
        /\ proc' = "killed"
        /\ UNCHANGED <<at, turn, cur, peer, answerVars>>
  /\ buf' = Emptied /\ kept' = Halved
  /\ UNCHANGED <<cnt, backlog, taken, short>>

ServerNext ==
  /\ Accept \/ ReadHead \/ ReadBody \/ BodyComplete \/ WriteAnswer
  /\ UNCHANGED <<prog, clientVars>>

Next == proc = "up" /\ (ServerNext \/ ClientNext)

Spec == Init /\ [][Next]_vars

\* The server runs, and a client reads the answer it waits for; nobody has to
\* type or to leave.  A client that is behind may wait for units that never come.
FairSpec ==
  /\ Spec
  /\ WF_vars(proc = "up" /\ ServerNext)
  /\ \A c \in Conn : WF_vars(proc = "up" /\ c \notin behind /\ ReadAnswer(c) /\ ClientNext)

-----------------------------------------------------------------------------
(* Properties. *)

Body(c, k) == [i \in 1..BodyLen(size[c][k]) |-> [by |-> c, frame |-> k, part |-> i]]

\* A client's answers are made of what it wrote itself, each of one frame, the
\* k-th of the k-th, however TCP cut it: the calculator's always, with the
\* operator it was sent and unless there were no operands; those of string and
\* kakao as long as no read, its own included, took only a part of a length or
\* of the numbers.
AnswersAreOwn ==
  \A c \in Conn \ (short \cup behind) :
    IF prog = "echo" THEN IsPrefix(echoes[c], stream[c])
    ELSE \A k \in 1..Len(inbox[c]) :
           /\ k <= Len(size[c])
           /\ \/ inbox[c][k] = Body(c, k)
              \/ prog = "calc" /\ size[c][k] = 0

Gone(c) == peer[c] \notin {"new", "open"}

\* The calculator loops for ever once a client left before it wrote, and never
\* takes its exit after a failed read; string is killed only by a client that
\* leaves before its last round, echo only by one that leaves with a line
\* written that was read in pieces; the place in the stream is lost only where
\* a length was read in pieces; and kakao is ended by a client that wrote -1,
\* or by one that left without its numbers being read, when the first number
\* of another came to -1 in the array that is kept from client to client.  Of a
\* client of string that lost its own place in the answers nothing is said.
EndsForACause ==
  cur \notin behind =>
    /\ proc = "spins" => Gone(cur) /\ size[cur] = <<>>
    /\ proc # "exited"
    /\ proc = "killed" =>
         /\ Gone(cur)
         /\ \/ prog = "string" /\ Len(size[cur]) < Rounds
            \/ prog = "echo" /\ \E k \in 1..Len(size[cur]) : size[cur][k] > 1
    /\ proc = "lost" => cur \in short
    /\ proc = "done" => \/ prog = "kakao" /\ first[cur] = 1
                        \/ /\ prog = "kakao" /\ Gone(cur) /\ taken[cur] = 0
                           /\ \E c \in Conn \ {cur} : first[c] > 1
                        \/ prog # "kakao" /\ turn = IF prog = "string" THEN Rounds ELSE Turns

\* The server waits for a user, and nobody else's turn comes.
Held == at # "accept" /\ peer[cur] = "open" /\ phase[cur] # "waits"

\* Whoever has asked is answered, those whose turn has not come included, as
\* long as the server lasts, no client keeps it waiting for ever, and the client
\* has not lost its own place in the answers.
AskedIsAnswered ==
  <>[]Held \/ \A c \in Conn :
    peer[c] = "open" /\ phase[c] = "waits"
      ~> peer[c] # "open" \/ phase[c] # "waits" \/ proc # "up" \/ c \in behind
=============================================================================
