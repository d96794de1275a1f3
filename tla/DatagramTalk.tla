---------------------------- MODULE DatagramTalk ----------------------------
(***************************************************************************)
(* The programs of ch06, which talk in datagrams:                          *)
(*   "uecho"  uecho_server.c and uecho_client.c: a line, and its echo      *)
(*   "chat"   chat_server.c and chat_client.c: after the echo the user of  *)
(*            the server types a line, and the client is to send that back *)
(* Nobody waits with a time limit and nothing is sent again.  A datagram   *)
(* may be lost, come twice, or overtake one sent before it.                *)
(***************************************************************************)
EXTENDS Integers, FiniteSets, SequencesExt

CONSTANTS Prog,     \* the programs of the instance
          Client,   \* the runs of the client
          Server,   \* the author of the server's lines
          MaxLine,  \* bound: lines of each user
          MaxFault  \* bound: datagrams lost, and datagrams doubled

ASSUME DatagramAssumption ==
  /\ Prog \subseteq {"uecho", "chat"}
  /\ Server \notin Client
  /\ MaxLine \in Nat /\ MaxFault \in Nat

VARIABLES
  prog,      \* the program that runs
  at,        \* where the server is
  adr,       \* clnt_adr: whoever sent what recvfrom returned last
  message,   \* message of the server
  typed,     \* lines each user has typed
  toServer,  \* the datagrams on their way from each client
  toClient,  \* and to each client
  cat,       \* where each client is
  cmessage,  \* message of each client
  answers,   \* what each client took for the echoes of its lines
  lost, twice, overtaken  \* history: what happened to datagrams

net == <<toServer, toClient, lost, twice, overtaken>>
server == <<at, adr, message>>
clients == <<cat, cmessage, answers>>
talkVars == <<prog, typed, net, server, clients>>

Line == [by : Client \cup {Server}, n : Nat]
NoLine == [by |-> Server, n |-> 0]

TalkTypeOK ==
  /\ prog \in Prog
  /\ at \in {"recv", "echo", "type", "send", "recv_echo", "end"}
  /\ adr \in Client \cup {Server}
  /\ message \in Line
  /\ typed \in [Client \cup {Server} -> 0..MaxLine]
  /\ toServer \in [Client -> Seq(Line)] /\ toClient \in [Client -> Seq(Line)]
  /\ cat \in [Client -> {"type", "send", "recv_echo", "recv_line", "send_back", "left"}]
  /\ cmessage \in [Client -> Line]
  /\ answers \in [Client -> Seq(Line)]
  /\ lost \in Nat /\ twice \in Nat /\ overtaken \in BOOLEAN

TalkInit ==
  /\ prog \in Prog
  /\ at = "recv" /\ adr = Server /\ message = NoLine
  /\ typed = [u \in Client \cup {Server} |-> 0]
  /\ toServer = [c \in Client |-> <<>>] /\ toClient = [c \in Client |-> <<>>]
  /\ cat = [c \in Client |-> "type"]
  /\ cmessage = [c \in Client |-> NoLine]
  /\ answers = [c \in Client |-> <<>>]
  /\ lost = 0 /\ twice = 0 /\ overtaken = FALSE

-----------------------------------------------------------------------------
(* The network. *)

\* sendto(m) on the path of c, and recvfrom of the i-th that is on its way.
Sent(path, c, m) == [path EXCEPT ![c] = Append(@, m)]
Received(path, c, i) == [path EXCEPT ![c] = RemoveAt(@, i)]
Overtakes(i) == overtaken' = (overtaken \/ i > 1)

Lose(c) ==
  /\ lost < MaxFault
  /\ lost' = lost + 1
  /\ \/ \E i \in 1..Len(toServer[c]) :
          toServer' = Received(toServer, c, i) /\ UNCHANGED toClient
     \/ \E i \in 1..Len(toClient[c]) :
          toClient' = Received(toClient, c, i) /\ UNCHANGED toServer
  /\ UNCHANGED <<prog, typed, twice, overtaken, server, clients>>

Double(c) ==
  /\ twice < MaxFault
  /\ twice' = twice + 1
  /\ \/ \E i \in 1..Len(toServer[c]) :
          toServer' = Sent(toServer, c, toServer[c][i]) /\ UNCHANGED toClient
     \/ \E i \in 1..Len(toClient[c]) :
          toClient' = Sent(toClient, c, toClient[c][i]) /\ UNCHANGED toServer
  /\ UNCHANGED <<prog, typed, lost, overtaken, server, clients>>

-----------------------------------------------------------------------------
(* The server. *)

\* Variant: the address of the first client is kept.
FirstAddress(c) == IF adr = Server THEN c ELSE adr

\* recvfrom fills clnt_adr, every time.
SenderAddress(c) == c

\* recvfrom, of a line or, in chat, of what is to be the echo of the server's
\* own: nobody looks at it.
Receive(from, to) ==
  /\ at = from
  /\ \E c \in Client : \E i \in 1..Len(toServer[c]) :
       /\ message' = toServer[c][i]
       /\ toServer' = Received(toServer, c, i)
       /\ adr' = SenderAddress(c)
       /\ Overtakes(i)
  /\ at' = to
  /\ UNCHANGED <<typed, toClient, lost, twice>>

SendTo(from, to) ==
  /\ at = from
  /\ toClient' = Sent(toClient, adr, message)
  /\ at' = to
  /\ UNCHANGED <<typed, adr, message, toServer, lost, twice, overtaken>>

\* fgets: a line, or "q".
TypeAtServer ==
  /\ at = "type"
  /\ \/ /\ typed[Server] < MaxLine
        /\ typed' = [typed EXCEPT ![Server] = @ + 1]
        /\ message' = [by |-> Server, n |-> typed[Server] + 1]
        /\ at' = "send"
     \/ /\ at' = "end"
        /\ UNCHANGED <<typed, message>>
  /\ UNCHANGED <<adr, net>>

AfterEcho == IF prog = "uecho" THEN "recv" ELSE "type"

TalkServerNext ==
  /\ \/ Receive("recv", "echo") \/ SendTo("echo", AfterEcho)
     \/ TypeAtServer \/ SendTo("send", "recv_echo") \/ Receive("recv_echo", "recv")
  /\ UNCHANGED <<prog, clients>>

-----------------------------------------------------------------------------
(* The clients. *)

Goes(c, pc) == cat' = [cat EXCEPT ![c] = pc]

TypeAtClient(c) ==
  /\ cat[c] = "type"
  /\ \/ /\ typed[c] < MaxLine
        /\ typed' = [typed EXCEPT ![c] = @ + 1]
        /\ cmessage' = [cmessage EXCEPT ![c] = [by |-> c, n |-> typed[c] + 1]]
        /\ Goes(c, "send")
     \/ Goes(c, "left") /\ UNCHANGED <<typed, cmessage>>
  /\ UNCHANGED <<net, answers>>

SendDatagram(c) ==
  /\ cat[c] = "send"
  /\ toServer' = Sent(toServer, c, cmessage[c])
  /\ Goes(c, "recv_echo")
  /\ UNCHANGED <<typed, cmessage, answers, toClient, lost, twice, overtaken>>

\* The address length is not initialised.  If it is negative recvfrom returns -1
\* but has taken the datagram and copied it into message, which is what the
\* client goes by; bytes may be printed behind it.
ReceiveLine(c, from, to) ==
  /\ cat[c] = from
  /\ \E i \in 1..Len(toClient[c]) :
       /\ cmessage' = [cmessage EXCEPT ![c] = toClient[c][i]]
       /\ answers' = IF from = "recv_echo"
                     THEN [answers EXCEPT ![c] = Append(@, toClient[c][i])] ELSE answers
       /\ toClient' = Received(toClient, c, i)
       /\ Overtakes(i)
  /\ Goes(c, to)
  /\ UNCHANGED <<typed, toServer, lost, twice>>

AfterAnswer == IF prog = "uecho" THEN "type" ELSE "recv_line"

\* sendto is given the address of the length for the length, and fails.
SendBack(c) ==
  /\ cat[c] = "send_back"
  /\ Goes(c, "type")
  /\ UNCHANGED <<typed, cmessage, answers, net>>

\* What the client does by itself, between two lines of its user.
Program(c) ==
  /\ \/ SendDatagram(c) \/ ReceiveLine(c, "recv_echo", AfterAnswer)
     \/ ReceiveLine(c, "recv_line", "send_back") \/ SendBack(c)
  /\ UNCHANGED <<prog, server>>

TalkClientNext(c) == Program(c) \/ (TypeAtClient(c) /\ UNCHANGED <<prog, server>>)

TalkNext == TalkServerNext \/ \E c \in Client : TalkClientNext(c) \/ Lose(c) \/ Double(c)

TalkSpec == TalkInit /\ [][TalkNext]_talkVars

\* The programs run, and what is not lost arrives; the users may take their
\* time.
TalkFairSpec ==
  /\ TalkSpec
  /\ WF_talkVars(TalkServerNext /\ at # "type")
  /\ \A c \in Client : WF_talkVars(Program(c))

-----------------------------------------------------------------------------
(* Properties. *)

\* The clients that have typed, and whether chat has more than one of them.
Talkers == {c \in Client : typed[c] > 0}
Crowd == prog = "chat" /\ Cardinality(Talkers) > 1

\* A client's k-th echo is its k-th line.  In uecho a datagram that came twice
\* may make it an earlier one; in chat any fault may make it anything.
Matches ==
  \A c \in Client : \A k \in 1..Len(answers[c]) :
    \/ answers[c][k] = [by |-> c, n |-> k]
    \/ prog = "uecho" /\ twice > 0 /\ answers[c][k].by = c /\ answers[c][k].n < k
    \/ prog = "chat" /\ (lost > 0 \/ twice > 0 \/ overtaken)

\* A lone client of chat has one echo at most: what it is to send back is not
\* sent, and the server takes the next line for that.
OneAnswer ==
  \A c \in Client :
    prog = "chat" /\ Len(answers[c]) > 1 => lost > 0 \/ twice > 0 \/ overtaken \/ Crowd

\* What a client prints as the echo of a line is that line.  In uecho neither a
\* loss nor another client changes that, and a datagram that comes twice makes
\* it a line of its own all the same; in chat a second client does not, though
\* the server remembers one address, but a lone client gets no second echo.
EchoOfTheLine == Matches /\ OneAnswer

\* A client that has sent a line reads an echo, unless a datagram is lost: it
\* then waits in recvfrom for ever.  In chat that is so of its first line, if
\* no other client writes and none of the faults above brings the programs out
\* of step.
LineIsAnswered ==
  \A c \in Client :
    cat[c] = "recv_echo" ~>
      \/ cat[c] # "recv_echo" \/ lost > 0
      \/ prog = "chat" /\ (twice > 0 \/ overtaken \/ Crowd \/ Len(answers[c]) > 0)
=============================================================================
