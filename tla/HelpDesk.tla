------------------------------ MODULE HelpDesk ------------------------------
(***************************************************************************)
(* Project/mainserver.c and Project/client.c: a help desk.  The main       *)
(* thread asks each client its role before it accepts the next; a helper   *)
(* registers a record in log.txt or searches it, a searcher searches it.   *)
(*                                                                         *)
(* Every thread opens log.txt for itself, and stdio stands between it and  *)
(* the file: a record goes to the end the file had at fseek, and reaches   *)
(* the file at fclose, which is after the reply and outside fmutex.        *)
(*                                                                         *)
(* A frame is what one exchange writes: the 4-byte length and the text, or *)
(* a choice.  The thread of a connection bears the connection's name: it   *)
(* is assumed to have copied its argument before the next accept returns   *)
(* (the race on the argument is the subject of ChatServer).                *)
(***************************************************************************)
EXTENDS Naturals, Sequences

CONSTANTS Conn,      \* the clients, one connection each
          NoConn,    \* who registered the records that are there at first
          Id,        \* student ids
          NoId,      \* what atoi makes of a text that is no number
          BufRecs,   \* records that one fill of a stdio buffer holds
          MaxWrong   \* bound: texts that are no choice, or an odd one, per client

ASSUME HelpDeskAssumption ==
  /\ NoConn \notin Conn
  /\ NoId \notin Id /\ "wrong" \notin Id
  /\ BufRecs \in Nat \ {0}
  /\ MaxWrong \in Nat

VARIABLES
  log,      \* log.txt: its records; all have one length
  proc,     \* "up", or "killed" by SIGPIPE
  mpc,      \* main: in "accept", or reading the "role" of a client
  cur,      \* main's clnt_sock
  backlog,  \* clients connected and not accepted
  cpc,      \* what a client is reading or typing
  wrong,    \* how many texts it has typed that are no choice, or an odd one
  astray,   \* history: clients that the two programs may have read differently
  up,       \* frames on their way to the server
  down,     \* frames on their way to the client
  tpc,      \* what the thread of a connection is about to do
  sid,      \* its search_id
  at,       \* the record its FILE is positioned at
  buf,      \* what is left of the last fill of its read buffer
  found,    \* the records its search has found
  pend,     \* the record in its write buffer, and the slot it will go to
  base      \* history: log.txt at the start of the search, or at fseek

serverVars == <<log, mpc, cur, tpc, sid, at, buf, found, pend, base>>
clientVars == <<cpc, wrong, astray>>
vars == <<serverVars, proc, clientVars, backlog, up, down>>

Rec == [id : Id, by : Conn \cup {NoConn}]
NoPend == [slot |-> 0, id |-> NoId]

Reading == {"prompt", "menu", "format", "ack", "ask", "flag", "text"}
Typing == {"role", "choice", "record", "id"}

TypeOK ==
  /\ log \in Seq(Rec)
  /\ proc \in {"up", "killed"}
  /\ mpc \in {"accept", "role"}
  /\ cur \in Conn \cup {NoConn}
  /\ backlog \subseteq Conn
  /\ cpc \in [Conn -> Reading \cup Typing \cup {"new", "end", "dead"}]
  /\ wrong \in [Conn -> 0..MaxWrong]
  /\ astray \subseteq Conn
  /\ up \in [Conn -> Seq({"helper", "searcher", "register", "search", "wrong"}
                           \cup Id)]
  /\ down \in [Conn -> Seq([kind : Reading, data : SUBSET Rec])]
  /\ tpc \in [Conn -> {"none", "menu", "ask", "choice", "record", "reply",
                       "close", "id", "scan", "flag", "text", "done"}]
  /\ sid \in [Conn -> Id \cup {NoId}]
  /\ at \in [Conn -> Nat \ {0}]
  /\ buf \in [Conn -> Seq(Rec)]
  /\ found \in [Conn -> SUBSET Rec]
  /\ pend \in [Conn -> [slot : Nat, id : Id \cup {NoId}]]
  /\ base \in [Conn -> Seq(Rec)]

Init ==
  /\ log \in {<<>>} \cup {<<[id |-> i, by |-> NoConn]>> : i \in Id}
  /\ proc = "up"
  /\ mpc = "accept"
  /\ cur = NoConn
  /\ backlog = {}
  /\ cpc = [c \in Conn |-> "new"]
  /\ wrong = [c \in Conn |-> 0]
  /\ astray = {}
  /\ up = [c \in Conn |-> <<>>]
  /\ down = [c \in Conn |-> <<>>]
  /\ tpc = [c \in Conn |-> "none"]
  /\ sid = [c \in Conn |-> NoId]
  /\ at = [c \in Conn |-> 1]
  /\ buf = [c \in Conn |-> <<>>]
  /\ found = [c \in Conn |-> {}]
  /\ pend = [c \in Conn |-> NoPend]
  /\ base = [c \in Conn |-> <<>>]

Gone(c) == cpc[c] \in {"end", "dead"}

\* From then on that a client and its thread take bytes for another thing than
\* the other has written, lengths too, nothing is kept of what is on its way
\* between them: any read of theirs may find anything, or wait.
GoAstray(c) ==
  /\ astray' = astray \cup {c}
  /\ up' = [up EXCEPT ![c] = <<>>]
  /\ down' = [down EXCEPT ![c] = <<>>]

-----------------------------------------------------------------------------
(* The client. *)

Connect(c) ==
  /\ cpc[c] = "new"
  /\ cpc' = [cpc EXCEPT ![c] = "prompt"]
  /\ backlog' = backlog \cup {c}
  /\ UNCHANGED <<serverVars, proc, wrong, astray, up, down>>

\* What the client does after each thing it reads; it takes what comes for
\* what it expects, and a flag that is not 0 for an answer.
AfterRead(c, flag) ==
  CASE cpc[c] = "prompt" -> "role"
    [] cpc[c] = "menu"   -> "choice"
    [] cpc[c] = "format" -> "record"
    [] cpc[c] = "ask"    -> "id"
    [] cpc[c] = "flag"   -> IF flag THEN "text" ELSE "end"
    [] OTHER             -> "end"

Read(c) ==
  /\ cpc[c] \in Reading
  /\ \/ /\ down[c] # <<>>
        /\ cpc' = [cpc EXCEPT ![c] = AfterRead(c, Head(down[c]).data # {})]
        /\ down' = [down EXCEPT ![c] = Tail(@)]
     \/ /\ c \in astray
        /\ \E flag \in BOOLEAN : cpc' = [cpc EXCEPT ![c] = AfterRead(c, flag)]
        /\ UNCHANGED down
  /\ UNCHANGED <<serverVars, proc, wrong, astray, backlog, up>>

\* A text behind one that is not read yet may come together with that, and
\* the server takes the first four bytes of both for one.
Write(c, text, next) ==
  /\ cpc' = [cpc EXCEPT ![c] = next]
  /\ IF up[c] = <<>> /\ c \notin astray
     THEN up' = [up EXCEPT ![c] = <<text>>] /\ UNCHANGED <<astray, down>>
     ELSE GoAstray(c)
  /\ UNCHANGED <<serverVars, proc, backlog>>

CountWrong(c) ==
  /\ wrong[c] < MaxWrong
  /\ wrong' = [wrong EXCEPT ![c] = @ + 1]

\* "wrong input" for both programs: the text has been sent, and the client
\* asks for another.
TypeWrong(c) ==
  /\ cpc[c] \in {"role", "choice"}
  /\ CountWrong(c)
  /\ Write(c, "wrong", cpc[c])

\* A text the two programs read differently.  As a role, "01" or "1x" is wrong
\* for the client's strcmp and a helper for the server's atoi.  As a choice,
\* of "00001", "1abcd" or "00015" the server reads four bytes and takes the
\* rest for what comes next.
TypeOdd(c) ==
  /\ CountWrong(c)
  /\ \/ cpc[c] = "role" /\ cpc' = cpc
     \/ cpc[c] = "choice" /\ \E next \in {"format", "ask", "choice"} :
                               cpc' = [cpc EXCEPT ![c] = next]
  /\ GoAstray(c)
  /\ UNCHANGED <<serverVars, proc, backlog>>

\* Variant: the client does not wait for the reply to its record.
AfterRecordAtOnce == "end"

AfterRecord == "ack"

Type(c) ==
  /\ UNCHANGED wrong
  /\ \/ cpc[c] = "role" /\ (Write(c, "helper", "menu") \/ Write(c, "searcher", "ask"))
     \/ cpc[c] = "choice" /\ (Write(c, "register", "format") \/ Write(c, "search", "ask"))
     \/ cpc[c] = "record" /\ \E i \in Id : Write(c, i, AfterRecord)
     \/ cpc[c] = "id" /\ \E i \in Id : Write(c, i, "flag")

Killed(c) ==
  /\ cpc[c] \in Reading \cup Typing
  /\ cpc' = [cpc EXCEPT ![c] = "dead"]
  /\ UNCHANGED <<serverVars, proc, wrong, astray, backlog, up, down>>

ClientNext(c) == Connect(c) \/ Read(c) \/ Type(c) \/ TypeWrong(c) \/ TypeOdd(c)
                 \/ Killed(c)

-----------------------------------------------------------------------------
(* The server's calls. *)

\* The writes of a frame; the second of them, or the first after a reset,
\* kills the process when the client is gone.
SendFrame(c, kind, data) ==
  \/ /\ ~Gone(c)
     /\ down' = IF c \in astray THEN down
                ELSE [down EXCEPT ![c] = Append(@, [kind |-> kind, data |-> data])]
     /\ UNCHANGED proc
  \/ Gone(c) /\ proc' \in {"up", "killed"} /\ UNCHANGED down

\* read takes a frame, or finds the end of what a gone client sent.
Arrived(c) == up[c] # <<>> \/ c \in astray
Eof(c) == up[c] = <<>> /\ Gone(c)
TakeFrame(c) == up' = [up EXCEPT ![c] = IF @ = <<>> THEN <<>> ELSE Tail(@)]

\* What the server makes of it, of those texts it could be; at the end of the
\* input there is nothing, and of a client that is astray anything.
Texts(c, possible) ==
  IF c \in astray THEN possible \cup {"wrong"}
  ELSE IF up[c] = <<>> THEN {"wrong"} ELSE {Head(up[c])}

\* A length that is none: read(clnt_sock, &msg, len) and msg[len] may go beyond
\* msg, which can end the process.
Lengthless(c) == IF c \in astray THEN proc' \in {"up", "killed"} ELSE UNCHANGED proc

-----------------------------------------------------------------------------
(* The main thread. *)

\* accept's -1 is not looked at; it is returned when descriptors have run out,
\* and what main writes and reads then goes nowhere.
Accept ==
  /\ mpc = "accept"
  /\ \E c \in backlog :
       /\ cur' = c
       /\ backlog' = backlog \ {c}
       /\ down' = [down EXCEPT ![c] = Append(@, [kind |-> "prompt", data |-> {}])]
  /\ mpc' = "role"
  /\ UNCHANGED <<log, proc, clientVars, up, tpc, sid, at, buf, found, pend, base>>

\* Variant: no thread is created for a searcher.
HelpersOnly(role) == IF role = "helper" THEN "menu" ELSE "none"

\* The threads start by writing to the client: the menu or the question.
ThreadOf(role) ==
  CASE role = "helper"   -> "menu"
    [] role = "searcher" -> "ask"
    [] OTHER             -> "none"

\* The role is one read; of a client that has left nothing is read.
ReadRole ==
  /\ mpc = "role"
  /\ Arrived(cur) \/ Eof(cur)
  /\ \E role \in Texts(cur, {"helper", "searcher"}) :
       tpc' = [tpc EXCEPT ![cur] = ThreadOf(role)]
  /\ TakeFrame(cur)
  /\ mpc' = "accept"
  /\ UNCHANGED <<log, proc, cur, clientVars, backlog, down, sid, at, buf,
                 found, pend, base>>

-----------------------------------------------------------------------------
(* The thread of connection c. *)

Goto(c, pc) == tpc' = [tpc EXCEPT ![c] = pc]
scanVars == <<sid, at, buf, found, base>>

SendMenu(c) ==
  /\ tpc[c] = "menu"
  /\ SendFrame(c, "menu", {})
  /\ Goto(c, "choice")
  /\ UNCHANGED <<log, mpc, cur, clientVars, backlog, up, scanVars, pend>>

\* switch(atoi(msg)): anything but 1 and 2 ends the thread without a word.
ReadChoice(c) ==
  /\ tpc[c] = "choice"
  /\ Arrived(c) \/ Eof(c)
  /\ \E choice \in Texts(c, {"register", "search"}) :
       \/ choice = "register" /\ SendFrame(c, "format", {}) /\ Goto(c, "record")
       \/ choice = "search" /\ Goto(c, "ask") /\ UNCHANGED <<proc, down>>
       \/ choice = "wrong" /\ Goto(c, "done") /\ UNCHANGED <<proc, down>>
  /\ TakeFrame(c)
  /\ UNCHANGED <<log, mpc, cur, clientVars, backlog, scanVars, pend>>

\* Variant: the position is that of the last record, not the end.
LastSlot == IF log = <<>> THEN 1 ELSE Len(log)

EndSlot == Len(log) + 1

\* Variant: a record is kept of a client that left without sending one.
BlankOrRecord(text) == [slot |-> EndSlot, id |-> IF text = "wrong" THEN NoId ELSE text]

Record(text) == IF text = "wrong" THEN NoPend ELSE [slot |-> EndSlot, id |-> text]

\* The record is read, and under fmutex sought to the end and put into the
\* buffer; of a client that is gone nothing is written.
Register(c) ==
  /\ tpc[c] = "record"
  /\ Arrived(c) \/ Eof(c)
  /\ \E text \in Texts(c, Id) : pend' = [pend EXCEPT ![c] = Record(text)]
  /\ TakeFrame(c)
  /\ Lengthless(c)
  /\ base' = [base EXCEPT ![c] = log]
  /\ Goto(c, "reply")
  /\ UNCHANGED <<log, mpc, cur, clientVars, backlog, down, sid, at, buf, found>>

Reply(c) ==
  /\ tpc[c] = "reply"
  /\ SendFrame(c, "ack", {})
  /\ Goto(c, "close")
  /\ UNCHANGED <<log, mpc, cur, clientVars, backlog, up, scanVars, pend>>

\* fclose(Log) writes the buffer where fseek left the file position.
CloseLog(c) ==
  /\ tpc[c] = "close"
  /\ LET r == [id |-> pend[c].id, by |-> c] IN
       log' = IF pend[c] = NoPend THEN log
              ELSE IF pend[c].slot <= Len(log)
              THEN [log EXCEPT ![pend[c].slot] = r]
              ELSE Append(log, r)
  /\ Goto(c, "done")
  /\ UNCHANGED <<proc, mpc, cur, clientVars, backlog, up, down, scanVars, pend>>

AskId(c) ==
  /\ tpc[c] = "ask"
  /\ SendFrame(c, "ask", {})
  /\ Goto(c, "id")
  /\ UNCHANGED <<log, mpc, cur, clientVars, backlog, up, scanVars, pend>>

ReadId(c) ==
  /\ tpc[c] = "id"
  /\ Arrived(c) \/ Eof(c)
  /\ \E text \in Texts(c, Id) :
       sid' = [sid EXCEPT ![c] = IF text = "wrong" THEN NoId ELSE text]
  /\ TakeFrame(c)
  /\ Lengthless(c)
  /\ base' = [base EXCEPT ![c] = log]
  /\ Goto(c, "scan")
  /\ UNCHANGED <<log, mpc, cur, clientVars, backlog, down, at, buf, found, pend>>

\* Variant: a fill starts behind the record the last one ended with.
FillSkipping(c) ==
  SubSeq(log, at[c] + 1, IF at[c] + BufRecs < Len(log) THEN at[c] + BufRecs
                                                       ELSE Len(log))

\* What fgets has to read from: the buffer, filled again when it is empty.
Fill(c) ==
  SubSeq(log, at[c], IF at[c] + BufRecs - 1 < Len(log) THEN at[c] + BufRecs - 1
                                                       ELSE Len(log))

\* One fgets under fmutex, and the comparison of what it got.
Scan(c) ==
  /\ tpc[c] = "scan"
  /\ LET b == IF buf[c] = <<>> THEN Fill(c) ELSE buf[c] IN
       IF b = <<>>
       THEN Goto(c, "flag") /\ UNCHANGED <<at, buf, found>>
       ELSE /\ found' = [found EXCEPT ![c] =
                           @ \cup IF Head(b).id = sid[c] THEN {Head(b)} ELSE {}]
            /\ buf' = [buf EXCEPT ![c] = Tail(b)]
            /\ at' = [at EXCEPT ![c] = @ + 1]
            /\ UNCHANGED tpc
  /\ UNCHANGED <<log, proc, mpc, cur, clientVars, backlog, up, down, sid, base,
                 pend>>

\* Variant: nothing is said when nothing was found.
HasAnswerIfFound(c) == found[c] # {}

HasAnswer(c) == TRUE

\* write(flag), and then write(len) and write(msg), found or not.
AnswerFlag(c) ==
  /\ tpc[c] = "flag"
  /\ IF HasAnswer(c) THEN SendFrame(c, "flag", found[c]) ELSE UNCHANGED <<proc, down>>
  /\ Goto(c, "text")
  /\ UNCHANGED <<log, mpc, cur, clientVars, backlog, up, scanVars, pend>>

AnswerText(c) ==
  /\ tpc[c] = "text"
  /\ SendFrame(c, "text", found[c])
  /\ Goto(c, "done")
  /\ UNCHANGED <<log, mpc, cur, clientVars, backlog, up, scanVars, pend>>

ThreadNext(c) ==
  \/ SendMenu(c) \/ ReadChoice(c) \/ Register(c) \/ Reply(c) \/ CloseLog(c)
  \/ AskId(c) \/ ReadId(c) \/ Scan(c) \/ AnswerFlag(c) \/ AnswerText(c)

MainNext == Accept \/ ReadRole

Next ==
  /\ proc = "up"
  /\ \/ MainNext
     \/ \E c \in Conn : ThreadNext(c) \/ ClientNext(c)

Spec == Init /\ [][Next]_vars

\* Every thread runs, and a client reads what has come to it; nobody has to
\* connect or to type.  A thread and a client that are astray may wait for the
\* bytes of a length that nobody has written.
FairSpec ==
  /\ Spec
  /\ WF_vars(proc = "up" /\ MainNext)
  /\ \A c \in Conn :
       /\ WF_vars(proc = "up" /\ c \notin astray /\ ThreadNext(c))
       /\ WF_vars(proc = "up" /\ c \notin astray /\ Read(c))

-----------------------------------------------------------------------------
(* Properties. *)

\* The two programs stay in step: what a client reads is what it takes it
\* for, whatever it chose and however often it was wrong; unless it typed
\* what the two read differently, or one text behind another that the server
\* had not read.
InStep ==
  \A c \in Conn \ astray :
    cpc[c] \in Reading /\ down[c] # <<>> => Head(down[c]).kind = cpc[c]

\* Who may take the server down with it: a client that was killed, one that
\* found nothing and so leaves before the server has written all, and one that
\* is astray.
Killer(c) ==
  \/ cpc[c] = "dead"
  \/ cpc[c] = "end" /\ tpc[c] = "done" /\ found[c] = {} /\ sid[c] # NoId
  \/ c \in astray

KeptIn(file, c) == \E k \in 1..Len(file) : file[k].by = c
InLog(c) == KeptIn(log, c)

\* A record that was taken is lost only to a registration that overlapped with
\* it, each of the two having sought the end of the file before the other one
\* had closed it; or because another client took the server down before
\* fclose, when its own may have been told that its input is complete.
LossHasACause ==
  \A c \in Conn :
    pend[c] # NoPend /\ ~InLog(c) /\ (tpc[c] = "done" \/ proc = "killed")
      => \/ \E d \in Conn \ {c} :
              InLog(d) /\ ~KeptIn(base[d], c) /\ ~KeptIn(base[c], d)
         \/ proc = "killed" /\ tpc[c] # "done" /\ \E d \in Conn : Killer(d)

\* A search finds every record with its id that was in the file when it was
\* asked for and is there still, however the file grew and was refilled from.
SearchIsComplete ==
  \A c \in Conn : tpc[c] = "flag" =>
    \A k \in 1..Len(base[c]) :
      base[c][k].id = sid[c] /\ log[k] = base[c][k] => log[k] \in found[c]

\* The server ends only by one of those clients.
DeathHasACause == proc = "killed" => \E c \in Conn : Killer(c)

\* main waits for a user to type a role, and accepts nobody meanwhile.
Held == mpc = "role" /\ cpc[cur] = "role" /\ up[cur] = <<>>

\* Whoever waits for the server hears from it: for the prompt, unless a user
\* who types no role keeps main for ever; later, unless the client has typed
\* what is no choice, after which the server does not ask again.  (Of an answer
\* it hears both the flag and the text.)
WaitingIsServed ==
  \/ <>[]Held
  \/ \A c \in Conn : cpc[c] \in Reading
       ~> cpc[c] \notin Reading \/ wrong[c] > 0 \/ proc = "killed"
=============================================================================
