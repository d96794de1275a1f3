--------------------------- MODULE HelpDeskProofs ---------------------------
(***************************************************************************)
(* Proofs about HelpDesk, for any number of clients and ids, buffers of    *)
(* any size and any number of wrong choices: that the programs stay in     *)
(* step, what ends the server, which records are lost and which are found. *)
(***************************************************************************)
EXTENDS HelpDesk, SequenceTheorems, TLAPS

USE DEF serverVars, clientVars, scanVars

-----------------------------------------------------------------------------
(* The conversation.  Where the server is with a client says what is on its *)
(* way in either direction, and where the client is, unless it is dead.     *)

Asked(c) == mpc = "role" /\ cur = c

\* A connection is handed from the backlog to main and from main to its thread.
Handed ==
  /\ mpc = "role" => cur \in Conn
  /\ \A c \in Conn : cpc[c] = "new" => c \notin backlog /\ ~Asked(c)
  /\ \A c \in backlog : ~Asked(c)
  /\ \A c \in Conn : Asked(c) \/ c \in backlog \/ cpc[c] = "new" => tpc[c] = "none"

Stray(c) == up[c] # <<>> /\ Head(up[c]) = "wrong"

\* What may be on its way to the server, from a dead client too.
UpFits(c) ==
  /\ \/ c \in backlog \/ cpc[c] = "new"
     \/ tpc[c] \in {"menu", "reply", "close", "ask", "scan", "flag", "text"}
     => up[c] = <<>>
  /\ Asked(c) => up[c] = <<>> \/ Stray(c) \/ up[c] \in {<<"helper">>, <<"searcher">>}
  /\ tpc[c] = "choice" => up[c] = <<>> \/ Stray(c) \/ up[c] \in {<<"register">>, <<"search">>}
  /\ tpc[c] \in {"record", "id"} => up[c] = <<>> \/ \E i \in Id : up[c] = <<i>>

Frame(k, d) == [kind |-> k, data |-> d]

\* The client waits, with nothing under way, is about to read what it expects,
\* has made no good choice yet, or has made one.
Waits(c, p) == cpc[c] = p /\ up[c] = <<>> /\ down[c] = <<>>
Told(c, p) == cpc[c] = p /\ up[c] = <<>> /\ down[c] = <<Frame(p, {})>>
Chooses(c, p) == cpc[c] = p /\ down[c] = <<>> /\ (up[c] = <<>> \/ Stray(c))
Chose(c, p, choice) == cpc[c] = p /\ down[c] = <<>> /\ up[c] = <<choice>>
Gave(c, p) == cpc[c] = p /\ down[c] = <<>> /\ \E i \in Id : up[c] = <<i>>

Unserved(c) == tpc[c] = "none" /\ ~Asked(c) /\ c \notin backlog /\ cpc[c] # "new"

AnswerFits(c) ==
  /\ sid[c] \in Id /\ up[c] = <<>>
  /\ \/ cpc[c] = "flag" /\ down[c] = <<Frame("flag", found[c])>>
     \/ cpc[c] = "text" /\ down[c] = <<>>
     \/ cpc[c] = "end" /\ down[c] = <<>> /\ found[c] = {}

DoneFits(c) ==
  \/ cpc[c] \in {"choice", "format", "ask"} /\ down[c] = <<>>
  \/ cpc[c] = "ack" /\ down[c] = <<Frame("ack", {})>>
  \/ cpc[c] = "flag" /\ down[c] = <<Frame("flag", found[c]), Frame("text", found[c])>>
  \/ cpc[c] = "text" /\ down[c] = <<Frame("text", found[c])>>
  \/ cpc[c] = "end"

LiveFits(c) ==
  cpc[c] # "dead" =>
    /\ cpc[c] = "new" => Waits(c, "new")
    /\ c \in backlog => Waits(c, "prompt")
    /\ Asked(c) => \/ Told(c, "prompt") \/ Chooses(c, "role")
                   \/ Chose(c, "menu", "helper") \/ Chose(c, "ask", "searcher")
    /\ Unserved(c) => cpc[c] \in {"role", "menu", "ask"} /\ down[c] = <<>>
    /\ tpc[c] = "menu" => Waits(c, "menu")
    /\ tpc[c] = "choice" => \/ Told(c, "menu") \/ Chooses(c, "choice")
                            \/ Chose(c, "format", "register") \/ Chose(c, "ask", "search")
    /\ tpc[c] = "record" => Told(c, "format") \/ Waits(c, "record") \/ Gave(c, "ack")
    /\ tpc[c] = "reply" => Waits(c, "ack")
    /\ tpc[c] = "close" => Told(c, "ack") \/ Waits(c, "end")
    /\ tpc[c] = "ask" => Waits(c, "ask")
    /\ tpc[c] = "id" => Told(c, "ask") \/ Waits(c, "id") \/ Gave(c, "flag")
    /\ tpc[c] \in {"scan", "flag"} => Waits(c, "flag") /\ sid[c] \in Id
    /\ tpc[c] = "text" => AnswerFits(c)
    /\ tpc[c] = "done" => DoneFits(c)

\* Of a client that is astray nothing is said.
Fits(c) == c \notin astray => UpFits(c) /\ LiveFits(c)

Talk == Handed /\ \A c \in Conn : Fits(c)

TalkInv == TypeOK /\ Talk /\ DeathHasACause

-----------------------------------------------------------------------------
(* The file.  A registered record has one slot, behind what the file had    *)
(* when its thread sought the end; nobody else's record is ever there but   *)
(* one with the same slot.                                                  *)

\* Whose records a file holds: they have been closed, each is in its slot.
Placed(file) ==
  \A k \in 1..Len(file) : file[k].by \in Conn =>
    LET d == file[k].by IN tpc[d] = "done" /\ pend[d] # NoPend /\ pend[d].slot = k

Slots ==
  \A c \in Conn : pend[c] # NoPend =>
    /\ tpc[c] \in {"reply", "close", "done"}
    /\ pend[c].slot = Len(base[c]) + 1 /\ pend[c].id \in Id
    /\ tpc[c] = "done" => pend[c].slot <= Len(log) /\ log[pend[c].slot].by \in Conn

FileInv ==
  /\ Placed(log) /\ Slots
  /\ \A c \in Conn : Placed(base[c]) /\ Len(base[c]) <= Len(log)

-----------------------------------------------------------------------------
(* The search.  What was in the file at its start and is there still has    *)
(* been compared, is in the buffer, or is to be read.                       *)

Still(c, k) == k <= Len(base[c]) /\ log[k] = base[c][k]

Compared(c, n) ==
  \A k \in 1..n : Still(c, k) /\ base[c][k].id = sid[c] => log[k] \in found[c]

ScanInv ==
  \A c \in Conn :
    /\ tpc[c] \in {"none", "menu", "choice", "ask", "id"} => at[c] = 1 /\ buf[c] = <<>> /\ found[c] = {}
    /\ tpc[c] = "scan" =>
         /\ Compared(c, at[c] - 1)
         /\ \A j \in 1..Len(buf[c]) : Still(c, at[c] + j - 1) => buf[c][j] = log[at[c] + j - 1]
    /\ tpc[c] = "flag" => Compared(c, Len(base[c]))
-----------------------------------------------------------------------------
(* Queues of frames. *)

LEMMA OneFrame ==
  ASSUME NEW x
  PROVE  /\ Head(<<x>>) = x /\ Tail(<<x>>) = <<>> /\ <<x>> # <<>> /\ Append(<<>>, x) = <<x>>
OBVIOUS

LEMMA TwoFrames ==
  ASSUME NEW x, NEW y
  PROVE  /\ Head(<<x, y>>) = x /\ Tail(<<x, y>>) = <<y>> /\ <<x, y>> # <<>>
         /\ Append(<<x>>, y) = <<x, y>>
<1>1. /\ Head(<<x, y>>) = x /\ Tail(<<x, y>>) = <<y>> /\ <<x, y>> # <<>>
  OBVIOUS
<1> DEFINE S == {x, y}
<1>2. /\ <<x>> \in Seq(S) /\ Len(<<x>>) = 1 /\ <<x>>[1] = x /\ y \in S
      /\ <<x, y>> \in Seq(S) /\ Len(<<x, y>>) = 2 /\ <<x, y>>[1] = x /\ <<x, y>>[2] = y
  OBVIOUS
<1> HIDE DEF S
<1>3. /\ Append(<<x>>, y) \in Seq(S) /\ Len(Append(<<x>>, y)) = Len(<<x>>) + 1
      /\ Append(<<x>>, y)[Len(<<x>>) + 1] = y
      /\ \A i \in 1..Len(<<x>>) : Append(<<x>>, y)[i] = <<x>>[i]
  BY <1>2, AppendProperties
<1>4. Append(<<x>>, y)[1] = x /\ Append(<<x>>, y)[2] = y /\ Len(Append(<<x>>, y)) = 2
  BY <1>2, <1>3
<1>5. Append(<<x>>, y) = <<x, y>>
  <2>1. \A i \in 1..2 : i = 1 \/ i = 2
    OBVIOUS
  <2> QED BY <1>2, <1>3, <1>4, <2>1, SeqEqual
<1> QED BY <1>1, <1>5

\* Typing: of what a client that is not astray then has typed, all else has
\* been read.
LEMMA Typed ==
  ASSUME TypeOK, NEW c \in Conn, NEW x, NEW n, Write(c, x, n)
  PROVE  /\ cpc'[c] = n
         /\ c \notin astray' => /\ c \notin astray /\ up[c] = <<>>
                                /\ up'[c] = <<x>> /\ down' = down
<1>1. cpc'[c] = n
  BY DEF Write, TypeOK
<1>2. CASE up[c] = <<>> /\ c \notin astray
  BY <1>1, <1>2 DEF Write, TypeOK
<1>3. CASE ~(up[c] = <<>> /\ c \notin astray)
  BY <1>1, <1>3 DEF Write, GoAstray
<1> QED BY <1>2, <1>3

\* Taking what has arrived.
LEMMA Taken ==
  ASSUME TypeOK, NEW c \in Conn, TakeFrame(c)
  PROVE  /\ up[c] = <<>> => up'[c] = <<>>
         /\ \A x : up[c] = <<x>> => up'[c] = <<>> /\ Head(up[c]) = x
         /\ \A d \in Conn \ {c} : up'[d] = up[d]
<1>1. up \in [Conn -> Seq({"helper", "searcher", "register", "search", "wrong"} \cup Id)]
  BY DEF TypeOK
<1>2. /\ up'[c] = IF up[c] = <<>> THEN up[c] ELSE Tail(up[c])
      /\ \A d \in Conn \ {c} : up'[d] = up[d]
  BY <1>1 DEF TakeFrame
<1>3. ASSUME NEW x, up[c] = <<x>> PROVE up'[c] = <<>> /\ Head(up[c]) = x
  BY <1>2, <1>3, OneFrame
<1> QED BY <1>2, <1>3

\* A frame for the client.  Only for one that has gone is it the death of the
\* server.
LEMMA Sent ==
  ASSUME TypeOK, proc = "up", NEW c \in Conn, NEW k, NEW d, SendFrame(c, k, d)
  PROVE  /\ ~Gone(c) => proc' = "up"
         /\ ~Gone(c) /\ c \notin astray => down'[c] = Append(down[c], Frame(k, d))
         /\ Gone(c) => down' = down
         /\ \A e \in Conn \ {c} : down'[e] = down[e]
         /\ proc' \in {"up", "killed"}
<1>1. down \in [Conn -> Seq([kind : Reading, data : SUBSET Rec])]
  BY DEF TypeOK
<1> QED BY <1>1 DEF SendFrame, Frame

-----------------------------------------------------------------------------
(* The conversation, step by step. *)

LEMMA UntouchedFits ==
  ASSUME NEW d \in Conn, Fits(d),
         cpc'[d] = cpc[d], up'[d] = up[d], down'[d] = down[d], tpc'[d] = tpc[d],
         found'[d] = found[d], sid'[d] = sid[d], d \in astray' <=> d \in astray,
         d \in backlog' <=> d \in backlog, Asked(d)' <=> Asked(d)
  PROVE  Fits(d)'
<1>1. CASE d \in astray
  BY <1>1 DEF Fits
<1>2. CASE d \notin astray
  <2>1. UpFits(d) /\ LiveFits(d)
    BY <1>2 DEF Fits
  <2>2. UpFits(d)'
    BY <2>1 DEF UpFits, Stray
  <2>3. Unserved(d)' <=> Unserved(d)
    BY DEF Unserved
  <2>4. LiveFits(d)'
    BY <2>1, <2>3 DEF LiveFits, Waits, Told, Chooses, Chose, Gave, AnswerFits, DoneFits, Stray, Frame
  <2> QED BY <2>2, <2>4 DEF Fits
<1> QED BY <1>1, <1>2

\* A thread serves one connection.
LEMMA ThreadOthers ==
  ASSUME TypeOK, Talk, proc = "up", NEW c \in Conn, ThreadNext(c)
  PROVE  /\ UNCHANGED <<mpc, cur, cpc, astray, backlog>>
         /\ tpc[c] # "none" /\ ~Asked(c) /\ c \notin backlog /\ cpc[c] # "new"
         /\ \A d \in Conn \ {c} : Fits(d)'
         /\ Handed'
<1>1. /\ UNCHANGED <<mpc, cur, cpc, astray, backlog>> /\ tpc[c] # "none"
  BY DEF ThreadNext, SendMenu, ReadChoice, Register, Reply, CloseLog, AskId, ReadId, Scan,
         AnswerFlag, AnswerText, Goto
<1>2. ~Asked(c) /\ c \notin backlog /\ cpc[c] # "new"
  BY <1>1 DEF Talk, Handed
<1>3. /\ tpc \in [Conn -> {"none", "menu", "ask", "choice", "record", "reply",
                           "close", "id", "scan", "flag", "text", "done"}]
      /\ sid \in [Conn -> Id \cup {NoId}] /\ found \in [Conn -> SUBSET Rec]
  BY DEF TypeOK
<1>4. \E pc : tpc' = [tpc EXCEPT ![c] = pc]
  <2>1. tpc = [tpc EXCEPT ![c] = tpc[c]]
    BY <1>3
  <2> QED BY <2>1 DEF ThreadNext, SendMenu, ReadChoice, Register, Reply, CloseLog, AskId, ReadId, Scan,
         AnswerFlag, AnswerText, Goto
<1>5. ASSUME NEW d \in Conn, d # c
      PROVE  tpc'[d] = tpc[d] /\ sid'[d] = sid[d] /\ found'[d] = found[d]
  <2>1. tpc'[d] = tpc[d]
    BY <1>3, <1>4, <1>5
  <2>2. sid'[d] = sid[d] /\ found'[d] = found[d]
    BY <1>3, <1>5 DEF ThreadNext, SendMenu, ReadChoice, Register, Reply, CloseLog, AskId, ReadId, Scan,
         AnswerFlag, AnswerText
  <2> QED BY <2>1, <2>2
<1>6. ASSUME NEW d \in Conn, d # c PROVE up'[d] = up[d] /\ down'[d] = down[d]
  <2>1. UNCHANGED up \/ TakeFrame(c)
    BY DEF ThreadNext, SendMenu, ReadChoice, Register, Reply, CloseLog, AskId, ReadId, Scan,
           AnswerFlag, AnswerText
  <2>2. UNCHANGED down \/ \E k, e : SendFrame(c, k, e)
    BY DEF ThreadNext, SendMenu, ReadChoice, Register, Reply, CloseLog, AskId, ReadId, Scan,
           AnswerFlag, AnswerText
  <2>3. up'[d] = up[d]
    BY <1>6, <2>1, Taken
  <2>4. down'[d] = down[d]
    BY <1>6, <2>2, Sent
  <2> QED BY <2>3, <2>4
<1>7. ASSUME NEW d \in Conn, d # c PROVE Fits(d)'
  <2>1. Fits(d) /\ (Asked(d)' <=> Asked(d))
    BY <1>1 DEF Talk, Asked
  <2> QED BY <1>1, <1>5, <1>6, <1>7, <2>1, UntouchedFits
<1>8. Handed'
  BY <1>1, <1>2, <1>5 DEF Talk, Handed, Asked
<1> QED BY <1>1, <1>2, <1>7, <1>8

\* A frame sent to a client that is there, or dead, explains itself.
LEMMA SentInPeace ==
  ASSUME TypeOK, proc = "up", NEW c \in Conn, NEW k, NEW d, SendFrame(c, k, d),
         cpc' = cpc, cpc[c] # "dead" => ~Gone(c)
  PROVE  DeathHasACause'
<1>1. proc' = "killed" => Gone(c)
  BY Sent
<1>2. proc' = "killed" => cpc'[c] = "dead"
  BY <1>1
<1> QED BY <1>2 DEF DeathHasACause, Killer

\* The one who waits gets the frame, and nothing else is under way.
LEMMA SentToWaiting ==
  ASSUME TypeOK, proc = "up", NEW c \in Conn, NEW k, NEW d, SendFrame(c, k, d),
         cpc' = cpc, c \notin astray, NEW p \in Reading, cpc[c] = p, down[c] = <<>>
  PROVE  cpc'[c] = p /\ down'[c] = <<Frame(k, d)>>
<1>1. ~Gone(c)
  BY DEF Gone, Reading
<1>2. down'[c] = Append(down[c], Frame(k, d))
  BY <1>1, Sent
<1> QED BY <1>2, OneFrame

\* A thread that sends nothing kills nobody.
LEMMA QuietIsSafe ==
  ASSUME proc = "up", proc' = proc
  PROVE  DeathHasACause'
BY DEF DeathHasACause

LEMMA SendMenuTalk ==
  ASSUME TypeOK, Talk, proc = "up", NEW c \in Conn, c \notin astray, SendMenu(c)
  PROVE  UpFits(c)' /\ LiveFits(c)' /\ DeathHasACause'
<1>1. /\ cpc' = cpc /\ ~Asked(c)' /\ c \notin backlog' /\ cpc'[c] # "new"
  BY ThreadOthers DEF ThreadNext, Asked
<1>2. tpc'[c] = "choice" /\ tpc[c] = "menu" /\ up' = up /\ SendFrame(c, "menu", {})
  BY DEF SendMenu, Goto, TypeOK
<1>3. up[c] = <<>> /\ (cpc[c] # "dead" => Waits(c, "menu"))
  BY <1>2 DEF Talk, Fits, UpFits, LiveFits
<1>4. cpc[c] # "dead" => Told(c, "menu")'
  BY <1>1, <1>2, <1>3, SentToWaiting DEF Waits, Told, Reading, Frame
<1>5. UpFits(c)'
  BY <1>1, <1>2, <1>3 DEF UpFits
<1>6. LiveFits(c)'
  BY <1>1, <1>2, <1>4 DEF LiveFits, Unserved
<1>7. DeathHasACause'
  BY <1>1, <1>2, <1>3, SentInPeace DEF Waits, Gone
<1> QED BY <1>5, <1>6, <1>7

LEMMA ReadChoiceTalk ==
  ASSUME TypeOK, Talk, proc = "up", NEW c \in Conn, c \notin astray, ReadChoice(c)
  PROVE  UpFits(c)' /\ LiveFits(c)' /\ DeathHasACause'
<1>1. /\ cpc' = cpc /\ ~Asked(c)' /\ c \notin backlog' /\ cpc'[c] # "new"
  BY ThreadOthers DEF ThreadNext, Asked
<1>2. tpc[c] = "choice" /\ TakeFrame(c)
  BY DEF ReadChoice
<1>3. up[c] = <<>> \/ Stray(c) \/ up[c] = <<"register">> \/ up[c] = <<"search">>
  BY <1>2 DEF Talk, Fits, UpFits
<1>4. cpc[c] # "dead" => \/ Told(c, "menu") \/ Chooses(c, "choice")
                         \/ Chose(c, "format", "register") \/ Chose(c, "ask", "search")
  BY <1>2 DEF Talk, Fits, LiveFits
<1>5. \A x : up[c] = <<x>> => up'[c] = <<>> /\ Head(up[c]) = x
  BY <1>2, Taken
<1>6. cpc[c] # "dead" => ~Gone(c)
  BY <1>4 DEF Gone, Told, Chooses, Chose
<1>7. ASSUME up[c] # <<>>, Head(up[c]) = "register", SendFrame(c, "format", {}), Goto(c, "record")
      PROVE  UpFits(c)' /\ LiveFits(c)' /\ DeathHasACause'
  <2>1. tpc'[c] = "record"
    BY <1>7 DEF Goto, TypeOK
  <2>2. up[c] = <<"register">> /\ up'[c] = <<>>
    BY <1>3, <1>5, <1>7 DEF Stray
  <2>3. cpc[c] # "dead" => cpc[c] = "format" /\ down[c] = <<>>
    BY <1>4, <1>5, <1>7, <2>2 DEF Told, Chooses, Chose, Stray
  <2>4. cpc[c] # "dead" => Told(c, "format")'
    BY <1>1, <1>7, <2>2, <2>3, SentToWaiting DEF Told, Reading, Frame
  <2>5. UpFits(c)'
    BY <1>1, <2>1, <2>2 DEF UpFits
  <2>6. LiveFits(c)'
    BY <1>1, <2>1, <2>4 DEF LiveFits, Unserved
  <2> QED BY <1>1, <1>6, <1>7, <2>5, <2>6, SentInPeace
<1>8. ASSUME up[c] # <<>>, Head(up[c]) = "search", Goto(c, "ask"), UNCHANGED <<proc, down>>
      PROVE  UpFits(c)' /\ LiveFits(c)' /\ DeathHasACause'
  <2>1. tpc'[c] = "ask"
    BY <1>8 DEF Goto, TypeOK
  <2>2. up[c] = <<"search">> /\ up'[c] = <<>>
    BY <1>3, <1>5, <1>8 DEF Stray
  <2>3. cpc[c] # "dead" => Waits(c, "ask")'
    BY <1>1, <1>4, <1>5, <1>8, <2>2 DEF Told, Chooses, Chose, Stray, Waits
  <2>4. UpFits(c)'
    BY <1>1, <2>1, <2>2 DEF UpFits
  <2>5. LiveFits(c)'
    BY <1>1, <2>1, <2>3 DEF LiveFits, Unserved
  <2> QED BY <1>8, <2>4, <2>5, QuietIsSafe
<1>9. ASSUME Eof(c) \/ (up[c] # <<>> /\ Head(up[c]) = "wrong"),
             Goto(c, "done"), UNCHANGED <<proc, down>>
      PROVE  UpFits(c)' /\ LiveFits(c)' /\ DeathHasACause'
  <2>1. tpc'[c] = "done"
    BY <1>9 DEF Goto, TypeOK
  <2>2. cpc[c] # "dead" => Stray(c)
    BY <1>6, <1>9 DEF Eof, Stray
  <2>3. cpc[c] # "dead" => cpc[c] \in {"choice", "format", "ask"} /\ down[c] = <<>>
    BY <1>4, <1>5, <2>2 DEF Told, Chooses, Chose, Stray
  <2>4. cpc[c] # "dead" => DoneFits(c)'
    BY <1>1, <1>9, <2>3 DEF DoneFits
  <2>5. UpFits(c)'
    BY <1>1, <2>1 DEF UpFits
  <2>6. LiveFits(c)'
    BY <1>1, <2>1, <2>4 DEF LiveFits, Unserved
  <2> QED BY <1>9, <2>5, <2>6, QuietIsSafe
<1>10. PICK choice \in Texts(c, {"register", "search"}) :
          \/ choice = "register" /\ SendFrame(c, "format", {}) /\ Goto(c, "record")
          \/ choice = "search" /\ Goto(c, "ask") /\ UNCHANGED <<proc, down>>
          \/ choice = "wrong" /\ Goto(c, "done") /\ UNCHANGED <<proc, down>>
  BY DEF ReadChoice
<1>11. \/ Eof(c) /\ choice = "wrong"
       \/ up[c] # <<>> /\ choice = Head(up[c])
  BY <1>10 DEF ReadChoice, Texts, Arrived, Eof
<1> QED BY <1>7, <1>8, <1>9, <1>10, <1>11

LEMMA RegisterTalk ==
  ASSUME TypeOK, Talk, proc = "up", NEW c \in Conn, c \notin astray, Register(c)
  PROVE  UpFits(c)' /\ LiveFits(c)' /\ DeathHasACause'
<1>1. /\ cpc' = cpc /\ ~Asked(c)' /\ c \notin backlog' /\ cpc'[c] # "new"
  BY ThreadOthers DEF ThreadNext, Asked
<1>2. /\ tpc[c] = "record" /\ TakeFrame(c) /\ tpc'[c] = "reply"
      /\ UNCHANGED <<proc, down>> /\ (Arrived(c) \/ Eof(c))
  BY DEF Register, Lengthless, Goto, TypeOK
<1>3. up[c] = <<>> \/ \E i \in Id : up[c] = <<i>>
  BY <1>2 DEF Talk, Fits, UpFits
<1>4. up'[c] = <<>>
  BY <1>2, <1>3, Taken
<1>5. cpc[c] # "dead" => Told(c, "format") \/ Waits(c, "record") \/ Gave(c, "ack")
  BY <1>2 DEF Talk, Fits, LiveFits
<1>6. cpc[c] # "dead" => Gave(c, "ack")
  BY <1>2, <1>5 DEF Told, Waits, Arrived, Eof, Gone
<1>7. cpc[c] # "dead" => Waits(c, "ack")'
  BY <1>1, <1>2, <1>4, <1>6 DEF Gave, Waits
<1>8. UpFits(c)'
  BY <1>1, <1>2, <1>4 DEF UpFits
<1>9. LiveFits(c)'
  BY <1>1, <1>2, <1>7 DEF LiveFits, Unserved
<1> QED BY <1>2, <1>8, <1>9, QuietIsSafe

LEMMA ReplyTalk ==
  ASSUME TypeOK, Talk, proc = "up", NEW c \in Conn, c \notin astray, Reply(c)
  PROVE  UpFits(c)' /\ LiveFits(c)' /\ DeathHasACause'
<1>1. /\ cpc' = cpc /\ ~Asked(c)' /\ c \notin backlog' /\ cpc'[c] # "new"
  BY ThreadOthers DEF ThreadNext, Asked
<1>2. tpc'[c] = "close" /\ tpc[c] = "reply" /\ up' = up /\ SendFrame(c, "ack", {})
  BY DEF Reply, Goto, TypeOK
<1>3. up[c] = <<>> /\ (cpc[c] # "dead" => Waits(c, "ack"))
  BY <1>2 DEF Talk, Fits, UpFits, LiveFits
<1>4. cpc[c] # "dead" => Told(c, "ack")'
  BY <1>1, <1>2, <1>3, SentToWaiting DEF Waits, Told, Reading, Frame
<1>5. UpFits(c)'
  BY <1>1, <1>2, <1>3 DEF UpFits
<1>6. LiveFits(c)'
  BY <1>1, <1>2, <1>4 DEF LiveFits, Unserved
<1>7. DeathHasACause'
  BY <1>1, <1>2, <1>3, SentInPeace DEF Waits, Gone
<1> QED BY <1>5, <1>6, <1>7

LEMMA CloseLogTalk ==
  ASSUME TypeOK, Talk, proc = "up", NEW c \in Conn, c \notin astray, CloseLog(c)
  PROVE  UpFits(c)' /\ LiveFits(c)' /\ DeathHasACause'
<1>1. /\ cpc' = cpc /\ ~Asked(c)' /\ c \notin backlog' /\ cpc'[c] # "new"
  BY ThreadOthers DEF ThreadNext, Asked
<1>2. tpc'[c] = "done" /\ tpc[c] = "close" /\ up' = up /\ down' = down /\ proc' = proc
  BY DEF CloseLog, Goto, TypeOK
<1>3. cpc[c] # "dead" => Told(c, "ack") \/ Waits(c, "end")
  BY <1>2 DEF Talk, Fits, LiveFits
<1>4. cpc[c] # "dead" => DoneFits(c)'
  BY <1>1, <1>2, <1>3 DEF Waits, Told, DoneFits, Frame
<1>5. UpFits(c)'
  BY <1>1, <1>2 DEF UpFits
<1>6. LiveFits(c)'
  BY <1>1, <1>2, <1>4 DEF LiveFits, Unserved
<1> QED BY <1>2, <1>5, <1>6, QuietIsSafe

LEMMA AskIdTalk ==
  ASSUME TypeOK, Talk, proc = "up", NEW c \in Conn, c \notin astray, AskId(c)
  PROVE  UpFits(c)' /\ LiveFits(c)' /\ DeathHasACause'
<1>1. /\ cpc' = cpc /\ ~Asked(c)' /\ c \notin backlog' /\ cpc'[c] # "new"
  BY ThreadOthers DEF ThreadNext, Asked
<1>2. tpc'[c] = "id" /\ tpc[c] = "ask" /\ up' = up /\ SendFrame(c, "ask", {})
  BY DEF AskId, Goto, TypeOK
<1>3. up[c] = <<>> /\ (cpc[c] # "dead" => Waits(c, "ask"))
  BY <1>2 DEF Talk, Fits, UpFits, LiveFits
<1>4. cpc[c] # "dead" => Told(c, "ask")'
  BY <1>1, <1>2, <1>3, SentToWaiting DEF Waits, Told, Reading, Frame
<1>5. UpFits(c)'
  BY <1>1, <1>2, <1>3 DEF UpFits
<1>6. LiveFits(c)'
  BY <1>1, <1>2, <1>4 DEF LiveFits, Unserved
<1>7. DeathHasACause'
  BY <1>1, <1>2, <1>3, SentInPeace DEF Waits, Gone
<1> QED BY <1>5, <1>6, <1>7

LEMMA ReadIdTalk ==
  ASSUME TypeOK, Talk, proc = "up", NEW c \in Conn, c \notin astray, ReadId(c)
  PROVE  UpFits(c)' /\ LiveFits(c)' /\ DeathHasACause'
<1>1. /\ cpc' = cpc /\ ~Asked(c)' /\ c \notin backlog' /\ cpc'[c] # "new"
  BY ThreadOthers DEF ThreadNext, Asked
<1>2. /\ tpc[c] = "id" /\ TakeFrame(c) /\ tpc'[c] = "scan"
      /\ UNCHANGED <<proc, down>> /\ (Arrived(c) \/ Eof(c))
      /\ \E text \in Texts(c, Id) : sid'[c] = IF text = "wrong" THEN NoId ELSE text
  BY DEF ReadId, Lengthless, Goto, TypeOK
<1>3. up[c] = <<>> \/ \E i \in Id : up[c] = <<i>>
  BY <1>2 DEF Talk, Fits, UpFits
<1>4. up'[c] = <<>>
  BY <1>2, <1>3, Taken
<1>5. cpc[c] # "dead" => Told(c, "ask") \/ Waits(c, "id") \/ Gave(c, "flag")
  BY <1>2 DEF Talk, Fits, LiveFits
<1>6. cpc[c] # "dead" => Gave(c, "flag")
  BY <1>2, <1>5 DEF Told, Waits, Arrived, Eof, Gone
<1>7. cpc[c] # "dead" => Waits(c, "flag")' /\ sid'[c] \in Id
  <2>1. cpc[c] # "dead" => Waits(c, "flag")'
    BY <1>1, <1>2, <1>4, <1>6 DEF Gave, Waits
  <2>2. ASSUME cpc[c] # "dead" PROVE sid'[c] \in Id
    <3>1. PICK i \in Id : up[c] = <<i>>
      BY <1>6, <2>2 DEF Gave
    <3>2. Texts(c, Id) = {i} /\ i # "wrong"
      BY <3>1, OneFrame, HelpDeskAssumption DEF Texts
    <3> QED BY <1>2, <3>2
  <2> QED BY <2>1, <2>2
<1>8. UpFits(c)'
  BY <1>1, <1>2, <1>4 DEF UpFits
<1>9. LiveFits(c)'
  BY <1>1, <1>2, <1>7 DEF LiveFits, Unserved
<1> QED BY <1>2, <1>8, <1>9, QuietIsSafe

LEMMA ScanTalk ==
  ASSUME TypeOK, Talk, proc = "up", NEW c \in Conn, c \notin astray, Scan(c)
  PROVE  UpFits(c)' /\ LiveFits(c)' /\ DeathHasACause'
<1>1. /\ cpc' = cpc /\ ~Asked(c)' /\ c \notin backlog' /\ cpc'[c] # "new"
  BY ThreadOthers DEF ThreadNext, Asked
<1>2. /\ tpc[c] = "scan" /\ tpc'[c] \in {"scan", "flag"}
      /\ UNCHANGED <<proc, up, down, sid>>
  BY DEF Scan, Goto, TypeOK
<1>3. up[c] = <<>> /\ (cpc[c] # "dead" => Waits(c, "flag") /\ sid[c] \in Id)
  BY <1>2 DEF Talk, Fits, UpFits, LiveFits
<1>4. cpc[c] # "dead" => Waits(c, "flag")' /\ sid'[c] \in Id
  BY <1>1, <1>2, <1>3 DEF Waits
<1>5. UpFits(c)'
  BY <1>1, <1>2, <1>3 DEF UpFits
<1>6. LiveFits(c)'
  BY <1>1, <1>2, <1>4 DEF LiveFits, Unserved
<1> QED BY <1>2, <1>5, <1>6, QuietIsSafe

LEMMA AnswerFlagTalk ==
  ASSUME TypeOK, Talk, proc = "up", NEW c \in Conn, c \notin astray, AnswerFlag(c)
  PROVE  UpFits(c)' /\ LiveFits(c)' /\ DeathHasACause'
<1>1. /\ cpc' = cpc /\ ~Asked(c)' /\ c \notin backlog' /\ cpc'[c] # "new"
  BY ThreadOthers DEF ThreadNext, Asked
<1>2. /\ tpc'[c] = "text" /\ tpc[c] = "flag" /\ SendFrame(c, "flag", found[c])
      /\ UNCHANGED <<up, sid, found>>
  BY DEF AnswerFlag, HasAnswer, Goto, TypeOK
<1>3. up[c] = <<>> /\ (cpc[c] # "dead" => Waits(c, "flag") /\ sid[c] \in Id)
  BY <1>2 DEF Talk, Fits, UpFits, LiveFits
<1>4. cpc[c] # "dead" => AnswerFits(c)'
  BY <1>1, <1>2, <1>3, SentToWaiting DEF Waits, AnswerFits, Reading, Frame
<1>5. UpFits(c)'
  BY <1>1, <1>2, <1>3 DEF UpFits
<1>6. LiveFits(c)'
  BY <1>1, <1>2, <1>4 DEF LiveFits, Unserved
<1>7. DeathHasACause'
  BY <1>1, <1>2, <1>3, SentInPeace DEF Waits, Gone
<1> QED BY <1>5, <1>6, <1>7

\* A client that found nothing may be gone when the text is written.
LEMMA AnswerTextTalk ==
  ASSUME TypeOK, Talk, proc = "up", NEW c \in Conn, c \notin astray, AnswerText(c)
  PROVE  UpFits(c)' /\ LiveFits(c)' /\ DeathHasACause'
<1>1. /\ cpc' = cpc /\ ~Asked(c)' /\ c \notin backlog' /\ cpc'[c] # "new"
  BY ThreadOthers DEF ThreadNext, Asked
<1>2. /\ tpc'[c] = "done" /\ tpc[c] = "text" /\ SendFrame(c, "text", found[c])
      /\ UNCHANGED <<up, sid, found>>
  BY DEF AnswerText, Goto, TypeOK
<1>3. cpc[c] # "dead" => AnswerFits(c)
  BY <1>2 DEF Talk, Fits, LiveFits
<1>4. ASSUME cpc[c] = "flag", down[c] = <<Frame("flag", found[c])>> PROVE DoneFits(c)'
  <2>1. down'[c] = Append(down[c], Frame("text", found[c]))
    BY <1>2, <1>4, Sent DEF Gone
  <2>2. down'[c] = <<Frame("flag", found[c]), Frame("text", found[c])>>
    BY <1>4, <2>1, TwoFrames
  <2> QED BY <1>1, <1>2, <1>4, <2>2 DEF DoneFits, Frame
<1>5. ASSUME cpc[c] = "text", down[c] = <<>> PROVE DoneFits(c)'
  BY <1>1, <1>2, <1>5, SentToWaiting DEF DoneFits, Frame, Reading
<1>6. ASSUME cpc[c] = "end" PROVE DoneFits(c)'
  BY <1>1, <1>6 DEF DoneFits
<1>7. cpc[c] # "dead" => DoneFits(c)'
  BY <1>3, <1>4, <1>5, <1>6 DEF AnswerFits
<1>8. UpFits(c)'
  BY <1>1, <1>2 DEF UpFits
<1>9. LiveFits(c)'
  BY <1>1, <1>2, <1>7 DEF LiveFits, Unserved
<1>10. ASSUME proc' = "killed"
       PROVE  cpc'[c] = "dead" \/ (cpc'[c] = "end" /\ tpc'[c] = "done" /\ found'[c] = {} /\ sid'[c] # NoId)
  <2>1. cpc[c] = "end" \/ cpc[c] = "dead"
    BY <1>2, <1>10, Sent DEF Gone
  <2>2. cpc[c] = "end" => found[c] = {} /\ sid[c] \in Id
    BY <1>3 DEF AnswerFits
  <2> QED BY <1>1, <1>2, <2>1, <2>2, HelpDeskAssumption
<1> QED BY <1>8, <1>9, <1>10 DEF DeathHasACause, Killer

\* The thread of a client that is astray may end the server at any read.
LEMMA ThreadTalk ==
  ASSUME TypeOK, Talk, proc = "up", NEW c \in Conn, ThreadNext(c)
  PROVE  Talk' /\ DeathHasACause'
<1>1. Handed' /\ astray' = astray /\ \A d \in Conn \ {c} : Fits(d)'
  BY ThreadOthers
<1>2. CASE c \notin astray
  <2>1. UpFits(c)' /\ LiveFits(c)' /\ DeathHasACause'
    BY <1>2, SendMenuTalk, ReadChoiceTalk, RegisterTalk, ReplyTalk, CloseLogTalk, AskIdTalk,
       ReadIdTalk, ScanTalk, AnswerFlagTalk, AnswerTextTalk DEF ThreadNext
  <2> QED BY <1>1, <2>1 DEF Talk, Fits
<1>3. CASE c \in astray
  BY <1>1, <1>3 DEF Talk, Fits, DeathHasACause, Killer
<1> QED BY <1>2, <1>3

\* Main answers for one client at a time.
LEMMA AcceptTalk ==
  ASSUME TypeOK, Talk, proc = "up", Accept
  PROVE  Talk' /\ DeathHasACause'
<1>1. PICK c \in backlog : /\ cur' = c /\ backlog' = backlog \ {c}
                           /\ down' = [down EXCEPT ![c] = Append(@, Frame("prompt", {}))]
  BY DEF Accept, Frame
<1>2. c \in Conn /\ backlog \subseteq Conn
  BY <1>1 DEF TypeOK
<1>3. /\ mpc = "accept" /\ mpc' = "role"
      /\ UNCHANGED <<proc, cpc, astray, up, tpc, sid, found>>
  BY DEF Accept
<1>4. \A d \in Conn : ~Asked(d) /\ (Asked(d)' <=> d = c)
  BY <1>1, <1>3 DEF Asked
<1>5. cpc[c] # "new" /\ tpc[c] = "none"
  BY <1>1, <1>2 DEF Talk, Handed
<1>6. /\ down'[c] = Append(down[c], Frame("prompt", {}))
      /\ \A d \in Conn \ {c} : down'[d] = down[d]
  BY <1>1, <1>2 DEF TypeOK
<1>7. ASSUME NEW d \in Conn, d # c PROVE Fits(d)'
  <2>1. Fits(d) /\ (d \in backlog' <=> d \in backlog)
    BY <1>1, <1>7 DEF Talk
  <2> QED BY <1>3, <1>4, <1>6, <1>7, <2>1, UntouchedFits
<1>8. ASSUME c \notin astray PROVE UpFits(c)' /\ LiveFits(c)'
  <2>1. UpFits(c) /\ LiveFits(c)
    BY <1>2, <1>8 DEF Talk, Fits
  <2>2. up[c] = <<>> /\ (cpc[c] # "dead" => Waits(c, "prompt"))
    BY <1>1, <2>1 DEF UpFits, LiveFits
  <2>3. cpc[c] # "dead" => Told(c, "prompt")'
    BY <1>3, <1>6, <2>2, OneFrame DEF Waits, Told, Frame
  <2>4. UpFits(c)'
    BY <1>1, <1>3, <1>5, <2>2 DEF UpFits
  <2>5. LiveFits(c)'
    BY <1>1, <1>2, <1>3, <1>4, <1>5, <2>3 DEF LiveFits, Unserved
  <2> QED BY <2>4, <2>5
<1>9. Handed'
  BY <1>1, <1>2, <1>3, <1>4, <1>5 DEF Talk, Handed
<1>10. Fits(c)'
  BY <1>3, <1>8 DEF Fits
<1> QED BY <1>3, <1>7, <1>9, <1>10, QuietIsSafe DEF Talk

LEMMA ReadRoleTalk ==
  ASSUME TypeOK, Talk, proc = "up", ReadRole
  PROVE  Talk' /\ DeathHasACause'
<1> DEFINE c == cur
<1>1. c \in Conn /\ Asked(c) /\ mpc' = "accept" /\ c' = c
  BY DEF ReadRole, Talk, Handed, Asked
<1>2. /\ UNCHANGED <<proc, cpc, astray, backlog, down, sid, found>>
      /\ TakeFrame(c) /\ (Arrived(c) \/ Eof(c))
  BY DEF ReadRole
<1>3. /\ \E role \in Texts(c, {"helper", "searcher"}) : tpc'[c] = ThreadOf(role)
      /\ \A d \in Conn \ {c} : tpc'[d] = tpc[d]
  BY <1>1 DEF ReadRole, TypeOK
<1>4. \A d \in Conn : ~Asked(d)' /\ (Asked(d) => d = c)
  BY <1>1 DEF Asked
<1>5. cpc[c] # "new" /\ c \notin backlog /\ backlog \subseteq Conn
  BY <1>1 DEF Talk, Handed, TypeOK
<1> HIDE DEF c
<1>6. ASSUME NEW d \in Conn, d # c PROVE Fits(d)'
  <2>1. Fits(d) /\ (Asked(d)' <=> Asked(d))
    BY <1>4, <1>6 DEF Talk
  <2>2. up'[d] = up[d]
    BY <1>1, <1>2, <1>6, Taken
  <2> QED BY <1>2, <1>3, <1>6, <2>1, <2>2, UntouchedFits
<1>7. c \notin astray => up[c] = <<>> \/ Stray(c) \/ up[c] = <<"helper">> \/ up[c] = <<"searcher">>
  BY <1>1 DEF Talk, Fits, UpFits
<1>8. c \notin astray /\ cpc[c] # "dead" => \/ Told(c, "prompt") \/ Chooses(c, "role")
                         \/ Chose(c, "menu", "helper") \/ Chose(c, "ask", "searcher")
  BY <1>1 DEF Talk, Fits, LiveFits
<1>9. /\ \A x : up[c] = <<x>> => up'[c] = <<>> /\ Head(up[c]) = x
      /\ up[c] = <<>> => up'[c] = <<>>
  BY <1>1, <1>2, Taken
<1>10. ASSUME c \notin astray, up[c] = <<>> PROVE UpFits(c)' /\ LiveFits(c)'
  <2>1. tpc'[c] = "none" /\ cpc[c] = "dead"
    BY <1>2, <1>3, <1>8, <1>10, OneFrame DEF Arrived, Eof, Gone, Told, Chooses, Chose, Stray, Texts, ThreadOf
  <2>2. UpFits(c)'
    BY <1>1, <1>2, <1>4, <1>5, <2>1 DEF UpFits
  <2>3. LiveFits(c)'
    BY <1>1, <1>2, <2>1 DEF LiveFits
  <2> QED BY <2>2, <2>3
<1>11. ASSUME c \notin astray, Stray(c) PROVE UpFits(c)' /\ LiveFits(c)'
  <2>1. tpc'[c] = "none"
    BY <1>3, <1>11 DEF Texts, Stray, ThreadOf
  <2>2. cpc[c] # "dead" => cpc[c] \in {"role", "menu", "ask"} /\ down[c] = <<>>
    BY <1>8, <1>11, OneFrame DEF Told, Chooses, Chose, Stray
  <2>3. UpFits(c)'
    BY <1>1, <1>2, <1>4, <1>5, <2>1 DEF UpFits
  <2>4. LiveFits(c)'
    BY <1>1, <1>2, <1>4, <1>5, <2>1, <2>2 DEF LiveFits
  <2> QED BY <2>3, <2>4
<1>12. ASSUME c \notin astray, up[c] = <<"helper">> PROVE UpFits(c)' /\ LiveFits(c)'
  <2>1. tpc'[c] = "menu" /\ up'[c] = <<>> /\ up[c] # <<>> /\ ~Stray(c)
    BY <1>3, <1>9, <1>12, OneFrame DEF Texts, ThreadOf, Stray
  <2>2. cpc[c] # "dead" => Waits(c, "menu")'
    BY <1>1, <1>2, <1>8, <1>12, <2>1, OneFrame DEF Told, Chooses, Chose, Waits
  <2>3. UpFits(c)'
    BY <1>1, <1>2, <1>4, <1>5, <2>1 DEF UpFits
  <2>4. LiveFits(c)'
    BY <1>1, <1>2, <1>4, <1>5, <2>1, <2>2 DEF LiveFits, Unserved
  <2> QED BY <2>3, <2>4
<1>13. ASSUME c \notin astray, up[c] = <<"searcher">> PROVE UpFits(c)' /\ LiveFits(c)'
  <2>1. tpc'[c] = "ask" /\ up'[c] = <<>> /\ up[c] # <<>> /\ ~Stray(c)
    BY <1>3, <1>9, <1>13, OneFrame DEF Texts, ThreadOf, Stray
  <2>2. cpc[c] # "dead" => Waits(c, "ask")'
    BY <1>1, <1>2, <1>8, <1>13, <2>1, OneFrame DEF Told, Chooses, Chose, Waits
  <2>3. UpFits(c)'
    BY <1>1, <1>2, <1>4, <1>5, <2>1 DEF UpFits
  <2>4. LiveFits(c)'
    BY <1>1, <1>2, <1>4, <1>5, <2>1, <2>2 DEF LiveFits, Unserved
  <2> QED BY <2>3, <2>4
<1>14. Handed'
  <2>1. \A d \in Conn : d \in backlog \/ cpc[d] = "new" => d # c /\ tpc[d] = "none"
    BY <1>5 DEF Talk, Handed
  <2>2. \A d \in Conn : cpc[d] = "new" => d \notin backlog
    BY DEF Talk, Handed
  <2>3. \A d \in Conn : d \in backlog' \/ cpc'[d] = "new" => tpc'[d] = "none"
    BY <1>2, <1>3, <2>1
  <2>4. backlog' \subseteq Conn /\ mpc' # "role" /\ \A d \in Conn : cpc'[d] = "new" => d \notin backlog'
    BY <1>1, <1>2, <1>5, <2>2
  <2> QED BY <1>4, <2>3, <2>4 DEF Handed
<1>15. Fits(c)'
  <2>1. c \notin astray => UpFits(c)' /\ LiveFits(c)'
    BY <1>7, <1>10, <1>11, <1>12, <1>13
  <2>2. Fits(c)' <=> (c' \notin astray' => UpFits(c)' /\ LiveFits(c)')
    BY DEF Fits
  <2> QED BY <1>1, <1>2, <2>1, <2>2
<1>16. \A d \in Conn : Fits(d)'
  BY <1>1, <1>6, <1>15
<1> QED BY <1>2, <1>14, <1>16, QuietIsSafe DEF Talk
\* Where the server is with a live client that is doing something.
LEMMA WhereItIs ==
  ASSUME TypeOK, Talk, NEW c \in Conn, c \notin astray, cpc[c] \in Reading \cup Typing
  PROVE  /\ cpc[c] = "role" => \/ Asked(c) /\ Chooses(c, "role")
                               \/ Unserved(c) /\ down[c] = <<>>
         /\ cpc[c] = "choice" => \/ tpc[c] = "choice" /\ Chooses(c, "choice")
                                 \/ tpc[c] = "done" /\ down[c] = <<>>
         /\ cpc[c] = "record" => tpc[c] = "record" /\ Waits(c, "record")
         /\ cpc[c] = "id" => tpc[c] = "id" /\ Waits(c, "id")
         /\ cpc[c] \in Reading /\ down[c] # <<>> =>
              \/ Asked(c) /\ Told(c, "prompt")
              \/ tpc[c] = "choice" /\ Told(c, "menu")
              \/ tpc[c] = "record" /\ Told(c, "format")
              \/ tpc[c] = "close" /\ Told(c, "ack")
              \/ tpc[c] = "id" /\ Told(c, "ask")
              \/ tpc[c] = "text" /\ AnswerFits(c)
              \/ tpc[c] = "done" /\ DoneFits(c)
<1>1. LiveFits(c) /\ cpc[c] # "dead" /\ cpc[c] # "new"
  BY DEF Talk, Fits, Reading, Typing
<1>2. tpc[c] \in {"none", "menu", "ask", "choice", "record", "reply",
                  "close", "id", "scan", "flag", "text", "done"}
  BY DEF TypeOK
<1>3. CASE c \in backlog
  BY <1>1, <1>3 DEF LiveFits, Waits, Reading
<1>4. CASE Asked(c)
  BY <1>1, <1>4 DEF LiveFits, Told, Chooses, Chose, Reading
<1>5. CASE tpc[c] = "none" /\ ~Asked(c) /\ c \notin backlog
  <2>1. Unserved(c)
    BY <1>1, <1>5 DEF Unserved
  <2> QED BY <1>1, <2>1 DEF LiveFits
<1>6. CASE tpc[c] \in {"menu", "ask", "reply", "scan", "flag"}
  BY <1>1, <1>6 DEF LiveFits, Waits, Reading
<1>7. CASE tpc[c] \in {"choice", "record", "close", "id"}
  BY <1>1, <1>7 DEF LiveFits, Waits, Told, Chooses, Chose, Gave, Reading
<1>8. CASE tpc[c] = "text"
  BY <1>1, <1>8 DEF LiveFits, AnswerFits, Reading
<1>9. CASE tpc[c] = "done"
  BY <1>1, <1>9 DEF LiveFits, DoneFits, Reading
<1> QED BY <1>2, <1>3, <1>4, <1>5, <1>6, <1>7, <1>8, <1>9

\* A client talks on its own connection.
LEMMA ClientOthers ==
  ASSUME TypeOK, Talk, proc = "up", NEW c \in Conn,
         Read(c) \/ Type(c) \/ TypeWrong(c) \/ TypeOdd(c) \/ Killed(c)
  PROVE  /\ cpc[c] \in Reading \cup Typing /\ cpc'[c] # "new"
         /\ UNCHANGED <<serverVars, proc, backlog>>
         /\ Asked(c)' <=> Asked(c)
         /\ Unserved(c)' <=> Unserved(c)
         /\ astray \subseteq astray' /\ \A d \in Conn \ {c} : Fits(d)'
         /\ Handed' /\ DeathHasACause'
<1>1. /\ cpc[c] \in Reading \cup Typing
      /\ UNCHANGED <<serverVars, proc, backlog>>
  BY DEF Read, Type, TypeWrong, TypeOdd, Killed, Write, GoAstray, Reading, Typing
<1>2. /\ cpc \in [Conn -> Reading \cup Typing \cup {"new", "end", "dead"}]
      /\ up \in [Conn -> Seq({"helper", "searcher", "register", "search", "wrong"} \cup Id)]
      /\ down \in [Conn -> Seq([kind : Reading, data : SUBSET Rec])]
  BY DEF TypeOK
<1>3. cpc'[c] # "new" /\ \A d \in Conn \ {c} : cpc'[d] = cpc[d]
  BY <1>1, <1>2 DEF Read, Type, TypeWrong, TypeOdd, Killed, Write, GoAstray, AfterRead, AfterRecord, Reading, Typing
<1>4. /\ \A d \in Conn \ {c} : up'[d] = up[d] /\ down'[d] = down[d]
      /\ astray' \in {astray, astray \cup {c}}
  BY <1>2 DEF Read, Type, TypeWrong, TypeOdd, Killed, Write, GoAstray
<1>5. \A d \in Conn : Asked(d)' <=> Asked(d)
  BY <1>1 DEF Asked
<1>6. cpc[c] # "new"
  BY <1>1 DEF Reading, Typing
<1>7. Unserved(c)' <=> Unserved(c)
  BY <1>1, <1>3, <1>5, <1>6 DEF Unserved
<1>8. ASSUME NEW d \in Conn, d # c PROVE Fits(d)'
  BY <1>1, <1>3, <1>4, <1>5, <1>4, <1>8, UntouchedFits DEF Talk
<1>9. Handed'
  <2>1. \A d \in Conn : cpc'[d] = "new" => cpc[d] = "new"
    BY <1>3
  <2>2. backlog \subseteq Conn
    BY DEF TypeOK
  <2> QED BY <1>1, <1>5, <2>1, <2>2 DEF Talk, Handed
<1> QED BY <1>1, <1>3, <1>4, <1>5, <1>7, <1>8, <1>9, QuietIsSafe

LEMMA ConnectTalk ==
  ASSUME TypeOK, Talk, proc = "up", NEW c \in Conn, Connect(c)
  PROVE  Talk' /\ DeathHasACause'
<1>1. /\ UNCHANGED <<serverVars, proc, astray, up, down>> /\ backlog' = backlog \cup {c}
      /\ cpc[c] = "new" /\ cpc' = [cpc EXCEPT ![c] = "prompt"]
  BY DEF Connect
<1>2. /\ cpc'[c] = "prompt" /\ \A d \in Conn \ {c} : cpc'[d] = cpc[d]
  BY <1>1 DEF TypeOK
<1>3. \A d \in Conn : Asked(d)' <=> Asked(d)
  BY <1>1 DEF Asked
<1>4. /\ tpc[c] = "none" /\ ~Asked(c) /\ c \notin backlog
      /\ c \notin astray => Waits(c, "new") /\ up[c] = <<>>
  <2>1. Handed /\ (c \notin astray => LiveFits(c) /\ UpFits(c))
    BY DEF Talk, Fits
  <2> QED BY <1>1, <2>1 DEF LiveFits, UpFits, Handed
<1>5. ASSUME NEW d \in Conn, d # c PROVE Fits(d)'
  <2>1. Fits(d) /\ (d \in backlog' <=> d \in backlog)
    BY <1>1, <1>5 DEF Talk
  <2> QED BY <1>1, <1>2, <1>3, <1>5, <2>1, UntouchedFits
<1>6. c \notin astray => UpFits(c)'
  BY <1>1, <1>3, <1>4 DEF UpFits
<1>7. ASSUME c \notin astray PROVE LiveFits(c)'
  <2>1. Waits(c, "prompt")'
    BY <1>1, <1>2, <1>4, <1>7 DEF Waits
  <2>2. ~Asked(c)' /\ tpc'[c] = "none" /\ c \in backlog' /\ cpc'[c] # "new"
    BY <1>1, <1>2, <1>3, <1>4
  <2>3. ~Unserved(c)'
    BY <2>2 DEF Unserved
  <2> QED BY <2>1, <2>2, <2>3 DEF LiveFits
<1>8. Handed'
  <2>1. backlog \subseteq Conn
    BY DEF TypeOK
  <2> QED BY <1>1, <1>2, <1>3, <1>4, <2>1 DEF Talk, Handed
<1> QED BY <1>1, <1>5, <1>6, <1>7, <1>8, QuietIsSafe DEF Talk, Fits

LEMMA KilledTalk ==
  ASSUME TypeOK, Talk, proc = "up", NEW c \in Conn, Killed(c)
  PROVE  Talk' /\ DeathHasACause'
<1>1. cpc'[c] = "dead" /\ up' = up /\ astray' = astray
  BY DEF Killed, TypeOK
<1>2. Fits(c) /\ cpc[c] # "new" /\ UNCHANGED <<serverVars, backlog>>
  BY DEF Killed, Talk, Reading, Typing
<1>3. c \notin astray => UpFits(c)'
  BY <1>1, <1>2, ClientOthers DEF Fits, UpFits, Stray
<1>4. LiveFits(c)'
  BY <1>1 DEF LiveFits
<1> QED BY <1>1, <1>3, <1>4, ClientOthers DEF Talk, Fits

\* Reading: what has come is what was expected.
LEMMA ReadFits ==
  ASSUME TypeOK, Talk, proc = "up", NEW c \in Conn, c \notin astray, Read(c)
  PROVE  UpFits(c)' /\ LiveFits(c)'
<1>1. /\ cpc[c] \in Reading /\ down[c] # <<>> /\ up' = up
      /\ down'[c] = Tail(down[c]) /\ cpc'[c] = AfterRead(c, Head(down[c]).data # {})
  BY DEF Read, TypeOK
<1>2. /\ cpc[c] # "new" /\ cpc'[c] # "new" /\ UNCHANGED <<serverVars, backlog>>
      /\ Asked(c)' <=> Asked(c)
      /\ Unserved(c)' <=> Unserved(c)
  BY <1>1, ClientOthers DEF Reading, Typing
<1>3. UpFits(c)'
  BY <1>1, <1>2 DEF Talk, Fits, UpFits, Stray
<1>4. \/ Asked(c) /\ Told(c, "prompt")
      \/ tpc[c] = "choice" /\ Told(c, "menu")
      \/ tpc[c] = "record" /\ Told(c, "format")
      \/ tpc[c] = "close" /\ Told(c, "ack")
      \/ tpc[c] = "id" /\ Told(c, "ask")
      \/ tpc[c] = "text" /\ AnswerFits(c)
      \/ tpc[c] = "done" /\ DoneFits(c)
  BY <1>1, WhereItIs
<1>5. Asked(c) => tpc[c] = "none" /\ ~Unserved(c)
  BY DEF Talk, Handed, Unserved
<1>6. c \notin backlog
  BY <1>1 DEF Talk, Fits, LiveFits, Waits, Reading
<1>7. \A x : down[c] = <<x>> => down'[c] = <<>>
  BY <1>1, OneFrame
<1>8. ASSUME Asked(c), Told(c, "prompt") PROVE LiveFits(c)'
  <2>1. Chooses(c, "role")'
    BY <1>1, <1>7, <1>8 DEF Told, Chooses, AfterRead
  <2> QED BY <1>2, <1>5, <1>6, <1>8, <2>1 DEF LiveFits
<1>9. ASSUME tpc[c] = "choice", Told(c, "menu") PROVE LiveFits(c)'
  <2>1. Chooses(c, "choice")'
    BY <1>1, <1>7, <1>9 DEF Told, Chooses, AfterRead
  <2> QED BY <1>2, <1>5, <1>6, <1>9, <2>1 DEF LiveFits, Unserved
<1>10. ASSUME tpc[c] = "record", Told(c, "format") PROVE LiveFits(c)'
  <2>1. Waits(c, "record")'
    BY <1>1, <1>7, <1>10 DEF Told, Waits, AfterRead
  <2> QED BY <1>2, <1>5, <1>6, <1>10, <2>1 DEF LiveFits, Unserved
<1>11. ASSUME tpc[c] = "close", Told(c, "ack") PROVE LiveFits(c)'
  <2>1. Waits(c, "end")'
    BY <1>1, <1>7, <1>11 DEF Told, Waits, AfterRead
  <2> QED BY <1>2, <1>5, <1>6, <1>11, <2>1 DEF LiveFits, Unserved
<1>12. ASSUME tpc[c] = "id", Told(c, "ask") PROVE LiveFits(c)'
  <2>1. Waits(c, "id")'
    BY <1>1, <1>7, <1>12 DEF Told, Waits, AfterRead
  <2> QED BY <1>2, <1>5, <1>6, <1>12, <2>1 DEF LiveFits, Unserved
<1>13. ASSUME tpc[c] = "text", AnswerFits(c) PROVE LiveFits(c)'
  <2>1. cpc[c] = "flag" /\ down[c] = <<Frame("flag", found[c])>> /\ down'[c] = <<>>
    BY <1>1, <1>7, <1>13 DEF AnswerFits, Reading
  <2>2. Head(down[c]).data = found[c]
    BY <2>1, OneFrame DEF Frame
  <2>3. cpc'[c] = IF found[c] = {} THEN "end" ELSE "text"
    BY <1>1, <2>1, <2>2 DEF AfterRead
  <2>4. AnswerFits(c)'
    BY <1>1, <1>2, <1>13, <2>1, <2>3 DEF AnswerFits
  <2> QED BY <1>2, <1>5, <1>6, <1>13, <2>4 DEF LiveFits, Unserved
<1>14. ASSUME tpc[c] = "done", DoneFits(c) PROVE LiveFits(c)'
  <2>1. ASSUME cpc[c] = "ack" PROVE DoneFits(c)'
    BY <1>1, <2>1 DEF AfterRead, DoneFits
  <2>2. ASSUME cpc[c] = "flag" PROVE DoneFits(c)'
    <3>1. down[c] = <<Frame("flag", found[c]), Frame("text", found[c])>>
      BY <1>1, <1>14, <2>2 DEF DoneFits
    <3>2. Head(down[c]) = Frame("flag", found[c]) /\ down'[c] = <<Frame("text", found[c])>>
      BY <1>1, <3>1, TwoFrames
    <3>3. Head(down[c]).data = found[c]
      BY <3>2 DEF Frame
    <3>4. cpc'[c] = IF found[c] = {} THEN "end" ELSE "text"
      BY <1>1, <2>2, <3>3 DEF AfterRead
    <3> QED BY <1>2, <3>2, <3>4 DEF DoneFits, Frame
  <2>3. ASSUME cpc[c] = "text" PROVE DoneFits(c)'
    BY <1>1, <2>3 DEF AfterRead, DoneFits
  <2>4. cpc[c] \in {"ack", "flag", "text"}
    BY <1>1, <1>14 DEF DoneFits, Reading
  <2>5. DoneFits(c)'
    BY <2>1, <2>2, <2>3, <2>4
  <2> QED BY <1>2, <1>5, <1>6, <1>14, <2>5 DEF LiveFits, Unserved
<1> QED BY <1>3, <1>4, <1>8, <1>9, <1>10, <1>11, <1>12, <1>13, <1>14

LEMMA ReadTalk ==
  ASSUME TypeOK, Talk, proc = "up", NEW c \in Conn, Read(c)
  PROVE  Talk' /\ DeathHasACause'
<1>1. astray' = astray
  BY DEF Read
<1>2. Fits(c)'
  BY <1>1, ReadFits DEF Fits
<1> QED BY <1>2, ClientOthers DEF Talk

\* What is typed, with what is done next.
LEMMA WhatIsTyped ==
  ASSUME NEW c \in Conn, Type(c)
  PROVE  \E x \in {"helper", "searcher", "register", "search", "wrong"} \cup Id :
         \E n \in Reading :
           /\ Write(c, x, n)
           /\ \/ cpc[c] = "role" /\ \/ x = "helper" /\ n = "menu"
                                    \/ x = "searcher" /\ n = "ask"
              \/ cpc[c] = "choice" /\ \/ x = "register" /\ n = "format"
                                      \/ x = "search" /\ n = "ask"
              \/ cpc[c] = "record" /\ x \in Id /\ n = "ack"
              \/ cpc[c] = "id" /\ x \in Id /\ n = "flag"
<1>1. CASE cpc[c] = "role"
  BY <1>1 DEF Type, Reading
<1>2. CASE cpc[c] = "choice"
  BY <1>2 DEF Type, Reading
<1>3. CASE cpc[c] = "record"
  BY <1>3 DEF Type, AfterRecord, Reading
<1>4. CASE cpc[c] = "id"
  BY <1>4 DEF Type, Reading
<1> QED BY <1>1, <1>2, <1>3, <1>4 DEF Type

LEMMA TypeFits ==
  ASSUME TypeOK, Talk, proc = "up", NEW c \in Conn, Type(c), c \notin astray'
  PROVE  UpFits(c)' /\ LiveFits(c)'
<1>1. PICK x \in {"helper", "searcher", "register", "search", "wrong"} \cup Id :
      \E n \in Reading :
           /\ Write(c, x, n)
           /\ \/ cpc[c] = "role" /\ \/ x = "helper" /\ n = "menu"
                                    \/ x = "searcher" /\ n = "ask"
              \/ cpc[c] = "choice" /\ \/ x = "register" /\ n = "format"
                                      \/ x = "search" /\ n = "ask"
              \/ cpc[c] = "record" /\ x \in Id /\ n = "ack"
              \/ cpc[c] = "id" /\ x \in Id /\ n = "flag"
  BY WhatIsTyped
<1>2. /\ cpc[c] \in Reading \cup Typing /\ cpc'[c] # "new" /\ UNCHANGED <<serverVars, backlog>>
      /\ Asked(c)' <=> Asked(c)
      /\ Unserved(c)' <=> Unserved(c)
  BY ClientOthers
<1>3. /\ c \notin astray /\ up[c] = <<>> /\ up'[c] = <<x>> /\ down' = down
      /\ \/ cpc[c] = "role" /\ \/ x = "helper" /\ cpc'[c] = "menu"
                               \/ x = "searcher" /\ cpc'[c] = "ask"
         \/ cpc[c] = "choice" /\ \/ x = "register" /\ cpc'[c] = "format"
                                 \/ x = "search" /\ cpc'[c] = "ask"
         \/ cpc[c] = "record" /\ x \in Id /\ cpc'[c] = "ack"
         \/ cpc[c] = "id" /\ x \in Id /\ cpc'[c] = "flag"
  BY <1>1, Typed
<1>4. Asked(c) => tpc[c] = "none" /\ ~Unserved(c)
  BY DEF Talk, Handed, Unserved
<1>5. Unserved(c) => tpc[c] = "none" /\ ~Asked(c)
  BY DEF Unserved
<1>6. c \notin backlog
  BY <1>3 DEF Talk, Fits, LiveFits, Waits
<1>7. ASSUME Asked(c), Chooses(c, "role") PROVE UpFits(c)' /\ LiveFits(c)'
  <2>1. Chose(c, "menu", "helper")' \/ Chose(c, "ask", "searcher")'
    BY <1>3, <1>7 DEF Chooses, Chose
  <2>2. UpFits(c)'
    BY <1>2, <1>4, <1>6, <1>7, <2>1 DEF UpFits, Chose
  <2>3. LiveFits(c)'
    BY <1>2, <1>4, <1>6, <1>7, <2>1 DEF LiveFits
  <2> QED BY <2>2, <2>3
<1>8. ASSUME Unserved(c), cpc[c] = "role", down[c] = <<>> PROVE UpFits(c)' /\ LiveFits(c)'
  <2>1. UpFits(c)'
    BY <1>2, <1>5, <1>6, <1>8 DEF UpFits
  <2>2. LiveFits(c)'
    BY <1>2, <1>3, <1>5, <1>6, <1>8 DEF LiveFits
  <2> QED BY <2>1, <2>2
<1>9. ASSUME tpc[c] = "choice", Chooses(c, "choice") PROVE UpFits(c)' /\ LiveFits(c)'
  <2>1. Chose(c, "format", "register")' \/ Chose(c, "ask", "search")'
    BY <1>3, <1>9 DEF Chooses, Chose
  <2>2. UpFits(c)'
    BY <1>2, <1>4, <1>6, <1>9, <2>1 DEF UpFits, Chose
  <2>3. LiveFits(c)'
    BY <1>2, <1>4, <1>5, <1>6, <1>9, <2>1 DEF LiveFits
  <2> QED BY <2>2, <2>3
<1>10. ASSUME tpc[c] = "done", cpc[c] = "choice", down[c] = <<>> PROVE UpFits(c)' /\ LiveFits(c)'
  <2>1. DoneFits(c)'
    BY <1>3, <1>10 DEF DoneFits
  <2>2. UpFits(c)'
    BY <1>2, <1>4, <1>6, <1>10 DEF UpFits
  <2>3. LiveFits(c)'
    BY <1>2, <1>4, <1>5, <1>6, <1>10, <2>1 DEF LiveFits
  <2> QED BY <2>2, <2>3
<1>11. ASSUME tpc[c] = "record", Waits(c, "record") PROVE UpFits(c)' /\ LiveFits(c)'
  <2>1. Gave(c, "ack")'
    BY <1>3, <1>11 DEF Waits, Gave
  <2>2. UpFits(c)'
    BY <1>2, <1>4, <1>6, <1>11, <2>1 DEF UpFits, Gave
  <2>3. LiveFits(c)'
    BY <1>2, <1>4, <1>5, <1>6, <1>11, <2>1 DEF LiveFits
  <2> QED BY <2>2, <2>3
<1>12. ASSUME tpc[c] = "id", Waits(c, "id") PROVE UpFits(c)' /\ LiveFits(c)'
  <2>1. Gave(c, "flag")'
    BY <1>3, <1>12 DEF Waits, Gave
  <2>2. UpFits(c)'
    BY <1>2, <1>4, <1>6, <1>12, <2>1 DEF UpFits, Gave
  <2>3. LiveFits(c)'
    BY <1>2, <1>4, <1>5, <1>6, <1>12, <2>1 DEF LiveFits
  <2> QED BY <2>2, <2>3
<1> QED BY <1>2, <1>3, <1>7, <1>8, <1>9, <1>10, <1>11, <1>12, WhereItIs

LEMMA TypeTalk ==
  ASSUME TypeOK, Talk, proc = "up", NEW c \in Conn, Type(c)
  PROVE  Talk' /\ DeathHasACause'
<1>1. Fits(c)'
  BY TypeFits DEF Fits
<1> QED BY <1>1, ClientOthers DEF Talk

\* A choice out of range is under way; a text that each program reads in its
\* own way is no longer followed.
LEMMA TypeWrongFits ==
  ASSUME TypeOK, Talk, proc = "up", NEW c \in Conn, TypeWrong(c), c \notin astray'
  PROVE  UpFits(c)' /\ LiveFits(c)'
<1>1. /\ c \notin astray /\ up[c] = <<>>
      /\ cpc[c] \in {"role", "choice"} /\ cpc'[c] = cpc[c] /\ down' = down
  BY Typed DEF TypeWrong
<1>2. /\ cpc[c] \in Reading \cup Typing /\ cpc'[c] # "new" /\ UNCHANGED <<serverVars, backlog>>
      /\ Asked(c)' <=> Asked(c)
      /\ Unserved(c)' <=> Unserved(c)
  BY ClientOthers
<1>3. Stray(c)'
  <2>1. up'[c] = <<"wrong">>
    BY Typed DEF TypeWrong
  <2> QED BY <2>1, OneFrame DEF Stray
<1>4. Asked(c) => tpc[c] = "none" /\ ~Unserved(c)
  BY DEF Talk, Handed, Unserved
<1>5. Unserved(c) => tpc[c] = "none" /\ ~Asked(c)
  BY DEF Unserved
<1>6. c \notin backlog
  BY <1>1 DEF Talk, Fits, LiveFits, Waits
<1>7. ASSUME Asked(c), Chooses(c, "role") PROVE UpFits(c)' /\ LiveFits(c)'
  <2>1. Chooses(c, "role")' /\ Stray(c)'
    BY <1>1, <1>3, <1>7 DEF Chooses
  <2>2. UpFits(c)'
    BY <1>2, <1>4, <1>6, <1>7, <2>1 DEF UpFits
  <2>3. LiveFits(c)'
    BY <1>2, <1>4, <1>6, <1>7, <2>1 DEF LiveFits
  <2> QED BY <2>2, <2>3
<1>8. ASSUME Unserved(c), cpc[c] = "role", down[c] = <<>> PROVE UpFits(c)' /\ LiveFits(c)'
  <2>1. UpFits(c)'
    BY <1>2, <1>5, <1>6, <1>8 DEF UpFits
  <2>2. LiveFits(c)'
    BY <1>1, <1>2, <1>5, <1>6, <1>8 DEF LiveFits
  <2> QED BY <2>1, <2>2
<1>9. ASSUME tpc[c] = "choice", Chooses(c, "choice") PROVE UpFits(c)' /\ LiveFits(c)'
  <2>1. Chooses(c, "choice")' /\ Stray(c)'
    BY <1>1, <1>3, <1>9 DEF Chooses
  <2>2. UpFits(c)'
    BY <1>2, <1>4, <1>6, <1>9, <2>1 DEF UpFits
  <2>3. LiveFits(c)'
    BY <1>2, <1>4, <1>5, <1>6, <1>9, <2>1 DEF LiveFits
  <2> QED BY <2>2, <2>3
<1>10. ASSUME tpc[c] = "done", cpc[c] = "choice", down[c] = <<>> PROVE UpFits(c)' /\ LiveFits(c)'
  <2>1. DoneFits(c)'
    BY <1>1, <1>10 DEF DoneFits
  <2>2. UpFits(c)'
    BY <1>2, <1>4, <1>6, <1>10 DEF UpFits
  <2>3. LiveFits(c)'
    BY <1>2, <1>4, <1>5, <1>6, <1>10, <2>1 DEF LiveFits
  <2> QED BY <2>2, <2>3
<1> QED BY <1>1, <1>2, <1>7, <1>8, <1>9, <1>10, WhereItIs

LEMMA TypeWrongTalk ==
  ASSUME TypeOK, Talk, proc = "up", NEW c \in Conn, TypeWrong(c) \/ TypeOdd(c)
  PROVE  Talk' /\ DeathHasACause'
<1>1. TypeOdd(c) => c \in astray'
  BY DEF TypeOdd, GoAstray
<1>2. Fits(c)'
  BY <1>1, TypeWrongFits DEF Fits
<1> QED BY <1>2, ClientOthers DEF Talk

LEMMA InitTalk == Init => Talk /\ DeathHasACause
<1> SUFFICES ASSUME Init PROVE Talk /\ DeathHasACause
  OBVIOUS
<1>1. Handed
  BY DEF Init, Handed, Asked
<1>2. ASSUME NEW c \in Conn PROVE Fits(c)
  BY <1>2 DEF Init, Fits, UpFits, LiveFits, Asked, Unserved, Waits
<1>3. DeathHasACause
  BY DEF Init, DeathHasACause
<1> QED BY <1>1, <1>2, <1>3 DEF Talk

LEMMA TalkStep ==
  ASSUME TypeOK, Talk, DeathHasACause, [Next]_vars
  PROVE  Talk' /\ DeathHasACause'
<1>1. CASE UNCHANGED vars
  <2>1. Handed'
    BY <1>1 DEF vars, Talk, Handed, Asked
  <2>2. ASSUME NEW d \in Conn PROVE Fits(d)'
    BY <1>1, UntouchedFits DEF vars, Talk, Asked
  <2>3. DeathHasACause'
    BY <1>1 DEF vars, DeathHasACause, Killer
  <2> QED BY <2>1, <2>2, <2>3 DEF Talk
<1>2. CASE Next
  BY <1>2, AcceptTalk, ReadRoleTalk, ThreadTalk, ConnectTalk, ReadTalk, TypeTalk, TypeWrongTalk,
     KilledTalk DEF Next, MainNext, ClientNext
<1> QED BY <1>1, <1>2
-----------------------------------------------------------------------------
(* Types. *)

LEMMA TakeType ==
  ASSUME TypeOK, NEW c \in Conn, TakeFrame(c)
  PROVE  up' \in [Conn -> Seq({"helper", "searcher", "register", "search", "wrong"} \cup Id)]
<1> DEFINE S == {"helper", "searcher", "register", "search", "wrong"} \cup Id
<1>1. up \in [Conn -> Seq(S)] /\ up[c] \in Seq(S)
  BY DEF TypeOK
<1> HIDE DEF S
<1>2. up[c] # <<>> => Tail(up[c]) \in Seq(S)
  BY <1>1, HeadTailProperties
<1>3. up' \in [Conn -> Seq(S)]
  BY <1>1, <1>2 DEF TakeFrame
<1> QED BY <1>3 DEF S

LEMMA WriteType ==
  ASSUME TypeOK, NEW c \in Conn,
         \/ GoAstray(c)
         \/ \E x \in {"helper", "searcher", "register", "search", "wrong"} \cup Id : \E n : Write(c, x, n)
  PROVE  /\ up' \in [Conn -> Seq({"helper", "searcher", "register", "search", "wrong"} \cup Id)]
         /\ down' \in [Conn -> Seq([kind : Reading, data : SUBSET Rec])]
         /\ astray' \subseteq Conn
<1> DEFINE S == {"helper", "searcher", "register", "search", "wrong"} \cup Id
           F == [kind : Reading, data : SUBSET Rec]
<1>1. up \in [Conn -> Seq(S)] /\ down \in [Conn -> Seq(F)] /\ astray \subseteq Conn
  BY DEF TypeOK
<1>2. ASSUME NEW x \in S, up' = [up EXCEPT ![c] = <<x>>], UNCHANGED <<astray, down>>
      PROVE  up' \in [Conn -> Seq(S)] /\ down' \in [Conn -> Seq(F)] /\ astray' \subseteq Conn
  <2> HIDE DEF S, F
  <2>1. <<x>> \in Seq(S)
    OBVIOUS
  <2> QED BY <1>1, <1>2, <2>1
<1>3. ASSUME GoAstray(c)
      PROVE  up' \in [Conn -> Seq(S)] /\ down' \in [Conn -> Seq(F)] /\ astray' \subseteq Conn
  <2> HIDE DEF S, F
  <2>1. <<>> \in Seq(S) /\ <<>> \in Seq(F)
    OBVIOUS
  <2> QED BY <1>1, <1>3, <2>1 DEF GoAstray
<1>4. GoAstray(c) \/ \E x \in S : up' = [up EXCEPT ![c] = <<x>>] /\ UNCHANGED <<astray, down>>
  BY DEF Write
<1> QED BY <1>2, <1>3, <1>4

\* An id or a record that is read is one.
LEMMA TextIsId ==
  ASSUME TypeOK, Talk, NEW c \in Conn, tpc[c] \in {"record", "id"},
         NEW text \in Texts(c, Id)
  PROVE  text # "wrong" => text \in Id
<1>1. CASE c \in astray
  BY <1>1 DEF Texts
<1>2. CASE c \notin astray
  <2>1. up[c] = <<>> \/ \E i \in Id : up[c] = <<i>>
    BY <1>2 DEF Talk, Fits, UpFits
  <2> QED BY <1>2, <2>1, OneFrame DEF Texts
<1> QED BY <1>1, <1>2

LEMMA SendType ==
  ASSUME TypeOK, NEW c \in Conn, NEW k \in Reading, NEW d \in SUBSET Rec, SendFrame(c, k, d)
  PROVE  /\ down' \in [Conn -> Seq([kind : Reading, data : SUBSET Rec])]
         /\ proc' \in {"up", "killed"}
<1> DEFINE S == [kind : Reading, data : SUBSET Rec]
<1>1. down \in [Conn -> Seq(S)] /\ down[c] \in Seq(S) /\ Frame(k, d) \in S /\ proc \in {"up", "killed"}
  BY DEF TypeOK, Frame
<1> HIDE DEF S
<1>2. Append(down[c], Frame(k, d)) \in Seq(S)
  BY <1>1, AppendProperties
<1>3. down' \in [Conn -> Seq(S)] /\ proc' \in {"up", "killed"}
  BY <1>1, <1>2 DEF SendFrame, Frame
<1> QED BY <1>3 DEF S

\* What a fill of the buffer brings.
LEMMA Filled ==
  ASSUME TypeOK, NEW c \in Conn
  PROVE  /\ Fill(c) \in Seq(Rec)
         /\ Fill(c) = <<>> => at[c] > Len(log)
         /\ \A j \in 1..Len(Fill(c)) : Fill(c)[j] = log[at[c] + j - 1]
<1> DEFINE n == IF at[c] + BufRecs - 1 < Len(log) THEN at[c] + BufRecs - 1 ELSE Len(log)
<1>1. /\ log \in Seq(Rec) /\ at[c] \in Nat \ {0} /\ Len(log) \in Nat
      /\ BufRecs \in Nat \ {0}
  BY HelpDeskAssumption DEF TypeOK
<1>2. n \in Int /\ n <= Len(log) /\ (n < at[c] => at[c] > Len(log))
  BY <1>1
<1>3. \A i \in 1..Len(log) : log[i] \in Rec
  BY <1>1, ElementOfSeq
<1> HIDE DEF n
<1>4. \A i \in at[c]..n : log[i] \in Rec
  BY <1>1, <1>2, <1>3
<1>5. at[c] \in Int
  BY <1>1
<1>6. /\ SubSeq(log, at[c], n) \in Seq(Rec)
      /\ Len(SubSeq(log, at[c], n)) = IF at[c] <= n THEN n - at[c] + 1 ELSE 0
      /\ \A i \in 1..(n - at[c] + 1) : SubSeq(log, at[c], n)[i] = log[at[c] + i - 1]
  BY <1>2, <1>4, <1>5, SubSeqProperties
<1>7. Fill(c) = SubSeq(log, at[c], n)
  BY DEF Fill, n
<1>8. Fill(c) = <<>> => Len(Fill(c)) = 0
  BY EmptySeq
<1>9. Fill(c) = <<>> => at[c] > Len(log)
  BY <1>1, <1>2, <1>6, <1>7, <1>8
<1>10. \A j \in 1..Len(Fill(c)) : Fill(c)[j] = log[at[c] + j - 1]
  BY <1>1, <1>2, <1>6, <1>7
<1> QED BY <1>6, <1>7, <1>9, <1>10

\* What the close of a file leaves in it.
LEMMA Closed ==
  ASSUME TypeOK, FileInv, NEW c \in Conn, CloseLog(c)
  PROVE  /\ log' \in Seq(Rec) /\ Len(log) <= Len(log')
         /\ pend[c] = NoPend => log' = log
         /\ pend[c] # NoPend =>
              /\ pend[c].slot \in 1..Len(log') /\ log'[pend[c].slot].by = c
              /\ \A k \in 1..Len(log') : k # pend[c].slot => k \in 1..Len(log) /\ log'[k] = log[k]
<1>1. log \in Seq(Rec) /\ Len(log) \in Nat
  BY DEF TypeOK
<1>2. CASE pend[c] = NoPend
  BY <1>1, <1>2 DEF CloseLog
<1>3. CASE pend[c] # NoPend
  <2> DEFINE s == pend[c].slot
             r == [id |-> pend[c].id, by |-> c]
  <2>1. s = Len(base[c]) + 1 /\ pend[c].id \in Id /\ Len(base[c]) <= Len(log)
    BY <1>3 DEF FileInv, Slots
  <2>2. Len(base[c]) \in Nat
    <3>1. base[c] \in Seq(Rec)
      BY DEF TypeOK
    <3> QED BY <3>1
  <2>3. s \in Nat /\ 1 <= s /\ s <= Len(log) + 1 /\ r \in Rec /\ r.by = c
    <3>1. r \in Rec /\ r.by = c
      BY <2>1 DEF Rec
    <3> HIDE DEF r
    <3> QED BY <1>1, <2>1, <2>2, <3>1
  <2>4. log' = IF s <= Len(log) THEN [log EXCEPT ![s] = r] ELSE Append(log, r)
    BY <1>3 DEF CloseLog
  <2> HIDE DEF s, r
  <2>5. CASE s <= Len(log)
    <3>1. s \in 1..Len(log) /\ log' = [log EXCEPT ![s] = r]
      BY <1>1, <2>3, <2>4, <2>5
    <3>2. /\ log' \in Seq(Rec) /\ Len(log') = Len(log) /\ log'[s] = r
          /\ \A k \in 1..Len(log') : k # s => log'[k] = log[k]
      BY <1>1, <2>3, <3>1, ExceptSeq
    <3>3. Len(log) <= Len(log')
      BY <1>1, <3>2
    <3> QED BY <1>3, <2>3, <3>1, <3>2, <3>3 DEF s
  <2>6. CASE ~(s <= Len(log))
    <3>1. s = Len(log) + 1 /\ log' = Append(log, r)
      BY <1>1, <2>3, <2>4, <2>6
    <3>2. /\ log' \in Seq(Rec) /\ Len(log') = Len(log) + 1 /\ log'[Len(log) + 1] = r
          /\ \A k \in 1..Len(log) : log'[k] = log[k]
      BY <1>1, <2>3, <3>1, AppendProperties
    <3>3. \A k \in 1..Len(log') : k # s => k \in 1..Len(log)
      BY <1>1, <3>1, <3>2
    <3>4. s \in 1..Len(log') /\ Len(log) <= Len(log')
      BY <1>1, <3>1, <3>2
    <3> QED BY <1>3, <2>3, <3>1, <3>2, <3>3, <3>4 DEF s
  <2> QED BY <2>5, <2>6
<1> QED BY <1>2, <1>3
LEMMA MainType ==
  ASSUME TypeOK, Talk, MainNext
  PROVE  TypeOK'
<1>1. CASE Accept
  <2>1. PICK c \in backlog : /\ cur' = c /\ backlog' = backlog \ {c}
                             /\ down' = [down EXCEPT ![c] = Append(@, Frame("prompt", {}))]
    BY <1>1 DEF Accept, Frame
  <2> DEFINE S == [kind : Reading, data : SUBSET Rec]
  <2>2. c \in Conn /\ down \in [Conn -> Seq(S)] /\ Frame("prompt", {}) \in S
    BY <2>1 DEF TypeOK, Frame, Reading
  <2> HIDE DEF S
  <2>3. down' \in [Conn -> Seq(S)]
    <3>1. Append(down[c], Frame("prompt", {})) \in Seq(S)
      BY <2>2, AppendProperties
    <3> QED BY <2>1, <2>2, <3>1
  <2>4. cur' \in Conn \cup {NoConn} /\ backlog' \subseteq Conn /\ mpc' = "role"
        /\ UNCHANGED <<log, proc, clientVars, up, tpc, sid, at, buf, found, pend, base>>
    BY <1>1, <2>1, <2>2 DEF Accept, TypeOK
  <2> QED BY <2>3, <2>4 DEF TypeOK, S
<1>2. CASE ReadRole
  <2>1. cur \in Conn /\ TakeFrame(cur)
    BY <1>2 DEF ReadRole, Talk, Handed
  <2>2. up' \in [Conn -> Seq({"helper", "searcher", "register", "search", "wrong"} \cup Id)]
    BY <2>1, TakeType
  <2>3. tpc' \in [Conn -> {"none", "menu", "ask", "choice", "record", "reply",
                           "close", "id", "scan", "flag", "text", "done"}]
    <3>1. \A r : ThreadOf(r) \in {"none", "menu", "ask"}
      BY DEF ThreadOf
    <3>2. \E pc \in {"none", "menu", "ask"} : tpc' = [tpc EXCEPT ![cur] = pc]
      BY <1>2, <3>1 DEF ReadRole
    <3>3. PICK pc \in {"none", "menu", "ask"} : tpc' = [tpc EXCEPT ![cur] = pc]
      BY <3>2
    <3> QED BY <3>3 DEF TypeOK
  <2>4. mpc' = "accept" /\ UNCHANGED <<log, proc, cur, clientVars, backlog, down, sid, at, buf,
                                       found, pend, base>>
    BY <1>2 DEF ReadRole
  <2> QED BY <2>2, <2>3, <2>4 DEF TypeOK
<1> QED BY <1>1, <1>2 DEF MainNext

LEMMA ClientType ==
  ASSUME TypeOK, NEW c \in Conn, ClientNext(c)
  PROVE  TypeOK'
<1>1. CASE Connect(c)
  BY <1>1 DEF TypeOK, Connect, Reading
<1>2. CASE Read(c)
  <2>1. down' \in [Conn -> Seq([kind : Reading, data : SUBSET Rec])]
    <3> DEFINE S == [kind : Reading, data : SUBSET Rec]
    <3>1. down \in [Conn -> Seq(S)] /\ down[c] \in Seq(S)
      BY DEF TypeOK
    <3> HIDE DEF S
    <3>2. down[c] # <<>> => Tail(down[c]) \in Seq(S)
      BY <3>1, HeadTailProperties
    <3>3. down' \in [Conn -> Seq(S)]
      BY <1>2, <3>1, <3>2 DEF Read
    <3> QED BY <3>3 DEF S
  <2>2. \A flag : AfterRead(c, flag) \in Reading \cup Typing \cup {"new", "end", "dead"}
    BY DEF AfterRead, Reading, Typing
  <2>3. cpc' \in [Conn -> Reading \cup Typing \cup {"new", "end", "dead"}]
    <3>1. \E flag : cpc' = [cpc EXCEPT ![c] = AfterRead(c, flag)]
      BY <1>2 DEF Read
    <3> QED BY <2>2, <3>1 DEF TypeOK
  <2>4. UNCHANGED <<serverVars, proc, wrong, astray, backlog, up>>
    BY <1>2 DEF Read
  <2> QED BY <2>1, <2>3, <2>4 DEF TypeOK
<1>3. CASE Type(c)
  <2>1. /\ up' \in [Conn -> Seq({"helper", "searcher", "register", "search", "wrong"} \cup Id)]
        /\ down' \in [Conn -> Seq([kind : Reading, data : SUBSET Rec])] /\ astray' \subseteq Conn
    BY <1>3, WhatIsTyped, WriteType
  <2>2. \E n \in Reading : cpc' = [cpc EXCEPT ![c] = n]
    BY <1>3, WhatIsTyped DEF Write
  <2>3. cpc' \in [Conn -> Reading \cup Typing \cup {"new", "end", "dead"}]
    BY <2>2 DEF TypeOK
  <2>4. UNCHANGED <<serverVars, proc, wrong, backlog>>
    BY <1>3 DEF Type, Write
  <2> QED BY <2>1, <2>3, <2>4 DEF TypeOK
<1>4. CASE TypeWrong(c) \/ TypeOdd(c)
  <2>1. /\ up' \in [Conn -> Seq({"helper", "searcher", "register", "search", "wrong"} \cup Id)]
        /\ down' \in [Conn -> Seq([kind : Reading, data : SUBSET Rec])] /\ astray' \subseteq Conn
    BY <1>4, WriteType DEF TypeWrong, TypeOdd
  <2>2. cpc' \in [Conn -> Reading \cup Typing \cup {"new", "end", "dead"}]
    BY <1>4 DEF TypeWrong, TypeOdd, Write, TypeOK, Reading, Typing
  <2>3. wrong' \in [Conn -> 0..MaxWrong]
    <3>1. wrong \in [Conn -> 0..MaxWrong] /\ wrong[c] \in 0..MaxWrong
      BY DEF TypeOK
    <3>2. wrong[c] < MaxWrong /\ wrong' = [wrong EXCEPT ![c] = wrong[c] + 1]
      BY <1>4 DEF TypeWrong, TypeOdd, CountWrong
    <3>3. wrong[c] + 1 \in 0..MaxWrong
      BY <3>1, <3>2, HelpDeskAssumption
    <3> QED BY <3>1, <3>2, <3>3
  <2>4. UNCHANGED <<serverVars, proc, backlog>>
    BY <1>4 DEF TypeWrong, TypeOdd, Write
  <2> QED BY <2>1, <2>2, <2>3, <2>4 DEF TypeOK
<1>5. CASE Killed(c)
  BY <1>5 DEF TypeOK, Killed
<1> QED BY <1>1, <1>2, <1>3, <1>4, <1>5 DEF ClientNext

LEMMA ThreadType ==
  ASSUME TypeOK, Talk, FileInv, NEW c \in Conn, ThreadNext(c)
  PROVE  TypeOK'
<1>1. ASSUME NEW pc \in {"none", "menu", "ask", "choice", "record", "reply",
                         "close", "id", "scan", "flag", "text", "done"}, Goto(c, pc)
      PROVE  tpc' \in [Conn -> {"none", "menu", "ask", "choice", "record", "reply",
                                "close", "id", "scan", "flag", "text", "done"}]
  BY <1>1 DEF TypeOK, Goto
<1>2. found[c] \in SUBSET Rec /\ {} \in SUBSET Rec
  BY DEF TypeOK
<1>3. CASE SendMenu(c) \/ Reply(c) \/ AskId(c) \/ AnswerText(c)
  <2>1. down' \in [Conn -> Seq([kind : Reading, data : SUBSET Rec])] /\ proc' \in {"up", "killed"}
    BY <1>2, <1>3, SendType DEF SendMenu, Reply, AskId, AnswerText, Reading
  <2>2. tpc' \in [Conn -> {"none", "menu", "ask", "choice", "record", "reply",
                           "close", "id", "scan", "flag", "text", "done"}]
    BY <1>1, <1>3 DEF SendMenu, Reply, AskId, AnswerText
  <2>3. UNCHANGED <<log, mpc, cur, clientVars, backlog, up, scanVars, pend>>
    BY <1>3 DEF SendMenu, Reply, AskId, AnswerText
  <2> QED BY <2>1, <2>2, <2>3 DEF TypeOK
<1>4. CASE AnswerFlag(c)
  <2>1. down' \in [Conn -> Seq([kind : Reading, data : SUBSET Rec])] /\ proc' \in {"up", "killed"}
    BY <1>2, <1>4, SendType DEF AnswerFlag, HasAnswer, Reading
  <2>2. tpc' \in [Conn -> {"none", "menu", "ask", "choice", "record", "reply",
                           "close", "id", "scan", "flag", "text", "done"}]
    BY <1>1, <1>4 DEF AnswerFlag
  <2>3. UNCHANGED <<log, mpc, cur, clientVars, backlog, up, scanVars, pend>>
    BY <1>4 DEF AnswerFlag
  <2> QED BY <2>1, <2>2, <2>3 DEF TypeOK
<1>5. CASE ReadChoice(c)
  <2>1. down' \in [Conn -> Seq([kind : Reading, data : SUBSET Rec])] /\ proc' \in {"up", "killed"}
    <3>1. CASE SendFrame(c, "format", {})
      BY <1>2, <3>1, SendType DEF Reading
    <3>2. CASE UNCHANGED <<proc, down>>
      BY <3>2 DEF TypeOK
    <3> QED BY <1>5, <3>1, <3>2 DEF ReadChoice
  <2>2. tpc' \in [Conn -> {"none", "menu", "ask", "choice", "record", "reply",
                           "close", "id", "scan", "flag", "text", "done"}]
    BY <1>1, <1>5 DEF ReadChoice
  <2>3. up' \in [Conn -> Seq({"helper", "searcher", "register", "search", "wrong"} \cup Id)]
    BY <1>5, TakeType DEF ReadChoice
  <2>4. UNCHANGED <<log, mpc, cur, clientVars, backlog, scanVars, pend>>
    BY <1>5 DEF ReadChoice
  <2> QED BY <2>1, <2>2, <2>3, <2>4 DEF TypeOK
<1>7. CASE Register(c)
  <2>1. \A text \in Texts(c, Id) : Record(text) \in [slot : Nat, id : Id \cup {NoId}]
    <3>1. Len(log) \in Nat
      BY DEF TypeOK
    <3>2. EndSlot \in Nat
      BY <3>1 DEF EndSlot
    <3>3. \A text \in Texts(c, Id) : text # "wrong" => text \in Id
      BY <1>7, TextIsId DEF Register
    <3> QED BY <3>2, <3>3 DEF Record, NoPend
  <2>2. pend' \in [Conn -> [slot : Nat, id : Id \cup {NoId}]]
    BY <1>7, <2>1 DEF Register, TypeOK
  <2>3. base' \in [Conn -> Seq(Rec)]
    BY <1>7 DEF Register, TypeOK
  <2>4. up' \in [Conn -> Seq({"helper", "searcher", "register", "search", "wrong"} \cup Id)]
    BY <1>7, TakeType DEF Register
  <2>5. tpc' \in [Conn -> {"none", "menu", "ask", "choice", "record", "reply",
                           "close", "id", "scan", "flag", "text", "done"}]
    BY <1>1, <1>7 DEF Register
  <2>6. UNCHANGED <<log, mpc, cur, clientVars, backlog, down, sid, at, buf, found>>
    BY <1>7 DEF Register
  <2>7. proc' \in {"up", "killed"}
    BY <1>7 DEF Register, Lengthless, TypeOK
  <2> QED BY <2>2, <2>3, <2>4, <2>5, <2>6, <2>7 DEF TypeOK
<1>8. CASE CloseLog(c)
  <2>1. log' \in Seq(Rec)
    BY <1>8, Closed
  <2>2. tpc' \in [Conn -> {"none", "menu", "ask", "choice", "record", "reply",
                           "close", "id", "scan", "flag", "text", "done"}]
    BY <1>1, <1>8 DEF CloseLog
  <2>3. UNCHANGED <<proc, mpc, cur, clientVars, backlog, up, down, scanVars, pend>>
    BY <1>8 DEF CloseLog
  <2> QED BY <2>1, <2>2, <2>3 DEF TypeOK
<1>9. CASE ReadId(c)
  <2>1. sid' \in [Conn -> Id \cup {NoId}]
    <3>1. \A text \in Texts(c, Id) : text # "wrong" => text \in Id
      BY <1>9, TextIsId DEF ReadId
    <3> QED BY <1>9, <3>1 DEF ReadId, TypeOK
  <2>2. base' \in [Conn -> Seq(Rec)]
    BY <1>9 DEF ReadId, TypeOK
  <2>3. up' \in [Conn -> Seq({"helper", "searcher", "register", "search", "wrong"} \cup Id)]
    BY <1>9, TakeType DEF ReadId
  <2>4. tpc' \in [Conn -> {"none", "menu", "ask", "choice", "record", "reply",
                           "close", "id", "scan", "flag", "text", "done"}]
    BY <1>1, <1>9 DEF ReadId
  <2>5. UNCHANGED <<log, mpc, cur, clientVars, backlog, down, at, buf, found, pend>>
    BY <1>9 DEF ReadId
  <2>6. proc' \in {"up", "killed"}
    BY <1>9 DEF ReadId, Lengthless, TypeOK
  <2> QED BY <2>1, <2>2, <2>3, <2>4, <2>5, <2>6 DEF TypeOK
<1>10. CASE Scan(c)
  <2> DEFINE b == IF buf[c] = <<>> THEN Fill(c) ELSE buf[c]
  <2>1. b \in Seq(Rec)
    BY Filled DEF TypeOK
  <2>2. UNCHANGED <<log, proc, mpc, cur, clientVars, backlog, up, down, sid, base, pend>>
    BY <1>10 DEF Scan
  <2>3. CASE b = <<>>
    <3>1. Goto(c, "flag") /\ UNCHANGED <<at, buf, found>>
      BY <1>10, <2>3 DEF Scan
    <3>2. tpc' \in [Conn -> {"none", "menu", "ask", "choice", "record", "reply",
                             "close", "id", "scan", "flag", "text", "done"}]
      BY <1>1, <3>1
    <3> QED BY <2>2, <3>1, <3>2 DEF TypeOK
  <2>4. CASE b # <<>>
    <3>1. /\ found' = [found EXCEPT ![c] = @ \cup IF Head(b).id = sid[c] THEN {Head(b)} ELSE {}]
          /\ buf' = [buf EXCEPT ![c] = Tail(b)] /\ at' = [at EXCEPT ![c] = @ + 1] /\ tpc' = tpc
      BY <1>10, <2>4 DEF Scan
    <3>2. Head(b) \in Rec /\ Tail(b) \in Seq(Rec)
      BY <2>1, <2>4, HeadTailProperties
    <3> HIDE DEF b
    <3>3. found' \in [Conn -> SUBSET Rec]
      BY <1>2, <3>1, <3>2 DEF TypeOK
    <3>4. buf' \in [Conn -> Seq(Rec)] /\ at' \in [Conn -> Nat \ {0}]
      <4>1. buf \in [Conn -> Seq(Rec)] /\ at \in [Conn -> Nat \ {0}] /\ at[c] \in Nat \ {0}
        BY DEF TypeOK
      <4>2. at[c] + 1 \in Nat \ {0}
        BY <4>1
      <4>3. buf' \in [Conn -> Seq(Rec)]
        BY <3>1, <3>2, <4>1
      <4> QED BY <3>1, <4>1, <4>2, <4>3
    <3>5. tpc' = tpc
      BY <3>1
    <3> QED BY <2>2, <3>3, <3>4, <3>5 DEF TypeOK
  <2> QED BY <2>3, <2>4
<1> QED BY <1>3, <1>4, <1>5, <1>7, <1>8, <1>9, <1>10 DEF ThreadNext

LEMMA TypeStep ==
  ASSUME TypeOK, Talk, FileInv, [Next]_vars
  PROVE  TypeOK'
<1>1. CASE UNCHANGED vars
  BY <1>1 DEF TypeOK, vars
<1>2. CASE Next
  BY <1>2, MainType, ClientType, ThreadType DEF Next
<1> QED BY <1>1, <1>2

LEMMA InitType == Init => TypeOK
<1> SUFFICES ASSUME Init PROVE TypeOK
  OBVIOUS
<1>1. log \in Seq(Rec)
  <2>1. CASE log = <<>>
    BY <2>1
  <2>2. CASE log # <<>>
    <3>1. PICK i \in Id : log = <<[id |-> i, by |-> NoConn]>>
      BY <2>2 DEF Init
    <3>2. [id |-> i, by |-> NoConn] \in Rec
      BY DEF Rec
    <3> QED BY <3>1, <3>2
  <2> QED BY <2>1, <2>2
<1>2. /\ proc \in {"up", "killed"} /\ mpc \in {"accept", "role"}
      /\ cur \in Conn \cup {NoConn} /\ backlog \subseteq Conn /\ astray \subseteq Conn
  BY DEF Init
<1>3. /\ cpc \in [Conn -> Reading \cup Typing \cup {"new", "end", "dead"}]
      /\ tpc \in [Conn -> {"none", "menu", "ask", "choice", "record", "reply",
                           "close", "id", "scan", "flag", "text", "done"}]
      /\ sid \in [Conn -> Id \cup {NoId}] /\ found \in [Conn -> SUBSET Rec]
  BY DEF Init
<1>4. wrong \in [Conn -> 0..MaxWrong] /\ at \in [Conn -> Nat \ {0}]
  BY HelpDeskAssumption DEF Init
<1>5. /\ up \in [Conn -> Seq({"helper", "searcher", "register", "search", "wrong"} \cup Id)]
      /\ down \in [Conn -> Seq([kind : Reading, data : SUBSET Rec])]
      /\ buf \in [Conn -> Seq(Rec)] /\ base \in [Conn -> Seq(Rec)]
  <2>1. \A S : <<>> \in Seq(S)
    OBVIOUS
  <2> QED BY <2>1 DEF Init
<1>6. pend \in [Conn -> [slot : Nat, id : Id \cup {NoId}]]
  BY DEF Init, NoPend
<1> QED BY <1>1, <1>2, <1>3, <1>4, <1>5, <1>6 DEF TypeOK
-----------------------------------------------------------------------------
(* The file, step by step. *)

\* What a step that closes, registers and asks for nothing leaves alone.
LEMMA FileRests ==
  ASSUME FileInv, UNCHANGED <<log, pend, base>>,
         \A c \in Conn : tpc[c] = "done" => tpc'[c] = "done",
         \A c \in Conn : pend[c] # NoPend /\ tpc'[c] # tpc[c] => tpc'[c] = "close"
  PROVE  FileInv'
<1>1. Placed(log)' /\ \A c \in Conn : Placed(base[c])' /\ Len(base'[c]) <= Len(log')
  BY DEF FileInv, Placed
<1>2. Slots'
  BY DEF FileInv, Slots
<1> QED BY <1>1, <1>2 DEF FileInv

LEMMA CloseLogFile ==
  ASSUME TypeOK, FileInv, NEW c \in Conn, CloseLog(c)
  PROVE  FileInv'
<1> DEFINE s == pend[c].slot
<1>1. /\ tpc[c] = "close" /\ tpc'[c] = "done" /\ UNCHANGED <<pend, base>>
      /\ \A d \in Conn \ {c} : tpc'[d] = tpc[d]
  BY DEF CloseLog, Goto, TypeOK
<1>2. /\ Placed(log) /\ Slots /\ \A d \in Conn : Placed(base[d]) /\ Len(base[d]) <= Len(log)
  BY DEF FileInv
<1>3. \A d \in Conn : tpc[d] = "done" => d # c /\ tpc'[d] = "done"
  BY <1>1
<1>4. Len(log) \in Nat /\ Len(log') \in Nat /\ Len(log) <= Len(log')
  <2>1. log \in Seq(Rec) /\ log' \in Seq(Rec) /\ Len(log) <= Len(log')
    BY Closed DEF TypeOK
  <2> QED BY <2>1
<1>5. \A d \in Conn : Placed(base[d])'
  BY <1>1, <1>2, <1>3 DEF Placed
<1>6. \A d \in Conn : Len(base'[d]) <= Len(log')
  <2>1. ASSUME NEW d \in Conn PROVE Len(base'[d]) <= Len(log')
    <3>1. base[d] \in Seq(Rec) /\ Len(base[d]) <= Len(log)
      BY <1>2 DEF TypeOK
    <3>2. Len(base[d]) \in Nat
      BY <3>1
    <3> QED BY <1>1, <1>4, <3>1, <3>2
  <2> QED BY <2>1
<1>7. CASE pend[c] = NoPend
  <2>1. log' = log
    BY <1>7, Closed
  <2>2. Placed(log)'
    BY <1>1, <1>2, <1>3, <2>1 DEF Placed
  <2>3. Slots'
    BY <1>1, <1>2, <1>3, <1>7, <2>1 DEF Slots
  <2> QED BY <1>5, <1>6, <2>2, <2>3 DEF FileInv
<1>8. CASE pend[c] # NoPend
  <2>1. /\ s \in 1..Len(log') /\ log'[s].by = c
        /\ \A k \in 1..Len(log') : k # s => k \in 1..Len(log) /\ log'[k] = log[k]
    BY <1>8, Closed
  <2> HIDE DEF s
  <2>2. Placed(log)'
    <3> SUFFICES ASSUME NEW k \in 1..Len(log'), log'[k].by \in Conn
                 PROVE  /\ tpc'[log'[k].by] = "done" /\ pend'[log'[k].by] # NoPend
                        /\ pend'[log'[k].by].slot = k
      BY DEF Placed
    <3>1. CASE k = s
      BY <1>1, <1>8, <2>1, <3>1 DEF s
    <3>2. CASE k # s
      BY <1>1, <1>2, <1>3, <2>1, <3>2 DEF Placed
    <3> QED BY <3>1, <3>2
  <2>3. Slots'
    <3> SUFFICES ASSUME NEW d \in Conn, pend'[d] # NoPend
                 PROVE  /\ tpc'[d] \in {"reply", "close", "done"}
                        /\ pend'[d].slot = Len(base'[d]) + 1 /\ pend'[d].id \in Id
                        /\ tpc'[d] = "done" => pend'[d].slot <= Len(log') /\ log'[pend'[d].slot].by \in Conn
      BY DEF Slots
    <3>1. /\ tpc[d] \in {"reply", "close", "done"}
          /\ pend[d].slot = Len(base[d]) + 1 /\ pend[d].id \in Id
          /\ tpc[d] = "done" => pend[d].slot <= Len(log) /\ log[pend[d].slot].by \in Conn
      BY <1>1, <1>2 DEF Slots
    <3>2. tpc'[d] \in {"reply", "close", "done"}
      BY <1>1, <3>1
    <3>3. CASE d = c
      BY <1>1, <1>4, <2>1, <3>1, <3>2, <3>3 DEF s
    <3>4. ASSUME d # c, tpc'[d] = "done"
          PROVE  pend[d].slot <= Len(log') /\ log'[pend[d].slot].by \in Conn
      <4>1. tpc[d] = "done"
        BY <1>1, <3>4
      <4>2. base[d] \in Seq(Rec)
        BY DEF TypeOK
      <4>3. Len(base[d]) \in Nat
        BY <4>2
      <4>4. pend[d].slot \in 1..Len(log) /\ pend[d].slot \in 1..Len(log') /\ log[pend[d].slot].by \in Conn
        BY <1>4, <3>1, <4>1, <4>3
      <4>5. log'[pend[d].slot].by \in Conn
        BY <2>1, <4>4
      <4> QED BY <4>4, <4>5
    <3> QED BY <1>1, <3>1, <3>2, <3>3, <3>4
  <2> QED BY <1>5, <1>6, <2>2, <2>3 DEF FileInv
<1> QED BY <1>7, <1>8

LEMMA RegisterFile ==
  ASSUME TypeOK, Talk, FileInv, NEW c \in Conn, Register(c)
  PROVE  FileInv'
<1>0. PICK text \in Texts(c, Id) : pend' = [pend EXCEPT ![c] = Record(text)]
  BY DEF Register
<1>1. /\ tpc[c] = "record" /\ tpc'[c] = "reply" /\ log' = log
      /\ base' = [base EXCEPT ![c] = log]
      /\ \A d \in Conn \ {c} : tpc'[d] = tpc[d]
  BY DEF Register, Goto, TypeOK
<1>2. /\ pend'[c] = Record(text) /\ base'[c] = log
      /\ \A d \in Conn \ {c} : pend'[d] = pend[d] /\ base'[d] = base[d]
  BY <1>0, <1>1 DEF TypeOK
<1>3. /\ Placed(log) /\ Slots /\ \A d \in Conn : Placed(base[d]) /\ Len(base[d]) <= Len(log)
  BY DEF FileInv
<1>4. Len(log) \in Nat
  BY DEF TypeOK
<1>5. \A d \in Conn : tpc[d] = "done" => tpc'[d] = "done" /\ pend'[d] = pend[d]
  BY <1>1, <1>2
<1>6. Placed(log)'
  BY <1>1, <1>3, <1>5 DEF Placed
<1>7. ASSUME NEW d \in Conn PROVE Placed(base[d])' /\ Len(base'[d]) <= Len(log')
  <2>1. CASE d = c
    BY <1>1, <1>2, <1>3, <1>4, <1>5, <2>1 DEF Placed
  <2>2. CASE d # c
    BY <1>1, <1>2, <1>3, <1>5, <2>2 DEF Placed
  <2> QED BY <2>1, <2>2
<1>8. Slots'
  <2>1. ASSUME NEW d \in Conn, d # c PROVE pend'[d] = pend[d] /\ base'[d] = base[d] /\ tpc'[d] = tpc[d]
    BY <1>1, <1>2, <2>1
  <2>2. ASSUME Record(text) # NoPend
        PROVE  Record(text).slot = Len(log) + 1 /\ Record(text).id \in Id
    <3>1. text # "wrong" /\ Record(text) = [slot |-> EndSlot, id |-> text]
      BY <2>2 DEF Record
    <3>2. text \in Id
      BY <1>1, <3>1, TextIsId
    <3> QED BY <3>1, <3>2 DEF EndSlot
  <2> QED BY <1>1, <1>2, <1>3, <2>1, <2>2 DEF Slots
<1> QED BY <1>6, <1>7, <1>8 DEF FileInv

LEMMA ReadIdFile ==
  ASSUME TypeOK, FileInv, NEW c \in Conn, ReadId(c)
  PROVE  FileInv'
<1>1. /\ tpc[c] = "id" /\ tpc'[c] = "scan" /\ log' = log /\ pend' = pend
      /\ base'[c] = log
      /\ \A d \in Conn \ {c} : base'[d] = base[d] /\ tpc'[d] = tpc[d]
  BY DEF ReadId, Goto, TypeOK
<1>2. /\ Placed(log) /\ Slots /\ \A d \in Conn : Placed(base[d]) /\ Len(base[d]) <= Len(log)
  BY DEF FileInv
<1>3. Len(log) \in Nat
  BY DEF TypeOK
<1>4. \A d \in Conn : tpc[d] = "done" => tpc'[d] = "done"
  BY <1>1
<1>5. Placed(log)'
  BY <1>1, <1>2, <1>4 DEF Placed
<1>6. ASSUME NEW d \in Conn PROVE Placed(base[d])' /\ Len(base'[d]) <= Len(log')
  <2>1. CASE d = c
    BY <1>1, <1>2, <1>3, <1>4, <2>1 DEF Placed
  <2>2. CASE d # c
    BY <1>1, <1>2, <1>4, <2>2 DEF Placed
  <2> QED BY <2>1, <2>2
<1>7. Slots'
  <2>1. pend[c] = NoPend
    BY <1>1, <1>2 DEF Slots
  <2> QED BY <1>1, <1>2, <2>1 DEF Slots
<1> QED BY <1>5, <1>6, <1>7 DEF FileInv

LEMMA FileStep ==
  ASSUME TypeOK, Talk, FileInv, [Next]_vars
  PROVE  FileInv'
<1>1. CASE UNCHANGED vars
  BY <1>1, FileRests DEF vars
<1>2. ASSUME NEW c \in Conn, CloseLog(c) \/ Register(c) \/ ReadId(c) PROVE FileInv'
  BY <1>2, CloseLogFile, RegisterFile, ReadIdFile
<1>3. CASE MainNext
  <2>1. UNCHANGED <<log, pend, base>>
    BY <1>3 DEF MainNext, Accept, ReadRole
  <2>2. \A c \in Conn : tpc'[c] # tpc[c] => tpc[c] = "none"
    <3>1. CASE Accept
      BY <3>1 DEF Accept
    <3>2. CASE ReadRole
      <4>1. cur \in Conn /\ tpc[cur] = "none"
        BY <3>2 DEF ReadRole, Talk, Handed, Asked
      <4>2. \A c \in Conn \ {cur} : tpc'[c] = tpc[c]
        BY <3>2, <4>1 DEF ReadRole, TypeOK
      <4> QED BY <4>1, <4>2
    <3> QED BY <1>3, <3>1, <3>2 DEF MainNext
  <2>3. \A c \in Conn : pend[c] # NoPend => tpc[c] # "none"
    BY DEF FileInv, Slots
  <2> QED BY <2>1, <2>2, <2>3, FileRests
<1>4. ASSUME NEW c \in Conn, ClientNext(c) PROVE FileInv'
  <2>1. UNCHANGED <<log, pend, base, tpc>>
    BY <1>4 DEF ClientNext, Connect, Read, Type, TypeWrong, TypeOdd, Killed, Write
  <2> QED BY <2>1, FileRests
<1>5. ASSUME NEW c \in Conn, \/ SendMenu(c) \/ ReadChoice(c) \/ Reply(c) \/ AskId(c) \/ Scan(c)
                             \/ AnswerFlag(c) \/ AnswerText(c)
      PROVE  FileInv'
  <2>1. UNCHANGED <<log, pend, base>>
    BY <1>5 DEF SendMenu, ReadChoice, Reply, AskId, Scan, AnswerFlag, AnswerText
  <2>2. \A d \in Conn \ {c} : tpc'[d] = tpc[d]
    BY <1>5 DEF SendMenu, ReadChoice, Reply, AskId, Scan, AnswerFlag, AnswerText, Goto, TypeOK
  <2>3. /\ tpc[c] \in {"menu", "choice", "reply", "ask", "scan", "flag", "text"}
        /\ tpc[c] = "reply" => tpc'[c] = "close"
    BY <1>5 DEF SendMenu, ReadChoice, Reply, AskId, Scan, AnswerFlag, AnswerText, Goto, TypeOK
  <2>4. pend[c] # NoPend => tpc[c] \in {"reply", "close", "done"}
    BY DEF FileInv, Slots
  <2>5. \A d \in Conn : tpc[d] = "done" => tpc'[d] = "done"
    BY <2>2, <2>3
  <2>6. \A d \in Conn : pend[d] # NoPend /\ tpc'[d] # tpc[d] => tpc'[d] = "close"
    BY <2>2, <2>3, <2>4
  <2> QED BY <2>1, <2>5, <2>6, FileRests
<1> QED BY <1>1, <1>2, <1>3, <1>4, <1>5 DEF Next, ThreadNext

LEMMA InitFile == Init => FileInv
<1> SUFFICES ASSUME Init PROVE FileInv
  OBVIOUS
<1>1. Placed(log)
  <2>1. CASE log = <<>>
    BY <2>1 DEF Placed
  <2>2. CASE log # <<>>
    <3>1. PICK i \in Id : log = <<[id |-> i, by |-> NoConn]>>
      BY <2>2 DEF Init
    <3>2. \A k \in 1..Len(log) : log[k].by = NoConn
      BY <3>1
    <3> QED BY <3>2, HelpDeskAssumption DEF Placed
  <2> QED BY <2>1, <2>2
<1>2. Slots
  BY DEF Init, Slots
<1>3. ASSUME NEW c \in Conn PROVE Placed(base[c]) /\ Len(base[c]) <= Len(log)
  <2>1. base[c] = <<>> /\ Len(<<>>) = 0
    BY DEF Init
  <2>2. Len(log) \in Nat
    BY InitType DEF TypeOK
  <2> QED BY <2>1, <2>2 DEF Placed
<1> QED BY <1>1, <1>2, <1>3 DEF FileInv
-----------------------------------------------------------------------------
(* The search, step by step. *)

\* ScanInv of one connection.
ScanFits(c) ==
  /\ tpc[c] \in {"none", "menu", "choice", "ask", "id"} => at[c] = 1 /\ buf[c] = <<>> /\ found[c] = {}
  /\ tpc[c] = "scan" =>
       /\ Compared(c, at[c] - 1)
       /\ \A j \in 1..Len(buf[c]) : Still(c, at[c] + j - 1) => buf[c][j] = log[at[c] + j - 1]
  /\ tpc[c] = "flag" => Compared(c, Len(base[c]))

\* Nothing of a search has changed, but the thread may have gone on.
LEMMA SearchRests ==
  ASSUME NEW c \in Conn, ScanFits(c), log' = log,
         at'[c] = at[c], buf'[c] = buf[c], found'[c] = found[c], sid'[c] = sid[c], base'[c] = base[c],
         \/ tpc'[c] = tpc[c]
         \/ tpc[c] \in {"none", "menu", "choice", "ask", "id"} /\ tpc'[c] \notin {"scan", "flag"}
         \/ tpc'[c] \notin {"none", "menu", "choice", "ask", "id", "scan", "flag"}
  PROVE  ScanFits(c)'
BY DEF ScanFits, Compared, Still

\* A close changes no record that was there when a search began: the record
\* in its slot came after.
LEMMA CloseSparesOld ==
  ASSUME TypeOK, FileInv, NEW c \in Conn, CloseLog(c), NEW e \in Conn, NEW k \in Nat \ {0}
  PROVE  Still(e, k)' => Still(e, k) /\ log'[k] = log[k]
<1> SUFFICES ASSUME Still(e, k)' PROVE Still(e, k) /\ log'[k] = log[k]
  OBVIOUS
<1>1. tpc[c] = "close" /\ base' = base
  BY DEF CloseLog
<1>2. k <= Len(base[e]) /\ log'[k] = base[e][k]
  BY <1>1 DEF Still
<1>3. Placed(base[e]) /\ Len(base[e]) <= Len(log)
  BY DEF FileInv
<1>4. Len(base[e]) \in Nat /\ Len(log) \in Nat
  <2>1. base[e] \in Seq(Rec) /\ log \in Seq(Rec)
    BY DEF TypeOK
  <2> QED BY <2>1
<1>5. k \in 1..Len(base[e]) /\ k \in 1..Len(log)
  BY <1>2, <1>3, <1>4
<1>6. log'[k] = log[k]
  <2>1. CASE pend[c] = NoPend
    BY <2>1, Closed
  <2>2. CASE pend[c] # NoPend
    <3>1. /\ log'[pend[c].slot].by = c
          /\ \A i \in 1..Len(log') : i # pend[c].slot => log'[i] = log[i]
          /\ Len(log) <= Len(log') /\ log' \in Seq(Rec)
      BY <2>2, Closed
    <3>2. k # pend[c].slot
      BY <1>1, <1>2, <1>3, <1>5, <3>1 DEF Placed
    <3>3. k \in 1..Len(log')
      <4>1. Len(log') \in Nat
        BY <3>1
      <4> QED BY <1>4, <1>5, <3>1, <4>1
    <3> QED BY <3>1, <3>2, <3>3
  <2> QED BY <2>1, <2>2
<1> QED BY <1>1, <1>2, <1>6 DEF Still

LEMMA CloseLogScan ==
  ASSUME TypeOK, FileInv, ScanInv, NEW c \in Conn, CloseLog(c), NEW e \in Conn
  PROVE  ScanFits(e)'
<1>1. /\ tpc'[c] = "done" /\ UNCHANGED <<at, buf, found, sid, base>>
      /\ \A d \in Conn \ {c} : tpc'[d] = tpc[d]
  BY DEF CloseLog, Goto, TypeOK
<1>2. ScanFits(e)
  BY DEF ScanInv, ScanFits
<1>3. CASE e = c
  BY <1>1, <1>3 DEF ScanFits
<1>4. CASE e # c
  <2>1. tpc'[e] = tpc[e]
    BY <1>1, <1>4
  <2>2. at[e] \in Nat \ {0} /\ Len(base[e]) \in Nat
    <3>1. base[e] \in Seq(Rec) /\ at[e] \in Nat \ {0}
      BY DEF TypeOK
    <3> QED BY <3>1
  <2>3. ASSUME NEW n \in Nat, Compared(e, n)
        PROVE  \A k \in 1..n : Still(e, k)' /\ base'[e][k].id = sid'[e] => log'[k] \in found'[e]
    <3> SUFFICES ASSUME NEW k \in 1..n, Still(e, k)', base'[e][k].id = sid'[e]
                 PROVE  log'[k] \in found'[e]
      OBVIOUS
    <3>1. k \in Nat \ {0}
      OBVIOUS
    <3>2. Still(e, k) /\ log'[k] = log[k]
      BY <3>1, CloseSparesOld
    <3> QED BY <1>1, <2>3, <3>2 DEF Compared
  <2>4. tpc'[e] \in {"none", "menu", "choice", "ask", "id"}
          => at'[e] = 1 /\ buf'[e] = <<>> /\ found'[e] = {}
    BY <1>1, <1>2, <2>1 DEF ScanFits
  <2>5. tpc'[e] = "flag" => Compared(e, Len(base[e]))'
    <3>1. Len(base'[e]) = Len(base[e])
      BY <1>1
    <3> QED BY <1>2, <2>1, <2>2, <2>3, <3>1 DEF ScanFits, Compared
  <2>6. tpc'[e] = "scan" => Compared(e, at[e] - 1)'
    <3>1. at'[e] = at[e] /\ at[e] - 1 \in Nat
      BY <1>1, <2>2
    <3> QED BY <1>2, <2>1, <2>3, <3>1 DEF ScanFits, Compared
  <2>7. ASSUME tpc'[e] = "scan", NEW j \in 1..Len(buf'[e]), Still(e, at[e] + j - 1)'
        PROVE  buf'[e][j] = log'[at'[e] + j - 1]
    <3>1. buf[e] \in Seq(Rec) /\ buf'[e] = buf[e] /\ at'[e] = at[e]
      BY <1>1 DEF TypeOK
    <3>2. Len(buf[e]) \in Nat /\ j \in Nat \ {0}
      BY <3>1
    <3>3. at[e] + j - 1 \in Nat \ {0}
      BY <2>2, <3>2
    <3>4. Still(e, at[e] + j - 1)' <=> (at[e] + j - 1 <= Len(base'[e]) /\ log'[at[e] + j - 1] = base'[e][at[e] + j - 1])
      BY <3>1 DEF Still
    <3> DEFINE m == at[e] + j - 1
    <3>5. PICK i \in Nat \ {0} : i = m
      BY <3>3
    <3>6. Still(e, i)'
      BY <1>1, <2>7, <3>1, <3>5 DEF Still
    <3>7. Still(e, i) /\ log'[i] = log[i]
      BY <3>6, CloseSparesOld
    <3>8. j \in 1..Len(buf[e])
      BY <3>1
    <3>9. buf[e][j] = log[i]
      BY <1>2, <2>1, <2>7, <3>5, <3>7, <3>8 DEF ScanFits
    <3> QED BY <3>1, <3>5, <3>7, <3>9
  <2> QED BY <2>4, <2>5, <2>6, <2>7 DEF ScanFits
<1> QED BY <1>3, <1>4

LEMMA ScanScan ==
  ASSUME TypeOK, FileInv, ScanInv, NEW c \in Conn, Scan(c)
  PROVE  ScanFits(c)'
<1> DEFINE b == IF buf[c] = <<>> THEN Fill(c) ELSE buf[c]
<1>1. /\ tpc[c] = "scan" /\ UNCHANGED <<log, sid, base>>
  BY DEF Scan
<1>2. /\ Compared(c, at[c] - 1)
      /\ \A j \in 1..Len(buf[c]) : Still(c, at[c] + j - 1) => buf[c][j] = log[at[c] + j - 1]
  BY <1>1 DEF ScanInv
<1>3. /\ at[c] \in Nat \ {0} /\ Len(base[c]) \in Nat /\ Len(log) \in Nat /\ Len(base[c]) <= Len(log)
  <2>1. base[c] \in Seq(Rec) /\ at[c] \in Nat \ {0} /\ log \in Seq(Rec)
    BY DEF TypeOK
  <2> QED BY <2>1 DEF FileInv
<1>4. /\ b \in Seq(Rec)
      /\ \A j \in 1..Len(b) : Still(c, at[c] + j - 1) => b[j] = log[at[c] + j - 1]
      /\ b = <<>> => at[c] > Len(log)
  BY <1>2, Filled DEF TypeOK
<1>5. CASE b = <<>>
  <2>1. tpc'[c] = "flag" /\ UNCHANGED <<at, buf, found>>
    BY <1>5 DEF Scan, Goto, TypeOK
  <2>2. \A k \in 1..Len(base[c]) : k \in 1..(at[c] - 1)
    BY <1>3, <1>4, <1>5
  <2>3. Compared(c, Len(base[c]))
    BY <1>2, <2>2 DEF Compared
  <2> QED BY <1>1, <2>1, <2>3 DEF ScanFits, Compared, Still
<1>6. CASE b # <<>>
  <2>1. /\ found' = [found EXCEPT ![c] = @ \cup IF Head(b).id = sid[c] THEN {Head(b)} ELSE {}]
        /\ buf' = [buf EXCEPT ![c] = Tail(b)] /\ at' = [at EXCEPT ![c] = @ + 1] /\ tpc' = tpc
    BY <1>6 DEF Scan
  <2> HIDE DEF b
  <2>2. /\ found'[c] = found[c] \cup IF Head(b).id = sid[c] THEN {Head(b)} ELSE {}
        /\ buf'[c] = Tail(b) /\ at'[c] = at[c] + 1 /\ tpc'[c] = "scan"
    BY <1>1, <2>1 DEF TypeOK
  <2>3. /\ Head(b) = b[1] /\ Len(Tail(b)) = Len(b) - 1 /\ Len(b) \in Nat /\ Len(b) >= 1
        /\ \A j \in 1..Len(Tail(b)) : Tail(b)[j] = b[j+1]
    <3>1. Len(b) \in Nat /\ Len(b) # 0
      BY <1>4, <1>6, EmptySeq
    <3> QED BY <1>4, <1>6, <3>1, HeadTailProperties
  <2>4. Still(c, at[c]) => Head(b) = log[at[c]]
    <3>1. 1 \in 1..Len(b) /\ at[c] + 1 - 1 = at[c]
      BY <1>3, <2>3
    <3>2. Still(c, at[c] + 1 - 1) => b[1] = log[at[c] + 1 - 1]
      BY <1>4, <3>1
    <3> QED BY <2>3, <3>1, <3>2
  <2>5. ASSUME NEW k \in 1..at[c], Still(c, k), base[c][k].id = sid[c] PROVE log[k] \in found'[c]
    <3>1. CASE k = at[c]
      <4>1. Head(b) = log[k] /\ log[k] = base[c][k]
        BY <2>4, <2>5, <3>1 DEF Still
      <4>2. Head(b).id = sid[c]
        BY <2>5, <4>1
      <4> QED BY <2>2, <4>1, <4>2
    <3>2. CASE k # at[c]
      <4>1. k \in 1..(at[c] - 1)
        BY <1>3, <3>2
      <4>2. log[k] \in found[c]
        BY <1>2, <2>5, <4>1 DEF Compared
      <4> QED BY <2>2, <4>2
    <3> QED BY <3>1, <3>2
  <2>6. at'[c] - 1 = at[c]
    BY <1>3, <2>2
  <2>7. Compared(c, at[c] - 1)'
    BY <1>1, <2>5, <2>6 DEF Compared, Still
  <2>8. ASSUME NEW j \in 1..Len(Tail(b)), Still(c, at[c] + 1 + j - 1)
        PROVE  Tail(b)[j] = log[at[c] + 1 + j - 1]
    <3>1. j \in Nat /\ j + 1 \in 1..Len(b)
      BY <2>3
    <3>2. at[c] + 1 + j - 1 = at[c] + (j + 1) - 1
      BY <1>3, <3>1
    <3>3. Tail(b)[j] = b[j + 1]
      BY <2>3
    <3>4. Still(c, at[c] + (j + 1) - 1)
      BY <2>8, <3>2
    <3>5. b[j + 1] = log[at[c] + (j + 1) - 1]
      BY <1>4, <3>1, <3>4
    <3> QED BY <3>2, <3>3, <3>5
  <2>9. \A j \in 1..Len(buf'[c]) : Still(c, at[c] + j - 1)' => buf'[c][j] = log'[at'[c] + j - 1]
    BY <1>1, <2>2, <2>8 DEF Still
  <2> QED BY <2>2, <2>7, <2>9 DEF ScanFits
<1> QED BY <1>5, <1>6

LEMMA ScanStep ==
  ASSUME TypeOK, Talk, FileInv, ScanInv, [Next]_vars
  PROVE  ScanInv'
<1>1. \A e \in Conn : ScanFits(e)
  BY DEF ScanInv, ScanFits
<1>2. SUFFICES ASSUME NEW e \in Conn PROVE ScanFits(e)'
  BY DEF ScanInv, ScanFits
<1>3. CASE UNCHANGED vars
  BY <1>1, <1>3, SearchRests DEF vars
<1>4. CASE MainNext
  <2>1. UNCHANGED <<log, at, buf, found, sid, base>>
    BY <1>4 DEF MainNext, Accept, ReadRole
  <2>2. \/ tpc'[e] = tpc[e]
        \/ tpc[e] = "none" /\ tpc'[e] \in {"none", "menu", "ask"}
    <3>1. CASE Accept
      BY <3>1 DEF Accept
    <3>2. CASE ReadRole
      <4>1. cur \in Conn /\ tpc[cur] = "none"
        BY <3>2 DEF ReadRole, Talk, Handed, Asked
      <4>2. /\ \A c \in Conn \ {cur} : tpc'[c] = tpc[c]
            /\ \E role : tpc'[cur] = ThreadOf(role)
        BY <3>2, <4>1 DEF ReadRole, TypeOK
      <4>3. \A r : ThreadOf(r) \in {"none", "menu", "ask"}
        BY DEF ThreadOf
      <4>4. tpc'[cur] \in {"none", "menu", "ask"}
        BY <4>2, <4>3
      <4> QED BY <4>1, <4>2, <4>4
    <3> QED BY <1>4, <3>1, <3>2 DEF MainNext
  <2> QED BY <1>1, <2>1, <2>2, SearchRests
<1>5. ASSUME NEW c \in Conn, ClientNext(c) PROVE ScanFits(e)'
  <2>1. UNCHANGED <<log, at, buf, found, sid, base, tpc>>
    BY <1>5 DEF ClientNext, Connect, Read, Type, TypeWrong, TypeOdd, Killed, Write
  <2> QED BY <1>1, <2>1, SearchRests
<1>6. ASSUME NEW c \in Conn, \/ SendMenu(c) \/ ReadChoice(c) \/ Register(c) \/ Reply(c) \/ AskId(c)
                             \/ AnswerFlag(c) \/ AnswerText(c)
      PROVE  ScanFits(e)'
  <2>1. UNCHANGED <<log, at, buf, found, sid>>
    BY <1>6 DEF SendMenu, ReadChoice, Register, Reply, AskId, AnswerFlag, AnswerText
  <2>2. /\ \A d \in Conn \ {c} : tpc'[d] = tpc[d]
        /\ \/ tpc[c] \in {"menu", "choice", "ask"} /\ tpc'[c] \in {"choice", "record", "ask", "done", "id"}
           \/ tpc'[c] \in {"reply", "close", "text", "done"}
    BY <1>6 DEF SendMenu, ReadChoice, Register, Reply, AskId, AnswerFlag, AnswerText, Goto, TypeOK
  <2>3. CASE e = c
    <3>1. CASE Register(c)
      <4>1. tpc'[c] = "reply"
        BY <3>1 DEF Register, Goto, TypeOK
      <4> QED BY <2>3, <4>1 DEF ScanFits
    <3>2. CASE ~Register(c)
      <4>1. base' = base
        BY <1>6, <3>2 DEF SendMenu, ReadChoice, Reply, AskId, AnswerFlag, AnswerText
      <4> QED BY <1>1, <2>1, <2>2, <2>3, <4>1, SearchRests
    <3> QED BY <3>1, <3>2
  <2>4. CASE e # c
    <3>1. base'[e] = base[e]
      BY <1>6, <2>4 DEF SendMenu, ReadChoice, Register, Reply, AskId, AnswerFlag, AnswerText, TypeOK
    <3> QED BY <1>1, <2>1, <2>2, <2>4, <3>1, SearchRests
  <2> QED BY <2>3, <2>4
<1>7. ASSUME NEW c \in Conn, ReadId(c) PROVE ScanFits(e)'
  <2>1. /\ UNCHANGED <<log, at, buf, found>> /\ tpc[c] = "id" /\ tpc'[c] = "scan"
        /\ \A d \in Conn \ {c} : tpc'[d] = tpc[d] /\ sid'[d] = sid[d] /\ base'[d] = base[d]
    BY <1>7 DEF ReadId, Goto, TypeOK
  <2>2. CASE e = c
    <3>1. at'[c] = 1 /\ buf'[c] = <<>>
      BY <1>1, <2>1 DEF ScanFits
    <3>2. Compared(c, at[c] - 1)'
      BY <3>1 DEF Compared
    <3>3. Len(<<>>) = 0
      OBVIOUS
    <3> QED BY <2>1, <2>2, <3>1, <3>2, <3>3 DEF ScanFits
  <2>3. CASE e # c
    BY <1>1, <2>1, <2>3, SearchRests
  <2> QED BY <2>2, <2>3
<1>8. ASSUME NEW c \in Conn, CloseLog(c) PROVE ScanFits(e)'
  BY <1>8, CloseLogScan
<1>9. ASSUME NEW c \in Conn, Scan(c) PROVE ScanFits(e)'
  <2>1. CASE e = c
    BY <1>9, <2>1, ScanScan
  <2>2. CASE e # c
    <3>1. /\ UNCHANGED <<log, sid, base>>
          /\ tpc'[e] = tpc[e] /\ at'[e] = at[e] /\ buf'[e] = buf[e] /\ found'[e] = found[e]
      BY <1>9, <2>2 DEF Scan, Goto, TypeOK
    <3> QED BY <1>1, <3>1, SearchRests
  <2> QED BY <2>1, <2>2
<1> QED BY <1>3, <1>4, <1>5, <1>6, <1>7, <1>8, <1>9 DEF Next, ThreadNext

LEMMA InitScan == Init => ScanInv
BY DEF Init, ScanInv
-----------------------------------------------------------------------------
(* The theorems. *)

HelpDeskInv == TalkInv /\ FileInv /\ ScanInv

LEMMA InvHolds == Spec => []HelpDeskInv
<1>1. Init => HelpDeskInv
  BY InitType, InitTalk, InitFile, InitScan DEF HelpDeskInv, TalkInv
<1>2. HelpDeskInv /\ [Next]_vars => HelpDeskInv'
  BY TypeStep, TalkStep, FileStep, ScanStep DEF HelpDeskInv, TalkInv
<1> QED BY <1>1, <1>2, PTL DEF Spec

\* The variables of main, of the threads and of the clients keep their types:
\* in particular a search_id is an id or what atoi makes of nothing, and what
\* is in a write buffer has a slot.
THEOREM TypeCorrect == Spec => []TypeOK
<1>1. HelpDeskInv => TypeOK
  BY DEF HelpDeskInv, TalkInv
<1> QED BY <1>1, InvHolds, PTL

\* The client takes what it reads for what it expects, and rightly: whatever
\* roles, choices and wrong choices it made, what mainserver.c has written to
\* it next is what client.c is about to read; unless it typed a text that one
\* of them compares and the other converts, or one behind another that the
\* server had not read.
THEOREM StaysInStep == Spec => []InStep
<1>1. ASSUME HelpDeskInv PROVE InStep
  <2> SUFFICES ASSUME NEW c \in Conn, c \notin astray, cpc[c] \in Reading, down[c] # <<>>
               PROVE  Head(down[c]).kind = cpc[c]
    BY DEF InStep
  <2>1. \/ \E p : Told(c, p)
        \/ AnswerFits(c)
        \/ DoneFits(c)
    <3>1. TypeOK /\ Talk /\ cpc[c] \in Reading \cup Typing
      BY <1>1 DEF HelpDeskInv, TalkInv
    <3> QED BY <3>1, WhereItIs
  <2>2. ASSUME NEW p, Told(c, p) PROVE Head(down[c]).kind = cpc[c]
    BY <2>2, OneFrame DEF Told, Frame
  <2>3. ASSUME AnswerFits(c) PROVE Head(down[c]).kind = cpc[c]
    <3>1. cpc[c] = "flag" /\ down[c] = <<Frame("flag", found[c])>>
      BY <2>3 DEF AnswerFits, Reading
    <3> QED BY <3>1, OneFrame DEF Frame
  <2>4. ASSUME DoneFits(c) PROVE Head(down[c]).kind = cpc[c]
    <3>1. \/ cpc[c] = "ack" /\ down[c] = <<Frame("ack", {})>>
          \/ cpc[c] = "flag" /\ down[c] = <<Frame("flag", found[c]), Frame("text", found[c])>>
          \/ cpc[c] = "text" /\ down[c] = <<Frame("text", found[c])>>
      BY <2>4 DEF DoneFits, Reading
    <3>2. CASE cpc[c] = "flag" /\ down[c] = <<Frame("flag", found[c]), Frame("text", found[c])>>
      BY <3>2, TwoFrames DEF Frame
    <3>3. CASE \/ cpc[c] = "ack" /\ down[c] = <<Frame("ack", {})>>
               \/ cpc[c] = "text" /\ down[c] = <<Frame("text", found[c])>>
      BY <3>3, OneFrame DEF Frame
    <3> QED BY <3>1, <3>2, <3>3
  <2> QED BY <2>1, <2>2, <2>3, <2>4
<1>2. HelpDeskInv => InStep
  BY <1>1
<1> QED BY <1>2, InvHolds, PTL

\* mainserver ends only after a client was killed, or when one that found
\* nothing had left before the text of its answer was written, or by a client
\* that is astray.
THEOREM ServerDiesForACause == Spec => []DeathHasACause
<1>1. HelpDeskInv => DeathHasACause
  BY DEF HelpDeskInv, TalkInv
<1> QED BY <1>1, InvHolds, PTL

\* A record that mainserver has taken and that is not in log.txt when its
\* thread has closed the file has been overwritten by one that sought the same
\* end: neither of the two registrations saw the other's record.  One whose
\* thread has not closed the file is lost only with the server, which one of
\* the clients that may has taken down.
THEOREM LossIsExplained == Spec => []LossHasACause
<1>1. ASSUME HelpDeskInv, NEW c \in Conn, pend[c] # NoPend, tpc[c] = "done", ~InLog(c)
      PROVE  \E d \in Conn \ {c} : InLog(d) /\ ~KeptIn(base[d], c) /\ ~KeptIn(base[c], d)
  <2>1. TypeOK /\ Placed(log) /\ Slots /\ \A d \in Conn : Placed(base[d])
    BY <1>1 DEF HelpDeskInv, TalkInv, FileInv
  <2>2. \A d \in Conn : Len(base[d]) \in Nat
    <3> SUFFICES ASSUME NEW d \in Conn PROVE Len(base[d]) \in Nat
      OBVIOUS
    <3>1. base[d] \in Seq(Rec)
      BY <2>1 DEF TypeOK
    <3> QED BY <3>1
  <2>3. Len(log) \in Nat
    BY <2>1 DEF TypeOK
  <2>4. PICK s \in Nat : s = pend[c].slot /\ s = Len(base[c]) + 1 /\ s <= Len(log) /\ log[s].by \in Conn
    BY <1>1, <2>1, <2>2 DEF Slots
  <2>5. s \in 1..Len(log)
    BY <2>2, <2>3, <2>4
  <2>6. PICK d \in Conn : d = log[s].by
    BY <2>4
  <2>7. InLog(d) /\ d # c
    BY <1>1, <2>5, <2>6 DEF InLog, KeptIn
  <2>8. pend[d] # NoPend /\ pend[d].slot = s
    BY <2>1, <2>4, <2>5, <2>6 DEF Placed
  <2>9. Len(base[d]) + 1 = s
    BY <2>1, <2>8 DEF Slots
  <2>10. ~KeptIn(base[d], c)
    <3> SUFFICES ASSUME NEW k \in 1..Len(base[d]), base[d][k].by = c PROVE FALSE
      BY DEF KeptIn
    <3>1. pend[c].slot = k
      BY <2>1 DEF Placed
    <3>2. k = s /\ Len(base[d]) \in Nat
      BY <2>2, <2>4, <3>1
    <3> QED BY <2>9, <3>2
  <2>11. ~KeptIn(base[c], d)
    <3> SUFFICES ASSUME NEW k \in 1..Len(base[c]), base[c][k].by = d PROVE FALSE
      BY DEF KeptIn
    <3>1. pend[d].slot = k
      BY <2>1 DEF Placed
    <3> QED BY <2>2, <2>4, <2>8, <3>1
  <2> QED BY <2>7, <2>10, <2>11
<1>2. HelpDeskInv => LossHasACause
  BY <1>1 DEF LossHasACause, HelpDeskInv, TalkInv, DeathHasACause
<1> QED BY <1>2, InvHolds, PTL

\* The loop of fgets finds every record with the wanted id that was there when
\* it began and still is, whatever registrations were closed between two
\* fills of its buffer.
THEOREM SearchFindsAll == Spec => []SearchIsComplete
<1>1. ASSUME HelpDeskInv PROVE SearchIsComplete
  <2> SUFFICES ASSUME NEW c \in Conn, tpc[c] = "flag", NEW k \in 1..Len(base[c]),
                      base[c][k].id = sid[c], log[k] = base[c][k]
               PROVE  log[k] \in found[c]
    BY DEF SearchIsComplete
  <2>1. Compared(c, Len(base[c]))
    BY <1>1 DEF HelpDeskInv, ScanInv
  <2>2. k <= Len(base[c])
    <3>1. base[c] \in Seq(Rec)
      BY <1>1 DEF HelpDeskInv, TalkInv, TypeOK
    <3>2. Len(base[c]) \in Nat
      BY <3>1
    <3> QED BY <3>2
  <2> QED BY <2>1, <2>2 DEF Compared, Still
<1>2. HelpDeskInv => SearchIsComplete
  BY <1>1
<1> QED BY <1>2, InvHolds, PTL
=============================================================================
