-------------------------- MODULE TurnServerProofs --------------------------
(***************************************************************************)
(* Proofs about TurnServer, for any number of clients, rounds and turns,   *)
(* and frames of any length: the types, whose units an answer is made of,  *)
(* and what ends each server.                                              *)
(***************************************************************************)
EXTENDS TurnServer, SequenceTheorems, FiniteSetTheorems, TLAPS

-----------------------------------------------------------------------------
(* Types.  They rest on the reads staying within what was written, on the  *)
(* units naming frames there are, and on the clients being counted.        *)

Accepted == {c \in Conn : peer[c] # "new" /\ c \notin backlog}

Place ==
  /\ at = "accept" => cur = NoConn
  /\ at # "accept" => cur \in Accepted
  /\ at = "head" => prog \in {"calc", "string"}
  /\ \A c \in backlog : peer[c] # "new"

Served ==
  /\ prog = "kakao" => turn + (IF cur = NoConn THEN 0 ELSE 1) = Cardinality(Accepted)
  /\ proc = "up" /\ prog = "string" => turn < Rounds
  /\ proc = "up" /\ prog \in {"calc", "echo"} => turn < Turns

Written ==
  \A c \in Conn :
    /\ taken[c] <= Len(stream[c])
    /\ \A i \in 1..Len(stream[c]) : stream[c][i].by = c /\ stream[c][i].frame \in 1..Len(size[c])

Operands == proc = "up" /\ prog = "calc" /\ at = "answer" => Len(buf) > cnt

TypeInv == TypeOK /\ Place /\ Served /\ Written /\ Operands

-----------------------------------------------------------------------------
(* What clients have written, and what they know before they are accepted. *)

FrameLen(n) == HeadLen + BodyLen(n)

\* The stream ends with the last frame, and is that frame if it is the first.
LastFrame(c) ==
  LET k == Len(size[c]) IN
    IF k = 0 THEN stream[c] = <<>>
    ELSE LET n == FrameLen(size[c][k]) IN
           /\ n <= Len(stream[c])
           /\ k = 1 => n = Len(stream[c])
           /\ \A i \in 1..n :
                stream[c][Len(stream[c]) - n + i] = [by |-> c, frame |-> k, part |-> i - HeadLen]

Fresh(c) ==
  /\ taken[c] = 0 /\ inbox[c] = <<>> /\ echoes[c] = <<>> /\ pos[c] = 0
  /\ peer[c] \in {"new", "open", "fin"}
  /\ peer[c] = "new" => size[c] = <<>>
  /\ c \notin behind

ClientInv ==
  \A c \in Conn :
    /\ LastFrame(c)
    /\ Len(size[c]) <= MaxFrames
    /\ prog = "kakao" => \A k \in 1..Len(size[c]) : size[c][k] = Numbers
    /\ pos[c] <= Len(inbox[c])
    /\ c \in behind => prog = "string"
    /\ c \notin Accepted => Fresh(c)

-----------------------------------------------------------------------------
(* Where calc and kakao are with their client, of one frame. *)

CalcEnded == Gone(cur) /\ size[cur] = <<>> /\ cnt = 0 /\ buf = <<>>
CalcRead ==
  /\ Len(size[cur]) = 1 /\ cnt = size[cur][1]
  /\ taken[cur] = 1 + Len(buf)
  /\ \A i \in 1..Len(buf) : buf[i] = stream[cur][1 + i]

KakaoRead ==
  \/ Gone(cur)
  \/ /\ Len(size[cur]) = 1
     /\ cur \notin short => buf = Body(cur, 1)

SingleInv ==
  prog \in {"calc", "kakao"} /\ proc = "up" /\ at # "accept" =>
    /\ inbox[cur] = <<>> /\ pos[cur] = 0 /\ peer[cur] \in {"open", "fin"}
    /\ at = "head" => taken[cur] = 0
    /\ prog = "calc" /\ at = "body" => CalcEnded \/ CalcRead
    /\ prog = "calc" /\ at = "answer" => CalcRead /\ Len(buf) = cnt + 1
    /\ prog = "kakao" /\ at = "body" => taken[cur] = 0
    /\ prog = "kakao" /\ at = "answer" => KakaoRead

\* Whose number is in intarr[0]: that of the client served, or what halving
\* left of another's.
Leftover == kept > 0 => \E d \in Conn : taken[d] > 0 /\ first[d] > kept

ArrayInv ==
  prog = "kakao" /\ proc = "up" =>
    /\ Len(buf) <= Numbers
    /\ at # "answer" => Leftover
    /\ at = "answer" => \/ kept = first[cur] /\ taken[cur] > 0
                        \/ Gone(cur) /\ taken[cur] = 0 /\ Leftover

-----------------------------------------------------------------------------
(* string: the client and the server keep step, for as long as both last. *)

InStep(c) ==
  /\ Len(inbox[c]) <= Len(size[c]) /\ Len(size[c]) <= Len(inbox[c]) + 1
  /\ peer[c] \in {"new", "open"} /\ phase[c] # "waits" => Len(size[c]) = pos[c]
  /\ peer[c] \in {"new", "open"} /\ phase[c] = "waits" => Len(size[c]) = pos[c] + 1

\* All is read; a frame is to be read; the rest of one is, its length is not
\* where the server looks for it.
NothingLeft == Arrived(cur) = 0 /\ Len(size[cur]) <= turn
FrameLeft == Len(size[cur]) = turn + 1 /\ Arrived(cur) = FrameLen(size[cur][turn + 1])
RestLeft == cur \in short /\ Arrived(cur) > 0 /\ stream[cur][taken[cur] + 1].part # 1 - HeadLen

StringEnded == Gone(cur) /\ cnt = 0 /\ buf = <<>> /\ NothingLeft
StringRead ==
  /\ Len(size[cur]) = turn + 1 /\ cnt = size[cur][turn + 1]
  /\ Len(buf) <= cnt /\ cnt <= Arrived(cur) + Len(buf)
  /\ \A i \in taken[cur] + 1..Len(stream[cur]) : stream[cur][i].part # 1 - HeadLen
  /\ \/ cur \in short /\ Arrived(cur) + Len(buf) > cnt
     \/ /\ Arrived(cur) + Len(buf) = cnt
        /\ \A i \in 1..Len(buf) : buf[i] = stream[cur][taken[cur] - Len(buf) + i]

StringInv ==
  prog = "string" =>
    /\ \A c \in Conn \ behind : InStep(c)
    /\ proc = "up" /\ at = "accept" => turn = 0
    /\ proc = "up" /\ at # "accept" /\ cur \notin behind =>
         /\ peer[cur] = "open" => Len(inbox[cur]) = turn
         /\ Len(size[cur]) = Rounds => peer[cur] \in {"open", "fin", "reset"}
         /\ at = "head" => NothingLeft \/ FrameLeft \/ RestLeft
         /\ at = "body" => StringEnded \/ StringRead
         /\ at = "answer" => (StringEnded \/ StringRead) /\ Len(buf) = cnt

-----------------------------------------------------------------------------
(* echo: what is written back is what was read. *)

InHand(c) == IF c = cur /\ at = "answer" THEN Len(buf) ELSE 0

Echoed(c) ==
  /\ Len(echoes[c]) <= Len(stream[c])
  /\ \A i \in 1..Len(echoes[c]) : echoes[c][i] = stream[c][i]
  /\ peer[c] \in {"new", "open"} => taken[c] = Len(echoes[c]) + InHand(c)

\* The units that were not written back, of a client there, and of one gone.
Unechoed(c) == Len(stream[c]) - Len(echoes[c])
Unread(c) == Len(stream[c]) - taken[c] + InHand(c)

\* A client whose lines are of one unit never has two of them on their way.
UnitLines(c) == \A k \in 1..Len(size[c]) : size[c][k] <= 1

LineByLine(c) ==
  /\ peer[c] \in {"new", "open"} =>
       /\ Unechoed(c) <= 1
       /\ phase[c] # "waits" => Unechoed(c) = 0 /\ pos[c] = Len(inbox[c])
       /\ phase[c] = "waits" /\ pos[c] < Len(inbox[c]) => Unechoed(c) = 0
  /\ peer[c] = "fin" => Unread(c) <= 1
  /\ peer[c] \in {"poked", "reset", "rst"} => Unread(c) = 0

EchoInv ==
  prog = "echo" =>
    /\ \A c \in Conn : Echoed(c) /\ (UnitLines(c) => LineByLine(c))
    /\ at = "body" => buf = <<>>
    /\ proc = "up" /\ at = "answer" =>
         /\ Len(buf) > 0 /\ Len(buf) <= taken[cur]
         /\ \A i \in 1..Len(buf) : buf[i] = stream[cur][taken[cur] - Len(buf) + i]

-----------------------------------------------------------------------------
(* Frames and pieces of streams. *)

LEMMA Heads ==
  /\ HeadLen \in Nat
  /\ \A n \in Nat : BodyLen(n) \in Nat /\ FrameLen(n) \in Nat
<1>1. HeadLen \in Nat
  BY TurnAssumption DEF HeadLen
<1>2. \A n \in Nat : BodyLen(n) \in Nat
  BY DEF BodyLen
<1> QED BY <1>1, <1>2 DEF FrameLen

LEMMA SameHeads ==
  ASSUME prog' = prog
  PROVE  HeadLen' = HeadLen /\ \A n \in Nat : BodyLen(n)' = BodyLen(n) /\ FrameLen(n)' = FrameLen(n)
<1>1. HeadLen' = HeadLen
  BY DEF HeadLen
<1>2. \A n \in Nat : BodyLen(n)' = BodyLen(n)
  BY DEF BodyLen
<1> QED BY <1>1, <1>2 DEF FrameLen

LEMMA FrameType ==
  ASSUME NEW c \in Conn, NEW k \in Nat, NEW n \in Nat
  PROVE  /\ Frame(c, k, n) \in Seq(Unit) /\ Len(Frame(c, k, n)) = FrameLen(n)
         /\ \A i \in 1..FrameLen(n) :
              Frame(c, k, n)[i] = [by |-> c, frame |-> k, part |-> i - HeadLen]
<1>1. FrameLen(n) \in Nat /\ HeadLen \in Nat
  BY Heads
<1>2. \A i \in 1..FrameLen(n) : [by |-> c, frame |-> k, part |-> i - HeadLen] \in Unit
  BY <1>1 DEF Unit
<1>3. Frame(c, k, n) = [i \in 1..FrameLen(n) |-> [by |-> c, frame |-> k, part |-> i - HeadLen]]
  BY DEF Frame, FrameLen
<1>4. Frame(c, k, n) \in [1..FrameLen(n) -> Unit] /\ DOMAIN Frame(c, k, n) = 1..FrameLen(n)
  BY <1>2, <1>3
<1>5. Frame(c, k, n) \in Seq(Unit)
  BY <1>1, <1>4, SeqDef
<1>6. Len(Frame(c, k, n)) = FrameLen(n)
  BY <1>1, <1>4, <1>5, LenProperties
<1> QED BY <1>3, <1>5, <1>6

\* What one write adds to what a client has written.
Extends(c, n) ==
  /\ \A d \in Conn \ {c} : size'[d] = size[d] /\ stream'[d] = stream[d]
  /\ Len(size'[c]) = Len(size[c]) + 1
  /\ \A k \in 1..Len(size[c]) : size'[c][k] = size[c][k]
  /\ size'[c][Len(size[c]) + 1] = n
  /\ Len(stream'[c]) = Len(stream[c]) + FrameLen(n)
  /\ \A i \in 1..Len(stream[c]) : stream'[c][i] = stream[c][i]
  /\ \A i \in 1..FrameLen(n) :
       stream'[c][Len(stream[c]) + i] = [by |-> c, frame |-> Len(size[c]) + 1, part |-> i - HeadLen]

LEMMA WritesExtends ==
  ASSUME TypeOK, NEW c \in Conn, NEW n \in Nat, Writes(c, n)
  PROVE  size' \in [Conn -> Seq(Nat)] /\ stream' \in [Conn -> Seq(Unit)] /\ Extends(c, n)
<1>1. PICK s \in Seq(Nat) : s = size[c]
  BY DEF TypeOK
<1>2. PICK w \in Seq(Unit) : w = stream[c]
  BY DEF TypeOK
<1>3. PICK k \in Nat : k = Len(s) + 1
  BY LenProperties
<1>4. PICK f \in Seq(Unit) :
        /\ f = Frame(c, k, n) /\ Len(f) = FrameLen(n)
        /\ \A i \in 1..FrameLen(n) : f[i] = [by |-> c, frame |-> k, part |-> i - HeadLen]
  BY FrameType
<1>5. /\ Append(s, n) \in Seq(Nat) /\ Len(Append(s, n)) = Len(s) + 1
      /\ \A i \in 1..Len(s) : Append(s, n)[i] = s[i]
      /\ Append(s, n)[Len(s) + 1] = n
  BY AppendProperties
<1>6. /\ w \o f \in Seq(Unit) /\ Len(w \o f) = Len(w) + Len(f)
      /\ \A i \in 1..Len(w) + Len(f) : (w \o f)[i] = IF i <= Len(w) THEN w[i] ELSE f[i - Len(w)]
  BY ConcatProperties
<1>7. Len(w) \in Nat /\ Len(f) \in Nat
  BY LenProperties
<1>8. \A i \in 1..Len(w) : (w \o f)[i] = w[i]
  BY <1>6, <1>7
<1>9. ASSUME NEW i \in 1..Len(f) PROVE (w \o f)[Len(w) + i] = f[i]
  <2>1. Len(w) + i \in 1..Len(w) + Len(f) /\ ~(Len(w) + i <= Len(w)) /\ Len(w) + i - Len(w) = i
    BY <1>7
  <2> QED BY <1>6, <2>1
<1>10. size' = [size EXCEPT ![c] = Append(s, n)] /\ stream' = [stream EXCEPT ![c] = w \o f]
  BY <1>1, <1>2, <1>3, <1>4 DEF Writes
<1>11. size \in [Conn -> Seq(Nat)] /\ stream \in [Conn -> Seq(Unit)]
  BY DEF TypeOK
<1>12. size' \in [Conn -> Seq(Nat)] /\ stream' \in [Conn -> Seq(Unit)]
  BY <1>5, <1>6, <1>10, <1>11
<1>13. /\ size'[c] = Append(s, n) /\ stream'[c] = w \o f
       /\ \A d \in Conn \ {c} : size'[d] = size[d] /\ stream'[d] = stream[d]
  BY <1>10, <1>11
<1>14. \A i \in 1..FrameLen(n) : stream'[c][Len(w) + i] = f[i]
  BY <1>9, <1>13, <1>4
<1>15. /\ Len(size'[c]) = Len(size[c]) + 1
       /\ \A i \in 1..Len(size[c]) : size'[c][i] = size[c][i]
       /\ size'[c][Len(size[c]) + 1] = n
  BY <1>1, <1>5, <1>13
<1>16. /\ Len(stream'[c]) = Len(stream[c]) + FrameLen(n)
       /\ \A i \in 1..Len(stream[c]) : stream'[c][i] = stream[c][i]
  BY <1>2, <1>4, <1>6, <1>8, <1>13
<1>17. \A i \in 1..FrameLen(n) :
         stream'[c][Len(stream[c]) + i] = [by |-> c, frame |-> Len(size[c]) + 1, part |-> i - HeadLen]
  BY <1>1, <1>2, <1>3, <1>4, <1>14
<1> QED BY <1>12, <1>13, <1>15, <1>16, <1>17 DEF Extends

LEMMA Piece ==
  ASSUME NEW S, NEW s \in Seq(S), NEW a \in Nat, NEW n \in Nat, a + n <= Len(s)
  PROVE  /\ SubSeq(s, a + 1, a + n) \in Seq(S) /\ Len(SubSeq(s, a + 1, a + n)) = n
         /\ \A i \in 1..n : SubSeq(s, a + 1, a + n)[i] = s[a + i]
<1>1. Len(s) \in Nat /\ \A i \in 1..Len(s) : s[i] \in S
  BY LenProperties, ElementOfSeq
<1>2. PICK b \in Int : b = a + 1
  OBVIOUS
<1>3. PICK e \in Int : e = a + n
  OBVIOUS
<1>4. \A i \in b..e : s[i] \in S
  BY <1>1, <1>2, <1>3
<1>5. /\ SubSeq(s, b, e) \in Seq(S)
      /\ Len(SubSeq(s, b, e)) = IF b <= e THEN e - b + 1 ELSE 0
      /\ \A i \in 1..e - b + 1 : SubSeq(s, b, e)[i] = s[b + i - 1]
  BY <1>4, SubSeqProperties
<1>6. /\ (IF b <= e THEN e - b + 1 ELSE 0) = n /\ e - b + 1 = n
      /\ \A i \in 1..n : b + i - 1 = a + i
  BY <1>2, <1>3
<1> QED BY <1>2, <1>3, <1>5, <1>6

LEMMA Lengths ==
  ASSUME TypeOK, NEW c \in Conn
  PROVE  /\ Len(stream[c]) \in Nat /\ Len(size[c]) \in Nat /\ taken[c] \in Nat
         /\ pos[c] \in Nat /\ Len(inbox[c]) \in Nat /\ Len(echoes[c]) \in Nat
         /\ Len(buf) \in Nat /\ Arrived(c) \in Int /\ turn \in Nat
<1>1. /\ stream[c] \in Seq(Unit) /\ size[c] \in Seq(Nat) /\ taken[c] \in Nat /\ pos[c] \in Nat
      /\ inbox[c] \in Seq(Seq(Unit)) /\ echoes[c] \in Seq(Unit) /\ buf \in Seq(Unit)
  BY DEF TypeOK
<1>2. turn \in Nat
  BY DEF TypeOK
<1> QED BY <1>1, <1>2, LenProperties DEF Arrived

LEMMA ChunkIs ==
  ASSUME TypeOK, cur \in Conn, NEW n \in Nat, n <= Arrived(cur)
  PROVE  /\ Chunk(n) \in Seq(Unit) /\ Len(Chunk(n)) = n
         /\ \A i \in 1..n : Chunk(n)[i] = stream[cur][taken[cur] + i]
         /\ taken[cur] + n <= Len(stream[cur])
<1>1. stream[cur] \in Seq(Unit) /\ taken[cur] \in Nat /\ Len(stream[cur]) \in Nat
  BY Lengths DEF TypeOK
<1>2. taken[cur] + n <= Len(stream[cur])
  BY <1>1 DEF Arrived
<1>3. PICK w \in Seq(Unit), t \in Nat : w = stream[cur] /\ t = taken[cur]
  BY <1>1
<1>4. t + n <= Len(w)
  BY <1>2, <1>3
<1>5. /\ SubSeq(w, t + 1, t + n) \in Seq(Unit) /\ Len(SubSeq(w, t + 1, t + n)) = n
      /\ \A i \in 1..n : SubSeq(w, t + 1, t + n)[i] = w[t + i]
  BY <1>4, Piece
<1>6. Chunk(n) = SubSeq(w, t + 1, t + n)
  BY <1>3 DEF Chunk
<1> QED BY <1>2, <1>3, <1>5, <1>6
-----------------------------------------------------------------------------
(* The steps keep the types. *)

LEMMA AcceptedFinite == IsFiniteSet(Accepted) /\ Cardinality(Accepted) \in Nat /\ Cardinality(Accepted) <= Cardinality(Conn)
  BY TurnAssumption, FS_Subset, FS_CardinalityType DEF Accepted

LEMMA InitType == Init => TypeInv
<1> SUFFICES ASSUME Init PROVE TypeInv
  OBVIOUS
<1>1. /\ prog \in Prog /\ proc = "up" /\ at = "accept" /\ turn = 0 /\ cur = NoConn
      /\ cnt = 0 /\ buf = <<>> /\ kept = 0 /\ backlog = {} /\ short = {} /\ behind = {}
  BY DEF Init
<1>2. Cardinality(Conn) \in Nat /\ Accepted = {} /\ Cardinality(Accepted) = 0
  BY TurnAssumption, FS_CardinalityType, FS_EmptySet DEF Accepted, Init
<1>3. turn \in 0..CASE prog = "kakao" -> Cardinality(Conn) [] prog = "string" -> Rounds
                    [] OTHER -> Turns
  BY <1>1, <1>2, TurnAssumption
<1>4. <<>> \in Seq(Unit) /\ <<>> \in Seq(Nat) /\ <<>> \in Seq(Seq(Unit))
  OBVIOUS
<1>5. TypeOK
  BY <1>1, <1>3, <1>4, TurnAssumption DEF Init, TypeOK
<1>6. Place /\ Operands
  BY <1>1 DEF Place, Operands
<1>7. Served
  BY <1>1, <1>2, TurnAssumption DEF Served
<1>8. Written
  <2>1. ASSUME NEW c \in Conn PROVE taken[c] = 0 /\ Len(stream[c]) = 0
    BY DEF Init
  <2> QED BY <2>1 DEF Written
<1> QED BY <1>5, <1>6, <1>7, <1>8 DEF TypeInv

\* The part of TypeOK that is about the server, and the part about the clients.
ServerType ==
  /\ proc \in {"up", "done", "spins", "exited", "killed", "lost"}
  /\ at \in {"accept", "head", "body", "answer"}
  /\ turn \in 0..CASE prog = "kakao" -> Cardinality(Conn) [] prog = "string" -> Rounds
                   [] OTHER -> Turns
  /\ cur \in Conn \cup {NoConn}
  /\ cnt \in Nat
  /\ buf \in Seq(Unit) /\ kept \in 0..Halvings + 1

WireType ==
  /\ prog \in Prog
  /\ backlog \subseteq Conn /\ short \subseteq Conn /\ behind \subseteq Conn
  /\ peer \in [Conn -> {"new", "open", "fin", "poked", "reset", "rst"}]
  /\ phase \in [Conn -> {"ready", "waits"}] /\ first \in [Conn -> 0..Halvings + 1]
  /\ size \in [Conn -> Seq(Nat)] /\ stream \in [Conn -> Seq(Unit)]
  /\ taken \in [Conn -> Nat]
  /\ inbox \in [Conn -> Seq(Seq(Unit))] /\ echoes \in [Conn -> Seq(Unit)]
  /\ pos \in [Conn -> Nat]

LEMMA TypeParts == TypeOK <=> ServerType /\ WireType
BY DEF TypeOK, ServerType, WireType

LEMMA CountsNat == Counts \subseteq Nat
BY TurnAssumption DEF Counts

\* What the clients can do, one at a time.
ClientStep(c) ==
  Connect(c) \/ Ask(c) \/ AskStop(c) \/ ReadAnswer(c) \/ ReadLeftover(c)
  \/ Leave(c) \/ ResetArrives(c)

\* A client writes a frame, or writes nothing.
LEMMA ClientWrites ==
  ASSUME TypeOK, NEW c \in Conn, ClientStep(c)
  PROVE  \/ UNCHANGED <<size, stream>>
         \/ \E n \in Counts : Writes(c, n) /\ peer[c] = "open" /\ Len(size[c]) < MaxFrames
                              /\ phase[c] = "ready"
<1>1. CASE Ask(c)
  BY <1>1 DEF Ask
<1>2. CASE AskStop(c)
  <2>1. Numbers \in Counts /\ Len(size[c]) = 0 /\ MaxFrames = 1
    BY <1>2, TurnAssumption DEF AskStop, Counts, MaxFrames
  <2> QED BY <1>2, <2>1 DEF AskStop
<1>3. CASE ~Ask(c) /\ ~AskStop(c)
  BY <1>3 DEF ClientStep, Connect, ReadAnswer, ReadLeftover, Leave, ResetArrives, clientVars
<1> QED BY <1>1, <1>2, <1>3

LEMMA FirstFits == 1 \in 0..Halvings + 1 /\ FirstNumbers \subseteq 0..Halvings + 1
<1>1. Halvings \in Nat
  BY TurnAssumption
<1>2. 0 \in 0..Halvings + 1 /\ 1 \in 0..Halvings + 1
  BY <1>1
<1>3. ASSUME NEW f \in 2..Halvings + 1 PROVE f \in 0..Halvings + 1
  BY <1>1, <1>3
<1> QED BY <1>2, <1>3, Zenon DEF FirstNumbers

LEMMA ClientKeepsWireType ==
  ASSUME TypeOK, NEW c \in Conn, ClientStep(c), UNCHANGED <<prog, taken, inbox, echoes, short>>
  PROVE  WireType'
<1> USE DEF TypeOK
<1>1. size' \in [Conn -> Seq(Nat)] /\ stream' \in [Conn -> Seq(Unit)]
  BY ClientWrites, WritesExtends, CountsNat
<1>2. /\ backlog' \subseteq Conn
      /\ peer' \in [Conn -> {"new", "open", "fin", "poked", "reset", "rst"}]
  BY DEF ClientStep, Connect, Ask, AskStop, ReadAnswer, ReadLeftover, Leave, ResetArrives, Closing
<1>3. /\ behind' \subseteq Conn
      /\ phase' \in [Conn -> {"ready", "waits"}]
  BY DEF ClientStep, Connect, Ask, AskStop, ReadAnswer, ReadLeftover, Leave, ResetArrives, clientVars
<1>5. first' \in [Conn -> 0..Halvings + 1]
  <2>1. 1 \in 0..Halvings + 1 /\ FirstNumbers \subseteq 0..Halvings + 1
    BY FirstFits
  <2>2. first \in [Conn -> 0..Halvings + 1]
    OBVIOUS
  <2>3. first' = first \/ \E f \in 0..Halvings + 1 : first' = [first EXCEPT ![c] = f]
    <3>1. CASE Ask(c)
      BY <2>1, <3>1 DEF Ask
    <3>2. CASE AskStop(c)
      BY <2>1, <3>2 DEF AskStop
    <3>3. CASE ~Ask(c) /\ ~AskStop(c)
      BY <3>3 DEF ClientStep, Connect, ReadAnswer, ReadLeftover, Leave, ResetArrives, clientVars
    <3> QED BY <3>1, <3>2, <3>3
  <2> QED BY <2>2, <2>3
<1>4. pos' \in [Conn -> Nat]
  <2>1. CASE ReadAnswer(c)
    <3>1. Len(inbox[c]) \in Nat
      BY Lengths
    <3> QED BY <2>1, <3>1 DEF ReadAnswer
  <2>2. CASE pos' = pos
    BY <2>2
  <2> QED BY <2>1, <2>2 DEF ClientStep, Connect, Ask, AskStop, ReadLeftover, Leave, ResetArrives, clientVars
<1> QED BY <1>1, <1>2, <1>3, <1>4, <1>5 DEF WireType
\* The clients that are accepted stay so, and only Accept makes more of them.
LEMMA ClientAccepted ==
  ASSUME TypeOK, Place, NEW c \in Conn, ClientStep(c)
  PROVE  /\ Accepted' = Accepted
         /\ \A d \in backlog' : peer'[d] # "new"
         /\ backlog \subseteq backlog'
<1> USE DEF TypeOK, Place
<1>1. CASE Connect(c)
  BY <1>1 DEF Connect, Accepted
<1>2. CASE ~Connect(c)
  <2>1. backlog' = backlog /\ \A d \in Conn : peer'[d] = "new" <=> peer[d] = "new"
    BY <1>2 DEF ClientStep, Ask, AskStop, ReadAnswer, ReadLeftover, Leave, ResetArrives, Closing
  <2> QED BY <2>1 DEF Accepted
<1> QED BY <1>1, <1>2

LEMMA ClientKeepsWritten ==
  ASSUME TypeOK, Written, NEW c \in Conn, ClientStep(c), UNCHANGED <<prog, taken>>
  PROVE  Written'
<1>1. CASE UNCHANGED <<size, stream>>
  BY <1>1 DEF Written
<1>2. ASSUME NEW n \in Counts, Writes(c, n) PROVE Written'
  <2>1. Extends(c, n) /\ n \in Nat
    BY <1>2, WritesExtends, CountsNat
  <2>2. FrameLen(n) \in Nat
    BY <2>1, Heads
  <2>3. PICK w \in Nat, f \in Nat, k \in Nat : w = Len(stream[c]) /\ f = FrameLen(n) /\ k = Len(size[c])
    BY <2>2, Lengths
  <2>4. ASSUME NEW d \in Conn PROVE taken'[d] <= Len(stream'[d])
    <3>1. taken[d] \in Nat /\ taken[d] <= Len(stream[d])
      BY Lengths DEF Written
    <3>2. d = c => Len(stream'[d]) = w + f
      BY <2>1, <2>3 DEF Extends
    <3>3. d # c => Len(stream'[d]) = Len(stream[d])
      BY <2>1 DEF Extends
    <3> QED BY <3>1, <3>2, <3>3, <2>3
  <2>5. ASSUME NEW d \in Conn, NEW i \in 1..Len(stream'[d])
        PROVE  stream'[d][i].by = d /\ stream'[d][i].frame \in 1..Len(size'[d])
    <3>1. CASE d # c
      <4>1. size'[d] = size[d] /\ stream'[d] = stream[d]
        BY <3>1, <2>1 DEF Extends
      <4> QED BY <4>1 DEF Written
    <3>2. CASE d = c
      <4>1. Len(stream'[c]) = w + f /\ Len(size'[c]) = k + 1
        BY <2>1, <2>3 DEF Extends
      <4>2. CASE i <= w
        <5>1. i \in 1..w
          BY <4>2, <2>3, <4>1, <3>2
        <5>2. stream'[c][i] = stream[c][i] /\ stream[c][i].by = c /\ stream[c][i].frame \in 1..k
          BY <5>1, <2>1, <2>3 DEF Extends, Written
        <5> QED BY <3>2, <4>1, <5>2
      <4>3. CASE i > w
        <5>1. PICK j \in 1..f : i = w + j
          <6>1. i - w \in 1..f /\ i = w + (i - w)
            BY <4>3, <2>3, <4>1, <3>2
          <6> QED BY <6>1
        <5>2. stream'[c][i] = [by |-> c, frame |-> k + 1, part |-> j - HeadLen]
          BY <5>1, <2>1, <2>3 DEF Extends
        <5> QED BY <3>2, <4>1, <5>2
      <4>4. i \in Nat
        BY <4>1, <3>2, <2>3
      <4> QED BY <4>2, <4>3, <4>4, <2>3
    <3> QED BY <3>1, <3>2
  <2> QED BY <2>4, <2>5 DEF Written
<1> QED BY <1>1, <1>2, ClientWrites

LEMMA ClientKeepsType ==
  ASSUME TypeInv, NEW c \in Conn, ClientStep(c),
         UNCHANGED <<prog, serverVars, taken, answerVars, short>>
  PROVE  TypeInv'
<1> USE DEF TypeInv, serverVars, answerVars
<1>1. WireType'
  BY ClientKeepsWireType
<1>2. ServerType'
  <2>1. ServerType
    BY TypeParts
  <2> QED BY <2>1 DEF ServerType
<1>3. Written'
  BY ClientKeepsWritten
<1>4. Accepted' = Accepted /\ \A d \in backlog' : peer'[d] # "new"
  BY ClientAccepted
<1>5. Place' /\ Served' /\ Operands'
  BY <1>4 DEF Place, Served, Operands
<1>6. TypeOK'
  BY <1>1, <1>2, TypeParts DEF TypeOK, ServerType, WireType
<1> QED BY <1>3, <1>5, <1>6


LEMMA AcceptKeepsType ==
  ASSUME TypeInv, Accept, proc = "up", UNCHANGED <<prog, clientVars>>
  PROVE  TypeInv'
<1> USE DEF TypeInv, clientVars, answerVars
<1>1. PICK c \in backlog : cur' = c /\ backlog' = backlog \ {c}
  BY DEF Accept
<1>2. c \in Conn /\ cur = NoConn /\ peer[c] # "new" /\ c \notin Accepted
  BY <1>1 DEF TypeOK, Place, Accepted, Accept
<1>3. /\ at' \in {"head", "body"} /\ (at' = "head" => prog \in {"calc", "string"})
      /\ cnt' = 0 /\ buf' \in Seq(Unit) /\ kept' = kept
      /\ UNCHANGED <<proc, turn, peer, taken, inbox, echoes, short>>
  BY DEF Accept, FirstPlace, Emptied, TypeOK
<1>4. TypeOK'
  <2>1. ServerType /\ WireType
    BY TypeParts
  <2>2. ServerType'
    BY <1>1, <1>2, <1>3, <2>1 DEF ServerType
  <2>3. WireType'
    BY <1>1, <1>2, <1>3, <2>1 DEF WireType
  <2> QED BY <2>2, <2>3 DEF TypeOK, ServerType, WireType
<1>5. Accepted' = Accepted \cup {c}
  BY <1>1, <1>2, <1>3 DEF Accepted
<1>6. Place'
  BY <1>1, <1>2, <1>3, <1>5 DEF Place
<1>7. Served'
  <2>1. Cardinality(Accepted') = Cardinality(Accepted) + 1
    BY <1>2, <1>5, AcceptedFinite, FS_AddElement
  <2>2. cur' # NoConn /\ cur = NoConn
    BY <1>1, <1>2, TurnAssumption
  <2>3. turn \in Nat /\ Cardinality(Accepted) \in Nat
    BY AcceptedFinite DEF TypeOK
  <2>4. prog' = "kakao" => turn' + (IF cur' = NoConn THEN 0 ELSE 1) = Cardinality(Accepted')
    BY <2>1, <2>2, <2>3, <1>3 DEF Served
  <2>5. Cardinality(Accepted)' = Cardinality(Accepted')
    OBVIOUS
  <2> QED BY <2>4, <2>5, <1>3 DEF Served
<1>8. Written' /\ Operands'
  BY <1>3 DEF Written, Operands
<1> QED BY <1>4, <1>6, <1>7, <1>8
\* Reading n units of the client served.
LEMMA TakesType ==
  ASSUME TypeOK, Written, cur \in Conn, NEW n \in Nat, n <= Arrived(cur), Takes(n)
  PROVE  /\ taken' \in [Conn -> Nat] /\ taken'[cur] = taken[cur] + n
         /\ \A d \in Conn : d # cur => taken'[d] = taken[d]
         /\ \A d \in Conn : taken'[d] <= Len(stream[d])
<1>1. taken[cur] \in Nat /\ taken \in [Conn -> Nat] /\ taken[cur] + n <= Len(stream[cur])
  BY ChunkIs DEF TypeOK
<1>2. taken' = [taken EXCEPT ![cur] = taken[cur] + n]
  BY DEF Takes
<1>3. taken' \in [Conn -> Nat] /\ taken'[cur] = taken[cur] + n
  BY <1>1, <1>2
<1>4. \A d \in Conn : d # cur => taken'[d] = taken[d]
  BY <1>1, <1>2
<1>5. ASSUME NEW d \in Conn PROVE taken'[d] <= Len(stream[d])
  <2>1. CASE d = cur
    BY <2>1, <1>1, <1>3
  <2>2. CASE d # cur
    BY <2>2, <1>4 DEF Written
  <2> QED BY <2>1, <2>2
<1> QED BY <1>3, <1>4, <1>5

LEMMA ReportType ==
  ASSUME TypeOK, cur \in Conn, ErrorReported \/ peer' = peer
  PROVE  /\ peer' \in [Conn -> {"new", "open", "fin", "poked", "reset", "rst"}]
         /\ \A d \in Conn : peer'[d] # peer[d] => d = cur /\ peer[d] = "reset" /\ peer'[d] = "rst"
BY DEF TypeOK, ErrorReported

\* The unit a header begins with, and the count it names.
LEMMA HeadUnit ==
  ASSUME TypeOK, Written, cur \in Conn, NEW n \in Nat, n > 0, n <= Arrived(cur)
  PROVE  /\ Chunk(n)[1] = stream[cur][taken[cur] + 1]
         /\ size[cur][Chunk(n)[1].frame] \in Nat
<1>1. Chunk(n)[1] = stream[cur][taken[cur] + 1]
  BY ChunkIs
<1>2. taken[cur] + 1 \in 1..Len(stream[cur])
  BY Lengths, ChunkIs
<1>3. stream[cur][taken[cur] + 1].frame \in 1..Len(size[cur])
  BY <1>2 DEF Written
<1>4. size[cur] \in Seq(Nat)
  BY DEF TypeOK
<1>5. size[cur][stream[cur][taken[cur] + 1].frame] \in Nat
  BY <1>3, <1>4, ElementOfSeq
<1> QED BY <1>1, <1>5

LEMMA ReadHeadKeepsType ==
  ASSUME TypeInv, ReadHead, proc = "up", UNCHANGED <<prog, clientVars>>
  PROVE  TypeInv'
<1> USE DEF TypeInv, clientVars, answerVars
<1>1. /\ at = "head" /\ at' = "body" /\ buf' = <<>>
      /\ cur \in Conn /\ cur \in Accepted
      /\ UNCHANGED <<turn, cur, kept, backlog, inbox, echoes, size, stream, phase, first, behind, pos, prog>>
  BY DEF ReadHead, Place, Accepted
<1>2. /\ taken' \in [Conn -> Nat] /\ \A d \in Conn : taken'[d] <= Len(stream[d])
      /\ cnt' \in Nat /\ short' \subseteq Conn /\ proc' \in {"up", "lost"}
      /\ ErrorReported \/ peer' = peer
  <2>1. ASSUME NEW n \in 1..HeadLen, n <= Arrived(cur), Takes(n),
               short' = IF n < HeadLen THEN short \cup {cur} ELSE short,
               LET u == Chunk(n)[1] IN
                 IF u.part = 1 - HeadLen THEN cnt' = size[cur][u.frame] /\ UNCHANGED proc
                                         ELSE proc' = "lost" /\ UNCHANGED cnt,
               UNCHANGED peer
        PROVE  <1>2!:
    <3>1. n \in Nat /\ n > 0
      BY Heads
    <3>2. taken' \in [Conn -> Nat] /\ \A d \in Conn : taken'[d] <= Len(stream[d])
      BY <2>1, <3>1, <1>1, TakesType
    <3>3. size[cur][Chunk(n)[1].frame] \in Nat
      BY <2>1, <3>1, <1>1, HeadUnit
    <3>4. cnt' \in Nat /\ proc' \in {"up", "lost"}
      BY <2>1, <3>3 DEF TypeOK
    <3>5. short' \subseteq Conn
      BY <2>1, <1>1 DEF TypeOK
    <3> QED BY <2>1, <3>2, <3>4, <3>5
  <2>2. ASSUME cnt' = 0, ErrorReported, UNCHANGED <<proc, taken, short>>
        PROVE  <1>2!:
    BY <2>2 DEF TypeOK, Written
  <2> QED BY <2>1, <2>2 DEF ReadHead
<1>3. peer' \in [Conn -> {"new", "open", "fin", "poked", "reset", "rst"}]
      /\ \A d \in Conn : peer'[d] = "new" <=> peer[d] = "new"
  BY <1>1, <1>2, ReportType
<1>4. TypeOK'
  <2>1. ServerType'
    BY <1>1, <1>2 DEF TypeOK, ServerType
  <2>2. WireType'
    BY <1>1, <1>2, <1>3 DEF TypeOK, WireType
  <2> QED BY <2>1, <2>2 DEF TypeOK, ServerType, WireType
<1>5. Accepted' = Accepted
  BY <1>1, <1>3 DEF Accepted
<1>6. Place'
  BY <1>1, <1>3, <1>5 DEF Place, TypeOK
<1>7. Served'
  BY <1>1, <1>5 DEF Served
<1>8. Written'
  BY <1>1, <1>2 DEF Written
<1>9. Operands'
  BY <1>1 DEF Operands
<1> QED BY <1>4, <1>6, <1>7, <1>8, <1>9
LEMMA BufType ==
  ASSUME TypeOK, cur \in Conn, NEW n \in Nat, n <= Arrived(cur)
  PROVE  /\ buf \o Chunk(n) \in Seq(Unit) /\ Len(buf \o Chunk(n)) = Len(buf) + n
         /\ \A i \in 1..Len(buf) : (buf \o Chunk(n))[i] = buf[i]
         /\ \A i \in 1..n : (buf \o Chunk(n))[Len(buf) + i] = stream[cur][taken[cur] + i]
<1>1. PICK b \in Seq(Unit) : b = buf
  BY DEF TypeOK
<1>2. PICK s \in Seq(Unit) :
        s = Chunk(n) /\ Len(s) = n /\ \A i \in 1..n : s[i] = stream[cur][taken[cur] + i]
  BY ChunkIs
<1>3. /\ b \o s \in Seq(Unit) /\ Len(b \o s) = Len(b) + Len(s)
      /\ \A i \in 1..Len(b) + Len(s) : (b \o s)[i] = IF i <= Len(b) THEN b[i] ELSE s[i - Len(b)]
  BY ConcatProperties
<1>4. Len(b) \in Nat
  BY LenProperties
<1>5. \A i \in 1..Len(b) : (b \o s)[i] = b[i]
  BY <1>2, <1>3, <1>4
<1>6. ASSUME NEW i \in 1..n PROVE (b \o s)[Len(b) + i] = s[i]
  <2>1. Len(b) + i \in 1..Len(b) + n /\ ~(Len(b) + i <= Len(b)) /\ Len(b) + i - Len(b) = i
    BY <1>4
  <2> QED BY <1>2, <1>3, <2>1
<1> QED BY <1>1, <1>2, <1>3, <1>5, <1>6

\* What is in the array of kakao after a read of n numbers.
LEMMA StoredType ==
  ASSUME TypeOK, cur \in Conn, NEW n \in Nat, n <= Arrived(cur)
  PROVE  /\ Stored(Chunk(n)) \in Seq(Unit)
         /\ prog # "kakao" => Stored(Chunk(n)) = buf \o Chunk(n)
         /\ prog = "kakao" /\ Len(buf) <= n => Stored(Chunk(n)) = Chunk(n)
         /\ prog = "kakao" => Len(Stored(Chunk(n))) <= n \/ Len(Stored(Chunk(n))) = Len(buf)
<1>1. PICK b \in Seq(Unit) : b = buf
  BY DEF TypeOK
<1>2. PICK w \in Seq(Unit) : w = Chunk(n) /\ Len(w) = n
  BY ChunkIs
<1>3. PICK m \in Nat : m = Len(b)
  BY LenProperties
<1>4. \A i \in n + 1..m : b[i] \in Unit
  <2>1. \A i \in 1..Len(b) : b[i] \in Unit
    BY ElementOfSeq
  <2> QED BY <2>1, <1>3
<1>5. PICK a \in Int : a = n + 1
  OBVIOUS
<1>6. /\ SubSeq(b, a, m) \in Seq(Unit)
      /\ Len(SubSeq(b, a, m)) = IF a <= m THEN m - a + 1 ELSE 0
  BY <1>4, <1>5, SubSeqProperties
<1>7. PICK r \in Seq(Unit) : r = SubSeq(b, a, m) /\ Len(r) = IF a <= m THEN m - a + 1 ELSE 0
  BY <1>6
<1>8. w \o r \in Seq(Unit) /\ Len(w \o r) = Len(w) + Len(r)
  BY ConcatProperties
<1>9. prog = "kakao" => Stored(Chunk(n)) = w \o r
  BY <1>1, <1>2, <1>3, <1>5, <1>7 DEF Stored
<1>10. prog # "kakao" => Stored(Chunk(n)) = buf \o Chunk(n) /\ buf \o Chunk(n) \in Seq(Unit)
  BY BufType DEF Stored
<1>11. ASSUME Len(buf) <= n PROVE w \o r = w
  <2>1. Len(r) = 0
    BY <1>1, <1>3, <1>5, <1>7, <1>11
  <2>2. r = <<>>
    BY <2>1, <1>7, EmptySeq
  <2> QED BY <2>2, ConcatEmptySeq
<1>12. Len(w \o r) <= n \/ Len(w \o r) = m
  <2>1. PICK k \in Nat : k = Len(r)
    BY LenProperties
  <2>2. k = IF n + 1 <= m THEN m - (n + 1) + 1 ELSE 0
    BY <2>1, <1>5, <1>7
  <2>3. n + k <= n \/ n + k = m
    BY <2>2
  <2> QED BY <1>2, <1>8, <2>1, <2>3
<1>14. prog = "kakao" /\ Len(buf) <= n => Stored(Chunk(n)) = Chunk(n)
  BY <1>2, <1>9, <1>11
<1>15. prog = "kakao" => Len(Stored(Chunk(n))) <= n \/ Len(Stored(Chunk(n))) = Len(buf)
  BY <1>1, <1>3, <1>9, <1>12
<1>16. Stored(Chunk(n)) \in Seq(Unit)
  BY <1>8, <1>9, <1>10
<1> QED BY <1>10, <1>14, <1>15, <1>16

LEMMA ReadBodyKeepsType ==
  ASSUME TypeInv, ReadBody, proc = "up", UNCHANGED <<prog, clientVars>>
  PROVE  TypeInv'
<1> USE DEF TypeInv, clientVars, answerVars
<1>1. /\ at = "body" /\ cur \in Conn /\ cur \in Accepted
      /\ UNCHANGED <<cnt, backlog, inbox, echoes, size, stream, phase, first, behind, pos, prog>>
  BY DEF ReadBody, Place, Accepted
<1>2. CASE \E n \in 1..AtMost :
             /\ n <= Arrived(cur)
             /\ Takes(n)
             /\ buf' = Stored(Chunk(n))
             /\ kept' = IF prog = "kakao" THEN first[cur] ELSE kept
             /\ short' = IF prog = "kakao" /\ n < Numbers THEN short \cup {cur} ELSE short
             /\ at' = IF prog \in {"echo", "kakao"} THEN "answer" ELSE "body"
             /\ UNCHANGED <<proc, turn, cur, peer>>
  <2>1. PICK n \in 1..AtMost :
          /\ n <= Arrived(cur) /\ Takes(n) /\ buf' = Stored(Chunk(n))
          /\ kept' = IF prog = "kakao" THEN first[cur] ELSE kept
          /\ short' = IF prog = "kakao" /\ n < Numbers THEN short \cup {cur} ELSE short
          /\ at' = IF prog \in {"echo", "kakao"} THEN "answer" ELSE "body"
          /\ UNCHANGED <<proc, turn, cur, peer>>
    BY <1>2
  <2>2. n \in Nat
    BY <1>1, Lengths, TurnAssumption DEF AtMost
  <2>3. taken' \in [Conn -> Nat] /\ \A d \in Conn : taken'[d] <= Len(stream[d])
    BY <2>1, <2>2, <1>1, TakesType
  <2>4. buf' \in Seq(Unit) /\ kept' \in 0..Halvings + 1
    BY <2>1, <2>2, <1>1, StoredType DEF TypeOK
  <2>5. short' \subseteq Conn /\ at' \in {"body", "answer"}
    BY <2>1, <1>1 DEF TypeOK
  <2>6. TypeOK'
    <3>1. ServerType'
      BY <1>1, <2>1, <2>4, <2>5 DEF TypeOK, ServerType
    <3>2. WireType'
      BY <1>1, <2>1, <2>3, <2>5 DEF TypeOK, WireType
    <3> QED BY <3>1, <3>2 DEF TypeOK, ServerType, WireType
  <2>7. Accepted' = Accepted
    BY <1>1, <2>1 DEF Accepted
  <2>8. Place' /\ Served' /\ Operands'
    BY <1>1, <2>1, <2>5, <2>7 DEF Place, Served, Operands
  <2>9. Written'
    BY <1>1, <2>3 DEF Written
  <2> QED BY <2>6, <2>8, <2>9
<1>3. CASE BodyOver /\ ErrorReported /\ UNCHANGED <<buf, kept, taken, short>>
  <2>1. peer' \in [Conn -> {"new", "open", "fin", "poked", "reset", "rst"}]
        /\ \A d \in Conn : peer'[d] = "new" <=> peer[d] = "new"
    BY <1>1, <1>3, ReportType
  <2>2. \/ prog = "echo" /\ EndOfEcho
        \/ UNCHANGED <<at, turn, cur>> /\ proc' \in {"up", "spins", "exited"}
        \/ UNCHANGED <<proc, turn, cur>> /\ at' = "answer" /\ prog = "kakao"
    BY <1>3 DEF BodyOver, EndSpins
  <2>3. Accepted' = Accepted
    BY <1>1, <2>1 DEF Accepted
  <2>4. Written'
    BY <1>1, <1>3 DEF Written
  <2>5. WireType'
    BY <1>1, <1>3, <2>1 DEF TypeOK, WireType
  <2>6. CASE prog = "echo" /\ EndOfEcho
    <3>1. /\ turn' = turn + 1 /\ cur' = NoConn /\ at' = "accept"
          /\ proc' = IF turn + 1 = Turns THEN "done" ELSE "up"
      BY <2>6 DEF EndOfEcho
    <3>2. turn \in Nat /\ turn < Turns /\ Turns \in Nat
      BY <2>6, TurnAssumption DEF TypeOK, Served
    <3>3. turn + 1 \in 0..Turns /\ (turn + 1 # Turns => turn + 1 < Turns)
      BY <3>2
    <3>4. ServerType'
      BY <1>1, <1>3, <2>6, <3>1, <3>3 DEF TypeOK, ServerType
    <3>5. Place' /\ Operands'
      BY <1>1, <2>1, <2>3, <3>1 DEF Place, Operands, TypeOK
    <3>6. Served'
      BY <1>1, <2>6, <3>1, <3>3 DEF Served
    <3> QED BY <2>4, <2>5, <3>4, <3>5, <3>6 DEF TypeOK, ServerType, WireType
  <2>7. CASE \/ UNCHANGED <<at, turn, cur>> /\ proc' \in {"up", "spins", "exited"}
             \/ UNCHANGED <<proc, turn, cur>> /\ at' = "answer" /\ prog = "kakao"
    <3>1. ServerType'
      BY <1>1, <1>3, <2>7 DEF TypeOK, ServerType
    <3>2. Place'
      BY <1>1, <2>1, <2>3, <2>7 DEF Place, TypeOK
    <3>3. Served' /\ Operands'
      BY <1>1, <1>3, <2>3, <2>7 DEF Served, Operands
    <3> QED BY <2>4, <2>5, <3>1, <3>2, <3>3 DEF TypeOK, ServerType, WireType
  <2> QED BY <2>2, <2>6, <2>7
<1> QED BY <1>2, <1>3 DEF ReadBody

LEMMA BodyCompleteKeepsType ==
  ASSUME TypeInv, BodyComplete, UNCHANGED <<prog, clientVars>>
  PROVE  TypeInv'
<1> USE DEF TypeInv, clientVars, answerVars, BodyComplete
<1>1. Accepted' = Accepted
  BY DEF Accepted
<1>2. Place' /\ Served' /\ Written'
  BY <1>1 DEF Place, Served, Written
<1>3. Operands'
  <2>1. ASSUME prog = "calc" PROVE Len(buf) > cnt
    <3>1. ~(cnt + 1 > Len(buf))
      BY <2>1 DEF NeedsMore, BodyLen
    <3>2. Len(buf) \in Nat /\ cnt \in Nat
      BY LenProperties DEF TypeOK
    <3> QED BY <3>1, <3>2
  <2> QED BY <2>1 DEF Operands
<1>4. TypeOK'
  BY DEF TypeOK
<1> QED BY <1>2, <1>3, <1>4
LEMMA ReplyType ==
  ASSUME TypeInv, at = "answer", proc = "up"
  PROVE  Reply \in Seq(Unit)
<1>1. CASE prog = "calc" /\ cnt # 0
  <2>1. Len(buf) \in Nat /\ cnt \in Nat /\ Len(buf) > cnt /\ buf \in Seq(Unit)
    BY <1>1, LenProperties DEF TypeInv, TypeOK, Operands
  <2>2. 0 + cnt <= Len(buf) /\ 0 + 1 = 1 /\ 0 + cnt = cnt /\ 0 \in Nat /\ Len(buf) \in 1..Len(buf)
    BY <2>1, <1>1
  <2>3. SubSeq(buf, 0 + 1, 0 + cnt) \in Seq(Unit)
    BY <2>1, <2>2, Piece
  <2>4. SubSeq(buf, 1, cnt) \in Seq(Unit)
    BY <2>2, <2>3
  <2>5. buf[Len(buf)] \in Unit
    BY <2>1, <2>2, ElementOfSeq
  <2>6. Reply = Append(SubSeq(buf, 1, cnt), buf[Len(buf)])
    BY <1>1 DEF Reply, Result
  <2> QED BY <2>4, <2>5, <2>6, AppendProperties
<1>2. CASE prog = "calc" /\ cnt = 0
  BY <1>2 DEF Reply, Result
<1>3. CASE prog # "calc"
  BY <1>3 DEF Reply, TypeInv, TypeOK
<1> QED BY <1>1, <1>2, <1>3

\* What an answer adds to what has been written to the client.
LEMMA AnswersType ==
  ASSUME TypeInv, at = "answer", proc = "up", cur \in Conn, Answers
  PROVE  /\ inbox' \in [Conn -> Seq(Seq(Unit))] /\ echoes' \in [Conn -> Seq(Unit)]
         /\ \A d \in Conn : d # cur => inbox'[d] = inbox[d] /\ echoes'[d] = echoes[d]
         /\ Len(inbox'[cur]) = Len(inbox[cur]) + 1
         /\ \A k \in 1..Len(inbox[cur]) : inbox'[cur][k] = inbox[cur][k]
         /\ inbox'[cur][Len(inbox[cur]) + 1] = Reply
         /\ echoes'[cur] = echoes[cur] \o Reply
<1>1. PICK r \in Seq(Unit) : r = Reply
  BY ReplyType
<1>2. PICK b \in Seq(Seq(Unit)) : b = inbox[cur]
  BY DEF TypeInv, TypeOK
<1>3. PICK e \in Seq(Unit) : e = echoes[cur]
  BY DEF TypeInv, TypeOK
<1>4. /\ Append(b, r) \in Seq(Seq(Unit)) /\ Len(Append(b, r)) = Len(b) + 1
      /\ \A i \in 1..Len(b) : Append(b, r)[i] = b[i]
      /\ Append(b, r)[Len(b) + 1] = r
  BY AppendProperties
<1>5. e \o r \in Seq(Unit)
  BY ConcatProperties
<1>6. /\ inbox' = [inbox EXCEPT ![cur] = Append(b, r)] /\ echoes' = [echoes EXCEPT ![cur] = e \o r]
      /\ inbox \in [Conn -> Seq(Seq(Unit))] /\ echoes \in [Conn -> Seq(Unit)]
  BY <1>1, <1>2, <1>3 DEF Answers, TypeInv, TypeOK
<1>7. /\ inbox' \in [Conn -> Seq(Seq(Unit))] /\ echoes' \in [Conn -> Seq(Unit)]
      /\ \A d \in Conn : d # cur => inbox'[d] = inbox[d] /\ echoes'[d] = echoes[d]
      /\ inbox'[cur] = Append(b, r) /\ echoes'[cur] = e \o r
  BY <1>4, <1>5, <1>6
<1> QED BY <1>1, <1>2, <1>3, <1>4, <1>7

\* Where the server goes on after an answer.
LEMMA OnwardType ==
  ASSUME TypeInv, at = "answer", proc = "up", Onward, prog' = prog, backlog' = backlog,
         Accepted' = Accepted, buf' \in Seq(Unit), kept' \in 0..Halvings + 1, cnt' = cnt
  PROVE  ServerType' /\ Served' /\ Operands'
         /\ (at' = "accept" => cur' = NoConn) /\ (at' # "accept" => cur' \in Accepted')
         /\ (at' = "head" => prog \in {"calc", "string"})
<1> USE DEF TypeInv
<1>1. cur \in Accepted /\ cur \in Conn /\ cur # NoConn /\ cnt' \in Nat /\ buf' \in Seq(Unit)
  BY TurnAssumption DEF Place, Accepted, TypeOK
<1>2. turn \in Nat /\ Turns \in Nat /\ Rounds \in Nat
  BY TurnAssumption DEF TypeOK
<1>3. CASE prog = "string"
  <2>1. turn' = turn + 1 /\ at' = "head" /\ cur' = cur /\ proc' = IF turn + 1 = Rounds THEN "done" ELSE "up"
    BY <1>3 DEF Onward, NextRound
  <2>2. turn < Rounds
    BY <1>3 DEF Served
  <2>3. turn' \in 0..Rounds /\ (proc' = "up" => turn' < Rounds)
    BY <2>1, <2>2, <1>2
  <2>4. ServerType'
    BY <1>1, <1>3, <2>1, <2>3 DEF ServerType
  <2> QED BY <1>1, <1>3, <2>1, <2>3, <2>4 DEF Served, Operands
<1>4. CASE prog = "echo"
  <2>1. at' = "body" /\ UNCHANGED <<proc, turn, cur>>
    BY <1>4 DEF Onward
  <2>2. ServerType'
    BY <1>1, <1>4, <2>1 DEF ServerType, TypeOK
  <2> QED BY <1>1, <1>4, <2>1, <2>2 DEF Served, Operands
<1>5. CASE prog \in {"calc", "kakao"}
  <2>1. /\ turn' = turn + 1 /\ cur' = NoConn /\ at' = "accept"
        /\ proc' = IF prog = "calc" /\ turn + 1 = Turns THEN "done" ELSE "up"
    BY <1>5 DEF Onward, NextClient
  <2>2. prog = "calc" => turn < Turns
    BY DEF Served
  <2>3. prog = "calc" => turn' \in 0..Turns /\ (proc' = "up" => turn' < Turns)
    BY <2>1, <2>2, <1>2
  <2>4. prog = "kakao" => turn + 1 = Cardinality(Accepted)
    BY <1>1 DEF Served
  <2>5. Cardinality(Accepted) <= Cardinality(Conn) /\ Cardinality(Accepted) \in Nat /\ Cardinality(Conn) \in Nat
    BY AcceptedFinite, TurnAssumption, FS_CardinalityType
  <2>6. prog = "kakao" => turn' \in 0..Cardinality(Conn)
    BY <2>1, <2>4, <2>5
  <2>7. ServerType'
    BY <1>1, <1>5, <2>1, <2>3, <2>6 DEF ServerType
  <2>8. Served'
    BY <1>2, <1>5, <2>1, <2>3, <2>4 DEF Served
  <2> QED BY <2>1, <2>7, <2>8 DEF Operands
<1>6. prog \in {"calc", "string", "echo", "kakao"}
  BY TurnAssumption DEF TypeOK
<1> QED BY <1>3, <1>4, <1>5, <1>6

\* A write either tells nothing new, is an answer, or provokes a reset.
LEMMA WriteCases ==
  ASSUME WriteAnswer
  PROVE  /\ at = "answer" /\ buf' = Emptied /\ kept' = Halved
         /\ UNCHANGED <<cnt, backlog, taken, short>>
         /\ \/ /\ Stopped /\ proc' = "done"
               /\ UNCHANGED <<at, turn, cur, peer, answerVars>>
            \/ ~Stopped /\ peer[cur] = "open" /\ Answers /\ Onward /\ UNCHANGED peer
            \/ /\ ~Stopped /\ peer[cur] \in {"fin", "poked", "reset"}
               /\ peer' = [peer EXCEPT ![cur] = IF @ = "reset" THEN "rst" ELSE "poked"]
               /\ Onward /\ UNCHANGED answerVars
            \/ /\ ~Stopped /\ peer[cur] = "rst" /\ proc' = "killed"
               /\ UNCHANGED <<at, turn, cur, peer, answerVars>>
BY DEF WriteAnswer

LEMMA WriteAnswerKeepsType ==
  ASSUME TypeInv, WriteAnswer, proc = "up", UNCHANGED <<prog, clientVars>>
  PROVE  TypeInv'
<1> USE DEF TypeInv, clientVars, answerVars
<1>9. kept \in 0..Halvings + 1 /\ Halvings \in Nat /\ buf \in Seq(Unit)
  BY TurnAssumption DEF TypeOK
<1>10. Halved \in 0..Halvings + 1 /\ Emptied \in Seq(Unit)
  BY <1>9 DEF Halved, Emptied
<1>1. /\ at = "answer" /\ buf' \in Seq(Unit) /\ kept' \in 0..Halvings + 1
      /\ UNCHANGED <<cnt, backlog, taken, short>>
      /\ cur \in Accepted /\ cur \in Conn
  BY <1>10, WriteCases DEF Place, Accepted
<1>2. /\ peer' \in [Conn -> {"new", "open", "fin", "poked", "reset", "rst"}]
      /\ \A d \in Conn : peer'[d] = "new" <=> peer[d] = "new"
  <2>1. \/ peer' = peer
        \/ /\ peer[cur] \in {"fin", "poked", "reset"}
           /\ peer' = [peer EXCEPT ![cur] = IF @ = "reset" THEN "rst" ELSE "poked"]
    BY WriteCases
  <2> QED BY <1>1, <2>1 DEF TypeOK
<1>3. inbox' \in [Conn -> Seq(Seq(Unit))] /\ echoes' \in [Conn -> Seq(Unit)]
  <2>1. Answers \/ UNCHANGED answerVars
    BY WriteCases
  <2> QED BY <1>1, <2>1, AnswersType DEF TypeOK
<1>4. Accepted' = Accepted
  BY <1>1, <1>2 DEF Accepted
<1>5. WireType'
  BY <1>1, <1>2, <1>3 DEF TypeOK, WireType
<1>6. Written'
  BY <1>1 DEF Written
<1>7. CASE Onward
  <2>1. /\ ServerType' /\ Served' /\ Operands'
        /\ (at' = "accept" => cur' = NoConn) /\ (at' # "accept" => cur' \in Accepted')
        /\ (at' = "head" => prog \in {"calc", "string"})
    BY <1>1, <1>4, <1>7, OnwardType
  <2>2. Place'
    BY <2>1, <1>1, <1>2 DEF Place, TypeOK
  <2> QED BY <1>5, <1>6, <2>1, <2>2 DEF TypeOK, ServerType, WireType
<1>8. CASE proc' \in {"done", "killed"} /\ UNCHANGED <<at, turn, cur>>
  <2>1. ServerType'
    BY <1>1, <1>8 DEF ServerType, TypeOK
  <2>2. Place'
    BY <1>1, <1>2, <1>4, <1>8 DEF Place, TypeOK
  <2>3. Served'
    BY <1>4, <1>8 DEF Served
  <2>4. Operands'
    BY <1>8 DEF Operands
  <2> QED BY <1>5, <1>6, <2>1, <2>2, <2>3, <2>4 DEF TypeOK, ServerType, WireType
<1> QED BY <1>7, <1>8, WriteCases
\* A step of the server or of one client, while the server lasts.
LEMMA NextSplit ==
  ASSUME [Next]_vars
  PROVE  \/ UNCHANGED vars
         \/ /\ proc = "up" /\ UNCHANGED <<prog, clientVars>>
            /\ Accept \/ ReadHead \/ ReadBody \/ BodyComplete \/ WriteAnswer
         \/ /\ proc = "up" /\ UNCHANGED <<prog, serverVars, taken, answerVars, short>>
            /\ \E c \in Conn : ClientStep(c)
BY DEF Next, ServerNext, ClientNext, ClientStep

LEMMA StutterKeepsType == TypeInv /\ UNCHANGED vars => TypeInv'
<1> SUFFICES ASSUME TypeInv, UNCHANGED vars PROVE TypeInv'
  OBVIOUS
<1> USE DEF vars, serverVars, clientVars, wireVars, answerVars
<1>1. TypeOK'
  BY DEF TypeInv, TypeOK
<1>2. Accepted' = Accepted
  BY DEF Accepted
<1>3. Place' /\ Served' /\ Written' /\ Operands'
  BY <1>2 DEF TypeInv, Place, Served, Written, Operands
<1> QED BY <1>1, <1>3 DEF TypeInv

LEMMA NextType == TypeInv /\ [Next]_vars => TypeInv'
<1> SUFFICES ASSUME TypeInv, [Next]_vars PROVE TypeInv'
  OBVIOUS
<1> QED BY NextSplit, StutterKeepsType, AcceptKeepsType, ReadHeadKeepsType, ReadBodyKeepsType,
           BodyCompleteKeepsType, WriteAnswerKeepsType, ClientKeepsType

LEMMA TypeInvariant == Spec => []TypeInv
BY InitType, NextType, PTL DEF Spec

\* Every variable keeps its type; the server never serves more clients, or
\* rounds, than it counts, and kakao none that did not connect.
THEOREM TypeCorrect == Spec => []TypeOK
<1>1. TypeInv => TypeOK
  BY DEF TypeInv
<1> QED BY <1>1, TypeInvariant, PTL
-----------------------------------------------------------------------------
(* The clients. *)

ServerStep == Accept \/ ReadHead \/ ReadBody \/ BodyComplete \/ WriteAnswer

\* A step of the server is about the client it serves.
LEMMA ServerLocal ==
  ASSUME TypeInv, ServerStep, proc = "up", UNCHANGED <<prog, clientVars>>
  PROVE  /\ UNCHANGED <<prog, phase, size, stream, first, behind, pos>>
         /\ \A d \in Conn : d # cur =>
              taken'[d] = taken[d] /\ inbox'[d] = inbox[d] /\ echoes'[d] = echoes[d] /\ peer'[d] = peer[d]
         /\ \A d \in Conn : Len(inbox[d]) <= Len(inbox'[d])
         /\ Accepted \subseteq Accepted'
<1> USE DEF TypeInv
<1>1. UNCHANGED <<prog, phase, size, stream, first, behind, pos>>
  BY DEF clientVars
<1>2. \A d \in Conn : d # cur => taken'[d] = taken[d]
  BY DEF ServerStep, Accept, ReadHead, ReadBody, BodyComplete, WriteAnswer, Takes, TypeOK
<1>3. CASE at = "accept"
  <2>1. Accept
    BY <1>3 DEF ServerStep, ReadHead, ReadBody, BodyComplete, WriteAnswer
  <2>2. UNCHANGED <<peer, taken, inbox, echoes>> /\ backlog' \subseteq backlog
    BY <2>1 DEF Accept, answerVars
  <2>3. Accepted \subseteq Accepted'
    BY <2>2 DEF Accepted
  <2> QED BY <1>1, <2>2, <2>3, Lengths
<1>4. CASE at # "accept"
  <2>1. cur \in Conn /\ backlog' = backlog
    BY <1>4 DEF Place, Accepted, ServerStep, Accept, ReadHead, ReadBody, BodyComplete, WriteAnswer
  <2>2. \/ peer' = peer \/ ErrorReported
        \/ /\ peer[cur] \in {"fin", "poked", "reset"}
           /\ peer' = [peer EXCEPT ![cur] = IF @ = "reset" THEN "rst" ELSE "poked"]
    BY <1>4 DEF ServerStep, Accept, ReadHead, ReadBody, BodyComplete, WriteAnswer
  <2>3. /\ \A d \in Conn : d # cur => peer'[d] = peer[d]
        /\ \A d \in Conn : peer'[d] = "new" => peer[d] = "new"
    BY <2>1, <2>2 DEF TypeOK, ErrorReported
  <2>4. UNCHANGED answerVars \/ (at = "answer" /\ Answers)
    BY <1>4 DEF ServerStep, Accept, ReadHead, ReadBody, BodyComplete, WriteAnswer
  <2>5. /\ \A d \in Conn : d # cur => inbox'[d] = inbox[d] /\ echoes'[d] = echoes[d]
        /\ \A d \in Conn : Len(inbox[d]) <= Len(inbox'[d])
    <3>1. CASE UNCHANGED answerVars
      BY <3>1, Lengths DEF answerVars
    <3>2. CASE at = "answer" /\ Answers
      <4>1. /\ \A d \in Conn : d # cur => inbox'[d] = inbox[d] /\ echoes'[d] = echoes[d]
            /\ Len(inbox'[cur]) = Len(inbox[cur]) + 1
        BY <3>2, <2>1, AnswersType
      <4>2. ASSUME NEW d \in Conn PROVE Len(inbox[d]) <= Len(inbox'[d])
        <5>1. Len(inbox[d]) \in Nat
          BY Lengths
        <5> QED BY <5>1, <4>1
      <4> QED BY <4>1, <4>2
    <3> QED BY <2>4, <3>1, <3>2
  <2>6. Accepted \subseteq Accepted'
    BY <2>1, <2>3 DEF Accepted
  <2> QED BY <1>1, <1>2, <2>3, <2>5, <2>6
<1> QED BY <1>3, <1>4

LEMMA InitClients == Init => ClientInv
<1> SUFFICES ASSUME Init, NEW c \in Conn
             PROVE  /\ LastFrame(c) /\ Len(size[c]) <= MaxFrames
                    /\ prog = "kakao" => \A k \in 1..Len(size[c]) : size[c][k] = Numbers
                    /\ pos[c] <= Len(inbox[c]) /\ c \notin behind /\ Fresh(c)
  BY DEF ClientInv
<1>1. /\ size[c] = <<>> /\ stream[c] = <<>> /\ pos[c] = 0 /\ inbox[c] = <<>> /\ echoes[c] = <<>>
      /\ taken[c] = 0 /\ peer[c] = "new" /\ c \notin behind
  BY DEF Init
<1>2. Len(size[c]) = 0 /\ Len(inbox[c]) = 0
  BY <1>1
<1>3. 0 <= MaxFrames
  BY TurnAssumption DEF MaxFrames
<1> QED BY <1>1, <1>2, <1>3 DEF LastFrame, Fresh

LEMMA SameFrames ==
  ASSUME TypeOK, NEW c \in Conn, prog' = prog, size'[c] = size[c], stream'[c] = stream[c], LastFrame(c)
  PROVE  LastFrame(c)'
<1>1. CASE Len(size[c]) = 0
  BY <1>1 DEF LastFrame
<1>2. CASE Len(size[c]) # 0
  <2>1. PICK k \in Nat : k = Len(size[c]) /\ k # 0
    BY <1>2, Lengths
  <2>2. PICK n \in Nat : n = size[c][k]
    <3>1. size[c] \in Seq(Nat)
      BY DEF TypeOK
    <3>2. k \in 1..Len(size[c])
      BY <2>1
    <3> QED BY <3>1, <3>2, ElementOfSeq
  <2>3. PICK f \in Nat : f = FrameLen(n) /\ f = FrameLen(n)'
    BY Heads, SameHeads
  <2>4. HeadLen' = HeadLen
    BY SameHeads
  <2>5. /\ f <= Len(stream[c]) /\ (k = 1 => f = Len(stream[c]))
        /\ \A i \in 1..f :
             stream[c][Len(stream[c]) - f + i] = [by |-> c, frame |-> k, part |-> i - HeadLen]
    BY <2>1, <2>2, <2>3 DEF LastFrame
  <2>6. Len(size'[c]) = k /\ size'[c][k] = n
    BY <2>1, <2>2
  <2>7. FrameLen(size[c][k])' = f
    BY <2>3, <2>4, <2>6 DEF FrameLen, BodyLen
  <2> QED BY <2>1, <2>4, <2>5, <2>6, <2>7 DEF LastFrame
<1> QED BY <1>1, <1>2

LEMMA NewFrame ==
  ASSUME TypeOK, NEW c \in Conn, NEW n \in Nat, prog' = prog, Extends(c, n), LastFrame(c)
  PROVE  LastFrame(c)'
<1>1. PICK f \in Nat : f = FrameLen(n) /\ f = FrameLen(n)'
  BY Heads, SameHeads
<1>2. PICK k \in Nat, w \in Nat : k = Len(size[c]) /\ w = Len(stream[c])
  BY Lengths
<1>3. /\ Len(size'[c]) = k + 1 /\ size'[c][k + 1] = n /\ Len(stream'[c]) = w + f
      /\ \A i \in 1..f : stream'[c][w + i] = [by |-> c, frame |-> k + 1, part |-> i - HeadLen]
  BY <1>1, <1>2 DEF Extends
<1>4. HeadLen' = HeadLen
  BY SameHeads
<1>7. FrameLen(size[c][k + 1])' = f
  BY <1>1, <1>3, <1>4 DEF FrameLen, BodyLen
<1>5. k = 0 => w = 0
  BY <1>2 DEF LastFrame
<1>6. /\ k + 1 # 0 /\ f <= w + f /\ (k + 1 = 1 => f = w + f)
      /\ \A i \in 1..f : w + f - f + i = w + i
  BY <1>5
<1>8. PICK m \in Nat : m = k + 1
  OBVIOUS
<1>9. \A i \in 1..f : stream'[c][w + f - f + i] = [by |-> c, frame |-> m, part |-> i - HeadLen']
  BY <1>3, <1>4, <1>6, <1>8
<1>10. /\ Len(size'[c]) = m /\ m # 0 /\ FrameLen(size[c][m])' = f /\ f <= Len(stream'[c])
       /\ (m = 1 => f = Len(stream'[c])) /\ Len(stream'[c]) = w + f
  BY <1>3, <1>6, <1>7, <1>8
<1> QED BY <1>9, <1>10 DEF LastFrame

\* What the step of one client leaves of another, and of its own answers.
LEMMA ClientLocal ==
  ASSUME TypeOK, NEW c \in Conn, ClientStep(c), UNCHANGED <<prog, serverVars, taken, answerVars, short>>
  PROVE  /\ UNCHANGED <<prog, proc, at, turn, cur, cnt, buf, kept, taken, inbox, echoes, short>>
         /\ \A d \in Conn : d # c => /\ size'[d] = size[d] /\ stream'[d] = stream[d]
                                     /\ pos'[d] = pos[d] /\ peer'[d] = peer[d]
                                     /\ phase'[d] = phase[d] /\ first'[d] = first[d]
                                     /\ (d \in behind' <=> d \in behind)
         /\ \A d \in Conn : pos'[d] # pos[d] => pos'[d] = Len(inbox[d])
         /\ behind \subseteq behind'
<1>1. UNCHANGED <<prog, proc, at, turn, cur, cnt, buf, kept, taken, inbox, echoes, short>>
  BY DEF serverVars, answerVars
<1>2. \A d \in Conn : d # c => size'[d] = size[d] /\ stream'[d] = stream[d]
  BY ClientWrites, WritesExtends, CountsNat DEF Extends
<1>3. \A d \in Conn : d # c => peer'[d] = peer[d]
  BY DEF TypeOK, ClientStep, Connect, Ask, AskStop, ReadAnswer, ReadLeftover, Leave, ResetArrives
<1>4. \A d \in Conn : d # c => /\ pos'[d] = pos[d] /\ phase'[d] = phase[d] /\ first'[d] = first[d]
                              /\ (d \in behind' <=> d \in behind)
  BY DEF TypeOK, ClientStep, Connect, Ask, AskStop, ReadAnswer, ReadLeftover, Leave, ResetArrives, clientVars
<1>5. \A d \in Conn : pos'[d] # pos[d] => pos'[d] = Len(inbox[d])
  BY DEF TypeOK, ClientStep, Connect, Ask, AskStop, ReadAnswer, ReadLeftover, Leave, ResetArrives, clientVars
<1>6. behind \subseteq behind'
  BY DEF ClientStep, Connect, Ask, AskStop, ReadAnswer, ReadLeftover, Leave, ResetArrives, clientVars
<1> QED BY <1>1, <1>2, <1>3, <1>4, <1>5, <1>6

\* A client that was not accepted yet leaves without a reset: it has nothing
\* to read.
LEMMA FreshStep ==
  ASSUME TypeInv, NEW c \in Conn, Fresh(c), ClientStep(c),
         UNCHANGED <<prog, serverVars, taken, answerVars, short>>
  PROVE  Fresh(c)'
<1> USE DEF TypeInv
<1>1. /\ taken'[c] = 0 /\ inbox'[c] = <<>> /\ echoes'[c] = <<>> /\ pos[c] = 0 /\ Len(inbox[c]) = 0
      /\ peer[c] \in {"new", "open", "fin"} /\ (peer[c] = "new" => size[c] = <<>>)
  BY DEF Fresh, answerVars
<1>2. pos'[c] = 0
  BY <1>1, ClientLocal
<1>3. peer'[c] \in {"new", "open", "fin"} /\ c \notin behind'
  <2>1. c \notin behind /\ ~(pos[c] < Len(inbox[c]))
    BY <1>1 DEF Fresh
  <2>2. Closing(c) = {"fin"}
    BY <2>1 DEF Closing
  <2> QED BY <1>1, <2>1, <2>2
          DEF TypeOK, ClientStep, Connect, Ask, AskStop, ReadAnswer, ReadLeftover, Leave, ResetArrives, clientVars
<1>4. ASSUME peer'[c] = "new" PROVE size'[c] = <<>>
  <2>1. peer[c] = "new" /\ size[c] = <<>>
    BY <1>1, <1>4 DEF TypeOK, ClientStep, Connect, Ask, AskStop, ReadAnswer, ReadLeftover, Leave, ResetArrives, Closing
  <2>2. size' = size
    BY <2>1, ClientWrites
  <2> QED BY <2>1, <2>2
<1> QED BY <1>1, <1>2, <1>3, <1>4 DEF Fresh

LEMMA ClientKeepsClients ==
  ASSUME TypeInv, ClientInv, NEW c \in Conn, ClientStep(c),
         UNCHANGED <<prog, serverVars, taken, answerVars, short>>
  PROVE  ClientInv'
<1> USE DEF TypeInv
<1>1. /\ UNCHANGED <<prog, taken, inbox, echoes>> /\ Accepted' = Accepted
      /\ MaxFrames' = MaxFrames
  BY ClientLocal, ClientAccepted DEF MaxFrames
<1>2. ASSUME NEW d \in Conn
      PROVE  /\ LastFrame(d) /\ Len(size[d]) <= MaxFrames
             /\ prog = "kakao" => \A k \in 1..Len(size[d]) : size[d][k] = Numbers
             /\ pos[d] <= Len(inbox[d]) /\ (d \in behind => prog = "string")
             /\ (d \notin Accepted => Fresh(d))
  BY DEF ClientInv
<1>3. ASSUME NEW d \in Conn
      PROVE  /\ LastFrame(d)' /\ Len(size'[d]) <= MaxFrames
             /\ prog = "kakao" => \A k \in 1..Len(size'[d]) : size'[d][k] = Numbers
  <2>1. CASE size'[d] = size[d] /\ stream'[d] = stream[d]
    BY <1>1, <1>2, <2>1, SameFrames
  <2>2. CASE \E n \in Counts : Writes(c, n) /\ Len(size[c]) < MaxFrames /\ d = c
    <3>1. PICK n \in Counts : Writes(c, n) /\ Len(size[c]) < MaxFrames /\ d = c
      BY <2>2
    <3>2. Extends(c, n) /\ n \in Nat
      BY <3>1, WritesExtends, CountsNat
    <3>3. LastFrame(d)'
      BY <1>1, <1>2, <3>1, <3>2, NewFrame
    <3>4. PICK k \in Nat : k = Len(size[c])
      BY Lengths
    <3>5. Len(size'[d]) = k + 1 /\ MaxFrames \in Nat /\ k < MaxFrames
      BY <3>1, <3>2, <3>4, TurnAssumption DEF Extends, MaxFrames
    <3>6. ASSUME prog = "kakao", NEW j \in 1..k + 1 PROVE size'[c][j] = Numbers
      <4>1. n = Numbers
        BY <3>6 DEF Counts
      <4>2. CASE j = k + 1
        BY <4>1, <4>2, <3>2, <3>4 DEF Extends
      <4>3. CASE j # k + 1
        <5>1. j \in 1..k
          BY <4>3
        <5> QED BY <5>1, <3>2, <3>4, <3>6, <1>2 DEF Extends
      <4> QED BY <4>2, <4>3
    <3> QED BY <3>1, <3>3, <3>5, <3>6
  <2>3. \/ size'[d] = size[d] /\ stream'[d] = stream[d]
        \/ \E n \in Counts : Writes(c, n) /\ Len(size[c]) < MaxFrames /\ d = c
    BY ClientWrites, ClientLocal
  <2> QED BY <2>1, <2>2, <2>3
<1>4. ASSUME NEW d \in Conn PROVE pos'[d] <= Len(inbox'[d])
  BY <1>1, <1>2, ClientLocal, Lengths
<1>5. ASSUME NEW d \in Conn, d \notin Accepted PROVE Fresh(d)'
  <2>1. CASE d = c
    BY <2>1, <1>2, <1>5, FreshStep
  <2>2. CASE d # c
    <3>1. size'[d] = size[d] /\ pos'[d] = pos[d] /\ peer'[d] = peer[d] /\ Fresh(d)
      BY <2>2, <1>2, <1>5, ClientLocal
    <3>2. d \in behind' => d \in behind
      BY <2>2, ClientLocal
    <3> QED BY <3>1, <3>2, <1>1 DEF Fresh
  <2> QED BY <2>1, <2>2
<1>6. ASSUME NEW d \in Conn, d \in behind' PROVE prog' = "string"
  <2>1. d \in behind \/ prog = "string"
    BY <1>6 DEF ClientStep, Connect, Ask, AskStop, ReadAnswer, ReadLeftover, Leave, ResetArrives, clientVars
  <2> QED BY <2>1, <1>1, <1>2
<1> QED BY <1>1, <1>3, <1>4, <1>5, <1>6 DEF ClientInv

LEMMA ServerKeepsClients ==
  ASSUME TypeInv, ClientInv, ServerStep, proc = "up", UNCHANGED <<prog, clientVars>>
  PROVE  ClientInv'
<1> USE DEF TypeInv
<1>1. UNCHANGED <<prog, size, stream, pos, behind>> /\ MaxFrames' = MaxFrames
  BY ServerLocal DEF MaxFrames
<1>2. ASSUME NEW d \in Conn
      PROVE  /\ LastFrame(d)' /\ Len(size'[d]) <= MaxFrames'
             /\ prog' = "kakao" => \A k \in 1..Len(size'[d]) : size'[d][k] = Numbers
             /\ d \in behind' => prog' = "string"
  BY <1>1, SameFrames DEF ClientInv
<1>3. ASSUME NEW d \in Conn PROVE pos'[d] <= Len(inbox'[d])
  <2>1. pos[d] <= Len(inbox[d]) /\ Len(inbox[d]) <= Len(inbox'[d])
    BY ServerLocal DEF ClientInv
  <2>2. pos[d] \in Nat /\ Len(inbox[d]) \in Nat /\ Len(inbox'[d]) \in Nat
    <3>1. TypeOK'
      BY NextType DEF Next, ServerNext, ServerStep
    <3>2. inbox'[d] \in Seq(Seq(Unit))
      BY <3>1 DEF TypeOK
    <3> QED BY <3>2, Lengths, LenProperties
  <2> QED BY <1>1, <2>1, <2>2
<1>4. ASSUME NEW d \in Conn, d \notin Accepted' PROVE Fresh(d)'
  <2>1. d \notin Accepted /\ d # cur
    <3>1. cur \in Accepted \/ cur = NoConn
      BY DEF Place
    <3> QED BY <3>1, <1>4, ServerLocal, TurnAssumption
  <2>2. Fresh(d)
    BY <2>1 DEF ClientInv
  <2>3. taken'[d] = taken[d] /\ inbox'[d] = inbox[d] /\ echoes'[d] = echoes[d] /\ peer'[d] = peer[d]
    BY <2>1, ServerLocal
  <2> QED BY <1>1, <2>2, <2>3 DEF Fresh
<1> QED BY <1>2, <1>3, <1>4 DEF ClientInv

LEMMA StutterKeepsClients == ClientInv /\ UNCHANGED vars => ClientInv'
<1> SUFFICES ASSUME ClientInv, UNCHANGED vars PROVE ClientInv'
  OBVIOUS
<1> USE DEF vars, serverVars, clientVars, wireVars, answerVars
<1>1. Accepted' = Accepted
  BY DEF Accepted
<1>2. MaxFrames' = MaxFrames
  BY DEF MaxFrames
<1>3. ASSUME NEW d \in Conn PROVE LastFrame(d)' = LastFrame(d) /\ Fresh(d)' = Fresh(d)
  BY DEF LastFrame, Fresh, FrameLen, HeadLen, BodyLen
<1> QED BY <1>1, <1>2, <1>3 DEF ClientInv

LEMMA NextClients == TypeInv /\ ClientInv /\ [Next]_vars => ClientInv'
BY NextSplit, StutterKeepsClients, ServerKeepsClients, ClientKeepsClients DEF ServerStep
-----------------------------------------------------------------------------
(* calc and kakao. *)

LEMMA FirstFrame ==
  ASSUME TypeOK, NEW c \in Conn, LastFrame(c), Len(size[c]) = 1
  PROVE  /\ size[c][1] \in Nat /\ Len(stream[c]) = FrameLen(size[c][1])
         /\ \A i \in 1..Len(stream[c]) : stream[c][i] = [by |-> c, frame |-> 1, part |-> i - HeadLen]
<1>0. size[c] \in Seq(Nat) /\ 1 \in 1..Len(size[c])
  BY DEF TypeOK
<1>1. PICK n \in Nat : n = size[c][1]
  BY <1>0, ElementOfSeq
<1>2. PICK f \in Nat : f = FrameLen(n)
  BY Heads
<1>3. /\ f = Len(stream[c])
      /\ \A i \in 1..f : stream[c][Len(stream[c]) - f + i] = [by |-> c, frame |-> 1, part |-> i - HeadLen]
  BY <1>1, <1>2 DEF LastFrame
<1>4. \A i \in 1..f : f - f + i = i
  OBVIOUS
<1> QED BY <1>1, <1>2, <1>3, <1>4

LEMMA OneFrame ==
  ASSUME TypeInv, ClientInv, prog \in {"calc", "kakao"}, NEW c \in Conn
  PROVE  /\ Len(size[c]) = 0 => Len(stream[c]) = 0 /\ size[c] = <<>>
         /\ Len(size[c]) # 0 => Len(size[c]) = 1
<1>1. Len(size[c]) \in Nat /\ size[c] \in Seq(Nat)
  BY Lengths DEF TypeInv, TypeOK
<1>2. LastFrame(c) /\ Len(size[c]) <= 1
  BY DEF ClientInv, MaxFrames
<1>3. ASSUME Len(size[c]) = 0 PROVE Len(stream[c]) = 0 /\ size[c] = <<>>
  <2>1. stream[c] = <<>>
    BY <1>2, <1>3 DEF LastFrame
  <2>2. size[c] = <<>>
    BY <1>1, <1>3, EmptySeq
  <2> QED BY <2>1, <2>2
<1>4. ASSUME Len(size[c]) # 0 PROVE Len(size[c]) = 1
  <2>1. PICK k \in Nat : k = Len(size[c])
    BY <1>1
  <2>2. k <= 1 /\ k # 0
    BY <1>2, <1>4, <2>1
  <2>3. k = 1
    BY <2>2
  <2> QED BY <2>1, <2>3
<1> QED BY <1>3, <1>4

LEMMA AcceptKeepsSingle ==
  ASSUME TypeInv, ClientInv, Accept, proc = "up", UNCHANGED <<prog, clientVars>>
  PROVE  SingleInv'
<1>1. PICK c \in backlog : cur' = c
  BY DEF Accept
<1>2. /\ c \in Conn /\ c \notin Accepted /\ peer[c] # "new"
      /\ at' = FirstPlace /\ UNCHANGED <<peer, taken, inbox, pos, prog>>
  BY <1>1 DEF Accept, TypeInv, TypeOK, Place, Accepted, answerVars, clientVars
<1>3. Fresh(c)
  BY <1>2 DEF ClientInv
<1>4. /\ inbox'[cur'] = <<>> /\ pos'[cur'] = 0 /\ peer'[cur'] \in {"open", "fin"} /\ taken'[cur'] = 0
  BY <1>1, <1>2, <1>3 DEF Fresh
<1>5. at' # "answer" /\ (prog = "calc" => at' = "head")
  BY <1>2 DEF FirstPlace
<1> QED BY <1>2, <1>4, <1>5 DEF SingleInv

LEMMA ReadHeadKeepsSingle ==
  ASSUME TypeInv, ClientInv, SingleInv, ReadHead, proc = "up", UNCHANGED <<prog, clientVars>>,
         prog = "calc"
  PROVE  SingleInv' /\ proc' = "up"
<1> USE DEF TypeInv
<1>1. /\ at = "head" /\ at' = "body" /\ buf' = <<>> /\ cur \in Conn /\ cur' = cur
      /\ UNCHANGED <<inbox, pos, size, stream, prog>>
  BY DEF ReadHead, Place, Accepted, answerVars, clientVars
<1>2. /\ inbox[cur] = <<>> /\ pos[cur] = 0 /\ peer[cur] \in {"open", "fin"} /\ taken[cur] = 0
  BY <1>1 DEF SingleInv
<1>3. HeadLen = 1 /\ LastFrame(cur)
  BY <1>1 DEF HeadLen, ClientInv
<1>4. ASSUME NEW n \in 1..HeadLen, n <= Arrived(cur), Takes(n),
             LET u == Chunk(n)[1] IN
               IF u.part = 1 - HeadLen THEN cnt' = size[cur][u.frame] /\ UNCHANGED proc
                                       ELSE proc' = "lost" /\ UNCHANGED cnt,
             UNCHANGED peer
      PROVE  SingleInv' /\ proc' = "up"
  <2>1. n = 1
    BY <1>3, <1>4
  <2>2. 1 <= Len(stream[cur]) /\ Len(stream[cur]) \in Nat
    BY <2>1, <1>4, <1>2, Lengths DEF Arrived
  <2>3. Len(size[cur]) = 1
    BY <1>1, <2>2, OneFrame
  <2>4. stream[cur][1] = [by |-> cur, frame |-> 1, part |-> 1 - HeadLen]
    BY <1>1, <1>3, <2>2, <2>3, FirstFrame
  <2>5. Chunk(n)[1] = stream[cur][1]
    BY <1>1, <1>2, <1>4, <2>1, HeadUnit
  <2>6. cnt' = size[cur][1] /\ proc' = proc
    BY <1>4, <2>4, <2>5
  <2>7. taken'[cur] = 1
    BY <1>1, <1>2, <1>4, <2>1, TakesType
  <2>8. Len(buf') = 0
    BY <1>1
  <2>9. CalcRead'
    BY <1>1, <2>3, <2>6, <2>7, <2>8 DEF CalcRead
  <2> QED BY <1>1, <1>2, <1>4, <2>6, <2>9 DEF SingleInv
<1>5. ASSUME ReadsError \/ ReadsEnd, cnt' = 0, ErrorReported, UNCHANGED <<proc, taken, short>>
      PROVE  SingleInv' /\ proc' = "up"
  <2>1. Arrived(cur) = 0 /\ peer[cur] = "fin"
    BY <1>2, <1>5 DEF ReadsError, ReadsEnd
  <2>2. peer'[cur] = "fin"
    BY <1>1, <1>5, <2>1 DEF ErrorReported, TypeOK
  <2>3. Len(stream[cur]) = 0
    BY <1>1, <1>2, <2>1, Lengths DEF Arrived
  <2>4. Len(size[cur]) # 1
    <3>1. ASSUME Len(size[cur]) = 1 PROVE FALSE
      <4>1. Len(stream[cur]) = FrameLen(size[cur][1]) /\ size[cur][1] \in Nat
        BY <1>1, <1>3, <3>1, FirstFrame
      <4>2. FrameLen(size[cur][1]) = 1 + (size[cur][1] + 1)
        BY <1>3 DEF FrameLen, BodyLen
      <4> QED BY <4>1, <4>2, <2>3
    <3> QED BY <3>1
  <2>5. size[cur] = <<>>
    BY <1>1, <2>4, OneFrame
  <2>6. CalcEnded'
    BY <1>1, <1>5, <2>2, <2>5 DEF CalcEnded, Gone
  <2> QED BY <1>1, <1>2, <1>5, <2>2, <2>6 DEF SingleInv
<1> QED BY <1>4, <1>5 DEF ReadHead
\* Nothing but the end of the client spins the loop of calc.
LEMMA ReadBodyKeepsCalc ==
  ASSUME TypeInv, ClientInv, SingleInv, ReadBody, proc = "up", UNCHANGED <<prog, clientVars>>,
         prog = "calc"
  PROVE  SingleInv' /\ \/ proc' = "up"
                       \/ proc' = "spins" /\ Gone(cur)' /\ size'[cur'] = <<>>
<1> USE DEF TypeInv
<1>1. /\ at = "body" /\ NeedsMore /\ cur \in Conn
      /\ UNCHANGED <<cnt, inbox, pos, size, stream, prog>>
  BY DEF ReadBody, Place, Accepted, answerVars, clientVars
<1>2. /\ inbox[cur] = <<>> /\ pos[cur] = 0 /\ peer[cur] \in {"open", "fin"}
      /\ CalcEnded \/ CalcRead
  BY <1>1 DEF SingleInv
<1>3. HeadLen = 1 /\ LastFrame(cur) /\ cnt + 1 > Len(buf) /\ cnt \in Nat /\ Len(buf) \in Nat
  BY <1>1, Lengths DEF HeadLen, ClientInv, NeedsMore, BodyLen, TypeOK
<1>4. ASSUME Arrived(cur) > 0 PROVE CalcRead
  <2>1. ASSUME CalcEnded PROVE FALSE
    <3>1. Len(size[cur]) = 0
      BY <2>1 DEF CalcEnded
    <3>2. Len(stream[cur]) = 0
      BY <1>1, <3>1, OneFrame
    <3>3. taken[cur] \in Nat
      BY <1>1 DEF TypeOK
    <3> QED BY <1>4, <3>2, <3>3 DEF Arrived
  <2> QED BY <1>2, <2>1
<1>5. ASSUME NEW n \in 1..AtMost, n <= Arrived(cur), Takes(n), buf' = Stored(Chunk(n)),
             at' = IF prog \in {"echo", "kakao"} THEN "answer" ELSE "body",
             UNCHANGED <<proc, turn, cur, peer>>
      PROVE  SingleInv' /\ proc' = "up"
  <2>1. Arrived(cur) \in Int /\ n \in Nat /\ n > 0
    BY <1>1, <1>5, Lengths DEF AtMost
  <2>2. CalcRead
    BY <2>1, <1>4, <1>5
  <2>3. PICK t \in Nat, b \in Nat : t = taken[cur] /\ b = Len(buf) /\ t = 1 + b
    BY <1>1, <1>3, <2>2 DEF CalcRead, TypeOK
  <2>4. taken'[cur] = t + n
    BY <1>1, <1>5, <2>1, <2>3, TakesType
  <2>5. /\ Len(buf') = b + n
        /\ \A i \in 1..b : buf'[i] = buf[i]
        /\ \A i \in 1..n : buf'[b + i] = stream[cur][t + i]
    BY <1>1, <1>5, <2>1, <2>3, StoredType, BufType
  <2>6. ASSUME NEW i \in 1..b + n PROVE buf'[i] = stream[cur][1 + i]
    <3>1. CASE i <= b
      <4>1. i \in 1..b
        BY <3>1
      <4> QED BY <4>1, <2>2, <2>3, <2>5 DEF CalcRead
    <3>2. CASE i > b
      <4>1. PICK j \in 1..n : i = b + j
        <5>1. i - b \in 1..n /\ i = b + (i - b)
          BY <3>2, <2>1
        <5> QED BY <5>1
      <4>2. t + j = 1 + i
        BY <4>1, <2>3
      <4> QED BY <4>1, <4>2, <2>5
    <3> QED BY <3>1, <3>2
  <2>7. CalcRead'
    <3>1. Len(size'[cur']) = 1 /\ cnt' = size'[cur'][1]
      BY <1>1, <1>5, <2>2 DEF CalcRead
    <3>2. taken'[cur'] = 1 + Len(buf')
      BY <1>5, <2>3, <2>4, <2>5, <2>1
    <3>3. \A i \in 1..Len(buf') : buf'[i] = stream'[cur'][1 + i]
      BY <1>1, <1>5, <2>5, <2>6
    <3> QED BY <3>1, <3>2, <3>3 DEF CalcRead
  <2> QED BY <1>1, <1>2, <1>5, <2>7 DEF SingleInv
<1>6. ASSUME ReadsError \/ ReadsEnd, BodyOver, ErrorReported, UNCHANGED <<buf, kept, taken, short>>
      PROVE  SingleInv' /\ proc' = "spins" /\ Gone(cur)' /\ size'[cur'] = <<>>
  <2>1. Arrived(cur) = 0 /\ peer[cur] = "fin" /\ ReadsEnd
    BY <1>2, <1>6 DEF ReadsError, ReadsEnd
  <2>2. proc' = "spins" /\ cur' = cur
    BY <1>1, <1>6, <2>1 DEF BodyOver, EndSpins
  <2>3. peer'[cur] = "fin"
    BY <1>1, <1>6, <2>1 DEF ErrorReported, TypeOK
  <2>4. ~CalcRead
    <3>1. ASSUME CalcRead PROVE FALSE
      <4>1. Len(stream[cur]) = FrameLen(cnt) /\ taken[cur] = 1 + Len(buf)
        BY <1>1, <1>3, <3>1, FirstFrame DEF CalcRead
      <4>2. FrameLen(cnt) = 1 + (cnt + 1)
        BY <1>1, <1>3 DEF FrameLen, BodyLen
      <4> QED BY <4>1, <4>2, <1>3, <2>1 DEF Arrived
    <3> QED BY <3>1
  <2>5. size'[cur'] = <<>>
    BY <1>1, <1>2, <2>2, <2>4 DEF CalcEnded
  <2> QED BY <2>2, <2>3, <2>5 DEF SingleInv, Gone
<1> QED BY <1>5, <1>6 DEF ReadBody

LEMMA CompleteKeepsCalc ==
  ASSUME TypeInv, ClientInv, SingleInv, BodyComplete, proc = "up", UNCHANGED <<prog, clientVars>>,
         prog = "calc"
  PROVE  SingleInv'
<1> USE DEF TypeInv
<1>1. /\ at = "body" /\ at' = "answer" /\ ~NeedsMore /\ cur \in Conn
      /\ UNCHANGED <<cnt, inbox, pos, size, stream, prog, proc, cur, buf, peer, taken>>
  BY DEF BodyComplete, Place, Accepted, answerVars, clientVars
<1>2. /\ inbox[cur] = <<>> /\ pos[cur] = 0 /\ peer[cur] \in {"open", "fin"}
      /\ CalcEnded \/ CalcRead
  BY <1>1 DEF SingleInv
<1>3. HeadLen = 1 /\ LastFrame(cur) /\ ~(cnt + 1 > Len(buf)) /\ cnt \in Nat /\ Len(buf) \in Nat
  BY <1>1, Lengths DEF HeadLen, ClientInv, NeedsMore, BodyLen, TypeOK
<1>4. CalcRead
  <2>1. ASSUME CalcEnded PROVE FALSE
    <3>1. cnt = 0 /\ Len(buf) = 0
      BY <2>1 DEF CalcEnded
    <3> QED BY <3>1, <1>3
  <2> QED BY <1>2, <2>1
<1>5. Len(stream[cur]) = FrameLen(cnt) /\ taken[cur] = 1 + Len(buf)
  BY <1>1, <1>3, <1>4, FirstFrame DEF CalcRead
<1>6. FrameLen(cnt) = 1 + (cnt + 1) /\ taken[cur] <= Len(stream[cur])
  BY <1>1, <1>3 DEF FrameLen, BodyLen, Written
<1>7. Len(buf) = cnt + 1
  BY <1>3, <1>5, <1>6
<1>8. CalcRead'
  BY <1>1, <1>4 DEF CalcRead
<1> QED BY <1>1, <1>2, <1>7, <1>8 DEF SingleInv
\* kakao reads once: all the numbers, or a part of them, or the end.
LEMMA ReadBodyKeepsKakao ==
  ASSUME TypeInv, ClientInv, SingleInv, ArrayInv, ReadBody, proc = "up",
         UNCHANGED <<prog, clientVars>>, prog = "kakao"
  PROVE  SingleInv' /\ ArrayInv' /\ proc' = "up"
<1> USE DEF TypeInv
<1>1. /\ at = "body" /\ cur \in Conn
      /\ UNCHANGED <<cnt, inbox, pos, size, stream, prog>>
  BY DEF ReadBody, Place, Accepted, answerVars, clientVars
<1>2. /\ inbox[cur] = <<>> /\ pos[cur] = 0 /\ peer[cur] \in {"open", "fin"}
      /\ taken[cur] = 0
  BY <1>1 DEF SingleInv
<1>3. HeadLen = 0 /\ LastFrame(cur)
  BY <1>1 DEF HeadLen, ClientInv
<1>6. Len(buf) <= Numbers /\ Leftover
  BY <1>1 DEF ArrayInv
<1>4. ASSUME NEW n \in 1..AtMost, n <= Arrived(cur), Takes(n), buf' = Stored(Chunk(n)),
             kept' = IF prog = "kakao" THEN first[cur] ELSE kept,
             short' = IF prog = "kakao" /\ n < Numbers THEN short \cup {cur} ELSE short,
             at' = IF prog \in {"echo", "kakao"} THEN "answer" ELSE "body",
             UNCHANGED <<proc, turn, cur, peer>>
      PROVE  SingleInv' /\ ArrayInv' /\ proc' = "up"
  <2>1. n \in Nat /\ n > 0 /\ n <= Numbers /\ Numbers \in Nat
    BY TurnAssumption DEF AtMost
  <2>2. n <= Len(stream[cur]) /\ Len(stream[cur]) \in Nat
    BY <1>1, <1>2, <1>4, Lengths DEF Arrived
  <2>3. Len(size[cur]) = 1
    BY <1>1, <2>1, <2>2, OneFrame
  <2>4. size[cur][1] = Numbers
    BY <1>1, <2>3 DEF ClientInv
  <2>5. \A i \in 1..Len(stream[cur]) : stream[cur][i] = [by |-> cur, frame |-> 1, part |-> i - HeadLen]
    BY <1>1, <1>3, <2>3, FirstFrame
  <2>6. /\ Chunk(n) \in Seq(Unit) /\ Len(Chunk(n)) = n
        /\ \A i \in 1..n : Chunk(n)[i] = stream[cur][i]
    <3>1. /\ Chunk(n) \in Seq(Unit) /\ Len(Chunk(n)) = n
          /\ \A i \in 1..n : Chunk(n)[i] = stream[cur][taken[cur] + i]
      BY <1>1, <1>4, <2>1, ChunkIs
    <3>2. \A i \in 1..n : taken[cur] + i = i
      BY <1>2, <2>1
    <3> QED BY <3>1, <3>2
  <2>7. ASSUME cur \notin short' PROVE buf' = Body(cur, 1)
    <3>1. n = Numbers
      <4>1. ~(n < Numbers)
        BY <1>4, <2>7
      <4> QED BY <4>1, <2>1
    <3>6. buf' = Chunk(n)
      BY <1>1, <1>4, <1>6, <2>1, <3>1, StoredType
    <3>2. \A i \in 1..n : buf'[i] = [by |-> cur, frame |-> 1, part |-> i]
      <4>1. ASSUME NEW i \in 1..n PROVE i \in 1..Len(stream[cur]) /\ i - HeadLen = i
        BY <1>3, <2>1, <2>2
      <4> QED BY <4>1, <2>5, <2>6, <3>6
    <3>3. DOMAIN buf' = 1..n /\ buf' \in [1..n -> Unit]
      BY <2>6, <3>6, LenProperties
    <3>4. buf' = [i \in 1..n |-> [by |-> cur, frame |-> 1, part |-> i]]
      BY <3>2, <3>3
    <3>5. BodyLen(size[cur][1]) = n
      BY <2>4, <3>1 DEF BodyLen
    <3> QED BY <3>4, <3>5 DEF Body
  <2>8. Body(cur, 1)' = Body(cur, 1)
    BY <1>1, <1>4 DEF Body, BodyLen
  <2>9. KakaoRead'
    BY <1>1, <1>4, <2>3, <2>7, <2>8 DEF KakaoRead
  <2>10. SingleInv'
    BY <1>1, <1>2, <1>4, <2>9 DEF SingleInv
  <2>11. Len(buf') <= Numbers
    <3>1. Len(Stored(Chunk(n))) <= n \/ Len(Stored(Chunk(n))) = Len(buf)
      BY <1>1, <1>4, <2>1, StoredType
    <3>2. Stored(Chunk(n)) \in Seq(Unit)
      BY <1>1, <1>4, <2>1, StoredType
    <3>3. Len(Stored(Chunk(n))) \in Nat
      BY <3>2, LenProperties
    <3> QED BY <3>1, <3>3, <1>4, <1>6, <2>1
  <2>12. taken'[cur] = n
    BY <1>1, <1>2, <1>4, <2>1, TakesType
  <2> QED BY <1>1, <1>4, <2>1, <2>10, <2>11, <2>12 DEF ArrayInv, clientVars
<1>5. ASSUME ReadsError \/ ReadsEnd, BodyOver, ErrorReported, UNCHANGED <<buf, kept, taken, short>>
      PROVE  SingleInv' /\ ArrayInv' /\ proc' = "up"
  <2>1. peer[cur] = "fin"
    BY <1>2, <1>5 DEF ReadsError, ReadsEnd
  <2>2. proc' = "up" /\ cur' = cur /\ at' = "answer"
    BY <1>1, <1>5, <2>1 DEF BodyOver
  <2>3. peer'[cur] = "fin"
    BY <1>1, <1>5, <2>1 DEF ErrorReported, TypeOK
  <2>4. KakaoRead'
    BY <1>2, <1>5, <2>2, <2>3 DEF KakaoRead, Gone
  <2>5. Leftover'
    BY <1>1, <1>5, <1>6 DEF Leftover, clientVars
  <2>6. Gone(cur)' /\ taken'[cur'] = 0 /\ Len(buf') <= Numbers
    BY <1>2, <1>5, <1>6, <2>2, <2>3 DEF Gone
  <2> QED BY <1>1, <1>2, <2>2, <2>3, <2>4, <2>5, <2>6 DEF SingleInv, ArrayInv
<1> QED BY <1>1, <1>4, <1>5 DEF ReadBody

\* Neither is killed: the answer is the only write.
LEMMA WriteKeepsSingle ==
  ASSUME TypeInv, SingleInv, WriteAnswer, proc = "up", UNCHANGED <<prog, clientVars>>,
         prog \in {"calc", "kakao"}
  PROVE  SingleInv' /\ proc' # "killed"
<1>1. at = "answer" /\ peer[cur] \in {"open", "fin"}
  BY WriteCases DEF SingleInv
<1>2. proc' = "done" \/ Onward
  BY <1>1, WriteCases
<1>3. Onward => at' = "accept" /\ proc' \in {"up", "done"}
  BY DEF Onward, NextClient
<1> QED BY <1>2, <1>3 DEF SingleInv

\* Accepting leaves the array alone; an answer halves what is in it.
LEMMA ServerKeepsArray ==
  ASSUME TypeInv, ArrayInv, Accept \/ WriteAnswer, proc = "up", UNCHANGED <<prog, clientVars>>,
         prog = "kakao"
  PROVE  ArrayInv'
<1> USE DEF TypeInv
<1>1. /\ UNCHANGED <<prog, taken, first>> /\ buf' = buf /\ Len(buf) <= Numbers
      /\ kept \in 0..Halvings + 1 /\ Halvings \in Nat /\ first \in [Conn -> 0..Halvings + 1]
  BY TurnAssumption DEF Accept, WriteAnswer, Emptied, clientVars, ArrayInv, TypeOK
<1>2. CASE Accept
  <2>1. kept' = kept /\ at' # "answer" /\ Leftover
    BY <1>2 DEF Accept, FirstPlace, ArrayInv
  <2>2. Leftover'
    BY <1>1, <2>1 DEF Leftover
  <2> QED BY <1>1, <2>1, <2>2 DEF ArrayInv
<1>3. CASE WriteAnswer
  <2> SUFFICES ASSUME proc' = "up" PROVE ArrayInv'
    BY DEF ArrayInv
  <2>1. /\ at = "answer" /\ cur \in Conn /\ ~Stopped /\ kept' = Halved
        /\ peer[cur] \in {"open", "fin", "poked", "reset"} /\ Onward
    BY <1>3, WriteCases DEF Place, Accepted
  <2>2. at' = "accept" /\ kept # 1
    BY <1>1, <2>1 DEF Onward, NextClient, Stopped
  <2>3. kept' = IF kept > 1 THEN kept - 1 ELSE kept
    BY <2>1 DEF Halved
  <2>4. ASSUME kept' > 0 PROVE kept > 1 /\ kept' < kept /\ kept' = kept - 1
    BY <1>1, <2>2, <2>3, <2>4
  <2>5. ASSUME kept' > 0 PROVE \E d \in Conn : taken'[d] > 0 /\ first'[d] > kept'
    <3>1. CASE kept = first[cur] /\ taken[cur] > 0
      BY <1>1, <2>1, <2>4, <2>5, <3>1
    <3>2. CASE Leftover
      <4>1. PICK d \in Conn : taken[d] > 0 /\ first[d] > kept
        BY <1>1, <2>4, <2>5, <3>2 DEF Leftover
      <4>2. first[d] \in Nat /\ kept \in Nat
        BY <1>1
      <4>3. first[d] > kept'
        BY <2>4, <2>5, <4>1, <4>2
      <4> QED BY <1>1, <4>1, <4>3
    <3> QED BY <1>1, <2>1, <3>1, <3>2 DEF ArrayInv
  <2> QED BY <1>1, <2>2, <2>5 DEF ArrayInv, Leftover
<1> QED BY <1>2, <1>3

\* What has been read of a client is not written again.
LEMMA ClientKeepsArray ==
  ASSUME TypeInv, ClientInv, ArrayInv, NEW c \in Conn, ClientStep(c),
         UNCHANGED <<prog, serverVars, taken, answerVars, short>>
  PROVE  ArrayInv'
<1> USE DEF TypeInv
<1> SUFFICES ASSUME prog = "kakao", proc = "up" PROVE ArrayInv'
  BY DEF ArrayInv, serverVars
<1>1. UNCHANGED <<prog, proc, at, cur, buf, kept, taken>>
  BY ClientLocal
<1>2. ASSUME NEW d \in Conn, taken[d] > 0 PROVE first'[d] = first[d]
  <2>1. Len(size[d]) = 1 /\ size[d] # <<>>
    <3>1. taken[d] <= Len(stream[d]) /\ taken[d] \in Nat /\ Len(stream[d]) \in Nat
      BY Lengths DEF Written
    <3>2. Len(size[d]) # 0
      BY <3>1, <1>2, OneFrame
    <3> QED BY <3>2, OneFrame
  <2>2. MaxFrames = 1
    BY DEF MaxFrames
  <2>3. CASE d = c
    BY <2>1, <2>2, <2>3 DEF ClientStep, Connect, Ask, AskStop, ReadAnswer, ReadLeftover, Leave, ResetArrives, clientVars
  <2>4. CASE d # c
    BY <2>4, ClientLocal
  <2> QED BY <2>3, <2>4
<1>3. Leftover => Leftover'
  BY <1>1, <1>2 DEF Leftover
<1>4. ASSUME at = "answer" PROVE cur \in Conn /\ (Gone(cur) => Gone(cur)')
  <2>1. cur \in Conn
    BY <1>4 DEF Place, Accepted
  <2>2. peer[cur] \notin {"new", "open"} => peer'[cur] \notin {"new", "open"}
    BY <2>1 DEF TypeOK, ClientStep, Connect, Ask, AskStop, ReadAnswer, ReadLeftover, Leave, ResetArrives, Closing
  <2> QED BY <1>1, <2>1, <2>2 DEF Gone
<1> QED BY <1>1, <1>2, <1>3, <1>4 DEF ArrayInv

LEMMA ClientKeepsSingle ==
  ASSUME TypeInv, ClientInv, SingleInv, NEW c \in Conn, ClientStep(c),
         UNCHANGED <<prog, serverVars, taken, answerVars, short>>
  PROVE  SingleInv'
<1> USE DEF TypeInv
<1> SUFFICES ASSUME prog \in {"calc", "kakao"}, proc = "up", at # "accept" PROVE SingleInv'
  BY DEF SingleInv, serverVars
<1>1. /\ UNCHANGED <<prog, proc, at, turn, cur, cnt, buf, taken, inbox, echoes, short>>
      /\ cur \in Conn
  BY ClientLocal DEF Place, Accepted
<1>2. /\ inbox[cur] = <<>> /\ pos[cur] = 0 /\ peer[cur] \in {"open", "fin"} /\ cur \notin behind
  BY <1>1 DEF SingleInv, ClientInv
<1>3. pos'[cur] = 0
  <2>1. Len(inbox[cur]) = 0
    BY <1>2
  <2> QED BY <1>1, <1>2, <2>1, ClientLocal
<1>4. peer'[cur] \in {"open", "fin"} /\ (peer[cur] = "fin" => peer'[cur] = "fin")
  <2>1. CASE c = cur
    <3>1. Closing(c) = {"fin"} /\ pos[c] = Len(inbox[c])
      BY <1>2, <2>1 DEF Closing
    <3> QED BY <1>1, <1>2, <2>1, <3>1
            DEF TypeOK, ClientStep, Connect, Ask, AskStop, ReadAnswer, ReadLeftover, Leave, ResetArrives
  <2>2. CASE c # cur
    BY <1>1, <1>2, <2>2, ClientLocal
  <2> QED BY <2>1, <2>2
\* A frame is written only while there is none, and by a client that is there.
<1>5. Len(size[cur]) = 1 \/ peer[cur] = "fin" => size'[cur] = size[cur] /\ stream'[cur] = stream[cur]
  <2>1. CASE c = cur
    <3>1. MaxFrames = 1
      BY DEF MaxFrames
    <3>2. ASSUME Len(size[cur]) = 1 \/ peer[cur] = "fin" PROVE UNCHANGED <<size, stream>>
      BY <2>1, <3>1, <3>2, ClientWrites
    <3> QED BY <3>2
  <2>2. CASE c # cur
    BY <1>1, <2>2, ClientLocal
  <2> QED BY <2>1, <2>2
<1>6. Gone(cur) => peer[cur] = "fin"
  BY <1>2 DEF Gone
<1>7. CalcEnded => CalcEnded'
  BY <1>1, <1>4, <1>5, <1>6 DEF CalcEnded, Gone
<1>8. CalcRead => CalcRead'
  BY <1>1, <1>5 DEF CalcRead
<1>9. KakaoRead => KakaoRead'
  <2>1. Body(cur, 1)' = Body(cur, 1) \/ ~(Len(size[cur]) = 1)
    BY <1>1, <1>5 DEF Body, BodyLen
  <2> QED BY <1>1, <1>4, <1>5, <1>6, <2>1 DEF KakaoRead, Gone
<1> QED BY <1>1, <1>2, <1>3, <1>4, <1>7, <1>8, <1>9 DEF SingleInv
LEMMA InitSingle == Init => SingleInv /\ ArrayInv
BY TurnAssumption DEF Init, SingleInv, ArrayInv, Leftover

LEMMA StutterKeepsSingle == SingleInv /\ ArrayInv /\ UNCHANGED vars => SingleInv' /\ ArrayInv'
<1> SUFFICES ASSUME SingleInv, ArrayInv, UNCHANGED vars PROVE SingleInv' /\ ArrayInv'
  OBVIOUS
<1> USE DEF vars, serverVars, clientVars, wireVars, answerVars
<1>1. /\ CalcEnded' = CalcEnded /\ CalcRead' = CalcRead /\ KakaoRead' = KakaoRead
  BY DEF CalcEnded, CalcRead, KakaoRead, Gone, Body, BodyLen
<1> QED BY <1>1 DEF SingleInv, ArrayInv, Leftover, Gone

\* Out of the loops that wait for more, and where no length is read.
LEMMA NoLoops ==
  ASSUME TypeInv
  PROVE  /\ prog \in {"echo", "kakao"} => ~ReadHead /\ ~BodyComplete
         /\ prog \in {"calc", "string", "echo", "kakao"}
BY TurnAssumption DEF TypeInv, TypeOK, Place, ReadHead, BodyComplete

LEMMA NextSingle ==
  TypeInv /\ ClientInv /\ SingleInv /\ ArrayInv /\ [Next]_vars => SingleInv' /\ ArrayInv'
<1> SUFFICES ASSUME TypeInv, ClientInv, SingleInv, ArrayInv, [Next]_vars
             PROVE  SingleInv' /\ ArrayInv'
  OBVIOUS
<1>1. CASE prog \in {"calc", "kakao"} /\ ~UNCHANGED vars
  <2>1. prog = "calc" \/ prog = "kakao"
    BY <1>1
  <2>2. ASSUME proc = "up", UNCHANGED <<prog, clientVars>>,
               Accept \/ ReadHead \/ ReadBody \/ BodyComplete \/ WriteAnswer
        PROVE  SingleInv' /\ ArrayInv'
    <3>1. SingleInv'
      BY <2>1, <2>2, NoLoops, AcceptKeepsSingle, ReadHeadKeepsSingle, ReadBodyKeepsCalc,
         ReadBodyKeepsKakao, CompleteKeepsCalc, WriteKeepsSingle
    <3>2. CASE prog = "calc"
      BY <2>2, <3>1, <3>2 DEF ArrayInv
    <3>3. CASE prog = "kakao"
      BY <2>2, <3>1, <3>3, NoLoops, ReadBodyKeepsKakao, ServerKeepsArray
    <3> QED BY <2>1, <3>2, <3>3
  <2> QED BY <1>1, <2>2, NextSplit, ClientKeepsSingle, ClientKeepsArray
<1>2. CASE prog \notin {"calc", "kakao"}
  <2>1. prog' = prog
    BY NextSplit DEF vars
  <2> QED BY <1>2, <2>1 DEF SingleInv, ArrayInv
<1> QED BY <1>1, <1>2, StutterKeepsSingle
-----------------------------------------------------------------------------
(* string. *)

LEMMA LastIs ==
  ASSUME TypeOK, NEW c \in Conn, LastFrame(c), NEW k \in Nat, k # 0, Len(size[c]) = k
  PROVE  /\ size[c][k] \in Nat /\ FrameLen(size[c][k]) \in Nat
         /\ FrameLen(size[c][k]) <= Len(stream[c])
         /\ \A i \in 1..FrameLen(size[c][k]) :
              stream[c][Len(stream[c]) - FrameLen(size[c][k]) + i]
                = [by |-> c, frame |-> k, part |-> i - HeadLen]
<1>1. size[c] \in Seq(Nat) /\ k \in 1..Len(size[c])
  BY DEF TypeOK
<1>2. size[c][k] \in Nat
  BY <1>1, ElementOfSeq
<1> QED BY <1>2, Heads DEF LastFrame

LEMMA StringLens ==
  ASSUME prog = "string"
  PROVE  /\ HeadLen = LengthUnits /\ HeadLen \in Nat /\ HeadLen > 0
         /\ \A n \in Nat : BodyLen(n) = n /\ FrameLen(n) = HeadLen + n
         /\ FirstPlace = "head" /\ MaxFrames = Rounds /\ AtMost = 1
BY TurnAssumption DEF HeadLen, BodyLen, FrameLen, FirstPlace, MaxFrames, AtMost

\* A step that writes no answer keeps every client in step.
LEMMA StillInStep ==
  ASSUME TypeInv, ServerStep, proc = "up", UNCHANGED <<prog, clientVars>>, inbox' = inbox,
         NEW c \in Conn, InStep(c)
  PROVE  InStep(c)'
<1>1. UNCHANGED <<size, pos, phase>>
  BY DEF clientVars
<1>2. peer'[c] \in {"new", "open"} => peer'[c] = peer[c]
  <2>1. CASE c # cur
    BY <2>1, ServerLocal
  <2>2. CASE c = cur
    <3>1. peer' = peer \/ ErrorReported \/ peer' = [peer EXCEPT ![cur] = IF @ = "reset" THEN "rst" ELSE "poked"]
      BY DEF ServerStep, Accept, ReadHead, ReadBody, BodyComplete, WriteAnswer
    <3> QED BY <2>2, <3>1 DEF ErrorReported, TypeInv, TypeOK
  <2> QED BY <2>1, <2>2
<1> QED BY <1>1, <1>2 DEF InStep

LEMMA AcceptKeepsString ==
  ASSUME TypeInv, ClientInv, StringInv, Accept, proc = "up", UNCHANGED <<prog, clientVars>>,
         prog = "string"
  PROVE  StringInv'
<1> USE DEF TypeInv
<1>1. PICK c \in backlog : cur' = c
  BY DEF Accept
<1>2. /\ c \in Conn /\ c \notin Accepted /\ peer[c] # "new" /\ at = "accept" /\ at' = "head"
      /\ UNCHANGED <<prog, proc, turn, peer, taken, inbox, echoes, size, stream, pos, phase, behind>>
  BY <1>1, StringLens DEF Accept, TypeOK, Place, Accepted, answerVars, clientVars
<1>3. Fresh(c) /\ InStep(c) /\ turn = 0 /\ LastFrame(c)
  BY <1>2 DEF Fresh, ClientInv, StringInv
<1>4. /\ taken[c] = 0 /\ Len(inbox[c]) = 0 /\ peer[c] \in {"open", "fin"}
  BY <1>2, <1>3 DEF Fresh
<1>5. PICK k \in Nat : k = Len(size[c])
  BY <1>2, Lengths
<1>6. k = 0 \/ k = 1
  <2>1. k <= 0 + 1
    BY <1>3, <1>4, <1>5 DEF InStep
  <2> QED BY <2>1
<1>7. \A d \in Conn \ behind : InStep(d)'
  BY <1>2, StillInStep DEF StringInv, ServerStep
<1>8. CASE k = 0
  <2>1. Len(stream[c]) = 0
    BY <1>3, <1>5, <1>8 DEF LastFrame
  <2>2. NothingLeft'
    BY <1>1, <1>2, <1>3, <1>4, <1>5, <1>8, <2>1 DEF NothingLeft, Arrived
  <2>3. Len(size'[cur']) # Rounds
    BY <1>1, <1>2, <1>5, <1>8, TurnAssumption
  <2> QED BY <1>1, <1>2, <1>3, <1>4, <1>7, <2>2, <2>3 DEF StringInv
<1>9. CASE k = 1
  <2>1. Len(stream[c]) = FrameLen(size[c][1]) /\ size[c][1] \in Nat
    BY <1>2, <1>3, <1>5, <1>9, FirstFrame
  <2>2. FrameLen(size[c][1])' = FrameLen(size[c][1])
    BY <1>2, <2>1 DEF FrameLen, HeadLen, BodyLen
  <2>3. FrameLen(size[c][1]) \in Nat
    BY <2>1, Heads
  <2>4. Arrived(c)' = FrameLen(size[c][1])'
    BY <1>2, <1>4, <2>1, <2>2, <2>3 DEF Arrived
  <2>5. FrameLeft'
    BY <1>1, <1>2, <1>3, <1>5, <1>9, <2>4 DEF FrameLeft, Arrived
  <2> QED BY <1>1, <1>2, <1>3, <1>4, <1>7, <2>5 DEF StringInv
<1> QED BY <1>6, <1>8, <1>9
\* The first unit of what is left is the first of a length, or it is not.
LEMMA FirstLeft ==
  ASSUME TypeInv, ClientInv, cur \in Conn, FrameLeft, prog = "string"
  PROVE  /\ taken[cur] + FrameLen(size[cur][turn + 1]) = Len(stream[cur])
         /\ \A i \in 1..FrameLen(size[cur][turn + 1]) :
              stream[cur][taken[cur] + i] = [by |-> cur, frame |-> turn + 1, part |-> i - HeadLen]
<1> USE DEF TypeInv
<1>1. PICK k \in Nat : k = turn + 1 /\ k # 0
  <2>1. turn \in Nat
    BY Lengths
  <2> QED BY <2>1
<1>2. LastFrame(cur) /\ Len(size[cur]) = k
  BY <1>1 DEF ClientInv, FrameLeft
<1>3. PICK f \in Nat : f = FrameLen(size[cur][k])
  BY <1>1, <1>2, LastIs
<1>4. PICK w \in Nat, t \in Nat : w = Len(stream[cur]) /\ t = taken[cur]
  BY Lengths
<1>5. w - t = f
  BY <1>1, <1>3, <1>4 DEF FrameLeft, Arrived
<1>6. \A i \in 1..f : stream[cur][w - f + i] = [by |-> cur, frame |-> k, part |-> i - HeadLen]
  BY <1>1, <1>2, <1>3, <1>4, LastIs
<1>7. w - f = t /\ t + f = w
  BY <1>5
<1> QED BY <1>1, <1>3, <1>4, <1>6, <1>7

\* A length read, whole or in part.
LEMMA HeadTaken ==
  ASSUME TypeInv, ClientInv, cur \in Conn, FrameLeft, prog = "string", proc = "up",
         NEW n \in 1..HeadLen, n <= Arrived(cur), Takes(n),
         short' = (IF n < HeadLen THEN short \cup {cur} ELSE short),
         LET u == Chunk(n)[1] IN
           IF u.part = 1 - HeadLen THEN cnt' = size[cur][u.frame] /\ UNCHANGED proc
                                   ELSE proc' = "lost" /\ UNCHANGED cnt,
         buf' = <<>>, UNCHANGED <<prog, turn, cur, size, stream>>
  PROVE  StringRead' /\ proc' = "up"
<1> USE DEF TypeInv
<1>1. PICK k \in Nat : k = turn + 1 /\ k # 0 /\ Len(size[cur]) = k
  <2>1. turn \in Nat
    BY Lengths
  <2> QED BY <2>1 DEF FrameLeft
<1>2. PICK m \in Nat : m = size[cur][k]
  BY <1>1, LastIs DEF ClientInv
<1>3. PICK h \in Nat : h = HeadLen /\ h > 0 /\ FrameLen(m) = h + m
  BY StringLens
<1>4. PICK w \in Nat, t \in Nat : w = Len(stream[cur]) /\ t = taken[cur]
  BY Lengths
<1>5. /\ t + (h + m) = w
      /\ \A i \in 1..h + m : stream[cur][t + i] = [by |-> cur, frame |-> k, part |-> i - h]
  BY <1>1, <1>2, <1>3, <1>4, FirstLeft
<1>6. n \in Nat /\ n > 0 /\ n <= h
  BY <1>3
<1>7. Chunk(n)[1] = [by |-> cur, frame |-> k, part |-> 1 - h]
  <2>1. 1 \in 1..h + m
    BY <1>3
  <2> QED BY <1>4, <1>5, <1>6, <2>1, HeadUnit
<1>8. cnt' = m /\ proc' = "up"
  BY <1>2, <1>3, <1>7
<1>9. taken'[cur] = t + n
  BY <1>4, <1>6, TakesType
<1>10. Arrived(cur)' = h + m - n
  <2>1. w - (t + n) = h + m - n
    BY <1>5, <1>6
  <2> QED BY <1>4, <1>9, <2>1 DEF Arrived
<1>11. ASSUME NEW j \in (t + n) + 1..w PROVE stream[cur][j].part # 1 - h
  <2>1. PICK i \in 1..h + m : j = t + i /\ i > n
    <3>1. j - t \in 1..h + m /\ j = t + (j - t) /\ j - t > n
      BY <1>5, <1>6
    <3> QED BY <3>1
  <2>2. stream[cur][t + i] = [by |-> cur, frame |-> k, part |-> i - h]
    BY <1>5
  <2>4. stream[cur][j].part = i - h
    BY <2>1, <2>2
  <2>3. i - h # 1 - h
    BY <2>1, <1>6
  <2> QED BY <2>4, <2>3
<1>12. HeadLen' = h
  BY <1>3, SameHeads
<1>13. \A j \in taken'[cur'] + 1..Len(stream'[cur']) : stream'[cur'][j].part # 1 - HeadLen'
  BY <1>4, <1>9, <1>11, <1>12
<1>14. Len(buf') = 0
  OBVIOUS
<1>15. PICK a \in Int : a = Arrived(cur)' /\ a = h + m - n
  BY <1>10
<1>16. /\ 0 <= m /\ m <= a + 0 /\ (n = h => a + 0 = m) /\ (n # h => n < h /\ a + 0 > m)
  BY <1>6, <1>15
<1>18. Len(size'[cur']) = turn' + 1 /\ cnt' = size'[cur'][turn' + 1]
  BY <1>1, <1>2, <1>8
<1>19. \/ cur' \in short' /\ a + Len(buf') > cnt'
       \/ a + Len(buf') = cnt'
  BY <1>3, <1>8, <1>14, <1>16
<1>20. StringRead'
  <2>1. Arrived(cur)' = a /\ Len(buf') <= cnt' /\ cnt' <= a + Len(buf')
    BY <1>8, <1>14, <1>15, <1>16
  <2>2. \A i \in 1..Len(buf') : FALSE
    BY <1>14
  <2> QED BY <1>13, <1>18, <1>19, <2>1, <2>2 DEF StringRead
<1> QED BY <1>8, <1>20
\* The server loses its place only where a length was read in part.
LEMMA ReadHeadKeepsString ==
  ASSUME TypeInv, ClientInv, StringInv, ReadHead, proc = "up", UNCHANGED <<prog, clientVars>>,
         prog = "string", cur \notin behind
  PROVE  StringInv' /\ (proc' = "up" \/ (proc' = "lost" /\ cur' \in short'))
<1> USE DEF TypeInv
<1>1. /\ at = "head" /\ at' = "body" /\ buf' = <<>> /\ cur \in Conn
      /\ UNCHANGED <<prog, turn, cur, size, stream, pos, phase, inbox, behind>>
  BY DEF ReadHead, Place, Accepted, answerVars, clientVars
<1>2. /\ peer[cur] = "open" => Len(inbox[cur]) = turn
      /\ Len(size[cur]) = Rounds => peer[cur] \in {"open", "fin", "reset"}
      /\ NothingLeft \/ FrameLeft \/ RestLeft
  BY <1>1 DEF StringInv
<1>3. \A d \in Conn \ behind : InStep(d)'
  BY <1>1, StillInStep DEF StringInv, ServerStep
<1>4. HeadLen \in Nat /\ HeadLen > 0
  BY StringLens
<1>5. ASSUME NEW n \in 1..HeadLen, n <= Arrived(cur), Takes(n),
             short' = IF n < HeadLen THEN short \cup {cur} ELSE short,
             LET u == Chunk(n)[1] IN
               IF u.part = 1 - HeadLen THEN cnt' = size[cur][u.frame] /\ UNCHANGED proc
                                       ELSE proc' = "lost" /\ UNCHANGED cnt,
             UNCHANGED peer
      PROVE  StringInv' /\ (proc' = "up" \/ (proc' = "lost" /\ cur' \in short'))
  <2>1. n \in Nat /\ n > 0 /\ Arrived(cur) \in Int /\ Arrived(cur) # 0
    BY <1>1, <1>4, <1>5, Lengths
  <2>2. CASE FrameLeft
    <3>1. StringRead' /\ proc' = "up"
      BY <1>1, <1>5, <2>2, HeadTaken
    <3> QED BY <1>1, <1>2, <1>3, <1>5, <3>1 DEF StringInv
  <2>3. CASE RestLeft
    <3>1. Chunk(n)[1].part # 1 - HeadLen
      BY <1>1, <1>5, <2>1, <2>3, HeadUnit DEF RestLeft
    <3>2. proc' = "lost" /\ cur' \in short'
      BY <1>1, <1>5, <2>3, <3>1 DEF RestLeft
    <3> QED BY <1>1, <1>3, <3>2 DEF StringInv
  <2>4. ~NothingLeft
    BY <2>1 DEF NothingLeft
  <2> QED BY <1>2, <2>2, <2>3, <2>4
<1>6. ASSUME ReadsError \/ ReadsEnd, cnt' = 0, ErrorReported, UNCHANGED <<proc, taken, short>>
      PROVE  StringInv' /\ proc' = "up"
  <2>1. Arrived(cur) = 0 /\ peer[cur] \in {"reset", "fin", "poked", "rst"}
    BY <1>6 DEF ReadsError, ReadsEnd
  <2>2. ~RestLeft
    BY <2>1 DEF RestLeft
  <2>3. ~FrameLeft
    <3>1. ASSUME FrameLeft PROVE FALSE
      <4>1. PICK k \in Nat : k = turn + 1 /\ k # 0 /\ Len(size[cur]) = k
        <5>1. turn \in Nat
          BY <1>1, Lengths
        <5> QED BY <3>1, <5>1 DEF FrameLeft
      <4>2. PICK m \in Nat : m = size[cur][k]
        BY <1>1, <4>1, LastIs DEF ClientInv
      <4>3. FrameLen(m) = HeadLen + m
        BY StringLens
      <4>4. HeadLen + m = 0
        BY <3>1, <4>1, <4>2, <4>3, <2>1 DEF FrameLeft
      <4> QED BY <4>4, <1>4
    <3> QED BY <3>1
  <2>4. NothingLeft
    BY <1>2, <2>2, <2>3
  <2>5. peer'[cur] \in {"fin", "poked", "rst"}
    BY <1>1, <1>6, <2>1 DEF ErrorReported, TypeOK
  <2>6. NothingLeft'
    BY <1>1, <1>6, <2>4 DEF NothingLeft, Arrived
  <2>7. StringEnded'
    BY <1>1, <1>6, <2>5, <2>6 DEF StringEnded, Gone
  <2>8. Len(size'[cur']) # Rounds
    <3>1. turn \in Nat /\ turn < Rounds /\ Len(size[cur]) <= turn /\ Len(size[cur]) \in Nat
      BY <1>1, <2>4, Lengths DEF NothingLeft, Served
    <3>2. Rounds \in Nat
      BY TurnAssumption
    <3> QED BY <1>1, <3>1, <3>2
  <2> QED BY <1>1, <1>3, <1>6, <2>5, <2>7, <2>8 DEF StringInv
<1> QED BY <1>5, <1>6 DEF ReadHead
\* A unit more of the string.
LEMMA BodyTaken ==
  ASSUME TypeInv, cur \in Conn, StringRead, prog = "string", cnt > Len(buf),
         1 <= Arrived(cur), Takes(1), buf' = buf \o Chunk(1), short' = short,
         UNCHANGED <<prog, turn, cur, cnt, size, stream>>
  PROVE  StringRead'
<1> USE DEF TypeInv
<1>1. PICK w \in Nat, t \in Nat, b \in Nat, m \in Nat :
        w = Len(stream[cur]) /\ t = taken[cur] /\ b = Len(buf) /\ m = cnt
  BY Lengths DEF TypeOK
<1>2. taken'[cur] = t + 1
  BY <1>1, TakesType
<1>3. Len(buf') = b + 1 /\ (\A i \in 1..b : buf'[i] = buf[i]) /\ buf'[b + 1] = stream[cur][t + 1]
  BY <1>1, BufType
<1>4. Arrived(cur) = w - t /\ Arrived(cur)' = w - (t + 1)
  BY <1>1, <1>2 DEF Arrived
<1>5. /\ Len(size[cur]) = turn + 1 /\ cnt = size[cur][turn + 1] /\ b <= m /\ m <= w - t + b
      /\ \A i \in t + 1..w : stream[cur][i].part # 1 - HeadLen
      /\ \/ cur \in short /\ w - t + b > m
         \/ w - t + b = m /\ \A i \in 1..b : buf[i] = stream[cur][t - b + i]
  BY <1>1, <1>4 DEF StringRead
<1>0. m > b
  BY <1>1
<1>6. b < m /\ w - (t + 1) + (b + 1) = w - t + b /\ t + 1 - (b + 1) = t - b
  BY <1>0
<1>7. HeadLen' = HeadLen
  BY SameHeads
<1>8. \A i \in taken'[cur'] + 1..Len(stream'[cur']) : stream'[cur'][i].part # 1 - HeadLen'
  <2>1. \A i \in (t + 1) + 1..w : i \in t + 1..w
    OBVIOUS
  <2> QED BY <1>1, <1>2, <1>5, <1>7, <2>1
<1>9. ASSUME \A i \in 1..b : buf[i] = stream[cur][t - b + i], NEW i \in 1..b + 1
      PROVE  buf'[i] = stream[cur][t - b + i]
  <2>1. CASE i = b + 1
    <3>1. t - b + i = t + 1
      BY <2>1
    <3> QED BY <2>1, <3>1, <1>3
  <2>2. CASE i # b + 1
    <3>1. i \in 1..b
      BY <2>2
    <3> QED BY <3>1, <1>3, <1>9
  <2> QED BY <2>1, <2>2
<1>10. \/ cur' \in short' /\ w - (t + 1) + (b + 1) > m
       \/ w - (t + 1) + (b + 1) = m /\ \A i \in 1..b + 1 : buf'[i] = stream[cur][(t + 1) - (b + 1) + i]
  <2>1. CASE cur \in short /\ w - t + b > m
    BY <2>1, <1>6
  <2>2. CASE w - t + b = m /\ \A i \in 1..b : buf[i] = stream[cur][t - b + i]
    <3>1. \A i \in 1..b + 1 : buf'[i] = stream[cur][t - b + i]
      BY <2>2, <1>9
    <3>2. \A i \in 1..b + 1 : buf'[i] = stream[cur][(t + 1) - (b + 1) + i]
      <4>1. PICK d \in Int : d = t - b /\ d = (t + 1) - (b + 1)
        OBVIOUS
      <4>2. \A i \in 1..b + 1 : buf'[i] = stream[cur][d + i]
        BY <3>1, <4>1
      <4> QED BY <4>1, <4>2
    <3>3. w - (t + 1) + (b + 1) = m
      BY <2>2, <1>6
    <3> QED BY <3>2, <3>3
  <2> QED BY <1>5, <2>1, <2>2
<1>11. b + 1 <= m /\ m <= w - (t + 1) + (b + 1)
  BY <1>1, <1>5, <1>6
<1>12. /\ Len(size'[cur']) = turn' + 1 /\ cnt' = size'[cur'][turn' + 1]
       /\ Len(buf') <= cnt' /\ cnt' <= Arrived(cur)' + Len(buf')
  BY <1>1, <1>3, <1>4, <1>5, <1>11
<1>13. \/ cur' \in short' /\ Arrived(cur)' + Len(buf') > cnt'
       \/ /\ Arrived(cur)' + Len(buf') = cnt'
          /\ \A i \in 1..Len(buf') : buf'[i] = stream'[cur'][taken'[cur'] - Len(buf') + i]
  BY <1>1, <1>2, <1>3, <1>4, <1>10
<1> QED BY <1>8, <1>12, <1>13 DEF StringRead

\* The loop of string never waits for what nobody sends.
LEMMA ReadBodyKeepsString ==
  ASSUME TypeInv, ClientInv, StringInv, ReadBody, proc = "up", UNCHANGED <<prog, clientVars>>,
         prog = "string", cur \notin behind
  PROVE  StringInv' /\ proc' = "up"
<1> USE DEF TypeInv
<1>1. /\ at = "body" /\ NeedsMore /\ cur \in Conn
      /\ UNCHANGED <<prog, cnt, size, stream, pos, phase, inbox, behind>>
  BY DEF ReadBody, Place, Accepted, answerVars, clientVars
<1>2. /\ peer[cur] = "open" => Len(inbox[cur]) = turn
      /\ Len(size[cur]) = Rounds => peer[cur] \in {"open", "fin", "reset"}
      /\ StringEnded \/ StringRead
  BY <1>1 DEF StringInv
<1>3. \A d \in Conn \ behind : InStep(d)'
  BY <1>1, StillInStep DEF StringInv, ServerStep
<1>4. cnt > Len(buf) /\ cnt \in Nat /\ Len(buf) \in Nat
  BY <1>1, StringLens, Lengths DEF NeedsMore, TypeOK
<1>5. StringRead
  <2>1. ASSUME StringEnded PROVE FALSE
    <3>1. cnt = 0 /\ Len(buf) = 0
      BY <2>1 DEF StringEnded
    <3> QED BY <3>1, <1>4
  <2> QED BY <1>2, <2>1
<1>6. ASSUME NEW n \in 1..AtMost, n <= Arrived(cur), Takes(n), buf' = Stored(Chunk(n)),
             short' = IF prog = "kakao" /\ n < Numbers THEN short \cup {cur} ELSE short,
             at' = IF prog \in {"echo", "kakao"} THEN "answer" ELSE "body",
             UNCHANGED <<proc, turn, cur, peer>>
      PROVE  StringInv' /\ proc' = "up"
  <2>1. n = 1
    BY StringLens
  <2>2. StringRead'
    <3>1. buf' = buf \o Chunk(1)
      BY <1>1, <1>6, <2>1, StoredType
    <3> QED BY <1>1, <1>4, <1>5, <1>6, <2>1, <3>1, BodyTaken
  <2> QED BY <1>1, <1>2, <1>3, <1>6, <2>2 DEF StringInv
<1>7. ~ReadsError /\ ~ReadsEnd
  <2>1. ASSUME Arrived(cur) = 0 PROVE FALSE
    <3>1. cnt <= 0 + Len(buf)
      BY <1>5, <2>1 DEF StringRead
    <3> QED BY <3>1, <1>4
  <2> QED BY <2>1 DEF ReadsError, ReadsEnd
<1> QED BY <1>6, <1>7 DEF ReadBody

LEMMA CompleteKeepsString ==
  ASSUME TypeInv, ClientInv, StringInv, BodyComplete, proc = "up", UNCHANGED <<prog, clientVars>>,
         prog = "string", cur \notin behind
  PROVE  StringInv'
<1> USE DEF TypeInv
<1>1. /\ at = "body" /\ at' = "answer" /\ ~NeedsMore /\ cur \in Conn
      /\ UNCHANGED <<prog, proc, turn, cur, cnt, buf, peer, taken, inbox, short, size, stream, pos, phase, behind>>
  BY DEF BodyComplete, Place, Accepted, answerVars, clientVars
<1>2. /\ peer[cur] = "open" => Len(inbox[cur]) = turn
      /\ Len(size[cur]) = Rounds => peer[cur] \in {"open", "fin", "reset"}
      /\ StringEnded \/ StringRead
  BY <1>1 DEF StringInv
<1>3. \A d \in Conn \ behind : InStep(d)'
  BY <1>1, StillInStep DEF StringInv, ServerStep
<1>4. Len(buf) = cnt
  <2>1. ~(cnt > Len(buf)) /\ cnt \in Nat /\ Len(buf) \in Nat
    BY <1>1, StringLens, Lengths DEF NeedsMore, TypeOK
  <2>2. Len(buf) <= cnt
    BY <1>2, <2>1 DEF StringEnded, StringRead
  <2> QED BY <2>1, <2>2
<1>5. StringEnded' = StringEnded
  BY <1>1 DEF StringEnded, NothingLeft, Arrived, Gone
<1>6. StringRead' = StringRead
  BY <1>1 DEF StringRead, Arrived, HeadLen
<1> QED BY <1>1, <1>2, <1>3, <1>4, <1>5, <1>6 DEF StringInv
\* What the server owes to a client that is there is its last frame.
LEMMA StringAnswer ==
  ASSUME TypeInv, ClientInv, StringInv, at = "answer", proc = "up", prog = "string",
         peer[cur] = "open", cur \notin behind
  PROVE  /\ Len(inbox[cur]) = turn /\ Len(size[cur]) = turn + 1
         /\ StringRead /\ Len(buf) = cnt
         /\ cur \notin short => buf = Body(cur, turn + 1)
<1> USE DEF TypeInv
<1>1. /\ Len(inbox[cur]) = turn /\ (StringEnded \/ StringRead) /\ Len(buf) = cnt /\ cur \in Conn
  BY DEF StringInv, Place, Accepted
<1>2. StringRead /\ Len(inbox[cur]) = turn /\ Len(buf) = cnt
  BY <1>1 DEF StringEnded, Gone, StringInv, Place
<1>3. ASSUME cur \notin short PROVE buf = Body(cur, turn + 1)
  <2>1. PICK k \in Nat : k = turn + 1 /\ k # 0 /\ Len(size[cur]) = k
    <3>1. turn \in Nat
      BY <1>1, Lengths
    <3> QED BY <1>2, <3>1 DEF StringRead
  <2>2. PICK m \in Nat : m = size[cur][k]
    BY <1>1, <2>1, LastIs DEF ClientInv
  <2>3. PICK h \in Nat : h = HeadLen /\ FrameLen(m) = h + m /\ BodyLen(m) = m
    BY StringLens
  <2>4. PICK w \in Nat, t \in Nat : w = Len(stream[cur]) /\ t = taken[cur]
    BY <1>1, Lengths
  <2>5. /\ h + m <= w
        /\ \A i \in 1..h + m : stream[cur][w - (h + m) + i] = [by |-> cur, frame |-> k, part |-> i - h]
    <3>1. LastFrame(cur)
      BY <1>1 DEF ClientInv
    <3>2. PICK f \in Nat : f = FrameLen(size[cur][k]) /\ f = h + m
      BY <2>2, <2>3
    <3>3. /\ f <= Len(stream[cur])
          /\ \A i \in 1..f :
               stream[cur][Len(stream[cur]) - f + i] = [by |-> cur, frame |-> k, part |-> i - HeadLen]
      <4>1. /\ FrameLen(size[cur][k]) <= Len(stream[cur])
            /\ \A i \in 1..FrameLen(size[cur][k]) :
                 stream[cur][Len(stream[cur]) - FrameLen(size[cur][k]) + i]
                   = [by |-> cur, frame |-> k, part |-> i - HeadLen]
        BY <1>1, <2>1, <3>1, LastIs
      <4> QED BY <3>2, <4>1
    <3>4. /\ f <= w
          /\ \A i \in 1..f : stream[cur][w - f + i] = [by |-> cur, frame |-> k, part |-> i - h]
      BY <2>3, <2>4, <3>3
    <3> QED BY <3>2, <3>4
  <2>6. /\ cnt = m /\ Len(buf) = m /\ w - t + m = m
        /\ \A i \in 1..m : buf[i] = stream[cur][t - m + i]
    BY <1>2, <1>3, <2>1, <2>2, <2>4 DEF StringRead, Arrived
  <2>7. ASSUME NEW i \in 1..m PROVE buf[i] = [by |-> cur, frame |-> k, part |-> i]
    <3>1. PICK j \in 1..h + m : j = h + i
      BY <2>5
    <3>2. w - (h + m) + j = t - m + i /\ j - h = i
      BY <2>6, <3>1
    <3>3. stream[cur][w - (h + m) + j] = [by |-> cur, frame |-> k, part |-> j - h]
      BY <2>5
    <3> QED BY <2>6, <3>2, <3>3
  <2>8. buf \in [1..m -> Unit]
    <3>1. buf \in Seq(Unit)
      BY DEF TypeOK
    <3> QED BY <3>1, <2>6, LenProperties
  <2>9. buf = [i \in 1..m |-> [by |-> cur, frame |-> k, part |-> i]]
    BY <2>7, <2>8
  <2> QED BY <2>1, <2>2, <2>3, <2>9 DEF Body
<1>4. Len(size[cur]) = turn + 1
  BY <1>2 DEF StringRead
<1> QED BY <1>2, <1>3, <1>4

\* Only a client that left before its last round has the server killed.
LEMMA WriteKeepsString ==
  ASSUME TypeInv, ClientInv, StringInv, WriteAnswer, proc = "up", UNCHANGED <<prog, clientVars>>,
         prog = "string", cur \notin behind
  PROVE  StringInv' /\ \/ proc' = "up"
                       \/ proc' = "done" /\ turn' = Rounds
                       \/ proc' = "killed" /\ Gone(cur)' /\ Len(size'[cur']) < Rounds
<1> USE DEF TypeInv
<1>1. /\ at = "answer" /\ cur \in Conn /\ buf' = <<>> /\ ~Stopped
      /\ UNCHANGED <<prog, cnt, taken, short, size, stream, pos, phase, behind>>
  BY WriteCases DEF Place, Accepted, clientVars, Stopped, Emptied
<1>2. /\ peer[cur] = "open" => Len(inbox[cur]) = turn
      /\ Len(size[cur]) = Rounds => peer[cur] \in {"open", "fin", "reset"}
      /\ StringEnded \/ StringRead
      /\ Len(buf) = cnt
  BY <1>1 DEF StringInv
<1>3. turn \in Nat /\ turn < Rounds /\ Rounds \in Nat /\ Len(size[cur]) \in Nat /\ Len(inbox[cur]) \in Nat
  BY <1>1, TurnAssumption, Lengths DEF Served
<1>4. Len(size[cur]) <= Rounds
  BY <1>1, StringLens DEF ClientInv
<1>5. ASSUME NEW d \in Conn \ behind PROVE InStep(d)'
  <2>1. CASE inbox' = inbox
    BY <2>1, StillInStep DEF StringInv, ServerStep
  <2>2. CASE Answers /\ peer[cur] = "open" /\ peer' = peer
    <3>1. Len(inbox[cur]) = turn /\ Len(size[cur]) = turn + 1
      BY <1>1, <2>2, StringAnswer
    <3>2. Len(inbox'[cur]) = turn + 1 /\ (d # cur => inbox'[d] = inbox[d])
      BY <1>1, <2>2, <3>1, AnswersType
    <3>3. InStep(d)
      BY DEF StringInv
    <3>4. CASE d = cur
      <4>1. Len(inbox'[d]) <= Len(size'[d]) /\ Len(size'[d]) <= Len(inbox'[d]) + 1
        BY <1>1, <1>3, <3>1, <3>2, <3>4
      <4> QED BY <1>1, <2>2, <3>3, <4>1 DEF InStep
    <3>5. CASE d # cur
      BY <1>1, <2>2, <3>2, <3>3, <3>5 DEF InStep
    <3> QED BY <3>4, <3>5
  <2> QED BY <2>1, <2>2, WriteCases DEF answerVars
<1>6. CASE Onward
  <2>1. turn' = turn + 1 /\ at' = "head" /\ cur' = cur /\ proc' = IF turn + 1 = Rounds THEN "done" ELSE "up"
    BY <1>6 DEF Onward, NextRound
  <2>2. Arrived(cur)' = Arrived(cur)
    BY <1>1, <2>1 DEF Arrived
  <2>3. StringEnded => NothingLeft'
    <3>1. ASSUME StringEnded PROVE Len(size[cur]) <= turn + 1
      BY <1>3, <3>1 DEF StringEnded, NothingLeft
    <3> QED BY <1>1, <2>1, <2>2, <3>1 DEF StringEnded, NothingLeft, Arrived
  <2>4. StringRead => NothingLeft' \/ RestLeft'
    <3>1. ASSUME StringRead, cur \in short, Arrived(cur) + Len(buf) > cnt PROVE RestLeft'
      <4>1. Arrived(cur) > 0
        <5>1. cnt \in Nat /\ Arrived(cur) \in Int /\ Len(buf) \in Nat
          BY <1>1, Lengths DEF TypeOK
        <5> QED BY <1>2, <3>1, <5>1
      <4>2. taken[cur] + 1 \in taken[cur] + 1..Len(stream[cur])
        BY <1>1, <4>1, Lengths DEF Arrived
      <4>3. stream[cur][taken[cur] + 1].part # 1 - HeadLen
        BY <3>1, <4>2 DEF StringRead
      <4>4. HeadLen' = HeadLen
        BY SameHeads
      <4> QED BY <1>1, <2>1, <2>2, <3>1, <4>1, <4>3, <4>4 DEF RestLeft, Arrived
    <3>2. ASSUME StringRead, Arrived(cur) + Len(buf) = cnt PROVE NothingLeft'
      <4>1. Arrived(cur) = 0
        <5>1. cnt \in Nat /\ Arrived(cur) \in Int /\ Len(buf) \in Nat
          BY <1>1, Lengths DEF TypeOK
        <5> QED BY <1>2, <3>2, <5>1
      <4>2. Len(size'[cur']) <= turn'
        BY <1>1, <1>3, <2>1, <3>2 DEF StringRead
      <4> QED BY <1>1, <2>1, <2>2, <4>1, <4>2 DEF NothingLeft, Arrived
    <3> QED BY <3>1, <3>2 DEF StringRead
  <2>5. peer'[cur] = "open" => Len(inbox'[cur]) = turn + 1
    <3>1. CASE Answers /\ peer[cur] = "open"
      BY <1>1, <1>2, <3>1, AnswersType
    <3>2. CASE peer[cur] # "open"
      BY <1>1, <3>2, WriteCases DEF TypeOK
    <3>3. peer[cur] = "open" => Answers
      BY <1>1, WriteCases
    <3> QED BY <3>1, <3>2, <3>3
  <2>6. proc' = "up" => Len(size[cur]) # Rounds
    <3>1. ASSUME proc' = "up" PROVE turn + 1 < Rounds
      BY <1>3, <2>1, <3>1
    <3>2. Len(size[cur]) <= turn + 1
      BY <1>2, <1>3 DEF StringEnded, NothingLeft, StringRead
    <3> QED BY <1>3, <3>1, <3>2
  <2>7. StringInv'
    BY <1>1, <1>2, <1>5, <2>1, <2>3, <2>4, <2>5, <2>6 DEF StringInv
  <2> QED BY <2>1, <2>7
<1>7. CASE proc' = "killed" /\ peer[cur] = "rst" /\ UNCHANGED <<at, turn, cur, peer, answerVars>>
  <2>1. Len(size[cur]) # Rounds
    BY <1>2, <1>7
  <2>2. Len(size[cur]) < Rounds
    BY <1>3, <1>4, <2>1
  <2> QED BY <1>1, <1>5, <1>7, <2>2 DEF StringInv, Gone
<1> QED BY <1>1, <1>6, <1>7, WriteCases

\* Of a client that is behind nothing is claimed but that the others keep step.
LEMMA BehindKeepsString ==
  ASSUME TypeInv, StringInv, ServerStep, proc = "up", UNCHANGED <<prog, clientVars>>,
         prog = "string", at # "accept", cur \in behind
  PROVE  StringInv' /\ cur' \in behind'
<1> USE DEF TypeInv
<1>1. UNCHANGED <<prog, behind, size, pos, phase>>
  BY DEF clientVars
<1>2. ASSUME NEW d \in Conn \ behind PROVE InStep(d)'
  <2>1. d # cur /\ inbox'[d] = inbox[d] /\ peer'[d] = peer[d] /\ InStep(d)
    BY ServerLocal DEF StringInv
  <2> QED BY <1>1, <2>1 DEF InStep
<1>3. cur' = cur /\ at' # "accept"
  <2>1. Onward => cur' = cur /\ at' = "head"
    BY DEF Onward, NextRound
  <2>2. BodyOver => cur' = cur /\ at' = at
    BY DEF BodyOver, EndSpins
  <2> QED BY <2>1, <2>2 DEF ServerStep, Accept, ReadHead, ReadBody, BodyComplete, WriteAnswer
<1> QED BY <1>1, <1>2, <1>3 DEF StringInv

LEMMA ClientInStep ==
  ASSUME TypeInv, ClientInv, NEW c \in Conn, ClientStep(c), prog = "string",
         UNCHANGED <<prog, serverVars, taken, answerVars, short>>,
         NEW d \in Conn, InStep(d), d \notin behind
  PROVE  InStep(d)'
<1> USE DEF TypeInv
<1>1. inbox' = inbox
  BY ClientLocal
<1>2. CASE d # c
  BY <1>1, <1>2, ClientLocal DEF InStep
<1>3. CASE d = c
  <2>1. PICK k \in Nat, p \in Nat, b \in Nat : k = Len(size[c]) /\ p = pos[c] /\ b = Len(inbox[c])
    BY Lengths
  <2>2. /\ b <= k /\ k <= b + 1 /\ p <= b
        /\ peer[c] \in {"new", "open"} /\ phase[c] # "waits" => k = p
        /\ peer[c] \in {"new", "open"} /\ phase[c] = "waits" => k = p + 1
    BY <1>3, <2>1 DEF InStep, ClientInv
  <2>3. CASE Ask(c)
    <3>1. PICK n \in Counts : Writes(c, n)
      BY <2>3 DEF Ask
    <3>2. Len(size'[c]) = k + 1
      BY <2>1, <3>1, WritesExtends, CountsNat DEF Extends
    <3>3. peer[c] = "open" /\ phase[c] = "ready" /\ phase'[c] = "waits" /\ pos'[c] = p /\ peer'[c] = "open"
      BY <2>1, <2>3 DEF Ask, TypeOK
    <3>4. k = p
      BY <2>2, <3>3
    <3>5. b <= k + 1 /\ k + 1 <= b + 1
      BY <2>2, <3>4
    <3> QED BY <1>1, <1>3, <2>1, <3>2, <3>3, <3>4, <3>5 DEF InStep
  <2>4. CASE ReadAnswer(c)
    <3>1. /\ peer[c] = "open" /\ phase[c] = "waits" /\ p < b /\ UNCHANGED <<size, peer>>
          /\ pos'[c] = b /\ phase'[c] = "ready"
      BY <2>1, <2>4 DEF ReadAnswer, TypeOK
    <3>2. k = p + 1
      BY <2>2, <3>1
    <3>3. k = b
      BY <2>2, <3>1, <3>2
    <3> QED BY <1>1, <1>3, <2>1, <2>2, <3>1, <3>3 DEF InStep
  <2>5. CASE Connect(c)
    <3>1. peer[c] = "new" /\ UNCHANGED <<size, pos, phase>>
      BY <2>5 DEF Connect, clientVars
    <3> QED BY <1>1, <1>3, <3>1 DEF InStep
  <2>6. CASE Leave(c) \/ ResetArrives(c)
    <3>1. peer'[c] \notin {"new", "open"} /\ UNCHANGED <<size, pos, phase>>
      BY <2>6 DEF Leave, ResetArrives, Closing, clientVars, TypeOK
    <3> QED BY <1>1, <1>3, <3>1 DEF InStep
  <2>7. ~AskStop(c) /\ ~ReadLeftover(c)
    BY <1>3 DEF AskStop, ReadLeftover
  <2> QED BY <2>3, <2>4, <2>5, <2>6, <2>7 DEF ClientStep
<1> QED BY <1>2, <1>3

\* The client served writes only when the server has written all its answers
\* and reads a length next.
LEMMA AskedString ==
  ASSUME TypeInv, ClientInv, StringInv, prog = "string", proc = "up", at # "accept",
         peer[cur] = "open", phase[cur] = "ready", cur \notin behind
  PROVE  /\ Len(size[cur]) = turn
         /\ at = "head" /\ (NothingLeft \/ RestLeft)
<1> USE DEF TypeInv
<1>1. cur \in Conn
  BY DEF Place, Accepted
<1>2. PICK k \in Nat, p \in Nat, b \in Nat, t \in Nat :
        k = Len(size[cur]) /\ p = pos[cur] /\ b = Len(inbox[cur]) /\ t = turn
  BY <1>1, Lengths
<1>3. b = t /\ InStep(cur)
  BY <1>1, <1>2 DEF StringInv
<1>4. b <= k /\ k = p /\ p <= b
  BY <1>1, <1>2, <1>3 DEF InStep, ClientInv
<1>5. k = t /\ k # t + 1
  BY <1>3, <1>4
<1>6. ~StringEnded /\ ~StringRead /\ ~FrameLeft
  BY <1>2, <1>5 DEF StringEnded, StringRead, FrameLeft, Gone
<1> QED BY <1>2, <1>5, <1>6 DEF StringInv, TypeOK

LEMMA AskKeepsLeft ==
  ASSUME TypeInv, NEW n \in Nat, cur \in Conn, Extends(cur, n), Len(size[cur]) = turn,
         NothingLeft \/ RestLeft, UNCHANGED <<prog, cur, turn, taken, short>>
  PROVE  FrameLeft' \/ RestLeft'
<1> USE DEF TypeInv
<1>1. PICK w \in Nat, t \in Nat, f \in Nat :
        w = Len(stream[cur]) /\ t = taken[cur] /\ f = FrameLen(n) /\ f = FrameLen(n)'
  BY Lengths, Heads, SameHeads
<1>2. /\ Len(stream'[cur]) = w + f /\ Len(size'[cur]) = turn + 1 /\ size'[cur][turn + 1] = n
      /\ \A i \in 1..w : stream'[cur][i] = stream[cur][i]
  BY <1>1 DEF Extends
<1>3. Arrived(cur) = w - t /\ Arrived(cur)' = w + f - t /\ HeadLen' = HeadLen
  BY <1>1, <1>2, SameHeads DEF Arrived
<1>4. CASE NothingLeft
  <2>1. Arrived(cur)' = f
    <3>1. w - t = 0
      BY <1>3, <1>4 DEF NothingLeft
    <3> QED BY <1>3, <3>1
  <2>2. FrameLen(size[cur][turn + 1])' = f
    <3>1. FrameLen(n)' = f
      BY <1>1
    <3> QED BY <1>2, <3>1 DEF FrameLen, BodyLen
  <2> QED BY <1>2, <2>1, <2>2 DEF FrameLeft, Arrived
<1>5. CASE RestLeft
  <2>1. w - t > 0 /\ stream[cur][t + 1].part # 1 - HeadLen
    BY <1>1, <1>3, <1>5 DEF RestLeft
  <2>2. t + 1 \in 1..w /\ w + f - t > 0
    BY <2>1
  <2>3. stream'[cur][t + 1] = stream[cur][t + 1]
    BY <1>2, <2>2
  <2> QED BY <1>1, <1>3, <1>5, <2>1, <2>2, <2>3 DEF RestLeft, Arrived
<1> QED BY <1>4, <1>5

LEMMA ClientKeepsString ==
  ASSUME TypeInv, ClientInv, StringInv, NEW c \in Conn, ClientStep(c),
         UNCHANGED <<prog, serverVars, taken, answerVars, short>>
  PROVE  StringInv'
<1> USE DEF TypeInv
<1> SUFFICES ASSUME prog = "string" PROVE StringInv'
  BY DEF StringInv
<1>1. UNCHANGED <<prog, proc, at, turn, cur, cnt, buf, taken, inbox, echoes, short>>
  BY ClientLocal
<1>2. behind \subseteq behind' /\ \A d \in Conn \ behind : InStep(d)'
  BY ClientInStep, ClientLocal DEF StringInv
<1>3. proc = "up" /\ at = "accept" => turn = 0
  BY DEF StringInv
<1>4. ASSUME proc = "up", at # "accept", cur \notin behind
      PROVE  /\ peer'[cur] = "open" => Len(inbox[cur]) = turn
             /\ Len(size'[cur]) = Rounds => peer'[cur] \in {"open", "fin", "reset"}
             /\ at = "head" => NothingLeft' \/ FrameLeft' \/ RestLeft'
             /\ at = "body" => StringEnded' \/ StringRead'
             /\ at = "answer" => (StringEnded' \/ StringRead') /\ Len(buf) = cnt
  <2>1. cur \in Conn /\ peer[cur] # "new"
    BY <1>4 DEF Place, Accepted
  <2>2. /\ peer[cur] = "open" => Len(inbox[cur]) = turn
        /\ Len(size[cur]) = Rounds => peer[cur] \in {"open", "fin", "reset"}
        /\ at = "head" => NothingLeft \/ FrameLeft \/ RestLeft
        /\ at = "body" => StringEnded \/ StringRead
        /\ at = "answer" => (StringEnded \/ StringRead) /\ Len(buf) = cnt
    BY <1>4 DEF StringInv
  <2>3. /\ peer'[cur] = "open" => peer[cur] = "open"
        /\ Gone(cur) => Gone(cur)'
    <3>1. CASE c = cur
      <4>1. peer'[cur] = peer[cur] \/ peer'[cur] \in {"fin", "reset", "poked", "rst"}
        BY <2>1, <3>1 DEF TypeOK, ClientStep, Connect, Ask, AskStop, ReadAnswer, ReadLeftover, Leave, ResetArrives, Closing
      <4> QED BY <1>1, <4>1 DEF Gone
    <3>2. CASE c # cur
      BY <1>1, <2>1, <3>2, ClientLocal DEF Gone
    <3> QED BY <3>1, <3>2
  <2>4. CASE size'[cur] = size[cur] /\ stream'[cur] = stream[cur]
    <3>1. Arrived(cur)' = Arrived(cur) /\ HeadLen' = HeadLen
      BY <1>1, <2>4, SameHeads DEF Arrived
    <3>2. /\ NothingLeft' = NothingLeft /\ RestLeft' = RestLeft
      BY <1>1, <2>4, <3>1 DEF NothingLeft, RestLeft, Arrived
    <3>3. FrameLeft' = FrameLeft
      BY <1>1, <2>4, <3>1 DEF FrameLeft, Arrived, FrameLen, BodyLen
    <3>4. StringEnded => StringEnded'
      BY <1>1, <2>3, <3>2 DEF StringEnded, Gone
    <3>5. StringRead' = StringRead
      BY <1>1, <2>4, <3>1 DEF StringRead, Arrived
    <3>6. ASSUME Len(size[cur]) = Rounds PROVE peer'[cur] \in {"open", "fin", "reset"}
      <4>1. peer[cur] \in {"open", "fin", "reset"}
        BY <2>2, <3>6
      <4>2. ASSUME c = cur, Leave(c) PROVE pos[cur] = Len(inbox[cur])
        <5>1. PICK k \in Nat, p \in Nat, b \in Nat, t \in Nat :
                k = Len(size[cur]) /\ p = pos[cur] /\ b = Len(inbox[cur]) /\ t = turn
          BY <2>1, Lengths
        <5>2. peer[cur] = "open" /\ b = t /\ InStep(cur)
          BY <1>4, <2>1, <2>2, <4>2, <5>1 DEF Leave, StringInv
        <5>3. t < Rounds /\ k = Rounds /\ p <= b
          BY <1>4, <2>1, <3>6, <5>1 DEF Served, ClientInv
        <5>4. k <= b + 1 /\ (k = p \/ k = p + 1)
          BY <5>1, <5>2 DEF InStep
        <5>5. p = b
          BY <5>2, <5>3, <5>4, TurnAssumption
        <5> QED BY <5>1, <5>5
      <4>5. ASSUME c = cur, Leave(c) PROVE Closing(c) \subseteq {"fin", "reset"}
        <5>1. pos[c] = Len(inbox[c]) /\ Len(inbox[c]) \in Nat
          BY <4>2, <4>5, Lengths
        <5> QED BY <5>1 DEF Closing
      <4>3. CASE c = cur
        BY <2>1, <4>1, <4>3, <4>5 DEF TypeOK, ClientStep, Connect, Ask, AskStop, ReadAnswer, ReadLeftover, Leave, ResetArrives
      <4>4. CASE c # cur
        BY <1>1, <2>1, <4>1, <4>4, ClientLocal
      <4> QED BY <4>3, <4>4
    <3> QED BY <2>2, <2>3, <2>4, <3>2, <3>3, <3>4, <3>5, <3>6
  <2>5. ASSUME NEW n \in Counts, Writes(c, n), peer[c] = "open", phase[c] = "ready", c = cur
        PROVE  at = "head" /\ (FrameLeft' \/ RestLeft') /\ peer'[cur] = "open"
    <3>1. Extends(cur, n) /\ n \in Nat
      BY <2>5, WritesExtends, CountsNat
    <3>2. Len(size[cur]) = turn /\ at = "head" /\ (NothingLeft \/ RestLeft)
      BY <1>4, <2>5, AskedString
    <3>3. FrameLeft' \/ RestLeft'
      BY <1>1, <2>1, <3>1, <3>2, AskKeepsLeft
    <3>4. peer'[cur] = "open"
      <4>1. ~(size' = size)
        <5>1. Len(size'[cur]) = Len(size[cur]) + 1 /\ Len(size[cur]) \in Nat
          BY <2>1, <3>1, Lengths DEF Extends
        <5> QED BY <5>1
      <4>2. Ask(c)
        BY <4>1 DEF ClientStep, Connect, AskStop, ReadAnswer, ReadLeftover, Leave, ResetArrives, clientVars
      <4> QED BY <2>5, <4>2 DEF Ask
    <3> QED BY <3>2, <3>3, <3>4
  <2>6. \/ size'[cur] = size[cur] /\ stream'[cur] = stream[cur]
        \/ \E n \in Counts : Writes(c, n) /\ peer[c] = "open" /\ phase[c] = "ready" /\ c = cur
    BY <2>1, ClientWrites, ClientLocal
  <2> QED BY <2>2, <2>3, <2>4, <2>5, <2>6
<1> QED BY <1>1, <1>2, <1>3, <1>4 DEF StringInv

LEMMA InitString == Init => StringInv
<1> SUFFICES ASSUME Init PROVE StringInv
  OBVIOUS
<1>1. at = "accept" /\ turn = 0
  BY DEF Init
<1>2. ASSUME NEW c \in Conn PROVE InStep(c)
  <2>1. size[c] = <<>> /\ inbox[c] = <<>> /\ pos[c] = 0 /\ phase[c] = "ready"
    BY DEF Init
  <2>2. Len(size[c]) = 0 /\ Len(inbox[c]) = 0
    BY <2>1
  <2> QED BY <2>1, <2>2 DEF InStep
<1> QED BY <1>1, <1>2 DEF StringInv

LEMMA StutterKeepsString == StringInv /\ UNCHANGED vars => StringInv'
<1> SUFFICES ASSUME StringInv, UNCHANGED vars PROVE StringInv'
  OBVIOUS
<1> USE DEF vars, serverVars, clientVars, wireVars, answerVars
<1>1. HeadLen' = HeadLen /\ Arrived(cur)' = Arrived(cur)
  BY DEF HeadLen, Arrived
<1>2. NothingLeft' = NothingLeft /\ RestLeft' = RestLeft /\ FrameLeft' = FrameLeft
  BY <1>1 DEF NothingLeft, RestLeft, FrameLeft, FrameLen, BodyLen, Arrived
<1>3. StringEnded' = StringEnded /\ StringRead' = StringRead
  BY <1>1, <1>2 DEF StringEnded, StringRead, Gone, Arrived
<1>4. \A c \in Conn : InStep(c)' = InStep(c)
  BY DEF InStep
<1> QED BY <1>2, <1>3, <1>4 DEF StringInv

LEMMA NextString == TypeInv /\ ClientInv /\ StringInv /\ [Next]_vars => StringInv'
<1> SUFFICES ASSUME TypeInv, ClientInv, StringInv, [Next]_vars PROVE StringInv'
  OBVIOUS
<1>1. CASE prog = "string"
  <2>1. ASSUME proc = "up", UNCHANGED <<prog, clientVars>>,
               Accept \/ ReadHead \/ ReadBody \/ BodyComplete \/ WriteAnswer
        PROVE  StringInv'
    <3>1. CASE at = "accept"
      BY <1>1, <2>1, <3>1, AcceptKeepsString DEF ReadHead, ReadBody, BodyComplete, WriteAnswer
    <3>2. CASE at # "accept" /\ cur \in behind
      BY <1>1, <2>1, <3>2, BehindKeepsString DEF ServerStep
    <3>3. CASE at # "accept" /\ cur \notin behind
      BY <1>1, <2>1, <3>3, ReadHeadKeepsString, ReadBodyKeepsString, CompleteKeepsString,
         WriteKeepsString DEF Accept
    <3> QED BY <3>1, <3>2, <3>3
  <2> QED BY <2>1, NextSplit, StutterKeepsString, ClientKeepsString
<1>2. CASE prog # "string"
  <2>1. prog' = prog
    BY NextSplit DEF vars
  <2> QED BY <1>2, <2>1 DEF StringInv
<1> QED BY <1>1, <1>2-----------------------------------------------------------------------------
(* echo. *)

LEMMA HandType ==
  ASSUME TypeOK
  PROVE  \A c \in Conn : InHand(c) \in Nat
<1>1. Len(buf) \in Nat
  BY LenProperties DEF TypeOK
<1> QED BY <1>1 DEF InHand

\* What is read goes from one account to the other.
LEMMA SameEcho ==
  ASSUME TypeOK, NEW d \in Conn,
         size'[d] = size[d], stream'[d] = stream[d], phase'[d] = phase[d], pos'[d] = pos[d],
         echoes'[d] = echoes[d], inbox'[d] = inbox[d],
         NEW a \in Nat, NEW g \in Nat, NEW h \in Nat,
         taken'[d] = a, InHand(d) = g, InHand(d)' = h, a = taken[d] + h - g,
         \/ peer'[d] = peer[d]
         \/ peer[d] \in {"poked", "reset"} /\ peer'[d] = "rst"
         \/ peer[d] = "new" /\ peer'[d] = "open",
         Echoed(d), UnitLines(d) => LineByLine(d)
  PROVE  Echoed(d)' /\ (UnitLines(d)' => LineByLine(d)')
<1>1. PICK t \in Nat, w \in Nat, e \in Nat :
        t = taken[d] /\ w = Len(stream[d]) /\ e = Len(echoes[d])
  BY Lengths
<1>2. t = e + g => a = e + h
  BY <1>1
<1>3. Echoed(d)'
  <2>1. peer'[d] \in {"new", "open"} => peer[d] \in {"new", "open"}
    OBVIOUS
  <2>2. /\ e <= w /\ \A i \in 1..e : echoes[d][i] = stream[d][i]
        /\ peer[d] \in {"new", "open"} => t = e + g
    BY <1>1 DEF Echoed
  <2>3. peer'[d] \in {"new", "open"} => a = e + h
    BY <1>2, <2>1, <2>2
  <2> QED BY <1>1, <2>2, <2>3 DEF Echoed
<1>4. Unechoed(d)' = Unechoed(d) /\ Unread(d)' = Unread(d) /\ UnitLines(d)' = UnitLines(d)
  <2>1. w - a + h = w - t + g
    BY <1>1
  <2> QED BY <1>1, <2>1 DEF Unechoed, Unread, UnitLines
<1>5. LineByLine(d) => LineByLine(d)'
  BY <1>4 DEF LineByLine
<1> QED BY <1>3, <1>4, <1>5

LEMMA AcceptKeepsEcho ==
  ASSUME TypeInv, EchoInv, Accept, proc = "up", UNCHANGED <<prog, clientVars>>, prog = "echo"
  PROVE  EchoInv' /\ proc' = "up"
<1> USE DEF TypeInv
<1>1. /\ at = "accept" /\ at' = "body" /\ buf' = <<>>
      /\ UNCHANGED <<prog, proc, turn, peer, taken, inbox, echoes, size, stream, pos, phase>>
  BY DEF Accept, FirstPlace, Emptied, answerVars, clientVars
<1>2. ASSUME NEW d \in Conn PROVE Echoed(d)' /\ (UnitLines(d)' => LineByLine(d)')
  <2>1. InHand(d) = 0 /\ InHand(d)' = 0
    BY <1>1 DEF InHand
  <2>2. taken[d] \in Nat /\ taken[d] = taken[d] + 0 - 0
    BY DEF TypeOK
  <2>3. Echoed(d) /\ (UnitLines(d) => LineByLine(d))
    BY DEF EchoInv
  <2> QED BY <1>1, <2>1, <2>2, <2>3, SameEcho
<1> QED BY <1>1, <1>2 DEF EchoInv

LEMMA ReadBodyKeepsEcho ==
  ASSUME TypeInv, EchoInv, ReadBody, proc = "up", UNCHANGED <<prog, clientVars>>, prog = "echo"
  PROVE  EchoInv' /\ (proc' = "up" \/ (proc' = "done" /\ turn' = Turns))
<1> USE DEF TypeInv
<1>1. /\ at = "body" /\ cur \in Conn /\ buf = <<>> /\ Len(buf) = 0
      /\ UNCHANGED <<prog, cnt, inbox, echoes, size, stream, pos, phase>>
  BY DEF ReadBody, Place, Accepted, answerVars, clientVars, EchoInv
<1>2. \A d \in Conn : Echoed(d) /\ (UnitLines(d) => LineByLine(d)) /\ InHand(d) = 0 /\ taken[d] \in Nat
  BY <1>1 DEF EchoInv, InHand, TypeOK
<1>3. ASSUME NEW n \in 1..AtMost, n <= Arrived(cur), Takes(n), buf' = Stored(Chunk(n)),
             short' = IF prog = "kakao" /\ n < Numbers THEN short \cup {cur} ELSE short,
             at' = IF prog \in {"echo", "kakao"} THEN "answer" ELSE "body",
             UNCHANGED <<proc, turn, cur, peer>>
      PROVE  EchoInv' /\ proc' = "up"
  <2>1. n \in Nat /\ n > 0
    BY <1>1, Lengths DEF AtMost
  <2>2. PICK t \in Nat : t = taken[cur]
    BY <1>1, <1>2
  <2>3. taken'[cur] = t + n /\ \A d \in Conn : d # cur => taken'[d] = taken[d]
    BY <1>1, <1>3, <2>1, <2>2, TakesType
  <2>4. Len(buf') = n /\ \A i \in 1..n : buf'[i] = stream[cur][t + i]
    <3>1. /\ Len(buf') = 0 + n
          /\ \A i \in 1..n : buf'[0 + i] = stream[cur][t + i]
      BY <1>1, <1>3, <2>1, <2>2, StoredType, BufType
    <3>2. 0 + n = n /\ \A i \in 1..n : 0 + i = i
      BY <2>1
    <3> QED BY <3>1, <3>2
  <2>5. ASSUME NEW d \in Conn PROVE Echoed(d)' /\ (UnitLines(d)' => LineByLine(d)')
    <3>1. CASE d = cur
      <4>1. InHand(d)' = n
        BY <1>3, <2>4, <3>1 DEF InHand
      <4>2. t + n \in Nat /\ t + n = taken[d] + n - 0 /\ taken'[d] = t + n
        BY <2>1, <2>2, <2>3, <3>1
      <4> QED BY <1>1, <1>2, <1>3, <2>1, <4>1, <4>2, SameEcho
    <3>2. CASE d # cur
      <4>1. InHand(d)' = 0 /\ taken'[d] = taken[d] /\ taken[d] = taken[d] + 0 - 0
        BY <1>2, <1>3, <2>3, <3>2 DEF InHand
      <4> QED BY <1>1, <1>2, <1>3, <4>1, SameEcho
    <3> QED BY <3>1, <3>2
  <2>6. /\ n <= t + n
        /\ \A i \in 1..n : t + n - n + i = t + i
    BY <2>1
  <2>7. /\ Len(buf') > 0 /\ Len(buf') <= taken'[cur']
        /\ \A i \in 1..Len(buf') : buf'[i] = stream'[cur'][taken'[cur'] - Len(buf') + i]
    BY <1>1, <1>3, <2>1, <2>3, <2>4, <2>6
  <2> QED BY <1>1, <1>3, <2>5, <2>7 DEF EchoInv
<1>4. ASSUME ReadsError \/ ReadsEnd, BodyOver, ErrorReported, UNCHANGED <<buf, kept, taken, short>>
      PROVE  EchoInv' /\ (proc' = "up" \/ (proc' = "done" /\ turn' = Turns))
  <2>1. /\ at' \in {"accept", "body"}
        /\ proc' = "up" \/ (proc' = "done" /\ turn' = Turns)
    BY <1>1, <1>4 DEF BodyOver, EndOfEcho
  <2>2. ASSUME NEW d \in Conn PROVE Echoed(d)' /\ (UnitLines(d)' => LineByLine(d)')
    <3>1. peer'[d] = peer[d] \/ (peer[d] \in {"poked", "reset"} /\ peer'[d] = "rst")
      BY <1>1, <1>4 DEF ErrorReported, TypeOK
    <3>2. InHand(d)' = 0 /\ taken[d] = taken[d] + 0 - 0
      BY <1>2, <2>1 DEF InHand
    <3> QED BY <1>1, <1>2, <1>4, <3>1, <3>2, SameEcho
  <2> QED BY <1>1, <1>4, <2>1, <2>2 DEF EchoInv
<1> QED BY <1>3, <1>4 DEF ReadBody
\* What the client served is owed is what the server has in hand.
LEMMA EchoWritten ==
  ASSUME TypeInv, EchoInv, at = "answer", proc = "up", prog = "echo", peer[cur] = "open",
         cur \in Conn, Answers, UNCHANGED <<prog, cur, taken, peer, size, stream, pos, phase>>,
         at' = "body"
  PROVE  Echoed(cur)' /\ (UnitLines(cur)' => LineByLine(cur)')
<1> USE DEF TypeInv
<1>1. PICK e \in Nat, b \in Nat, t \in Nat, w \in Nat :
        e = Len(echoes[cur]) /\ b = Len(buf) /\ t = taken[cur] /\ w = Len(stream[cur])
  BY Lengths
<1>2. /\ e <= w /\ \A i \in 1..e : echoes[cur][i] = stream[cur][i]
      /\ b > 0 /\ \A i \in 1..b : buf[i] = stream[cur][t - b + i]
      /\ t = e + b /\ t <= w
  BY <1>1 DEF EchoInv, Echoed, InHand, Written
<1>3. PICK q \in Seq(Unit) : q = echoes[cur]
  BY DEF TypeOK
<1>4. PICK r \in Seq(Unit) : r = buf /\ r = Reply
  BY DEF TypeOK, Reply
<1>5. /\ Len(q \o r) = e + b
      /\ \A i \in 1..e + b : (q \o r)[i] = IF i <= e THEN q[i] ELSE r[i - e]
  BY <1>1, <1>3, <1>4, ConcatProperties
<1>6. echoes'[cur] = q \o r /\ Len(inbox'[cur]) = Len(inbox[cur]) + 1
  BY <1>3, <1>4, AnswersType
<1>7. ASSUME NEW i \in 1..t PROVE echoes'[cur][i] = stream[cur][i]
  <2>1. CASE i <= e
    <3>1. i \in 1..e /\ i \in 1..e + b
      BY <2>1, <1>2
    <3> QED BY <2>1, <3>1, <1>2, <1>3, <1>5, <1>6
  <2>2. CASE i > e
    <3>1. PICK j \in 1..b : j = i - e
      BY <2>2, <1>2
    <3>2. i \in 1..e + b /\ ~(i <= e) /\ t - b + j = i
      BY <2>2, <3>1, <1>2
    <3>3. buf[j] = stream[cur][i]
      BY <3>2, <1>2
    <3> QED BY <3>1, <3>2, <3>3, <1>4, <1>5, <1>6
  <2> QED BY <2>1, <2>2
<1>8. Len(echoes'[cur]) = t /\ InHand(cur)' = 0
  BY <1>2, <1>5, <1>6 DEF InHand
<1>9. Echoed(cur)'
  <2>1. Len(echoes'[cur]) <= Len(stream'[cur])
    BY <1>1, <1>2, <1>8
  <2>2. \A i \in 1..Len(echoes'[cur]) : echoes'[cur][i] = stream'[cur][i]
    BY <1>7, <1>8
  <2>3. taken'[cur] = Len(echoes'[cur]) + InHand(cur)'
    BY <1>1, <1>8
  <2> QED BY <2>1, <2>2, <2>3 DEF Echoed
<1>10. ASSUME UnitLines(cur)' PROVE LineByLine(cur)'
  <2>1. LineByLine(cur)
    <3>1. UnitLines(cur)
      BY <1>10 DEF UnitLines
    <3> QED BY <3>1 DEF EchoInv
  <2>2. Unechoed(cur) = w - e /\ Unechoed(cur)' = w - t
    BY <1>1, <1>8 DEF Unechoed
  <2>3. w - e <= 1
    BY <2>1, <2>2 DEF LineByLine
  <2>4. w - e # 0 /\ w - t = 0
    BY <1>2, <2>3
  <2>5. phase[cur] = "waits"
    BY <2>1, <2>2, <2>4 DEF LineByLine
  <2>6. Unechoed(cur)' = 0 /\ 0 <= 1
    BY <2>2, <2>4
  <2> QED BY <2>5, <2>6 DEF LineByLine
<1> QED BY <1>9, <1>10

\* A client gone with lines of one unit left at most the one that was echoed.
LEMMA EchoLost ==
  ASSUME TypeInv, EchoInv, at = "answer", proc = "up", prog = "echo",
         peer[cur] \in {"fin", "poked", "reset", "rst"}, cur \in Conn, UnitLines(cur)
  PROVE  peer[cur] = "fin" /\ taken[cur] = Len(stream[cur])
<1> USE DEF TypeInv
<1>1. PICK b \in Nat, t \in Nat, w \in Nat : b = Len(buf) /\ t = taken[cur] /\ w = Len(stream[cur])
  BY Lengths
<1>2. b > 0 /\ t <= w /\ LineByLine(cur) /\ Unread(cur) = w - t + b
  BY <1>1 DEF EchoInv, Written, Unread, InHand
<1>3. w - t + b # 0
  BY <1>2
<1>4. peer[cur] = "fin" /\ w - t + b <= 1
  BY <1>2, <1>3 DEF LineByLine
<1>5. t = w
  BY <1>2, <1>4
<1> QED BY <1>1, <1>4, <1>5

LEMMA WriteKeepsEcho ==
  ASSUME TypeInv, EchoInv, WriteAnswer, proc = "up", UNCHANGED <<prog, clientVars>>, prog = "echo"
  PROVE  EchoInv' /\ \/ proc' = "up"
                     \/ /\ proc' = "killed" /\ Gone(cur)'
                        /\ \E k \in 1..Len(size'[cur']) : size'[cur'][k] > 1
<1> USE DEF TypeInv
<1>1. /\ at = "answer" /\ cur \in Conn /\ buf' = <<>> /\ ~Stopped
      /\ UNCHANGED <<prog, cnt, taken, short, size, stream, pos, phase>>
  BY WriteCases DEF Place, Accepted, clientVars, Stopped, Emptied
<1>2. ASSUME NEW d \in Conn, d # cur, cur' = cur PROVE Echoed(d)' /\ (UnitLines(d)' => LineByLine(d)')
  <2>1. /\ inbox'[d] = inbox[d] /\ echoes'[d] = echoes[d] /\ peer'[d] = peer[d]
        /\ InHand(d) = 0 /\ InHand(d)' = 0 /\ taken[d] \in Nat
    BY <1>1, <1>2, ServerLocal DEF InHand, ServerStep, TypeOK
  <2>2. taken[d] = taken[d] + 0 - 0 /\ Echoed(d) /\ (UnitLines(d) => LineByLine(d))
    BY <2>1 DEF EchoInv
  <2> QED BY <1>1, <2>1, <2>2, SameEcho
<1>3. Onward => at' = "body" /\ proc' = "up" /\ cur' = cur
  BY DEF Onward
<1>4. CASE Answers /\ peer[cur] = "open" /\ UNCHANGED peer /\ Onward
  <2>1. Echoed(cur)' /\ (UnitLines(cur)' => LineByLine(cur)')
    BY <1>1, <1>3, <1>4, EchoWritten
  <2> QED BY <1>1, <1>2, <1>3, <1>4, <2>1 DEF EchoInv
<1>5. CASE /\ peer[cur] \in {"fin", "poked", "reset"}
           /\ peer' = [peer EXCEPT ![cur] = IF @ = "reset" THEN "rst" ELSE "poked"]
           /\ Onward /\ UNCHANGED answerVars
  <2>1. /\ peer'[cur] \in {"poked", "rst"} /\ UNCHANGED <<inbox, echoes>> /\ InHand(cur)' = 0
    BY <1>1, <1>3, <1>5 DEF TypeOK, answerVars, InHand
  <2>2. Echoed(cur)'
    BY <1>1, <1>3, <1>5, <2>1 DEF EchoInv, Echoed
  <2>3. ASSUME UnitLines(cur)' PROVE LineByLine(cur)'
    <3>1. taken[cur] = Len(stream[cur]) /\ taken[cur] \in Nat
      <4>1. UnitLines(cur)
        BY <1>1, <1>3, <1>5, <2>3 DEF UnitLines
      <4> QED BY <1>1, <1>5, <4>1, EchoLost, Lengths
    <3>2. Unread(cur)' = 0
      BY <1>1, <1>3, <1>5, <2>1, <3>1 DEF Unread
    <3> QED BY <1>3, <1>5, <2>1, <3>2 DEF LineByLine
  <2> QED BY <1>1, <1>2, <1>3, <1>5, <2>2, <2>3 DEF EchoInv
<1>6. CASE peer[cur] = "rst" /\ proc' = "killed" /\ UNCHANGED <<at, turn, cur, peer, answerVars>>
  <2>1. ~UnitLines(cur)
    BY <1>1, <1>6, EchoLost
  <2>2. \E k \in 1..Len(size[cur]) : size[cur][k] > 1
    <3>1. PICK k \in 1..Len(size[cur]) : ~(size[cur][k] <= 1)
      BY <2>1 DEF UnitLines
    <3>2. size[cur] \in Seq(Nat) /\ k \in 1..Len(size[cur])
      BY <1>1 DEF TypeOK
    <3>3. size[cur][k] \in Nat
      BY <3>2, ElementOfSeq
    <3>4. size[cur][k] > 1
      BY <3>1, <3>3
    <3> QED BY <3>4
  <2>3. Echoed(cur)' /\ ~UnitLines(cur)'
    BY <1>1, <1>6, <2>1 DEF EchoInv, Echoed, UnitLines, answerVars
  <2>4. \A d \in Conn : Echoed(d)' /\ (UnitLines(d)' => LineByLine(d)')
    BY <1>2, <1>6, <2>3
  <2>5. EchoInv'
    BY <1>1, <1>6, <2>4 DEF EchoInv
  <2> QED BY <1>1, <1>6, <2>2, <2>5 DEF Gone
<1> QED BY <1>1, <1>4, <1>5, <1>6, WriteCases
LEMMA AskKeepsEcho ==
  ASSUME TypeInv, ClientInv, EchoInv, NEW c \in Conn, Ask(c), prog = "echo",
         UNCHANGED <<prog, serverVars, taken, answerVars, short>>
  PROVE  Echoed(c)' /\ (UnitLines(c)' => LineByLine(c)')
<1> USE DEF TypeInv
<1>1. /\ UNCHANGED <<prog, at, cur, buf, taken, inbox, echoes, pos>>
      /\ peer[c] = "open" /\ peer'[c] = "open" /\ phase[c] = "ready" /\ phase'[c] = "waits"
  BY DEF Ask, serverVars, answerVars, TypeOK
<1>2. PICK n \in 1..MaxCount : Writes(c, n)
  BY DEF Ask, Counts
<1>3. n \in Nat /\ n > 0 /\ HeadLen = 0 /\ FrameLen(n) = n
  BY TurnAssumption DEF HeadLen, FrameLen, BodyLen
<1>4. PICK e \in Nat, w \in Nat, k \in Nat :
        e = Len(echoes[c]) /\ w = Len(stream[c]) /\ k = Len(size[c])
  BY Lengths
<1>5. /\ Len(stream'[c]) = w + n /\ \A i \in 1..w : stream'[c][i] = stream[c][i]
      /\ Len(size'[c]) = k + 1 /\ size'[c][k + 1] = n
      /\ \A i \in 1..k : size'[c][i] = size[c][i]
  BY <1>2, <1>3, <1>4, WritesExtends DEF Extends
<1>6. InHand(c)' = InHand(c)
  BY <1>1 DEF InHand
<1>7. Echoed(c)'
  <2>1. /\ e <= w /\ \A i \in 1..e : echoes[c][i] = stream[c][i]
        /\ taken[c] = e + InHand(c)
    BY <1>1, <1>4 DEF EchoInv, Echoed
  <2>2. e <= w + n /\ \A i \in 1..e : i \in 1..w
    BY <2>1, <1>3
  <2>3. \A i \in 1..e : echoes[c][i] = stream'[c][i]
    BY <1>5, <2>1, <2>2
  <2> QED BY <1>1, <1>4, <1>5, <1>6, <2>1, <2>2, <2>3 DEF Echoed
<1>8. ASSUME UnitLines(c)' PROVE LineByLine(c)'
  <2>1. n = 1
    <3>2. \A i \in 1..k + 1 : size'[c][i] <= 1
      BY <1>5, <1>8 DEF UnitLines
    <3>3. k + 1 \in 1..k + 1
      OBVIOUS
    <3>1. n <= 1
      BY <1>5, <3>2, <3>3
    <3> QED BY <1>3, <3>1
  <2>2. UnitLines(c)
    <3>1. \A i \in 1..k : i \in 1..k + 1
      OBVIOUS
    <3> QED BY <1>4, <1>5, <1>8, <3>1 DEF UnitLines
  <2>3. w - e = 0 /\ pos[c] = Len(inbox[c])
    BY <1>1, <1>4, <2>2 DEF EchoInv, LineByLine, Unechoed
  <2>4. Unechoed(c)' = w + n - e
    BY <1>1, <1>4, <1>5 DEF Unechoed
  <2>5. w + n - e = 1 /\ 1 <= 1
    BY <2>1, <2>3
  <2>6. Unechoed(c)' <= 1
    BY <2>4, <2>5
  <2>7. ~(pos[c] < Len(inbox[c]))
    BY <2>3, Lengths
  <2> QED BY <1>1, <2>6, <2>7 DEF LineByLine
<1> QED BY <1>7, <1>8

LEMMA ReadKeepsEcho ==
  ASSUME TypeInv, EchoInv, NEW c \in Conn, ReadAnswer(c), prog = "echo",
         UNCHANGED <<prog, serverVars, taken, answerVars, short>>
  PROVE  Echoed(c)' /\ (UnitLines(c)' => LineByLine(c)')
<1> USE DEF TypeInv
<1>1. /\ UNCHANGED <<prog, at, cur, buf, taken, inbox, echoes, size, stream, peer>>
      /\ peer[c] = "open" /\ phase[c] = "waits" /\ phase'[c] = "ready"
      /\ pos[c] < Len(inbox[c]) /\ pos'[c] = Len(inbox[c])
  BY DEF ReadAnswer, serverVars, answerVars, TypeOK
<1>2. Echoed(c)' = Echoed(c) /\ UnitLines(c)' = UnitLines(c) /\ Unechoed(c)' = Unechoed(c)
  BY <1>1 DEF Echoed, UnitLines, Unechoed, InHand
<1>3. ASSUME UnitLines(c) PROVE LineByLine(c)'
  <2>1. Unechoed(c)' = 0 /\ 0 <= 1
    BY <1>1, <1>2, <1>3 DEF EchoInv, LineByLine
  <2> QED BY <1>1, <2>1 DEF LineByLine
<1> QED BY <1>2, <1>3 DEF EchoInv

\* A client that leaves has read every answer, or has echoes of all it wrote.
LEMMA LeaveKeepsEcho ==
  ASSUME TypeInv, ClientInv, EchoInv, NEW c \in Conn, Leave(c), prog = "echo",
         UNCHANGED <<prog, serverVars, taken, answerVars, short>>
  PROVE  Echoed(c)' /\ (UnitLines(c)' => LineByLine(c)')
<1> USE DEF TypeInv
<1>1. /\ UNCHANGED <<prog, at, cur, buf, taken, inbox, echoes, size, stream, phase, pos>>
      /\ peer[c] = "open"
      /\ IF pos[c] = Len(inbox[c]) THEN peer'[c] = "fin" ELSE peer'[c] \in {"reset", "poked"}
  <2>1. pos[c] <= Len(inbox[c]) /\ c \notin behind /\ pos[c] \in Nat /\ Len(inbox[c]) \in Nat
    BY Lengths DEF ClientInv
  <2>2. Closing(c) = IF pos[c] = Len(inbox[c]) THEN {"fin"} ELSE {"reset", "poked"}
    BY <2>1 DEF Closing
  <2> QED BY <2>2 DEF Leave, serverVars, answerVars, clientVars, TypeOK
<1>2. Echoed(c)' /\ UnitLines(c)' = UnitLines(c) /\ Unread(c)' = Unread(c)
  BY <1>1 DEF EchoInv, Echoed, UnitLines, Unread, InHand
<1>3. Unread(c) = Unechoed(c)
  <2>1. taken[c] = Len(echoes[c]) + InHand(c)
    BY <1>1 DEF EchoInv, Echoed
  <2>2. PICK t \in Nat, e \in Nat, w \in Nat, g \in Nat :
          t = taken[c] /\ e = Len(echoes[c]) /\ w = Len(stream[c]) /\ g = InHand(c)
    BY Lengths, HandType
  <2>3. w - t + g = w - e
    <3>1. t = e + g
      BY <2>1, <2>2
    <3> QED BY <3>1
  <2> QED BY <2>2, <2>3 DEF Unread, Unechoed
<1>4. ASSUME UnitLines(c) PROVE LineByLine(c)'
  <2>1. LineByLine(c)
    BY <1>4 DEF EchoInv
  <2>2. CASE pos[c] = Len(inbox[c])
    BY <1>1, <1>2, <1>3, <2>1, <2>2 DEF LineByLine
  <2>3. CASE pos[c] # Len(inbox[c])
    <3>1. pos[c] < Len(inbox[c])
      <4>1. pos[c] <= Len(inbox[c])
        BY DEF ClientInv
      <4> QED BY <4>1, <2>3, Lengths
    <3>2. Unechoed(c) = 0
      BY <1>1, <2>1, <2>3, <3>1 DEF LineByLine
    <3> QED BY <1>1, <1>2, <1>3, <2>3, <3>2 DEF LineByLine
  <2> QED BY <2>2, <2>3
<1> QED BY <1>2, <1>4

LEMMA ClientKeepsEcho ==
  ASSUME TypeInv, ClientInv, EchoInv, NEW c \in Conn, ClientStep(c),
         UNCHANGED <<prog, serverVars, taken, answerVars, short>>
  PROVE  EchoInv'
<1> USE DEF TypeInv
<1> SUFFICES ASSUME prog = "echo" PROVE EchoInv'
  BY DEF EchoInv
<1>1. UNCHANGED <<prog, proc, at, turn, cur, cnt, buf, taken, inbox, echoes, short>>
  BY ClientLocal
<1>2. ASSUME NEW d \in Conn,
             size'[d] = size[d], stream'[d] = stream[d], phase'[d] = phase[d], pos'[d] = pos[d],
             \/ peer'[d] = peer[d]
             \/ peer[d] \in {"poked", "reset"} /\ peer'[d] = "rst"
             \/ peer[d] = "new" /\ peer'[d] = "open"
      PROVE  Echoed(d)' /\ (UnitLines(d)' => LineByLine(d)')
  <2>1. PICK g \in Nat : g = InHand(d) /\ g = InHand(d)'
    BY <1>1, HandType DEF InHand
  <2>2. PICK t \in Nat : t = taken[d] /\ t = taken'[d]
    BY <1>1, Lengths
  <2>3. t = t + g - g
    OBVIOUS
  <2>4. Echoed(d) /\ (UnitLines(d) => LineByLine(d))
    BY DEF EchoInv
  <2> QED BY <1>1, <1>2, <2>1, <2>2, <2>3, <2>4, SameEcho
<1>3. ASSUME NEW d \in Conn PROVE Echoed(d)' /\ (UnitLines(d)' => LineByLine(d)')
  <2>1. CASE d # c
    BY <1>2, <2>1, ClientLocal
  <2>2. CASE d = c /\ (Connect(c) \/ ResetArrives(c))
    <3>1. UNCHANGED <<size, stream, phase, pos>>
      BY <2>2 DEF Connect, ResetArrives, clientVars
    <3>2. \/ peer[c] = "poked" /\ peer'[c] = "rst"
          \/ peer[c] = "new" /\ peer'[c] = "open"
      BY <2>2 DEF Connect, ResetArrives, TypeOK
    <3> QED BY <1>2, <2>2, <3>1, <3>2
  <2>3. ~AskStop(c) /\ ~ReadLeftover(c)
    BY DEF AskStop, ReadLeftover, ClientInv
  <2> QED BY <2>1, <2>2, <2>3, AskKeepsEcho, ReadKeepsEcho, LeaveKeepsEcho DEF ClientStep
<1>4. at = "body" => buf = <<>>
  BY DEF EchoInv
<1>5. ASSUME proc = "up", at = "answer"
      PROVE  /\ Len(buf) > 0 /\ Len(buf) <= taken[cur]
             /\ \A i \in 1..Len(buf) : buf[i] = stream'[cur][taken[cur] - Len(buf) + i]
  <2>1. cur \in Conn
    BY <1>5 DEF Place, Accepted
  <2>2. PICK b \in Nat, t \in Nat, w \in Nat : b = Len(buf) /\ t = taken[cur] /\ w = Len(stream[cur])
    BY <2>1, Lengths
  <2>3. /\ b > 0 /\ b <= t /\ t <= w
        /\ \A i \in 1..b : buf[i] = stream[cur][t - b + i]
    BY <1>5, <2>1, <2>2 DEF EchoInv, Written
  <2>4. \A j \in 1..w : stream'[cur][j] = stream[cur][j]
    BY <2>1, <2>2, ClientWrites, ClientLocal, WritesExtends, CountsNat DEF Extends
  <2>5. \A i \in 1..b : t - b + i \in 1..w
    BY <2>3
  <2>6. \A i \in 1..b : buf[i] = stream'[cur][t - b + i]
    BY <2>3, <2>4, <2>5
  <2> QED BY <2>2, <2>3, <2>6
<1> QED BY <1>1, <1>3, <1>4, <1>5 DEF EchoInv

LEMMA InitEcho == Init => EchoInv
<1> SUFFICES ASSUME Init PROVE EchoInv
  OBVIOUS
<1>1. at = "accept"
  BY DEF Init
<1>2. ASSUME NEW c \in Conn PROVE Echoed(c) /\ LineByLine(c)
  <2>1. /\ stream[c] = <<>> /\ echoes[c] = <<>> /\ inbox[c] = <<>> /\ pos[c] = 0 /\ taken[c] = 0
        /\ phase[c] = "ready" /\ peer[c] = "new"
    BY DEF Init
  <2>2. Len(stream[c]) = 0 /\ Len(echoes[c]) = 0 /\ Len(inbox[c]) = 0 /\ InHand(c) = 0
    BY <1>1, <2>1 DEF InHand
  <2>3. Unechoed(c) = 0
    BY <2>2 DEF Unechoed
  <2> QED BY <2>1, <2>2, <2>3 DEF Echoed, LineByLine
<1> QED BY <1>1, <1>2 DEF EchoInv

LEMMA StutterKeepsEcho == EchoInv /\ UNCHANGED vars => EchoInv'
<1> SUFFICES ASSUME EchoInv, UNCHANGED vars PROVE EchoInv'
  OBVIOUS
<1> USE DEF vars, serverVars, clientVars, wireVars, answerVars
<1>1. \A c \in Conn : InHand(c)' = InHand(c)
  BY DEF InHand
<1>2. \A c \in Conn : Echoed(c)' = Echoed(c) /\ LineByLine(c)' = LineByLine(c) /\ UnitLines(c)' = UnitLines(c)
  BY <1>1 DEF Echoed, LineByLine, Unechoed, Unread, UnitLines
<1> QED BY <1>2 DEF EchoInv

LEMMA NextEcho == TypeInv /\ ClientInv /\ EchoInv /\ [Next]_vars => EchoInv'
<1> SUFFICES ASSUME TypeInv, ClientInv, EchoInv, [Next]_vars PROVE EchoInv'
  OBVIOUS
<1>1. CASE prog = "echo"
  <2>1. ASSUME proc = "up", UNCHANGED <<prog, clientVars>>,
               Accept \/ ReadHead \/ ReadBody \/ BodyComplete \/ WriteAnswer
        PROVE  EchoInv'
    BY <1>1, <2>1, NoLoops, AcceptKeepsEcho, ReadBodyKeepsEcho, WriteKeepsEcho
  <2> QED BY <2>1, NextSplit, StutterKeepsEcho, ClientKeepsEcho
<1>2. CASE prog # "echo"
  <2>1. prog' = prog
    BY NextSplit DEF vars
  <2> QED BY <1>2, <2>1 DEF EchoInv
<1> QED BY <1>1, <1>2-----------------------------------------------------------------------------
(* The invariant, and whose units the answers are made of. *)

ServingInv == TypeInv /\ ClientInv /\ SingleInv /\ ArrayInv /\ StringInv /\ EchoInv

LEMMA ServingInvariant == Spec => []ServingInv
<1>1. Init => ServingInv
  BY InitType, InitClients, InitSingle, InitString, InitEcho DEF ServingInv
<1>2. ServingInv /\ [Next]_vars => ServingInv'
  BY NextType, NextClients, NextSingle, NextString, NextEcho DEF ServingInv
<1> QED BY <1>1, <1>2, PTL DEF Spec

LEMMA PrefixIs ==
  ASSUME NEW S, NEW s \in Seq(S), NEW t \in Seq(S), Len(s) <= Len(t),
         \A i \in 1..Len(s) : s[i] = t[i]
  PROVE  IsPrefix(s, t)
<1>1. PICK n \in Nat : n = Len(s)
  BY LenProperties
<1>2. 0 \in Nat /\ 0 + n = n /\ 0 + 1 = 1 /\ 0 + n <= Len(s) /\ 0 + n <= Len(t)
      /\ \A i \in 1..n : 0 + i = i
  BY <1>1
<1>3. /\ SubSeq(s, 0 + 1, 0 + n) \in Seq(S) /\ Len(SubSeq(s, 0 + 1, 0 + n)) = n
      /\ \A i \in 1..n : SubSeq(s, 0 + 1, 0 + n)[i] = s[0 + i]
  BY <1>1, <1>2, Piece
<1>4. /\ SubSeq(t, 0 + 1, 0 + n) \in Seq(S) /\ Len(SubSeq(t, 0 + 1, 0 + n)) = n
      /\ \A i \in 1..n : SubSeq(t, 0 + 1, 0 + n)[i] = t[0 + i]
  BY <1>1, <1>2, Piece
<1>5. PICK a \in Seq(S), b \in Seq(S) : a = SubSeq(s, 1, n) /\ b = SubSeq(t, 1, n)
  BY <1>2, <1>3, <1>4
<1>6. Len(a) = n /\ Len(b) = n /\ \A i \in 1..n : a[i] = s[i] /\ b[i] = t[i]
  BY <1>2, <1>3, <1>4, <1>5
<1>7. a = b
  BY <1>1, <1>6, SeqEqual
<1> QED BY <1>1, <1>5, <1>7 DEF IsPrefix

\* An answer of calc is the operands and the operator it was sent.
LEMMA CalcAnswer ==
  ASSUME TypeInv, ClientInv, SingleInv, at = "answer", proc = "up", prog = "calc"
  PROVE  /\ Len(inbox[cur]) = 0 /\ Len(size[cur]) = 1
         /\ Reply = Body(cur, 1) \/ size[cur][1] = 0
<1> USE DEF TypeInv
<1>1. /\ cur \in Conn /\ inbox[cur] = <<>> /\ CalcRead /\ Len(buf) = cnt + 1
  BY DEF SingleInv, Place, Accepted
<1>2. Len(size[cur]) = 1 /\ cnt = size[cur][1] /\ taken[cur] = 1 + Len(buf)
      /\ \A i \in 1..Len(buf) : buf[i] = stream[cur][1 + i]
  BY <1>1 DEF CalcRead
<1>3. ASSUME cnt # 0 PROVE Reply = Body(cur, 1)
  <2>1. PICK m \in Nat : m = cnt /\ m > 0
    BY <1>3 DEF TypeOK
  <2>2. PICK b \in Seq(Unit) : b = buf /\ Len(b) = m + 1
    BY <1>1, <2>1 DEF TypeOK
  <2>3. 0 + m <= Len(b) /\ 0 + m = m /\ 0 + 1 = 1 /\ 0 \in Nat /\ \A i \in 1..m : 0 + i = i
    BY <2>1, <2>2
  <2>4. PICK s \in Seq(Unit) : s = SubSeq(b, 1, m) /\ Len(s) = m /\ \A i \in 1..m : s[i] = b[i]
    <3>1. /\ SubSeq(b, 0 + 1, 0 + m) \in Seq(Unit) /\ Len(SubSeq(b, 0 + 1, 0 + m)) = m
          /\ \A i \in 1..m : SubSeq(b, 0 + 1, 0 + m)[i] = b[0 + i]
      BY <2>3, Piece
    <3> QED BY <2>3, <3>1
  <2>5. b[m + 1] \in Unit
    <3>1. b \in Seq(Unit) /\ m + 1 \in 1..Len(b)
      BY <2>2
    <3> QED BY <3>1, ElementOfSeq
  <2>6. /\ Append(s, b[m + 1]) \in Seq(Unit) /\ Len(Append(s, b[m + 1])) = m + 1
        /\ \A i \in 1..m : Append(s, b[m + 1])[i] = b[i]
        /\ Append(s, b[m + 1])[m + 1] = b[m + 1]
    BY <2>4, <2>5, AppendProperties
  <2>7. Append(s, b[m + 1]) = b
    <3>1. \A i \in 1..m + 1 : i \in 1..m \/ i = m + 1
      OBVIOUS
    <3>2. \A i \in 1..m + 1 : Append(s, b[m + 1])[i] = b[i]
      BY <2>6, <3>1
    <3> QED BY <2>2, <2>6, <3>2, SeqEqual
  <2>8. Reply = b
    <3>1. Result = Append(SubSeq(buf, 1, cnt), buf[Len(buf)])
      BY <1>3 DEF Result
    <3> QED BY <2>1, <2>2, <2>4, <2>7, <3>1 DEF Reply
  <2>9. ASSUME NEW i \in 1..m + 1 PROVE b[i] = [by |-> cur, frame |-> 1, part |-> i]
    <3>1. HeadLen = 1 /\ LastFrame(cur)
      BY <1>1 DEF HeadLen, ClientInv
    <3>2. PICK j \in Nat : j = 1 + i
      OBVIOUS
    <3>3. j \in 1..Len(stream[cur]) /\ j - 1 = i
      <4>1. 1 + (m + 1) <= Len(stream[cur])
        BY <1>1, <1>2, <2>1, <2>2 DEF Written
      <4> QED BY <1>1, <3>2, <4>1, Lengths
    <3>4. stream[cur][j] = [by |-> cur, frame |-> 1, part |-> j - HeadLen]
      BY <1>1, <1>2, <3>1, <3>3, FirstFrame
    <3>5. b[i] = stream[cur][j]
      BY <1>2, <2>2, <3>2
    <3> QED BY <3>1, <3>3, <3>4, <3>5
  <2>10. b = [i \in 1..m + 1 |-> [by |-> cur, frame |-> 1, part |-> i]]
    <3>1. DOMAIN b = 1..m + 1 /\ b \in [1..m + 1 -> Unit]
      BY <2>2, LenProperties
    <3> QED BY <2>9, <3>1
  <2>11. BodyLen(size[cur][1]) = m + 1
    BY <1>2, <2>1 DEF BodyLen
  <2> QED BY <2>8, <2>10, <2>11 DEF Body
<1> QED BY <1>1, <1>2, <1>3

\* The answer the server is about to write.
LEMMA OwnAnswer ==
  ASSUME ServingInv, at = "answer", proc = "up", prog # "echo", peer[cur] = "open",
         cur \notin short, cur \notin behind,
         NEW b \in Nat, b = Len(inbox[cur])
  PROVE  /\ b + 1 <= Len(size[cur])
         /\ \/ Reply = Body(cur, b + 1)
            \/ prog = "calc" /\ size[cur][b + 1] = 0
<1> USE DEF ServingInv, TypeInv
<1>1. cur \in Conn
  BY DEF Place, Accepted
<1>2. CASE prog = "calc"
  <2>1. b = 0 /\ Len(size[cur]) = 1 /\ (Reply = Body(cur, 1) \/ size[cur][1] = 0)
    BY <1>2, CalcAnswer
  <2>2. b + 1 = 1
    BY <2>1
  <2> QED BY <1>2, <2>1, <2>2
<1>3. CASE prog = "kakao"
  <2>1. inbox[cur] = <<>> /\ KakaoRead
    BY <1>3 DEF SingleInv
  <2>2. b = 0 /\ b + 1 = 1
    BY <2>1
  <2>3. Len(size[cur]) = 1 /\ Reply = Body(cur, 1)
    BY <1>3, <2>1 DEF KakaoRead, Gone, Reply
  <2> QED BY <2>2, <2>3
<1>4. CASE prog = "string"
  <2>1. b = turn /\ Len(size[cur]) = turn + 1 /\ buf = Body(cur, turn + 1)
    BY <1>4, StringAnswer
  <2> QED BY <1>1, <1>4, <2>1, Lengths DEF Reply
<1> QED BY <1>2, <1>3, <1>4, NoLoops

\* The answers written to a client: each is the body of its frame.
Answered(c) ==
  \A k \in 1..Len(inbox[c]) :
    /\ k <= Len(size[c])
    /\ inbox[c][k] = Body(c, k) \/ (prog = "calc" /\ size[c][k] = 0)

OwnInv == prog # "echo" => \A c \in Conn \ (short \cup behind) : Answered(c)

\* Frames that are written stay as they are, so do answers.
LEMMA StillAnswered ==
  ASSUME TypeOK, NEW c \in Conn, Answered(c), prog' = prog, inbox'[c] = inbox[c],
         Len(size[c]) <= Len(size'[c]), Len(size'[c]) \in Nat,
         \A k \in 1..Len(size[c]) : size'[c][k] = size[c][k]
  PROVE  Answered(c)'
<1>1. PICK b \in Nat, n \in Nat : b = Len(inbox[c]) /\ n = Len(size[c])
  BY Lengths
<1>2. ASSUME NEW k \in 1..b
      PROVE  /\ k <= Len(size'[c])
             /\ inbox'[c][k] = Body(c, k)' \/ (prog' = "calc" /\ size'[c][k] = 0)
  <2>1. k <= n /\ (inbox[c][k] = Body(c, k) \/ (prog = "calc" /\ size[c][k] = 0))
    BY <1>1 DEF Answered
  <2>2. k \in 1..n
    BY <2>1
  <2>3. size'[c][k] = size[c][k]
    BY <1>1, <2>2
  <2>4. Body(c, k)' = Body(c, k)
    BY <2>3 DEF Body, BodyLen
  <2>5. k <= Len(size'[c])
    BY <1>1, <2>1
  <2> QED BY <2>1, <2>3, <2>4, <2>5
<1> QED BY <1>1, <1>2 DEF Answered

LEMMA InitOwn == Init => OwnInv
<1> SUFFICES ASSUME Init, NEW c \in Conn PROVE Answered(c)
  BY DEF OwnInv
<1>1. Len(inbox[c]) = 0
  <2>1. inbox[c] = <<>>
    BY DEF Init
  <2> QED BY <2>1
<1> QED BY <1>1 DEF Answered

LEMMA ServerKeepsOwn ==
  ASSUME ServingInv, OwnInv, ServerStep, proc = "up", UNCHANGED <<prog, clientVars>>
  PROVE  OwnInv'
<1> USE DEF ServingInv, TypeInv
<1> SUFFICES ASSUME prog # "echo", NEW c \in Conn, c \notin short', c \notin behind'
             PROVE  Answered(c)'
  BY DEF OwnInv
<1>1. UNCHANGED <<prog, size>> /\ c \notin short /\ c \notin behind
  BY DEF clientVars, ServerStep, Accept, ReadHead, ReadBody, BodyComplete, WriteAnswer
<1>2. Answered(c)
  BY <1>1 DEF OwnInv
<1>3. CASE inbox'[c] = inbox[c]
  BY <1>1, <1>2, <1>3, StillAnswered, Lengths
<1>4. CASE inbox'[c] # inbox[c]
  <2>1. /\ WriteAnswer /\ at = "answer" /\ Answers /\ peer[cur] = "open" /\ c = cur
    BY <1>4, ServerLocal DEF ServerStep, Accept, ReadHead, ReadBody, BodyComplete, WriteAnswer, answerVars
  <2>2. PICK b \in Nat : b = Len(inbox[cur])
    BY <2>1, Lengths
  <2>3. /\ Len(inbox'[cur]) = b + 1 /\ inbox'[cur][b + 1] = Reply
        /\ \A k \in 1..b : inbox'[cur][k] = inbox[cur][k]
    BY <2>1, <2>2, AnswersType
  <2>4. /\ b + 1 <= Len(size[cur])
        /\ Reply = Body(cur, b + 1) \/ (prog = "calc" /\ size[cur][b + 1] = 0)
    BY <1>1, <2>1, <2>2, OwnAnswer
  <2>5. ASSUME NEW k \in 1..b + 1
        PROVE  /\ k <= Len(size[c])
               /\ inbox'[c][k] = Body(c, k) \/ (prog = "calc" /\ size[c][k] = 0)
    <3>1. CASE k = b + 1
      BY <2>1, <2>3, <2>4, <3>1
    <3>2. CASE k # b + 1
      <4>1. k \in 1..b
        BY <3>2
      <4> QED BY <1>2, <2>1, <2>2, <2>3, <4>1 DEF Answered
    <3> QED BY <3>1, <3>2
  <2>6. ASSUME NEW k \in 1..b + 1 PROVE Body(c, k)' = Body(c, k)
    BY <1>1 DEF Body, BodyLen
  <2> QED BY <1>1, <2>1, <2>3, <2>5, <2>6 DEF Answered
<1> QED BY <1>3, <1>4

LEMMA ClientKeepsOwn ==
  ASSUME ServingInv, OwnInv, NEW c \in Conn, ClientStep(c),
         UNCHANGED <<prog, serverVars, taken, answerVars, short>>
  PROVE  OwnInv'
<1> USE DEF ServingInv, TypeInv
<1>1. UNCHANGED <<prog, inbox, short>>
  BY ClientLocal
<1> SUFFICES ASSUME prog # "echo", NEW d \in Conn, d \notin short, d \notin behind
             PROVE  Answered(d)'
  BY <1>1, ClientLocal DEF OwnInv
<1>2. /\ Len(size[d]) <= Len(size'[d]) /\ Len(size'[d]) \in Nat
      /\ \A k \in 1..Len(size[d]) : size'[d][k] = size[d][k]
  <2>1. CASE size'[d] = size[d]
    BY <2>1, Lengths
  <2>2. CASE \E n \in Counts : Writes(c, n) /\ d = c
    <3>1. /\ Len(size'[d]) = Len(size[d]) + 1
          /\ \A k \in 1..Len(size[d]) : size'[d][k] = size[d][k]
      BY <2>2, WritesExtends, CountsNat DEF Extends
    <3> QED BY <3>1, Lengths
  <2> QED BY <2>1, <2>2, ClientWrites, ClientLocal
<1>3. Answered(d)
  BY DEF OwnInv
<1> QED BY <1>1, <1>2, <1>3, StillAnswered

LEMMA NextOwn == ServingInv /\ OwnInv /\ [Next]_vars => OwnInv'
<1> SUFFICES ASSUME ServingInv, OwnInv, [Next]_vars PROVE OwnInv'
  OBVIOUS
<1>1. CASE UNCHANGED vars
  <2> USE <1>1 DEF vars, serverVars, clientVars, wireVars, answerVars
  <2>1. \A c \in Conn : Answered(c)' = Answered(c)
    BY DEF Answered, Body, BodyLen
  <2> QED BY <2>1 DEF OwnInv
<1> QED BY <1>1, NextSplit, ServerKeepsOwn, ClientKeepsOwn DEF ServerStep

\* What a server sends to a client is what that client wrote, each answer of
\* one frame and in the order of the frames, in however many pieces the reads
\* took it: always in the calculator, in string and kakao as long as no read of
\* the client's frame, or of its answer by itself, took only a part of a length
\* or of the numbers; and the echo is a prefix of what was written.
THEOREM AnswersStayOwn == Spec => []AnswersAreOwn
<1>1. Init => OwnInv
  BY InitOwn
<1>2. ServingInv /\ OwnInv /\ [Next]_vars => OwnInv'
  BY NextOwn
<1>3. ServingInv /\ OwnInv => AnswersAreOwn
  <2> SUFFICES ASSUME ServingInv, OwnInv, NEW c \in Conn \ (short \cup behind)
               PROVE  IF prog = "echo" THEN IsPrefix(echoes[c], stream[c])
                      ELSE \A k \in 1..Len(inbox[c]) :
                             /\ k <= Len(size[c])
                             /\ \/ inbox[c][k] = Body(c, k)
                                \/ prog = "calc" /\ size[c][k] = 0
    BY DEF AnswersAreOwn
  <2>1. CASE prog = "echo"
    <3>1. echoes[c] \in Seq(Unit) /\ stream[c] \in Seq(Unit)
      BY DEF ServingInv, TypeInv, TypeOK
    <3>2. Len(echoes[c]) <= Len(stream[c]) /\ \A i \in 1..Len(echoes[c]) : echoes[c][i] = stream[c][i]
      BY <2>1 DEF ServingInv, EchoInv, Echoed
    <3> QED BY <2>1, <3>1, <3>2, PrefixIs
  <2>2. CASE prog # "echo"
    BY <2>2 DEF OwnInv, Answered
  <2> QED BY <2>1, <2>2
<1> QED BY <1>1, <1>2, <1>3, ServingInvariant, PTL DEF Spec
-----------------------------------------------------------------------------
(* What ends each server. *)

\* The calculator ends when its turns are served, or never does.
LEMMA CalcEnds ==
  ASSUME ServingInv, ServerStep, proc = "up", UNCHANGED <<prog, clientVars>>, prog = "calc"
  PROVE  \/ proc' = "up"
         \/ proc' = "spins" /\ Gone(cur)' /\ size'[cur'] = <<>>
         \/ proc' = "done" /\ turn' = Turns
<1> USE DEF ServingInv
<1>1. CASE WriteAnswer
  <2>1. proc' # "killed" /\ ~Stopped
    BY <1>1, WriteKeepsSingle DEF Stopped
  <2>2. Onward => proc' = "up" \/ (proc' = "done" /\ turn' = Turns)
    BY DEF Onward, NextClient
  <2> QED BY <1>1, <2>1, <2>2, WriteCases
<1>2. CASE Accept \/ BodyComplete
  BY <1>2 DEF Accept, BodyComplete
<1>3. CASE ReadHead \/ ReadBody
  BY <1>3, ReadHeadKeepsSingle, ReadBodyKeepsCalc
<1> QED BY <1>1, <1>2, <1>3 DEF ServerStep

\* kakao ends when a client has written -1, or when one left without its numbers
\* being read and the halvings of another's had come to -1.
LEMMA KakaoEnds ==
  ASSUME ServingInv, ServerStep, proc = "up", UNCHANGED <<prog, clientVars>>, prog = "kakao"
  PROVE  \/ proc' = "up"
         \/ proc' = "done" /\ first'[cur'] = 1
         \/ /\ proc' = "done" /\ Gone(cur)' /\ taken'[cur'] = 0
            /\ \E c \in Conn \ {cur'} : first'[c] > 1
<1> USE DEF ServingInv
<1>1. CASE WriteAnswer
  <2>1. proc' # "killed" /\ UNCHANGED <<taken, first>>
    BY <1>1, WriteKeepsSingle DEF clientVars, WriteAnswer
  <2>2. Onward => proc' = "up"
    BY DEF Onward, NextClient
  <2>3. CASE Stopped
    <3>1. at = "answer" /\ kept = 1 /\ proc' = "done" /\ UNCHANGED <<cur, peer>>
      BY <1>1, <2>3, WriteCases DEF Stopped
    <3>2. CASE kept = first[cur] /\ taken[cur] > 0
      BY <2>1, <3>1, <3>2
    <3>3. CASE Gone(cur) /\ taken[cur] = 0 /\ Leftover
      <4>1. PICK c \in Conn : taken[c] > 0 /\ first[c] > 1
        BY <3>1, <3>3 DEF Leftover
      <4>2. c # cur
        BY <3>3, <4>1
      <4> QED BY <2>1, <3>1, <3>3, <4>1, <4>2 DEF Gone
    <3> QED BY <3>1, <3>2, <3>3 DEF ArrayInv
  <2> QED BY <1>1, <2>1, <2>2, <2>3, WriteCases
<1>2. CASE Accept
  BY <1>2 DEF Accept
<1>3. CASE ReadBody
  BY <1>3, ReadBodyKeepsKakao
<1> QED BY <1>1, <1>2, <1>3, NoLoops DEF ServerStep

LEMMA StringEnds ==
  ASSUME ServingInv, ServerStep, proc = "up", UNCHANGED <<prog, clientVars>>, prog = "string"
  PROVE  \/ proc' = "up"
         \/ proc' = "lost" /\ cur' \in short'
         \/ proc' = "done" /\ turn' = Rounds
         \/ proc' = "killed" /\ Gone(cur)' /\ Len(size'[cur']) < Rounds
         \/ cur' \in behind'
<1> USE DEF ServingInv
<1>1. CASE Accept \/ BodyComplete
  BY <1>1 DEF Accept, BodyComplete
<1>2. CASE ReadHead \/ ReadBody \/ WriteAnswer
  <2>1. at # "accept"
    BY <1>2 DEF ReadHead, ReadBody, WriteAnswer
  <2>2. CASE cur \in behind
    BY <2>1, <2>2, BehindKeepsString
  <2>3. CASE cur \notin behind
    BY <1>2, <2>3, ReadHeadKeepsString, ReadBodyKeepsString, WriteKeepsString
  <2> QED BY <2>2, <2>3
<1> QED BY <1>1, <1>2 DEF ServerStep

LEMMA EchoEnds ==
  ASSUME ServingInv, ServerStep, proc = "up", UNCHANGED <<prog, clientVars>>, prog = "echo"
  PROVE  \/ proc' = "up"
         \/ proc' = "done" /\ turn' = Turns
         \/ /\ proc' = "killed" /\ Gone(cur)'
            /\ \E k \in 1..Len(size'[cur']) : size'[cur'][k] > 1
BY AcceptKeepsEcho, ReadBodyKeepsEcho, WriteKeepsEcho, NoLoops DEF ServingInv, ServerStep

\* The calculator loops for ever once a client left before it wrote, and never
\* takes its exit after a failed read; string is killed by a write only if its
\* client left before the last round, echo only if its client left with a line
\* of several units written; the place in a stream is lost only where a length
\* was read in pieces; and a server that is done has served all its turns, or
\* is kakao and has read the -1 of a client, or took for one what the halvings
\* left of another client's number when nothing was read of the one it serves.
\* Nothing is claimed of a client of string that lost its own place.
THEOREM OnlyForACause == Spec => []EndsForACause
<1>1. Init => EndsForACause
  BY DEF Init, EndsForACause
<1>2. ServingInv /\ EndsForACause /\ [Next]_vars => EndsForACause'
  <2> SUFFICES ASSUME ServingInv, EndsForACause, [Next]_vars PROVE EndsForACause'
    OBVIOUS
  <2>1. CASE UNCHANGED vars
    <3> USE <2>1 DEF vars, serverVars, clientVars, wireVars
    <3>1. Gone(cur)' = Gone(cur)
      BY DEF Gone
    <3> QED BY <3>1 DEF EndsForACause
  <2>2. CASE proc' = "up"
    BY <2>2 DEF EndsForACause
  <2>3. ASSUME proc = "up", UNCHANGED <<prog, clientVars>>, ServerStep PROVE EndsForACause'
    <3>1. CASE prog = "calc"
      BY <2>3, <3>1, CalcEnds DEF EndsForACause
    <3>2. CASE prog = "kakao"
      BY <2>3, <3>2, KakaoEnds DEF EndsForACause
    <3>3. CASE prog = "string"
      BY <2>3, <3>3, StringEnds DEF EndsForACause
    <3>4. CASE prog = "echo"
      BY <2>3, <3>4, EchoEnds DEF EndsForACause
    <3> QED BY <3>1, <3>2, <3>3, <3>4, NoLoops DEF ServingInv
  <2> QED BY <2>1, <2>2, <2>3, NextSplit DEF ServerStep, serverVars
<1> QED BY <1>1, <1>2, ServingInvariant, PTL DEF Spec
=============================================================================
