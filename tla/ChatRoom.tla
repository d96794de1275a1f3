------------------------------ MODULE ChatRoom ------------------------------
(***************************************************************************)
(* What a chat server promises (ch18/chat_sserv.c: "send to all", "remove  *)
(* disconnected client"): a room whose members hear everything said in it, *)
(* one message at a time, each speaker's messages once and in order.  Only *)
(* a member who has hung up may miss something.                            *)
(***************************************************************************)
EXTENDS Naturals, Sequences, FiniteSets

CONSTANT Member

VARIABLES
  room,   \* the members present
  gone,   \* those who have hung up
  said,   \* everything said, in order
  heard,  \* what each member has heard, in order
  owed    \* who has yet to hear the last message said

vars == <<room, gone, said, heard, owed>>

Init ==
  /\ room = {}
  /\ gone = {}
  /\ said = <<>>
  /\ heard = [m \in Member |-> <<>>]
  /\ owed = {}

HangUp(m) ==
  /\ gone' = gone \cup {m}
  /\ UNCHANGED <<room, said, heard, owed>>

\* Nobody joins or leaves in the middle of a message.
Join(m) ==
  /\ owed = {}
  /\ m \notin room
  /\ room' = room \cup {m}
  /\ UNCHANGED <<gone, said, heard, owed>>

Leave(m) ==
  /\ owed = {}
  /\ m \in room \cap gone
  /\ room' = room \ {m}
  /\ UNCHANGED <<gone, said, heard, owed>>

SaidBy(m) == {k \in 1..Len(said) : said[k].from = m}

\* A message is the next of its speaker, and nobody has missed the last one.
Say(m) ==
  /\ m \in room
  /\ owed = {}
  /\ said' = Append(said, [from |-> m, n |-> Cardinality(SaidBy(m)) + 1])
  /\ owed' = room \ {m}
  /\ UNCHANGED <<room, gone, heard>>

Hear(m) ==
  /\ m \in owed \ gone
  /\ heard' = [heard EXCEPT ![m] = Append(@, said[Len(said)])]
  /\ owed' = owed \ {m}
  /\ UNCHANGED <<room, gone, said>>

Miss(m) ==
  /\ m \in owed \cap gone
  /\ owed' = owed \ {m}
  /\ UNCHANGED <<room, gone, said, heard>>

Next == \E m \in Member : \/ HangUp(m) \/ Join(m) \/ Leave(m) \/ Say(m)
                          \/ Hear(m) \/ Miss(m)

Spec == Init /\ [][Next]_vars
=============================================================================
