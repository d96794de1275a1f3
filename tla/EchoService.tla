---------------------------- MODULE EchoService ----------------------------
(***************************************************************************)
(* What an echo server promises, whatever it waits with: every client is   *)
(* sent the pieces it wrote, each once, in order, and nothing else.        *)
(***************************************************************************)
EXTENDS Naturals, Sequences

CONSTANTS Conn   \* connections

VARIABLES
  sent,   \* how many pieces each client has written
  echoed  \* the pieces each client was sent

Init ==
  /\ sent = [c \in Conn |-> 0]
  /\ echoed = [c \in Conn |-> <<>>]

Write(c) ==
  /\ sent'[c] > sent[c]
  /\ sent' = [sent EXCEPT ![c] = sent'[c]]
  /\ UNCHANGED echoed

Echo(c) ==
  /\ Len(echoed[c]) < sent[c]
  /\ echoed' = [echoed EXCEPT ![c] = Append(@, [from |-> c, n |-> Len(@) + 1])]
  /\ UNCHANGED sent

Next == \E c \in Conn : Write(c) \/ Echo(c)

Spec == Init /\ [][Next]_<<sent, echoed>>
=============================================================================
