---------------------------- MODULE ChatServer -----------------------------
(***************************************************************************)
(* ch18/chat_sserv.c (ch18/sn1122.c is the same program): the broadcast    *)
(* chat server.  The main thread accepts a client, enters its descriptor   *)
(* in clnt_socks and starts a thread for it; the thread relays what its    *)
(* client writes to every other entry of clnt_socks, under mutx.           *)
(*                                                                         *)
(* main passes the thread the ADDRESS of its own variable clnt_sock, which *)
(* the next accept overwrites: Spec lets a thread read it at any time      *)
(* after pthread_create.  SpacedSpec is Spec with the timing the code      *)
(* silently relies on, that a thread has copied its argument before the    *)
(* next accept returns.                                                    *)
(***************************************************************************)
EXTENDS Sockets, FiniteSets

CONSTANTS Thread, NoThread, MAX_CLNT

ASSUME ChatServerAssumption ==
  /\ IsFiniteSet(Thread)
  /\ NoThread \notin Thread
  /\ MAX_CLNT \in Nat

VARIABLES
  proc,        \* "up", "killed" by SIGPIPE, or "overrun": clnt_socks is full
  mpc,         \* main: in "accept", about to "enlist", about to "spawn"
  clnt_sock,   \* main's variable, which the threads are given the address of
  clnt_socks,  \* the array; its entries from clnt_cnt on are leftovers
  clnt_cnt,
  mutx,        \* the thread that holds the mutex across its steps
  tpc,         \* what a thread is about to do
  tfd,         \* its local clnt_sock
  tsrc,        \* the connection its read is blocked on
  tmsg,        \* the message it relays
  ti,          \* the index of its loop over clnt_socks
  order        \* history: the messages in the order their relays locked mutx

mainVars == <<mpc, clnt_sock>>
listVars == <<clnt_socks, clnt_cnt>>
threadVars == <<tpc, tfd, tsrc, tmsg, ti>>
vars == <<sockVars, proc, mainVars, listVars, mutx, threadVars, order>>

Index == 0..(MAX_CLNT - 1)

\* What send_msg is given when read returned -1: a write of it is refused.
NoMsg == [from |-> NoConn, n |-> 0]

ThreadPc == {"none", "start", "call", "recv", "lock", "send", "unlist",
             "close", "done"}

\* Threads that exist and have not yet counted their client off.
Counted == {t \in Thread : tpc[t] \in {"start", "call", "recv", "lock",
                                       "send", "unlist"}}

TypeOK ==
  /\ SockTypeOK
  /\ proc \in {"up", "killed", "overrun"}
  /\ mpc \in {"accept", "enlist", "spawn"}
  /\ clnt_sock \in Fd \cup {NoFd}
  /\ clnt_socks \in [Index -> Fd \cup {NoFd}]
  /\ clnt_cnt \in 0..MAX_CLNT
  /\ mutx \in Thread \cup {NoThread}
  /\ tpc \in [Thread -> ThreadPc]
  /\ tfd \in [Thread -> Fd \cup {NoFd}]
  /\ tsrc \in [Thread -> Conn \cup {NoConn}]
  /\ tmsg \in [Thread -> Msg \cup {NoMsg}]
  /\ ti \in [Thread -> 0..MAX_CLNT]
  /\ order \in Seq(Msg)

Init ==
  /\ SockInit
  /\ proc = "up"
  /\ mpc = "accept"
  /\ clnt_sock = NoFd
  /\ clnt_socks = [i \in Index |-> NoFd]
  /\ clnt_cnt = 0
  /\ mutx = NoThread
  /\ tpc = [t \in Thread |-> "none"]
  /\ tfd = [t \in Thread |-> NoFd]
  /\ tsrc = [t \in Thread |-> NoConn]
  /\ tmsg = [t \in Thread |-> NoMsg]
  /\ ti = [t \in Thread |-> 0]
  /\ order = <<>>

Goto(t, pc) == tpc' = [tpc EXCEPT ![t] = pc]

-----------------------------------------------------------------------------
(* The main thread. *)

\* accept returns a client, or -1 at once when no descriptor is free; the
\* result is not looked at.  Bound: main goes on while a thread is left.
Accept ==
  /\ mpc = "accept"
  /\ \E t \in Thread : tpc[t] = "none"
  /\ \/ \E c \in Conn, f \in Fd : AcceptAs(c, f) /\ clnt_sock' = f
     \/ FreeFds = {} /\ clnt_sock' = NoFd /\ UNCHANGED sockVars
  /\ mpc' = "enlist"
  /\ UNCHANGED <<proc, listVars, mutx, threadVars, order>>

\* Variant: the mutex is forgotten.
MutexIgnored == TRUE

MutexIsFree == mutx = NoThread

\* The critical section of main.  It is one step: everything that reads or
\* writes clnt_socks and clnt_cnt does so holding mutx.
Enlist ==
  /\ mpc = "enlist"
  /\ MutexIsFree
  /\ IF clnt_cnt = MAX_CLNT
     THEN proc' = "overrun" /\ UNCHANGED <<mpc, listVars>>
     ELSE /\ clnt_socks' = [clnt_socks EXCEPT ![clnt_cnt] = clnt_sock]
          /\ clnt_cnt' = clnt_cnt + 1
          /\ mpc' = "spawn"
          /\ UNCHANGED proc
  /\ UNCHANGED <<sockVars, clnt_sock, mutx, threadVars, order>>

Spawn(t) ==
  /\ mpc = "spawn"
  /\ tpc[t] = "none"
  /\ Goto(t, "start")
  /\ mpc' = "accept"
  /\ UNCHANGED <<sockVars, proc, clnt_sock, listVars, mutx, tfd, tsrc, tmsg,
                 ti, order>>

-----------------------------------------------------------------------------
(* handle_clnt in thread t. *)

\* int clnt_sock = *((int*)arg);
Start(t) ==
  /\ tpc[t] = "start"
  /\ tfd' = [tfd EXCEPT ![t] = clnt_sock]
  /\ Goto(t, "call")
  /\ UNCHANGED <<sockVars, proc, mainVars, listVars, mutx, tsrc, tmsg, ti,
                 order>>

\* read is called: it fails on a closed descriptor, and otherwise stays with
\* the connection it found even if the descriptor is closed under it.
ReadCall(t) ==
  /\ tpc[t] = "call"
  /\ IF At(tfd[t]) = NoConn
     THEN Goto(t, "lock") /\ UNCHANGED tsrc
     ELSE Goto(t, "recv") /\ tsrc' = [tsrc EXCEPT ![t] = At(tfd[t])]
  /\ UNCHANGED <<sockVars, proc, mainVars, listVars, mutx, tfd, tmsg, ti,
                 order>>

\* read returns: only 0 leaves the loop, so an error is relayed like data.
ReadReturns(t) ==
  /\ tpc[t] = "recv"
  /\ \/ /\ Take(tsrc[t])
        /\ tmsg' = [tmsg EXCEPT ![t] = NextMsg(tsrc[t])]
        /\ Goto(t, "lock")
     \/ TakeError(tsrc[t]) /\ Goto(t, "lock") /\ UNCHANGED tmsg
     \/ AtEnd(tsrc[t]) /\ Goto(t, "unlist") /\ UNCHANGED <<sockVars, tmsg>>
  /\ tsrc' = [tsrc EXCEPT ![t] = NoConn]
  /\ UNCHANGED <<proc, mainVars, listVars, mutx, tfd, ti, order>>

\* send_msg takes the mutex and keeps it over the whole loop of writes.
Lock(t) ==
  /\ tpc[t] = "lock"
  /\ MutexIsFree
  /\ mutx' = t
  /\ order' = IF tmsg[t] = NoMsg THEN order ELSE Append(order, tmsg[t])
  /\ Goto(t, "send")
  /\ UNCHANGED <<sockVars, proc, mainVars, listVars, tfd, tsrc, tmsg, ti>>

\* if(clnt_sock != clnt_socks[i])
IsOwnEntry(t) == clnt_socks[ti[t]] = tfd[t]

LoopIsOver(t) == ti[t] >= clnt_cnt

\* One write of the loop.  A write of length -1 or to a descriptor that is
\* closed does nothing, and no result is looked at.
\* A write that blocks is one step, when there is room, to what the descriptor
\* leads to then: after the race another thread may close it in between, and the
\* write would still go where it led to before.
SendNext(t) ==
  /\ tpc[t] = "send"
  /\ ~LoopIsOver(t)
  /\ LET c == At(clnt_socks[ti[t]]) IN
       IF IsOwnEntry(t) \/ c = NoConn \/ tmsg[t] = NoMsg
       THEN UNCHANGED <<sockVars, proc>>
       ELSE \/ Write(c, tmsg[t]) /\ UNCHANGED proc
            \/ RaisesSigpipe(c) /\ proc' = "killed" /\ UNCHANGED sockVars
  /\ ti' = [ti EXCEPT ![t] = @ + 1]
  /\ UNCHANGED <<mainVars, listVars, mutx, tpc, tfd, tsrc, tmsg, order>>

\* Variant: send_msg returns early, mutex in hand, when the client is alone.
KeptWhenAlone(t) == IF clnt_cnt = 1 THEN t ELSE NoThread

Released(t) == NoThread

Unlock(t) ==
  /\ tpc[t] = "send"
  /\ LoopIsOver(t)
  /\ mutx' = Released(t)
  /\ tmsg' = [tmsg EXCEPT ![t] = NoMsg]
  /\ ti' = [ti EXCEPT ![t] = 0]
  /\ Goto(t, "call")
  /\ UNCHANGED <<sockVars, proc, mainVars, listVars, tfd, tsrc, order>>

\* The array shifted down by one from index k on.
ShiftedFrom(k) ==
  [i \in Index |-> IF k <= i /\ i < clnt_cnt - 1 THEN clnt_socks[i + 1]
                                              ELSE clnt_socks[i]]

Places(f) == {i \in Index : i < clnt_cnt /\ clnt_socks[i] = f}
FirstPlace(f) == CHOOSE i \in Places(f) : \A j \in Places(f) : i <= j

\* Variant: the shift starts one late and drops the next client.
RemovedLate(f) ==
  IF Places(f) = {} THEN clnt_socks ELSE ShiftedFrom(FirstPlace(f) + 1)

\* The array after the search for f and the shift of what follows it.
Removed(f) ==
  IF Places(f) = {} THEN clnt_socks ELSE ShiftedFrom(FirstPlace(f))

\* Variant: the count does not drop.
NotCounted == clnt_cnt

\* clnt_cnt--, whether the descriptor was found or not.
CountedOff == clnt_cnt - 1

\* The critical section after the loop.
Unlist(t) ==
  /\ tpc[t] = "unlist"
  /\ MutexIsFree
  /\ clnt_socks' = Removed(tfd[t])
  /\ clnt_cnt' = CountedOff
  /\ Goto(t, "close")
  /\ UNCHANGED <<sockVars, proc, mainVars, mutx, tfd, tsrc, tmsg, ti, order>>

Close(t) ==
  /\ tpc[t] = "close"
  /\ CloseFd(tfd[t])
  /\ tfd' = [tfd EXCEPT ![t] = NoFd]
  /\ Goto(t, "done")
  /\ UNCHANGED <<proc, mainVars, listVars, mutx, tsrc, tmsg, ti, order>>

-----------------------------------------------------------------------------
ThreadNext(t) ==
  \/ Start(t) \/ ReadCall(t) \/ ReadReturns(t) \/ Lock(t) \/ SendNext(t)
  \/ Unlock(t) \/ Unlist(t) \/ Close(t)

MainNext == Accept \/ Enlist \/ \E t \in Thread : Spawn(t)

ServerUnchanged ==
  UNCHANGED <<proc, mainVars, listVars, mutx, threadVars, order>>

\* Nothing of interest happens after the death of the process.
Next ==
  /\ proc = "up"
  /\ \/ MainNext
     \/ \E t \in Thread : ThreadNext(t)
     \/ ClientNext /\ ServerUnchanged

Spec == Init /\ [][Next]_vars

\* accept does not return while a thread has yet to copy its argument.
Spaced == (mpc = "accept" /\ mpc' = "enlist")
            => \A t \in Thread : tpc[t] # "start"

SpacedSpec == Init /\ [][Next /\ Spaced]_vars

-----------------------------------------------------------------------------
(* Properties of Spec, the program with its race. *)

\* clnt_cnt counts the clients main has enlisted and no thread has counted
\* off, whichever descriptors the threads ended up with: that is what keeps
\* the unconditional clnt_cnt-- of handle_clnt from going below zero.
Accounting ==
  clnt_cnt = Cardinality(Counted) + (IF mpc = "spawn" THEN 1 ELSE 0)

\* send_msg never sends a message back to its sender, although it compares
\* descriptors, which are closed and reused, and not connections.
NoSelfEcho == \A c \in Conn : \A k \in 1..Len(inbox[c]) : inbox[c][k].from # c

\* Any two clients see the messages both of them see in the same order: one
\* broadcast holds mutx until its last write.
SameOrder ==
  \A a, b \in Conn :
    \A i, j \in 1..Len(inbox[a]) : \A k, l \in 1..Len(inbox[b]) :
      (i < j /\ inbox[a][i] = inbox[b][l] /\ inbox[a][j] = inbox[b][k]
         /\ inbox[a][i] # inbox[a][j])
        => l < k

-----------------------------------------------------------------------------
(* Properties of SpacedSpec; Spec violates the ones said to be violated. *)

Listed == {clnt_socks[i] : i \in 0..(clnt_cnt - 1)}

\* Descriptors handed to a thread, or about to be.
Held == {tfd[t] : t \in {u \in Counted : tpc[u] # "start"}}
          \cup (IF mpc = "spawn" \/ \E t \in Thread : tpc[t] = "start"
                THEN {clnt_sock} ELSE {})

\* The list is exact: no descriptor twice, every listed one is open and held
\* by one thread that has not counted it off.  Removal by search and shift,
\* the unconditional decrement and the reuse of numbers all rest on this.
Directory ==
  /\ \A i, j \in 0..(clnt_cnt - 1) :
       clnt_socks[i] = clnt_socks[j] /\ clnt_socks[i] # NoFd => i = j
  /\ Listed = Held
  /\ \A f \in Listed \ {NoFd} : At(f) # NoConn

\* Descriptors of clients a broadcast is due to: accepted and enlisted, not
\* hung up, and not being closed.
Present == {f \in Fd : /\ fdt[f] # NoConn
                       /\ peer[fdt[f]] = "open"
                       /\ ~ (mpc = "enlist" /\ clnt_sock = f)}

\* "send to all" (chat_sserv.c:86): when send_msg gives the mutex back, every
\* client present but the sender has the message.  Spec violates it.
SendToAll ==
  [][\A t \in Thread :
       (mutx = t /\ mutx' = NoThread /\ tmsg[t] # NoMsg) =>
         \A f \in Present : \/ fdt[f] = tmsg[t].from
                            \/ \E k \in 1..Len(inbox[fdt[f]]) :
                                 inbox[fdt[f]][k] = tmsg[t]]_vars

\* The server implements the room: its members are the listed clients, and
\* while a thread goes through the list the entries ahead are owed.
Owed ==
  IF mutx = NoThread THEN {}
  ELSE IF tmsg[mutx] = NoMsg THEN {}
  ELSE {fdt[f] : f \in {clnt_socks[i] : i \in ti[mutx]..(clnt_cnt - 1)}
                         \ {NoFd, tfd[mutx]}}

Room == INSTANCE ChatRoom WITH
  Member <- Conn,
  room   <- {fdt[f] : f \in Listed \ {NoFd}},
  gone   <- {c \in Conn : peer[c] \notin {"new", "open"}},
  said   <- order,
  heard  <- inbox,
  owed   <- Owed

RoomSpec == Room!Spec

-----------------------------------------------------------------------------
(* Liveness.  The kernel runs every runnable thread, the mutex is let go a  *)
(* finite number of times before a waiter gets it (the messages are finite) *)
(* and the receive thread of a client that is alive reads on.               *)

FairSpec ==
  /\ SpacedSpec
  /\ WF_vars(proc = "up" /\ MainNext /\ Spaced)
  /\ \A t \in Thread : WF_vars(proc = "up" /\ ThreadNext(t))
  /\ \A c \in Conn : WF_vars(proc = "up" /\ ClientRecv(c) /\ ServerUnchanged)

\* Nothing of c is left to do: what it wrote, its farewell and what it wrote
\* before a crash included, is relayed, and once it has left no descriptor
\* leads to it.
Settled(c) ==
  /\ \A n \in 1..sent[c] : \E k \in 1..Len(order) : order[k] = [from |-> c, n |-> n]
  /\ peer[c] \in {"new", "open"} \/ c \in backlog \/ \A f \in Fd : fdt[f] # c

\* Whoever writes is relayed and whoever leaves is let go, though relays block
\* in write with the mutex held and the others wait for it, unless SIGPIPE ends
\* the process.  A client writes MaxSend messages at most, so that everything
\* is done some day if it is done time and again.
EverybodyIsServed == \A c \in Conn : []<>(Settled(c) \/ proc # "up")
=============================================================================
