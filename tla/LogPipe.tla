------------------------------ MODULE LogPipe ------------------------------
(***************************************************************************)
(* The log of ch11/mp_commu_server.c and ch11/chat_mp_server.c: a pipe the *)
(* children write a line to when a client has given its name, and the      *)
(* logger, a process of its own that copies the pipe to log.txt until a    *)
(* read begins with "exit".  A line is named by the connection it is about.*)
(*                                                                         *)
(* What is written is far below PIPE_BUF, so a write is one piece of the   *)
(* pipe; all of it fits in one read of BUF_SIZE and in the stdio buffer.   *)
(***************************************************************************)
EXTENDS Naturals, Sequences

CONSTANTS Exit   \* the five bytes "exit" that read_int writes

VARIABLES
  pipe,      \* what was written to the pipe and not read
  written,   \* history: all that was ever written to it
  fbuf,      \* what fwrite has put in the stdio buffer of fp
  file,      \* log.txt
  swallowed  \* history: an "exit" was read behind a line and copied as one

logVars == <<pipe, written, fbuf, file, swallowed>>

LogInit ==
  /\ pipe = <<>>
  /\ written = <<>>
  /\ fbuf = <<>>
  /\ file = <<>>
  /\ swallowed = FALSE

WritePipe(m) ==
  /\ pipe' = Append(pipe, m)
  /\ written' = Append(written, m)
  /\ UNCHANGED <<fbuf, file, swallowed>>

\* Variant: "exit" is looked for in all that was read.
SaysExitAnywhere == \E k \in 1..Len(pipe) : pipe[k] = Exit

\* Variant: the comparison is with "exit\n".
NeverSaysExit == FALSE

\* strcmp(msgbuf, "exit") == 0
SaysExit == Head(pipe) = Exit

\* fclose(fp), or exit: the buffer goes to the file.
Flush == file' = file \o fbuf /\ fbuf' = <<>>

\* The read that ends the loop.
ReadExit ==
  /\ pipe # <<>> /\ SaysExit
  /\ pipe' = <<>>
  /\ Flush
  /\ UNCHANGED <<written, swallowed>>

\* read, and fwrite of all it returned.
ReadLines ==
  /\ pipe # <<>> /\ ~SaysExit
  /\ pipe' = <<>>
  /\ fbuf' = fbuf \o pipe
  /\ swallowed' = (swallowed \/ \E k \in 2..Len(pipe) : pipe[k] = Exit)
  /\ UNCHANGED <<written, file>>
=============================================================================
