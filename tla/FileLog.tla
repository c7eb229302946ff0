------------------------------ MODULE FileLog ------------------------------
(***************************************************************************)
(* What the file build of the server promises: one log of lines and        *)
(* timestamps to which everybody only adds.  A client is sent all of it,   *)
(* up to and with its own line, as it is when that line is added.          *)
(***************************************************************************)
EXTENDS Sequences

CONSTANTS
  Clients,
  Stamp,  \* the timer's line; a client's line is the client
  NULL

VARIABLES
  log,    \* what was added, in order
  answer  \* what each client was sent, or NULL

Init == log = <<>> /\ answer = [c \in Clients |-> NULL]

\* A client may say nothing, and it may be gone when the answer is sent.
Exchange(c) ==
  /\ answer[c] = NULL
  /\ log' \in {log, Append(log, c)}
  /\ answer' \in {answer, [answer EXCEPT ![c] = log']}

Tick == log' = Append(log, Stamp) /\ UNCHANGED answer

Next == Tick \/ \E c \in Clients : Exchange(c)

Spec == Init /\ [][Next]_<<log, answer>>
=============================================================================
