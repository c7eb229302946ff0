---------------------------- MODULE LineService ----------------------------
(***************************************************************************)
(* What the server promises its clients: they are served one at a time.   *)
(* A client's line is added to the log, or its seek names a place in it,   *)
(* and then the client is sent all the log holds from there on, with       *)
(* nobody's line added in between.  A line that is not accepted is not     *)
(* answered.                                                               *)
(***************************************************************************)
EXTENDS Naturals, SequencesExt

CONSTANTS
  MaxOps,        \* how many lines are kept
  MaxWriteSize,  \* a line is shorter than this
  Clients,
  NULL,          \* nobody, nothing
  NL, NUL,       \* '\n' and '\0'
  Messages       \* what clients add

VARIABLES
  log,      \* the lines, the oldest first
  pending,  \* the beginning of a line
  turn,     \* the client that is served, or NULL
  from,     \* how many bytes of the log its answer leaves out
  answer    \* what each client was sent, or NULL

vars == <<log, pending, turn, from, answer>>

Init ==
  /\ log = <<>> /\ pending = <<>>
  /\ turn = NULL /\ from = 0
  /\ answer = [c \in Clients |-> NULL]

Stream == FlattenSeq(log)

Appended(line) ==
  LET all == Append(log, line)
  IN  IF Len(all) > MaxOps THEN Tail(all) ELSE all

\* The line goes behind what is pending.  An empty one may count as a line where
\* none has begun.
AddLine(c, message) ==
  /\ turn = NULL /\ turn' = c
  /\ LET line == pending \o message
     IN  /\ Len(line) < MaxWriteSize
         /\ \/ /\ message = <<>> \/ Last(message) # NL
               /\ pending' = line /\ UNCHANGED log
            \/ /\ line = <<>> \/ (message # <<>> /\ Last(message) = NL)
               /\ log' = Appended(line) /\ pending' = <<>>
  /\ from' = 0
  /\ UNCHANGED answer

SeekTo(c) ==
  /\ turn = NULL /\ turn' = c
  /\ from' \in 0 .. Len(Stream)
  /\ UNCHANGED <<log, pending, answer>>

\* The bytes before the first NUL.
Sent(s) == IF NUL \in ToSet(s) THEN SubSeq(s, 1, SelectInSeq(s, LAMBDA b : b = NUL) - 1) ELSE s

Answer(c) ==
  /\ turn = c /\ turn' = NULL
  /\ answer' = [answer EXCEPT ![c] = Sent(SubSeq(Stream, from + 1, Len(Stream)))]
  /\ from' = 0
  /\ UNCHANGED <<log, pending>>

Next ==
  \E c \in Clients :
    (\E message \in Messages : AddLine(c, message)) \/ SeekTo(c) \/ Answer(c)

Spec == Init /\ [][Next]_vars
=============================================================================
