----------------------------- MODULE CommandLog -----------------------------
(***************************************************************************)
(* What the aesdchar device promises its users, without ring, heap, lock   *)
(* or buffer: the last MaxOps commands in the order they were completed,   *)
(* the unfinished line behind them, a position for every open file in the  *)
(* commands laid end to end, and what a read last handed to its caller.    *)
(***************************************************************************)
EXTENDS Naturals, SequencesExt

CONSTANTS
  MaxOps,        \* how many commands are kept
  MaxWriteSize,  \* a line is shorter than this
  Procs,         \* the users, one open file each
  NL,            \* the byte that ends a line
  WriteData,     \* what write calls write
  ReadCounts     \* how much read calls ask for

VARIABLES
  log,      \* the commands, the oldest first
  pending,  \* the bytes written since the last command was completed
  pos,      \* the position of each file
  got       \* what the last read of each file returned

vars == <<log, pending, pos, got>>

\* All commands, concatenated end to end.
Stream == FlattenSeq(log)

Init ==
  /\ log = <<>>
  /\ pending = <<>>
  /\ pos = [p \in Procs |-> 0]
  /\ got = [p \in Procs |-> <<>>]

\* The newest MaxOps commands of log and one more.
Appended(line) ==
  LET all == Append(log, line)
  IN  IF Len(all) > MaxOps THEN Tail(all) ELSE all

\* A write goes to the end of the unfinished line, and completes it when its
\* last byte does.
Write(data) ==
  LET line == pending \o data
  IN  /\ data # <<>> /\ Len(line) < MaxWriteSize
      /\ IF Last(data) = NL
         THEN log' = Appended(line) /\ pending' = <<>>
         ELSE pending' = line /\ UNCHANGED log
      /\ UNCHANGED <<pos, got>>

\* An empty write where no line has begun may count as an empty command.
WriteEmpty ==
  /\ pending = <<>>
  /\ log' = Appended(<<>>)
  /\ UNCHANGED <<pending, pos, got>>

\* A read returns bytes from the position on, and advances it by as many.
Read(p) ==
  /\ \E count \in ReadCounts : \E n \in 1 .. count :
       /\ pos[p] + n <= Len(Stream)
       /\ got' = [got EXCEPT ![p] = SubSeq(Stream, pos[p] + 1, pos[p] + n)]
       /\ pos' = [pos EXCEPT ![p] = @ + n]
  /\ UNCHANGED <<log, pending>>

\* A position moves anywhere, behind the end too.
Seek(p) ==
  /\ pos'[p] \in Nat
  /\ pos' = [pos EXCEPT ![p] = pos'[p]]
  /\ UNCHANGED <<log, pending, got>>

\* The caller is done with what it read.
Consume(p) ==
  /\ got' = [got EXCEPT ![p] = <<>>]
  /\ UNCHANGED <<log, pending, pos>>

Next ==
  \/ \E data \in WriteData : Write(data)
  \/ WriteEmpty
  \/ \E p \in Procs : Read(p) \/ Seek(p) \/ Consume(p)

Spec == Init /\ [][Next]_vars
=============================================================================
