------------------------- MODULE AesdCharRefinement -------------------------
(***************************************************************************)
(* With one writer, the driver implements CommandLog: the commands are the *)
(* entries of the ring from out_offs on, the unfinished line is the part   *)
(* of write_buffer in use.                                                 *)
(***************************************************************************)
EXTENDS AesdChar, SequencesExt

\* The number of entries of the ring in use.
Entries(buf) ==
  IF IsEmpty(buf) THEN 0 ELSE Iterations(buf, buf.in_offs)

Command(k) ==
  LET e == circular_buffer.entry[SlotAt(circular_buffer, k)]
  IN  IF e.buffptr \in Blocks THEN heap[e.buffptr] ELSE <<>>

LogOfRing == [k \in 1 .. Entries(circular_buffer) |-> Command(k - 1)]

PendingOfBuffer == [i \in 1 .. write_buffer_index |-> write_buffer[i - 1]]

CL == INSTANCE CommandLog WITH log <- LogOfRing, pending <- PendingOfBuffer,
                               pos <- f_pos, got <- ubuf

\* The device is a log of its last MaxOps commands (aesd-circular-buffer.h:51):
\* writes append in order and whole, reads return the bytes at the position in
\* the commands laid end to end, calls that fail are not seen at all.
ImplementsCommandLog == CL!Spec
=============================================================================
