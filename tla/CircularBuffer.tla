--------------------------- MODULE CircularBuffer ---------------------------
(***************************************************************************)
(* The circular buffer of the aesdchar driver                              *)
(* (aesd-char-driver/aesd-circular-buffer.c and .h) as operators over one  *)
(* record with the fields of struct aesd_circular_buffer: the array entry, *)
(* the offsets in_offs and out_offs, and the flag full.                    *)
(***************************************************************************)
EXTENDS Integers, FiniteSets

CONSTANTS
  MaxOps,        \* AESDCHAR_MAX_WRITE_OPERATIONS_SUPPORTED, 10 in the code
  MaxWriteSize,  \* AESDCHAR_MAX_WRITE_SIZE, 128 in the code
  NULL           \* the null pointer

ASSUME RingAssumption ==
  /\ MaxOps \in Nat \ {0}
  /\ MaxWriteSize \in Nat \ {0, 1}

Slots == 0 .. MaxOps - 1

EmptyEntry == [buffptr |-> NULL, size |-> 0]

\* aesd_circular_buffer_init: memset to zero.
EmptyBuffer ==
  [entry    |-> [i \in Slots |-> EmptyEntry],
   in_offs  |-> 0,
   out_offs |-> 0,
   full     |-> FALSE]

IsEmpty(buf) == buf.in_offs = buf.out_offs /\ ~buf.full

\* (offs + 1) % AESDCHAR_MAX_WRITE_OPERATIONS_SUPPORTED
NextSlot(i) == (i + 1) % MaxOps

\* The slot the loops below look at in their iteration k (from 0), when they
\* start at out_offs and step with NextSlot.
SlotAt(buf, k) == (buf.out_offs + k) % MaxOps

\* How many iterations  do { ... i = NextSlot(i) } while (i != stop)  makes
\* from out_offs: at least one, and a whole turn when stop is out_offs.
Iterations(buf, stop) ==
  CHOOSE n \in 1 .. MaxOps : SlotAt(buf, n) = stop

\* The bytes stored in the first n slots from out_offs: byte b of iteration k.
BytesBefore(buf, n) ==
  {kb \in (0 .. n - 1) \X (0 .. MaxWriteSize - 1) :
     kb[2] < buf.entry[SlotAt(buf, kb[1])].size}

\* total_size after n iterations.
TotalSize(buf, n) == Cardinality(BytesBefore(buf, n))

-----------------------------------------------------------------------------
(***************************************************************************)
(* aesd_circular_buffer_find_entry_offset_for_fpos: the first entry, from  *)
(* out_offs to in_offs, whose end lies behind char_offset, and the place   *)
(* of char_offset in that entry.                                           *)
(***************************************************************************)
NotFound == [slot |-> -1, offset |-> 0]

\* The first iteration in which  total_size > char_offset  holds, if any: the
\* one before which it did not hold yet.
Hits(buf, char_offset) ==
  {k \in 0 .. Iterations(buf, buf.in_offs) - 1 :
     TotalSize(buf, k) <= char_offset /\ TotalSize(buf, k + 1) > char_offset}

\* Mutant of FindEntry: the flag full is forgotten, a full ring looks empty.
FindEntry_FullIsEmpty(buf, char_offset) ==
  IF buf.in_offs = buf.out_offs \/ Hits(buf, char_offset) = {}
  THEN NotFound
  ELSE LET k == CHOOSE k \in Hits(buf, char_offset) : TRUE
       IN  [slot   |-> SlotAt(buf, k),
            offset |-> char_offset - TotalSize(buf, k)]

FindEntry(buf, char_offset) ==
  IF IsEmpty(buf) \/ Hits(buf, char_offset) = {}
  THEN NotFound
  ELSE LET k == CHOOSE k \in Hits(buf, char_offset) : TRUE
       IN  [slot   |-> SlotAt(buf, k),
            offset |-> char_offset - TotalSize(buf, k)]

(***************************************************************************)
(* aesd_circular_buffer_size: the bytes stored from out_offs up to, and    *)
(* without, slot offset; 0 when offset is out_offs, the full buffer        *)
(* included.  offset must be a slot: the loop would not end otherwise.     *)
(***************************************************************************)

BufferSize(buf, offset) ==
  IF ~IsEmpty(buf) /\ offset # buf.out_offs
  THEN TotalSize(buf, Iterations(buf, offset))
  ELSE 0

-----------------------------------------------------------------------------
(***************************************************************************)
(* aesd_circular_buffer_add_entry: its return value, and its effect.       *)
(***************************************************************************)

\* Mutant of Overwritten: the slot behind the one that is overwritten.
Overwritten_NextEntry(buf) ==
  IF buf.full THEN buf.entry[NextSlot(buf.out_offs)].buffptr ELSE NULL

Overwritten(buf) ==
  IF buf.full THEN buf.entry[buf.out_offs].buffptr ELSE NULL

\* Mutant of AddEntry: out_offs stays on the entry that was overwritten.
AddEntry_OutStays(buf, e) ==
  LET in_offs == NextSlot(buf.in_offs)
  IN  [entry    |-> [buf.entry EXCEPT ![buf.in_offs] = e],
       in_offs  |-> in_offs,
       out_offs |-> buf.out_offs,
       full     |-> buf.full \/ in_offs = buf.out_offs]

AddEntry(buf, e) ==
  LET in_offs  == NextSlot(buf.in_offs)
      out_offs == IF buf.full THEN NextSlot(buf.out_offs) ELSE buf.out_offs
  IN  [entry    |-> [buf.entry EXCEPT ![buf.in_offs] = e],
       in_offs  |-> in_offs,
       out_offs |-> out_offs,
       full     |-> buf.full \/ in_offs = out_offs]
=============================================================================
