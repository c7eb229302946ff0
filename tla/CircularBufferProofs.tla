------------------------ MODULE CircularBufferProofs ------------------------
(***************************************************************************)
(* Facts about the operators of CircularBuffer, for rings of every size.   *)
(***************************************************************************)
EXTENDS CircularBuffer, FiniteSetTheorems, TLAPS

\* Induction up to n, about a set: without n in it, adding 1 would map the set
\* into itself without 0.
LEMMA IntervalInduction ==
  ASSUME NEW n \in Nat, NEW S, 0 \in S,
         \A k \in 0 .. n - 1 : k \in S => k + 1 \in S
  PROVE  n \in S
<1> DEFINE T == S \cap (0 .. n)
           next == [k \in T |-> k + 1]
<1> SUFFICES ASSUME n \notin S PROVE FALSE
  OBVIOUS
<1>1. 0 \in T /\ T \subseteq Int
  OBVIOUS
<1>2. ASSUME NEW k \in T PROVE k + 1 \in T \ {0}
  OBVIOUS
<1>3. IsFiniteSet(T)
  <2>1. IsFiniteSet(0 .. n)
    BY FS_Interval
  <2>2. T \in SUBSET (0 .. n)
    OBVIOUS
  <2> HIDE DEF T
  <2> QED
    BY <2>1, <2>2, FS_Subset
<1> HIDE DEF T
<1>4. /\ IsFiniteSet(T \ {0})
      /\ Cardinality(T \ {0}) = Cardinality(T) - 1
      /\ Cardinality(T) \in Nat
  BY <1>1, <1>3, FS_RemoveElement, FS_CardinalityType
<1>5. next \in [T -> T \ {0}]
  BY <1>2
<1>6. Cardinality(T \ {0}) < Cardinality(T)
  BY <1>4
<1>7. PICK k \in T, j \in T : k # j /\ next[k] = next[j]
  <2> HIDE DEF next
  <2> QED
    BY <1>3, <1>4, <1>5, <1>6, FS_PigeonHole
<1> QED
  BY <1>1, <1>7

\* The modulo of the code, by cases: one step wraps around behind the last slot.
LEMMA WrapAround ==
  ASSUME NEW n \in 0 .. 2 * MaxOps - 1
  PROVE  n % MaxOps = IF n < MaxOps THEN n ELSE n - MaxOps
<1>1. MaxOps \in Nat \ {0}
  BY RingAssumption
<1>2. CASE n < MaxOps
  BY <1>1, <1>2
<1>3. CASE n >= MaxOps
  <2>1. n = MaxOps * 1 + (n - MaxOps) /\ n - MaxOps \in 0 .. MaxOps - 1
    BY <1>1, <1>3
  <2> QED
    BY <1>1, <1>3, <2>1
<1> QED
  BY <1>1, <1>2, <1>3

LEMMA NextSlotCases ==
  ASSUME NEW i \in Slots
  PROVE  NextSlot(i) = IF i = MaxOps - 1 THEN 0 ELSE i + 1
BY WrapAround, RingAssumption DEF NextSlot, Slots

LEMMA SlotAtType ==
  ASSUME NEW buf, buf.out_offs \in Slots, NEW k \in 0 .. MaxOps
  PROVE  SlotAt(buf, k) \in Slots
BY WrapAround, RingAssumption DEF SlotAt, Slots

LEMMA SlotAtCases ==
  ASSUME NEW buf, buf.out_offs \in Slots, NEW k \in 0 .. MaxOps
  PROVE  LET n == buf.out_offs + k
         IN  SlotAt(buf, k) = IF n < MaxOps THEN n ELSE n - MaxOps
<1>1. buf.out_offs + k \in 0 .. 2 * MaxOps - 1
  BY RingAssumption DEF Slots
<1> QED
  BY <1>1, WrapAround DEF SlotAt

\* The loops end: from out_offs, every slot is reached within one turn.
LEMMA IterationsType ==
  ASSUME NEW buf, buf.out_offs \in Slots, NEW stop \in Slots
  PROVE  /\ Iterations(buf, stop) \in 1 .. MaxOps
         /\ SlotAt(buf, Iterations(buf, stop)) = stop
<1> DEFINE n == IF stop > buf.out_offs THEN stop - buf.out_offs
                ELSE MaxOps + stop - buf.out_offs
<1>1. n \in 1 .. MaxOps
  BY RingAssumption DEF Slots
<1>2. SlotAt(buf, n) = stop
  BY WrapAround, RingAssumption DEF SlotAt, Slots
<1> QED
  BY <1>1, <1>2 DEF Iterations

LEMMA BytesFinite ==
  ASSUME NEW buf, NEW n \in Int
  PROVE  IsFiniteSet(BytesBefore(buf, n))
<1> DEFINE all == (0 .. n - 1) \X (0 .. MaxWriteSize - 1)
<1>1. IsFiniteSet(0 .. n - 1) /\ IsFiniteSet(0 .. MaxWriteSize - 1)
  BY FS_Interval, RingAssumption
<1>2. IsFiniteSet(all)
  BY <1>1, FS_Product
<1>3. BytesBefore(buf, n) \in SUBSET all
  BY DEF BytesBefore
<1> QED
  BY <1>2, <1>3, FS_Subset

LEMMA TotalSizeType ==
  ASSUME NEW buf, NEW n \in Int
  PROVE  TotalSize(buf, n) \in Nat
BY BytesFinite, FS_CardinalityType DEF TotalSize

\* n slots hold at most n lines of MaxWriteSize - 1 bytes.
LEMMA TotalSizeBound ==
  ASSUME NEW buf, \A i \in Slots : buf.entry[i].size \in 0 .. MaxWriteSize - 1,
         buf.out_offs \in Slots, NEW n \in 0 .. MaxOps
  PROVE  TotalSize(buf, n) <= n * (MaxWriteSize - 1)
<1> DEFINE turns == 0 .. n - 1
           bytes == 0 .. MaxWriteSize - 2
<1>0. n \in Nat
  BY RingAssumption
<1>1. /\ IsFiniteSet(turns)
      /\ Cardinality(turns) = n
  <2>1. 0 \in Int /\ n - 1 \in Int /\ n - 1 - 0 + 1 = n /\ (0 > n - 1 => n = 0)
    BY <1>0
  <2> QED
    BY <2>1, FS_Interval
<1>2. /\ IsFiniteSet(bytes)
      /\ Cardinality(bytes) = MaxWriteSize - 1
  <2>1. /\ 0 \in Int /\ MaxWriteSize - 2 \in Int /\ ~(0 > MaxWriteSize - 2)
        /\ MaxWriteSize - 2 - 0 + 1 = MaxWriteSize - 1
    BY RingAssumption
  <2> QED
    BY <2>1, FS_Interval
<1>3. /\ IsFiniteSet(turns \X bytes)
      /\ Cardinality(turns \X bytes) = n * (MaxWriteSize - 1)
  <2> HIDE DEF turns, bytes
  <2> QED
    BY <1>1, <1>2, FS_Product
<1>4. ASSUME NEW kb \in BytesBefore(buf, n)
      PROVE  kb \in turns \X bytes
  <2>1. /\ kb \in turns \X (0 .. MaxWriteSize - 1)
        /\ kb[2] < buf.entry[SlotAt(buf, kb[1])].size
    BY DEF BytesBefore
  <2>2. SlotAt(buf, kb[1]) \in Slots
    BY <2>1, SlotAtType, RingAssumption
  <2> QED
    BY <2>1, <2>2, RingAssumption
<1>5. BytesBefore(buf, n) \in SUBSET (turns \X bytes)
  BY <1>4
<1> QED
  BY <1>3, <1>5, FS_Subset DEF TotalSize

\* One more slot holds the bytes of its line more.
LEMMA TotalSizeStep ==
  ASSUME NEW buf, \A i \in Slots : buf.entry[i].size \in 0 .. MaxWriteSize - 1,
         buf.out_offs \in Slots, NEW k \in 0 .. MaxOps - 1
  PROVE  TotalSize(buf, k + 1) = TotalSize(buf, k) + buf.entry[SlotAt(buf, k)].size
<1> DEFINE size == buf.entry[SlotAt(buf, k)].size
           bytes == 0 .. size - 1
           last == {k} \X bytes
           before == BytesBefore(buf, k)
<1>1. size \in 0 .. MaxWriteSize - 1 /\ size \in Nat /\ k \in Nat
  BY SlotAtType, RingAssumption
<1>2. IsFiniteSet(bytes) /\ Cardinality(bytes) = size
  <2>1. 0 \in Int /\ size - 1 \in Int /\ size - 1 - 0 + 1 = size /\ (0 > size - 1 => size = 0)
    BY <1>1
  <2> HIDE DEF size
  <2> QED
    BY <2>1, FS_Interval
<1>3. IsFiniteSet(last) /\ Cardinality(last) = size
  <2>1. IsFiniteSet({k}) /\ Cardinality({k}) = 1
    BY FS_Singleton
  <2>2. IsFiniteSet(last) /\ Cardinality(last) = Cardinality({k}) * Cardinality(bytes)
    <3> HIDE DEF bytes
    <3> QED
      BY <1>2, <2>1, FS_Product
  <2> HIDE DEF last, bytes, size
  <2> QED
    BY <1>1, <1>2, <2>1, <2>2
<1>4. IsFiniteSet(before) /\ Cardinality(before) \in Nat
  BY BytesFinite, FS_CardinalityType, RingAssumption
<1>5. BytesBefore(buf, k + 1) = before \cup last
  <2>1. ASSUME NEW kb \in BytesBefore(buf, k + 1) PROVE kb \in before \cup last
    <3>1. /\ kb \in (0 .. k) \X (0 .. MaxWriteSize - 1)
          /\ kb[2] < buf.entry[SlotAt(buf, kb[1])].size
      BY <1>1 DEF BytesBefore
    <3>2. CASE kb[1] = k
      BY <1>1, <3>1, <3>2, RingAssumption
    <3>3. CASE kb[1] # k
      BY <1>1, <3>1, <3>3 DEF BytesBefore
    <3> QED
      BY <3>2, <3>3
  <2>2. ASSUME NEW kb \in before PROVE kb \in BytesBefore(buf, k + 1)
    BY <1>1 DEF BytesBefore
  <2>3. ASSUME NEW kb \in last PROVE kb \in BytesBefore(buf, k + 1)
    <3>1. /\ kb = <<k, kb[2]>> /\ kb[1] = k /\ kb[2] \in 0 .. MaxWriteSize - 1
          /\ kb[2] < size
      BY <1>1, RingAssumption
    <3>2. kb \in (0 .. k + 1 - 1) \X (0 .. MaxWriteSize - 1)
      BY <1>1, <3>1
    <3> QED
      BY <3>1, <3>2 DEF BytesBefore
  <2> HIDE DEF before, last
  <2> QED
    BY <2>1, <2>2, <2>3
<1>6. before \cap last = {}
  <2> SUFFICES ASSUME NEW kb \in before, kb \in last PROVE FALSE
    OBVIOUS
  <2>1. kb[1] \in 0 .. k - 1 /\ kb[1] = k
    BY DEF BytesBefore
  <2> QED
    BY <1>1, <2>1
<1>7. Cardinality(before \cup last) = Cardinality(before) + size
  <2> HIDE DEF before, last, size
  <2>1. Cardinality(before \cup last)
          = Cardinality(before) + Cardinality(last) - Cardinality(before \cap last)
    BY <1>3, <1>4, FS_Union
  <2>2. Cardinality(before \cap last) = 0
    BY <1>6, FS_EmptySet
  <2> QED
    BY <1>1, <1>3, <1>4, <2>1, <2>2
<1> QED
  BY <1>5, <1>7 DEF TotalSize

LEMMA MoreSlots ==
  ASSUME NEW m \in Nat, NEW k \in 0 .. MaxOps - 1
  PROVE  k * m + m <= MaxOps * m
<1>1. PICK d \in Nat : MaxOps = k + 1 + d
  BY RingAssumption
<1>2. MaxOps * m = k * m + m + d * m
  BY <1>1
<1>3. d * m \in Nat /\ k * m \in Nat
  BY <1>1, RingAssumption
<1> QED
  BY <1>2, <1>3

\* What a search finds is a slot of the ring, and its offset is not negative.
LEMMA FindEntryType ==
  ASSUME NEW buf, buf.out_offs \in Slots, buf.in_offs \in Slots, NEW char_offset \in Nat,
         FindEntry(buf, char_offset) # NotFound
  PROVE  /\ FindEntry(buf, char_offset).slot \in Slots
         /\ FindEntry(buf, char_offset).offset \in Nat
<1>1. Hits(buf, char_offset) # {}
  BY DEF FindEntry
<1> DEFINE k == CHOOSE j \in Hits(buf, char_offset) : TRUE
<1>2. k \in Hits(buf, char_offset)
  BY <1>1
<1>3. Iterations(buf, buf.in_offs) \in 1 .. MaxOps
  BY IterationsType
<1>4. k \in 0 .. MaxOps /\ TotalSize(buf, k) <= char_offset
  BY <1>2, <1>3, RingAssumption DEF Hits
<1>5. SlotAt(buf, k) \in Slots /\ TotalSize(buf, k) \in Nat
  BY <1>4, SlotAtType, TotalSizeType, RingAssumption
<1>6. FindEntry(buf, char_offset) =
        [slot |-> SlotAt(buf, k), offset |-> char_offset - TotalSize(buf, k)]
  BY DEF FindEntry
<1> QED
  BY <1>4, <1>5, <1>6

LEMMA BufferSizeType ==
  ASSUME NEW buf, buf.out_offs \in Slots, NEW offset \in Slots
  PROVE  BufferSize(buf, offset) \in Nat
<1>1. Iterations(buf, offset) \in Int
  BY IterationsType, RingAssumption
<1> QED
  BY <1>1, TotalSizeType DEF BufferSize

\* A search ends inside a line, and that line ends inside the room for MaxOps.
LEMMA FindEntryBound ==
  ASSUME NEW buf, \A i \in Slots : buf.entry[i].size \in 0 .. MaxWriteSize - 1,
         buf.out_offs \in Slots, buf.in_offs \in Slots, NEW char_offset \in Nat,
         FindEntry(buf, char_offset) # NotFound
  PROVE  LET found == FindEntry(buf, char_offset)
             size  == buf.entry[found.slot].size
         IN  /\ found.offset < size
             /\ char_offset - found.offset + size <= MaxOps * (MaxWriteSize - 1)
<1>1. Hits(buf, char_offset) # {}
  BY DEF FindEntry
<1> DEFINE k == CHOOSE j \in Hits(buf, char_offset) : TRUE
           size == buf.entry[SlotAt(buf, k)].size
           most == MaxWriteSize - 1
<1>2. k \in Hits(buf, char_offset)
  BY <1>1
<1>3. Iterations(buf, buf.in_offs) \in 1 .. MaxOps
  BY IterationsType
<1>4. k \in 0 .. MaxOps - 1 /\ TotalSize(buf, k + 1) > char_offset
  BY <1>2, <1>3, RingAssumption DEF Hits
<1>5. /\ SlotAt(buf, k) \in Slots /\ size \in 0 .. most
      /\ TotalSize(buf, k) \in Nat /\ TotalSize(buf, k + 1) \in Nat
  BY <1>4, SlotAtType, TotalSizeType, RingAssumption
<1>6. FindEntry(buf, char_offset) =
        [slot |-> SlotAt(buf, k), offset |-> char_offset - TotalSize(buf, k)]
  BY DEF FindEntry
<1>7. TotalSize(buf, k + 1) = TotalSize(buf, k) + size
  BY <1>4, TotalSizeStep
<1>8. TotalSize(buf, k) <= k * most
  BY <1>4, TotalSizeBound, RingAssumption
<1>9. k * most + most <= MaxOps * most
  BY <1>4, MoreSlots, RingAssumption
<1> HIDE DEF k, size
<1>10. k * most \in Int /\ MaxOps * most \in Int /\ most \in Int /\ size <= most /\ size \in Int
  BY <1>4, <1>5, RingAssumption
<1> HIDE DEF most
<1>11. char_offset - TotalSize(buf, k) < size
  BY <1>4, <1>5, <1>7, <1>10
<1>12. TotalSize(buf, k) + size <= MaxOps * most
  BY <1>5, <1>8, <1>9, <1>10
<1> QED
  BY <1>5, <1>6, <1>10, <1>11, <1>12 DEF size, most

\* Before a slot there is at most what the other slots hold.
LEMMA BufferSizeBound ==
  ASSUME NEW buf, \A i \in Slots : buf.entry[i].size \in 0 .. MaxWriteSize - 1,
         buf.out_offs \in Slots, NEW offset \in Slots
  PROVE  BufferSize(buf, offset) + (MaxWriteSize - 1) <= MaxOps * (MaxWriteSize - 1)
<1> DEFINE n == IF offset = buf.out_offs THEN 0 ELSE Iterations(buf, offset)
           most == MaxWriteSize - 1
<1>1. n \in 0 .. MaxOps - 1
  <2>1. CASE offset = buf.out_offs
    BY <2>1, RingAssumption
  <2>2. CASE offset # buf.out_offs
    <3>1. Iterations(buf, offset) \in 1 .. MaxOps /\ SlotAt(buf, Iterations(buf, offset)) = offset
      BY IterationsType
    <3>2. SlotAt(buf, MaxOps) = buf.out_offs
      BY WrapAround, RingAssumption DEF SlotAt, Slots
    <3> QED
      BY <2>2, <3>1, <3>2, RingAssumption
  <2> QED
    BY <2>1, <2>2
<1>2. TotalSize(buf, n) <= n * most /\ TotalSize(buf, n) \in Nat
  BY <1>1, TotalSizeBound, TotalSizeType, RingAssumption
<1>3. n * most + most <= MaxOps * most
  BY <1>1, MoreSlots, RingAssumption
<1>4. BufferSize(buf, offset) = TotalSize(buf, n) \/ BufferSize(buf, offset) = 0
  BY DEF BufferSize
<1>5. most \in Nat /\ n * most \in Nat /\ MaxOps * most \in Nat
  BY <1>1, RingAssumption
<1> HIDE DEF n, most
<1>6. BufferSize(buf, offset) + most <= MaxOps * most
  BY <1>2, <1>3, <1>4, <1>5
<1> QED
  BY <1>6 DEF most

-----------------------------------------------------------------------------
(* Where the two loops meet: the search and the size use one measure. *)

\* What holds of a ring whose slots are used without holes.
NoHoles(buf) ==
  /\ buf.in_offs \in Slots /\ buf.out_offs \in Slots /\ buf.full \in BOOLEAN
  /\ \A i \in Slots : buf.entry[i].size \in 0 .. MaxWriteSize - 1
  /\ ~buf.full => \A i \in Slots : i >= buf.in_offs => buf.entry[i].size = 0
  /\ IF buf.full THEN buf.in_offs = buf.out_offs ELSE buf.out_offs = 0

LEMMA TotalSizeZero ==
  ASSUME NEW buf
  PROVE  TotalSize(buf, 0) = 0
<1>1. BytesBefore(buf, 0) = {}
  BY DEF BytesBefore
<1> QED
  BY <1>1, FS_EmptySet DEF TotalSize

LEMMA TotalSizeMonotone ==
  ASSUME NEW buf, NEW n \in Int, NEW m \in Int, n <= m
  PROVE  TotalSize(buf, n) <= TotalSize(buf, m)
<1>1. BytesBefore(buf, n) \in SUBSET BytesBefore(buf, m)
  BY DEF BytesBefore
<1> QED
  BY <1>1, BytesFinite, FS_Subset DEF TotalSize

\* The number of turns is the one that leads to stop.
LEMMA IterationsAre ==
  ASSUME NEW buf, buf.out_offs \in Slots, NEW n \in 1 .. MaxOps
  PROVE  Iterations(buf, SlotAt(buf, n)) = n
<1> DEFINE m == Iterations(buf, SlotAt(buf, n))
<1>1. SlotAt(buf, n) \in Slots
  BY SlotAtType, RingAssumption
<1>2. m \in 1 .. MaxOps /\ SlotAt(buf, m) = SlotAt(buf, n)
  BY <1>1, IterationsType
<1> HIDE DEF m
<1>3. m = n
  BY <1>2, WrapAround, RingAssumption DEF SlotAt, Slots
<1> QED
  BY <1>3 DEF m

\* A search ends where the bytes before reach past its offset for the first time.
LEMMA FindEntryIs ==
  ASSUME NEW buf, buf.out_offs \in Slots, buf.in_offs \in Slots, ~IsEmpty(buf),
         NEW off \in Nat, NEW k \in 0 .. Iterations(buf, buf.in_offs) - 1,
         TotalSize(buf, k) <= off, TotalSize(buf, k + 1) > off
  PROVE  FindEntry(buf, off) =
           [slot |-> SlotAt(buf, k), offset |-> off - TotalSize(buf, k)]
<1>1. Iterations(buf, buf.in_offs) \in 1 .. MaxOps
  BY IterationsType
<1>2. k \in Hits(buf, off)
  BY DEF Hits
<1>3. ASSUME NEW j \in Hits(buf, off) PROVE j = k
  <2>1. j \in Int /\ k \in Int /\ TotalSize(buf, j) <= off /\ TotalSize(buf, j + 1) > off
    BY <1>1, RingAssumption DEF Hits
  <2>2. /\ TotalSize(buf, j) \in Nat /\ TotalSize(buf, j + 1) \in Nat
        /\ TotalSize(buf, k) \in Nat /\ TotalSize(buf, k + 1) \in Nat
    BY <2>1, TotalSizeType
  <2>3. CASE j < k
    <3>1. TotalSize(buf, j + 1) <= TotalSize(buf, k)
      BY <2>1, <2>3, TotalSizeMonotone
    <3> QED
      BY <2>1, <2>2, <3>1
  <2>4. CASE k < j
    <3>1. TotalSize(buf, k + 1) <= TotalSize(buf, j)
      BY <2>1, <2>4, TotalSizeMonotone
    <3> QED
      BY <2>1, <2>2, <3>1
  <2> QED
    BY <2>1, <2>3, <2>4
<1>4. (CHOOSE j \in Hits(buf, off) : TRUE) = k
  BY <1>2, <1>3
<1> QED
  BY <1>2, <1>4 DEF FindEntry

\* The search goes once round a full ring, and to in_offs in one that is not.
LEMMA TurnsToTheEnd ==
  ASSUME NEW buf, NoHoles(buf), ~IsEmpty(buf)
  PROVE  Iterations(buf, buf.in_offs) = IF buf.full THEN MaxOps ELSE buf.in_offs
<1>0. buf.in_offs \in Slots /\ buf.out_offs \in Slots
  BY DEF NoHoles
<1>1. CASE buf.full
  <2>1. SlotAt(buf, MaxOps) = buf.in_offs
    BY <1>1, WrapAround, RingAssumption DEF SlotAt, Slots, NoHoles
  <2> QED
    BY <1>0, <1>1, <2>1, IterationsAre, RingAssumption
<1>2. CASE ~buf.full
  <2>1. buf.out_offs = 0 /\ buf.in_offs \in 1 .. MaxOps - 1
    BY <1>0, <1>2, RingAssumption DEF NoHoles, IsEmpty, Slots
  <2>2. SlotAt(buf, buf.in_offs) = buf.in_offs
    BY <2>1, WrapAround, RingAssumption DEF SlotAt
  <2> QED
    BY <1>0, <1>2, <2>1, <2>2, IterationsAre, RingAssumption
<1> QED
  BY <1>1, <1>2

\* The turns up to in_offs go over every slot that holds bytes.
LEMMA WholeRing ==
  ASSUME NEW buf, NoHoles(buf), ~IsEmpty(buf)
  PROVE  TotalSize(buf, Iterations(buf, buf.in_offs)) = TotalSize(buf, MaxOps)
<1>0. buf.in_offs \in Slots /\ buf.out_offs \in Slots
  BY DEF NoHoles
<1>1. CASE buf.full
  BY <1>1, TurnsToTheEnd
<1>2. CASE ~buf.full
  <2>1. buf.out_offs = 0 /\ buf.in_offs \in 1 .. MaxOps - 1
    BY <1>0, <1>2, RingAssumption DEF NoHoles, IsEmpty, Slots
  <2>2. \A k \in 0 .. MaxOps - 1 : SlotAt(buf, k) = k
    BY <2>1, WrapAround, RingAssumption DEF SlotAt
  <2>3. Iterations(buf, buf.in_offs) = buf.in_offs
    BY <1>2, TurnsToTheEnd
  <2>4. BytesBefore(buf, MaxOps) \subseteq BytesBefore(buf, buf.in_offs)
    <3> SUFFICES ASSUME NEW kb \in BytesBefore(buf, MaxOps)
                 PROVE  kb \in BytesBefore(buf, buf.in_offs)
      OBVIOUS
    <3>1. /\ kb \in (0 .. MaxOps - 1) \X (0 .. MaxWriteSize - 1)
          /\ kb[2] < buf.entry[SlotAt(buf, kb[1])].size
      BY DEF BytesBefore
    <3>2. SlotAt(buf, kb[1]) = kb[1] /\ kb[1] \in Slots
      BY <2>2, <3>1 DEF Slots
    <3>3. kb[1] < buf.in_offs
      BY <1>2, <2>1, <3>1, <3>2, RingAssumption DEF NoHoles
    <3> QED
      BY <2>1, <3>1, <3>3 DEF BytesBefore
  <2>5. BytesBefore(buf, buf.in_offs) \subseteq BytesBefore(buf, MaxOps)
    BY <2>1, RingAssumption DEF BytesBefore
  <2> QED
    BY <2>3, <2>4, <2>5 DEF TotalSize
<1> QED
  BY <1>1, <1>2

\* An empty ring holds no bytes.
LEMMA EmptyRing ==
  ASSUME NEW buf, NoHoles(buf), IsEmpty(buf)
  PROVE  TotalSize(buf, MaxOps) = 0
<1>1. \A i \in Slots : buf.entry[i].size = 0
  BY RingAssumption DEF NoHoles, IsEmpty, Slots
<1>2. ASSUME NEW kb \in BytesBefore(buf, MaxOps) PROVE FALSE
  <2>1. /\ kb \in (0 .. MaxOps - 1) \X (0 .. MaxWriteSize - 1)
        /\ kb[2] < buf.entry[SlotAt(buf, kb[1])].size
    BY DEF BytesBefore
  <2>2. SlotAt(buf, kb[1]) \in Slots
    BY <2>1, SlotAtType, RingAssumption DEF NoHoles
  <2> QED
    BY <1>1, <2>1, <2>2, RingAssumption
<1>3. BytesBefore(buf, MaxOps) = {}
  BY <1>2
<1> QED
  BY <1>3, FS_EmptySet DEF TotalSize

\* The size before a slot, plus an offset into it, is found in that very slot.
THEOREM SeekFinds ==
  ASSUME NEW buf, NoHoles(buf), NEW cmd \in Slots,
         NEW off \in Nat, off < buf.entry[cmd].size
  PROVE  /\ BufferSize(buf, cmd) \in Nat
         /\ FindEntry(buf, BufferSize(buf, cmd) + off) = [slot |-> cmd, offset |-> off]
<1> DEFINE n == IF cmd = buf.out_offs THEN 0 ELSE Iterations(buf, cmd)
           turns == Iterations(buf, buf.in_offs)
           total == TotalSize(buf, n)
<1>0. buf.in_offs \in Slots /\ buf.out_offs \in Slots /\ buf.entry[cmd].size \in Nat
  BY DEF NoHoles
<1>1. ~IsEmpty(buf)
  BY RingAssumption DEF NoHoles, IsEmpty, Slots
<1>2. n \in 0 .. turns - 1 /\ SlotAt(buf, n) = cmd /\ turns \in 1 .. MaxOps
  <2>1. CASE buf.full
    <3>1. SlotAt(buf, MaxOps) = buf.out_offs /\ SlotAt(buf, 0) = buf.out_offs
      BY <1>0, WrapAround, RingAssumption DEF SlotAt, Slots
    <3>2. turns = MaxOps
      BY <1>1, <2>1, TurnsToTheEnd
    <3>3. CASE cmd = buf.out_offs
      BY <3>1, <3>2, <3>3, RingAssumption
    <3>4. CASE cmd # buf.out_offs
      <4>1. Iterations(buf, cmd) \in 1 .. MaxOps /\ SlotAt(buf, Iterations(buf, cmd)) = cmd
        BY <1>0, IterationsType
      <4> QED
        BY <3>1, <3>2, <3>4, <4>1, RingAssumption
    <3> QED
      BY <3>3, <3>4
  <2>2. CASE ~buf.full
    <3>1. buf.out_offs = 0 /\ buf.in_offs \in 1 .. MaxOps - 1 /\ cmd < buf.in_offs
      BY <1>0, <1>1, <2>2, RingAssumption DEF NoHoles, IsEmpty, Slots
    <3>2. \A k \in 0 .. MaxOps - 1 : SlotAt(buf, k) = k
      BY <3>1, WrapAround, RingAssumption DEF SlotAt
    <3>3. \A k \in 1 .. MaxOps - 1 : Iterations(buf, k) = k
      <4> SUFFICES ASSUME NEW k \in 1 .. MaxOps - 1 PROVE Iterations(buf, k) = k
        OBVIOUS
      <4>1. SlotAt(buf, k) = k
        BY <3>2
      <4> QED
        BY <1>0, <4>1, IterationsAre, RingAssumption
    <3>4. n = cmd
      BY <3>1, <3>3, RingAssumption DEF Slots
    <3> QED
      BY <3>1, <3>2, <3>3, <3>4, RingAssumption DEF Slots
  <2> QED
    BY <2>1, <2>2
<1>3. BufferSize(buf, cmd) = total
  BY <1>1, TotalSizeZero DEF BufferSize
<1> HIDE DEF n
<1>4. total \in Nat /\ TotalSize(buf, n + 1) = total + buf.entry[cmd].size
  <2>1. n \in 0 .. MaxOps - 1
    BY <1>2, RingAssumption
  <2> QED
    BY <1>0, <1>2, <2>1, TotalSizeStep, TotalSizeType DEF NoHoles
<1> HIDE DEF total
<1>5. total + off \in Nat /\ total <= total + off /\ total + buf.entry[cmd].size > total + off
      /\ total + off - total = off
  BY <1>0, <1>4
<1>6. FindEntry(buf, total + off) = [slot |-> SlotAt(buf, n), offset |-> total + off - total]
  <2>1. TotalSize(buf, n) = total
    BY DEF total
  <2> QED
    BY <1>0, <1>1, <1>2, <1>4, <1>5, <2>1, FindEntryIs
<1> QED
  BY <1>2, <1>3, <1>4, <1>5, <1>6

\* The size before in_offs: all that is stored, but nothing in a full ring.
LEMMA SizeToTheEnd ==
  ASSUME NEW buf, NoHoles(buf)
  PROVE  BufferSize(buf, buf.in_offs) = IF buf.full THEN 0 ELSE TotalSize(buf, MaxOps)
<1>1. CASE IsEmpty(buf)
  BY <1>1, EmptyRing DEF BufferSize, IsEmpty
<1>2. CASE ~IsEmpty(buf) /\ buf.full
  BY <1>2 DEF BufferSize, NoHoles
<1>3. CASE ~IsEmpty(buf) /\ ~buf.full
  BY <1>3, WholeRing DEF BufferSize, IsEmpty
<1> QED
  BY <1>1, <1>2, <1>3

\* A search that finds nothing looked behind all that is stored: as long as the
\* bytes of some turns do not reach past the offset, those of one more do not.
LEMMA NotFoundBehind ==
  ASSUME NEW buf, NoHoles(buf), NEW off \in Nat, FindEntry(buf, off) = NotFound
  PROVE  TotalSize(buf, MaxOps) <= off
<1> DEFINE turns == Iterations(buf, buf.in_offs)
           short == {k \in 0 .. turns : TotalSize(buf, k) <= off}
<1>1. CASE IsEmpty(buf)
  BY <1>1, EmptyRing
<1>2. CASE ~IsEmpty(buf)
  <2>1. turns \in 1 .. MaxOps /\ turns \in Nat
    BY IterationsType, RingAssumption DEF NoHoles
  <2>2. Hits(buf, off) = {}
    <3> SUFFICES ASSUME NEW k \in Hits(buf, off) PROVE FALSE
      OBVIOUS
    <3>1. k \in 0 .. turns - 1 /\ TotalSize(buf, k) <= off /\ TotalSize(buf, k + 1) > off
      BY DEF Hits
    <3>2. FindEntry(buf, off).slot = SlotAt(buf, k)
      BY <1>2, <3>1, FindEntryIs DEF NoHoles
    <3>3. SlotAt(buf, k) \in Slots
      <4>1. k \in 0 .. MaxOps
        BY <2>1, <3>1, RingAssumption
      <4> QED
        BY <4>1, SlotAtType DEF NoHoles
    <3> QED
      BY <3>2, <3>3, RingAssumption DEF NotFound, Slots
  <2> HIDE DEF turns
  <2>3. 0 \in short
    BY <2>1, TotalSizeZero
  <2>4. ASSUME NEW k \in 0 .. turns - 1, k \in short PROVE k + 1 \in short
    <3>1. k + 1 \in 0 .. turns
      BY <2>1
    <3>2. ~(TotalSize(buf, k + 1) > off)
      BY <2>2, <2>4 DEF Hits, turns
    <3>3. TotalSize(buf, k + 1) <= off
      BY <3>1, <3>2, TotalSizeType
    <3> QED
      BY <3>1, <3>3
  <2>5. turns \in short
    <3> HIDE DEF short
    <3> QED
      BY <2>1, <2>3, <2>4, IntervalInduction
  <2> QED
    BY <1>2, <2>5, WholeRing DEF turns
<1> QED
  BY <1>1, <1>2

-----------------------------------------------------------------------------
(* What the ring promises to the driver. *)

\* Search and size agree on every offset: aesd_circular_buffer_find_entry_...
\* finds each stored byte, at the place where aesd_circular_buffer_size puts its
\* slot, and finds nothing exactly when the offset is behind all that is stored.
THEOREM SearchIsExact ==
  ASSUME NEW buf, NoHoles(buf), NEW off \in Nat
  PROVE  LET found == FindEntry(buf, off)
         IN  IF off < TotalSize(buf, MaxOps)
             THEN /\ found.slot \in Slots
                  /\ found.offset \in 0 .. buf.entry[found.slot].size - 1
                  /\ BufferSize(buf, found.slot) + found.offset = off
             ELSE found = NotFound
<1>0. /\ buf.in_offs \in Slots /\ buf.out_offs \in Slots
      /\ \A i \in Slots : buf.entry[i].size \in 0 .. MaxWriteSize - 1
      /\ TotalSize(buf, MaxOps) \in Nat
  BY TotalSizeType, RingAssumption DEF NoHoles
<1>1. CASE FindEntry(buf, off) = NotFound
  BY <1>0, <1>1, NotFoundBehind
<1>2. CASE FindEntry(buf, off) # NotFound
  <2> DEFINE k == CHOOSE j \in Hits(buf, off) : TRUE
             slot == SlotAt(buf, k)
             total == TotalSize(buf, k)
  <2>1. k \in Hits(buf, off) /\ ~IsEmpty(buf)
    BY <1>2 DEF FindEntry
  <2>2. FindEntry(buf, off) = [slot |-> slot, offset |-> off - total]
    BY <1>2 DEF FindEntry
  <2>3. Iterations(buf, buf.in_offs) \in 1 .. MaxOps
    BY <1>0, IterationsType
  <2>4. k \in 0 .. MaxOps - 1 /\ total <= off /\ TotalSize(buf, k + 1) > off
    BY <2>1, <2>3, RingAssumption DEF Hits
  <2> HIDE DEF k
  <2>5. slot \in Slots /\ total \in Nat /\ TotalSize(buf, k + 1) = total + buf.entry[slot].size
    <3>1. k \in 0 .. MaxOps
      BY <2>4, RingAssumption
    <3> QED
      BY <1>0, <2>4, <3>1, SlotAtType, TotalSizeType, TotalSizeStep
  <2>6. BufferSize(buf, slot) = total
    <3>1. CASE k = 0
      <4>1. slot = buf.out_offs
        BY <1>0, <3>1, WrapAround, RingAssumption DEF SlotAt, Slots
      <4>2. total = 0
        BY <3>1, TotalSizeZero
      <4> QED
        BY <4>1, <4>2 DEF BufferSize
    <3>2. CASE k # 0
      <4>1. k \in 1 .. MaxOps
        BY <2>4, <3>2, RingAssumption
      <4>2. Iterations(buf, slot) = k
        BY <1>0, <4>1, IterationsAre
      <4>3. slot # buf.out_offs
        BY <1>0, <2>4, <4>1, WrapAround, RingAssumption DEF SlotAt, Slots
      <4> QED
        BY <2>1, <4>2, <4>3 DEF BufferSize
    <3> QED
      BY <3>1, <3>2
  <2>7. TotalSize(buf, k + 1) <= TotalSize(buf, MaxOps)
    BY <2>4, TotalSizeMonotone, RingAssumption
  <2>8. buf.entry[slot].size \in Nat
    BY <1>0, <2>5, RingAssumption
  <2> HIDE DEF slot, total
  <2> QED
    BY <1>0, <2>2, <2>4, <2>5, <2>6, <2>7, <2>8
<1> QED
  BY <1>1, <1>2

\* aesd_circular_buffer_init makes a ring without holes that holds nothing.
LEMMA EmptyHasNoHoles == NoHoles(EmptyBuffer) /\ TotalSize(EmptyBuffer, MaxOps) = 0
<1>1. NoHoles(EmptyBuffer)
  BY RingAssumption DEF NoHoles, EmptyBuffer, EmptyEntry, Slots
<1>2. IsEmpty(EmptyBuffer)
  BY DEF IsEmpty, EmptyBuffer
<1> QED
  BY <1>1, <1>2, EmptyRing

\* aesd_circular_buffer_add_entry makes no holes either: it fills the slots in order,
\* and from the moment the ring is full in_offs and out_offs move together.
THEOREM AddKeepsNoHoles ==
  ASSUME NEW buf, NoHoles(buf), DOMAIN buf.entry = Slots,
         NEW e, e.size \in 0 .. MaxWriteSize - 1
  PROVE  NoHoles(AddEntry(buf, e))
<1> DEFINE next == AddEntry(buf, e)
<1>1. /\ buf.in_offs \in Slots /\ buf.out_offs \in Slots /\ buf.full \in BOOLEAN
      /\ NextSlot(buf.in_offs) = (IF buf.in_offs = MaxOps - 1 THEN 0 ELSE buf.in_offs + 1)
      /\ NextSlot(buf.out_offs) = (IF buf.out_offs = MaxOps - 1 THEN 0 ELSE buf.out_offs + 1)
  BY NextSlotCases DEF NoHoles
<1>2. /\ next.in_offs = NextSlot(buf.in_offs)
      /\ next.out_offs = (IF buf.full THEN NextSlot(buf.out_offs) ELSE buf.out_offs)
      /\ next.full \in BOOLEAN
      /\ next.full <=> (buf.full \/ next.in_offs = next.out_offs)
      /\ \A i \in Slots : next.entry[i] = IF i = buf.in_offs THEN e ELSE buf.entry[i]
  BY <1>1 DEF AddEntry
<1> HIDE DEF next
<1>3. next.in_offs \in Slots /\ next.out_offs \in Slots
  BY <1>1, <1>2, RingAssumption DEF Slots
<1>4. \A i \in Slots : next.entry[i].size \in 0 .. MaxWriteSize - 1
  BY <1>2 DEF NoHoles
<1>5. IF next.full THEN next.in_offs = next.out_offs ELSE next.out_offs = 0
  BY <1>1, <1>2 DEF NoHoles
<1>6. ~next.full => \A i \in Slots : i >= next.in_offs => next.entry[i].size = 0
  <2> SUFFICES ASSUME ~next.full, NEW i \in Slots, i >= next.in_offs
               PROVE  next.entry[i].size = 0
    OBVIOUS
  <2>1. ~buf.full /\ buf.out_offs = 0 /\ next.out_offs = 0 /\ next.in_offs # 0
    BY <1>1, <1>2 DEF NoHoles
  <2>2. next.in_offs = buf.in_offs + 1
    BY <1>1, <1>2, <2>1
  <2>3. i # buf.in_offs /\ i >= buf.in_offs
    BY <1>1, <2>2 DEF Slots
  <2> QED
    BY <1>2, <2>1, <2>3 DEF NoHoles
<1> QED
  BY <1>2, <1>3, <1>4, <1>5, <1>6 DEF NoHoles, next

\* What aesd_circular_buffer_add_entry does to the number of bytes stored: the
\* new entry comes in, and only a full ring gives its oldest entry for it.
THEOREM AddTradesBytes ==
  ASSUME NEW buf, NoHoles(buf), DOMAIN buf.entry = Slots,
         NEW e, e.size \in 0 .. MaxWriteSize - 1
  PROVE  TotalSize(AddEntry(buf, e), MaxOps)
           = TotalSize(buf, MaxOps) + e.size
             - IF buf.full THEN buf.entry[buf.out_offs].size ELSE 0
<1> DEFINE next == AddEntry(buf, e)
           gone == buf.entry[buf.out_offs].size
<1>1. /\ buf.in_offs \in Slots /\ buf.out_offs \in Slots /\ buf.full \in BOOLEAN
      /\ NextSlot(buf.out_offs) = (IF buf.out_offs = MaxOps - 1 THEN 0 ELSE buf.out_offs + 1)
      /\ \A i \in Slots : buf.entry[i].size \in 0 .. MaxWriteSize - 1
      /\ gone \in Nat /\ e.size \in Nat
  BY NextSlotCases DEF NoHoles
<1>2. /\ next.out_offs = (IF buf.full THEN NextSlot(buf.out_offs) ELSE buf.out_offs)
      /\ \A i \in Slots : next.entry[i] = IF i = buf.in_offs THEN e ELSE buf.entry[i]
  BY <1>1 DEF AddEntry
<1>3. NoHoles(next)
  BY AddKeepsNoHoles
<1> HIDE DEF next, gone
<1>4. /\ next.out_offs \in Slots
      /\ \A i \in Slots : next.entry[i].size \in 0 .. MaxWriteSize - 1
  BY <1>3 DEF NoHoles
<1>5. \A n \in 0 .. MaxOps : TotalSize(buf, n) \in Nat /\ TotalSize(next, n) \in Nat
  BY TotalSizeType, RingAssumption
<1>6. \A k \in 0 .. MaxOps - 1 :
        /\ TotalSize(buf, k + 1) = TotalSize(buf, k) + buf.entry[SlotAt(buf, k)].size
        /\ TotalSize(next, k + 1) = TotalSize(next, k) + next.entry[SlotAt(next, k)].size
  BY <1>1, <1>4, TotalSizeStep
<1>7. CASE buf.full
  <2> DEFINE shifted == {k \in 0 .. MaxOps - 1 : TotalSize(next, k) + gone = TotalSize(buf, k + 1)}
  <2>1. buf.in_offs = buf.out_offs
    BY <1>7 DEF NoHoles
  <2>2. SlotAt(buf, 0) = buf.out_offs
    BY <1>1, SlotAtCases, RingAssumption DEF Slots
  <2>3. ASSUME NEW k \in 0 .. MaxOps - 1
        PROVE  SlotAt(next, k) = IF k = MaxOps - 1 THEN buf.in_offs ELSE SlotAt(buf, k + 1)
    <3>1. k \in 0 .. MaxOps /\ k + 1 \in 0 .. MaxOps
      BY RingAssumption
    <3>2. SlotAt(buf, k + 1) = LET n == buf.out_offs + (k + 1)
                               IN  IF n < MaxOps THEN n ELSE n - MaxOps
      BY ONLY <1>1, <3>1, SlotAtCases
    <3>3. SlotAt(next, k) = LET n == next.out_offs + k
                            IN  IF n < MaxOps THEN n ELSE n - MaxOps
      BY ONLY <1>4, <3>1, SlotAtCases
    <3>4. MaxOps \in Nat /\ k \in 0 .. MaxOps - 1 /\ buf.out_offs \in 0 .. MaxOps - 1
      BY <1>1, RingAssumption DEF Slots
    <3>5. next.out_offs = IF buf.out_offs = MaxOps - 1 THEN 0 ELSE buf.out_offs + 1
      BY <1>1, <1>2, <1>7
    <3> QED
      BY ONLY <2>1, <3>2, <3>3, <3>4, <3>5
  <2>4. ASSUME NEW k \in 0 .. MaxOps - 2
        PROVE  SlotAt(buf, k + 1) \in Slots /\ SlotAt(buf, k + 1) # buf.in_offs
    <3>1. k + 1 \in 0 .. MaxOps
      BY RingAssumption
    <3>2. SlotAt(buf, k + 1) = LET n == buf.out_offs + (k + 1)
                               IN  IF n < MaxOps THEN n ELSE n - MaxOps
      BY ONLY <1>1, <3>1, SlotAtCases
    <3> QED
      BY <1>1, <2>1, <3>2, RingAssumption DEF Slots
  <2>5. 0 \in shifted
    <3>1. TotalSize(buf, 0 + 1) = TotalSize(buf, 0) + gone
      BY <1>6, <2>2, RingAssumption DEF gone
    <3>2. TotalSize(buf, 0) = 0 /\ TotalSize(next, 0) = 0
      BY TotalSizeZero
    <3> QED
      BY <1>1, <3>1, <3>2, RingAssumption
  <2>6. ASSUME NEW k \in 0 .. MaxOps - 1 - 1, k \in shifted
        PROVE  k + 1 \in shifted
    <3>1. k \in 0 .. MaxOps - 2 /\ k \in 0 .. MaxOps - 1 /\ k + 1 \in 0 .. MaxOps - 1
          /\ k \in 0 .. MaxOps /\ k + 1 \in 0 .. MaxOps
      BY RingAssumption
    <3>2. next.entry[SlotAt(next, k)] = buf.entry[SlotAt(buf, k + 1)]
      BY <1>2, <2>3, <2>4, <3>1, RingAssumption
    <3>3. TotalSize(next, k + 1) = TotalSize(next, k) + buf.entry[SlotAt(buf, k + 1)].size
      BY <1>6, <3>1, <3>2
    <3>4. TotalSize(buf, k + 1 + 1) = TotalSize(buf, k + 1) + buf.entry[SlotAt(buf, k + 1)].size
      BY <1>6, <3>1
    <3>5. buf.entry[SlotAt(buf, k + 1)].size \in Int
      BY <1>1, <2>4, <3>1, RingAssumption
    <3> QED
      BY <1>1, <1>5, <2>6, <3>1, <3>3, <3>4, <3>5
  <2>7. MaxOps - 1 \in shifted
    <3>1. MaxOps - 1 \in Nat
      BY RingAssumption
    <3> HIDE DEF shifted
    <3> QED
      BY <2>5, <2>6, <3>1, IntervalInduction
  <2>8. TotalSize(next, MaxOps - 1) + gone = TotalSize(buf, MaxOps)
    BY <2>7, RingAssumption
  <2>9. TotalSize(next, MaxOps) = TotalSize(next, MaxOps - 1) + e.size
    <3>1. MaxOps - 1 \in 0 .. MaxOps - 1 /\ MaxOps - 1 + 1 = MaxOps
      BY RingAssumption
    <3>2. next.entry[SlotAt(next, MaxOps - 1)] = e
      BY <1>1, <1>2, <2>3, <3>1
    <3> QED
      BY <1>6, <3>1, <3>2
  <2>10. /\ TotalSize(next, MaxOps - 1) \in Nat
         /\ TotalSize(next, MaxOps) \in Nat /\ TotalSize(buf, MaxOps) \in Nat
    BY <1>5, RingAssumption
  <2> QED
    BY <1>1, <1>7, <2>8, <2>9, <2>10 DEF next, gone
<1>8. CASE ~buf.full
  <2> DEFINE come(k) == IF k > buf.in_offs THEN e.size ELSE 0
             grown == {k \in 0 .. MaxOps : TotalSize(next, k) = TotalSize(buf, k) + come(k)}
  <2>1. buf.out_offs = 0 /\ next.out_offs = 0 /\ buf.entry[buf.in_offs].size = 0
    BY <1>1, <1>2, <1>8 DEF NoHoles, Slots
  <2>2. ASSUME NEW k \in Slots PROVE SlotAt(buf, k) = k /\ SlotAt(next, k) = k
    <3>1. k \in 0 .. MaxOps
      BY RingAssumption DEF Slots
    <3>2. SlotAt(buf, k) = LET n == buf.out_offs + k IN IF n < MaxOps THEN n ELSE n - MaxOps
      BY ONLY <1>1, <3>1, SlotAtCases
    <3>3. SlotAt(next, k) = LET n == next.out_offs + k IN IF n < MaxOps THEN n ELSE n - MaxOps
      BY ONLY <1>4, <3>1, SlotAtCases
    <3> QED
      BY <2>1, <3>1, <3>2, <3>3, RingAssumption DEF Slots
  <2>3. 0 \in grown
    BY <1>1, TotalSizeZero, RingAssumption DEF Slots
  <2>4. ASSUME NEW k \in 0 .. MaxOps - 1, k \in grown
        PROVE  k + 1 \in grown
    <3>1. k \in Slots /\ k \in 0 .. MaxOps /\ k + 1 \in 0 .. MaxOps
      BY RingAssumption DEF Slots
    <3>2. /\ TotalSize(buf, k + 1) = TotalSize(buf, k) + buf.entry[k].size
          /\ TotalSize(next, k + 1) = TotalSize(next, k) + next.entry[k].size
      BY <1>6, <2>2, <3>1
    <3>3. next.entry[k] = IF k = buf.in_offs THEN e ELSE buf.entry[k]
      BY <1>2, <3>1
    <3>4. /\ buf.entry[k].size \in Int /\ TotalSize(buf, k) \in Int
          /\ TotalSize(next, k) = TotalSize(buf, k) + come(k)
      BY <1>1, <1>5, <2>4, <3>1, RingAssumption
    <3>5. TotalSize(next, k + 1) = TotalSize(buf, k + 1) + come(k + 1)
      <4>1. CASE k = buf.in_offs
        <5>1. come(k) = 0 /\ come(k + 1) = e.size
          BY <1>1, <3>1, <4>1 DEF Slots
        <5> QED
          BY <1>1, <2>1, <3>2, <3>3, <3>4, <4>1, <5>1
      <4>2. CASE k # buf.in_offs
        <5>1. come(k) = come(k + 1) /\ come(k) \in Int
          BY <1>1, <3>1, <4>2 DEF Slots
        <5> HIDE DEF come
        <5> QED
          BY <3>2, <3>3, <3>4, <4>2, <5>1
      <4> QED
        BY <4>1, <4>2
    <3> QED
      BY <3>1, <3>5
  <2>5. MaxOps \in grown
    <3>1. MaxOps \in Nat
      BY RingAssumption
    <3> HIDE DEF grown
    <3> QED
      BY <2>3, <2>4, <3>1, IntervalInduction
  <2>6. MaxOps > buf.in_offs
    BY <1>1, RingAssumption DEF Slots
  <2>7. TotalSize(next, MaxOps) = TotalSize(buf, MaxOps) + e.size
    BY <2>5, <2>6
  <2>8. TotalSize(buf, MaxOps) \in Nat
    BY <1>5, RingAssumption
  <2> QED
    BY <1>1, <1>8, <2>7, <2>8 DEF next
<1> QED
  BY <1>1, <1>7, <1>8
=============================================================================
