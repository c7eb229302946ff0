---------------------- MODULE AesdCharRefinementProofs ----------------------
(***************************************************************************)
(* The driver implements CommandLog: every step of AesdChar with one       *)
(* writer is a step of the log, or none, for rings and lines of any size.  *)
(***************************************************************************)
EXTENDS AesdCharRefinement, AesdCharProofs

USE RingAssumption, DriverAssumption

-----------------------------------------------------------------------------
(* Sequences of sequences laid end to end, by where each of them begins. *)

\* The function of FlattenSeq exists, though it is defined from itself.
LEMMA FlattenExists ==
  ASSUME NEW S, NEW s \in Seq(Seq(S)), Len(s) # 0
  PROVE  \E f : f = [i \in 1 .. Len(s) |-> IF i = 1 THEN s[i] ELSE f[i - 1] \o s[i]]
<1> DEFINE N == Len(s)
           Is(f, m) == f = [i \in 1 .. m |-> IF i = 1 THEN s[i] ELSE f[i - 1] \o s[i]]
           done == {m \in 0 .. N : m = 0 \/ \E f : Is(f, m)}
<1>1. N \in Nat
  OBVIOUS
<1>2. 0 \in done
  BY <1>1
<1>3. ASSUME NEW m \in 0 .. N - 1, m \in done PROVE m + 1 \in done
  <2>1. CASE m = 0
    <3> DEFINE g == [i \in 1 .. 1 |-> s[1]]
    <3>1. Is(g, 1)
      OBVIOUS
    <3>2. m + 1 = 1 /\ 1 \in 0 .. N
      BY <1>1, <2>1
    <3> HIDE DEF g, Is
    <3> QED
      BY <3>1, <3>2
  <2>2. CASE m # 0
    <3>1. PICK f : Is(f, m)
      BY <1>3, <2>2
    <3> DEFINE g == [i \in 1 .. m + 1 |-> IF i <= m THEN f[i] ELSE f[m] \o s[m + 1]]
    <3>2. m \in Nat /\ m >= 1 /\ m + 1 \in 0 .. N
      BY <1>1, <2>2
    <3>3. ASSUME NEW i \in 1 .. m + 1
          PROVE  g[i] = IF i = 1 THEN s[i] ELSE g[i - 1] \o s[i]
      <4>1. CASE i <= m
        <5>1. i \in 1 .. m /\ (i # 1 => i - 1 \in 1 .. m + 1 /\ i - 1 <= m)
          BY <3>2, <4>1
        <5>2. f[i] = IF i = 1 THEN s[i] ELSE f[i - 1] \o s[i]
          BY <3>1, <5>1
        <5> HIDE DEF Is
        <5> QED
          BY <4>1, <5>1, <5>2
      <4>2. CASE ~(i <= m)
        <5>1. i = m + 1 /\ i # 1 /\ i - 1 = m /\ m \in 1 .. m + 1 /\ m <= m
          BY <3>2, <4>2
        <5> HIDE DEF Is
        <5> QED
          BY <5>1, <4>2
      <4> QED
        BY <4>1, <4>2
    <3>4. Is(g, m + 1)
      BY <3>3
    <3> HIDE DEF g, Is
    <3> QED
      BY <3>2, <3>4
  <2> QED
    BY <2>1, <2>2
<1> HIDE DEF done
<1>4. N \in done
  BY <1>1, <1>2, <1>3, IntervalInduction
<1> QED
  BY <1>4 DEF done

\* before[k] is the length of the first k sequences of s together.
Begins(s, before) ==
  /\ before \in [0 .. Len(s) -> Nat]
  /\ before[0] = 0
  /\ \A k \in 0 .. Len(s) - 1 : before[k + 1] = before[k] + Len(s[k + 1])

\* Behind the first k, the next one begins.
LEMMA FlattenFacts ==
  ASSUME NEW S, NEW s \in Seq(Seq(S)), NEW before, Begins(s, before)
  PROVE  /\ FlattenSeq(s) \in Seq(S)
         /\ Len(FlattenSeq(s)) = before[Len(s)]
         /\ \A k \in 0 .. Len(s) - 1 : \A o \in 1 .. Len(s[k + 1]) :
              FlattenSeq(s)[before[k] + o] = s[k + 1][o]
<1> USE DEF Begins
<1> DEFINE N == Len(s)
<1>0. N \in Nat /\ \A i \in 1 .. N : s[i] \in Seq(S) /\ Len(s[i]) \in Nat
  OBVIOUS
<1>1. CASE N = 0
  <2>1. FlattenSeq(s) = s /\ s = <<>>
    BY <1>1 DEF FlattenSeq
  <2> QED
    BY <1>1, <2>1, EmptySeq
<1>2. CASE N # 0
  <2> DEFINE Is(f) == f = [i \in 1 .. N |-> IF i = 1 THEN s[i] ELSE f[i - 1] \o s[i]]
             f == CHOOSE g : Is(g)
  <2>1. FlattenSeq(s) = f[N]
    BY <1>2 DEF FlattenSeq
  <2>2. Is(f)
    BY <1>2, FlattenExists
  <2>3. \A i \in 1 .. N : f[i] = IF i = 1 THEN s[i] ELSE f[i - 1] \o s[i]
    BY <2>2
  <2> HIDE DEF f, Is
  <2> DEFINE Good(m) ==
               /\ f[m] \in Seq(S) /\ Len(f[m]) = before[m]
               /\ \A k \in 0 .. m - 1 : before[k + 1] <= before[m]
               /\ \A k \in 0 .. m - 1 : \A o \in 1 .. Len(s[k + 1]) :
                    f[m][before[k] + o] = s[k + 1][o]
             good == {m \in 0 .. N : m = 0 \/ Good(m)}
  <2>4. 0 \in good
    BY <1>0
  <2>5. ASSUME NEW m \in 0 .. N - 1, m \in good PROVE m + 1 \in good
    <3>0. m + 1 \in 1 .. N /\ m + 1 \in 0 .. N /\ m \in Nat /\ m \in 0 .. N
      BY <1>0
    <3>1. /\ before[m] \in Nat /\ before[m + 1] = before[m] + Len(s[m + 1])
          /\ s[m + 1] \in Seq(S) /\ Len(s[m + 1]) \in Nat
      BY <1>0, <3>0
    <3>2. CASE m = 0
      <4>1. f[1] = s[1]
        BY <2>3, <3>0, <3>2
      <4>2. Good(1)
        BY <3>0, <3>1, <3>2, <4>1
      <4> QED
        BY <3>0, <3>2, <4>2
    <3>3. CASE m # 0
      <4>1. Good(m)
        BY <2>5, <3>3
      <4>2. f[m + 1] = f[m] \o s[m + 1]
        <5>1. ASSUME NEW i \in 1 .. N, i = m + 1 PROVE f[i] = f[m] \o s[i]
          <6>1. i # 1 /\ i - 1 = m
            BY <3>0, <3>3, <5>1
          <6> QED
            BY <2>3, <6>1
        <5> QED
          BY <3>0, <5>1
      <4>3. /\ f[m + 1] \in Seq(S) /\ Len(f[m + 1]) = before[m + 1]
            /\ \A i \in 1 .. before[m + 1] :
                 f[m + 1][i] = IF i <= before[m] THEN f[m][i] ELSE s[m + 1][i - before[m]]
        <5> DEFINE front == f[m]
                   last == s[m + 1]
        <5>1. /\ front \in Seq(S) /\ Len(front) = before[m] /\ last \in Seq(S)
              /\ Len(front) + Len(last) = before[m + 1] /\ f[m + 1] = front \o last
          BY <3>1, <4>1, <4>2
        <5> HIDE DEF Good, front, last
        <5>2. /\ front \o last \in Seq(S) /\ Len(front \o last) = before[m + 1]
              /\ \A i \in 1 .. before[m + 1] :
                   (front \o last)[i] = IF i <= before[m] THEN front[i] ELSE last[i - before[m]]
          <6>1. front \in Seq(S) /\ last \in Seq(S)
            BY <5>1
          <6>2. /\ front \o last \in Seq(S) /\ Len(front \o last) = Len(front) + Len(last)
                /\ \A i \in 1 .. Len(front) + Len(last) :
                     (front \o last)[i] = IF i <= Len(front) THEN front[i] ELSE last[i - Len(front)]
            BY <6>1, ConcatProperties
          <6> QED
            BY <5>1, <6>2
        <5> QED
          BY <5>1, <5>2 DEF front, last
      <4>4. ASSUME NEW k \in 0 .. m + 1 - 1 PROVE before[k + 1] <= before[m + 1]
        <5>1. CASE k = m
          BY <3>1, <5>1
        <5>2. CASE k # m
          <6>1. k \in 0 .. m - 1 /\ k + 1 \in 0 .. N
            BY <3>0, <5>2
          <6>2. before[k + 1] <= before[m] /\ before[k + 1] \in Nat
            BY <4>1, <6>1
          <6> QED
            BY <3>1, <6>2
        <5> QED
          BY <5>1, <5>2
      <4>5. ASSUME NEW k \in 0 .. m + 1 - 1, NEW o \in 1 .. Len(s[k + 1])
            PROVE  f[m + 1][before[k] + o] = s[k + 1][o]
        <5>0. /\ k \in 0 .. N - 1 /\ k \in 0 .. N /\ k + 1 \in 1 .. N /\ k + 1 \in 0 .. N
          BY <3>0
        <5>1. /\ before[k] \in Nat /\ before[k + 1] = before[k] + Len(s[k + 1])
              /\ before[k + 1] \in Nat /\ Len(s[k + 1]) \in Nat
          BY <1>0, <5>0
        <5>2. /\ before[k + 1] <= before[m + 1] /\ before[m + 1] \in Nat
              /\ before[k] + o \in 1 .. before[m + 1]
          <6>1. before[k + 1] <= before[m + 1] /\ before[m + 1] \in Nat
            BY <3>0, <4>4
          <6>2. before[k] + o \in Nat \ {0} /\ before[k] + o <= before[k + 1]
            BY <5>1
          <6> QED
            BY SMTT(30), <5>1, <6>1, <6>2
        <5>3. CASE k = m
          <6>1. ASSUME NEW i \in 1 .. before[m + 1], i = before[k] + o
                PROVE  f[m + 1][i] = s[k + 1][o]
            <7>1. ~(i <= before[m]) /\ i - before[m] = o
              BY <3>1, <5>1, <5>3, <6>1
            <7> QED
              BY <4>3, <5>3, <7>1
          <6> QED
            BY <5>2, <6>1
        <5>4. CASE k # m
          <6>1. k \in 0 .. m - 1
            BY <3>0, <5>4
          <6>2. before[k] + o <= before[m]
            BY SMTT(30), <3>1, <4>1, <5>1, <6>1
          <6> QED
            BY <4>1, <4>3, <5>2, <6>1, <6>2
        <5> QED
          BY <5>3, <5>4
      <4>6. Good(m + 1)
        BY <4>3, <4>4, <4>5
      <4> HIDE DEF Good
      <4> QED
        BY <3>0, <4>6
    <3> QED
      BY <3>2, <3>3
  <2> HIDE DEF good
  <2>6. N \in good
    BY <1>0, <2>4, <2>5, IntervalInduction
  <2>7. Good(N)
    BY <1>2, <2>6 DEF good
  <2> QED
    BY <2>1, <2>7
<1> QED
  BY <1>1, <1>2

\* The last of them that is not empty ends the whole.
LEMMA FlattenEnds ==
  ASSUME NEW S, NEW s \in Seq(Seq(S)), NEW before, Begins(s, before), NEW end,
         \A k \in 1 .. Len(s) : s[k] # <<>> => Last(s[k]) = end,
         FlattenSeq(s) # <<>>
  PROVE  Last(FlattenSeq(s)) = end
<1> DEFINE N    == Len(s)
           flat == FlattenSeq(s)
           ends == {m \in 0 .. N : before[m] = 0 \/ flat[before[m]] = end}
<1>0. N \in Nat /\ \A i \in 1 .. N : s[i] \in Seq(S) /\ Len(s[i]) \in Nat
  OBVIOUS
<1>1. flat \in Seq(S) /\ Len(flat) = before[N]
  <2>1. flat \in Seq(S)
    BY FlattenFacts
  <2>2. Len(flat) = before[N]
    BY FlattenFacts
  <2> QED
    BY <2>1, <2>2
<1>2. \A k \in 0 .. N - 1 : \A o \in 1 .. Len(s[k + 1]) : flat[before[k] + o] = s[k + 1][o]
  BY FlattenFacts
<1> HIDE DEF flat
<1>3. 0 \in ends
  BY <1>0 DEF Begins
<1>4. ASSUME NEW k \in 0 .. N - 1, k \in ends PROVE k + 1 \in ends
  <2> DEFINE line == s[k + 1]
             len  == Len(line)
  <2>1. /\ k + 1 \in 0 .. N /\ k + 1 \in 1 .. N /\ k \in 0 .. N
        /\ line \in Seq(S) /\ len \in Nat
        /\ before[k + 1] = before[k] + len /\ before[k] \in Nat
    <3>1. k + 1 \in 0 .. N /\ k + 1 \in 1 .. N /\ k \in 0 .. N
      BY <1>0
    <3>2. before[k + 1] = before[k] + Len(s[k + 1]) /\ before[k] \in Nat
      BY <3>1 DEF Begins
    <3> QED
      BY <1>0, <3>1, <3>2
  <2>2. CASE len = 0
    BY <1>4, <2>1, <2>2
  <2>3. CASE len # 0
    <3>1. len \in 1 .. len /\ line # <<>>
      <4> HIDE DEF line
      <4> QED
        BY <2>1, <2>3
    <3>2. flat[before[k] + len] = line[len]
      BY <1>2, <3>1
    <3>3. line[len] = end
      BY <2>1, <3>1 DEF Last
    <3> QED
      BY <2>1, <3>2, <3>3
  <2> QED
    BY <2>2, <2>3
<1> HIDE DEF ends
<1>5. N \in ends
  BY <1>0, <1>3, <1>4, IntervalInduction
<1>6. before[N] # 0
  BY <1>1, EmptySeq DEF flat
<1>7. flat[before[N]] = end
  BY <1>5, <1>6 DEF ends
<1> QED
  BY <1>1, <1>7 DEF Last, flat

-----------------------------------------------------------------------------
(* The commands of the ring, the pending line, and what is stored. *)

LEMMA EntriesAre ==
  ASSUME Inv
  PROVE  /\ Entries(circular_buffer) =
              IF circular_buffer.full THEN MaxOps ELSE circular_buffer.in_offs
         /\ Entries(circular_buffer) \in 0 .. MaxOps
<1> DEFINE buf == circular_buffer
<1>1. NoHoles(buf) /\ buf.in_offs \in Slots /\ buf.out_offs \in Slots
  BY RingHasNoHoles, RingType DEF Inv
<1>2. CASE IsEmpty(buf)
  <2>1. Entries(buf) = 0 /\ ~buf.full /\ buf.in_offs = 0
    BY <1>1, <1>2 DEF Entries, IsEmpty, NoHoles
  <2> QED
    BY <2>1
<1>3. CASE ~IsEmpty(buf)
  <2>1. Entries(buf) = Iterations(buf, buf.in_offs)
    BY <1>3 DEF Entries
  <2>2. Iterations(buf, buf.in_offs) \in 1 .. MaxOps
    BY <1>1, IterationsType
  <2> QED
    BY <1>1, <1>3, <2>1, <2>2, TurnsToTheEnd
<1> QED
  BY <1>2, <1>3

\* The slots in use hold commands, of the size their entry tells.
LEMMA CommandsAre ==
  ASSUME Inv, NEW k \in 0 .. Entries(circular_buffer) - 1
  PROVE  LET e == circular_buffer.entry[SlotAt(circular_buffer, k)]
         IN  /\ SlotAt(circular_buffer, k) \in Slots
             /\ e.buffptr \in Blocks \cup {ZeroPtr}
             /\ Command(k) \in Seq(Byte) /\ Len(Command(k)) = e.size
             /\ e.buffptr \in Blocks => Command(k) = heap[e.buffptr]
<1> DEFINE buf == circular_buffer
           i   == SlotAt(buf, k)
           e   == buf.entry[i]
<1>1. k \in 0 .. MaxOps - 1 /\ k \in 0 .. MaxOps
  BY EntriesAre
<1>2. buf.out_offs \in Slots /\ buf.in_offs \in Slots
  BY RingType DEF Inv
<1>3. i \in Slots
  BY <1>1, <1>2, SlotAtType
<1>4. e.buffptr # NULL
  <2>1. CASE buf.full
    BY <1>3, <2>1 DEF Inv, RingShape
  <2>2. CASE ~buf.full
    <3>1. buf.out_offs = 0 /\ k < buf.in_offs
      BY <2>2, EntriesAre DEF Inv, RingShape
    <3>2. i = k
      BY <1>1, <3>1, WrapAround DEF SlotAt
    <3>3. ~(i >= buf.in_offs)
      BY <1>1, <1>2, <3>1, <3>2 DEF Slots
    <3> QED
      BY <1>3, <2>2, <3>3 DEF Inv, RingShape
  <2> QED
    BY <2>1, <2>2
<1>5. e.buffptr \in Blocks \cup {ZeroPtr}
  BY <1>3, <1>4, RingType DEF Inv
<1>6. CASE e.buffptr \in Blocks
  <2>1. /\ Command(k) = heap[e.buffptr] /\ heap[e.buffptr] \in Line
        /\ e.size = Len(heap[e.buffptr])
    BY <1>3, <1>6 DEF Command, Inv, TypeOK, HeapOwned, Live
  <2>2. heap[e.buffptr] \in Seq(Byte)
    BY <2>1 DEF Line
  <2> QED
    BY <1>3, <1>5, <2>1, <2>2
<1>7. CASE e.buffptr \notin Blocks
  <2>1. Command(k) = <<>> /\ e.size = 0
    BY <1>3, <1>7 DEF Command, Inv, RingShape
  <2> QED
    BY <1>3, <1>5, <1>7, <2>1, EmptySeq
<1> QED
  BY <1>6, <1>7

LEMMA LogType ==
  ASSUME Inv
  PROVE  /\ LogOfRing \in Seq(Seq(Byte))
         /\ Len(LogOfRing) = Entries(circular_buffer)
         /\ \A k \in 1 .. Entries(circular_buffer) : LogOfRing[k] = Command(k - 1)
<1> DEFINE n == Entries(circular_buffer)
<1>1. n \in Nat
  BY EntriesAre
<1>2. \A k \in 1 .. n : k - 1 \in 0 .. n - 1
  BY <1>1
<1>3. \A k \in 1 .. n : Command(k - 1) \in Seq(Byte)
  BY <1>2, CommandsAre
<1> HIDE DEF n
<1>4. LogOfRing = [k \in 1 .. n |-> Command(k - 1)]
  BY DEF LogOfRing, n
<1>5. LogOfRing \in Seq(Seq(Byte)) /\ Len(LogOfRing) = n
  BY <1>1, <1>3, <1>4
<1> QED
  BY <1>4, <1>5 DEF n

LEMMA PendingType ==
  ASSUME Inv, WriterInv
  PROVE  /\ PendingOfBuffer \in Seq(Byte) /\ Len(PendingOfBuffer) = write_buffer_index
         /\ \A i \in 1 .. write_buffer_index : PendingOfBuffer[i] = write_buffer[i - 1]
<1>1. /\ write_buffer_index \in 0 .. MaxWriteSize - 1
      /\ write_buffer \in [0 .. MaxWriteSize - 1 -> Byte]
  BY DEF Inv, TypeOK, WriterInv
<1>2. \A i \in 1 .. write_buffer_index : write_buffer[i - 1] \in Byte
  BY <1>1
<1> QED
  BY <1>1, <1>2 DEF PendingOfBuffer

\* The commands of the ring begin where TotalSize says.
Sizes == [k \in 0 .. Entries(circular_buffer) |-> TotalSize(circular_buffer, k)]

LEMMA LogBegins ==
  ASSUME Inv
  PROVE  /\ Begins(LogOfRing, Sizes)
         /\ \A k \in 0 .. Entries(circular_buffer) : Sizes[k] = TotalSize(circular_buffer, k)
<1> DEFINE buf    == circular_buffer
           n      == Entries(buf)
           before == Sizes
<1>1. n \in 0 .. MaxOps
  BY EntriesAre
<1>2. /\ before \in [0 .. Len(LogOfRing) -> Nat] /\ before[0] = 0
      /\ \A k \in 0 .. n : before[k] = TotalSize(buf, k)
  <2>1. \A k \in 0 .. n : TotalSize(buf, k) \in Nat
    BY TotalSizeType
  <2> QED
    BY <1>1, <2>1, LogType, TotalSizeZero DEF Sizes
<1> HIDE DEF before
<1>3. ASSUME NEW k \in 0 .. Len(LogOfRing) - 1
      PROVE  before[k + 1] = before[k] + Len(LogOfRing[k + 1])
  <2>1. /\ k + 1 \in 1 .. n /\ k + 1 \in 0 .. n /\ k \in 0 .. n /\ k \in 0 .. n - 1
        /\ k + 1 - 1 = k /\ k \in 0 .. MaxOps - 1
    BY <1>1, LogType
  <2>2. LogOfRing[k + 1] = Command(k)
    BY <2>1, LogType
  <2>3. TotalSize(buf, k + 1) = TotalSize(buf, k) + buf.entry[SlotAt(buf, k)].size
    BY <2>1, TotalSizeStep, RingType DEF Inv
  <2>4. before[k] = TotalSize(buf, k) /\ before[k + 1] = TotalSize(buf, k + 1)
    BY <1>2, <2>1
  <2>5. Len(Command(k)) = buf.entry[SlotAt(buf, k)].size
    BY <2>1, CommandsAre
  <2> QED
    BY <2>2, <2>3, <2>4, <2>5
<1> QED
  BY <1>2, <1>3 DEF Begins, before

LEMMA StreamIsFlat == CL!Stream = FlattenSeq(LogOfRing)
BY DEF CL!Stream, FlattenSeq, CL!FlattenSeq

\* Byte o of the k-th command is the byte behind the first k commands.
LEMMA StreamIs ==
  ASSUME Inv
  PROVE  /\ CL!Stream \in Seq(Byte)
         /\ Len(CL!Stream) = TotalSize(circular_buffer, Entries(circular_buffer))
         /\ \A k \in 0 .. Entries(circular_buffer) - 1 : \A o \in 1 .. Len(Command(k)) :
              CL!Stream[TotalSize(circular_buffer, k) + o] = Command(k)[o]
<1> DEFINE buf    == circular_buffer
           n      == Entries(buf)
           before == Sizes
<1>1. n \in 0 .. MaxOps
  BY EntriesAre
<1>2. \A k \in 0 .. n : before[k] = TotalSize(buf, k)
  BY LogBegins
<1>3. ASSUME NEW k \in 0 .. Len(LogOfRing) - 1
      PROVE  LogOfRing[k + 1] = Command(k)
  <2>1. k + 1 \in 1 .. n /\ k + 1 - 1 = k
    BY <1>1, LogType
  <2> QED
    BY <2>1, LogType
<1>4. CL!Stream = FlattenSeq(LogOfRing)
  BY StreamIsFlat
<1>8. Begins(LogOfRing, before)
  BY LogBegins
<1> HIDE DEF before
<1>9. LogOfRing \in Seq(Seq(Byte))
  BY LogType
<1>5. /\ FlattenSeq(LogOfRing) \in Seq(Byte)
      /\ Len(FlattenSeq(LogOfRing)) = before[Len(LogOfRing)]
      /\ \A k \in 0 .. Len(LogOfRing) - 1 : \A o \in 1 .. Len(LogOfRing[k + 1]) :
           FlattenSeq(LogOfRing)[before[k] + o] = LogOfRing[k + 1][o]
  <2> DEFINE flat == FlattenSeq(LogOfRing)
  <2>1. flat \in Seq(Byte)
    BY <1>8, <1>9, FlattenFacts
  <2>2. Len(flat) = before[Len(LogOfRing)]
    BY <1>8, <1>9, FlattenFacts
  <2>3. ASSUME NEW k \in 0 .. Len(LogOfRing) - 1, NEW o \in 1 .. Len(LogOfRing[k + 1])
        PROVE  flat[before[k] + o] = LogOfRing[k + 1][o]
    BY <1>8, <1>9, FlattenFacts
  <2> QED
    BY <2>1, <2>2, <2>3
<1>6. ASSUME NEW k \in 0 .. n - 1, NEW o \in 1 .. Len(Command(k))
      PROVE  CL!Stream[TotalSize(buf, k) + o] = Command(k)[o]
  <2>1. k \in 0 .. Len(LogOfRing) - 1 /\ k \in 0 .. n
    BY <1>1, LogType
  <2>2. LogOfRing[k + 1] = Command(k)
    BY <1>3, <2>1
  <2>3. before[k] = TotalSize(buf, k)
    BY <1>2, <2>1
  <2> QED
    BY <1>4, <1>5, <2>1, <2>2, <2>3
<1>7. before[Len(LogOfRing)] = TotalSize(buf, n)
  BY <1>1, <1>2, LogType
<1> QED
  BY <1>4, <1>5, <1>6, <1>7

-----------------------------------------------------------------------------
(* What calls ask for is among what the log allows. *)

AskedInv ==
  \A p \in Procs : /\ req[p].op = "read" => req[p].count \in ReadCounts
                   /\ req[p].op = "write" => Data(p) \in WriteData

LEMMA AskedNext ==
  ASSUME Inv, AskedInv, [Next]_vars
  PROVE  AskedInv'
<1>1. req \in [Procs -> Request]
  BY DEF Inv, TypeOK
<1>2. ASSUME NEW p \in Procs, NEW r, req' = [req EXCEPT ![p] = r],
             r.op = "read" => r.count \in ReadCounts,
             r.op = "write" => r.data \in WriteData
      PROVE  AskedInv'
  BY <1>1, <1>2 DEF AskedInv, Data
<1>3. UNCHANGED req => AskedInv'
  BY DEF AskedInv, Data
<1>4. ASSUME NEW p \in Procs, CallWrite(p) PROVE AskedInv'
  <2>1. PICK data \in WriteData :
          req' = [req EXCEPT ![p] = [op |-> "write", data |-> data,
                                     write_count |-> WriteCount(Len(data))]]
    BY <1>4 DEF CallWrite, Call
  <2> QED
    BY <1>2, <2>1
<1>5. ASSUME NEW p \in Procs, CallRead(p) PROVE AskedInv'
  <2>1. PICK count \in ReadCounts : req' = [req EXCEPT ![p] = [op |-> "read", count |-> count]]
    BY <1>5 DEF CallRead, Call
  <2> QED
    BY <1>2, <2>1
<1>6. ASSUME NEW p \in Procs, CallLlseek(p) \/ CallSeekTo(p) \/ IoctlRefused(p) \/ Finish(p)
      PROVE  AskedInv'
  <2>1. CASE CallLlseek(p)
    <3>1. PICK whence \in Whence, off \in Offsets :
            req' = [req EXCEPT ![p] = [op |-> "llseek", whence |-> whence, off |-> off]]
      BY <2>1 DEF CallLlseek, Call
    <3> QED
      BY <1>2, <3>1
  <2>2. CASE CallSeekTo(p)
    <3>1. PICK cmd \in 0 .. MaxOps, offset \in SeekOffsets :
            req' = [req EXCEPT ![p] = [op |-> "ioctl", write_cmd |-> cmd,
                                       write_cmd_offset |-> offset]]
      BY <2>2 DEF CallSeekTo, Call
    <3> QED
      BY <1>2, <3>1
  <2>3. CASE IoctlRefused(p)
    BY <1>2, <2>3 DEF IoctlRefused
  <2>4. CASE Finish(p)
    BY <1>2, <2>4 DEF Finish, NoReq
  <2> QED
    BY <1>6, <2>1, <2>2, <2>3, <2>4
<1>7. ASSUME NEW p \in Procs,
             \/ aesd_open(p) \/ aesd_release(p) \/ Lock(p) \/ Interrupted(p)
             \/ Body(p) \/ Unlock(p)
      PROVE  AskedInv'
  <2>1. UNCHANGED req
    BY <1>7 DEF aesd_open, aesd_release, Lock, Interrupted, Unlock, callVars, Body, Return,
                aesd_write, WriteRefused, WriteFault, WriteHeld, WriteNoMem, WriteCommitted,
                WriteOops, aesd_read, ReadNothing, ReadFault, ReadBytes, aesd_llseek,
                aesd_adjust_file_offset
  <2> QED
    BY <1>3, <2>1
<1>8. UNCHANGED vars => AskedInv'
  BY <1>3 DEF vars, callVars
<1> QED
  BY <1>4, <1>5, <1>6, <1>7, <1>8 DEF Next, DriverAssumption

-----------------------------------------------------------------------------
(* What each step does to the log. *)

LEMMA LogUntouched ==
  ASSUME UNCHANGED <<circular_buffer, heap>>
  PROVE  UNCHANGED LogOfRing
<1>1. Entries(circular_buffer)' = Entries(circular_buffer)
  BY DEF Entries
<1>2. ASSUME NEW k PROVE Command(k)' = Command(k)
  BY DEF Command, SlotAt
<1> QED
  BY <1>1, <1>2 DEF LogOfRing

LEMMA PendingUntouched ==
  ASSUME Inv, WriterInv, UNCHANGED write_buffer_index,
         \A i \in 0 .. MaxWriteSize - 1 :
           i < write_buffer_index => write_buffer'[i] = write_buffer[i]
  PROVE  UNCHANGED PendingOfBuffer
<1>1. write_buffer_index \in 0 .. MaxWriteSize - 1
  BY DEF Inv, TypeOK, WriterInv
<1>2. \A i \in 1 .. write_buffer_index :
        /\ i - 1 \in 0 .. MaxWriteSize - 1 /\ i - 1 < write_buffer_index
        /\ write_buffer'[i - 1] = write_buffer[i - 1]
  BY <1>1
<1> QED
  BY <1>2 DEF PendingOfBuffer

\* EntriesAre and LogType, to be read of the next state as well.
LogShape ==
  /\ Entries(circular_buffer) =
       IF circular_buffer.full THEN MaxOps ELSE circular_buffer.in_offs
  /\ Entries(circular_buffer) \in 0 .. MaxOps
  /\ LogOfRing \in Seq(Seq(Byte)) /\ Len(LogOfRing) = Entries(circular_buffer)
  /\ \A k \in 1 .. Entries(circular_buffer) : LogOfRing[k] = Command(k - 1)

LEMMA LogHasShape == Inv => LogShape
BY EntriesAre, LogType DEF LogShape

\* aesd_circular_buffer_add_entry with the kfree behind it: a completed line is
\* appended, and the oldest command goes when there are MaxOps of them, wherever
\* in the array the ring starts (main.c:190-217).
THEOREM CommitAppends ==
  ASSUME Inv, Inv', NEW p \in Procs, WriteCommitted(p)
  PROVE  LogOfRing' = CL!Appended([i \in 1 .. req[p].write_count |-> write_buffer'[i - 1]])
<1> DEFINE size == req[p].write_count
           line == [i \in 1 .. size |-> write_buffer'[i - 1]]
           buf  == circular_buffer
           old  == buf.entry[buf.in_offs].buffptr
           n    == Entries(buf)
           m    == IF buf.full THEN MaxOps ELSE n + 1
<1>0. LogShape'
  BY LogHasShape, PTL
<1>1. PICK b :
         /\ \/ size = 0 /\ b = ZeroPtr /\ b \notin Blocks
            \/ size # 0 /\ b \in Blocks /\ heap[b] = NULL /\ line \in Line
         /\ circular_buffer'.entry =
              [buf.entry EXCEPT ![buf.in_offs] = [buffptr |-> b, size |-> size]]
         /\ circular_buffer'.in_offs = NextSlot(buf.in_offs)
         /\ circular_buffer'.out_offs =
              IF buf.full THEN NextSlot(buf.out_offs) ELSE buf.out_offs
         /\ circular_buffer'.full =
              (buf.full \/ circular_buffer'.in_offs = circular_buffer'.out_offs)
         /\ circular_buffer' \in [entry : {circular_buffer'.entry},
                                  in_offs : {circular_buffer'.in_offs},
                                  out_offs : {circular_buffer'.out_offs},
                                  full : {circular_buffer'.full}]
         /\ old \in Blocks => heap[old] # NULL
         /\ heap' \in [Blocks -> Line \cup {NULL}]
         /\ \A c \in Blocks : heap'[c] = IF c = old THEN NULL
                                          ELSE IF c = b THEN line ELSE heap[c]
  BY CommittedEffect
<1>2. /\ buf.in_offs \in Slots /\ buf.out_offs \in Slots /\ buf.full \in BOOLEAN
      /\ buf.entry \in [Slots -> Entry]
      /\ NextSlot(buf.in_offs) = IF buf.in_offs = MaxOps - 1 THEN 0 ELSE buf.in_offs + 1
      /\ NextSlot(buf.out_offs) = IF buf.out_offs = MaxOps - 1 THEN 0 ELSE buf.out_offs + 1
      /\ IF buf.full THEN buf.in_offs = buf.out_offs ELSE buf.out_offs = 0
  BY RingType, NextSlotCases DEF Inv, RingShape
<1>3. \A i \in Slots :
        circular_buffer'.entry[i] = IF i = buf.in_offs THEN [buffptr |-> b, size |-> size]
                                    ELSE buf.entry[i]
  BY <1>1, <1>2
<1>4. /\ n = IF buf.full THEN MaxOps ELSE buf.in_offs
      /\ n \in 0 .. MaxOps /\ m \in 1 .. MaxOps
      /\ LogOfRing' \in Seq(Seq(Byte)) /\ Len(LogOfRing') = m
      /\ \A k \in 1 .. m : LogOfRing'[k] = Command(k - 1)'
  <2> DEFINE next == Entries(circular_buffer)'
  <2>1. /\ n = IF buf.full THEN MaxOps ELSE buf.in_offs
        /\ next = IF circular_buffer'.full THEN MaxOps ELSE circular_buffer'.in_offs
        /\ n \in 0 .. MaxOps /\ next \in 0 .. MaxOps
        /\ LogOfRing' \in Seq(Seq(Byte)) /\ Len(LogOfRing') = next
        /\ \A k \in 1 .. next : LogOfRing'[k] = Command(k - 1)'
    BY <1>0, EntriesAre DEF LogShape
  <2> HIDE DEF next, n
  <2>2. ~buf.full => next = n + 1 /\ n + 1 \in 1 .. MaxOps
    <3> SUFFICES ASSUME ~buf.full PROVE next = n + 1 /\ n + 1 \in 1 .. MaxOps
      OBVIOUS
    <3>1. n = buf.in_offs /\ buf.out_offs = 0 /\ circular_buffer'.out_offs = 0
      BY <1>1, <1>2, <2>1
    <3>4. n \in 0 .. MaxOps - 1
      BY <1>2, <3>1 DEF Slots
    <3>2. CASE buf.in_offs = MaxOps - 1
      <4>1. circular_buffer'.in_offs = 0
        BY <1>1, <1>2, <3>2
      <4>2. circular_buffer'.full
        BY <1>1, <3>1, <4>1
      <4> QED
        BY <2>1, <3>1, <3>2, <3>4, <4>2
    <3>3. CASE buf.in_offs # MaxOps - 1
      <4>1. circular_buffer'.in_offs = n + 1 /\ n + 1 # 0 /\ n + 1 \in 1 .. MaxOps
        BY <1>1, <1>2, <3>1, <3>3, <3>4
      <4>2. ~circular_buffer'.full
        BY <1>1, <3>1, <4>1
      <4> QED
        BY <2>1, <4>1, <4>2
    <3> QED
      BY <3>2, <3>3
  <2>3. buf.full => next = MaxOps
    BY <1>1, <2>1
  <2>4. next = m
    BY <2>2, <2>3
  <2> QED
    BY <2>1, <2>2, <2>3, <2>4
\* The new line is the last command.
<1>5. ASSUME NEW k, k = m - 1
      PROVE  Command(k)' = line
  <2>1. SlotAt(circular_buffer', k) = buf.in_offs
    <3>1. CASE buf.full /\ buf.out_offs = MaxOps - 1
      <4>1. circular_buffer'.out_offs = 0 /\ k = MaxOps - 1
        BY <1>1, <1>2, <1>4, <1>5, <3>1
      <4> QED
        BY <1>2, <3>1, <4>1, WrapAround DEF SlotAt
    <3>2. CASE buf.full /\ buf.out_offs # MaxOps - 1
      <4> DEFINE out == buf.out_offs
      <4>1. out \in 0 .. MaxOps - 1 /\ buf.in_offs = out
        BY <1>2, <3>2 DEF Slots
      <4>2. circular_buffer'.out_offs = out + 1 /\ k = MaxOps - 1
        BY <1>1, <1>2, <1>5, <3>2
      <4> HIDE DEF out
      <4>3. /\ circular_buffer'.out_offs + k = out + MaxOps
            /\ out + MaxOps \in 0 .. 2 * MaxOps - 1
        BY <4>1, <4>2
      <4>4. (out + MaxOps) % MaxOps = out
        BY <4>1, <4>3, WrapAround
      <4> QED
        BY <4>1, <4>3, <4>4 DEF SlotAt
    <3>3. CASE ~buf.full
      <4>1. circular_buffer'.out_offs + k = buf.in_offs /\ buf.in_offs \in 0 .. MaxOps - 1
        BY <1>1, <1>2, <1>4, <1>5, <3>3 DEF Slots
      <4>2. ASSUME NEW w \in 0 .. MaxOps - 1 PROVE w % MaxOps = w
        BY WrapAround
      <4> QED
        BY <4>1, <4>2 DEF SlotAt
    <3> QED
      BY <3>1, <3>2, <3>3
  <2>2. circular_buffer'.entry[buf.in_offs] = [buffptr |-> b, size |-> size]
    BY <1>2, <1>3
  <2>3. CASE b \in Blocks
    <3>1. b # old /\ heap'[b] = line
      BY <1>1, <2>3
    <3> QED
      BY <2>1, <2>2, <2>3, <3>1 DEF Command
  <2>4. CASE b \notin Blocks
    <3>1. size = 0
      BY <1>1, <2>4
    <3>2. line = <<>>
      BY <3>1
    <3>3. Command(k)' = <<>>
      BY <2>1, <2>2, <2>4 DEF Command
    <3> QED
      BY <3>2, <3>3
  <2> QED
    BY <2>1, <2>3, <2>4
\* The others are the commands of before, one place further down when the
\* oldest is gone.
<1> DEFINE gone == IF buf.full THEN 1 ELSE 0
<1>6. ASSUME NEW k \in 0 .. m - 2, NEW j, j = k + gone
      PROVE  j \in 0 .. n - 1 /\ Command(k)' = Command(j)
  <2>1. j \in 0 .. n - 1 /\ k \in 0 .. MaxOps - 1 /\ j \in 0 .. MaxOps - 1
    BY <1>4, <1>6
  <2>2. SlotAt(circular_buffer', k) = SlotAt(buf, j) /\ SlotAt(buf, j) # buf.in_offs
    <3>1. CASE buf.full /\ buf.out_offs = MaxOps - 1
      <4>0. circular_buffer'.out_offs = 0 /\ j = k + 1 /\ buf.in_offs = MaxOps - 1
        BY <1>1, <1>2, <1>6, <3>1
      <4>1. /\ circular_buffer'.out_offs = 0 /\ j = k + 1
            /\ buf.out_offs + j = k + MaxOps /\ k + MaxOps \in 0 .. 2 * MaxOps - 1
            /\ buf.in_offs = MaxOps - 1 /\ k # MaxOps - 1
        BY <2>1, <3>1, <4>0
      <4>2. k % MaxOps = k
        BY <2>1, WrapAround
      <4>3. ASSUME NEW w \in 0 .. 2 * MaxOps - 1, w = k + MaxOps PROVE w % MaxOps = k
        <5>1. w % MaxOps = IF w < MaxOps THEN w ELSE w - MaxOps
          BY WrapAround
        <5> QED
          BY <2>1, <4>3, <5>1
      <4> QED
        BY <2>1, <4>1, <4>2, <4>3 DEF SlotAt
    <3>2. CASE buf.full /\ buf.out_offs # MaxOps - 1
      <4> DEFINE out == buf.out_offs
      <4>1. out \in 0 .. MaxOps - 1 /\ buf.in_offs = out
        BY <1>2, <3>2 DEF Slots
      <4>2. circular_buffer'.out_offs = out + 1 /\ j = k + 1
        BY <1>1, <1>2, <1>6, <3>2
      <4> HIDE DEF out
      <4>3. /\ circular_buffer'.out_offs + k = out + j
            /\ out + j \in 0 .. 2 * MaxOps - 1 /\ j # 0
        BY <2>1, <4>1, <4>2
      <4>4. ASSUME NEW w \in 0 .. 2 * MaxOps - 1, w = out + j PROVE w % MaxOps # out
        <5>1. w % MaxOps = IF w < MaxOps THEN w ELSE w - MaxOps
          BY WrapAround
        <5>2. w # out /\ w - MaxOps # out
          BY <2>1, <4>1, <4>3, <4>4
        <5> QED
          BY <5>1, <5>2
      <4> QED
        BY <4>1, <4>3, <4>4 DEF SlotAt, out
    <3>3. CASE ~buf.full
      <4>1. circular_buffer'.out_offs = 0 /\ buf.out_offs = 0 /\ j = k /\ j < buf.in_offs
        BY <1>1, <1>2, <1>4, <1>6, <2>1, <3>3
      <4>2. j % MaxOps = j
        BY <2>1, WrapAround
      <4> QED
        BY <2>1, <4>1, <4>2 DEF SlotAt
    <3> QED
      BY <3>1, <3>2, <3>3
  <2> DEFINE i == SlotAt(buf, j)
             c == buf.entry[i].buffptr
  <2>3. i \in Slots /\ circular_buffer'.entry[i] = buf.entry[i]
    BY <1>3, <2>1, <2>2, CommandsAre
  <2>4. CASE c \in Blocks
    <3>1. heap[c] # NULL /\ c # old
      BY <1>2, <2>2, <2>3, <2>4 DEF Inv, HeapOwned, Live
    <3>2. heap'[c] = heap[c]
      BY <1>1, <2>4, <3>1
    <3> QED
      BY <2>1, <2>2, <2>3, <2>4, <3>2 DEF Command
  <2>5. CASE c \notin Blocks
    BY <2>1, <2>2, <2>3, <2>5 DEF Command
  <2> QED
    BY <2>4, <2>5
<1> DEFINE log  == LogOfRing
           all  == Append(log, line)
           new  == IF buf.full THEN Tail(all) ELSE all
<1>7. /\ line \in Seq(Byte) /\ log \in Seq(Seq(Byte)) /\ Len(log) = n /\ n \in Nat
      /\ \A k \in 1 .. n : log[k] = Command(k - 1)
  <2>1. line \in Seq(Byte)
    <3>1. CASE size = 0
      BY <3>1
    <3>2. CASE size # 0
      <4>1. line \in Line
        BY <1>1, <3>2
      <4> HIDE DEF line
      <4>2. PICK r \in 1 .. MaxWriteSize - 1 : line \in [1 .. r -> Byte]
        BY <4>1 DEF Line
      <4> QED
        BY <4>2
    <3> QED
      BY <3>1, <3>2
  <2> QED
    BY <1>4, <2>1, LogType
<1>8. CL!Appended(line) = new
  <2>1. Len(all) = n + 1 /\ (Len(all) > MaxOps <=> buf.full)
    <3> HIDE DEF line, log, n, m
    <3>1. Len(all) = n + 1
      BY <1>7
    <3>2. ~buf.full => n < MaxOps
      BY <1>2, <1>4 DEF Slots
    <3> QED
      BY SMTT(30), <1>4, <1>7, <3>1, <3>2
  <2> QED
    BY <2>1 DEF CL!Appended
<1> HIDE DEF line, log, n, m
<1>9. /\ all \in Seq(Seq(Byte)) /\ Len(all) = n + 1 /\ all[n + 1] = line
      /\ \A k \in 1 .. n : all[k] = log[k]
  BY <1>7
<1> HIDE DEF all
<1>10. new \in Seq(Seq(Byte)) /\ Len(new) = m /\ \A k \in 1 .. m : new[k] = all[k + gone]
  <2>1. CASE buf.full
    <3>1. Len(all) = m + 1 /\ m \in Nat /\ all # <<>>
      BY <1>4, <1>9, <2>1 DEF m
    <3>2. /\ Tail(all) \in Seq(Seq(Byte)) /\ Len(Tail(all)) = m
          /\ \A k \in 1 .. m : Tail(all)[k] = all[k + 1]
      BY <1>9, <3>1
    <3> QED
      BY <2>1, <3>2
  <2>2. CASE ~buf.full
    <3>1. m = n + 1 /\ gone = 0 /\ new = all
      BY <2>2 DEF m
    <3> QED
      BY <1>4, <1>9, <3>1
  <2> QED
    BY <2>1, <2>2
<1>11. ASSUME NEW k \in 1 .. m PROVE LogOfRing'[k] = new[k]
  <2>1. LogOfRing'[k] = Command(k - 1)' /\ new[k] = all[k + gone]
    BY <1>4, <1>10
  <2>2. CASE k = m
    <3>1. k + gone = n + 1
      BY <1>4, <2>2 DEF m
    <3>2. Command(k - 1)' = line
      <4>1. ASSUME NEW j, j = k - 1 PROVE Command(j)' = line
        BY <1>4, <1>5, <2>2, <4>1
      <4> QED
        BY <4>1
    <3> QED
      BY <1>9, <2>1, <3>1, <3>2
  <2>3. CASE k # m
    <3>1. k - 1 \in 0 .. m - 2 /\ k - 1 + gone = k + gone - 1
      BY <1>4, <2>3
    <3>2. k + gone - 1 \in 0 .. n - 1 /\ Command(k - 1)' = Command(k + gone - 1)
      BY <1>6, <3>1
    <3>3. k + gone \in 1 .. n
      BY <1>4, <2>3 DEF m
    <3> QED
      BY <1>7, <1>9, <2>1, <3>2, <3>3
  <2> QED
    BY <2>2, <2>3
<1>12. LogOfRing' = new
  <2> HIDE DEF new
  <2> QED
    BY <1>4, <1>10, <1>11
<1> QED
  BY <1>8, <1>12 DEF line

\* copy_from_user puts the data behind the pending line.
LEMMA CopiedExtends ==
  ASSUME Inv, WriterInv, NEW data \in Seq(Byte), NEW wb,
         wb = Copied(write_buffer_index, data),
         NEW size \in Nat, size = write_buffer_index + Len(data), size < MaxWriteSize
  PROVE  [i \in 1 .. size |-> wb[i - 1]] = PendingOfBuffer \o data
<1> DEFINE at      == write_buffer_index
           pending == PendingOfBuffer
           line    == [i \in 1 .. size |-> wb[i - 1]]
<1>1. at \in Nat /\ Len(data) \in Nat /\ write_buffer \in [0 .. MaxWriteSize - 1 -> Byte]
  BY DEF Inv, TypeOK
<1>2. /\ pending \in Seq(Byte) /\ Len(pending) = at
      /\ \A i \in 1 .. at : pending[i] = write_buffer[i - 1]
  BY PendingType
<1> HIDE DEF at, pending
<1>3. /\ pending \o data \in Seq(Byte) /\ Len(pending \o data) = Len(pending) + Len(data)
      /\ \A i \in 1 .. Len(pending) + Len(data) :
           (pending \o data)[i] = IF i <= Len(pending) THEN pending[i]
                                  ELSE data[i - Len(pending)]
  <2>1. pending \in Seq(Byte) /\ data \in Seq(Byte)
    BY <1>2
  <2> QED
    BY <2>1, ConcatProperties
<1>4. Len(pending \o data) = size
  BY <1>1, <1>2, <1>3 DEF at
<1>5. ASSUME NEW i \in 1 .. size PROVE line[i] = (pending \o data)[i]
  <2>1. i - 1 \in 0 .. MaxWriteSize - 1
    OBVIOUS
  <2>2. wb[i - 1] = IF i - 1 - at \in 0 .. Len(data) - 1 THEN data[i - 1 - at + 1]
                    ELSE write_buffer[i - 1]
    BY <1>1, <2>1 DEF Copied, at
  <2>3. CASE i <= at
    <3>1. ~(i - 1 - at \in 0 .. Len(data) - 1) /\ i \in 1 .. at
      BY <1>1, <2>3
    <3>2. (pending \o data)[i] = pending[i]
      BY <1>1, <1>2, <1>3, <2>3
    <3> QED
      BY <1>2, <2>2, <3>1, <3>2
  <2>4. CASE ~(i <= at)
    <3>1. /\ i - 1 - at \in 0 .. Len(data) - 1 /\ i - 1 - at + 1 = i - at
          /\ i \in 1 .. at + Len(data)
      BY <1>1, <2>4 DEF at
    <3>2. (pending \o data)[i] = data[i - at]
      BY <1>2, <1>3, <2>4, <3>1
    <3> QED
      BY <2>2, <3>1, <3>2
  <2> QED
    BY <2>3, <2>4
<1>6. Len(line) = size /\ line = [i \in 1 .. Len(line) |-> line[i]]
  OBVIOUS
<1> HIDE DEF line
<1> DEFINE cat == pending \o data
<1>7. cat \in Seq(Byte) /\ Len(cat) = size /\ \A i \in 1 .. size : line[i] = cat[i]
  BY <1>3, <1>4, <1>5
<1> HIDE DEF cat
<1>8. cat = [i \in 1 .. size |-> cat[i]] /\ line = [i \in 1 .. size |-> line[i]]
  BY <1>6, <1>7
<1>9. line = cat
  BY <1>7, <1>8
<1> QED
  BY <1>9 DEF line, cat, pending

\* A write that is accepted goes behind the pending line,
Extends(data) ==
  LET line == PendingOfBuffer \o data
  IN  /\ Len(line) < MaxWriteSize
      /\ data = <<>> \/ Last(data) # NL
      /\ PendingOfBuffer' = line /\ UNCHANGED LogOfRing

\* and makes it a command when its last byte ends a line.
Completes(data) ==
  LET line == PendingOfBuffer \o data
  IN  /\ Len(line) < MaxWriteSize
      /\ line = <<>> \/ (data # <<>> /\ Last(data) = NL)
      /\ LogOfRing' = CL!Appended(line) /\ PendingOfBuffer' = <<>>

LEMMA WriteEffect ==
  ASSUME Inv, Inv', WriterInv, NEW p \in Procs, aesd_write(p)
  PROVE  /\ Data(p) \in Seq(Byte)
         /\ WriteHeld(p) => Extends(Data(p))
         /\ WriteCommitted(p) => Completes(Data(p))
         /\ WriteHeld(p) \/ WriteCommitted(p) \/ (UNCHANGED LogOfRing /\ UNCHANGED PendingOfBuffer)
<1> DEFINE size == req[p].write_count
           data == Data(p)
           wb   == Copied(write_buffer_index, data)
<1>1. /\ write_buffer_index \in 0 .. MaxWriteSize - 1
      /\ write_buffer \in [0 .. MaxWriteSize - 1 -> Byte]
      /\ write_buffer_index > 0 => write_buffer[write_buffer_index - 1] # NL
  BY DEF Inv, TypeOK, WriterInv, LinesEndCommands
<1>2. /\ Holds(p, "write") /\ data \in Seq(Byte) /\ Len(data) \in Nat /\ Count(p) = Len(data)
      /\ size \in Nat /\ size = write_buffer_index + Len(data)
  <2>1. Holds(p, "write")
    BY DEF aesd_write, WriteRefused, WriteFault, WriteHeld, WriteNoMem, WriteCommitted,
           LineComplete, WriteOops
  <2> QED
    BY <2>1, RequestType DEF Inv, WriterInv, CountIsFresh, Holds, Count
<1>3. wb \in [0 .. MaxWriteSize - 1 -> Byte]
  BY <1>1, <1>2, CopiedType DEF Inv
<1>4. ASSUME UNCHANGED <<circular_buffer, heap, write_buffer_index>>,
             \A i \in 0 .. MaxWriteSize - 1 :
               i < write_buffer_index => write_buffer'[i] = write_buffer[i]
      PROVE  UNCHANGED LogOfRing /\ UNCHANGED PendingOfBuffer
  BY <1>4, LogUntouched, PendingUntouched
<1>5. ASSUME WriteRefused(p) \/ WriteOops(p)
      PROVE  UNCHANGED LogOfRing /\ UNCHANGED PendingOfBuffer
  BY <1>4, <1>5 DEF WriteRefused, WriteOops, devVars
<1>6. ASSUME WriteFault(p)
      PROVE  UNCHANGED LogOfRing /\ UNCHANGED PendingOfBuffer
  <2>1. PICK n \in 0 .. Count(p) - 1 :
          write_buffer' = Copied(write_buffer_index,
                            [i \in 1 .. Count(p) |-> IF i <= n THEN Data(p)[i] ELSE NUL])
    BY <1>6 DEF WriteFault
  <2>2. [i \in 1 .. Count(p) |-> IF i <= n THEN Data(p)[i] ELSE NUL] \in Seq(Byte)
    BY <1>2 DEF Count
  <2>3. \A i \in 0 .. MaxWriteSize - 1 :
          i < write_buffer_index => write_buffer'[i] = write_buffer[i]
    BY <2>1, <2>2, CopiedKeepsPending
  <2> QED
    BY <1>4, <1>6, <2>3 DEF WriteFault
<1>7. ASSUME WriteNoMem(p)
      PROVE  UNCHANGED LogOfRing /\ UNCHANGED PendingOfBuffer
  <2>1. /\ UNCHANGED <<circular_buffer, heap, write_buffer_index>>
        /\ write_buffer' = [wb EXCEPT ![size] = NUL]
    BY <1>7 DEF WriteNoMem, LineComplete
  <2>2. \A i \in 0 .. MaxWriteSize - 1 :
          i < write_buffer_index => write_buffer'[i] = write_buffer[i]
    <3> SUFFICES ASSUME NEW i \in 0 .. MaxWriteSize - 1, i < write_buffer_index
                 PROVE  write_buffer'[i] = write_buffer[i]
      OBVIOUS
    <3>1. i # size /\ wb[i] = write_buffer[i]
      BY <1>1, <1>2, CopiedKeepsPending
    <3> QED
      BY <1>3, <2>1, <3>1
  <2> QED
    BY <1>4, <2>1, <2>2
<1> DEFINE line == PendingOfBuffer \o data
<1>8. /\ PendingOfBuffer \in Seq(Byte) /\ Len(PendingOfBuffer) = write_buffer_index
      /\ line \in Seq(Byte) /\ Len(line) = size
      /\ data # <<>> <=> Len(data) # 0
      /\ data # <<>> => Last(data) = data[Len(data)] /\ line[size] = data[Len(data)]
  <2>1. PendingOfBuffer \in Seq(Byte) /\ Len(PendingOfBuffer) = write_buffer_index
    BY PendingType
  <2>2. /\ line \in Seq(Byte) /\ Len(line) = Len(PendingOfBuffer) + Len(data)
        /\ \A i \in 1 .. Len(PendingOfBuffer) + Len(data) :
             line[i] = IF i <= Len(PendingOfBuffer) THEN PendingOfBuffer[i]
                       ELSE data[i - Len(PendingOfBuffer)]
    BY <1>2, <2>1, ConcatProperties
  <2>3. data # <<>> <=> Len(data) # 0
    BY <1>2, EmptySeq
  <2> HIDE DEF line, data
  <2>4. Len(line) = size
    BY <1>2, <2>1, <2>2
  <2>5. data # <<>> => line[size] = data[Len(data)]
    <3> SUFFICES ASSUME data # <<>> PROVE line[size] = data[Len(data)]
      OBVIOUS
    <3>1. ASSUME NEW i \in 1 .. Len(PendingOfBuffer) + Len(data), i = size
          PROVE  line[i] = data[Len(data)]
      <4>1. ~(i <= Len(PendingOfBuffer)) /\ i - Len(PendingOfBuffer) = Len(data)
        BY <1>1, <1>2, <2>1, <2>3, <3>1
      <4> QED
        BY <2>2, <4>1
    <3> QED
      BY <1>1, <1>2, <2>1, <2>3, <3>1
  <2> QED
    BY <2>1, <2>2, <2>3, <2>4, <2>5 DEF Last
<1>9. size < MaxWriteSize => [i \in 1 .. size |-> wb[i - 1]] = line
  BY <1>2, CopiedExtends
<1>10. ASSUME WriteHeld(p) PROVE Extends(data)
  <2>1. /\ UNCHANGED <<circular_buffer, heap>> /\ write_buffer_index' = size
        /\ write_buffer' = wb /\ size < MaxWriteSize
    BY <1>2, <1>10 DEF WriteHeld, WriteAccepted
  <2>2. UNCHANGED LogOfRing /\ PendingOfBuffer' = line
    <3>1. PendingOfBuffer' = [i \in 1 .. size |-> wb[i - 1]]
      BY <2>1 DEF PendingOfBuffer
    <3> QED
      BY <1>9, <2>1, <3>1, LogUntouched
  <2>3. data = <<>> \/ Last(data) # NL
    <3> SUFFICES ASSUME data # <<>> PROVE Last(data) # NL
      OBVIOUS
    <3>1. size # 0 /\ size \in 1 .. size
      <4> HIDE DEF size, data
      <4> QED
        BY <1>1, <1>2, <1>8
    <3>2. wb[size - 1] # NL
      <4>1. FALSE \in EndsLine(write_buffer', size)
        BY <1>10 DEF WriteHeld
      <4> QED
        BY <1>2, <2>1, <3>1, <4>1, EndsLineTests, Zenon
    <3>3. line[size] = wb[size - 1]
      BY <1>9, <2>1, <3>1
    <3> QED
      BY <1>8, <3>2, <3>3
  <2> HIDE DEF data
  <2> QED
    BY <1>8, <2>1, <2>2, <2>3 DEF Extends
<1>11. ASSUME WriteCommitted(p) PROVE Completes(data)
  <2>1. /\ size < MaxWriteSize /\ write_buffer' = [wb EXCEPT ![size] = NUL]
        /\ write_buffer_index' = 0 /\ TRUE \in EndsLine(wb, size)
    BY <1>11 DEF WriteCommitted, LineComplete, WriteAccepted
  <2>2. [i \in 1 .. size |-> write_buffer'[i - 1]] = line
    <3>1. \A i \in 1 .. size : write_buffer'[i - 1] = wb[i - 1]
      BY <1>2, <1>3, <2>1
    <3> QED
      BY <1>9, <2>1, <3>1
  <2>3. LogOfRing' = CL!Appended(line)
    BY <1>11, <2>2, CommitAppends
  <2>4. PendingOfBuffer' = <<>>
    BY <2>1 DEF PendingOfBuffer
  <2>5. size # 0 => wb[size - 1] = NL
    BY <1>2, <2>1, EndsLineTests, Zenon
  <2>6. CASE data = <<>>
    <3>1. write_buffer_index = 0
      <4> SUFFICES ASSUME write_buffer_index # 0 PROVE FALSE
        OBVIOUS
      <4>1. size = write_buffer_index /\ size # 0 /\ size - 1 \in 0 .. MaxWriteSize - 1
        BY <1>1, <1>2, <1>8, <2>6
      <4>2. wb[size - 1] = write_buffer[size - 1]
        BY <1>1, <1>2, <4>1, CopiedKeepsPending
      <4> QED
        BY <1>1, <2>5, <4>1, <4>2
    <3>2. line = <<>>
      BY <1>2, <1>8, <2>6, <3>1, EmptySeq
    <3> HIDE DEF line, data
    <3> QED
      BY <1>8, <2>1, <2>3, <2>4, <3>2 DEF Completes, line
  <2>7. CASE data # <<>>
    <3>1. line[size] = wb[size - 1] /\ size # 0
      <4>1. size \in 1 .. size /\ size # 0 /\ size < MaxWriteSize
        BY <1>1, <1>2, <1>8, <2>1, <2>7
      <4>2. [i \in 1 .. size |-> wb[i - 1]] = line
        BY <1>9, <4>1
      <4> HIDE DEF line, wb, size
      <4> QED
        BY <4>1, <4>2
    <3>2. Last(data) = NL
      BY <1>8, <2>5, <2>7, <3>1
    <3> HIDE DEF data
    <3> QED
      BY <1>8, <2>1, <2>3, <2>4, <2>7, <3>2 DEF Completes
  <2> QED
    BY <2>6, <2>7
<1>12. WriteHeld(p) \/ WriteCommitted(p) \/ (UNCHANGED LogOfRing /\ UNCHANGED PendingOfBuffer)
  BY <1>5, <1>6, <1>7 DEF aesd_write
<1> QED
  BY <1>2, <1>10, <1>11, <1>12

LEMMA WriteLogged ==
  ASSUME Inv, Inv', WriterInv, NEW p \in Procs, aesd_write(p)
  PROVE  UNCHANGED CL!vars \/ CL!Write(Data(p)) \/ CL!WriteEmpty
<1> DEFINE data == Data(p)
<1>1. UNCHANGED <<f_pos, ubuf>> /\ Holds(p, "write")
  BY DEF aesd_write, WriteRefused, WriteFault, WriteHeld, WriteNoMem, WriteCommitted,
         LineComplete, WriteOops, callVars
<1>2. data \in Seq(Byte)
  BY WriteEffect
<1>3. PendingOfBuffer \in Seq(Byte)
  BY PendingType
<1>4. CASE WriteHeld(p)
  <2>1. Extends(data)
    BY <1>4, WriteEffect
  <2> HIDE DEF data
  <2>2. CASE data = <<>>
    BY <1>1, <1>3, <2>1, <2>2, ConcatEmptySeq DEF Extends, CL!vars
  <2>3. CASE data # <<>>
    <3>1. CL!Write(data)
      BY <1>1, <1>2, <2>1, <2>3 DEF Extends, CL!Write, CL!Last, Last
    <3> QED
      BY <3>1 DEF data
  <2> QED
    BY <2>2, <2>3
<1>5. CASE WriteCommitted(p)
  <2>1. Completes(data)
    BY <1>5, WriteEffect
  <2> HIDE DEF data
  <2>2. CASE PendingOfBuffer \o data = <<>>
    <3>1. PendingOfBuffer = <<>>
      <4>1. Len(PendingOfBuffer \o data) = Len(PendingOfBuffer) + Len(data)
        BY <1>2, <1>3, ConcatProperties
      <4>2. Len(PendingOfBuffer) = 0
        BY <1>2, <1>3, <2>2, <4>1
      <4> QED
        BY <1>3, <4>2, EmptySeq
    <3> QED
      BY <1>1, <2>1, <2>2, <3>1 DEF Completes, CL!WriteEmpty
  <2>3. CASE PendingOfBuffer \o data # <<>>
    <3>1. CL!Write(data)
      BY <1>1, <1>2, <2>1, <2>3 DEF Completes, CL!Write, CL!Last, Last
    <3> QED
      BY <3>1 DEF data
  <2> QED
    BY <2>2, <2>3
<1>6. CASE UNCHANGED <<LogOfRing, PendingOfBuffer>>
  BY <1>1, <1>6 DEF CL!vars
<1> QED
  BY <1>4, <1>5, <1>6, WriteEffect

LEMMA SubSeqFacts ==
  ASSUME NEW S, NEW s \in Seq(S), NEW m \in Nat, NEW n \in Nat, m + n <= Len(s)
  PROVE  /\ SubSeq(s, m + 1, m + n) \in Seq(S) /\ Len(SubSeq(s, m + 1, m + n)) = n
         /\ \A i \in 1 .. n : SubSeq(s, m + 1, m + n)[i] = s[m + i]
<1> DEFINE a == m + 1
           b == m + n
<1>1. a \in Int /\ b \in Int /\ \A i \in a .. b : s[i] \in S
  OBVIOUS
<1>2. /\ SubSeq(s, a, b) \in Seq(S)
      /\ Len(SubSeq(s, a, b)) = IF a <= b THEN b - a + 1 ELSE 0
      /\ \A i \in 1 .. b - a + 1 : SubSeq(s, a, b)[i] = s[a + i - 1]
  <2> HIDE DEF a, b
  <2> QED
    BY <1>1, SubSeqProperties
<1>3. b - a + 1 = n /\ (IF a <= b THEN b - a + 1 ELSE 0) = n
  OBVIOUS
<1>4. ASSUME NEW i \in 1 .. n PROVE SubSeq(s, a, b)[i] = s[m + i]
  <2>1. a + i - 1 = m + i
    OBVIOUS
  <2>2. SubSeq(s, a, b)[i] = s[a + i - 1]
    <3> HIDE DEF a, b
    <3> QED
      BY <1>2, <1>3
  <2> QED
    BY <2>1, <2>2
<1> QED
  BY <1>2, <1>3, <1>4

\* A read hands out the bytes of the stream from the position on, though it
\* takes them out of one block.
LEMMA ReadEffect ==
  ASSUME Inv, NEW p \in Procs, ReadBytes(p)
  PROVE  LET n == BytesToCopy(p)
         IN  /\ n \in 1 .. req[p].count /\ f_pos[p] + n <= Len(CL!Stream)
             /\ ubuf' = [ubuf EXCEPT ![p] = SubSeq(CL!Stream, f_pos[p] + 1, f_pos[p] + n)]
             /\ f_pos' = [f_pos EXCEPT ![p] = f_pos[p] + n]
<1> DEFINE buf  == circular_buffer
           size == buf.entry[Found(p).slot].size
           off  == Found(p).offset
           n    == BytesToCopy(p)
<1>1. /\ f_pos[p] \in Nat /\ req[p].count \in Nat
      /\ f_pos \in [Procs -> Nat] /\ Holds(p, "read")
  BY RequestType DEF Inv, TypeOK, ReadBytes, Holds
<1>2. n > 0 /\ Found(p) # NotFound
  BY DEF ReadBytes, BytesToCopy
<1>3. PICK k \in Hits(buf, f_pos[p]) :
        /\ Found(p) = [slot |-> SlotAt(buf, k), offset |-> f_pos[p] - TotalSize(buf, k)]
        /\ ~IsEmpty(buf)
  BY <1>2 DEF Found, FindEntry
<1>4. /\ k \in 0 .. Entries(buf) - 1 /\ TotalSize(buf, k) <= f_pos[p]
      /\ k \in 0 .. MaxOps - 1 /\ k + 1 \in Int /\ k + 1 <= Entries(buf)
      /\ Entries(buf) \in Int
  <2>1. Entries(buf) = Iterations(buf, buf.in_offs)
    BY <1>3 DEF Entries
  <2> QED
    BY <1>3, <2>1, EntriesAre DEF Hits
<1>5. /\ TotalSize(buf, k + 1) = TotalSize(buf, k) + size
      /\ TotalSize(buf, k) \in Nat /\ size \in Nat
      /\ TotalSize(buf, Entries(buf)) \in Nat
      /\ TotalSize(buf, k + 1) <= TotalSize(buf, Entries(buf))
  <2>1. TotalSize(buf, k + 1) <= TotalSize(buf, Entries(buf))
    BY <1>4, TotalSizeMonotone
  <2>2. TotalSize(buf, k + 1) = TotalSize(buf, k) + size
    BY <1>3, <1>4, TotalSizeStep, RingType DEF Inv
  <2>3. TotalSize(buf, k) \in Nat /\ TotalSize(buf, Entries(buf)) \in Nat
    BY <1>4, TotalSizeType
  <2>4. size \in Nat
    BY <1>3, <1>4, CommandsAre, RingType DEF Inv
  <2> QED
    BY <2>1, <2>2, <2>3, <2>4
<1>6. /\ off = f_pos[p] - TotalSize(buf, k) /\ off \in Nat
      /\ n = IF size - off > req[p].count THEN req[p].count ELSE size - off
  <2>1. off = f_pos[p] - TotalSize(buf, k) /\ off \in Nat
    BY <1>1, <1>3, <1>4, <1>5
  <2> QED
    BY <1>2, <2>1 DEF BytesToCopy
<1>7. n \in 1 .. req[p].count /\ off + n <= size
  <2> DEFINE count == req[p].count
  <2>1. n > 0 /\ size \in Nat /\ off \in Nat /\ count \in Nat
    BY <1>1, <1>2, <1>5, <1>6
  <2>2. n = IF size - off > count THEN count ELSE size - off
    BY <1>6
  <2> HIDE DEF n, off, size, count
  <2>3. n \in 1 .. count /\ off + n <= size
    BY <2>1, <2>2
  <2> QED
    BY <2>3 DEF count
<1> DEFINE block == heap[buf.entry[Found(p).slot].buffptr]
<1>8. block = Command(k) /\ block \in Seq(Byte) /\ Len(block) = size
  <2>1. Found(p).slot = SlotAt(buf, k)
    BY <1>3
  <2>2. buf.entry[Found(p).slot].buffptr \in Blocks
    <3>1. size # 0
      <4> HIDE DEF n, off, size
      <4> QED
        BY <1>5, <1>6, <1>7
    <3> QED
      BY <1>4, <2>1, <3>1, CommandsAre DEF Inv, RingShape
  <2> QED
    BY <1>4, <2>1, <2>2, CommandsAre
<1> HIDE DEF block, off, n, size
<1>9. /\ CL!Stream \in Seq(Byte) /\ Len(CL!Stream) = TotalSize(buf, Entries(buf))
      /\ \A o \in 1 .. Len(block) : CL!Stream[TotalSize(buf, k) + o] = block[o]
  BY <1>4, <1>8, StreamIs
<1>10. f_pos[p] + n <= Len(CL!Stream)
  <2> DEFINE pos    == f_pos[p]
             before == TotalSize(buf, k)
             behind == TotalSize(buf, k + 1)
             all    == TotalSize(buf, Entries(buf))
             len    == Len(CL!Stream)
  <2>1. /\ pos \in Nat /\ before \in Nat /\ size \in Nat /\ all \in Nat /\ off \in Nat
        /\ behind = before + size /\ behind <= all /\ len = all /\ off = pos - before
    BY <1>1, <1>5, <1>6, <1>9
  <2>2. req[p].count \in Nat /\ n \in 1 .. req[p].count /\ off + n <= size
    BY <1>1, <1>7
  <2> HIDE DEF pos, before, behind, all, len
  <2>3. pos + n <= len
    BY <2>1, <2>2
  <2> QED
    BY <2>3 DEF pos, len
<1>11. SubSeq(block, off + 1, off + n) = SubSeq(CL!Stream, f_pos[p] + 1, f_pos[p] + n)
  <2> DEFINE mine == SubSeq(block, off + 1, off + n)
             logs == SubSeq(CL!Stream, f_pos[p] + 1, f_pos[p] + n)
  <2>1. /\ mine \in Seq(Byte) /\ Len(mine) = n
        /\ \A i \in 1 .. n : mine[i] = block[off + i]
    <3>1. off \in Nat /\ n \in Nat /\ off + n <= Len(block) /\ block \in Seq(Byte)
      BY <1>1, <1>6, <1>7, <1>8
    <3> QED
      BY SMTT(30), <3>1, SubSeqFacts
  <2>2. /\ logs \in Seq(Byte) /\ Len(logs) = n
        /\ \A i \in 1 .. n : logs[i] = CL!Stream[f_pos[p] + i]
    <3>1. /\ f_pos[p] \in Nat /\ n \in Nat /\ f_pos[p] + n <= Len(CL!Stream)
          /\ CL!Stream \in Seq(Byte)
      BY <1>1, <1>7, <1>9, <1>10
    <3> QED
      BY SMTT(30), <3>1, SubSeqFacts
  <2>3. ASSUME NEW i \in 1 .. n, NEW o, o = off + i
        PROVE  CL!Stream[f_pos[p] + i] = block[o]
    <3>1. o \in 1 .. Len(block) /\ TotalSize(buf, k) + o = f_pos[p] + i
      <4> DEFINE before == TotalSize(buf, k)
                 pos    == f_pos[p]
                 len    == Len(block)
      <4>1. /\ before \in Nat /\ pos \in Nat /\ off = pos - before /\ len \in Nat
            /\ off \in Nat /\ n \in Nat /\ off + n <= len
        BY <1>1, <1>5, <1>6, <1>7, <1>8
      <4>2. o = off + i
        BY <2>3
      <4> HIDE DEF before, pos, len
      <4>3. o \in 1 .. len /\ before + o = pos + i
        BY <4>1, <4>2
      <4> QED
        BY <4>3 DEF before, pos, len
    <3>2. CL!Stream[TotalSize(buf, k) + o] = block[o]
      BY <1>9, <3>1
    <3> QED
      BY <3>1, <3>2
  <2>4. \A i \in 1 .. n : mine[i] = logs[i]
    BY <2>1, <2>2, <2>3
  <2> HIDE DEF mine, logs
  <2>5. mine = [i \in 1 .. n |-> mine[i]] /\ logs = [i \in 1 .. n |-> logs[i]]
    BY <2>1, <2>2
  <2>6. mine = logs
    BY <2>4, <2>5
  <2> QED
    BY <2>6 DEF mine, logs
<1>12. /\ ubuf' = [ubuf EXCEPT ![p] = SubSeq(CL!Stream, f_pos[p] + 1, f_pos[p] + n)]
       /\ f_pos' = [f_pos EXCEPT ![p] = f_pos[p] + n]
  BY <1>11 DEF ReadBytes, block, off, n
<1> QED
  BY <1>7, <1>10, <1>12 DEF n

\* What the log says of a read that asks for count bytes.
Reads(p, count) ==
  /\ \E n \in 1 .. count :
       /\ f_pos[p] + n <= Len(CL!Stream)
       /\ ubuf' = [ubuf EXCEPT ![p] = SubSeq(CL!Stream, f_pos[p] + 1, f_pos[p] + n)]
       /\ f_pos' = [f_pos EXCEPT ![p] = @ + n]
  /\ UNCHANGED <<LogOfRing, PendingOfBuffer>>

LEMMA ReadLogged ==
  ASSUME Inv, NEW p \in Procs, aesd_read(p)
  PROVE  UNCHANGED CL!vars \/ (Holds(p, "read") /\ Reads(p, req[p].count))
<1>0. UNCHANGED <<LogOfRing, PendingOfBuffer>>
  <2>1. UNCHANGED devVars
    BY DEF aesd_read, ReadNothing, ReadFault, ReadBytes
  <2> QED
    BY <2>1, LogUntouched DEF devVars, PendingOfBuffer
<1>1. CASE ReadNothing(p) \/ ReadFault(p)
  BY <1>0, <1>1 DEF ReadNothing, ReadFault, CL!vars
<1>2. CASE ReadBytes(p)
  <2>1. Holds(p, "read")
    BY <1>2 DEF ReadBytes
  <2> DEFINE n == BytesToCopy(p)
  <2>2. /\ n \in 1 .. req[p].count /\ f_pos[p] + n <= Len(CL!Stream)
        /\ ubuf' = [ubuf EXCEPT ![p] = SubSeq(CL!Stream, f_pos[p] + 1, f_pos[p] + n)]
        /\ f_pos' = [f_pos EXCEPT ![p] = f_pos[p] + n]
    BY <1>2, ReadEffect
  <2> HIDE DEF n
  <2> QED
    BY <1>0, <2>1, <2>2 DEF Reads
<1> QED
  BY <1>1, <1>2 DEF aesd_read

\* Opening the device and seeking move one position; the rest of a call, and
\* the mutex, are not seen in the log at all.
LEMMA OtherLogged ==
  ASSUME Inv, Inv', NEW p \in Procs,
         \/ aesd_open(p) \/ aesd_release(p) \/ Lock(p) \/ Interrupted(p) \/ Unlock(p)
         \/ Finish(p) \/ aesd_llseek(p) \/ aesd_adjust_file_offset(p)
         \/ IoctlRefused(p) \/ \E r : Call(p, r)
  PROVE  UNCHANGED CL!vars \/ CL!Seek(p) \/ CL!Consume(p)
<1>1. UNCHANGED devVars
  BY DEF aesd_open, aesd_release, Lock, Interrupted, Unlock, Finish, aesd_llseek,
         aesd_adjust_file_offset, Call, IoctlRefused
<1>2. UNCHANGED <<LogOfRing, PendingOfBuffer>>
  BY <1>1, LogUntouched DEF devVars, PendingOfBuffer
<1>3. CASE Finish(p)
  BY <1>2, <1>3 DEF Finish, CL!Consume
<1>4. CASE aesd_open(p) \/ aesd_llseek(p) \/ aesd_adjust_file_offset(p)
  <2>1. UNCHANGED ubuf
    BY <1>4 DEF aesd_open, aesd_llseek, aesd_adjust_file_offset, callVars
  <2>2. UNCHANGED f_pos \/ \E to : f_pos' = [f_pos EXCEPT ![p] = to]
    BY <1>4 DEF aesd_open, aesd_llseek, aesd_adjust_file_offset
  <2>3. f_pos \in [Procs -> Nat] /\ f_pos'[p] \in Nat
    BY DEF Inv, TypeOK
  <2>4. CASE UNCHANGED f_pos
    BY <1>2, <2>1, <2>4 DEF CL!vars
  <2>5. ASSUME NEW to, f_pos' = [f_pos EXCEPT ![p] = to] PROVE CL!Seek(p)
    <3>1. f_pos' = [f_pos EXCEPT ![p] = f_pos'[p]]
      BY <2>3, <2>5
    <3> QED
      BY <1>2, <2>1, <2>3, <3>1 DEF CL!Seek
  <2> QED
    BY <2>2, <2>4, <2>5
<1>5. CASE \/ aesd_release(p) \/ Lock(p) \/ Interrupted(p) \/ Unlock(p)
           \/ IoctlRefused(p) \/ \E r : Call(p, r)
  <2>1. UNCHANGED <<f_pos, ubuf>>
    BY <1>5 DEF aesd_release, Lock, Interrupted, Unlock, Call, IoctlRefused, callVars
  <2> QED
    BY <1>2, <2>1 DEF CL!vars
<1> QED
  BY <1>3, <1>4, <1>5

\* Every step of the driver is one of the log or none.
LEMMA StepLogged ==
  ASSUME Inv, WriterInv, AskedInv, Inv', WriterInv', [Next]_vars
  PROVE  CL!Next \/ UNCHANGED CL!vars
<1>1. ASSUME NEW p \in Procs, Body(p) PROVE CL!Next \/ UNCHANGED CL!vars
  <2>1. aesd_write(p) => Data(p) \in WriteData
    BY DEF AskedInv, aesd_write, WriteRefused, WriteFault, WriteHeld, WriteNoMem,
           WriteCommitted, LineComplete, WriteOops, Holds
  <2>2. Holds(p, "read") /\ Reads(p, req[p].count) => CL!Read(p)
    BY DEF AskedInv, Holds, Reads, CL!Read
  <2> QED
    BY <1>1, <2>1, <2>2, WriteLogged, ReadLogged, OtherLogged DEF Body, CL!Next
<1>2. ASSUME NEW p \in Procs,
             \/ aesd_open(p) \/ aesd_release(p) \/ Lock(p) \/ Interrupted(p) \/ Unlock(p)
             \/ Finish(p) \/ CallWrite(p) \/ CallRead(p) \/ CallLlseek(p)
             \/ CallSeekTo(p) \/ IoctlRefused(p)
      PROVE  CL!Next \/ UNCHANGED CL!vars
  <2>1. CallWrite(p) \/ CallRead(p) \/ CallLlseek(p) \/ CallSeekTo(p) => \E r : Call(p, r)
    BY DEF CallWrite, CallRead, CallLlseek, CallSeekTo
  <2> QED
    BY <1>2, <2>1, OtherLogged DEF CL!Next
<1>3. CASE UNCHANGED vars
  <2>1. UNCHANGED <<LogOfRing, PendingOfBuffer>>
    BY <1>3, LogUntouched DEF vars, devVars, PendingOfBuffer
  <2> QED
    BY <1>3, <2>1 DEF vars, callVars, CL!vars
<1> QED
  BY <1>1, <1>2, <1>3 DEF Next, DriverAssumption

\* With one writer the device is a log of its last MaxOps commands, for rings,
\* lines, files and readers of any number: what aesd_write stores, what
\* overwriting drops, and what every read returns (main.c:70-219).
THEOREM DeviceIsLog ==
  ASSUME SingleWriter
  PROVE  Spec => ImplementsCommandLog
<1>1. Init => CL!Init
  <2> SUFFICES ASSUME Init PROVE CL!Init
    OBVIOUS
  <2>1. Entries(circular_buffer) = 0
    BY DEF Init, EmptyBuffer, Entries, IsEmpty
  <2>2. LogOfRing = <<>>
    BY <2>1 DEF LogOfRing
  <2>3. PendingOfBuffer = <<>>
    BY DEF Init, PendingOfBuffer
  <2> QED
    BY <2>2, <2>3 DEF Init, CL!Init
<1>2. Init => AskedInv
  BY DEF Init, AskedInv, NoReq
<1>3. Inv /\ AskedInv /\ [Next]_vars => AskedInv'
  BY AskedNext
<1>4. Inv /\ WriterInv /\ AskedInv /\ Inv' /\ WriterInv' /\ [Next]_vars => [CL!Next]_CL!vars
  BY StepLogged
<1> QED
  BY <1>1, <1>2, <1>3, <1>4, AlwaysWriterInv, PTL DEF Spec, ImplementsCommandLog, CL!Spec
=============================================================================
