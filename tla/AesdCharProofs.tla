--------------------------- MODULE AesdCharProofs ---------------------------
(***************************************************************************)
(* Theorems about AesdChar, for any number of processes, any ring and any  *)
(* line length, with proofs.                                               *)
(***************************************************************************)
EXTENDS AesdChar, CircularBufferProofs, SequenceTheorems

USE RingAssumption, DriverAssumption

\* What the types, the ring and the heap need of each other to be inductive: a
\* read only types because the entry it finds owns its memory, and overwriting
\* frees the right block only because the ring has no holes.
Inv == TypeOK /\ HeapOwned /\ RingShape

-----------------------------------------------------------------------------
(* Pieces of state. *)

LEMMA RequestType ==
  ASSUME TypeOK, NEW p \in Procs
  PROVE  /\ req[p].op = "write" =>
              /\ Data(p) \in Seq(Byte) /\ Count(p) \in Nat
              /\ req[p].write_count \in Nat
         /\ req[p].op = "read" => req[p].count \in Nat
         /\ req[p].op = "llseek" => req[p].whence \in Whence /\ req[p].off \in Int
         /\ req[p].op = "ioctl" =>
              req[p].write_cmd \in Nat /\ req[p].write_cmd_offset \in Nat
<1>1. req[p] \in Request
  BY DEF TypeOK
<1>2. CASE req[p] \in [op : {"none"}]
  BY <1>2
<1>3. CASE req[p] \in [op : {"write"}, data : Seq(Byte), write_count : Nat]
  BY <1>3 DEF Data, Count
<1>4. CASE req[p] \in [op : {"read"}, count : Nat]
  BY <1>4
<1>5. CASE req[p] \in [op : {"llseek"}, whence : Whence, off : Int]
  BY <1>5
<1>6. CASE req[p] \in [op : {"ioctl"}, write_cmd : Nat, write_cmd_offset : Nat]
  BY <1>6
<1> QED
  BY <1>1, <1>2, <1>3, <1>4, <1>5, <1>6 DEF Request

LEMMA RingType ==
  ASSUME TypeOK
  PROVE  /\ circular_buffer.in_offs \in Slots /\ circular_buffer.out_offs \in Slots
         /\ circular_buffer.full \in BOOLEAN
         /\ circular_buffer.entry \in [Slots -> Entry]
         /\ \A i \in Slots :
              /\ circular_buffer.entry[i].buffptr \in Blocks \cup {NULL, ZeroPtr}
              /\ circular_buffer.entry[i].size \in 0 .. MaxWriteSize - 1
BY DEF TypeOK, Ring, Entry

LEMMA CopiedType ==
  ASSUME TypeOK, NEW at \in Nat, NEW bytes \in Seq(Byte)
  PROVE  Copied(at, bytes) \in [0 .. MaxWriteSize - 1 -> Byte]
<1> SUFFICES ASSUME NEW i \in 0 .. MaxWriteSize - 1
             PROVE  Copied(at, bytes)[i] \in Byte
  BY DEF Copied, TypeOK
<1>1. CASE i - at \in 0 .. Len(bytes) - 1
  <2>1. i - at + 1 \in 1 .. Len(bytes)
    BY <1>1
  <2> QED
    BY <1>1, <2>1 DEF Copied, TypeOK
<1>2. CASE i - at \notin 0 .. Len(bytes) - 1
  BY <1>2 DEF Copied, TypeOK
<1> QED
  BY <1>1, <1>2

\* The invariants of the ring depend on the ring and the heap only.
LEMMA RingUntouched ==
  ASSUME HeapOwned, RingShape, UNCHANGED <<circular_buffer, heap>>
  PROVE  HeapOwned' /\ RingShape'
BY DEF HeapOwned, RingShape, Live

LEMMA InitInv == Init => Inv
<1> SUFFICES ASSUME Init PROVE Inv
  OBVIOUS
<1>1. TypeOK
  BY DEF Init, TypeOK, Ring, Entry, EmptyBuffer, EmptyEntry, Slots, NoReq, Request, InCall
<1>2. HeapOwned
  BY DEF Init, HeapOwned, Live, EmptyBuffer, EmptyEntry
<1>3. RingShape
  BY DEF Init, RingShape, EmptyBuffer, EmptyEntry, Slots
<1> QED
  BY <1>1, <1>2, <1>3 DEF Inv

-----------------------------------------------------------------------------
(* Steps outside of the bodies. *)

LEMMA OpenCloseInv ==
  ASSUME Inv, NEW p \in Procs, aesd_open(p) \/ aesd_release(p)
  PROVE  Inv'
<1>1. TypeOK'
  <2>1. CASE aesd_open(p)
    BY <2>1 DEF Inv, TypeOK, aesd_open, Goto, devVars, callVars, InCall
  <2>2. CASE aesd_release(p)
    BY <2>2 DEF Inv, TypeOK, aesd_release, Goto, devVars, callVars, InCall
  <2> QED
    BY <2>1, <2>2
<1>2. HeapOwned' /\ RingShape'
  BY RingUntouched DEF Inv, aesd_open, aesd_release, devVars
<1> QED
  BY <1>1, <1>2 DEF Inv

LEMMA CallInv ==
  ASSUME Inv, NEW p \in Procs, NEW r \in Request, r.op # "none", Call(p, r)
  PROVE  Inv'
<1>1. TypeOK'
  BY DEF Inv, TypeOK, Call, Goto, devVars, InCall
<1>2. HeapOwned' /\ RingShape'
  BY RingUntouched DEF Inv, Call, devVars
<1> QED
  BY <1>1, <1>2 DEF Inv

LEMMA CallsInv ==
  ASSUME Inv, NEW p \in Procs,
         CallWrite(p) \/ CallRead(p) \/ CallLlseek(p) \/ CallSeekTo(p)
  PROVE  Inv'
<1>1. CASE CallWrite(p)
  <2>1. PICK data \in WriteData :
          Call(p, [op |-> "write", data |-> data, write_count |-> WriteCount(Len(data))])
    BY <1>1 DEF CallWrite
  <2>2. data \in Seq(Byte) /\ WriteCount(Len(data)) \in Nat
    BY DEF Inv, TypeOK, WriteCount
  <2>3. [op |-> "write", data |-> data, write_count |-> WriteCount(Len(data))] \in Request
    BY <2>2 DEF Request
  <2> QED
    BY <2>1, <2>3, CallInv
<1>2. CASE CallRead(p)
  <2>1. PICK count \in ReadCounts : Call(p, [op |-> "read", count |-> count])
    BY <1>2 DEF CallRead
  <2>2. [op |-> "read", count |-> count] \in Request
    BY DEF Request
  <2> QED
    BY <2>1, <2>2, CallInv
<1>3. CASE CallLlseek(p)
  <2>1. PICK whence \in Whence, off \in Offsets :
          Call(p, [op |-> "llseek", whence |-> whence, off |-> off])
    BY <1>3 DEF CallLlseek
  <2>2. [op |-> "llseek", whence |-> whence, off |-> off] \in Request
    BY DEF Request
  <2> QED
    BY <2>1, <2>2, CallInv
<1>4. CASE CallSeekTo(p)
  <2>1. PICK cmd \in 0 .. MaxOps, offset \in SeekOffsets :
          Call(p, [op |-> "ioctl", write_cmd |-> cmd, write_cmd_offset |-> offset])
    BY <1>4 DEF CallSeekTo
  <2>2. [op |-> "ioctl", write_cmd |-> cmd, write_cmd_offset |-> offset] \in Request
    BY DEF Request
  <2> QED
    BY <2>1, <2>2, CallInv
<1> QED
  BY <1>1, <1>2, <1>3, <1>4

LEMMA IoctlRefusedInv ==
  ASSUME Inv, NEW p \in Procs, IoctlRefused(p)
  PROVE  Inv'
<1> DEFINE r == [op |-> "ioctl", write_cmd |-> 0, write_cmd_offset |-> 0]
<1>1. r \in Request /\ r.op # "none"
  BY DEF Request
<1>2. TypeOK'
  BY <1>1 DEF Inv, TypeOK, IoctlRefused, Goto, devVars, InCall, ENOTTY, EFAULT
<1>3. HeapOwned' /\ RingShape'
  BY RingUntouched DEF Inv, IoctlRefused, devVars
<1> QED
  BY <1>2, <1>3 DEF Inv

LEMMA LockStepsInv ==
  ASSUME Inv, NEW p \in Procs,
         Lock(p) \/ Interrupted(p) \/ Unlock(p) \/ Finish(p) \/ WriteOops(p)
  PROVE  Inv'
<1>1. TypeOK'
  <2>1. CASE Lock(p)
    BY <2>1 DEF Inv, TypeOK, Lock, Goto, devVars, callVars, InCall
  <2>2. CASE Interrupted(p)
    BY <2>2 DEF Inv, TypeOK, Interrupted, Goto, devVars, InCall, ERESTARTSYS
  <2>3. CASE Unlock(p)
    BY <2>3 DEF Inv, TypeOK, Unlock, Goto, devVars, callVars, InCall
  <2>4. CASE Finish(p)
    BY <2>4 DEF Inv, TypeOK, Finish, Goto, devVars, InCall, NoReq, Request
  <2>5. CASE WriteOops(p)
    BY <2>5 DEF Inv, TypeOK, WriteOops, Goto, devVars, callVars, InCall
  <2> QED
    BY <2>1, <2>2, <2>3, <2>4, <2>5
<1>2. HeapOwned' /\ RingShape'
  BY RingUntouched DEF Inv, Lock, Interrupted, Unlock, Finish, WriteOops, devVars
<1> QED
  BY <1>1, <1>2 DEF Inv

-----------------------------------------------------------------------------
(* The bodies of the calls. *)

\* Every body that leaves the device alone but for bytes behind the pending
\* line, and returns an integer and a position.
LEMMA QuietReturnInv ==
  ASSUME Inv, NEW p \in Procs, pc[p] = "locked",
         NEW r \in Int, Return(p, r),
         UNCHANGED <<circular_buffer, heap>>,
         write_buffer' \in [0 .. MaxWriteSize - 1 -> Byte],
         write_buffer_index' \in Nat,
         f_pos' \in [Procs -> Nat],
         ubuf' \in [Procs -> Seq(Byte)]
  PROVE  Inv'
<1>1. TypeOK'
  BY DEF Inv, TypeOK, Return, InCall
<1>2. HeapOwned' /\ RingShape'
  BY RingUntouched DEF Inv
<1> QED
  BY <1>1, <1>2 DEF Inv

LEMMA UnsuccessfulWriteInv ==
  ASSUME Inv, NEW p \in Procs,
         WriteRefused(p) \/ WriteFault(p) \/ WriteHeld(p) \/ WriteNoMem(p)
  PROVE  Inv'
<1>1. /\ Holds(p, "write")
      /\ UNCHANGED <<circular_buffer, heap, f_pos, ubuf>>
  BY DEF WriteRefused, WriteFault, WriteHeld, WriteNoMem, LineComplete, devVars
<1>2. /\ pc[p] = "locked"
      /\ Data(p) \in Seq(Byte) /\ Count(p) \in Nat /\ req[p].write_count \in Nat
  BY <1>1, RequestType DEF Holds, Inv
<1>3. write_buffer_index \in Nat /\ write_buffer \in [0 .. MaxWriteSize - 1 -> Byte]
  BY DEF Inv, TypeOK
<1>4. f_pos' \in [Procs -> Nat] /\ ubuf' \in [Procs -> Seq(Byte)]
  BY <1>1 DEF Inv, TypeOK
<1>5. Copied(write_buffer_index, Data(p)) \in [0 .. MaxWriteSize - 1 -> Byte]
  BY <1>2, <1>3, CopiedType DEF Inv
<1>6. CASE WriteRefused(p)
  <2>1. Return(p, -EINVAL) /\ -EINVAL \in Int
    BY <1>6 DEF WriteRefused, EINVAL
  <2>2. write_buffer' \in [0 .. MaxWriteSize - 1 -> Byte] /\ write_buffer_index' \in Nat
    BY <1>3, <1>6 DEF WriteRefused, devVars
  <2> QED
    BY <1>1, <1>2, <1>4, <2>1, <2>2, QuietReturnInv
<1>7. CASE WriteFault(p)
  <2>1. PICK n \in 0 .. Count(p) - 1 :
          write_buffer' = Copied(write_buffer_index,
                            [i \in 1 .. Count(p) |-> IF i <= n THEN Data(p)[i] ELSE NUL])
    BY <1>7 DEF WriteFault
  <2>2. [i \in 1 .. Count(p) |-> IF i <= n THEN Data(p)[i] ELSE NUL] \in Seq(Byte)
    BY <1>2 DEF Count
  <2>3. write_buffer' \in [0 .. MaxWriteSize - 1 -> Byte] /\ write_buffer_index' \in Nat
    BY <1>3, <1>7, <2>1, <2>2, CopiedType DEF Inv, WriteFault
  <2>4. Return(p, -EFAULT) /\ -EFAULT \in Int
    BY <1>7 DEF WriteFault, EFAULT
  <2> QED
    BY <1>1, <1>2, <1>4, <2>3, <2>4, QuietReturnInv
<1>8. CASE WriteHeld(p)
  <2>1. Return(p, Count(p)) /\ Count(p) \in Int
    BY <1>2, <1>8 DEF WriteHeld
  <2>2. write_buffer' \in [0 .. MaxWriteSize - 1 -> Byte] /\ write_buffer_index' \in Nat
    BY <1>2, <1>3, <1>5, <1>8 DEF WriteHeld
  <2> QED
    BY <1>1, <1>2, <1>4, <2>1, <2>2, QuietReturnInv
<1>9. CASE WriteNoMem(p)
  <2>1. Return(p, -ENOMEM) /\ -ENOMEM \in Int
    BY <1>9 DEF WriteNoMem, ENOMEM
  <2>2. write_buffer' \in [0 .. MaxWriteSize - 1 -> Byte] /\ write_buffer_index' \in Nat
    BY <1>3, <1>5, <1>9 DEF WriteNoMem, LineComplete
  <2> QED
    BY <1>1, <1>2, <1>4, <2>1, <2>2, QuietReturnInv
<1> QED
  BY <1>6, <1>7, <1>8, <1>9

\* What storing a command does to ring and heap: the new entry in slot in_offs,
\* its block in place of the one of the oldest command.
LEMMA CommittedEffect ==
  ASSUME Inv, NEW p \in Procs, WriteCommitted(p)
  PROVE  LET size == req[p].write_count
             line == [i \in 1 .. size |-> write_buffer'[i - 1]]
             buf  == circular_buffer
             old  == buf.entry[buf.in_offs].buffptr
         IN  \E b :
               /\ \/ size = 0 /\ b = ZeroPtr /\ b \notin Blocks
                  \/ size # 0 /\ b \in Blocks /\ heap[b] = NULL /\ line \in Line
               /\ circular_buffer'.entry =
                    [buf.entry EXCEPT ![buf.in_offs] = [buffptr |-> b, size |-> size]]
               /\ circular_buffer'.in_offs = NextSlot(buf.in_offs)
               /\ circular_buffer'.out_offs =
                    IF buf.full THEN NextSlot(buf.out_offs) ELSE buf.out_offs
               /\ circular_buffer'.full =
                    (buf.full \/ circular_buffer'.in_offs = circular_buffer'.out_offs)
               /\ circular_buffer' \in [entry : {circular_buffer'.entry},
                                        in_offs : {circular_buffer'.in_offs},
                                        out_offs : {circular_buffer'.out_offs},
                                        full : {circular_buffer'.full}]
               /\ old \in Blocks => heap[old] # NULL
               /\ heap' \in [Blocks -> Line \cup {NULL}]
               /\ \A c \in Blocks : heap'[c] = IF c = old THEN NULL
                                                ELSE IF c = b THEN line ELSE heap[c]
<1> DEFINE size == req[p].write_count
           line == [i \in 1 .. size |-> write_buffer'[i - 1]]
           buf  == circular_buffer
<1>1. /\ pc[p] = "locked" /\ Data(p) \in Seq(Byte) /\ Count(p) \in Nat
      /\ size \in 0 .. MaxWriteSize - 1
  BY RequestType DEF Inv, WriteCommitted, LineComplete, Holds, WriteAccepted
<1>2. write_buffer' \in [0 .. MaxWriteSize - 1 -> Byte]
  <2>1. Copied(write_buffer_index, Data(p)) \in [0 .. MaxWriteSize - 1 -> Byte]
    BY <1>1, CopiedType DEF Inv, TypeOK
  <2> QED
    BY <2>1 DEF WriteCommitted, LineComplete
<1>3. PICK b \in kmalloc(size) \ {NULL} :
        /\ circular_buffer' = AddEntry(buf, [buffptr |-> b, size |-> size])
        /\ heap' = kfree(IF b \in Blocks THEN [heap EXCEPT ![b] = line] ELSE heap,
                         Overwritten(buf))
  BY DEF WriteCommitted
<1>4. \/ size = 0 /\ b = ZeroPtr /\ b \notin Blocks
      \/ size # 0 /\ b \in Blocks /\ heap[b] = NULL /\ line \in Line
  <2>1. CASE size = 0
    BY <1>3, <2>1 DEF kmalloc
  <2>2. CASE size # 0
    <3>1. b \in Blocks /\ heap[b] = NULL
      BY <1>3, <2>2 DEF kmalloc
    <3>2. size \in 1 .. MaxWriteSize - 1
      BY <1>1, <2>2
    <3>3. \A i \in 1 .. size : write_buffer'[i - 1] \in Byte
      BY <1>2, <3>2
    <3>4. line \in [1 .. size -> Byte]
      BY <3>3
    <3>5. line \in Line
      BY <3>2, <3>4 DEF Line
    <3> QED
      BY <2>2, <3>1, <3>5
  <2> QED
    BY <2>1, <2>2
<1>5. /\ buf.in_offs \in Slots /\ buf.out_offs \in Slots /\ buf.full \in BOOLEAN
      /\ buf.entry \in [Slots -> Entry]
      /\ \A i \in Slots : /\ buf.entry[i].buffptr \in Blocks \cup {NULL, ZeroPtr}
                          /\ buf.entry[i].size \in 0 .. MaxWriteSize - 1
  BY RingType DEF Inv
<1>6. /\ NextSlot(buf.in_offs) = IF buf.in_offs = MaxOps - 1 THEN 0 ELSE buf.in_offs + 1
      /\ NextSlot(buf.out_offs) = IF buf.out_offs = MaxOps - 1 THEN 0 ELSE buf.out_offs + 1
  BY <1>5, NextSlotCases
<1>7. /\ circular_buffer'.entry =
           [buf.entry EXCEPT ![buf.in_offs] = [buffptr |-> b, size |-> size]]
      /\ circular_buffer'.in_offs = NextSlot(buf.in_offs)
      /\ circular_buffer'.out_offs =
           IF buf.full THEN NextSlot(buf.out_offs) ELSE buf.out_offs
      /\ circular_buffer'.full =
           (buf.full \/ circular_buffer'.in_offs = circular_buffer'.out_offs)
      /\ circular_buffer' \in [entry : {circular_buffer'.entry},
                               in_offs : {circular_buffer'.in_offs},
                               out_offs : {circular_buffer'.out_offs},
                               full : {circular_buffer'.full}]
  BY <1>3 DEF AddEntry
<1> DEFINE old == buf.entry[buf.in_offs].buffptr
<1>12. /\ old = Overwritten(buf)
       /\ old \in Blocks => heap[old] # NULL
  <2>1. CASE buf.full
    BY <1>5, <2>1 DEF Inv, RingShape, Overwritten, HeapOwned, Live
  <2>2. CASE ~buf.full
    <3>1. buf.in_offs >= buf.in_offs
      BY <1>5 DEF Slots
    <3>2. old = NULL /\ Overwritten(buf) = NULL
      BY <1>5, <2>2, <3>1 DEF Inv, RingShape, Overwritten
    <3> QED
      BY <3>2
  <2> QED
    BY <2>1, <2>2
<1>13. /\ heap' \in [Blocks -> Line \cup {NULL}]
       /\ \A c \in Blocks : heap'[c] = IF c = old THEN NULL
                                       ELSE IF c = b THEN line ELSE heap[c]
  <2>1. heap \in [Blocks -> Line \cup {NULL}]
    BY DEF Inv, TypeOK
  <2>2. NULL \notin Blocks /\ old = Overwritten(buf)
    BY <1>12
  <2> HIDE DEF line, old
  <2>3. CASE b \in Blocks
    BY <1>3, <1>4, <2>1, <2>2, <2>3 DEF kfree
  <2>4. CASE b \notin Blocks
    BY <1>3, <2>1, <2>2, <2>4 DEF kfree
  <2> QED
    BY <2>3, <2>4
<1> QED
  BY <1>4, <1>7, <1>12, <1>13, Zenon

\* A completed line: the one step that changes the ring and the heap.
LEMMA WriteCommittedInv ==
  ASSUME Inv, NEW p \in Procs, WriteCommitted(p)
  PROVE  Inv'
<1> DEFINE size == req[p].write_count
           line == [i \in 1 .. size |-> write_buffer'[i - 1]]
           buf  == circular_buffer
           old  == buf.entry[buf.in_offs].buffptr
<1>1. /\ pc[p] = "locked" /\ Data(p) \in Seq(Byte) /\ Count(p) \in Nat
      /\ size \in 0 .. MaxWriteSize - 1
  BY RequestType DEF Inv, WriteCommitted, LineComplete, Holds, WriteAccepted
<1>2. write_buffer' \in [0 .. MaxWriteSize - 1 -> Byte]
  <2>1. Copied(write_buffer_index, Data(p)) \in [0 .. MaxWriteSize - 1 -> Byte]
    BY <1>1, CopiedType DEF Inv, TypeOK
  <2> QED
    BY <2>1 DEF WriteCommitted, LineComplete
<1>3. PICK b :
         /\ \/ size = 0 /\ b = ZeroPtr /\ b \notin Blocks
            \/ size # 0 /\ b \in Blocks /\ heap[b] = NULL /\ line \in Line
         /\ circular_buffer'.entry =
              [buf.entry EXCEPT ![buf.in_offs] = [buffptr |-> b, size |-> size]]
         /\ circular_buffer'.in_offs = NextSlot(buf.in_offs)
         /\ circular_buffer'.out_offs =
              IF buf.full THEN NextSlot(buf.out_offs) ELSE buf.out_offs
         /\ circular_buffer'.full =
              (buf.full \/ circular_buffer'.in_offs = circular_buffer'.out_offs)
         /\ circular_buffer' \in [entry : {circular_buffer'.entry},
                                  in_offs : {circular_buffer'.in_offs},
                                  out_offs : {circular_buffer'.out_offs},
                                  full : {circular_buffer'.full}]
         /\ old \in Blocks => heap[old] # NULL
         /\ heap' \in [Blocks -> Line \cup {NULL}]
         /\ \A c \in Blocks : heap'[c] = IF c = old THEN NULL
                                          ELSE IF c = b THEN line ELSE heap[c]
  BY CommittedEffect
<1>5. /\ buf.in_offs \in Slots /\ buf.out_offs \in Slots /\ buf.full \in BOOLEAN
      /\ buf.entry \in [Slots -> Entry]
      /\ \A i \in Slots : /\ buf.entry[i].buffptr \in Blocks \cup {NULL, ZeroPtr}
                          /\ buf.entry[i].size \in 0 .. MaxWriteSize - 1
  BY RingType DEF Inv
<1>6. /\ NextSlot(buf.in_offs) = IF buf.in_offs = MaxOps - 1 THEN 0 ELSE buf.in_offs + 1
      /\ NextSlot(buf.out_offs) = IF buf.out_offs = MaxOps - 1 THEN 0 ELSE buf.out_offs + 1
  BY <1>5, NextSlotCases
<1>8. [buffptr |-> b, size |-> size] \in Entry
  BY <1>1, <1>3 DEF Entry
<1>9. circular_buffer' \in Ring
  <2>1. circular_buffer'.entry \in [Slots -> Entry]
    BY <1>5, <1>3, <1>8
  <2>2. circular_buffer'.in_offs \in Slots /\ circular_buffer'.out_offs \in Slots
    BY SMTT(30), <1>5, <1>6, <1>3 DEF Slots
  <2>3. circular_buffer'.full \in BOOLEAN
    BY <1>5, <1>3
  <2> QED
    BY <1>3, <2>1, <2>2, <2>3 DEF Ring
<1>10. \A i \in Slots :
         circular_buffer'.entry[i] = IF i = buf.in_offs THEN [buffptr |-> b, size |-> size]
                                     ELSE buf.entry[i]
  BY <1>5, <1>3
<1>11. RingShape'
  <2>1. \A i \in Slots : circular_buffer'.entry[i].buffptr \notin Blocks =>
                           circular_buffer'.entry[i].size = 0
    BY <1>3, <1>10 DEF Inv, RingShape
  <2>2. CASE buf.full
    <3>1. /\ circular_buffer'.full
          /\ circular_buffer'.in_offs = circular_buffer'.out_offs
      BY <1>3, <2>2 DEF Inv, RingShape
    <3>2. \A i \in Slots : circular_buffer'.entry[i].buffptr # NULL
      BY <1>3, <1>10, <2>2 DEF Inv, RingShape
    <3> QED
      BY <2>1, <3>1, <3>2 DEF RingShape
  <2>3. CASE ~buf.full
    <3>1. buf.out_offs = 0 /\ circular_buffer'.out_offs = 0
      BY <1>3, <2>3 DEF Inv, RingShape
    <3>2. \A i \in Slots :
            circular_buffer'.entry[i].buffptr = NULL <=> i > buf.in_offs
      BY <1>3, <1>5, <1>10, <2>3 DEF Inv, RingShape, Slots
    <3>3. CASE buf.in_offs = MaxOps - 1
      <4>1. circular_buffer'.full /\ circular_buffer'.in_offs = 0
        BY <1>6, <1>3, <3>1, <3>3
      <4>2. \A i \in Slots : ~(i > buf.in_offs)
        BY <3>3 DEF Slots
      <4> QED
        BY <2>1, <3>1, <3>2, <4>1, <4>2 DEF RingShape
    <3>4. CASE buf.in_offs # MaxOps - 1
      <4>1. /\ circular_buffer'.in_offs = buf.in_offs + 1
            /\ ~circular_buffer'.full
        BY <1>5, <1>6, <1>3, <2>3, <3>1, <3>4 DEF Slots
      <4>2. \A i \in Slots : i > buf.in_offs <=> i >= circular_buffer'.in_offs
        BY <1>5, <4>1 DEF Slots
      <4> QED
        BY <2>1, <3>1, <3>2, <4>1, <4>2 DEF RingShape
    <3> QED
      BY <3>3, <3>4
  <2> QED
    BY <2>2, <2>3
<1>14. b \in Blocks => line # NULL /\ Len(line) = size /\ b # old
  <2> SUFFICES ASSUME b \in Blocks
               PROVE  line # NULL /\ Len(line) = size /\ b # old
    OBVIOUS
  <2>1. size # 0 /\ heap[b] = NULL /\ line \in Line
    BY <1>3
  <2>2. line \in Seq(Byte) /\ Len(line) = size
    BY <1>1, <2>1 DEF Line
  <2> QED
    BY <1>3, <2>1, <2>2
<1>15. HeapOwned'
  <2> DEFINE ptr(i) == buf.entry[i].buffptr
             ptrN(i) == circular_buffer'.entry[i].buffptr
  <2>1. \A i \in Slots : ptrN(i) = IF i = buf.in_offs THEN b ELSE ptr(i)
    BY <1>10
  <2>2. \A i, j \in Slots : ptr(i) \in Blocks /\ ptr(i) = ptr(j) => i = j
    BY DEF Inv, HeapOwned, Live
  <2>3. \A i \in Slots : i # buf.in_offs /\ ptr(i) \in Blocks => ptr(i) # old /\ ptr(i) # b
    BY <1>3, <1>5, <2>2 DEF Inv, HeapOwned, Live
  <2>4. \A i \in Slots : ptrN(i) \in Blocks =>
          heap'[ptrN(i)] # NULL /\ circular_buffer'.entry[i].size = Len(heap'[ptrN(i)])
    <3> SUFFICES ASSUME NEW i \in Slots, ptrN(i) \in Blocks
                 PROVE  /\ heap'[ptrN(i)] # NULL
                        /\ circular_buffer'.entry[i].size = Len(heap'[ptrN(i)])
      OBVIOUS
    <3>1. CASE i = buf.in_offs
      <4>1. ptrN(i) = b /\ circular_buffer'.entry[i].size = size
        BY <1>10, <3>1
      <4>2. b \in Blocks /\ heap'[b] = line
        BY <1>3, <1>14, <4>1
      <4> QED
        BY <1>14, <4>1, <4>2
    <3>2. CASE i # buf.in_offs
      <4>1. ptrN(i) = ptr(i) /\ circular_buffer'.entry[i].size = buf.entry[i].size
        BY <1>10, <3>2
      <4>2. heap'[ptr(i)] = heap[ptr(i)]
        BY <1>3, <2>3, <3>2, <4>1
      <4> QED
        BY <4>1, <4>2 DEF Inv, HeapOwned, Live
    <3> QED
      BY <3>1, <3>2
  <2>5. \A i, j \in Slots : ptrN(i) \in Blocks /\ ptrN(i) = ptrN(j) => i = j
    BY <2>1, <2>2, <2>3
  <2>6. \A c \in Blocks : heap'[c] # NULL => \E i \in Slots : ptrN(i) = c
    <3> SUFFICES ASSUME NEW c \in Blocks, heap'[c] # NULL
                 PROVE  \E i \in Slots : ptrN(i) = c
      OBVIOUS
    <3>1. CASE c = b
      BY <1>5, <2>1, <3>1
    <3>2. CASE c # b
      <4>1. c # old /\ heap[c] # NULL
        BY <1>3, <3>2
      <4>2. PICK i \in Slots : ptr(i) = c
        BY <4>1 DEF Inv, HeapOwned
      <4> QED
        BY <2>1, <4>1, <4>2
    <3> QED
      BY <3>1, <3>2
  <2> QED
    BY <2>4, <2>5, <2>6 DEF HeapOwned, Live
<1>16. TypeOK'
  <2>1. /\ write_buffer_index' = 0
        /\ Return(p, Count(p)) /\ UNCHANGED <<f_pos, ubuf>>
    BY DEF WriteCommitted
  <2>2. write_buffer_index' \in Nat
    BY <2>1
  <2>3. ret' \in [Procs -> Int]
    BY <1>1, <2>1 DEF Inv, TypeOK, Return
  <2>4. /\ pc' \in [Procs -> InCall \cup {"closed", "idle", "done"}]
        /\ \A q \in Procs : pc'[q] \in {"closed", "idle"} <=> req'[q].op = "none"
        /\ lock' \in Procs \cup {NULL} /\ req' \in [Procs -> Request]
        /\ f_pos' \in [Procs -> Nat] /\ ubuf' \in [Procs -> Seq(Byte)]
    BY <1>1, <2>1 DEF Inv, TypeOK, Return, InCall
  <2>5. heap' \in [Blocks -> Line \cup {NULL}]
    BY <1>3
  <2> QED
    BY <1>2, <1>9, <2>2, <2>3, <2>4, <2>5 DEF TypeOK
<1> QED
  BY <1>11, <1>15, <1>16 DEF Inv

LEMMA ReadInv ==
  ASSUME Inv, NEW p \in Procs, aesd_read(p)
  PROVE  Inv'
<1> DEFINE found == Found(p)
           n     == BytesToCopy(p)
           e     == circular_buffer.entry[found.slot]
<1>1. /\ pc[p] = "locked" /\ req[p].count \in Nat
      /\ UNCHANGED <<circular_buffer, heap, write_buffer, write_buffer_index>>
  BY RequestType DEF Inv, aesd_read, ReadNothing, ReadFault, ReadBytes, Holds, devVars
<1>2. /\ write_buffer' \in [0 .. MaxWriteSize - 1 -> Byte] /\ write_buffer_index' \in Nat
      /\ f_pos \in [Procs -> Nat] /\ ubuf \in [Procs -> Seq(Byte)]
  BY <1>1 DEF Inv, TypeOK
<1>3. CASE ReadNothing(p) \/ ReadFault(p)
  <2>1. PICK r \in Int : Return(p, r)
    BY <1>3 DEF ReadNothing, ReadFault, EFAULT
  <2>2. UNCHANGED <<f_pos, ubuf>>
    BY <1>3 DEF ReadNothing, ReadFault
  <2> QED
    BY <1>1, <1>2, <2>1, <2>2, QuietReturnInv
<1>4. CASE ReadBytes(p)
  <2>1. n > 0 /\ found # NotFound
    BY <1>4 DEF ReadBytes, BytesToCopy
  <2>2. found.slot \in Slots /\ found.offset \in Nat
    BY <1>2, <2>1, FindEntryType, RingType DEF Inv, Found
  <2>3. e.size \in Nat /\ e.buffptr \in Blocks \cup {NULL, ZeroPtr}
    BY <2>2, RingType DEF Inv
  <2>4. n \in Nat /\ n <= e.size - found.offset
    BY <1>1, <2>1, <2>2, <2>3 DEF BytesToCopy
  <2>5. e.size # 0
    BY <2>1, <2>2, <2>3, <2>4
  <2>6. /\ e.buffptr \in Blocks
        /\ heap[e.buffptr] \in Line /\ Len(heap[e.buffptr]) = e.size
    <3>1. e.buffptr \in Blocks
      BY <2>2, <2>5 DEF Inv, RingShape
    <3> QED
      BY <2>2, <3>1 DEF Inv, TypeOK, HeapOwned, Live
  <2>7. heap[e.buffptr] \in Seq(Byte)
    BY <2>6 DEF Line
  <2>8. SubSeq(heap[e.buffptr], found.offset + 1, found.offset + n) \in Seq(Byte)
    <3> HIDE DEF found, n, e
    <3>1. found.offset \in Nat /\ n \in Nat /\ found.offset + n <= Len(heap[e.buffptr])
      BY <2>2, <2>3, <2>4, <2>6
    <3>2. \A i \in found.offset + 1 .. found.offset + n : heap[e.buffptr][i] \in Byte
      BY <2>7, <3>1
    <3> QED
      BY <3>1, <3>2, SubSeqProperties
  <2>9. f_pos' \in [Procs -> Nat] /\ ubuf' \in [Procs -> Seq(Byte)]
    BY <1>2, <1>4, <2>4, <2>8 DEF ReadBytes
  <2>10. Return(p, n) /\ n \in Int
    BY <1>4, <2>4 DEF ReadBytes
  <2> QED
    BY <1>1, <1>2, <2>9, <2>10, QuietReturnInv
<1> QED
  BY <1>3, <1>4 DEF aesd_read

LEMMA SeekInv ==
  ASSUME Inv, NEW p \in Procs, aesd_llseek(p) \/ aesd_adjust_file_offset(p)
  PROVE  Inv'
<1>1. /\ pc[p] = "locked"
      /\ UNCHANGED <<circular_buffer, heap, write_buffer, write_buffer_index, ubuf>>
  BY DEF aesd_llseek, aesd_adjust_file_offset, Holds, devVars
<1>2. /\ write_buffer' \in [0 .. MaxWriteSize - 1 -> Byte] /\ write_buffer_index' \in Nat
      /\ f_pos \in [Procs -> Nat] /\ ubuf' \in [Procs -> Seq(Byte)]
  BY <1>1 DEF Inv, TypeOK
<1>3. circular_buffer.in_offs \in Slots /\ circular_buffer.out_offs \in Slots
  BY RingType DEF Inv
<1>4. PICK r \in Int : Return(p, r) /\ f_pos' \in [Procs -> Nat]
  <2>1. CASE aesd_llseek(p)
    <3>1. req[p].whence \in Whence /\ req[p].off \in Int
      BY <2>1, RequestType DEF Inv, aesd_llseek, Holds
    <3>2. BufferSize(circular_buffer, circular_buffer.in_offs) \in Nat
      BY <1>3, BufferSizeType
    <3>3. SeekTarget(p) \in Int
      BY <1>2, <3>1, <3>2 DEF SeekTarget, EINVAL, Whence
    <3>4. CASE SeekTarget(p) < 0
      <4>1. Return(p, -EINVAL) /\ f_pos' = f_pos
        BY <2>1, <3>4 DEF aesd_llseek
      <4>2. -EINVAL \in Int
        BY DEF EINVAL
      <4> QED
        BY <1>2, <4>1, <4>2
    <3>5. CASE ~(SeekTarget(p) < 0)
      <4>1. Return(p, SeekTarget(p)) /\ f_pos' = [f_pos EXCEPT ![p] = SeekTarget(p)]
        BY <2>1, <3>5 DEF aesd_llseek
      <4>2. SeekTarget(p) \in Nat
        BY <3>3, <3>5
      <4>3. f_pos' \in [Procs -> Nat]
        BY <1>2, <4>1, <4>2
      <4> QED
        BY <3>3, <4>1, <4>3
    <3> QED
      BY <3>4, <3>5
  <2>2. CASE aesd_adjust_file_offset(p)
    <3> DEFINE total == BufferSize(circular_buffer, req[p].write_cmd)
               found == FindEntry(circular_buffer, total + req[p].write_cmd_offset)
    <3>1. req[p].write_cmd \in Nat /\ req[p].write_cmd_offset \in Nat
      BY <2>2, RequestType DEF Inv, aesd_adjust_file_offset, Holds
    <3>2. CASE SeekToRefused(p) \/ found = NotFound
      BY <1>2, <2>2, <3>2 DEF aesd_adjust_file_offset, EINVAL
    <3>3. CASE ~SeekToRefused(p) /\ found # NotFound
      <4>1. req[p].write_cmd \in Slots
        BY <3>1, <3>3 DEF SeekToRefused, Slots
      <4>2. total \in Nat
        BY <1>3, <4>1, BufferSizeType
      <4>3. found.offset \in Nat
        BY <1>3, <3>1, <3>3, <4>2, FindEntryType
      <4>4. Return(p, total + found.offset)
            /\ f_pos' = [f_pos EXCEPT ![p] = total + found.offset]
        BY <2>2, <3>3 DEF aesd_adjust_file_offset
      <4>5. f_pos' \in [Procs -> Nat]
        BY <1>2, <4>2, <4>3, <4>4
      <4>6. total + found.offset \in Int
        BY <4>2, <4>3
      <4> QED
        BY <4>4, <4>5, <4>6
    <3> QED
      BY <3>2, <3>3
  <2> QED
    BY <2>1, <2>2
<1> QED
  BY <1>1, <1>2, <1>4, QuietReturnInv

-----------------------------------------------------------------------------
\* Every step keeps the invariant.
LEMMA NextInv == Inv /\ [Next]_vars => Inv'
<1> SUFFICES ASSUME Inv, [Next]_vars PROVE Inv'
  OBVIOUS
<1>1. CASE UNCHANGED vars
  <2>1. TypeOK'
    BY <1>1 DEF Inv, TypeOK, vars, devVars, callVars
  <2>2. HeapOwned' /\ RingShape'
    BY <1>1, RingUntouched DEF Inv, vars, devVars
  <2> QED
    BY <2>1, <2>2 DEF Inv
<1>2. ASSUME NEW p \in Writers, CallWrite(p) PROVE Inv'
  BY <1>2, CallsInv
<1>3. ASSUME NEW p \in Readers,
             CallRead(p) \/ CallLlseek(p) \/ CallSeekTo(p) \/ IoctlRefused(p)
      PROVE  Inv'
  BY <1>3, CallsInv, IoctlRefusedInv
<1>4. ASSUME NEW p \in Procs, aesd_open(p) \/ aesd_release(p) PROVE Inv'
  BY <1>4, OpenCloseInv
<1>5. ASSUME NEW p \in Procs, Lock(p) \/ Interrupted(p) \/ Unlock(p) \/ Finish(p)
      PROVE  Inv'
  BY <1>5, LockStepsInv
<1>6. ASSUME NEW p \in Procs, Body(p) PROVE Inv'
  <2>1. CASE aesd_write(p)
    BY <2>1, UnsuccessfulWriteInv, WriteCommittedInv, LockStepsInv DEF aesd_write
  <2>2. CASE aesd_read(p)
    BY <2>2, ReadInv
  <2>3. CASE aesd_llseek(p) \/ aesd_adjust_file_offset(p)
    BY <2>3, SeekInv
  <2> QED
    BY <1>6, <2>1, <2>2, <2>3 DEF Body
<1> QED
  BY <1>1, <1>2, <1>3, <1>4, <1>5, <1>6 DEF Next

LEMMA AlwaysInv == Spec => []Inv
<1> QED
  BY InitInv, NextInv, PTL DEF Spec

\* The driver's state keeps its types, whatever is written, read or sought.
THEOREM TypeCorrect == Spec => []TypeOK
<1>1. Inv => TypeOK
  BY DEF Inv
<1> QED
  BY <1>1, AlwaysInv, PTL

\* No command leaks, dangles or is freed twice, with any number of writers: the
\* memory on the heap is what the ring refers to (main.c:190-214).
THEOREM HeapIsOwned == Spec => []HeapOwned
<1>1. Inv => HeapOwned
  BY DEF Inv
<1> QED
  BY <1>1, AlwaysInv, PTL

\* The ring has no holes, and once it is full its two offsets move together.
THEOREM RingKeepsShape == Spec => []RingShape
<1>1. Inv => RingShape
  BY DEF Inv
<1> QED
  BY <1>1, AlwaysInv, PTL

-----------------------------------------------------------------------------
(***************************************************************************)
(* One write at a time: of one writer, or of several that something else   *)
(* keeps apart.  It counted the pending bytes before it had the lock, and  *)
(* nobody else changes their number in between.                            *)
(***************************************************************************)
WritesAlone ==
  \A p, q \in Procs : req[p].op = "write" /\ req[q].op = "write" => p = q

CountIsFresh(p) ==
  pc[p] \in {"waiting", "locked"} /\ req[p].op = "write" =>
    req[p].write_count = write_buffer_index + Count(p)

WriterInv ==
  /\ \A p \in Procs : req[p].op = "write" => p \in Writers
  /\ \A p \in Procs : CountIsFresh(p)
  /\ write_buffer_index < MaxWriteSize
  /\ LinesEndCommands

LEMMA WriterInitInv == Init => WriterInv
<1> SUFFICES ASSUME Init PROVE WriterInv
  OBVIOUS
<1>1. \A p \in Procs : req[p].op = "none" /\ pc[p] = "closed"
  BY DEF Init, NoReq
<1>2. LinesEndCommands /\ write_buffer_index < MaxWriteSize
  BY DEF Init, LinesEndCommands
<1> QED
  BY <1>1, <1>2 DEF WriterInv, CountIsFresh

\* A step that leaves the device alone.
LEMMA WriterUntouched ==
  ASSUME Inv, WriterInv, UNCHANGED devVars, NEW p \in Procs,
         \A q \in Procs : q # p => pc'[q] = pc[q] /\ req'[q] = req[q],
         req'[p].op = "write" => p \in Writers,
         CountIsFresh(p)'
  PROVE  WriterInv'
<1>1. LinesEndCommands' /\ write_buffer_index' < MaxWriteSize
  BY DEF WriterInv, LinesEndCommands, devVars
<1>2. \A q \in Procs : CountIsFresh(q)'
  BY DEF WriterInv, CountIsFresh, devVars, Count, Data
<1> QED
  BY <1>1, <1>2 DEF WriterInv

\* Whatever happens in a write, its own process is the only one that counted.
LEMMA WriteKeepsFresh ==
  ASSUME WritesAlone, Inv, WriterInv, NEW p \in Procs, aesd_write(p)
  PROVE  /\ \A q \in Procs : req'[q].op = "write" => q \in Writers
         /\ \A q \in Procs : CountIsFresh(q)'
<1>1. /\ Holds(p, "write") /\ UNCHANGED req
      /\ pc'[p] \in {"out", "killed"} /\ \A q \in Procs : q # p => pc'[q] = pc[q]
  <2>1. CASE WriteOops(p)
    BY <2>1 DEF WriteOops, Goto, callVars, Inv, TypeOK
  <2>2. CASE ~WriteOops(p)
    <3>1. PICK r : Return(p, r)
      BY <2>2 DEF aesd_write, WriteRefused, WriteFault, WriteHeld, WriteNoMem, WriteCommitted
    <3>2. Holds(p, "write")
      BY <2>2 DEF aesd_write, WriteRefused, WriteFault, WriteHeld, WriteNoMem,
                  WriteCommitted, LineComplete
    <3> QED
      BY <3>1, <3>2 DEF Return, Inv, TypeOK
  <2> QED
    BY <2>1, <2>2
<1>2. ASSUME NEW q \in Procs PROVE CountIsFresh(q)'
  <2>1. CASE q = p
    BY <1>1, <2>1 DEF CountIsFresh
  <2>2. CASE q # p
    <3>1. req[q].op # "write"
      BY <1>1, <2>2 DEF WritesAlone, Holds
    <3> QED
      BY <1>1, <3>1 DEF CountIsFresh
  <2> QED
    BY <2>1, <2>2
<1> QED
  BY <1>1, <1>2 DEF WriterInv

\* Copying behind the pending bytes does not change them.
LEMMA CopiedKeepsPending ==
  ASSUME Inv, NEW bytes \in Seq(Byte), NEW i \in 0 .. MaxWriteSize - 1,
         i < write_buffer_index
  PROVE  Copied(write_buffer_index, bytes)[i] = write_buffer[i]
<1>1. write_buffer_index \in Nat /\ DOMAIN write_buffer = 0 .. MaxWriteSize - 1
  BY DEF Inv, TypeOK
<1>2. ~(i - write_buffer_index \in 0 .. Len(bytes) - 1)
  BY <1>1
<1> QED
  BY <1>1, <1>2 DEF Copied

\* What the newline test says of a line with bytes in it.
LEMMA EndsLineTests ==
  ASSUME NEW wb, NEW n \in Nat, n # 0
  PROVE  /\ TRUE \in EndsLine(wb, n) => wb[n - 1] = NL
         /\ FALSE \in EndsLine(wb, n) => wb[n - 1] # NL
<1>1. EndsLine(wb, n) = {wb[n - 1] = NL}
  BY DEF EndsLine
<1>2. ASSUME TRUE \in EndsLine(wb, n) PROVE wb[n - 1] = NL
  BY <1>1, <1>2, Zenon
<1>3. ASSUME FALSE \in EndsLine(wb, n) PROVE wb[n - 1] # NL
  BY <1>1, <1>3, Zenon
<1> QED
  BY <1>2, <1>3

LEMMA WriterWriteInv ==
  ASSUME WritesAlone, Inv, WriterInv, NEW p \in Procs, aesd_write(p)
  PROVE  WriterInv'
<1> DEFINE size == req[p].write_count
           wb   == Copied(write_buffer_index, Data(p))
           kept == /\ UNCHANGED <<heap, write_buffer_index>>
                   /\ \A i \in 0 .. MaxWriteSize - 1 :
                        i < write_buffer_index => write_buffer'[i] = write_buffer[i]
<1>1. /\ write_buffer_index \in 0 .. MaxWriteSize - 1
      /\ write_buffer \in [0 .. MaxWriteSize - 1 -> Byte]
  BY DEF Inv, TypeOK, WriterInv
<1>2. /\ Holds(p, "write") /\ Data(p) \in Seq(Byte) /\ Count(p) \in Nat /\ size \in Nat
      /\ size = write_buffer_index + Count(p)
  <2>1. Holds(p, "write")
    BY DEF aesd_write, WriteRefused, WriteFault, WriteHeld, WriteNoMem, WriteCommitted,
           LineComplete, WriteOops
  <2> QED
    BY <2>1, RequestType DEF Inv, WriterInv, CountIsFresh, Holds
<1>3. wb \in [0 .. MaxWriteSize - 1 -> Byte]
  BY <1>1, <1>2, CopiedType DEF Inv
<1>4. kept => WriterInv'
  <2> SUFFICES ASSUME kept PROVE LinesEndCommands' /\ write_buffer_index' < MaxWriteSize
    BY WriteKeepsFresh DEF WriterInv
  <2> QED
    BY <1>1 DEF WriterInv, LinesEndCommands
<1>5. CASE WriteRefused(p) \/ WriteOops(p)
  BY <1>4, <1>5 DEF WriteRefused, WriteOops, devVars
<1>6. CASE WriteFault(p)
  <2>1. PICK n \in 0 .. Count(p) - 1 :
          write_buffer' = Copied(write_buffer_index,
                            [i \in 1 .. Count(p) |-> IF i <= n THEN Data(p)[i] ELSE NUL])
    BY <1>6 DEF WriteFault
  <2>2. [i \in 1 .. Count(p) |-> IF i <= n THEN Data(p)[i] ELSE NUL] \in Seq(Byte)
    BY <1>2 DEF Count
  <2>3. \A i \in 0 .. MaxWriteSize - 1 :
          i < write_buffer_index => write_buffer'[i] = write_buffer[i]
    BY <2>1, <2>2, CopiedKeepsPending
  <2> QED
    BY <1>4, <1>6, <2>3 DEF WriteFault
<1>7. CASE WriteHeld(p)
  <2>1. size < MaxWriteSize /\ write_buffer_index' = size /\ UNCHANGED heap
    BY <1>2, <1>7 DEF WriteHeld, WriteAccepted
  <2>2. size > 0 => write_buffer'[size - 1] # NL
    <3>1. FALSE \in EndsLine(write_buffer', size)
      BY <1>7 DEF WriteHeld
    <3>2. size # 0 => write_buffer'[size - 1] # NL
      BY <1>2, <3>1, EndsLineTests, Zenon
    <3> QED
      BY <3>2
  <2>3. LinesEndCommands'
    BY <2>1, <2>2 DEF WriterInv, LinesEndCommands
  <2> QED
    BY <2>1, <2>3, WriteKeepsFresh DEF WriterInv
<1>8. CASE WriteNoMem(p)
  <2>1. UNCHANGED <<heap, write_buffer_index>> /\ write_buffer' = [wb EXCEPT ![size] = NUL]
    BY <1>8 DEF WriteNoMem, LineComplete
  <2>2. \A i \in 0 .. MaxWriteSize - 1 :
          i < write_buffer_index => write_buffer'[i] = write_buffer[i]
    <3> SUFFICES ASSUME NEW i \in 0 .. MaxWriteSize - 1, i < write_buffer_index
                 PROVE  write_buffer'[i] = write_buffer[i]
      OBVIOUS
    <3>1. i # size /\ wb[i] = write_buffer[i]
      BY <1>1, <1>2, CopiedKeepsPending
    <3> QED
      BY <1>3, <2>1, <3>1
  <2> QED
    BY <1>4, <2>1, <2>2
<1>9. CASE WriteCommitted(p)
  <2> DEFINE line == [i \in 1 .. size |-> write_buffer'[i - 1]]
  <2>1. size \in 0 .. MaxWriteSize - 1
    BY <1>2, <1>9 DEF WriteCommitted, LineComplete, WriteAccepted
  <2>2. size > 0 => line[Len(line)] = NL
    <3> SUFFICES ASSUME size > 0 PROVE line[Len(line)] = NL
      OBVIOUS
    <3>1. wb[size - 1] = NL /\ write_buffer' = [wb EXCEPT ![size] = NUL]
      <4>1. LineComplete(p)
        BY <1>9 DEF WriteCommitted
      <4>2. TRUE \in EndsLine(wb, size) /\ write_buffer' = [wb EXCEPT ![size] = NUL]
        BY <4>1 DEF LineComplete
      <4>3. size # 0 => wb[size - 1] = NL
        BY <1>2, <4>2, EndsLineTests, Zenon
      <4> QED
        BY <4>2, <4>3
    <3>2. write_buffer'[size - 1] = NL
      BY <1>3, <2>1, <3>1
    <3>3. Len(line) = size /\ line[size] = write_buffer'[size - 1]
      BY <2>1
    <3> QED
      BY <3>2, <3>3
  <2>3. PICK b \in kmalloc(size) \ {NULL} :
          heap' = kfree(IF b \in Blocks THEN [heap EXCEPT ![b] = line] ELSE heap,
                        Overwritten(circular_buffer))
    BY <1>9 DEF WriteCommitted
  <2>4. b \in Blocks => size > 0
    BY <2>1, <2>3 DEF kmalloc
  <2>5. heap \in [Blocks -> Line \cup {NULL}]
    BY DEF Inv, TypeOK
  <2>6. \A c \in Blocks :
          heap'[c] # NULL => heap'[c] = heap[c] \/ (size > 0 /\ heap'[c] = line)
    <3> HIDE DEF line
    <3>1. CASE b \in Blocks
      BY <2>3, <2>4, <2>5, <3>1 DEF kfree
    <3>2. CASE b \notin Blocks
      BY <2>3, <2>5, <3>2 DEF kfree
    <3> QED
      BY <3>1, <3>2
  <2>7. write_buffer_index' = 0
    BY <1>9 DEF WriteCommitted
  <2>8. LinesEndCommands'
    <3> HIDE DEF line
    <3> QED
      BY <2>2, <2>6, <2>7 DEF WriterInv, LinesEndCommands
  <2> QED
    BY <2>7, <2>8, WriteKeepsFresh DEF WriterInv
<1> QED
  BY <1>5, <1>6, <1>7, <1>8, <1>9 DEF aesd_write

LEMMA WriterCallInv ==
  ASSUME Inv, WriterInv, NEW p \in Procs, NEW r,
         r.op = "write" => p \in Writers /\ r.write_count = write_buffer_index + Len(r.data),
         Call(p, r)
  PROVE  WriterInv'
<1>1. req'[p] = r /\ \A q \in Procs : q # p => pc'[q] = pc[q] /\ req'[q] = req[q]
  BY DEF Call, Goto, Inv, TypeOK
<1>2. CountIsFresh(p)'
  BY <1>1 DEF Call, CountIsFresh, Count, Data, devVars
<1> QED
  BY <1>1, <1>2, WriterUntouched DEF Call

\* What happens outside of the bodies.
LEMMA WriterQuietInv ==
  ASSUME Inv, WriterInv, NEW p \in Procs, UNCHANGED devVars,
         \/ UNCHANGED req /\ pc' = [pc EXCEPT ![p] = pc'[p]]
            /\ pc'[p] \in {"closed", "idle", "out", "done"}
         \/ Lock(p) \/ Finish(p) \/ IoctlRefused(p)
  PROVE  WriterInv'
<1>1. CASE IoctlRefused(p)
  <2>1. CountIsFresh(p)' /\ req'[p].op # "write"
    BY <1>1 DEF IoctlRefused, CountIsFresh, Inv, TypeOK
  <2> QED
    BY <1>1, <2>1, WriterUntouched DEF IoctlRefused, Inv, TypeOK, Goto
<1>2. CASE ~IoctlRefused(p)
  <2>1. req'[p].op = "write" => p \in Writers
    BY <1>2 DEF WriterInv, Lock, Finish, NoReq, callVars, Inv, TypeOK
  <2>2. \A q \in Procs : q # p => pc'[q] = pc[q] /\ req'[q] = req[q]
    BY <1>2 DEF Lock, Finish, callVars, Goto, Inv, TypeOK
  <2>3. CountIsFresh(p)'
    BY <1>2 DEF WriterInv, CountIsFresh, Lock, Finish, Goto, callVars, devVars,
                Count, Data, Inv, TypeOK
  <2> QED
    BY <2>1, <2>2, <2>3, WriterUntouched
<1> QED
  BY <1>1, <1>2

LEMMA WriterStepInv ==
  ASSUME WritesAlone, Inv, WriterInv, NEW p \in Procs,
         \/ aesd_open(p) \/ aesd_release(p) \/ Lock(p) \/ Interrupted(p)
         \/ Body(p) \/ Unlock(p) \/ Finish(p) \/ IoctlRefused(p)
  PROVE  WriterInv'
<1>1. CASE \/ aesd_open(p) \/ aesd_release(p) \/ Lock(p) \/ Interrupted(p)
           \/ Unlock(p) \/ Finish(p) \/ IoctlRefused(p)
  BY <1>1, WriterQuietInv DEF aesd_open, aesd_release, Lock, Interrupted, Unlock, Finish,
                              IoctlRefused, Goto, callVars, Inv, TypeOK
<1>2. CASE aesd_write(p)
  BY <1>2, WriterWriteInv
<1>3. CASE aesd_read(p) \/ aesd_llseek(p) \/ aesd_adjust_file_offset(p)
  <2>1. UNCHANGED devVars /\ \E r : Return(p, r)
    BY <1>3 DEF aesd_read, ReadNothing, ReadFault, ReadBytes, aesd_llseek,
                aesd_adjust_file_offset
  <2>2. UNCHANGED req /\ pc' = [pc EXCEPT ![p] = pc'[p]] /\ pc'[p] = "out"
    BY <2>1 DEF Return, Inv, TypeOK
  <2> QED
    BY <2>1, <2>2, WriterQuietInv
<1> QED
  BY <1>1, <1>2, <1>3 DEF Body

LEMMA WriterNextInv ==
  ASSUME SingleWriter
  PROVE  Inv /\ WriterInv /\ [Next]_vars => WriterInv'
<1> SUFFICES ASSUME Inv, WriterInv, [Next]_vars PROVE WriterInv'
  OBVIOUS
<1>0. WritesAlone
  BY DEF SingleWriter, WriterInv, WritesAlone
<1>1. CASE UNCHANGED vars
  BY <1>1 DEF WriterInv, CountIsFresh, LinesEndCommands, vars, devVars, callVars, Count, Data
<1>2. ASSUME NEW p \in Writers, CallWrite(p) PROVE WriterInv'
  BY <1>2, WriterCallInv DEF CallWrite, WriteCount
<1>3. ASSUME NEW p \in Readers, CallRead(p) \/ CallLlseek(p) \/ CallSeekTo(p)
      PROVE  WriterInv'
  BY <1>3, WriterCallInv DEF CallRead, CallLlseek, CallSeekTo
<1>4. ASSUME NEW p \in Procs,
             \/ aesd_open(p) \/ aesd_release(p) \/ Lock(p) \/ Interrupted(p)
             \/ Body(p) \/ Unlock(p) \/ Finish(p) \/ IoctlRefused(p)
      PROVE  WriterInv'
  BY <1>0, <1>4, WriterStepInv
<1> QED
  BY <1>1, <1>2, <1>3, <1>4 DEF Next

LEMMA AlwaysWriterInv ==
  ASSUME SingleWriter
  PROVE  Spec => [](Inv /\ WriterInv)
<1>1. Init => Inv /\ WriterInv
  BY InitInv, WriterInitInv
<1>2. (Inv /\ WriterInv) /\ [Next]_vars => (Inv /\ WriterInv)'
  BY NextInv, WriterNextInv
<1> QED
  BY <1>1, <1>2, PTL DEF Spec

\* With one writer the length computed without the lock (main.c:158) is right
\* when it is used.
THEOREM OneWriterCountsRight ==
  ASSUME SingleWriter
  PROVE  Spec => []WriteCountFresh
<1>1. WriterInv => WriteCountFresh
  BY DEF WriterInv, CountIsFresh, WriteCountFresh, Holds
<1> QED
  BY <1>1, AlwaysWriterInv, PTL

\* With one writer no write leaves write_buffer, the NUL included.
THEOREM OneWriterStaysInBounds ==
  ASSUME SingleWriter
  PROVE  Spec => []WriteInBounds
<1>1. WriterInv => WriteInBounds
  BY DEF WriterInv, CountIsFresh, WriteInBounds, WriteAccepted, Holds
<1> QED
  BY <1>1, AlwaysWriterInv, PTL

\* With one writer every command ends its line, and no pending line does.
THEOREM OneWriterEndsLines ==
  ASSUME SingleWriter
  PROVE  Spec => []LinesEndCommands
<1>1. WriterInv => LinesEndCommands
  BY DEF WriterInv
<1> QED
  BY <1>1, AlwaysWriterInv, PTL

-----------------------------------------------------------------------------
(* Steps. *)

LEMMA BytesToCopyType ==
  ASSUME Inv, NEW p \in Procs, Holds(p, "read")
  PROVE  BytesToCopy(p) \in Int
<1>1. CASE Found(p) = NotFound
  BY <1>1 DEF BytesToCopy
<1>2. CASE Found(p) # NotFound
  <2>1. req[p].count \in Nat /\ f_pos[p] \in Nat
    BY RequestType DEF Inv, Holds, TypeOK
  <2>2. Found(p).slot \in Slots /\ Found(p).offset \in Nat
    BY <1>2, <2>1, FindEntryType, RingType DEF Inv, Found
  <2>3. circular_buffer.entry[Found(p).slot].size \in Nat
    BY <2>2, RingType DEF Inv
  <2> QED
    BY <1>2, <2>1, <2>2, <2>3 DEF BytesToCopy
<1> QED
  BY <1>1, <1>2

\* A call that returns an error has changed nothing that later calls see.
THEOREM ErrorsChangeNothing == Spec => ErrorChangesNothing
<1> DEFINE Quiet(p) ==
      pc[p] = "locked" /\ pc'[p] = "out" /\ ret'[p] < 0 =>
        UNCHANGED <<circular_buffer, write_buffer_index, heap, f_pos>>
<1>1. ASSUME Inv, NEW p \in Procs, Body(p) PROVE Quiet(p)
  <2> SUFFICES ASSUME pc'[p] = "out", ret'[p] < 0, pc[p] = "locked"
               PROVE  UNCHANGED <<circular_buffer, write_buffer_index, heap, f_pos>>
    OBVIOUS
  <2>1. \A r : Return(p, r) => ret'[p] = r
    BY <1>1 DEF Return, Inv, TypeOK
  <2>2. CASE aesd_write(p)
    <3>1. CASE WriteHeld(p) \/ WriteCommitted(p)
      <4>1. Holds(p, "write") /\ Return(p, Count(p))
        BY <3>1 DEF WriteHeld, WriteCommitted, LineComplete
      <4>2. Count(p) \in Nat
        BY <1>1, <4>1, RequestType DEF Inv, Holds
      <4> QED
        BY <2>1, <4>1, <4>2
    <3> QED
      BY <1>1, <2>2, <3>1 DEF aesd_write, WriteRefused, WriteFault, WriteNoMem, WriteOops,
                              devVars
  <2>3. CASE aesd_read(p)
    <3>1. CASE ReadBytes(p)
      BY <1>1, <2>1, <3>1, BytesToCopyType DEF ReadBytes
    <3> QED
      BY <2>3, <3>1 DEF aesd_read, ReadNothing, ReadFault, devVars
  <2>4. CASE aesd_llseek(p)
    <3>1. SeekTarget(p) < 0
      <4>1. ~(SeekTarget(p) < 0) => ret'[p] = SeekTarget(p)
        BY <2>1, <2>4 DEF aesd_llseek
      <4> QED
        BY <4>1
    <3> QED
      BY <2>4, <3>1 DEF aesd_llseek, devVars
  <2>5. CASE aesd_adjust_file_offset(p)
    <3> DEFINE total == BufferSize(circular_buffer, req[p].write_cmd)
               found == FindEntry(circular_buffer, total + req[p].write_cmd_offset)
    <3>1. CASE SeekToRefused(p) \/ found = NotFound
      BY <2>5, <3>1 DEF aesd_adjust_file_offset, devVars
    <3>2. CASE ~SeekToRefused(p) /\ found # NotFound
      <4>1. ret'[p] = total + found.offset
        BY <2>1, <2>5, <3>2 DEF aesd_adjust_file_offset
      <4>2. req[p].write_cmd_offset \in Nat /\ req[p].write_cmd \in Slots
        BY <1>1, <2>5, <3>2, RequestType DEF Inv, aesd_adjust_file_offset, Holds, SeekToRefused, Slots
      <4>3. total \in Nat
        BY <1>1, <4>2, BufferSizeType, RingType DEF Inv
      <4>4. found.offset \in Nat
        BY <1>1, <3>2, <4>2, <4>3, FindEntryType, RingType DEF Inv
      <4> QED
        BY <4>1, <4>3, <4>4
    <3> QED
      BY <3>1, <3>2
  <2> QED
    BY <1>1, <2>2, <2>3, <2>4, <2>5 DEF Body
<1>2. ASSUME Inv, NEW p \in Procs, [Next]_vars PROVE Quiet(p)
  <2> SUFFICES ASSUME pc[p] = "locked", pc'[p] = "out" PROVE Body(p)
    BY <1>1, <1>2
  <2>1. \A q \in Procs : \A to : to # "out" /\ pc' = [pc EXCEPT ![q] = to] => pc'[p] # "out"
    BY <1>2 DEF Inv, TypeOK
  <2>2. \A q \in Procs : pc[q] = "out" /\ pc' = [pc EXCEPT ![q] = "done"] => pc'[p] # "out"
    BY <1>2 DEF Inv, TypeOK
  <2>3. \A q \in Procs : Body(q) => pc' = [pc EXCEPT ![q] = pc'[q]]
    <3> SUFFICES ASSUME NEW q \in Procs, Body(q) PROVE pc' = [pc EXCEPT ![q] = pc'[q]]
      OBVIOUS
    <3>1. \E to : pc' = [pc EXCEPT ![q] = to]
      <4>1. CASE WriteOops(q)
        BY <4>1 DEF WriteOops, Goto
      <4>2. CASE ~WriteOops(q)
        BY <4>2 DEF Body, aesd_write, WriteRefused, WriteFault, WriteHeld, WriteNoMem,
                    WriteCommitted, aesd_read, ReadNothing, ReadFault, ReadBytes,
                    aesd_llseek, aesd_adjust_file_offset, Return
      <4> QED
        BY <4>1, <4>2
    <3> QED
      BY <1>2, <3>1 DEF Inv, TypeOK
  <2>4. \A q \in Procs : Body(q) => q = p
    BY <1>2, <2>3 DEF Inv, TypeOK
  <2>5. pc' # pc
    OBVIOUS
  <2> QED
    BY <1>2, <2>1, <2>4, <2>5
    DEF Next, vars, CallWrite, CallRead, CallLlseek, CallSeekTo, Call, IoctlRefused,
        aesd_open, aesd_release, Lock, Interrupted, Unlock, Finish, Goto
<1>3. Inv /\ [Next]_vars =>
        [\A p \in Procs : pc[p] = "locked" /\ pc'[p] = "out" /\ ret'[p] < 0 =>
           UNCHANGED <<circular_buffer, write_buffer_index, heap, f_pos>>]_vars
  BY <1>2
<1> QED
  BY <1>3, AlwaysInv, PTL DEF Spec, ErrorChangesNothing

\* With one writer, a pending line of MaxWriteSize - 1 bytes ends all writing.
THEOREM OneWriterFullPendingStays ==
  ASSUME SingleWriter
  PROVE  Spec => FullPendingStays
<1> DEFINE Stays == UNCHANGED <<circular_buffer, write_buffer_index, heap>>
<1>1. ASSUME Inv, WriterInv, write_buffer_index = MaxWriteSize - 1,
             NEW p \in Procs, aesd_write(p)
      PROVE  Stays
  <2>1. /\ Holds(p, "write") /\ Count(p) \in Nat
        /\ req[p].write_count = MaxWriteSize - 1 + Count(p)
    <3>1. Holds(p, "write")
      BY <1>1 DEF aesd_write, WriteRefused, WriteFault, WriteHeld, WriteNoMem, WriteCommitted,
                  LineComplete, WriteOops
    <3> QED
      BY <1>1, <3>1, RequestType DEF Inv, WriterInv, CountIsFresh, Holds
  <2>2. CASE Count(p) > 0
    <3>1. ~WriteAccepted(p)
      BY <2>1, <2>2 DEF WriteAccepted
    <3> QED
      BY <1>1, <3>1 DEF aesd_write, WriteRefused, WriteFault, WriteHeld, WriteNoMem,
                        WriteCommitted, LineComplete, WriteOops, devVars
  <2>3. CASE Count(p) = 0
    <3> DEFINE wb == Copied(write_buffer_index, Data(p))
    <3>1. /\ req[p].write_count = MaxWriteSize - 1 /\ MaxWriteSize - 1 \in Nat
          /\ MaxWriteSize - 1 # 0
      BY <2>1, <2>3
    <3>2. wb[MaxWriteSize - 2] # NL
      <4>1. Data(p) \in Seq(Byte) /\ MaxWriteSize - 2 \in 0 .. MaxWriteSize - 1
        BY <1>1, <2>1, RequestType DEF Inv, Holds
      <4>2. wb[MaxWriteSize - 2] = write_buffer[MaxWriteSize - 2]
        BY <1>1, <4>1, CopiedKeepsPending
      <4>3. write_buffer[write_buffer_index - 1] # NL /\ write_buffer_index - 1 = MaxWriteSize - 2
        BY <1>1, <3>1 DEF WriterInv, LinesEndCommands
      <4> QED
        BY <4>2, <4>3
    <3>3. ~LineComplete(p)
      <4>1. MaxWriteSize - 1 - 1 = MaxWriteSize - 2
        OBVIOUS
      <4>2. TRUE \in EndsLine(wb, MaxWriteSize - 1) => wb[MaxWriteSize - 1 - 1] = NL
        <5> HIDE DEF wb
        <5> QED
          BY <3>1, EndsLineTests, Zenon
      <4>3. TRUE \notin EndsLine(wb, MaxWriteSize - 1)
        BY <3>2, <4>1, <4>2
      <4> QED
        BY <3>1, <4>3 DEF LineComplete
    <3>4. WriteHeld(p) => UNCHANGED <<circular_buffer, heap>>
                          /\ write_buffer_index' = write_buffer_index + 0
      BY <2>3 DEF WriteHeld
    <3>5. write_buffer_index + 0 = write_buffer_index
      BY <1>1
    <3> QED
      BY <1>1, <3>3, <3>4, <3>5 DEF aesd_write, WriteRefused, WriteFault, WriteNoMem,
                                   WriteCommitted, WriteOops, devVars
  <2> QED
    BY <2>1, <2>2, <2>3
<1>2. ASSUME Inv, WriterInv, write_buffer_index = MaxWriteSize - 1, [Next]_vars
      PROVE  Stays
  <2>1. CASE UNCHANGED vars
    BY <2>1 DEF vars, devVars
  <2>2. ASSUME NEW p \in Procs, Body(p) PROVE Stays
    <3>1. CASE aesd_write(p)
      BY <1>1, <1>2, <3>1
    <3> QED
      BY <2>2, <3>1 DEF Body, aesd_read, ReadNothing, ReadFault, ReadBytes, aesd_llseek,
                        aesd_adjust_file_offset, devVars
  <2>3. CASE Next /\ ~(\E p \in Procs : Body(p))
    BY <2>3 DEF Next, CallWrite, CallRead, CallLlseek, CallSeekTo, Call, IoctlRefused,
                aesd_open, aesd_release, Lock, Interrupted, Unlock, Finish, devVars
  <2> QED
    BY <1>2, <2>1, <2>2, <2>3
<1>3. Inv /\ WriterInv /\ [Next]_vars =>
        [write_buffer_index = MaxWriteSize - 1 =>
           UNCHANGED <<circular_buffer, write_buffer_index, heap>>]_vars
  BY <1>2
<1> QED
  BY <1>3, AlwaysWriterInv, PTL DEF Spec, FullPendingStays

-----------------------------------------------------------------------------
(***************************************************************************)
(* Where the searches of the ring end up: llseek, the seek command, reads. *)
(***************************************************************************)

\* Between the body of a call and its unlock nobody else is in a body.
MutexInv == \A p \in Procs : pc[p] \in {"locked", "out"} => lock = p

LandInv == MutexInv /\ SeekToNamesSlot /\ SeekEndUntilFull /\ ReadsToTheEnd

-----------------------------------------------------------------------------
LEMMA RingHasNoHoles ==
  ASSUME Inv
  PROVE  NoHoles(circular_buffer)
BY RingType DEF Inv, RingShape, NoHoles

LEMMA MutexNext ==
  ASSUME Inv, MutexInv, [Next]_vars
  PROVE  MutexInv'
<1>0. pc \in [Procs -> InCall \cup {"closed", "idle", "done"}]
  BY DEF Inv, TypeOK
<1>1. CASE UNCHANGED vars
  BY <1>1 DEF vars, MutexInv
<1>2. ASSUME NEW p \in Procs, Body(p)
      PROVE  MutexInv'
  <2>1. /\ pc[p] = "locked" /\ UNCHANGED lock
        /\ \E to \in {"out", "killed"} : pc' = [pc EXCEPT ![p] = to]
    <3>1. CASE WriteOops(p)
      BY <3>1 DEF WriteOops, Goto, Holds
    <3>2. CASE ~WriteOops(p)
      BY <1>2, <3>2 DEF Body, aesd_write, WriteRefused, WriteFault, WriteHeld, WriteNoMem,
                   WriteCommitted, LineComplete, aesd_read, ReadNothing, ReadFault,
                   ReadBytes, aesd_llseek, aesd_adjust_file_offset, Return, Holds
    <3> QED
      BY <3>1, <3>2
  <2> QED
    BY <1>0, <2>1 DEF MutexInv
<1>3. ASSUME NEW p \in Procs, Lock(p) \/ Unlock(p)
      PROVE  MutexInv'
  BY <1>0, <1>3 DEF Lock, Unlock, Goto, MutexInv
<1>4. ASSUME Next, \A p \in Procs : ~(Body(p) \/ Lock(p) \/ Unlock(p))
      PROVE  MutexInv'
  <2>1. PICK p \in Procs, to \in {"idle", "closed", "waiting", "done"} :
          UNCHANGED lock /\ pc' = [pc EXCEPT ![p] = to]
    BY <1>4 DEF Next, CallWrite, CallRead, CallLlseek, CallSeekTo, Call, IoctlRefused,
                aesd_open, aesd_release, Interrupted, Finish, Goto
  <2> QED
    BY <1>0, <2>1 DEF MutexInv
<1> QED
  BY <1>1, <1>2, <1>3, <1>4

\* Nothing that a finished body has found changes before its unlock.
LEMMA OutStays ==
  ASSUME Inv, MutexInv, [Next]_vars, NEW p \in Procs, pc[p] = "out", pc'[p] = "out"
  PROVE  /\ UNCHANGED circular_buffer
         /\ f_pos'[p] = f_pos[p] /\ req'[p] = req[p] /\ ret'[p] = ret[p]
<1>0. /\ pc \in [Procs -> InCall \cup {"closed", "idle", "done"}]
      /\ f_pos \in [Procs -> Nat] /\ req \in [Procs -> Request] /\ ret \in [Procs -> Int]
  BY DEF Inv, TypeOK
<1>1. CASE UNCHANGED vars
  BY <1>1 DEF vars, devVars, callVars
<1>2. ASSUME NEW q \in Procs, Body(q)
      PROVE  FALSE
  <2>1. pc[q] = "locked"
    BY <1>2 DEF Body, aesd_write, WriteRefused, WriteFault, WriteHeld, WriteNoMem,
                WriteCommitted, LineComplete, WriteOops, aesd_read, ReadNothing, ReadFault,
                ReadBytes, aesd_llseek, aesd_adjust_file_offset, Holds
  <2> QED
    BY <2>1 DEF MutexInv
<1>3. ASSUME NEW q \in Procs,
             aesd_open(q) \/ aesd_release(q) \/ Lock(q) \/ Interrupted(q) \/ Unlock(q) \/ Finish(q)
      PROVE  /\ UNCHANGED circular_buffer
             /\ f_pos'[p] = f_pos[p] /\ req'[p] = req[p] /\ ret'[p] = ret[p]
  BY <1>0, <1>3 DEF aesd_open, aesd_release, Lock, Interrupted, Unlock, Finish, Goto,
                    devVars, callVars
<1>4. ASSUME NEW q \in Procs,
             CallWrite(q) \/ CallRead(q) \/ CallLlseek(q) \/ CallSeekTo(q) \/ IoctlRefused(q)
      PROVE  /\ UNCHANGED circular_buffer
             /\ f_pos'[p] = f_pos[p] /\ req'[p] = req[p] /\ ret'[p] = ret[p]
  BY <1>0, <1>4 DEF CallWrite, CallRead, CallLlseek, CallSeekTo, Call, IoctlRefused, Goto,
                    devVars
<1> QED
  BY <1>1, <1>2, <1>3, <1>4 DEF Next

-----------------------------------------------------------------------------
(* What each body leaves behind. *)

LEMMA SeekToBody ==
  ASSUME Inv, NEW p \in Procs, Body(p), req[p].op = "ioctl", ret'[p] >= 0
  PROVE  FindEntry(circular_buffer', f_pos'[p]) =
           [slot |-> req[p].write_cmd, offset |-> req[p].write_cmd_offset]
<1> DEFINE cmd == req[p].write_cmd
           off == req[p].write_cmd_offset
           total == BufferSize(circular_buffer, cmd)
<1>0. ret \in [Procs -> Int] /\ f_pos \in [Procs -> Nat]
  BY DEF Inv, TypeOK
<1>1. aesd_adjust_file_offset(p)
  BY DEF Body, aesd_write, WriteRefused, WriteFault, WriteHeld, WriteNoMem,
         WriteCommitted, LineComplete, WriteOops, aesd_read, ReadNothing, ReadFault,
         ReadBytes, aesd_llseek, Holds
<1>2. ~SeekToRefused(p)
  BY <1>0, <1>1 DEF aesd_adjust_file_offset, Return, EINVAL
<1>3. cmd \in Slots /\ off \in Nat /\ off < circular_buffer.entry[cmd].size
  <2>1. cmd \in Nat /\ off \in Nat
    BY RequestType DEF Inv
  <2>2. cmd \in Slots
    BY <1>2, <2>1 DEF SeekToRefused, Slots
  <2>3. circular_buffer.entry[cmd].size \in Nat
    BY <2>2, RingType DEF Inv
  <2> QED
    BY <1>2, <2>1, <2>2, <2>3 DEF SeekToRefused
<1>4. total \in Nat /\ FindEntry(circular_buffer, total + off) = [slot |-> cmd, offset |-> off]
  BY <1>3, RingHasNoHoles, SeekFinds
<1>5. f_pos'[p] = total + off /\ UNCHANGED circular_buffer
  <2>1. FindEntry(circular_buffer, total + off) # NotFound
    BY <1>3, <1>4 DEF NotFound, Slots
  <2>2. f_pos' = [f_pos EXCEPT ![p] = total + FindEntry(circular_buffer, total + off).offset]
    BY <1>1, <1>2, <2>1 DEF aesd_adjust_file_offset
  <2> QED
    BY <1>0, <1>1, <1>4, <2>2 DEF aesd_adjust_file_offset, devVars
<1> QED
  BY <1>4, <1>5

LEMMA SeekEndBody ==
  ASSUME Inv, NEW p \in Procs, Body(p), req[p].op = "llseek", req[p].whence = "SEEK_END"
  PROVE  /\ UNCHANGED circular_buffer
         /\ f_pos'[p] = IF circular_buffer.full THEN 0 ELSE Stored
<1>0. f_pos \in [Procs -> Nat]
  BY DEF Inv, TypeOK
<1>1. aesd_llseek(p)
  BY DEF Body, aesd_write, WriteRefused, WriteFault, WriteHeld, WriteNoMem,
         WriteCommitted, LineComplete, WriteOops, aesd_read, ReadNothing, ReadFault,
         ReadBytes, aesd_adjust_file_offset, Holds
<1>2. SeekTarget(p) = BufferSize(circular_buffer, circular_buffer.in_offs)
  BY DEF SeekTarget
<1>3. SeekTarget(p) = IF circular_buffer.full THEN 0 ELSE Stored
  BY <1>2, RingHasNoHoles, SizeToTheEnd DEF Stored
<1>4. SeekTarget(p) \in Nat
  BY <1>2, RingType, BufferSizeType DEF Inv
<1> QED
  BY <1>0, <1>1, <1>3, <1>4 DEF aesd_llseek, devVars

LEMMA ReadBody ==
  ASSUME Inv, NEW p \in Procs, Body(p), req[p].op = "read", ret'[p] = 0
  PROVE  /\ UNCHANGED circular_buffer
         /\ req[p].count = 0 \/ f_pos'[p] >= Stored
<1>0. ret \in [Procs -> Int] /\ f_pos \in [Procs -> Nat] /\ req[p].count \in Nat
  BY RequestType DEF Inv, TypeOK
<1>1. aesd_read(p)
  BY DEF Body, aesd_write, WriteRefused, WriteFault, WriteHeld, WriteNoMem,
         WriteCommitted, LineComplete, WriteOops, aesd_llseek, aesd_adjust_file_offset, Holds
<1>2. ReadNothing(p)
  <2>1. BytesToCopy(p) > 0 => ~ReadBytes(p)
    BY <1>0 DEF ReadBytes, Return
  <2>2. ~ReadFault(p)
    BY <1>0 DEF ReadFault, Return, EFAULT
  <2> QED
    BY <1>1, <2>1, <2>2 DEF aesd_read, ReadBytes
<1>3. BytesToCopy(p) = 0 /\ UNCHANGED circular_buffer /\ f_pos'[p] = f_pos[p]
  BY <1>2 DEF ReadNothing, devVars
<1>4. CASE Found(p) = NotFound
  <2>1. Stored <= f_pos[p] /\ Stored \in Nat
    BY <1>0, <1>4, RingHasNoHoles, NotFoundBehind, TotalSizeType DEF Found, Stored
  <2> QED
    BY <1>0, <1>3, <2>1
<1>5. CASE Found(p) # NotFound
  <2> DEFINE size == circular_buffer.entry[Found(p).slot].size
  <2>1. /\ Found(p).slot \in Slots /\ Found(p).offset \in Nat /\ Found(p).offset < size
    BY <1>0, <1>5, RingType, FindEntryType, FindEntryBound DEF Found, Inv
  <2>2. size \in Nat
    BY <2>1, RingType DEF Inv
  <2>3. req[p].count = 0
    BY <1>0, <1>3, <1>5, <2>1, <2>2 DEF BytesToCopy
  <2> QED
    BY <1>3, <2>3
<1> QED
  BY <1>4, <1>5

-----------------------------------------------------------------------------
LEMMA LandNext ==
  ASSUME Inv, LandInv, [Next]_vars
  PROVE  LandInv'
<1>1. MutexInv'
  BY MutexNext DEF LandInv
<1>2. ASSUME NEW p \in Procs, pc'[p] = "out", pc[p] # "out"
      PROVE  Body(p) /\ req'[p] = req[p]
  <2>0. pc \in [Procs -> InCall \cup {"closed", "idle", "done"}]
    BY DEF Inv, TypeOK
  <2>1. CASE UNCHANGED vars
    BY <1>2, <2>1 DEF vars
  <2>2. ASSUME NEW q \in Procs, Body(q) PROVE Body(p) /\ req'[p] = req[p]
    <3>1. UNCHANGED req /\ \E to \in {"out", "killed"} : pc' = [pc EXCEPT ![q] = to]
      <4>1. CASE WriteOops(q)
        BY <4>1 DEF WriteOops, Goto, Holds, callVars
      <4>2. CASE ~WriteOops(q)
        BY <2>2, <4>2 DEF Body, aesd_write, WriteRefused, WriteFault, WriteHeld, WriteNoMem,
                     WriteCommitted, LineComplete, aesd_read, ReadNothing, ReadFault,
                     ReadBytes, aesd_llseek, aesd_adjust_file_offset, Return, Holds
      <4> QED
        BY <4>1, <4>2
    <3>2. p = q
      BY <1>2, <2>0, <3>1
    <3> QED
      BY <2>2, <3>1, <3>2
  <2>3. ASSUME Next, \A q \in Procs : ~Body(q) PROVE FALSE
    <3>1. PICK q \in Procs, to \in {"idle", "closed", "waiting", "locked", "done"} :
            pc' = [pc EXCEPT ![q] = to]
      BY <2>3 DEF Next, CallWrite, CallRead, CallLlseek, CallSeekTo, Call, IoctlRefused,
                  aesd_open, aesd_release, Lock, Interrupted, Unlock, Finish, Goto
    <3> QED
      BY <1>2, <2>0, <3>1
  <2> QED
    BY <2>1, <2>2, <2>3
<1>3. SeekToNamesSlot'
  <2> SUFFICES ASSUME NEW p \in Procs, pc'[p] = "out", req'[p].op = "ioctl", ret'[p] >= 0
               PROVE  FindEntry(circular_buffer', f_pos'[p]) =
                        [slot |-> req'[p].write_cmd, offset |-> req'[p].write_cmd_offset]
    BY DEF SeekToNamesSlot, SeekToDone, NextRead
  <2>1. CASE pc[p] = "out"
    BY <2>1, OutStays DEF LandInv, SeekToNamesSlot, SeekToDone, NextRead
  <2>2. CASE pc[p] # "out"
    BY <1>2, <2>2, SeekToBody
  <2> QED
    BY <2>1, <2>2
<1>4. SeekEndUntilFull'
  <2> SUFFICES ASSUME NEW p \in Procs, pc'[p] = "out", req'[p].op = "llseek",
                      req'[p].whence = "SEEK_END"
               PROVE  f_pos'[p] = IF circular_buffer'.full THEN 0 ELSE Stored'
    BY DEF SeekEndUntilFull, SeekEndDone
  <2>1. CASE pc[p] = "out"
    BY <2>1, OutStays DEF LandInv, SeekEndUntilFull, SeekEndDone, Stored
  <2>2. CASE pc[p] # "out"
    BY <1>2, <2>2, SeekEndBody DEF Stored
  <2> QED
    BY <2>1, <2>2
<1>5. ReadsToTheEnd'
  <2> SUFFICES ASSUME NEW p \in Procs, pc'[p] = "out", req'[p].op = "read", ret'[p] = 0
               PROVE  req'[p].count = 0 \/ f_pos'[p] >= Stored'
    BY DEF ReadsToTheEnd
  <2>1. CASE pc[p] = "out"
    BY <2>1, OutStays DEF LandInv, ReadsToTheEnd, Stored
  <2>2. CASE pc[p] # "out"
    BY <1>2, <2>2, ReadBody DEF Stored
  <2> QED
    BY <2>1, <2>2
<1> QED
  BY <1>1, <1>3, <1>4, <1>5 DEF LandInv

LEMMA AlwaysLandInv == Spec => []LandInv
<1>1. Init => LandInv
  BY DEF Init, LandInv, MutexInv, SeekToNamesSlot, SeekToDone, SeekEndUntilFull, SeekEndDone,
         ReadsToTheEnd
<1>2. Inv /\ LandInv /\ [Next]_vars => LandInv'
  BY LandNext
<1> QED
  BY <1>1, <1>2, AlwaysInv, PTL DEF Spec

\* AESDCHAR_IOCSEEKTO goes to the slot of the array that it was given, whichever
\* command is there, and to the offset in it (main.c:468-505).
THEOREM SeeksGoToSlots == Spec => []SeekToNamesSlot
<1>1. LandInv => SeekToNamesSlot
  BY DEF LandInv
<1> QED
  BY <1>1, AlwaysLandInv, PTL

\* AESDCHAR_IOCSEEKTO and SEEK_END end where they say (main.c:233-274, 468-505),
\* for any ring, wherever it has wrapped, and with any number of writers.
THEOREM SeeksAlwaysLand == Spec => []SeeksLand
<1>1. Inv /\ LandInv => SeeksLand
  <2> SUFFICES ASSUME Inv, LandInv, NEW p \in Procs, SeekToDone(p)
               PROVE  /\ NextRead(p) # NotFound
                      /\ NextRead(p).offset = req[p].write_cmd_offset
                      /\ NextRead(p).slot = req[p].write_cmd
    BY DEF SeeksLand, SeekToLands, LandInv
  <2>1. req[p].write_cmd \in Nat
    BY DEF Inv, TypeOK, Request, SeekToDone
  <2>2. NextRead(p) = [slot |-> req[p].write_cmd, offset |-> req[p].write_cmd_offset]
    BY DEF LandInv, SeekToNamesSlot
  <2> QED
    BY <2>1, <2>2 DEF NotFound
<1> QED
  BY <1>1, AlwaysInv, AlwaysLandInv, PTL

\* A read never stops before the end of what is stored (main.c:70-146).
THEOREM ReadsReachTheEnd == Spec => []ReadsToTheEnd
<1>1. LandInv => ReadsToTheEnd
  BY DEF LandInv
<1> QED
  BY <1>1, AlwaysLandInv, PTL
=============================================================================
