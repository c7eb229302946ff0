------------------------------ MODULE AesdChar ------------------------------
(***************************************************************************)
(* The aesdchar character driver (aesd-char-driver/main.c) on top of its   *)
(* circular buffer.  Every process has one open file of its own.  A system *)
(* call is modelled in the steps other processes can interleave with:      *)
(*                                                                         *)
(*   idle --call--> waiting --mutex--> locked --body--> out --unlock-->    *)
(*   done --return to user space--> idle                                   *)
(*                                                                         *)
(* The call step holds what the code does before it takes dev->lock: for   *)
(* aesd_write that includes reading write_buffer_index.                    *)
(***************************************************************************)
EXTENDS CircularBuffer, Sequences

CONSTANTS
  Procs,       \* processes that use the device
  Writers,     \* those of them that call write
  Readers,     \* those of them that call read, llseek and ioctl
  Blocks,      \* memory blocks kmalloc can return
  ZeroPtr,     \* ZERO_SIZE_PTR, what kmalloc(0) returns
  Byte,        \* the bytes of the model
  NL, NUL,     \* '\n' and '\0'
  Garbage,     \* bytes that freshly allocated memory may hold
  WriteData,   \* BOUND: the data of write calls
  ReadCounts,  \* BOUND: the counts of read calls
  Offsets,     \* BOUND: the offsets of llseek calls
  SeekOffsets, \* BOUND: the offsets into a command of seek-to calls
  MaxPos       \* BOUND: the largest position a SEEK_CUR call asks for

ASSUME DriverAssumption ==
  /\ Writers \subseteq Procs /\ Readers \subseteq Procs
  /\ NULL \notin Procs
  /\ {NULL, ZeroPtr} \cap Blocks = {} /\ NULL # ZeroPtr
  /\ NULL \notin Seq(Byte)
  /\ NL \in Byte /\ NUL \in Byte /\ NL # NUL
  /\ Garbage \subseteq Byte /\ Garbage # {}
  /\ WriteData \subseteq Seq(Byte)
  /\ ReadCounts \subseteq Nat
  /\ Offsets \subseteq Int
  /\ SeekOffsets \subseteq Nat
  /\ MaxPos \in Nat

ENOMEM == 12
EFAULT == 14
EINVAL == 22
ENOTTY == 25
ERESTARTSYS == 512

VARIABLES
  circular_buffer,     \* *dev->circular_buffer
  write_buffer,        \* the bytes of dev->write_buffer
  write_buffer_index,  \* dev->write_buffer_index, the length of the pending line
  lock,                \* dev->lock: the process that holds it, or NULL
  heap,                \* what each block holds, NULL when it is not allocated
  f_pos,               \* filp->f_pos of each process's file
  pc,                  \* how far each process is in its system call
  req,                 \* the arguments and early locals of that call
  ret,                 \* its return value
  ubuf                 \* what a read copied to user space

devVars  == <<circular_buffer, write_buffer, write_buffer_index, heap>>
callVars == <<req, ret, ubuf>>
vars     == <<devVars, lock, f_pos, pc, callVars>>

NoReq == [op |-> "none"]

Whence == {"SEEK_SET", "SEEK_CUR", "SEEK_END", "other"}

Request ==
  [op : {"none"}]
    \cup [op : {"write"}, data : Seq(Byte), write_count : Nat]
    \cup [op : {"read"}, count : Nat]
    \cup [op : {"llseek"}, whence : Whence, off : Int]
    \cup [op : {"ioctl"}, write_cmd : Nat, write_cmd_offset : Nat]

\* aesd_init_module: both buffers come from kmalloc, only the ring is cleared.
Init ==
  /\ circular_buffer = EmptyBuffer
  /\ write_buffer \in [0 .. MaxWriteSize - 1 -> Garbage]
  /\ write_buffer_index = 0
  /\ lock = NULL
  /\ heap = [b \in Blocks |-> NULL]
  /\ f_pos = [p \in Procs |-> 0]
  /\ pc = [p \in Procs |-> "closed"]
  /\ req = [p \in Procs |-> NoReq]
  /\ ret = [p \in Procs |-> 0]
  /\ ubuf = [p \in Procs |-> <<>>]

Goto(p, from, to) == pc[p] = from /\ pc' = [pc EXCEPT ![p] = to]

-----------------------------------------------------------------------------
(* Opening and closing the device. *)

aesd_open(p) ==
  /\ Goto(p, "closed", "idle")
  /\ f_pos' = [f_pos EXCEPT ![p] = 0]
  /\ UNCHANGED <<devVars, lock, callVars>>

\* The driver keeps everything: a pending line survives the file that wrote it.
aesd_release(p) ==
  /\ Goto(p, "idle", "closed")
  /\ UNCHANGED <<devVars, lock, f_pos, callVars>>

-----------------------------------------------------------------------------
(* Calls, up to the attempt to take dev->lock. *)

Call(p, r) ==
  /\ Goto(p, "idle", "waiting")
  /\ req' = [req EXCEPT ![p] = r]
  /\ UNCHANGED <<devVars, lock, f_pos, ret, ubuf>>

\* Mutant of WriteCount: only the bytes of this call are counted.
WriteCount_OwnBytes(count) == count

\* Read without the lock.  unsigned int is wide enough here: a count of
\* MaxWriteSize or more is refused before write_count is used.
WriteCount(count) == write_buffer_index + count

CallWrite(p) ==
  \E data \in WriteData :
    Call(p, [op |-> "write", data |-> data, write_count |-> WriteCount(Len(data))])

CallRead(p) ==
  \E count \in ReadCounts : Call(p, [op |-> "read", count |-> count])

CallLlseek(p) ==
  \E whence \in Whence, off \in Offsets :
    /\ whence = "SEEK_CUR" => f_pos[p] + off <= MaxPos
    /\ Call(p, [op |-> "llseek", whence |-> whence, off |-> off])

\* aesd_ioctl with the one command that is supported and readable arguments;
\* slot MaxOps stands for every write_cmd that is out of range.
CallSeekTo(p) ==
  \E cmd \in 0 .. MaxOps, offset \in SeekOffsets :
    Call(p, [op |-> "ioctl", write_cmd |-> cmd, write_cmd_offset |-> offset])

\* The ways aesd_ioctl ends before the lock: wrong type, number or command
\* (-ENOTTY), access_ok (-EFAULT), copy_from_user (EFAULT, without the minus).
IoctlRefused(p) ==
  /\ Goto(p, "idle", "done")
  /\ req' = [req EXCEPT ![p] = [op |-> "ioctl", write_cmd |-> 0, write_cmd_offset |-> 0]]
  /\ \E r \in {-ENOTTY, -EFAULT, EFAULT} : ret' = [ret EXCEPT ![p] = r]
  /\ UNCHANGED <<devVars, lock, f_pos, ubuf>>

-----------------------------------------------------------------------------
(* mutex_lock_interruptible and mutex_unlock. *)

Lock(p) ==
  /\ Goto(p, "waiting", "locked")
  /\ lock = NULL
  /\ lock' = p
  /\ UNCHANGED <<devVars, f_pos, callVars>>

\* A signal arrives while the mutex is contended.
Interrupted(p) ==
  /\ Goto(p, "waiting", "done")
  /\ lock # NULL
  /\ ret' = [ret EXCEPT ![p] = -ERESTARTSYS]
  /\ UNCHANGED <<devVars, lock, f_pos, req, ubuf>>

Unlock(p) ==
  /\ Goto(p, "out", "done")
  /\ lock' = NULL
  /\ UNCHANGED <<devVars, f_pos, callVars>>

\* The caller takes the result.
Finish(p) ==
  /\ Goto(p, "done", "idle")
  /\ req' = [req EXCEPT ![p] = NoReq]
  /\ ret' = [ret EXCEPT ![p] = 0]
  /\ ubuf' = [ubuf EXCEPT ![p] = <<>>]
  /\ UNCHANGED <<devVars, lock, f_pos>>

\* The body of a call runs under the lock and goes to "out" with value r.
Holds(p, op) == pc[p] = "locked" /\ req[p].op = op

Return(p, r) ==
  /\ pc' = [pc EXCEPT ![p] = "out"]
  /\ ret' = [ret EXCEPT ![p] = r]
  /\ UNCHANGED <<lock, req>>

-----------------------------------------------------------------------------
(* aesd_write: the body under the lock. *)

Data(p) == req[p].data
Count(p) == Len(Data(p))

\* copy_from_user to &write_buffer[at].  Bytes behind the end of the buffer
\* hit memory the model does not have; WriteInBounds says when there are none.
Copied(at, bytes) ==
  [i \in DOMAIN write_buffer |->
     IF i - at \in 0 .. Len(bytes) - 1 THEN bytes[i - at + 1] ELSE write_buffer[i]]

\* What  write_buffer[write_count - 1] == '\n'  can say.  write_count is
\* unsigned, so for 0 the code reads far behind the buffer and may see anything.
EndsLine(wb, write_count) ==
  IF write_count = 0 THEN BOOLEAN ELSE {wb[write_count - 1] = NL}

\* What kmalloc may return, NULL when there is no memory.
kmalloc(size) ==
  IF size = 0 THEN {ZeroPtr} ELSE {NULL} \cup {b \in Blocks : heap[b] = NULL}

kfree(h, ptr) == IF ptr \in Blocks THEN [h EXCEPT ![ptr] = NULL] ELSE h

\* Mutant of WriteAccepted: a line may fill the buffer, NUL left out.
WriteAccepted_Inclusive(p) ==
  Count(p) <= MaxWriteSize /\ req[p].write_count <= MaxWriteSize

WriteAccepted(p) ==
  Count(p) < MaxWriteSize /\ req[p].write_count < MaxWriteSize

WriteRefused(p) ==
  /\ Holds(p, "write") /\ ~WriteAccepted(p)
  /\ Return(p, -EINVAL)
  /\ UNCHANGED <<devVars, f_pos, ubuf>>

\* copy_from_user stops after n bytes and clears the rest.
WriteFault(p) ==
  /\ Holds(p, "write") /\ WriteAccepted(p)
  /\ \E n \in 0 .. Count(p) - 1 :
       write_buffer' = Copied(write_buffer_index,
                              [i \in 1 .. Count(p) |-> IF i <= n THEN Data(p)[i] ELSE NUL])
  /\ Return(p, -EFAULT)
  /\ UNCHANGED <<circular_buffer, write_buffer_index, heap, f_pos, ubuf>>

\* The line goes on: wait for the rest of it.
WriteHeld(p) ==
  /\ Holds(p, "write") /\ WriteAccepted(p)
  /\ write_buffer' = Copied(write_buffer_index, Data(p))
  /\ FALSE \in EndsLine(write_buffer', req[p].write_count)
  /\ write_buffer_index' = write_buffer_index + Count(p)
  /\ Return(p, Count(p))
  /\ UNCHANGED <<circular_buffer, heap, f_pos, ubuf>>

\* The line is complete: the buffer, closed with a NUL, and its new copy.
LineComplete(p) ==
  LET wb == Copied(write_buffer_index, Data(p))
  IN  /\ Holds(p, "write") /\ WriteAccepted(p)
      /\ TRUE \in EndsLine(wb, req[p].write_count)
      /\ write_buffer' = [wb EXCEPT ![req[p].write_count] = NUL]

\* Mutant of WriteNoMem: the pending line is dropped with the command.
WriteNoMem_Dropped(p) ==
  /\ LineComplete(p)
  /\ NULL \in kmalloc(req[p].write_count)
  /\ write_buffer_index' = 0
  /\ Return(p, -ENOMEM)
  /\ UNCHANGED <<circular_buffer, heap, f_pos, ubuf>>

\* Mutant of WriteNoMem: the way out leaves the mutex locked.
WriteNoMem_NoUnlock(p) ==
  /\ LineComplete(p)
  /\ NULL \in kmalloc(req[p].write_count)
  /\ Goto(p, "locked", "done")
  /\ ret' = [ret EXCEPT ![p] = -ENOMEM]
  /\ UNCHANGED <<circular_buffer, write_buffer_index, heap, lock, f_pos, req, ubuf>>

WriteNoMem(p) ==
  /\ LineComplete(p)
  /\ NULL \in kmalloc(req[p].write_count)
  /\ Return(p, -ENOMEM)
  /\ UNCHANGED <<circular_buffer, write_buffer_index, heap, f_pos, ubuf>>

WriteCommitted(p) ==
  LET size == req[p].write_count
  IN  /\ LineComplete(p)
      /\ \E b \in kmalloc(size) \ {NULL} :
           LET line == [i \in 1 .. size |-> write_buffer'[i - 1]]
               filled == IF b \in Blocks THEN [heap EXCEPT ![b] = line] ELSE heap
           IN  /\ circular_buffer' =
                    AddEntry(circular_buffer, [buffptr |-> b, size |-> size])
               /\ heap' = kfree(filled, Overwritten(circular_buffer))
      /\ write_buffer_index' = 0
      /\ Return(p, Count(p))
      /\ UNCHANGED <<f_pos, ubuf>>

\* The stray read of an empty write (see EndsLine) hits no memory at all: the
\* kernel kills the process, which still holds the lock.
WriteOops(p) ==
  /\ Holds(p, "write") /\ WriteAccepted(p) /\ req[p].write_count = 0
  /\ Goto(p, "locked", "killed")
  /\ UNCHANGED <<devVars, lock, f_pos, callVars>>

aesd_write(p) ==
  \/ WriteRefused(p) \/ WriteFault(p) \/ WriteHeld(p)
  \/ WriteNoMem(p) \/ WriteCommitted(p) \/ WriteOops(p)

-----------------------------------------------------------------------------
(* aesd_read: the rest of one entry, at most count bytes. *)

Found(p) == FindEntry(circular_buffer, f_pos[p])

\* bytes_to_copy; 0 when there is no entry at f_pos.
BytesToCopy(p) ==
  LET rest == circular_buffer.entry[Found(p).slot].size - Found(p).offset
  IN  IF Found(p) = NotFound THEN 0
      ELSE IF rest > req[p].count THEN req[p].count ELSE rest

ReadNothing(p) ==
  /\ Holds(p, "read") /\ BytesToCopy(p) = 0
  /\ Return(p, 0)
  /\ UNCHANGED <<devVars, f_pos, ubuf>>

ReadFault(p) ==
  /\ Holds(p, "read") /\ BytesToCopy(p) > 0
  /\ Return(p, -EFAULT)
  /\ UNCHANGED <<devVars, f_pos, ubuf>>

\* Mutant of ReadBytes: the position stays.
ReadBytes_Stays(p) ==
  /\ Holds(p, "read") /\ BytesToCopy(p) > 0
  /\ ubuf' = [ubuf EXCEPT ![p] =
                SubSeq(heap[circular_buffer.entry[Found(p).slot].buffptr],
                       Found(p).offset + 1, Found(p).offset + BytesToCopy(p))]
  /\ Return(p, BytesToCopy(p))
  /\ UNCHANGED <<devVars, f_pos>>

ReadBytes(p) ==
  /\ Holds(p, "read") /\ BytesToCopy(p) > 0
  /\ ubuf' = [ubuf EXCEPT ![p] =
                SubSeq(heap[circular_buffer.entry[Found(p).slot].buffptr],
                       Found(p).offset + 1, Found(p).offset + BytesToCopy(p))]
  /\ f_pos' = [f_pos EXCEPT ![p] = @ + BytesToCopy(p)]
  /\ Return(p, BytesToCopy(p))
  /\ UNCHANGED devVars

aesd_read(p) == ReadNothing(p) \/ ReadFault(p) \/ ReadBytes(p)

-----------------------------------------------------------------------------
(* aesd_llseek and the AESDCHAR_IOCSEEKTO command. *)

\* SEEK_END does not use off; "other" stands for every other whence.
SeekTarget(p) ==
  CASE req[p].whence = "SEEK_SET" -> req[p].off
    [] req[p].whence = "SEEK_CUR" -> f_pos[p] + req[p].off
    [] req[p].whence = "SEEK_END" -> BufferSize(circular_buffer, circular_buffer.in_offs)
    [] OTHER -> -EINVAL

aesd_llseek(p) ==
  /\ Holds(p, "llseek")
  /\ IF SeekTarget(p) < 0
     THEN Return(p, -EINVAL) /\ UNCHANGED f_pos
     ELSE Return(p, SeekTarget(p)) /\ f_pos' = [f_pos EXCEPT ![p] = SeekTarget(p)]
  /\ UNCHANGED <<devVars, ubuf>>

\* Mutant of SeekToRefused: the offset behind the command is let through.
SeekToRefused_BehindEnd(p) ==
  \/ req[p].write_cmd >= MaxOps
  \/ req[p].write_cmd_offset > circular_buffer.entry[req[p].write_cmd].size

SeekToRefused(p) ==
  \/ req[p].write_cmd >= MaxOps
  \/ req[p].write_cmd_offset >= circular_buffer.entry[req[p].write_cmd].size

\* write_cmd is used as a slot of the array.
aesd_adjust_file_offset(p) ==
  /\ Holds(p, "ioctl")
  /\ IF SeekToRefused(p)
     THEN Return(p, -EINVAL) /\ UNCHANGED f_pos
     ELSE LET total_size == BufferSize(circular_buffer, req[p].write_cmd)
              found == FindEntry(circular_buffer, total_size + req[p].write_cmd_offset)
              newpos == total_size + found.offset
          IN  IF found = NotFound
              THEN Return(p, -EINVAL) /\ UNCHANGED f_pos
              ELSE Return(p, newpos) /\ f_pos' = [f_pos EXCEPT ![p] = newpos]
  /\ UNCHANGED <<devVars, ubuf>>

-----------------------------------------------------------------------------
Body(p) == aesd_write(p) \/ aesd_read(p) \/ aesd_llseek(p) \/ aesd_adjust_file_offset(p)

Next ==
  \/ \E p \in Writers : CallWrite(p)
  \/ \E p \in Readers : CallRead(p) \/ CallLlseek(p) \/ CallSeekTo(p) \/ IoctlRefused(p)
  \/ \E p \in Procs :
       \/ aesd_open(p) \/ aesd_release(p)
       \/ Lock(p) \/ Interrupted(p) \/ Body(p) \/ Unlock(p) \/ Finish(p)

\* A body runs to its end, and a mutex is handed to every waiter in time (the
\* kernel's mutex does so since waiters queue up).  No process has to call.
Fairness ==
  \A p \in Procs : /\ WF_vars(Body(p)) /\ WF_vars(Unlock(p))
                   /\ SF_vars(Lock(p))

Spec == Init /\ [][Next]_vars /\ Fairness

-----------------------------------------------------------------------------
(***************************************************************************)
(* What a call can be in the middle of, and the types.                     *)
(***************************************************************************)
InCall == {"waiting", "locked", "out", "killed"}

Line == UNION {[1 .. n -> Byte] : n \in 1 .. MaxWriteSize - 1}

Entry == [buffptr : Blocks \cup {NULL, ZeroPtr}, size : 0 .. MaxWriteSize - 1]

Ring == [entry : [Slots -> Entry], in_offs : Slots, out_offs : Slots, full : BOOLEAN]

\* The types of all that the driver and its callers keep.
TypeOK ==
  /\ circular_buffer \in Ring
  /\ write_buffer \in [0 .. MaxWriteSize - 1 -> Byte]
  /\ write_buffer_index \in Nat
  /\ lock \in Procs \cup {NULL}
  /\ heap \in [Blocks -> Line \cup {NULL}]
  /\ f_pos \in [Procs -> Nat]
  /\ pc \in [Procs -> InCall \cup {"closed", "idle", "done"}]
  /\ req \in [Procs -> Request]
  /\ \A p \in Procs : pc[p] \in {"closed", "idle"} <=> req[p].op = "none"
  /\ ret \in [Procs -> Int]
  /\ ubuf \in [Procs -> Seq(Byte)]

-----------------------------------------------------------------------------
(* Safety. *)

SingleWriter == \A p, q \in Writers : p = q

Live(i) == circular_buffer.entry[i].buffptr \in Blocks

\* The commands on the heap and the entries of the ring match one to one:
\* nothing leaks when the oldest command is overwritten (main.c:209-214), no
\* entry dangles, and no block is freed twice or shared by two entries.
HeapOwned ==
  /\ \A i \in Slots : Live(i) =>
       /\ heap[circular_buffer.entry[i].buffptr] # NULL
       /\ circular_buffer.entry[i].size = Len(heap[circular_buffer.entry[i].buffptr])
  /\ \A i, j \in Slots :
       Live(i) /\ circular_buffer.entry[i].buffptr = circular_buffer.entry[j].buffptr => i = j
  /\ \A b \in Blocks :
       heap[b] # NULL => \E i \in Slots : circular_buffer.entry[i].buffptr = b

\* The array is used without holes: until the ring is full it starts in slot 0
\* and the slots from in_offs on were never written; once it is full it stays
\* full, in_offs and out_offs go round together, and every slot is in use.
RingShape ==
  LET buf == circular_buffer
  IN  /\ \A i \in Slots :
           buf.entry[i].buffptr = NULL <=> ~buf.full /\ i >= buf.in_offs
      /\ \A i \in Slots :
           buf.entry[i].buffptr \notin Blocks => buf.entry[i].size = 0
      /\ IF buf.full THEN buf.in_offs = buf.out_offs ELSE buf.out_offs = 0

\* With one writer, every command ends its line, and the pending bytes never
\* do: a line is committed by the very write that completes it.
LinesEndCommands ==
  /\ \A b \in Blocks : heap[b] # NULL => heap[b][Len(heap[b])] = NL
  /\ write_buffer_index > 0 => write_buffer[write_buffer_index - 1] # NL

\* The length that aesd_write computed before it had the lock (main.c:158) is
\* still right when it uses it.  True of one writer only.
WriteCountFresh ==
  \A p \in Procs :
    Holds(p, "write") => req[p].write_count = write_buffer_index + Count(p)

\* An accepted write puts its bytes, and the NUL behind them, inside
\* write_buffer (main.c:178-188).
WriteInBounds ==
  \A p \in Procs :
    Holds(p, "write") /\ WriteAccepted(p) =>
      write_buffer_index + Count(p) < MaxWriteSize

SeekToDone(p) == pc[p] = "out" /\ req[p].op = "ioctl" /\ ret[p] >= 0

\* Where the next read of p's file starts.
NextRead(p) == FindEntry(circular_buffer, f_pos[p])

\* "The zero referenced write command to seek into" (aesd_ioctl.h:44): the
\* command that a successful AESDCHAR_IOCSEEKTO went to is counted from the
\* oldest one.  The code takes the slot instead (main.c:484-490).
SeekToNamesCommand ==
  \A p \in Procs :
    SeekToDone(p) =>
      NextRead(p).slot = (circular_buffer.out_offs + req[p].write_cmd) % MaxOps

\* What the code does: the read starts in the slot and at the offset named.
SeekToNamesSlot ==
  \A p \in Procs :
    SeekToDone(p) =>
      NextRead(p) = [slot |-> req[p].write_cmd, offset |-> req[p].write_cmd_offset]

\* After a successful AESDCHAR_IOCSEEKTO the next read starts at the offset that
\* was asked for in some stored command, wherever the ring has wrapped and
\* whatever empty commands it holds (aesd_circular_buffer_size and the search from
\* f_pos agree), and in the very command as long as the oldest is in slot 0.
SeekToLands ==
  \A p \in Procs :
    SeekToDone(p) =>
      /\ NextRead(p) # NotFound
      /\ NextRead(p).offset = req[p].write_cmd_offset
      /\ circular_buffer.out_offs = 0 => NextRead(p).slot = req[p].write_cmd

Stored == TotalSize(circular_buffer, MaxOps)

SeekEndDone(p) ==
  pc[p] = "out" /\ req[p].op = "llseek" /\ req[p].whence = "SEEK_END"

\* SEEK_END goes to the end of the stored bytes while the ring is not full.
\* From then on it goes to their start: in_offs is out_offs, and the bytes
\* before that slot are none (main.c:254-256, aesd-circular-buffer.c:123).
SeekEndUntilFull ==
  \A p \in Procs :
    SeekEndDone(p) => f_pos[p] = IF circular_buffer.full THEN 0 ELSE Stored

\* The two ways to seek that measure the ring end where they say.
SeeksLand == SeekToLands /\ SeekEndUntilFull

\* A read that is not refused makes progress: it hands out nothing only when it
\* asked for nothing or no stored byte lies at or behind the position, wherever
\* the ring has wrapped (main.c:70-146).
ReadsToTheEnd ==
  \A p \in Procs :
    pc[p] = "out" /\ req[p].op = "read" /\ ret[p] = 0 =>
      req[p].count = 0 \/ f_pos[p] >= Stored

-----------------------------------------------------------------------------
(* What a step may never do. *)

\* A call that returns an error has changed nothing that later calls see: no
\* command, no length of the pending line, no memory, no file position.
ErrorChangesNothing ==
  [][\A p \in Procs :
       pc[p] = "locked" /\ pc'[p] = "out" /\ ret'[p] < 0 =>
         UNCHANGED <<circular_buffer, write_buffer_index, heap, f_pos>>]_vars

\* A pending line of MaxWriteSize - 1 bytes is the end of all writing: no call
\* completes it, drops it or stores another command (main.c:166-182).
FullPendingStays ==
  [][write_buffer_index = MaxWriteSize - 1 =>
       UNCHANGED <<circular_buffer, write_buffer_index, heap>>]_vars

-----------------------------------------------------------------------------
\* Every call that waits for the device returns, unless a call on it, an empty
\* write, was killed with the mutex (WriteOops).
CallReturns ==
  \A p \in Procs :
    pc[p] = "waiting" ~> pc[p] = "done" \/ \E q \in Procs : pc[q] = "killed"

=============================================================================
