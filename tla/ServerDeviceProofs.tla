------------------------- MODULE ServerDeviceProofs -------------------------
(***************************************************************************)
(* Theorems about the server's threads on the driver, for any clients, any *)
(* messages and any other users of the device, with proofs.                *)
(***************************************************************************)
EXTENDS ServerDeviceRefinement, AesdCharRefinementProofs

USE RingAssumption, DriverAssumption, ServerDeviceAssumption

\* The most bytes the ring can hold.
Room == MaxOps * (MaxWriteSize - 1)

\* Where a client's thread is, and what its call on the device is, agree; what
\* it has read so far lies before its position.
Exchange(c) ==
  /\ stage[c] \in Busy => fileMutex = c
  /\ req[c].op \in {"write", "ioctl"} => stage[c] = "device"
  /\ req[c].op = "read" => stage[c] = "echo"
  /\ ubuf[c] # <<>> => req[c].op = "read" /\ pc[c] \notin {"waiting", "locked"}
  /\ stage[c] \in {"away", "lock", "receive", "use", "device"} => fileBuffer[c] = <<>>
  /\ stage[c] = "reply" => fileBuffer[c] # NULL
  /\ f_pos[c] <= Room
  /\ fileBuffer[c] # NULL => Len(fileBuffer[c]) + Len(ubuf[c]) <= f_pos[c]

ServerInv == Inv /\ ServerTypeOK /\ \A c \in Clients : Exchange(c)

\* What belongs to one process.
Untouched(q) ==
  pc'[q] = pc[q] /\ req'[q] = req[q] /\ ubuf'[q] = ubuf[q] /\ f_pos'[q] = f_pos[q]

\* The steps of the driver, for any request.
DriverStep(p) ==
  \/ \E r \in Request : r.op # "none" /\ Call(p, r)
  \/ IoctlRefused(p) \/ aesd_open(p) \/ aesd_release(p)
  \/ Lock(p) \/ Interrupted(p) \/ Body(p) \/ Unlock(p) \/ Finish(p)

-----------------------------------------------------------------------------
LEMMA DriverStepInv ==
  ASSUME Inv, NEW p \in Procs, DriverStep(p)
  PROVE  Inv'
<1>1. CASE \E r \in Request : r.op # "none" /\ Call(p, r)
  BY <1>1, CallInv
<1>2. CASE aesd_open(p) \/ aesd_release(p)
  BY <1>2, OpenCloseInv
<1>3. CASE IoctlRefused(p)
  BY <1>3, IoctlRefusedInv
<1>4. CASE Lock(p) \/ Interrupted(p) \/ Unlock(p) \/ Finish(p)
  BY <1>4, LockStepsInv
<1>5. CASE Body(p)
  BY <1>5, NextInv DEF Next
<1> QED
  BY <1>1, <1>2, <1>3, <1>4, <1>5 DEF DriverStep

\* A step of one process is not seen by the others.
LEMMA StepIsLocal ==
  ASSUME Inv, NEW p \in Procs, NEW q \in Procs, q # p, DriverStep(p)
  PROVE  Untouched(q)
<1>1. CASE \E r \in Request : r.op # "none" /\ Call(p, r)
  BY <1>1 DEF Untouched, Call, Goto, Inv, TypeOK
<1>2. CASE IoctlRefused(p) \/ aesd_open(p) \/ aesd_release(p) \/ Lock(p) \/ Interrupted(p)
           \/ Unlock(p) \/ Finish(p)
  BY <1>2 DEF Untouched, IoctlRefused, aesd_open, aesd_release, Lock, Interrupted, Unlock,
              Finish, Goto, callVars, Inv, TypeOK
<1>3. CASE aesd_write(p)
  BY <1>3 DEF Untouched, aesd_write, WriteRefused, WriteFault, WriteHeld, WriteNoMem,
              WriteCommitted, WriteOops, Return, Goto, callVars, Inv, TypeOK
<1>4. CASE aesd_read(p)
  BY <1>4 DEF Untouched, aesd_read, ReadNothing, ReadFault, ReadBytes, Return, Inv, TypeOK
<1>5. CASE aesd_llseek(p) \/ aesd_adjust_file_offset(p)
  BY <1>5 DEF Untouched, aesd_llseek, aesd_adjust_file_offset, Return, Inv, TypeOK
<1> QED
  BY <1>1, <1>2, <1>3, <1>4, <1>5 DEF DriverStep, Body

\* A position never leaves the room of the ring by a read,
LEMMA ReadStaysInRoom ==
  ASSUME Inv, NEW p \in Procs, ReadBytes(p), f_pos[p] <= Room
  PROVE  f_pos'[p] <= Room
<1> DEFINE n == BytesToCopy(p)
           size == circular_buffer.entry[Found(p).slot].size
<1>1. Found(p) # NotFound /\ n > 0 /\ f_pos[p] \in Nat
  <2>1. n > 0
    BY DEF ReadBytes
  <2>2. Found(p) # NotFound
    BY <2>1 DEF BytesToCopy
  <2> QED
    BY <2>1, <2>2 DEF Inv, TypeOK
<1>2. Found(p).slot \in Slots /\ Found(p).offset \in Nat /\ size \in Nat
  BY <1>1, FindEntryType, RingType DEF Found, Inv
<1>3. f_pos[p] - Found(p).offset + size <= Room
  BY <1>1, FindEntryBound, RingType DEF Found, Inv, Room
<1>4. n \in Int /\ n <= size - Found(p).offset
  BY <1>1, <1>2, RequestType DEF BytesToCopy, ReadBytes, Holds, Inv
<1>5. f_pos'[p] = f_pos[p] + n
  BY DEF ReadBytes, Inv, TypeOK
<1>6. Room \in Int
  BY DEF Room
<1> QED
  BY <1>1, <1>2, <1>3, <1>4, <1>5, <1>6

\* nor by AESDCHAR_IOCSEEKTO.
LEMMA SeekStaysInRoom ==
  ASSUME Inv, NEW p \in Procs, aesd_adjust_file_offset(p), f_pos[p] <= Room
  PROVE  f_pos'[p] <= Room
<1> DEFINE total == BufferSize(circular_buffer, req[p].write_cmd)
           found == FindEntry(circular_buffer, total + req[p].write_cmd_offset)
<1>1. req[p].write_cmd \in Nat /\ req[p].write_cmd_offset \in Nat
  BY RequestType DEF Inv, aesd_adjust_file_offset, Holds
<1>2. CASE SeekToRefused(p) \/ found = NotFound
  BY <1>2 DEF aesd_adjust_file_offset
<1>3. CASE ~SeekToRefused(p) /\ found # NotFound
  <2>1. req[p].write_cmd \in Slots
    BY <1>1, <1>3 DEF SeekToRefused, Slots
  <2>2. total \in Nat /\ total + (MaxWriteSize - 1) <= Room
    BY <2>1, BufferSizeType, BufferSizeBound, RingType DEF Inv, Room
  <2>3. /\ found.slot \in Slots /\ found.offset \in Nat
        /\ found.offset < circular_buffer.entry[found.slot].size
    <3>1. /\ circular_buffer.in_offs \in Slots /\ circular_buffer.out_offs \in Slots
          /\ \A i \in Slots : circular_buffer.entry[i].size \in 0 .. MaxWriteSize - 1
      BY RingType DEF Inv
    <3>2. total + req[p].write_cmd_offset \in Nat
      BY <1>1, <2>2
    <3> HIDE DEF total
    <3>3. found.slot \in Slots /\ found.offset \in Nat
      BY <1>3, <3>1, <3>2, FindEntryType
    <3>4. found.offset < circular_buffer.entry[found.slot].size
      BY <1>3, <3>1, <3>2, FindEntryBound
    <3> QED
      BY <3>3, <3>4
  <2>4. found.offset <= MaxWriteSize - 1
    BY <2>3, RingType DEF Inv
  <2>5. f_pos'[p] = total + found.offset
    BY <1>3 DEF aesd_adjust_file_offset, Inv, TypeOK
  <2>6. Room \in Int
    BY DEF Room
  <2> QED
    BY <2>2, <2>3, <2>4, <2>5, <2>6
<1> QED
  BY <1>2, <1>3

LEMMA UpToNulType ==
  ASSUME NEW s \in Seq(Byte)
  PROVE  UpToNul(s) \in Seq(Byte)
<1> DEFINE before == {i \in 1 .. Len(s) : \A j \in 1 .. i : s[j] # NUL}
           n == Cardinality(before)
<1>1. IsFiniteSet(1 .. Len(s)) /\ Cardinality(1 .. Len(s)) = Len(s)
  <2>1. 1 \in Int /\ Len(s) \in Int /\ Len(s) - 1 + 1 = Len(s) /\ (1 > Len(s) => Len(s) = 0)
    OBVIOUS
  <2> QED
    BY <2>1, FS_Interval
<1>2. before \in SUBSET (1 .. Len(s))
  OBVIOUS
<1> HIDE DEF before
<1>3. n \in Nat /\ n <= Len(s)
  <2>1. IsFiniteSet(before) /\ n <= Cardinality(1 .. Len(s))
    BY <1>1, <1>2, FS_Subset
  <2>2. n \in Nat
    BY <2>1, FS_CardinalityType
  <2> QED
    BY <1>1, <2>1, <2>2
<1> HIDE DEF n
<1>4. SubSeq(s, 1, n) \in Seq(Byte)
  BY <1>3
<1> QED
  BY <1>4 DEF UpToNul, n, before

-----------------------------------------------------------------------------
\* A step of one thread is not seen by the others, the mutex excepted.
LEMMA OthersKeep ==
  ASSUME ServerInv, NEW d \in Clients, Untouched(d),
         stage'[d] = stage[d], fileBuffer'[d] = fileBuffer[d],
         fileMutex' = fileMutex \/ stage[d] \notin Busy
  PROVE  Exchange(d)'
BY DEF ServerInv, Exchange, Untouched

\* What a step does when it is c's own: the rest of the invariant follows.
LEMMA OwnStep ==
  ASSUME ServerInv, NEW c \in Clients,
         UNCHANGED vars \/ DriverStep(c),
         stage' = [stage EXCEPT ![c] = stage'[c]], stage'[c] \in Stages,
         (fileMutex' \in {c, NULL} /\ fileMutex \in {c, NULL}) \/ UNCHANGED fileMutex,
         input' \in [Clients -> Seq(Byte)], buffer' \in [Clients -> Seq(Byte)],
         fileBuffer' = [fileBuffer EXCEPT ![c] = fileBuffer'[c]],
         fileBuffer'[c] \in Seq(Byte) \cup {NULL},
         reply' \in [Clients -> Seq(Byte) \cup {NULL}],
         Exchange(c)'
  PROVE  ServerInv'
<1>1. Inv'
  BY DriverStepInv, NextInv DEF ServerInv
<1>2. ASSUME NEW d \in Clients, d # c PROVE Exchange(d)'
  <2>1. Untouched(d)
    BY <1>2, StepIsLocal DEF ServerInv, Untouched, vars, callVars
  <2>2. stage'[d] = stage[d] /\ fileBuffer'[d] = fileBuffer[d]
    BY <1>2 DEF ServerInv, ServerTypeOK
  <2>3. fileMutex' = fileMutex \/ stage[d] \notin Busy
    <3>1. stage[d] \in Busy => fileMutex = d
      BY DEF ServerInv, Exchange
    <3>2. d # NULL
      OBVIOUS
    <3> QED
      BY <1>2, <3>1, <3>2
  <2> QED
    BY <2>1, <2>2, <2>3, OthersKeep
<1>3. \A d \in Clients : Exchange(d)'
  BY <1>2
<1>4. ServerTypeOK'
  <2>1. stage' \in [Clients -> Stages] /\ fileBuffer' \in [Clients -> Seq(Byte) \cup {NULL}]
    BY DEF ServerInv, ServerTypeOK
  <2>2. fileMutex' \in Clients \cup {NULL}
    BY DEF ServerInv, ServerTypeOK
  <2>3. \A d \in Clients : stage'[d] \in Busy => fileMutex' = d
    BY <1>3 DEF Exchange
  <2> QED
    BY <2>1, <2>2, <2>3 DEF ServerTypeOK
<1> QED
  BY <1>1, <1>3, <1>4 DEF ServerInv

\* Types of what belongs to one client.
LEMMA OwnTypes ==
  ASSUME ServerInv, NEW c \in Clients
  PROVE  /\ c \in Procs /\ c # NULL /\ stage \in [Clients -> Stages]
         /\ input \in [Clients -> Seq(Byte)] /\ buffer \in [Clients -> Seq(Byte)]
         /\ fileBuffer \in [Clients -> Seq(Byte) \cup {NULL}]
         /\ reply \in [Clients -> Seq(Byte) \cup {NULL}]
         /\ pc \in [Procs -> InCall \cup {"closed", "idle", "done"}]
         /\ req \in [Procs -> Request] /\ f_pos \in [Procs -> Nat]
         /\ ubuf \in [Procs -> Seq(Byte)] /\ ret \in [Procs -> Int]
         /\ pc[c] \in {"closed", "idle"} <=> req[c].op = "none"
         /\ Exchange(c)
BY DEF ServerInv, Inv, TypeOK, ServerTypeOK

\* Steps of a thread that make no call.
LEMMA QuietSteps ==
  ASSUME ServerInv, NEW c \in Clients,
         \/ LockFile(c) \/ Receive(c) \/ ReceiveEnds(c) \/ ReceiveNoMem(c)
         \/ ReceiveCrashes(c) \/ SeekCrashes(c) \/ Reply(c) \/ UnlockFile(c)
  PROVE  ServerInv'
<1> USE OwnTypes DEF Go, Stages
<1>1. UNCHANGED vars
  BY DEF LockFile, Receive, ReceiveEnds, ReceiveNoMem, ReceiveCrashes, SeekCrashes, Reply, UnlockFile
<1>2. CASE LockFile(c)
  <2>1. Exchange(c)'
    BY <1>1, <1>2 DEF LockFile, Exchange, Busy, vars, callVars
  <2> QED
    BY <1>1, <1>2, <2>1, OwnStep DEF LockFile
<1>3. CASE Receive(c)
  <2>1. PICK n \in 1 .. Len(input[c]) :
          /\ Go(c, "receive", IF input[c][n] = NL THEN "use" ELSE "receive")
          /\ buffer' = [buffer EXCEPT ![c] = @ \o SubSeq(input[c], 1, n)]
          /\ input' = [input EXCEPT ![c] = SubSeq(@, n + 1, Len(@))]
          /\ UNCHANGED <<vars, fileMutex, fileBuffer, reply>>
    BY <1>3 DEF Receive
  <2>2. SubSeq(input[c], 1, n) \in Seq(Byte) /\ SubSeq(input[c], n + 1, Len(input[c])) \in Seq(Byte)
    <3>1. input[c] \in Seq(Byte) /\ n \in 1 .. Len(input[c])
      OBVIOUS
    <3>2. \A i \in 1 .. Len(input[c]) : input[c][i] \in Byte
      BY <3>1
    <3>3. \A i \in 1 .. n : input[c][i] \in Byte
      BY <3>1, <3>2
    <3>4. \A i \in n + 1 .. Len(input[c]) : input[c][i] \in Byte
      BY <3>1, <3>2
    <3> QED
      BY <3>1, <3>3, <3>4, SubSeqProperties
  <2>3. input' \in [Clients -> Seq(Byte)] /\ buffer' \in [Clients -> Seq(Byte)]
    BY <2>1, <2>2
  <2>4. Exchange(c)'
    BY <1>1, <2>1 DEF Exchange, Busy, vars, callVars
  <2> QED
    BY <1>1, <2>1, <2>3, <2>4, OwnStep
<1>4. CASE ReceiveEnds(c) \/ ReceiveNoMem(c) \/ ReceiveCrashes(c) \/ SeekCrashes(c)
  <2>1. Exchange(c)'
    BY <1>1, <1>4 DEF ReceiveEnds, ReceiveNoMem, ReceiveCrashes, SeekCrashes, Exchange, Busy, vars, callVars
  <2> QED
    BY <1>1, <1>4, <2>1, OwnStep DEF ReceiveEnds, ReceiveNoMem, ReceiveCrashes, SeekCrashes
<1>5. CASE UnlockFile(c)
  <2>1. Exchange(c)'
    BY <1>1, <1>5 DEF UnlockFile, Exchange, Busy, vars, callVars
  <2>2. fileMutex = c
    BY <1>5 DEF UnlockFile, Exchange, Busy
  <2> QED
    BY <1>1, <1>5, <2>1, <2>2, OwnStep DEF UnlockFile
<1>6. CASE Reply(c)
  <2>1. Exchange(c)'
    BY <1>1, <1>6 DEF Reply, Exchange, Busy, vars, callVars
  <2>2. reply' \in [Clients -> Seq(Byte) \cup {NULL}]
    BY <1>6, UpToNulType DEF Reply, Exchange
  <2> QED
    BY <1>1, <1>6, <2>1, <2>2, OwnStep DEF Reply
<1> QED
  BY <1>2, <1>3, <1>4, <1>5, <1>6

LEMMA TextType ==
  ASSUME ServerInv, NEW c \in Clients
  PROVE  Text(c) \in Seq(Byte) /\ Len(Text(c)) \in Nat
BY OwnTypes, UpToNulType DEF Text

LEMMA Nothing == <<>> \in Seq(Byte) /\ Len(<<>>) = 0
BY EmptySeq

LEMMA Lengths ==
  ASSUME ServerInv, NEW c \in Clients
  PROVE  /\ f_pos[c] \in Nat /\ Len(ubuf[c]) \in Nat
         /\ fileBuffer[c] # NULL =>
              /\ Len(fileBuffer[c]) \in Nat
              /\ Len(fileBuffer[c]) + Len(ubuf[c]) <= f_pos[c]
<1>1. f_pos[c] \in Nat /\ ubuf[c] \in Seq(Byte) /\ fileBuffer[c] \in Seq(Byte) \cup {NULL}
  BY OwnTypes
<1>2. fileBuffer[c] # NULL => Len(fileBuffer[c]) + Len(ubuf[c]) <= f_pos[c]
  BY OwnTypes DEF Exchange
<1> QED
  BY <1>1, <1>2, LenProperties

\* Steps that begin a call.
LEMMA CallSteps ==
  ASSUME ServerInv, NEW c \in Clients,
         StartClient(c) \/ WriteMessage(c) \/ SeekDevice(c) \/ EchoRead(c)
  PROVE  ServerInv'
<1> USE OwnTypes, Nothing DEF Stages
<1>1. CASE StartClient(c)
  <2>1. DriverStep(c)
    BY <1>1 DEF StartClient, DriverStep
  <2>2. pc[c] = "closed" /\ req[c].op = "none" /\ ubuf[c] = <<>> /\ fileBuffer[c] = <<>>
    BY <1>1 DEF StartClient, aesd_open, Goto, Go, Exchange
  <2>3. f_pos'[c] = 0 /\ 0 <= Room /\ UNCHANGED <<req, ubuf, fileBuffer>> /\ stage'[c] = "lock"
    BY <1>1 DEF StartClient, aesd_open, callVars, Go, Room
  <2>4. Len(fileBuffer'[c]) + Len(ubuf'[c]) <= f_pos'[c]
    <3>1. fileBuffer'[c] = <<>> /\ ubuf'[c] = <<>> /\ f_pos'[c] = 0
      BY <2>2, <2>3
    <3> QED
      BY <3>1
  <2>5. Exchange(c)'
    BY <2>2, <2>3, <2>4 DEF Exchange, Busy
  <2> QED
    BY <1>1, <2>1, <2>5, OwnStep DEF StartClient, Go
<1>2. ASSUME NEW r \in Request, Call(c, r), Go(c, "use", "device"), r.op \in {"write", "ioctl"},
             UNCHANGED <<fileMutex, input, buffer, fileBuffer, reply>>
      PROVE  ServerInv'
  <2>1. DriverStep(c)
    BY <1>2 DEF DriverStep
  <2>2. ubuf[c] = <<>> /\ fileBuffer[c] = <<>> /\ fileMutex = c
    BY <1>2 DEF Call, Goto, Go, Exchange, Busy
  <2>3. UNCHANGED <<f_pos, ubuf, fileBuffer, fileMutex>> /\ stage'[c] = "device" /\ req'[c] = r
    BY <1>2 DEF Call, Go
  <2>4. Exchange(c)'
    BY <1>2, <2>2, <2>3 DEF Exchange, Busy
  <2> QED
    BY <1>2, <2>1, <2>4, OwnStep DEF Go
<1>3. CASE WriteMessage(c)
  <2> DEFINE r == [op |-> "write", data |-> Text(c), write_count |-> WriteCount(Len(Text(c)))]
  <2>1. r \in Request
    BY TextType DEF Request, WriteCount, ServerInv, Inv, TypeOK
  <2>2. r.op = "write" /\ Call(c, r)
    BY <1>3 DEF WriteMessage
  <2> HIDE DEF r
  <2> QED
    BY <1>2, <1>3, <2>1, <2>2 DEF WriteMessage
<1>4. CASE SeekDevice(c)
  <2>1. PICK cmd \in 0 .. MaxOps, offset \in SeekOffsets :
          Call(c, [op |-> "ioctl", write_cmd |-> cmd, write_cmd_offset |-> offset])
    BY <1>4 DEF SeekDevice
  <2>2. [op |-> "ioctl", write_cmd |-> cmd, write_cmd_offset |-> offset] \in Request
    BY DEF Request
  <2> QED
    BY <1>2, <1>4, <2>1, <2>2 DEF SeekDevice
<1>5. CASE EchoRead(c)
  <2> DEFINE r == [op |-> "read", count |-> FSIZE]
  <2>1. r \in Request /\ r.op = "read"
    BY DEF Request
  <2>2. Call(c, r) /\ UNCHANGED threadVars /\ stage[c] = "echo"
    BY <1>5 DEF EchoRead
  <2> HIDE DEF r
  <2>3. DriverStep(c)
    BY <2>1, <2>2 DEF DriverStep
  <2>4. ubuf[c] = <<>>
    BY <2>2 DEF Call, Goto, Exchange
  <2>5. UNCHANGED <<f_pos, ubuf>> /\ req'[c] = r
    BY <2>2 DEF Call
  <2>6. Exchange(c)'
    BY <2>1, <2>2, <2>4, <2>5 DEF Exchange, Busy, threadVars
  <2> QED
    BY <2>2, <2>3, <2>6, OwnStep DEF threadVars
<1> QED
  BY <1>1, <1>3, <1>4, <1>5

\* Steps that end one.
LEMMA DoneSteps ==
  ASSUME ServerInv, NEW c \in Clients,
         DeviceDone(c) \/ EchoDone(c) \/ EchoRetries(c) \/ EchoCrashes(c)
  PROVE  ServerInv'
<1>0. /\ f_pos[c] \in Nat /\ Len(ubuf[c]) \in Nat
      /\ fileBuffer[c] # NULL =>
           /\ Len(fileBuffer[c]) \in Nat
           /\ Len(fileBuffer[c]) + Len(ubuf[c]) <= f_pos[c]
  BY Lengths
<1>a. fileBuffer[c] # NULL => Len(fileBuffer[c]) + 0 <= f_pos[c]
  <2> DEFINE n == Len(fileBuffer[c])
             m == Len(ubuf[c])
             f == f_pos[c]
  <2>1. fileBuffer[c] # NULL => n \in Nat /\ n + m <= f
    BY <1>0
  <2>2. m \in Nat /\ f \in Nat
    BY <1>0
  <2> HIDE DEF n, m, f
  <2>3. fileBuffer[c] # NULL => n + 0 <= f
    BY <2>1, <2>2
  <2> QED
    BY <2>3 DEF n, f
<1> USE OwnTypes, Nothing DEF Stages
<1>1. DriverStep(c) /\ Finish(c)
  BY DEF DriverStep, DeviceDone, EchoDone, EchoRetries, EchoCrashes
<1>2. UNCHANGED f_pos /\ ubuf'[c] = <<>> /\ Len(ubuf'[c]) = 0 /\ req'[c].op = "none"
  BY <1>1 DEF Finish, NoReq
<1>3. CASE DeviceDone(c)
  <2>1. PICK bytes \in {<<>>, NULL} : fileBuffer' = [fileBuffer EXCEPT ![c] = bytes]
    BY <1>3 DEF DeviceDone
  <2>2. /\ stage' = [stage EXCEPT ![c] = stage'[c]] /\ stage'[c] \in {"unlock", "echo"}
        /\ stage[c] = "device"
    BY <1>3 DEF DeviceDone, Go
  <2>3. UNCHANGED <<fileMutex, input, buffer, reply>> /\ fileMutex = c
    BY <1>3, <2>2 DEF DeviceDone, Exchange, Busy
  <2>4. Exchange(c)'
    BY <1>2, <2>1, <2>2, <2>3 DEF Exchange, Busy
  <2>5. fileBuffer'[c] = bytes
    BY <2>1
  <2>6. bytes \in Seq(Byte) \cup {NULL}
    OBVIOUS
  <2> QED
    BY <1>1, <2>1, <2>2, <2>3, <2>4, <2>5, <2>6, OwnStep
<1>4. CASE EchoDone(c)
  <2>1. /\ fileBuffer[c] \in Seq(Byte) /\ fileBuffer[c] # NULL
        /\ fileBuffer' = [fileBuffer EXCEPT ![c] = fileBuffer[c] \o ubuf[c]]
    BY <1>4 DEF EchoDone
  <2>2. /\ stage' = [stage EXCEPT ![c] = stage'[c]] /\ stage'[c] \in {"reply", "echo"}
        /\ stage[c] = "echo"
    BY <1>4 DEF EchoDone, Go
  <2>3. UNCHANGED <<fileMutex, input, buffer, reply>> /\ fileMutex = c
    BY <1>4, <2>2 DEF EchoDone, Exchange, Busy
  <2>4. /\ fileBuffer'[c] \in Seq(Byte)
        /\ Len(fileBuffer'[c]) = Len(fileBuffer[c]) + Len(ubuf[c])
    <3>1. fileBuffer'[c] = fileBuffer[c] \o ubuf[c]
      BY <2>1
    <3>2. fileBuffer[c] \in Seq(Byte) /\ ubuf[c] \in Seq(Byte)
      BY <2>1
    <3> QED
      BY <3>1, <3>2
  <2>5. fileBuffer'[c] # NULL
    BY <2>4
  <2>6. Len(fileBuffer'[c]) + Len(ubuf'[c]) <= f_pos'[c]
    <3>1. Len(ubuf'[c]) = 0 /\ f_pos'[c] = f_pos[c]
      BY <1>2
    <3>2. Len(fileBuffer[c]) + Len(ubuf[c]) <= f_pos[c]
      BY <2>1, <1>0
    <3>3. Len(fileBuffer'[c]) <= f_pos[c] /\ Len(fileBuffer'[c]) \in Nat
      BY ONLY <2>4, <3>2, LenProperties
    <3> QED
      BY ONLY <3>1, <3>3
  <2>7. Exchange(c)'
    BY <1>2, <2>2, <2>3, <2>5, <2>6 DEF Exchange, Busy
  <2> QED
    BY <1>1, <2>1, <2>2, <2>3, <2>4, <2>7, OwnStep
<1>5. CASE EchoRetries(c)
  <2>1. UNCHANGED threadVars
    BY <1>5 DEF EchoRetries
  <2>2. fileBuffer[c] # NULL => Len(fileBuffer'[c]) + Len(ubuf'[c]) <= f_pos'[c]
    <3>1. Len(ubuf'[c]) = 0 /\ f_pos'[c] = f_pos[c] /\ fileBuffer'[c] = fileBuffer[c]
      BY <1>2, <2>1 DEF threadVars
    <3> QED
      BY <1>a, <3>1, Zenon
  <2>3. Exchange(c)'
    BY <1>2, <2>1, <2>2 DEF Exchange, Busy, threadVars
  <2> QED
    BY <1>1, <2>1, <2>3, OwnStep DEF threadVars
<1>6. CASE EchoCrashes(c)
  <2>1. /\ stage' = [stage EXCEPT ![c] = "crashed"]
        /\ UNCHANGED <<fileMutex, input, buffer, fileBuffer, reply>>
        /\ fileBuffer[c] = NULL
    BY <1>6 DEF EchoCrashes, Go
  <2>2. Exchange(c)'
    BY <1>2, <2>1 DEF Exchange, Busy
  <2>3. stage' = [stage EXCEPT ![c] = stage'[c]] /\ stage'[c] \in Stages
    BY <2>1
  <2>4. fileBuffer' = [fileBuffer EXCEPT ![c] = fileBuffer'[c]]
    BY <2>1
  <2> QED
    BY <1>1, <2>1, <2>2, <2>3, <2>4, OwnStep
<1> QED
  BY <1>3, <1>4, <1>5, <1>6

\* A step of the driver that a client's call takes.
DriverKeeps(c) ==
  /\ DriverStep(c)
  /\ UNCHANGED req
  /\ ubuf'[c] # <<>> => req[c].op = "read" /\ pc'[c] \notin {"waiting", "locked"}
  /\ f_pos'[c] <= Room
  /\ fileBuffer[c] # NULL => Len(fileBuffer[c]) + Len(ubuf'[c]) <= f_pos'[c]

LEMMA InDriverKeeps ==
  ASSUME ServerInv, NEW c \in Clients, DriverKeeps(c), UNCHANGED threadVars
  PROVE  ServerInv'
<1>1. Exchange(c) /\ stage \in [Clients -> Stages] /\ fileBuffer \in [Clients -> Seq(Byte) \cup {NULL}]
  BY OwnTypes
<1>2. Exchange(c)'
  BY <1>1 DEF Exchange, DriverKeeps, threadVars
<1>3. /\ input \in [Clients -> Seq(Byte)] /\ buffer \in [Clients -> Seq(Byte)]
      /\ reply \in [Clients -> Seq(Byte) \cup {NULL}]
  BY OwnTypes
<1> QED
  BY <1>1, <1>2, <1>3, OwnStep DEF DriverKeeps, threadVars

\* What the steps below leave alone is what Exchange(c) is about.
LEMMA QuietKeeps ==
  ASSUME ServerInv, NEW c \in Clients, DriverStep(c), UNCHANGED <<req, ubuf, f_pos>>,
         ubuf[c] = <<>> \/ pc'[c] \notin {"waiting", "locked"}
  PROVE  DriverKeeps(c)
<1>1. Exchange(c)
  BY OwnTypes
<1> QED
  BY <1>1 DEF DriverKeeps, Exchange

LEMMA SeekKeeps ==
  ASSUME ServerInv, NEW c \in Clients, aesd_adjust_file_offset(c)
  PROVE  DriverKeeps(c)
<1>1. DriverStep(c)
  BY DEF DriverStep, Body
<1>2. UNCHANGED <<req, ubuf>> /\ req[c].op = "ioctl" /\ f_pos' \in [Procs -> Nat]
  BY DriverStepInv, <1>1, OwnTypes DEF aesd_adjust_file_offset, Return, Holds, ServerInv, Inv, TypeOK
<1>3. ubuf[c] = <<>> /\ fileBuffer[c] = <<>> /\ f_pos[c] <= Room
  BY <1>2, OwnTypes DEF Exchange
<1>4. f_pos'[c] <= Room
  BY <1>3, OwnTypes, SeekStaysInRoom DEF ServerInv
<1>5. Len(fileBuffer[c]) + Len(ubuf'[c]) <= f_pos'[c]
  <2>1. Len(<<>>) = 0 /\ f_pos'[c] \in Nat
    BY <1>2, OwnTypes, Nothing
  <2>2. Len(fileBuffer[c]) = 0 /\ Len(ubuf'[c]) = 0
    BY <1>2, <1>3, <2>1
  <2> QED
    BY <2>1, <2>2
<1> QED
  BY <1>1, <1>2, <1>3, <1>4, <1>5 DEF DriverKeeps

LEMMA SubSeqLength ==
  ASSUME NEW s, NEW m \in Nat, NEW n \in Int, n > 0
  PROVE  Len(SubSeq(s, m + 1, m + n)) = n
<1> DEFINE S == {s[i] : i \in m + 1 .. m + n}
<1>1. \A i \in m + 1 .. m + n : s[i] \in S
  OBVIOUS
<1> HIDE DEF S
<1>2. m + 1 \in Int /\ m + n \in Int /\ m + 1 <= m + n /\ (m + n) - (m + 1) + 1 = n
  OBVIOUS
<1> QED
  BY <1>1, <1>2, SubSeqProperties

LEMMA ReadKeeps ==
  ASSUME ServerInv, NEW c \in Clients, fileBuffer[c] # NULL, ReadBytes(c)
  PROVE  DriverKeeps(c)
<1> DEFINE n == BytesToCopy(c)
           slot == Found(c).slot
           first == Found(c).offset
           text == heap[circular_buffer.entry[slot].buffptr]
<1>1. DriverStep(c)
  BY DEF DriverStep, Body, aesd_read
<1>2. /\ UNCHANGED req /\ req[c].op = "read" /\ pc[c] = "locked" /\ pc'[c] = "out"
      /\ f_pos'[c] = f_pos[c] + n
      /\ ubuf'[c] = SubSeq(text, first + 1, first + n)
  BY OwnTypes DEF ReadBytes, Return, Holds
<1>3. f_pos'[c] <= Room
  BY OwnTypes, ReadStaysInRoom DEF Exchange, ServerInv
<1>4. Len(fileBuffer[c]) <= f_pos[c] /\ Len(fileBuffer[c]) \in Nat /\ f_pos[c] \in Nat
  <2>1. ubuf[c] = <<>>
    BY <1>2, OwnTypes DEF Exchange
  <2> DEFINE n0 == Len(fileBuffer[c])
             m0 == Len(ubuf[c])
             f0 == f_pos[c]
  <2>2. m0 = 0
    BY <2>1, Nothing
  <2>3. f0 \in Nat /\ n0 \in Nat /\ n0 + m0 <= f0
    BY Lengths
  <2> HIDE DEF n0, m0, f0
  <2>4. n0 <= f0
    BY <2>2, <2>3
  <2> QED
    BY <2>3, <2>4 DEF n0, f0
<1>5. Len(ubuf'[c]) = n /\ n \in Nat
  <2>1. n > 0 /\ Found(c) # NotFound
    BY DEF ReadBytes, BytesToCopy
  <2>2. n \in Int
    BY <1>2, BytesToCopyType DEF ReadBytes, ServerInv
  <2>3. slot \in Slots /\ first \in Nat
    BY <2>1, OwnTypes, FindEntryType, RingType DEF Found, Inv, ServerInv
  <2> HIDE DEF slot, first
  <2> HIDE DEF text, n
  <2>4. Len(SubSeq(text, first + 1, first + n)) = n
    BY <2>1, <2>2, <2>3, SubSeqLength
  <2>5. n \in Nat
    BY <2>1, <2>2
  <2>6. ubuf'[c] = SubSeq(text, first + 1, first + n)
    BY <1>2
  <2> QED
    BY <2>4, <2>5, <2>6, Zenon
<1>6. Len(fileBuffer[c]) + Len(ubuf'[c]) <= f_pos'[c]
  <2> DEFINE have == Len(fileBuffer[c])
             got == Len(ubuf'[c])
             pos == f_pos[c]
  <2>1. have \in Nat /\ pos \in Nat /\ have <= pos /\ got = n /\ n \in Nat
    BY <1>4, <1>5
  <2>2. f_pos'[c] = pos + n
    BY <1>2
  <2> HIDE DEF have, got, pos, n
  <2>3. have + got <= pos + n
    BY <2>1
  <2> QED
    BY <2>2, <2>3 DEF have, got
<1> QED
  BY <1>1, <1>2, <1>3, <1>6 DEF DriverKeeps

LEMMA InDriverInv ==
  ASSUME ServerInv, NEW c \in Clients, InDriver(c)
  PROVE  ServerInv'
<1>1. CASE Lock(c)
  <2>1. DriverStep(c)
    BY <1>1 DEF DriverStep
  <2>2. UNCHANGED <<req, ubuf, f_pos>> /\ pc[c] = "waiting"
    BY <1>1 DEF Lock, Goto, callVars
  <2>3. ubuf[c] = <<>>
    BY <2>2, OwnTypes DEF Exchange
  <2> QED
    BY <2>1, <2>2, <2>3, QuietKeeps, InDriverKeeps DEF InDriver
<1>2. CASE Unlock(c) \/ WriteOops(c)
  <2>1. DriverStep(c)
    BY <1>2 DEF DriverStep, Body, aesd_write
  <2>2. UNCHANGED <<req, ubuf, f_pos>> /\ pc'[c] \in {"done", "killed"}
    BY <1>2, OwnTypes DEF Unlock, WriteOops, Goto, callVars
  <2> QED
    BY <2>1, <2>2, QuietKeeps, InDriverKeeps DEF InDriver
<1>3. CASE \/ WriteRefused(c) \/ WriteHeld(c) \/ WriteNoMem(c) \/ WriteCommitted(c)
           \/ ReadNothing(c) \/ ReadFault(c)
  <2>1. DriverStep(c)
    BY <1>3 DEF DriverStep, Body, aesd_write, aesd_read
  <2>2. UNCHANGED <<req, ubuf, f_pos>> /\ pc'[c] = "out"
    BY <1>3, OwnTypes DEF WriteRefused, WriteHeld, WriteNoMem, WriteCommitted, ReadNothing,
                          ReadFault, Return
  <2> QED
    BY <2>1, <2>2, QuietKeeps, InDriverKeeps DEF InDriver
<1>4. CASE fileBuffer[c] # NULL /\ ReadBytes(c)
  BY <1>4, ReadKeeps, InDriverKeeps DEF InDriver
<1>5. CASE aesd_adjust_file_offset(c)
  BY <1>5, SeekKeeps, InDriverKeeps DEF InDriver
<1> QED
  BY <1>1, <1>2, <1>3, <1>4, <1>5 DEF InDriver, ClientBody

-----------------------------------------------------------------------------
\* The other users' calls are calls of the driver.
LEMMA OutsideCalls ==
  ASSUME NEW p \in Procs,
         CallWrite(p) \/ CallRead(p) \/ CallLlseek(p) \/ CallSeekTo(p), Inv
  PROVE  \E r \in Request : r.op # "none" /\ Call(p, r)
<1>1. CASE CallWrite(p)
  <2>1. PICK data \in WriteData :
          Call(p, [op |-> "write", data |-> data, write_count |-> WriteCount(Len(data))])
    BY <1>1 DEF CallWrite
  <2>2. [op |-> "write", data |-> data, write_count |-> WriteCount(Len(data))] \in Request
    <3>1. data \in Seq(Byte) /\ Len(data) \in Nat /\ write_buffer_index \in Nat
      BY DEF Inv, TypeOK
    <3> QED
      BY <3>1 DEF Request, WriteCount
  <2> QED
    BY <2>1, <2>2
<1>2. CASE CallRead(p)
  <2>1. PICK count \in ReadCounts : Call(p, [op |-> "read", count |-> count])
    BY <1>2 DEF CallRead
  <2>2. [op |-> "read", count |-> count] \in Request
    BY DEF Request
  <2> QED
    BY <2>1, <2>2
<1>3. CASE CallLlseek(p)
  <2>1. PICK whence \in Whence, off \in Offsets :
          Call(p, [op |-> "llseek", whence |-> whence, off |-> off])
    BY <1>3 DEF CallLlseek
  <2>2. [op |-> "llseek", whence |-> whence, off |-> off] \in Request
    BY DEF Request
  <2> QED
    BY <2>1, <2>2
<1>4. CASE CallSeekTo(p)
  <2>1. PICK cmd \in 0 .. MaxOps, offset \in SeekOffsets :
          Call(p, [op |-> "ioctl", write_cmd |-> cmd, write_cmd_offset |-> offset])
    BY <1>4 DEF CallSeekTo
  <2>2. [op |-> "ioctl", write_cmd |-> cmd, write_cmd_offset |-> offset] \in Request
    BY DEF Request
  <2> QED
    BY <2>1, <2>2
<1> QED
  BY <1>1, <1>2, <1>3, <1>4

LEMMA OutsideInv ==
  ASSUME ServerInv, NEW p \in Procs, Outside(p)
  PROVE  ServerInv'
<1>1. DriverStep(p) /\ p \notin Clients /\ UNCHANGED threadVars
  BY OutsideCalls DEF Outside, DriverStep, ServerInv
<1>2. Inv'
  BY <1>1, DriverStepInv DEF ServerInv
<1>3. ASSUME NEW c \in Clients PROVE Exchange(c)'
  <2>1. Untouched(c)
    BY <1>1, StepIsLocal DEF ServerInv
  <2> QED
    BY <1>1, <2>1, OthersKeep DEF threadVars
<1>4. ServerTypeOK'
  BY <1>1 DEF ServerInv, ServerTypeOK, threadVars
<1> QED
  BY <1>2, <1>3, <1>4 DEF ServerInv

LEMMA ServerInitInv == ServerInit => ServerInv
<1> SUFFICES ASSUME ServerInit PROVE ServerInv
  OBVIOUS
<1>1. Inv
  BY InitInv DEF ServerInit
<1>2. ServerTypeOK
  BY EmptySeq DEF ServerInit, ServerTypeOK, Stages, Busy
<1>3. ASSUME NEW c \in Clients PROVE Exchange(c)
  <2>1. /\ req[c] = NoReq /\ ubuf[c] = <<>> /\ f_pos[c] = 0
        /\ stage[c] = "away" /\ fileBuffer[c] = <<>> /\ <<>> # NULL
    BY Nothing DEF ServerInit, Init
  <2>2. 0 <= Room
    BY DEF Room
  <2>3. Len(fileBuffer[c]) + Len(ubuf[c]) <= f_pos[c]
    <3>1. Len(fileBuffer[c]) = 0 /\ Len(ubuf[c]) = 0 /\ f_pos[c] = 0
      BY <2>1, Nothing
    <3> QED
      BY <3>1
  <2> QED
    BY <2>1, <2>2, <2>3 DEF Exchange, NoReq, Busy
<1> QED
  BY <1>1, <1>2, <1>3 DEF ServerInv

LEMMA ServerNextInv == ServerInv /\ [ServerNext]_serverVars => ServerInv'
<1> SUFFICES ASSUME ServerInv, [ServerNext]_serverVars PROVE ServerInv'
  OBVIOUS
<1>1. CASE UNCHANGED serverVars
  <2>1. Inv'
    BY <1>1, NextInv DEF serverVars, ServerInv
  <2>2. ServerTypeOK'
    BY <1>1 DEF serverVars, threadVars, ServerInv, ServerTypeOK
  <2>3. ASSUME NEW c \in Clients PROVE Exchange(c)'
    <3>1. Untouched(c)
      BY <1>1 DEF Untouched, serverVars, vars, callVars
    <3> QED
      BY <1>1, <3>1, OthersKeep DEF serverVars, threadVars
  <2> QED
    BY <2>1, <2>2, <2>3 DEF ServerInv
<1>2. ASSUME NEW c \in Clients, StartClient(c) \/ ReceiveNoMem(c) \/ ReceiveCrashes(c) PROVE ServerInv'
  BY <1>2, CallSteps, QuietSteps
<1>3. ASSUME NEW c \in Clients, ThreadStep(c) PROVE ServerInv'
  BY <1>3, CallSteps, QuietSteps, DoneSteps DEF ThreadStep
<1>4. ASSUME NEW c \in Clients, InDriver(c) PROVE ServerInv'
  BY <1>4, InDriverInv
<1>5. ASSUME NEW p \in Procs, Outside(p) PROVE ServerInv'
  BY <1>5, OutsideInv
<1> QED
  BY <1>1, <1>2, <1>3, <1>4, <1>5 DEF ServerNext

LEMMA AlwaysServerInv == ServerSpec => []ServerInv
BY ServerInitInv, ServerNextInv, PTL DEF ServerSpec

\* What the threads keep has its types, and a thread in its exchange holds
\* fileMutex, whoever else uses the device (threading.c:24-35).
THEOREM ThreadsExclude == ServerSpec => []ServerTypeOK
<1>1. ServerInv => ServerTypeOK
  BY DEF ServerInv
<1> QED
  BY <1>1, AlwaysServerInv, PTL

\* The driver stays sound under the server's calls mixed with any others.
THEOREM DriverStaysSound == ServerSpec => [](TypeOK /\ HeapOwned /\ RingShape)
<1>1. ServerInv => TypeOK /\ HeapOwned /\ RingShape
  BY DEF ServerInv, Inv
<1> QED
  BY <1>1, AlwaysServerInv, PTL

LEMMA EchoHasRoom == ServerInv => EchoFits
<1> SUFFICES ASSUME ServerInv, NEW c \in Clients, fileBuffer[c] # NULL
             PROVE  Len(fileBuffer[c]) + (IF stage[c] = "echo" THEN Len(ubuf[c]) ELSE 0) < FSIZE
  BY DEF EchoFits
<1> DEFINE n == Len(fileBuffer[c])
           m == Len(ubuf[c])
           pos == f_pos[c]
<1>1. n \in Nat /\ m \in Nat /\ pos \in Nat /\ n + m <= pos
  BY Lengths
<1>2. pos <= Room
  BY OwnTypes DEF Exchange
<1>3. Room \in Int /\ Room < FSIZE
  BY DEF Room
<1>4. FSIZE \in Nat
  OBVIOUS
<1> HIDE DEF n, m, pos, Room
<1>5. n + (IF stage[c] = "echo" THEN m ELSE 0) < FSIZE
  BY <1>1, <1>2, <1>3, <1>4
<1> QED
  BY <1>5 DEF n, m

\* echo_buffer never writes behind its buffer, nor its NUL: what it has read
\* lies before its position, and no position is behind the last byte the ring
\* can hold, which is less than FSIZE (client.c:139-158).
THEOREM EchoStaysInBuffer == ServerSpec => []EchoFits
BY EchoHasRoom, AlwaysServerInv, PTL

-----------------------------------------------------------------------------
(***************************************************************************)
(* The server as the only writer: fileMutex gives the driver what it needs *)
(* and does not see to itself, one write at a time.                        *)
(***************************************************************************)

\* What a step of the server is to the driver.
ServerCall ==
  \/ UNCHANGED vars
  \/ \E p \in Procs :
       \/ aesd_open(p) \/ aesd_release(p) \/ Lock(p) \/ Interrupted(p)
       \/ Body(p) \/ Unlock(p) \/ Finish(p) \/ IoctlRefused(p)
  \/ \E p \in Procs, r \in Request :
       /\ Call(p, r)
       /\ r.op = "write" =>
            p \in Writers /\ r.write_count = write_buffer_index + Len(r.data)

LEMMA ServerStepCalls ==
  ASSUME Writers \subseteq Clients, ServerInv, [ServerNext]_serverVars
  PROVE  ServerCall
<1>1. CASE UNCHANGED serverVars
  BY <1>1 DEF ServerCall, serverVars
<1>2. ASSUME NEW c \in Clients, StartClient(c) \/ ReceiveNoMem(c) \/ ReceiveCrashes(c) PROVE ServerCall
  BY <1>2 DEF StartClient, ReceiveNoMem, ReceiveCrashes, ServerCall
<1>3. ASSUME NEW c \in Clients, ThreadStep(c) PROVE ServerCall
  <2>1. CASE WriteMessage(c)
    <3> DEFINE r == [op |-> "write", data |-> Text(c), write_count |-> WriteCount(Len(Text(c)))]
    <3>1. r \in Request
      BY SMTT(30), TextType DEF Request, WriteCount, ServerInv, Inv, TypeOK
    <3>2. /\ Call(c, r) /\ c \in Writers
          /\ r.write_count = write_buffer_index + Len(r.data)
      BY <2>1 DEF WriteMessage, WriteCount
    <3> HIDE DEF r
    <3> QED
      BY <3>1, <3>2 DEF ServerCall
  <2>2. CASE SeekDevice(c)
    <3>1. PICK cmd \in 0 .. MaxOps, offset \in SeekOffsets :
            Call(c, [op |-> "ioctl", write_cmd |-> cmd, write_cmd_offset |-> offset])
      BY <2>2 DEF SeekDevice
    <3>2. [op |-> "ioctl", write_cmd |-> cmd, write_cmd_offset |-> offset] \in Request
      BY DEF Request
    <3> QED
      BY <3>1, <3>2 DEF ServerCall
  <2>3. CASE EchoRead(c)
    <3>1. Call(c, [op |-> "read", count |-> FSIZE])
      BY <2>3 DEF EchoRead
    <3>2. [op |-> "read", count |-> FSIZE] \in Request
      BY DEF Request
    <3> QED
      BY <3>1, <3>2 DEF ServerCall
  <2>4. CASE DeviceDone(c) \/ EchoDone(c) \/ EchoRetries(c) \/ EchoCrashes(c)
    BY <2>4 DEF DeviceDone, EchoDone, EchoRetries, EchoCrashes, ServerCall
  <2>5. CASE \/ LockFile(c) \/ Receive(c) \/ ReceiveEnds(c) \/ SeekCrashes(c)
             \/ Reply(c) \/ UnlockFile(c)
    BY <2>5 DEF LockFile, Receive, ReceiveEnds, SeekCrashes, Reply, UnlockFile, ServerCall
  <2> QED
    BY <1>3, <2>1, <2>2, <2>3, <2>4, <2>5 DEF ThreadStep
<1>4. ASSUME NEW c \in Clients, InDriver(c) PROVE ServerCall
  BY <1>4 DEF InDriver, ClientBody, Body, aesd_write, aesd_read, ServerCall
<1>5. ASSUME NEW p \in Procs, Outside(p) PROVE ServerCall
  <2>1. p \notin Writers
    BY <1>5 DEF Outside
  <2>2. CASE CallRead(p) \/ CallLlseek(p) \/ CallSeekTo(p)
    <3>1. PICK r \in Request : r.op # "none" /\ Call(p, r)
      BY <2>2, OutsideCalls DEF ServerInv
    <3>2. r = req'[p]
      BY <3>1 DEF Call, ServerInv, Inv, TypeOK
    <3>3. req'[p].op \in {"read", "llseek", "ioctl"}
      BY <2>2 DEF CallRead, CallLlseek, CallSeekTo, Call, ServerInv, Inv, TypeOK
    <3> QED
      BY <3>1, <3>2, <3>3 DEF ServerCall
  <2> QED
    BY <1>5, <2>1, <2>2 DEF Outside, ServerCall
<1> QED
  BY <1>1, <1>2, <1>3, <1>4, <1>5 DEF ServerNext

LEMMA ServerWriterInv ==
  ASSUME Writers \subseteq Clients
  PROVE  ServerInv /\ WriterInv /\ [ServerNext]_serverVars => WriterInv'
<1> SUFFICES ASSUME ServerInv, WriterInv, [ServerNext]_serverVars PROVE WriterInv'
  OBVIOUS
<1>0. WritesAlone
  <2>1. \A p \in Procs : req[p].op = "write" => p \in Clients /\ fileMutex = p
    BY DEF WriterInv, ServerInv, Exchange, Busy
  <2> QED
    BY <2>1 DEF WritesAlone
<1>1. Inv /\ ServerCall
  BY ServerStepCalls DEF ServerInv
<1>2. CASE UNCHANGED vars
  BY <1>2 DEF WriterInv, CountIsFresh, LinesEndCommands, vars, devVars, callVars, Count, Data
<1> QED
  BY <1>0, <1>1, <1>2, WriterStepInv, WriterCallInv DEF ServerCall

LEMMA AlwaysServerWriterInv ==
  ASSUME Writers \subseteq Clients
  PROVE  ServerSpec => [](ServerInv /\ WriterInv)
<1>1. ServerInit => ServerInv /\ WriterInv
  BY ServerInitInv, WriterInitInv DEF ServerInit
<1>2. (ServerInv /\ WriterInv) /\ [ServerNext]_serverVars => (ServerInv /\ WriterInv)'
  BY ServerNextInv, ServerWriterInv
<1> QED
  BY <1>1, <1>2, PTL DEF ServerSpec

\* The length a thread's write computes without the device's lock (main.c:158)
\* is right when it is used: fileMutex keeps the server's writes apart.
THEOREM MutexKeepsCountFresh ==
  ASSUME Writers \subseteq Clients
  PROVE  ServerSpec => []WriteCountFresh
<1>1. WriterInv => WriteCountFresh
  BY DEF WriterInv, CountIsFresh, WriteCountFresh, Holds
<1> QED
  BY <1>1, AlwaysServerWriterInv, PTL

\* So no write of the server leaves the driver's buffer,
THEOREM MutexKeepsWritesInBounds ==
  ASSUME Writers \subseteq Clients
  PROVE  ServerSpec => []WriteInBounds
<1>1. WriterInv => WriteInBounds
  BY DEF WriterInv, CountIsFresh, WriteInBounds, WriteAccepted, Holds
<1> QED
  BY <1>1, AlwaysServerWriterInv, PTL

\* and every command it stores ends its line.
THEOREM MutexKeepsLines ==
  ASSUME Writers \subseteq Clients
  PROVE  ServerSpec => []LinesEndCommands
<1>1. WriterInv => LinesEndCommands
  BY DEF WriterInv
<1> QED
  BY <1>1, AlwaysServerWriterInv, PTL

-----------------------------------------------------------------------------
(***************************************************************************)
(* And then threads and driver implement LineService.  The invariant says  *)
(* where an exchange stands: what has been read for a client is the log    *)
(* from EchoFrom(c) up to the position of its file.                        *)
(***************************************************************************)

LEMMA IntervalSize ==
  ASSUME NEW n \in Nat
  PROVE  Cardinality(1 .. n) = n
<1>1. 1 \in Int /\ n \in Int /\ n - 1 + 1 = n /\ (1 > n => n = 0)
  OBVIOUS
<1> QED
  BY <1>1, FS_Interval

LEMMA SameBytes ==
  ASSUME NEW s \in Seq(Byte), NEW t \in Seq(Byte), Len(s) = Len(t),
         \A i \in 1 .. Len(s) : s[i] = t[i]
  PROVE  s = t
<1>1. s = [i \in 1 .. Len(s) |-> s[i]] /\ t = [i \in 1 .. Len(t) |-> t[i]]
  OBVIOUS
<1> QED
  BY <1>1

\* A text that has a NUL has a first one.
LEMMA FirstNul ==
  ASSUME NEW s \in Seq(Byte), \E i \in 1 .. Len(s) : s[i] = NUL
  PROVE  \E m \in 1 .. Len(s) : s[m] = NUL /\ \A j \in 1 .. m - 1 : s[j] # NUL
<1> DEFINE N == Len(s)
           nuls == {i \in 1 .. N : s[i] = NUL}
           clear == {k \in 0 .. N : \A j \in 1 .. k : s[j] # NUL}
<1> SUFFICES ASSUME \A m \in nuls : \E j \in 1 .. m - 1 : s[j] = NUL PROVE FALSE
  OBVIOUS
<1>0. N \in Nat
  OBVIOUS
<1>1. 0 \in clear
  BY <1>0
<1>2. ASSUME NEW k \in 0 .. N - 1, k \in clear PROVE k + 1 \in clear
  <2>1. k + 1 \in 1 .. N /\ k + 1 \in 0 .. N /\ k + 1 - 1 = k
    BY <1>0
  <2>2. s[k + 1] # NUL
    <3> SUFFICES ASSUME s[k + 1] = NUL PROVE FALSE
      OBVIOUS
    <3>1. PICK j \in 1 .. k : s[j] = NUL
      BY <2>1
    <3> QED
      BY <1>2, <3>1
  <2>3. \A j \in 1 .. k + 1 : j # k + 1 => j \in 1 .. k
    OBVIOUS
  <2> QED
    BY <1>2, <2>1, <2>2, <2>3
<1> HIDE DEF clear
<1>3. N \in clear
  BY <1>0, <1>1, <1>2, IntervalInduction
<1> QED
  BY <1>3 DEF clear

\* strlen stops where the promise says the answer does.
LEMMA SentIsUpToNul ==
  ASSUME NEW s \in Seq(Byte)
  PROVE  LS!Sent(s) = UpToNul(s)
<1> DEFINE N == Len(s)
           nuls == {i \in 1 .. N : s[i] = NUL}
           before == {i \in 1 .. N : \A j \in 1 .. i : s[j] # NUL}
<1>0. N \in Nat
  OBVIOUS
<1>1. UpToNul(s) = SubSeq(s, 1, Cardinality(before))
  BY DEF UpToNul
<1>2. CASE nuls = {}
  <2>1. NUL \notin LS!ToSet(s)
    BY <1>2 DEF LS!ToSet
  <2>2. before = 1 .. N
    BY <1>0, <1>2
  <2> HIDE DEF before
  <2>3. Cardinality(before) = N
    BY <1>0, <2>2, IntervalSize
  <2>4. SubSeq(s, 1, N) = s
    <3>1. /\ SubSeq(s, 0 + 1, 0 + N) \in Seq(Byte) /\ Len(SubSeq(s, 0 + 1, 0 + N)) = N
          /\ \A i \in 1 .. N : SubSeq(s, 0 + 1, 0 + N)[i] = s[0 + i]
      BY <1>0, SubSeqFacts
    <3>2. 0 + 1 = 1 /\ 0 + N = N /\ \A i \in 1 .. N : 0 + i = i
      BY <1>0
    <3>3. /\ SubSeq(s, 1, N) \in Seq(Byte) /\ Len(SubSeq(s, 1, N)) = N
          /\ \A i \in 1 .. N : SubSeq(s, 1, N)[i] = s[i]
      BY <3>1, <3>2
    <3> QED
      BY <3>3, SameBytes
  <2> QED
    BY <1>1, <2>1, <2>3, <2>4 DEF LS!Sent
<1>3. CASE nuls # {}
  <2>1. NUL \in LS!ToSet(s)
    BY <1>3 DEF LS!ToSet
  <2>2. PICK m \in nuls : \A j \in nuls : m <= j
    <3>1. PICK m \in 1 .. N : s[m] = NUL /\ \A j \in 1 .. m - 1 : s[j] # NUL
      BY <1>3, FirstNul
    <3>2. ASSUME NEW j \in nuls PROVE m <= j
      <4>1. j \notin 1 .. m - 1
        BY <3>1
      <4> QED
        BY <1>0, <4>1
    <3> QED
      BY <3>1, <3>2
  <2>3. LS!SelectInSeq(s, LAMBDA b : b = NUL) = m
    <3>1. \A k \in nuls : (\A j \in nuls : k <= j) => k = m
      BY <1>0, <2>2
    <3>2. (CHOOSE k \in nuls : \A j \in nuls : k <= j) = m
      BY <2>2, <3>1
    <3> QED
      BY <1>3, <3>2 DEF LS!SelectInSeq, LS!Min
  <2>4. before = 1 .. m - 1
    BY <1>0, <2>2
  <2> HIDE DEF before
  <2>5. Cardinality(before) = m - 1
    <3>1. m - 1 \in Nat
      BY <1>0, <2>2
    <3> QED
      BY <2>4, <3>1, IntervalSize
  <2> QED
    BY <1>1, <2>1, <2>3, <2>5 DEF LS!Sent
<1> QED
  BY <1>2, <1>3

\* A part in the middle of a sequence, by its bytes.
LEMMA Part ==
  ASSUME NEW s \in Seq(Byte), NEW m \in Nat, NEW n \in Nat, m <= n, n <= Len(s)
  PROVE  /\ SubSeq(s, m + 1, n) \in Seq(Byte) /\ Len(SubSeq(s, m + 1, n)) = n - m
         /\ \A i \in 1 .. n - m : SubSeq(s, m + 1, n)[i] = s[m + i]
<1> DEFINE k == n - m
<1>1. k \in Nat /\ m + k = n
  OBVIOUS
<1> HIDE DEF k
<1>2. /\ SubSeq(s, m + 1, m + k) \in Seq(Byte) /\ Len(SubSeq(s, m + 1, m + k)) = k
      /\ \A i \in 1 .. k : SubSeq(s, m + 1, m + k)[i] = s[m + i]
  <2>1. m + k <= Len(s)
    BY <1>1
  <2>2. SubSeq(s, m + 1, m + k) \in Seq(Byte) /\ Len(SubSeq(s, m + 1, m + k)) = k
    BY SMTT(30), <1>1, <2>1, SubSeqFacts
  <2>3. \A i \in 1 .. k : SubSeq(s, m + 1, m + k)[i] = s[m + i]
    BY SMTT(30), <1>1, <2>1, SubSeqFacts
  <2> QED
    BY <2>2, <2>3
<1> QED
  BY <1>1, <1>2 DEF k

\* Two parts that meet,
LEMMA PartsJoin ==
  ASSUME NEW s \in Seq(Byte), NEW a \in Nat, NEW m \in Nat, NEW n \in Nat,
         a <= m, m <= n, n <= Len(s)
  PROVE  SubSeq(s, a + 1, m) \o SubSeq(s, m + 1, n) = SubSeq(s, a + 1, n)
<1> DEFINE left  == SubSeq(s, a + 1, m)
           right == SubSeq(s, m + 1, n)
           both  == left \o right
           all   == SubSeq(s, a + 1, n)
<1>1. /\ left \in Seq(Byte) /\ Len(left) = m - a
      /\ \A i \in 1 .. m - a : left[i] = s[a + i]
  <2>1. m <= Len(s)
    OBVIOUS
  <2> QED
    BY <2>1, Part
<1>2. /\ right \in Seq(Byte) /\ Len(right) = n - m
      /\ \A i \in 1 .. n - m : right[i] = s[m + i]
  BY Part
<1>3. /\ all \in Seq(Byte) /\ Len(all) = n - a
      /\ \A i \in 1 .. n - a : all[i] = s[a + i]
  <2>1. a <= n
    OBVIOUS
  <2> QED
    BY <2>1, Part
<1> HIDE DEF left, right, all
<1>4. /\ both \in Seq(Byte) /\ Len(both) = n - a
      /\ \A i \in 1 .. n - a : both[i] = IF i <= m - a THEN left[i] ELSE right[i - (m - a)]
  <2>1. left \in Seq(Byte) /\ right \in Seq(Byte)
    BY <1>1, <1>2
  <2>2. /\ both \in Seq(Byte) /\ Len(both) = Len(left) + Len(right)
        /\ \A i \in 1 .. Len(left) + Len(right) :
             both[i] = IF i <= Len(left) THEN left[i] ELSE right[i - Len(left)]
    BY <2>1, ConcatProperties
  <2> HIDE DEF both
  <2>3. Len(left) = m - a /\ Len(left) + Len(right) = n - a
    BY <1>1, <1>2
  <2> QED
    BY <2>2, <2>3
<1> HIDE DEF both
<1>5. ASSUME NEW i \in 1 .. n - a PROVE both[i] = all[i]
  <2>1. all[i] = s[a + i]
    BY <1>3
  <2>2. CASE i <= m - a
    <3>1. i \in 1 .. m - a
      BY <2>2
    <3>2. left[i] = s[a + i]
      BY <1>1, <3>1
    <3> QED
      BY <1>4, <2>1, <2>2, <3>2
  <2>3. CASE ~(i <= m - a)
    <3>1. i - (m - a) \in 1 .. n - m /\ m + (i - (m - a)) = a + i
      BY <2>3
    <3>2. right[i - (m - a)] = s[m + (i - (m - a))]
      BY <1>2, <3>1
    <3> QED
      BY <1>4, <2>1, <2>3, <3>1, <3>2
  <2> QED
    BY <2>2, <2>3
<1>6. both = all
  BY <1>3, <1>4, <1>5, SameBytes
<1> QED
  BY <1>6 DEF both, left, right, all

\* and a part of a part.
LEMMA PartOfPart ==
  ASSUME NEW s \in Seq(Byte), NEW a \in Nat, NEW n \in Nat, a <= n, n <= Len(s),
         NEW k \in Nat, NEW m \in Nat, k <= m, m <= n - a
  PROVE  SubSeq(SubSeq(s, a + 1, n), k + 1, m) = SubSeq(s, a + k + 1, a + m)
<1> DEFINE rest  == SubSeq(s, a + 1, n)
           part  == SubSeq(rest, k + 1, m)
           whole == SubSeq(s, a + k + 1, a + m)
<1>1. /\ rest \in Seq(Byte) /\ Len(rest) = n - a
      /\ \A i \in 1 .. n - a : rest[i] = s[a + i]
  BY Part
<1> HIDE DEF rest
<1>2. /\ part \in Seq(Byte) /\ Len(part) = m - k
      /\ \A i \in 1 .. m - k : part[i] = rest[k + i]
  <2>1. rest \in Seq(Byte) /\ m <= Len(rest)
    BY <1>1
  <2>2. part \in Seq(Byte)
    BY SMTT(30), <2>1, Part
  <2>3. Len(part) = m - k
    BY SMTT(30), <2>1, Part
  <2>4. \A i \in 1 .. m - k : part[i] = rest[k + i]
    BY SMTT(30), <2>1, Part
  <2> QED
    BY <2>2, <2>3, <2>4
<1>3. /\ whole \in Seq(Byte) /\ Len(whole) = m - k
      /\ \A i \in 1 .. m - k : whole[i] = s[a + k + i]
  <2> DEFINE from == a + k
             to   == a + m
  <2>1. from \in Nat /\ to \in Nat /\ from <= to /\ to <= Len(s) /\ to - from = m - k
    OBVIOUS
  <2> HIDE DEF from, to
  <2>2. SubSeq(s, from + 1, to) \in Seq(Byte)
    BY SMTT(30), <2>1, Part
  <2>3. Len(SubSeq(s, from + 1, to)) = to - from
    BY SMTT(30), <2>1, Part
  <2>4. \A i \in 1 .. to - from : SubSeq(s, from + 1, to)[i] = s[from + i]
    BY SMTT(30), <2>1, Part
  <2> QED
    BY <2>1, <2>2, <2>3, <2>4 DEF from, to
<1> HIDE DEF part, whole
<1>4. ASSUME NEW i \in 1 .. m - k PROVE part[i] = whole[i]
  <2>1. k + i \in 1 .. n - a /\ a + (k + i) = a + k + i
    OBVIOUS
  <2>2. rest[k + i] = s[a + (k + i)]
    BY <1>1, <2>1
  <2> QED
    BY <1>2, <1>3, <2>1, <2>2
<1>5. part = whole
  BY <1>2, <1>3, <1>4, SameBytes
<1> QED
  BY <1>5 DEF part, whole, rest

-----------------------------------------------------------------------------
(* Messages, as they are received. *)

\* What the server has of a message, and what it has not, are the message.
Received(c) ==
  \E s \in Sends : \E n \in 0 .. Len(s) :
    /\ buffer[c] = SubSeq(s, 1, n)
    /\ input[c] = SubSeq(s, n + 1, Len(s))

LEMMA ReceiveReceives ==
  ASSUME ServerInv, NEW c \in Clients, Received(c), Receive(c)
  PROVE  Received(c)'
<1>0. PICK s \in Sends : \E n \in 0 .. Len(s) :
        buffer[c] = SubSeq(s, 1, n) /\ input[c] = SubSeq(s, n + 1, Len(s))
  BY DEF Received
<1>1. PICK n \in 0 .. Len(s) :
        buffer[c] = SubSeq(s, 1, n) /\ input[c] = SubSeq(s, n + 1, Len(s))
  BY <1>0
<1>2. PICK k \in 1 .. Len(input[c]) :
        /\ buffer' = [buffer EXCEPT ![c] = @ \o SubSeq(input[c], 1, k)]
        /\ input' = [input EXCEPT ![c] = SubSeq(@, k + 1, Len(@))]
  BY DEF Receive
<1> DEFINE N == Len(s)
<1>3. s \in Seq(Byte) /\ N \in Nat /\ n \in Nat /\ n <= N
  OBVIOUS
<1>4. Len(input[c]) = N - n
  BY <1>1, <1>3, Part
<1>5. k \in Nat /\ 1 <= k /\ k <= N - n /\ n + k \in Nat /\ n + k <= N /\ n + k \in 0 .. N
  <2> HIDE DEF N
  <2>1. k \in 1 .. N - n
    BY <1>4
  <2> QED
    BY <1>3, <2>1
<1>6. SubSeq(input[c], 1, k) = SubSeq(s, n + 1, n + k)
  <2>1. SubSeq(SubSeq(s, n + 1, N), 0 + 1, k) = SubSeq(s, n + 0 + 1, n + k)
    <3>1. 0 \in Nat /\ 0 <= k
      BY <1>5
    <3> HIDE DEF N
    <3>2. N <= Len(s)
      BY <1>3 DEF N
    <3> QED
      BY <1>3, <1>5, <3>1, <3>2, PartOfPart
  <2>2. 0 + 1 = 1 /\ n + 0 + 1 = n + 1
    BY <1>3
  <2> QED
    BY <1>1, <2>1, <2>2
<1>7. SubSeq(input[c], k + 1, Len(input[c])) = SubSeq(s, n + k + 1, N)
  <2>1. SubSeq(SubSeq(s, n + 1, N), k + 1, N - n) = SubSeq(s, n + k + 1, n + (N - n))
    <3>1. N - n \in Nat /\ k <= N - n
      BY <1>3, <1>5
    <3> HIDE DEF N
    <3>2. N <= Len(s)
      BY <1>3 DEF N
    <3> QED
      BY <1>3, <1>5, <3>1, <3>2, PartOfPart
  <2>2. n + (N - n) = N
    BY <1>3
  <2> QED
    BY <1>1, <1>4, <2>1, <2>2
<1>8. SubSeq(s, 1, n) \o SubSeq(s, n + 1, n + k) = SubSeq(s, 1, n + k)
  <2>1. SubSeq(s, 0 + 1, n) \o SubSeq(s, n + 1, n + k) = SubSeq(s, 0 + 1, n + k)
    <3>1. 0 \in Nat /\ 0 <= n /\ n <= n + k
      BY <1>3, <1>5
    <3> QED
      BY <1>3, <1>5, <3>1, PartsJoin
  <2>2. 0 + 1 = 1
    OBVIOUS
  <2> QED
    BY <2>1, <2>2
<1>9. buffer'[c] = SubSeq(s, 1, n + k) /\ input'[c] = SubSeq(s, n + k + 1, N)
  BY <1>1, <1>2, <1>6, <1>7, <1>8, OwnTypes
<1> QED
  BY <1>5, <1>9 DEF Received

-----------------------------------------------------------------------------
(* Where an exchange stands in the log. *)

\* What has been read for the client is the log from EchoFrom on.
Echoed(c) == fileBuffer[c] \o ubuf[c] = SubSeq(CL!Stream, EchoFrom(c) + 1, f_pos[c])

Placed(c) ==
  /\ stage[c] \in {"lock", "receive", "use"} => f_pos[c] = 0
  /\ req[c].op = "write" => f_pos[c] = 0 /\ Data(c) \in Texts
  /\ req[c].op = "read" => req[c].count = FSIZE
  /\ stage[c] \in {"device", "echo", "reply"} => f_pos[c] <= Len(CL!Stream)
  /\ stage[c] = "crashed" /\ fileBuffer[c] = NULL => fileMutex = c
  /\ fileBuffer[c] = NULL => ubuf[c] = <<>>
  /\ stage[c] \in {"echo", "reply"} /\ fileBuffer[c] # NULL => Echoed(c)
  /\ stage[c] = "echo" /\ fileBuffer[c] # NULL /\ pc[c] \in {"out", "done"} =>
       ret[c] = Len(ubuf[c]) /\ (ret[c] = 0 => f_pos[c] = Len(CL!Stream))
  /\ stage[c] = "reply" => f_pos[c] = Len(CL!Stream) /\ ubuf[c] = <<>>

ServiceInv == \A c \in Clients : Received(c) /\ Placed(c)

\* All that the steps below start from.
AllInv == ServerInv /\ WriterInv /\ ServiceInv

LEMMA StreamShape == Inv => CL!Stream \in Seq(Byte) /\ Len(CL!Stream) \in Nat
<1> SUFFICES ASSUME Inv PROVE CL!Stream \in Seq(Byte) /\ Len(CL!Stream) \in Nat
  OBVIOUS
<1>1. CL!Stream \in Seq(Byte)
  BY StreamIs
<1> QED
  BY <1>1

\* The stream is what the ring stores.
LEMMA StreamIsStored ==
  ASSUME Inv
  PROVE  Len(CL!Stream) = Stored
<1> DEFINE buf == circular_buffer
<1>1. Len(CL!Stream) = TotalSize(buf, Entries(buf)) /\ NoHoles(buf)
  BY StreamIs, RingHasNoHoles
<1>2. CASE IsEmpty(buf)
  <2>1. Entries(buf) = 0
    BY <1>2 DEF Entries
  <2>2. TotalSize(buf, 0) = 0
    BY TotalSizeZero
  <2>3. TotalSize(buf, MaxOps) = 0
    BY <1>1, <1>2, EmptyRing
  <2> QED
    BY <1>1, <2>1, <2>2, <2>3 DEF Stored
<1>3. CASE ~IsEmpty(buf)
  <2>1. Entries(buf) = Iterations(buf, buf.in_offs)
    BY <1>3 DEF Entries
  <2> QED
    BY <1>1, <1>3, <2>1, WholeRing DEF Stored
<1> QED
  BY <1>2, <1>3

LEMMA SameStream == LS!Stream = CL!Stream
BY DEF LS!Stream, CL!Stream, LS!FlattenSeq, CL!FlattenSeq

LEMMA StreamStays ==
  ASSUME UNCHANGED LogOfRing
  PROVE  UNCHANGED CL!Stream
BY DEF CL!Stream, CL!FlattenSeq

\* Only a write changes what the device keeps,
LEMMA DeviceLeft ==
  ASSUME NEW p \in Procs, DriverStep(p), ~aesd_write(p)
  PROVE  UNCHANGED devVars /\ UNCHANGED LogOfRing /\ UNCHANGED PendingOfBuffer
<1>1. UNCHANGED devVars
  BY DEF DriverStep, Call, IoctlRefused, aesd_open, aesd_release, Lock, Interrupted, Unlock,
         Finish, Body, aesd_read, ReadNothing, ReadFault, ReadBytes, aesd_llseek,
         aesd_adjust_file_offset
<1>2. UNCHANGED LogOfRing
  BY <1>1, LogUntouched DEF devVars
<1> QED
  BY <1>1, <1>2 DEF devVars, PendingOfBuffer

LEMMA WriteHolds ==
  ASSUME NEW p \in Procs, aesd_write(p)
  PROVE  Holds(p, "write")
BY DEF aesd_write, WriteRefused, WriteFault, WriteHeld, WriteNoMem, WriteCommitted,
       LineComplete, WriteOops

\* and only a client that has fileMutex writes.
LEMMA WriterHolds ==
  ASSUME Writers \subseteq Clients, ServerInv, WriterInv, NEW p \in Procs, aesd_write(p)
  PROVE  p \in Clients /\ stage[p] = "device" /\ fileMutex = p
<1>1. req[p].op = "write"
  BY WriteHolds DEF Holds
<1>2. p \in Clients
  BY <1>1 DEF WriterInv
<1>3. Exchange(p)
  BY <1>2, OwnTypes
<1> QED
  BY <1>1, <1>2, <1>3 DEF Exchange, Busy

LEMMA RetStays ==
  ASSUME Inv, NEW p \in Procs, NEW q \in Procs, q # p, DriverStep(p)
  PROVE  ret'[q] = ret[q]
<1>1. ret \in [Procs -> Int]
  BY DEF Inv, TypeOK
<1>2. CASE \/ \E r \in Request : r.op # "none" /\ Call(p, r)
           \/ IoctlRefused(p) \/ aesd_open(p) \/ aesd_release(p)
           \/ Lock(p) \/ Interrupted(p) \/ Unlock(p) \/ Finish(p)
  BY <1>1, <1>2 DEF Call, IoctlRefused, aesd_open, aesd_release, Lock, Interrupted, Unlock,
                    Finish, callVars
<1>3. CASE Body(p)
  BY <1>1, <1>3 DEF Body, aesd_write, WriteRefused, WriteFault, WriteHeld, WriteNoMem,
                    WriteCommitted, WriteOops, aesd_read, ReadNothing, ReadFault, ReadBytes,
                    aesd_llseek, aesd_adjust_file_offset, Return, callVars
<1> QED
  BY <1>2, <1>3 DEF DriverStep

\* Before the first read the echo begins at the position.
LEMMA EchoBegins ==
  ASSUME NEW pos \in Nat, NEW bytes \in {<<>>, NULL}
  PROVE  pos - Len(<<>>) - (IF bytes = NULL THEN 0 ELSE Len(bytes)) = pos
<1>1. Len(<<>>) = 0
  BY Nothing
<1>2. (IF bytes = NULL THEN 0 ELSE Len(bytes)) = 0
  BY <1>1
<1>3. pos - 0 - 0 = pos
  OBVIOUS
<1> QED
  BY <1>1, <1>2, <1>3

-----------------------------------------------------------------------------
(* Whose turn it is. *)

LEMMA ServedHolds ==
  ASSUME ServerInv, ServiceInv, NEW c \in Clients, BeingServed(c)
  PROVE  fileMutex = c
<1>1. Exchange(c) /\ Placed(c)
  BY OwnTypes DEF ServiceInv
<1> QED
  BY <1>1 DEF BeingServed, Exchange, Placed, Busy

TurnShape ==
  /\ \A c \in Clients : BeingServed(c) => Turn = c /\ From = EchoFrom(c)
  /\ (\A c \in Clients : ~BeingServed(c)) => Turn = NULL /\ From = 0

LEMMA TurnHasShape == AllInv => TurnShape
<1> SUFFICES ASSUME AllInv PROVE TurnShape
  OBVIOUS
<1>1. ASSUME NEW c \in Clients, BeingServed(c)
      PROVE  Turn = c /\ From = EchoFrom(c)
  <2>1. \A d \in Clients : BeingServed(d) => d = c
    BY <1>1, ServedHolds DEF AllInv
  <2>2. Turn = c
    BY <1>1, <2>1 DEF Turn
  <2>3. c # NULL
    OBVIOUS
  <2> QED
    BY <2>2, <2>3 DEF From
<1>2. ASSUME \A c \in Clients : ~BeingServed(c)
      PROVE  Turn = NULL /\ From = 0
  BY <1>2 DEF Turn, From
<1> QED
  BY <1>1, <1>2 DEF TurnShape

\* What a step may do to the service of the client that takes it: nothing,
Stays(c) ==
  /\ BeingServed(c)' <=> BeingServed(c)
  /\ BeingServed(c) => EchoFrom(c)' = EchoFrom(c)
  /\ UNCHANGED <<LogOfRing, PendingOfBuffer, reply>>

\* add its line, or place it in the log,
Adds(c) ==
  /\ Data(c) \in Texts /\ (Extends(Data(c)) \/ Completes(Data(c)))
  /\ EchoFrom(c)' = 0

Seeks(c) ==
  /\ UNCHANGED <<LogOfRing, PendingOfBuffer>>
  /\ EchoFrom(c)' \in 0 .. Len(CL!Stream)

Starts(c) ==
  /\ fileMutex = c /\ ~BeingServed(c) /\ BeingServed(c)'
  /\ Adds(c) \/ Seeks(c)
  /\ UNCHANGED reply

\* or send it the rest of the log.
Finishes(c) ==
  /\ BeingServed(c) /\ ~BeingServed(c)'
  /\ UNCHANGED <<LogOfRing, PendingOfBuffer>>
  /\ reply' = [reply EXCEPT ![c] = UpToNul(SubSeq(CL!Stream, EchoFrom(c) + 1, Len(CL!Stream)))]

\* The others are served as before.
OthersStay(c) ==
  \A d \in Clients : d # c =>
    /\ (BeingServed(d)' <=> BeingServed(d))
    /\ BeingServed(d) => EchoFrom(d)' = EchoFrom(d)

LEMMA TurnKept ==
  ASSUME AllInv, TurnShape', NEW c, OthersStay(c), c \in Clients => Stays(c)
  PROVE  Turn' = Turn /\ From' = From
<1>1. TurnShape
  BY TurnHasShape
<1>2. \A d \in Clients :
        (BeingServed(d)' <=> BeingServed(d)) /\ (BeingServed(d) => EchoFrom(d)' = EchoFrom(d))
  BY DEF OthersStay, Stays
<1>3. ASSUME NEW d \in Clients, BeingServed(d) PROVE Turn' = Turn /\ From' = From
  BY <1>1, <1>2, <1>3 DEF TurnShape
<1>4. ASSUME \A d \in Clients : ~BeingServed(d) PROVE Turn' = Turn /\ From' = From
  BY <1>1, <1>2, <1>4 DEF TurnShape
<1> QED
  BY <1>3, <1>4

\* Where c is the one whose turn it becomes, or no longer is,
LEMMA TurnStarts ==
  ASSUME AllInv, TurnShape', NEW c \in Clients, OthersStay(c), Starts(c)
  PROVE  Turn = NULL /\ Turn' = c /\ From' = EchoFrom(c)'
<1>1. \A d \in Clients : ~BeingServed(d)
  <2> SUFFICES ASSUME NEW d \in Clients, BeingServed(d) PROVE FALSE
    OBVIOUS
  <2>1. fileMutex = d /\ fileMutex = c /\ ~BeingServed(c)
    BY ServedHolds DEF AllInv, Starts
  <2> QED
    BY <2>1
<1>2. Turn = NULL
  BY <1>1, TurnHasShape DEF TurnShape
<1>3. BeingServed(c)'
  BY DEF Starts
<1> QED
  BY <1>2, <1>3 DEF TurnShape

LEMMA TurnFinishes ==
  ASSUME AllInv, TurnShape', NEW c \in Clients, OthersStay(c), Finishes(c)
  PROVE  Turn = c /\ From = EchoFrom(c) /\ Turn' = NULL /\ From' = 0
<1>1. BeingServed(c) /\ ~BeingServed(c)'
  BY DEF Finishes
<1>2. Turn = c /\ From = EchoFrom(c)
  BY <1>1, TurnHasShape DEF TurnShape
<1>3. ASSUME NEW d \in Clients PROVE ~BeingServed(d)'
  <2>1. CASE d = c
    BY <1>1, <2>1
  <2>2. CASE d # c
    <3>1. fileMutex = c
      BY <1>1, ServedHolds DEF AllInv
    <3>2. ~BeingServed(d)
      BY <2>2, <3>1, ServedHolds DEF AllInv
    <3> QED
      BY <2>2, <3>2 DEF OthersStay
  <2> QED
    BY <2>1, <2>2
<1> QED
  BY <1>2, <1>3 DEF TurnShape

\* these are the steps of the promise.
LEMMA StaysIsStutter ==
  ASSUME AllInv, TurnShape', NEW c, OthersStay(c), c \in Clients => Stays(c),
         UNCHANGED <<LogOfRing, PendingOfBuffer, reply>>
  PROVE  UNCHANGED LS!vars
BY TurnKept DEF LS!vars

LEMMA AddsIsAddLine ==
  ASSUME AllInv, TurnShape', NEW c \in Clients, OthersStay(c), Starts(c), Adds(c)
  PROVE  \E message \in Texts : LS!AddLine(c, message)
<1> DEFINE message == Data(c)
           line == PendingOfBuffer \o message
<1>1. Turn = NULL /\ Turn' = c /\ From' = 0 /\ UNCHANGED reply /\ message \in Texts
  BY TurnStarts DEF Adds, Starts
<1>2. CASE Extends(message)
  <2>1. /\ Len(line) < MaxWriteSize /\ (message = <<>> \/ Last(message) # NL)
        /\ PendingOfBuffer' = line /\ UNCHANGED LogOfRing
    BY <1>2 DEF Extends
  <2> HIDE DEF message
  <2> QED
    BY <1>1, <2>1 DEF LS!AddLine, LS!Last, Last
<1>3. CASE Completes(message)
  <2>1. /\ Len(line) < MaxWriteSize
        /\ line = <<>> \/ (message # <<>> /\ Last(message) = NL)
        /\ LogOfRing' = LS!Appended(line) /\ PendingOfBuffer' = <<>>
    BY <1>3 DEF Completes, LS!Appended, CL!Appended
  <2> HIDE DEF message
  <2> QED
    BY <1>1, <2>1 DEF LS!AddLine, LS!Last, Last
<1> QED
  BY <1>2, <1>3 DEF Adds

LEMMA SeeksIsSeekTo ==
  ASSUME AllInv, TurnShape', NEW c \in Clients, OthersStay(c), Starts(c), Seeks(c)
  PROVE  LS!SeekTo(c)
<1>1. Turn = NULL /\ Turn' = c /\ From' \in 0 .. Len(LS!Stream) /\ UNCHANGED reply
  BY TurnStarts, SameStream DEF Seeks, Starts
<1> QED
  BY <1>1 DEF Seeks, LS!SeekTo

LEMMA FinishesIsAnswer ==
  ASSUME AllInv, TurnShape', NEW c \in Clients, OthersStay(c), Finishes(c)
  PROVE  LS!Answer(c)
<1> DEFINE rest == SubSeq(CL!Stream, EchoFrom(c) + 1, Len(CL!Stream))
<1>0. /\ CL!Stream \in Seq(Byte) /\ Exchange(c) /\ Placed(c) /\ f_pos[c] \in Nat
      /\ ubuf[c] \in Seq(Byte) /\ fileBuffer[c] \in Seq(Byte) \cup {NULL} /\ <<>> # NULL
  BY OwnTypes, Nothing, StreamShape DEF AllInv, ServiceInv, ServerInv
<1>1. Turn = c /\ From = EchoFrom(c) /\ Turn' = NULL /\ From' = 0
  BY TurnFinishes
<1>2. EchoFrom(c) \in Nat
  <2> DEFINE n == Len(fileBuffer[c])
             m == Len(ubuf[c])
             pos == f_pos[c]
  <2>1. CASE fileBuffer[c] = NULL
    <3>1. ubuf[c] = <<>>
      BY <1>0, <2>1 DEF Placed
    <3>2. pos - Len(<<>>) - (IF NULL = NULL THEN 0 ELSE Len(NULL)) = pos
      BY <1>0, EchoBegins
    <3> QED
      BY <1>0, <2>1, <3>1, <3>2 DEF EchoFrom
  <2>2. CASE fileBuffer[c] # NULL
    <3>1. n \in Nat /\ m \in Nat /\ pos \in Nat
      BY <1>0, <2>2, LenProperties
    <3>2. n + m <= pos
      BY <1>0, <2>2 DEF Exchange
    <3>3. EchoFrom(c) = pos - m - n
      BY <2>2 DEF EchoFrom
    <3> HIDE DEF n, m, pos
    <3>4. pos - m - n \in Nat
      BY <3>1, <3>2
    <3> QED
      BY <3>3, <3>4
  <2> QED
    BY <2>1, <2>2
<1>3. rest \in Seq(Byte)
  <2> DEFINE from == EchoFrom(c)
             len  == Len(CL!Stream)
  <2>1. \A i \in 1 .. len : CL!Stream[i] \in Byte
    BY <1>0
  <2>2. from \in Nat /\ len \in Nat
    BY <1>0, <1>2
  <2> HIDE DEF from, len
  <2>3. from + 1 \in Int /\ len \in Int /\ \A i \in from + 1 .. len : CL!Stream[i] \in Byte
    BY <2>1, <2>2
  <2>4. SubSeq(CL!Stream, from + 1, len) \in Seq(Byte)
    BY <2>3, SubSeqProperties
  <2> QED
    BY <2>4 DEF from, len
<1>4. UpToNul(rest) = LS!Sent(rest)
  BY <1>3, SentIsUpToNul
<1>5. rest = SubSeq(LS!Stream, From + 1, Len(LS!Stream))
  BY <1>1, SameStream
<1> QED
  BY <1>1, <1>4, <1>5 DEF Finishes, LS!Answer

-----------------------------------------------------------------------------
(* A step of one process, as the other clients see it. *)

LEMMA OthersSee ==
  ASSUME Writers \subseteq Clients, AllInv, NEW p \in Procs, DriverStep(p) \/ UNCHANGED vars,
         NEW d \in Clients, d # p, stage'[d] = stage[d], fileBuffer'[d] = fileBuffer[d],
         fileMutex' = fileMutex \/ fileMutex \in {p, NULL}
  PROVE  /\ Placed(d)' /\ (BeingServed(d)' <=> BeingServed(d))
         /\ BeingServed(d) => EchoFrom(d)' = EchoFrom(d)
<1>0. Inv /\ d \in Procs /\ d # NULL /\ Exchange(d) /\ Placed(d)
  BY OwnTypes DEF AllInv, ServerInv, ServiceInv
<1>1. Untouched(d) /\ ret'[d] = ret[d]
  BY <1>0, StepIsLocal, RetStays DEF Untouched, vars, callVars
<1>2. stage[d] \in {"device", "echo", "reply"} => UNCHANGED CL!Stream
  <2>1. CASE aesd_write(p)
    <3>1. fileMutex = p
      BY <2>1, WriterHolds DEF AllInv
    <3> QED
      BY <1>0, <3>1 DEF Exchange, Busy
  <2>2. CASE DriverStep(p) /\ ~aesd_write(p)
    BY <2>2, DeviceLeft, StreamStays
  <2>3. CASE UNCHANGED vars
    BY <2>3, LogUntouched, StreamStays DEF vars, devVars
  <2> QED
    BY <2>1, <2>2, <2>3
<1>3. fileMutex = d => fileMutex' = d
  BY <1>0
<1>4. EchoFrom(d)' = EchoFrom(d)
  BY <1>1 DEF EchoFrom, Untouched
<1>5. BeingServed(d)' <=> BeingServed(d)
  BY <1>1 DEF BeingServed, Untouched
<1>6. stage[d] \in {"echo", "reply"} /\ Echoed(d) => Echoed(d)'
  BY <1>1, <1>2, <1>4 DEF Echoed, Untouched
<1>7. Placed(d)'
  BY <1>0, <1>1, <1>2, <1>3, <1>6 DEF Placed, Untouched, Data
<1> QED
  BY <1>4, <1>5, <1>7

-----------------------------------------------------------------------------
(* A client's own steps. *)

Own(c) == Placed(c)' /\ (Stays(c) \/ Starts(c) \/ Finishes(c))

LEMMA QuietOwn ==
  ASSUME AllInv, NEW c \in Clients,
         \/ LockFile(c) \/ Receive(c) \/ ReceiveEnds(c) \/ ReceiveNoMem(c)
         \/ ReceiveCrashes(c) \/ SeekCrashes(c) \/ UnlockFile(c)
  PROVE  Own(c)
<1>0. Exchange(c) /\ Placed(c) /\ stage \in [Clients -> Stages] /\ <<>> # NULL
  BY OwnTypes, Nothing DEF AllInv, ServiceInv
<1>1. /\ UNCHANGED vars /\ UNCHANGED <<fileBuffer, reply>>
      /\ stage[c] \in {"lock", "receive", "use", "unlock"}
      /\ stage'[c] \in {"receive", "use", "unlock", "crashed", "done"}
      /\ stage'[c] \in {"receive", "use"} => stage[c] \in {"lock", "receive"}
      /\ stage'[c] = "crashed" => stage[c] \in {"receive", "use"}
  BY <1>0 DEF LockFile, Receive, ReceiveEnds, ReceiveNoMem, ReceiveCrashes, SeekCrashes,
              UnlockFile, Go
<1>2. UNCHANGED <<LogOfRing, PendingOfBuffer>>
  BY <1>1, LogUntouched DEF vars, devVars, PendingOfBuffer
<1>3. stage'[c] = "crashed" => fileBuffer'[c] # NULL
  BY <1>0, <1>1 DEF Exchange
<1>4. ~BeingServed(c) /\ ~BeingServed(c)'
  BY <1>0, <1>1, <1>3 DEF BeingServed
<1>5. Placed(c)'
  BY <1>0, <1>1, <1>3 DEF Placed, vars, callVars, Data
<1> QED
  BY <1>1, <1>2, <1>4, <1>5 DEF Own, Stays

LEMMA ReplyOwn ==
  ASSUME AllInv, NEW c \in Clients, Reply(c)
  PROVE  Own(c)
<1>0. /\ Exchange(c) /\ Placed(c) /\ stage \in [Clients -> Stages]
      /\ fileBuffer \in [Clients -> Seq(Byte) \cup {NULL}]
  BY OwnTypes DEF AllInv, ServiceInv
<1>1. /\ UNCHANGED vars /\ UNCHANGED fileBuffer /\ stage[c] = "reply" /\ stage'[c] = "unlock"
      /\ reply' = [reply EXCEPT ![c] = UpToNul(fileBuffer[c])]
  BY <1>0 DEF Reply, Go
<1>2. UNCHANGED <<LogOfRing, PendingOfBuffer>>
  BY <1>1, LogUntouched DEF vars, devVars, PendingOfBuffer
<1>3. BeingServed(c) /\ ~BeingServed(c)'
  BY <1>1 DEF BeingServed
<1>4. /\ fileBuffer[c] \in Seq(Byte) /\ fileBuffer[c] # NULL
      /\ ubuf[c] = <<>> /\ f_pos[c] = Len(CL!Stream) /\ Echoed(c)
  BY <1>0, <1>1 DEF Placed, Exchange
<1>5. fileBuffer[c] = SubSeq(CL!Stream, EchoFrom(c) + 1, Len(CL!Stream))
  <2>1. fileBuffer[c] \o ubuf[c] = fileBuffer[c]
    BY <1>4, ConcatEmptySeq
  <2> QED
    BY <1>4, <2>1 DEF Echoed
<1>6. Placed(c)'
  BY <1>0, <1>1, <1>4 DEF Placed, vars, callVars, Data
<1> QED
  BY <1>1, <1>2, <1>3, <1>4, <1>5, <1>6 DEF Own, Finishes

LEMMA CallOwn ==
  ASSUME AllInv, NEW c \in Clients,
         StartClient(c) \/ WriteMessage(c) \/ SeekDevice(c) \/ EchoRead(c)
  PROVE  Own(c)
<1>0. /\ Exchange(c) /\ Placed(c) /\ stage \in [Clients -> Stages] /\ <<>> # NULL
      /\ pc \in [Procs -> InCall \cup {"closed", "idle", "done"}] /\ c \in Procs
      /\ req \in [Procs -> Request] /\ f_pos \in [Procs -> Nat]
      /\ CL!Stream \in Seq(Byte) /\ Len(CL!Stream) \in Nat
      /\ pc[c] \in {"closed", "idle"} <=> req[c].op = "none"
  BY OwnTypes, Nothing, StreamShape DEF AllInv, ServiceInv, ServerInv
<1>1. UNCHANGED devVars /\ UNCHANGED <<fileMutex, fileBuffer, reply, ubuf>>
  BY DEF StartClient, WriteMessage, SeekDevice, EchoRead, aesd_open, Call, callVars, threadVars
<1>2. UNCHANGED <<LogOfRing, PendingOfBuffer>> /\ UNCHANGED CL!Stream
  BY <1>1, LogUntouched, StreamStays DEF devVars, PendingOfBuffer
<1>3. CASE StartClient(c)
  <2>1. /\ stage[c] = "away" /\ stage'[c] = "lock" /\ f_pos'[c] = 0 /\ UNCHANGED req
        /\ req[c].op = "none" /\ fileBuffer[c] = <<>>
    BY <1>0, <1>3 DEF StartClient, Go, aesd_open, Goto, callVars, Exchange
  <2>2. ~BeingServed(c) /\ ~BeingServed(c)'
    BY <2>1 DEF BeingServed
  <2>3. Placed(c)'
    BY <1>0, <1>1, <2>1 DEF Placed
  <2> QED
    BY <1>1, <1>2, <2>2, <2>3 DEF Own, Stays
<1>4. ASSUME NEW r, Call(c, r), Go(c, "use", "device"),
             r.op = "write" => r.data \in Texts, r.op # "read"
      PROVE  Own(c)
  <2>1. /\ stage[c] = "use" /\ stage'[c] = "device" /\ f_pos[c] = 0 /\ UNCHANGED f_pos
        /\ pc[c] = "idle" /\ pc'[c] = "waiting" /\ req'[c] = r /\ fileBuffer[c] = <<>>
    BY <1>0, <1>4 DEF Go, Call, Goto, Exchange, Placed
  <2>2. ~BeingServed(c) /\ ~BeingServed(c)'
    BY <2>1 DEF BeingServed
  <2>3. f_pos'[c] <= (Len(CL!Stream))'
    BY <1>0, <1>2, <2>1
  <2>4. Placed(c)'
    BY <1>0, <1>1, <1>4, <2>1, <2>3 DEF Placed, Data
  <2> QED
    BY <1>1, <1>2, <2>2, <2>4 DEF Own, Stays
<1>5. CASE WriteMessage(c)
  <2> DEFINE r == [op |-> "write", data |-> Text(c), write_count |-> WriteCount(Len(Text(c)))]
  <2>1. Text(c) \in Texts
    <3>1. PICK s \in Sends : \E n \in 0 .. Len(s) : buffer[c] = SubSeq(s, 1, n)
      BY DEF AllInv, ServiceInv, Received
    <3>2. PICK n \in 0 .. Len(s) : buffer[c] = SubSeq(s, 1, n)
      BY <3>1
    <3>3. \A i \in 1 .. Len(Text(c)) : Text(c)[i] # SEEK
      BY <1>5 DEF WriteMessage, SeekAt
    <3>4. Text(c) = UpToNul(SubSeq(s, 1, n))
      BY <3>2 DEF Text
    <3> QED
      BY <3>3, <3>4 DEF Texts
  <2>2. r.op = "write" /\ r.data \in Texts /\ Call(c, r) /\ Go(c, "use", "device")
    BY <1>5, <2>1 DEF WriteMessage
  <2> HIDE DEF r
  <2> QED
    BY <1>4, <2>2
<1>6. CASE SeekDevice(c)
  <2>1. PICK cmd \in 0 .. MaxOps, offset \in SeekOffsets :
          Call(c, [op |-> "ioctl", write_cmd |-> cmd, write_cmd_offset |-> offset])
    BY <1>6 DEF SeekDevice
  <2> QED
    BY <1>4, <1>6, <2>1 DEF SeekDevice
<1>7. CASE EchoRead(c)
  <2>1. /\ stage[c] = "echo" /\ UNCHANGED threadVars /\ UNCHANGED f_pos
        /\ pc[c] = "idle" /\ pc'[c] = "waiting" /\ req'[c] = [op |-> "read", count |-> FSIZE]
    BY <1>0, <1>7 DEF EchoRead, Call, Goto
  <2>2. BeingServed(c) /\ BeingServed(c)' /\ EchoFrom(c)' = EchoFrom(c)
    BY <1>1, <2>1 DEF BeingServed, EchoFrom, threadVars
  <2>3. Echoed(c) => Echoed(c)'
    BY <1>1, <1>2, <2>1, <2>2 DEF Echoed
  <2>4. Placed(c)'
    BY <1>0, <1>1, <1>2, <2>1, <2>3 DEF Placed, threadVars
  <2> QED
    BY <1>1, <1>2, <2>2, <2>4 DEF Own, Stays
<1> QED
  BY <1>3, <1>5, <1>6, <1>7

LEMMA DoneOwn ==
  ASSUME AllInv, NEW c \in Clients,
         DeviceDone(c) \/ EchoDone(c) \/ EchoRetries(c) \/ EchoCrashes(c)
  PROVE  Own(c)
<1>0. /\ Exchange(c) /\ Placed(c) /\ stage \in [Clients -> Stages] /\ c \in Procs
      /\ pc \in [Procs -> InCall \cup {"closed", "idle", "done"}]
      /\ req \in [Procs -> Request] /\ f_pos \in [Procs -> Nat] /\ ret \in [Procs -> Int]
      /\ ubuf \in [Procs -> Seq(Byte)] /\ fileBuffer \in [Clients -> Seq(Byte) \cup {NULL}]
      /\ CL!Stream \in Seq(Byte) /\ Len(CL!Stream) \in Nat
      /\ <<>> # NULL /\ Len(<<>>) = 0
  BY OwnTypes, Nothing, StreamShape DEF AllInv, ServiceInv, ServerInv
<1>1. /\ UNCHANGED <<devVars, f_pos, fileMutex, reply>> /\ pc[c] = "done" /\ pc'[c] = "idle"
      /\ req'[c] = NoReq /\ ubuf'[c] = <<>>
  BY <1>0 DEF DeviceDone, EchoDone, EchoRetries, EchoCrashes, Finish, Goto, threadVars
<1>2. UNCHANGED <<LogOfRing, PendingOfBuffer>> /\ UNCHANGED CL!Stream
  BY <1>1, LogUntouched, StreamStays DEF devVars, PendingOfBuffer
<1>3. CASE DeviceDone(c)
  <2>1. PICK bytes \in {<<>>, NULL} : fileBuffer' = [fileBuffer EXCEPT ![c] = bytes]
    BY <1>3 DEF DeviceDone
  <2>2. /\ stage[c] = "device" /\ fileBuffer'[c] = bytes /\ fileBuffer[c] = <<>>
        /\ stage'[c] = IF ret[c] < 0 THEN "unlock" ELSE "echo"
    BY <1>0, <1>3, <2>1 DEF DeviceDone, Go, Exchange
  <2>3. ubuf[c] = <<>>
    BY <1>0, <2>2 DEF Exchange
  <2>4. EchoFrom(c) = f_pos[c] /\ EchoFrom(c)' = f_pos[c]
    <3>1. /\ f_pos[c] - Len(<<>>) - (IF bytes = NULL THEN 0 ELSE Len(bytes)) = f_pos[c]
          /\ f_pos[c] - Len(<<>>) - (IF <<>> = NULL THEN 0 ELSE Len(<<>>)) = f_pos[c]
      BY <1>0, EchoBegins
    <3> QED
      BY <1>1, <2>2, <2>3, <3>1 DEF EchoFrom
  <2>5. BeingServed(c)' <=> BeingServed(c)
    BY <1>0, <1>1, <2>2 DEF BeingServed
  <2>6. bytes # NULL => Echoed(c)'
    <3>1. SubSeq(CL!Stream, f_pos[c] + 1, f_pos[c]) = <<>>
      <4>1. f_pos[c] \in Nat
        BY <1>0
      <4>2. f_pos[c] <= Len(CL!Stream)
        BY <1>0, <2>2 DEF Placed
      <4> DEFINE none == SubSeq(CL!Stream, f_pos[c] + 1, f_pos[c])
      <4>3. none \in Seq(Byte) /\ Len(none) = f_pos[c] - f_pos[c]
        BY <1>0, <4>1, <4>2, Part
      <4> HIDE DEF none
      <4>4. Len(none) = 0
        BY <4>1, <4>3
      <4>5. none = <<>>
        BY <4>3, <4>4
      <4> QED
        BY <4>5 DEF none
    <3>2. <<>> \o <<>> = <<>>
      BY Nothing, ConcatEmptySeq
    <3> QED
      BY <1>1, <1>2, <2>2, <2>4, <3>1, <3>2 DEF Echoed
  <2>7. Placed(c)'
    BY <1>0, <1>1, <1>2, <2>2, <2>6 DEF Placed, NoReq
  <2> QED
    BY <1>1, <1>2, <2>4, <2>5, <2>7 DEF Own, Stays
<1>4. CASE EchoDone(c)
  <2>1. /\ stage[c] = "echo" /\ fileBuffer[c] # NULL /\ fileBuffer[c] \in Seq(Byte)
        /\ fileBuffer'[c] = fileBuffer[c] \o ubuf[c] /\ ubuf[c] \in Seq(Byte)
        /\ stage'[c] = IF EchoEnd(c) THEN "reply" ELSE "echo"
    BY <1>0, <1>4 DEF EchoDone, Go
  <2>2. ret[c] = Len(ubuf[c]) /\ (ret[c] = 0 => f_pos[c] = Len(CL!Stream)) /\ Echoed(c)
    BY <1>0, <1>1, <2>1 DEF Placed
  <2>3. Len(fileBuffer[c]) + Len(ubuf[c]) < FSIZE
    BY <2>1, EchoHasRoom DEF AllInv, EchoFits
  <2>4. EchoEnd(c) => ret[c] = 0
    <3> DEFINE n == Len(fileBuffer[c])
               m == Len(ubuf[c])
    <3>1. n \in Nat /\ m \in Nat
      BY <2>1, LenProperties
    <3>2. n + m < FSIZE
      BY <2>3
    <3> HIDE DEF n, m
    <3>3. ~(n + m >= FSIZE)
      BY <3>1, <3>2
    <3> QED
      BY <2>2, <3>3 DEF EchoEnd, n, m
  <2>5. /\ fileBuffer'[c] \in Seq(Byte) /\ fileBuffer'[c] # NULL
        /\ fileBuffer'[c] \o <<>> = fileBuffer'[c]
    <3>1. fileBuffer[c] \o ubuf[c] \in Seq(Byte)
      BY <2>1, ConcatProperties
    <3> QED
      BY <2>1, <3>1, ConcatEmptySeq
  <2>6. EchoFrom(c)' = EchoFrom(c)
    <3> DEFINE n == Len(fileBuffer[c])
               m == Len(ubuf[c])
               pos == f_pos[c]
    <3>1. n \in Nat /\ m \in Nat /\ pos \in Nat
      BY <1>0, <2>1
    <3>2. Len(fileBuffer'[c]) = n + m
      BY <2>1, ConcatProperties
    <3> HIDE DEF n, m, pos
    <3>3. pos - 0 - (n + m) = pos - m - n
      BY <3>1
    <3>4. EchoFrom(c) = pos - m - n
      BY <2>1 DEF EchoFrom, n, m, pos
    <3>5. EchoFrom(c)' = pos - 0 - (n + m)
      BY <1>0, <1>1, <2>5, <3>2 DEF EchoFrom, pos
    <3> QED
      BY <3>3, <3>4, <3>5
  <2>7. BeingServed(c) /\ BeingServed(c)'
    BY <2>1 DEF BeingServed
  <2>8. Echoed(c)'
    BY <1>1, <1>2, <2>1, <2>2, <2>5, <2>6 DEF Echoed
  <2>9. Placed(c)'
    BY <1>0, <1>1, <1>2, <2>1, <2>2, <2>4, <2>5, <2>8 DEF Placed, NoReq
  <2> QED
    BY <1>1, <1>2, <2>6, <2>7, <2>9 DEF Own, Stays
<1>5. CASE EchoRetries(c) \/ EchoCrashes(c)
  <2>1. /\ stage[c] = "echo" /\ UNCHANGED <<fileBuffer, input, buffer>>
        /\ stage'[c] \in {"echo", "crashed"} /\ fileBuffer[c] = NULL
    <3>1. CASE EchoCrashes(c)
      BY <1>0, <3>1 DEF EchoCrashes, Go
    <3>2. CASE EchoRetries(c)
      <4>1. stage[c] = "echo" /\ ret[c] < 0 /\ UNCHANGED threadVars
        BY <3>2 DEF EchoRetries
      <4>2. fileBuffer[c] # NULL => ret[c] = Len(ubuf[c])
        BY <1>0, <1>1, <4>1 DEF Placed
      <4>3. Len(ubuf[c]) >= 0
        BY <1>0
      <4> QED
        BY <4>1, <4>2, <4>3 DEF threadVars
    <3> QED
      BY <1>5, <3>1, <3>2
  <2>2. ubuf[c] = <<>>
    BY <1>0, <2>1 DEF Placed
  <2>3. EchoFrom(c)' = EchoFrom(c)
    BY <1>1, <2>1, <2>2 DEF EchoFrom
  <2>4. BeingServed(c) /\ BeingServed(c)'
    BY <2>1 DEF BeingServed
  <2>5. fileMutex = c
    BY <1>0, <2>1 DEF Exchange, Busy
  <2>6. Placed(c)'
    BY <1>0, <1>1, <1>2, <2>1, <2>5 DEF Placed, NoReq
  <2> QED
    BY <1>1, <1>2, <2>3, <2>4, <2>6 DEF Own, Stays
<1> QED
  BY <1>3, <1>4, <1>5

-----------------------------------------------------------------------------
(* The driver's part. *)

\* A write that goes on does not move the client, and is its turn.
LEMMA WriteOwn ==
  ASSUME AllInv, Inv', NEW c \in Clients, UNCHANGED threadVars,
         WriteRefused(c) \/ WriteHeld(c) \/ WriteNoMem(c) \/ WriteCommitted(c) \/ WriteOops(c)
  PROVE  Own(c) /\ (Stays(c) \/ Adds(c))
<1>a. aesd_write(c)
  BY DEF aesd_write
<1>0. /\ Exchange(c) /\ Placed(c) /\ c \in Procs /\ Inv /\ WriterInv
      /\ pc \in [Procs -> InCall \cup {"closed", "idle", "done"}] /\ ret \in [Procs -> Int]
      /\ f_pos \in [Procs -> Nat] /\ <<>> # NULL /\ Len(<<>>) = 0
  BY OwnTypes, Nothing DEF AllInv, ServiceInv, ServerInv
<1>1. /\ pc[c] = "locked" /\ req[c].op = "write" /\ stage[c] = "device" /\ fileMutex = c
      /\ f_pos[c] = 0 /\ Data(c) \in Texts /\ fileBuffer[c] = <<>> /\ ubuf[c] = <<>>
  BY <1>0, <1>a, WriteHolds DEF Holds, Exchange, Placed, Busy
<1>2. UNCHANGED <<f_pos, ubuf, req, stage, fileMutex, fileBuffer, reply>>
  BY DEF WriteRefused, WriteHeld, WriteNoMem, WriteCommitted,
         WriteOops, Return, callVars, threadVars
<1>3. (CL!Stream \in Seq(Byte) /\ Len(CL!Stream) \in Nat)'
  BY StreamShape, PTL
<1>4. Placed(c)'
  <2>1. 0 <= Len(CL!Stream)'
    BY <1>3
  <2> QED
    BY <1>0, <1>1, <1>2, <2>1 DEF Placed, Data
<1>5. ~BeingServed(c)
  BY <1>1 DEF BeingServed
<1>6. CASE WriteHeld(c) \/ WriteCommitted(c)
  <2>1. pc'[c] = "out" /\ ret'[c] >= 0
    <3>1. pc'[c] = "out" /\ ret'[c] = Count(c)
      BY <1>0, <1>6 DEF WriteHeld, WriteCommitted, Return
    <3>2. Count(c) \in Nat
      BY <1>0, <1>1, RequestType DEF Inv
    <3> QED
      BY <3>1, <3>2
  <2>2. BeingServed(c)'
    BY <1>1, <1>2, <2>1 DEF BeingServed
  <2>3. EchoFrom(c)' = 0
    <3>1. 0 - Len(<<>>) - (IF <<>> = NULL THEN 0 ELSE Len(<<>>)) = 0
      BY EchoBegins
    <3> QED
      BY <1>1, <1>2, <3>1 DEF EchoFrom
  <2>4. Extends(Data(c)) \/ Completes(Data(c))
    <3>1. WriteHeld(c) => Extends(Data(c))
      BY <1>0, <1>a, WriteEffect
    <3>2. WriteCommitted(c) => Completes(Data(c))
      BY <1>0, <1>a, WriteEffect
    <3> QED
      BY <1>6, <3>1, <3>2
  <2> QED
    BY <1>1, <1>2, <1>4, <1>5, <2>2, <2>3, <2>4 DEF Own, Starts, Adds
<1>7. CASE WriteRefused(c) \/ WriteNoMem(c) \/ WriteOops(c)
  <2>1. pc'[c] = "killed" \/ (pc'[c] = "out" /\ ~(ret'[c] >= 0))
    BY <1>0, <1>7 DEF WriteRefused, WriteNoMem, WriteOops, Goto, Return, EINVAL, ENOMEM
  <2>2. ~BeingServed(c)'
    BY <1>1, <1>2, <2>1 DEF BeingServed
  <2>3. UNCHANGED LogOfRing /\ UNCHANGED PendingOfBuffer
    <3>1. ~WriteCommitted(c) /\ ~WriteHeld(c)
      <4>1. WriteHeld(c) \/ WriteCommitted(c) => pc'[c] = "out" /\ ret'[c] = Count(c)
        BY <1>0 DEF WriteHeld, WriteCommitted, Return
      <4>2. Count(c) \in Nat
        BY <1>0, <1>1, RequestType DEF Inv
      <4> QED
        BY <2>1, <4>1, <4>2
    <3> QED
      BY <1>0, <1>a, <3>1, WriteEffect
  <2> QED
    BY <1>2, <1>4, <1>5, <2>2, <2>3 DEF Own, Stays
<1> QED
  BY <1>6, <1>7

\* A read takes the bytes behind those that were read before, or none at the
\* end of the log.
LEMMA ReadOwn ==
  ASSUME AllInv, NEW c \in Clients, UNCHANGED threadVars,
         \/ ReadNothing(c)
         \/ fileBuffer[c] # NULL /\ ReadBytes(c)
         \/ fileBuffer[c] = NULL /\ ReadFault(c)
  PROVE  Own(c)
<1>0. /\ Exchange(c) /\ Placed(c) /\ c \in Procs /\ Inv
      /\ pc \in [Procs -> InCall \cup {"closed", "idle", "done"}] /\ ret \in [Procs -> Int]
      /\ f_pos \in [Procs -> Nat] /\ ubuf \in [Procs -> Seq(Byte)]
      /\ fileBuffer \in [Clients -> Seq(Byte) \cup {NULL}]
      /\ CL!Stream \in Seq(Byte) /\ Len(CL!Stream) \in Nat /\ Len(<<>>) = 0
  BY OwnTypes, Nothing, StreamShape DEF AllInv, ServiceInv, ServerInv
<1>1. /\ pc[c] = "locked" /\ req[c].op = "read" /\ stage[c] = "echo" /\ ubuf[c] = <<>>
      /\ pc'[c] = "out" /\ UNCHANGED <<devVars, req>> /\ f_pos[c] <= Len(CL!Stream)
      /\ UNCHANGED <<stage, fileMutex, fileBuffer, reply>>
  BY <1>0 DEF ReadNothing, ReadBytes, ReadFault, Holds, Return, Exchange, Placed, threadVars
<1>2. UNCHANGED <<LogOfRing, PendingOfBuffer>> /\ UNCHANGED CL!Stream
  BY <1>1, LogUntouched, StreamStays DEF devVars, PendingOfBuffer
<1>3. BeingServed(c) /\ BeingServed(c)'
  BY <1>1 DEF BeingServed
<1>4. CASE ReadNothing(c)
  <2>1. UNCHANGED <<f_pos, ubuf>> /\ ret'[c] = 0
    BY <1>0, <1>4 DEF ReadNothing, Return
  <2>2. f_pos[c] = Len(CL!Stream)
    <3>1. req[c].count = 0 \/ f_pos'[c] >= Stored
      BY <1>0, <1>1, <1>4, <2>1, ReadBody DEF Body, aesd_read
    <3>2. req[c].count = FSIZE /\ FSIZE # 0
      <4>1. req[c].count = FSIZE
        BY <1>0, <1>1 DEF Placed
      <4>2. Room \in Nat /\ Room < FSIZE
        BY DEF Room
      <4> QED
        BY <4>1, <4>2
    <3>3. Stored = Len(CL!Stream)
      BY <1>0, StreamIsStored
    <3> QED
      BY <1>0, <1>1, <2>1, <3>1, <3>2, <3>3
  <2>3. EchoFrom(c)' = EchoFrom(c)
    BY <1>1, <2>1 DEF EchoFrom
  <2>4. Placed(c)'
    BY <1>0, <1>1, <1>2, <2>1, <2>2, <2>3 DEF Placed, Echoed, Data
  <2> QED
    BY <1>1, <1>2, <1>3, <2>3, <2>4 DEF Own, Stays
<1>5. CASE fileBuffer[c] = NULL /\ ReadFault(c)
  <2>1. UNCHANGED <<f_pos, ubuf>>
    BY <1>5 DEF ReadFault
  <2>2. EchoFrom(c)' = EchoFrom(c)
    BY <1>1, <2>1 DEF EchoFrom
  <2>3. Placed(c)'
    BY <1>0, <1>1, <1>2, <1>5, <2>1 DEF Placed, Data
  <2> QED
    BY <1>1, <1>2, <1>3, <2>2, <2>3 DEF Own, Stays
<1>6. CASE fileBuffer[c] # NULL /\ ReadBytes(c)
  <2> DEFINE n    == BytesToCopy(c)
             pos  == f_pos[c]
             have == Len(fileBuffer[c])
             more == SubSeq(CL!Stream, pos + 1, pos + n)
  <2>1. /\ n \in 1 .. req[c].count /\ pos + n <= Len(CL!Stream)
        /\ ubuf'[c] = more /\ f_pos'[c] = pos + n
    BY <1>0, <1>6, ReadEffect
  <2>2. req[c].count \in Nat
    BY <1>0, <1>1, RequestType DEF Inv
  <2>3. /\ n \in Nat /\ n > 0 /\ pos \in Nat /\ have \in Nat /\ have <= pos
        /\ fileBuffer[c] \in Seq(Byte) /\ fileBuffer[c] # NULL
    <3>1. n \in Nat /\ n > 0
      <4> HIDE DEF n
      <4> QED
        BY <2>1, <2>2
    <3>2. fileBuffer[c] \in Seq(Byte) /\ fileBuffer[c] # NULL /\ pos \in Nat
      BY <1>0, <1>6
    <3>3. have \in Nat
      BY <3>2
    <3>4. have + 0 <= pos
      BY <1>0, <1>1, <3>2 DEF Exchange
    <3> HIDE DEF n, have, pos
    <3>5. have <= pos
      BY <3>3, <3>4
    <3> QED
      BY <3>1, <3>2, <3>3, <3>5
  <2>4. ret'[c] = n
    BY <1>0, <1>6 DEF ReadBytes, Return
  <2>5. more \in Seq(Byte) /\ Len(more) = n
    <3> HIDE DEF n, pos
    <3>1. pos + n \in Nat /\ pos <= pos + n /\ (pos + n) - pos = n
      BY <2>3
    <3> QED
      BY <1>0, <2>1, <2>3, <3>1, Part
  <2>6. EchoFrom(c) = pos - have /\ EchoFrom(c)' = pos - have
    <3>1. EchoFrom(c) = pos - 0 - have
      BY <1>0, <1>1, <2>3 DEF EchoFrom
    <3>2. EchoFrom(c)' = (pos + n) - n - have
      BY <1>1, <2>1, <2>3, <2>5 DEF EchoFrom
    <3> HIDE DEF pos, n, have
    <3>3. pos - 0 - have = pos - have /\ (pos + n) - n - have = pos - have
      BY <2>3
    <3> QED
      BY <3>1, <3>2, <3>3
  <2>7. fileBuffer[c] = SubSeq(CL!Stream, pos - have + 1, pos)
    <3>1. Echoed(c)
      BY <1>0, <1>1, <2>3 DEF Placed
    <3>2. fileBuffer[c] \o ubuf[c] = fileBuffer[c]
      BY <1>1, <2>3, ConcatEmptySeq
    <3> QED
      BY <2>6, <3>1, <3>2 DEF Echoed
  <2>8. SubSeq(CL!Stream, pos - have + 1, pos) \o more = SubSeq(CL!Stream, pos - have + 1, pos + n)
    <3> DEFINE a == pos - have
               e == pos + n
    <3> HIDE DEF pos, n, have
    <3>1. a \in Nat /\ e \in Nat /\ a <= pos /\ pos <= e /\ e <= Len(CL!Stream)
      BY <2>1, <2>3
    <3> HIDE DEF a, e
    <3>2. SubSeq(CL!Stream, a + 1, pos) \o SubSeq(CL!Stream, pos + 1, e) = SubSeq(CL!Stream, a + 1, e)
      BY <1>0, <2>3, <3>1, PartsJoin
    <3> QED
      BY <3>2 DEF a, e
  <2>9. Echoed(c)'
    BY <1>1, <1>2, <2>1, <2>6, <2>7, <2>8 DEF Echoed
  <2>10. ret'[c] = Len(ubuf'[c]) /\ ret'[c] # 0
    <3> HIDE DEF n, more
    <3> QED
      BY <2>1, <2>3, <2>4, <2>5
  <2>11. f_pos'[c] <= Len(CL!Stream)'
    BY <1>2, <2>1
  <2>12. Placed(c)'
    <3> HIDE DEF n, pos, have, more
    <3> QED
      BY <1>0, <1>1, <1>2, <2>3, <2>9, <2>10, <2>11 DEF Placed, Data
  <2> QED
    BY <1>1, <1>2, <1>3, <2>6, <2>12 DEF Own, Stays
<1> QED
  BY <1>4, <1>5, <1>6

LEMMA FoundInside ==
  ASSUME Inv, NEW pos \in Nat, FindEntry(circular_buffer, pos) # NotFound
  PROVE  pos <= Len(CL!Stream)
<1> DEFINE buf   == circular_buffer
           turns == Iterations(buf, buf.in_offs)
<1>1. ~IsEmpty(buf) /\ NoHoles(buf) /\ buf.in_offs \in Slots /\ buf.out_offs \in Slots
  BY RingHasNoHoles, RingType DEF FindEntry, Inv
<1>2. PICK k \in 0 .. turns - 1 : TotalSize(buf, k + 1) > pos
  BY <1>1 DEF FindEntry, Hits
<1>3. turns \in 1 .. MaxOps
  BY <1>1, IterationsType
<1> DEFINE next == TotalSize(buf, k + 1)
           all  == TotalSize(buf, turns)
<1>4. k + 1 \in Int /\ turns \in Int /\ k + 1 <= turns
  <2> HIDE DEF turns
  <2> QED
    BY <1>2, <1>3
<1>5. next <= all /\ next \in Nat /\ all \in Nat
  <2> HIDE DEF turns
  <2> QED
    BY <1>4, TotalSizeMonotone, TotalSizeType
<1>6. Len(CL!Stream) = all
  BY <1>1, StreamIsStored, WholeRing DEF Stored
<1>7. next > pos
  BY <1>2
<1> HIDE DEF next, all
<1>8. pos <= all
  BY <1>5, <1>7
<1> QED
  BY <1>6, <1>8

LEMMA SeekOwn ==
  ASSUME AllInv, Inv', NEW c \in Clients, UNCHANGED threadVars, aesd_adjust_file_offset(c)
  PROVE  Own(c)
<1>0. /\ Exchange(c) /\ Placed(c) /\ c \in Procs /\ Inv
      /\ pc \in [Procs -> InCall \cup {"closed", "idle", "done"}] /\ ret \in [Procs -> Int]
      /\ f_pos \in [Procs -> Nat] /\ f_pos' \in [Procs -> Nat] /\ <<>> # NULL
      /\ Len(CL!Stream) \in Nat
  BY OwnTypes, Nothing, StreamShape DEF AllInv, ServiceInv, ServerInv, Inv, TypeOK
<1>1. /\ pc[c] = "locked" /\ req[c].op = "ioctl" /\ stage[c] = "device" /\ fileMutex = c
      /\ ubuf[c] = <<>> /\ fileBuffer[c] = <<>> /\ f_pos[c] <= Len(CL!Stream)
      /\ UNCHANGED <<devVars, req, ubuf, stage, fileMutex, fileBuffer, reply>>
      /\ pc'[c] = "out"
  BY <1>0 DEF aesd_adjust_file_offset, Holds, Return, Exchange, Placed, Busy, threadVars
<1>2. UNCHANGED <<LogOfRing, PendingOfBuffer>> /\ UNCHANGED CL!Stream
  BY <1>1, LogUntouched, StreamStays DEF devVars, PendingOfBuffer
<1>3. ~BeingServed(c)
  BY <1>1 DEF BeingServed
<1>4. CASE ret'[c] >= 0
  <2>1. f_pos'[c] \in Nat /\ f_pos'[c] <= Len(CL!Stream)
    <3>1. FindEntry(circular_buffer', f_pos'[c]) =
            [slot |-> req[c].write_cmd, offset |-> req[c].write_cmd_offset]
      BY <1>0, <1>1, <1>4, SeekToBody DEF Body
    <3>2. req[c].write_cmd # -1
      BY <1>0, <1>1, RequestType DEF Inv
    <3>3. FindEntry(circular_buffer, f_pos'[c]) # NotFound
      BY <1>1, <3>1, <3>2 DEF NotFound, devVars
    <3>4. f_pos'[c] \in Nat
      BY <1>0
    <3> QED
      BY <1>0, <3>3, <3>4, FoundInside
  <2>2. Placed(c)'
    BY <1>0, <1>1, <1>2, <2>1 DEF Placed
  <2>3. BeingServed(c)'
    BY <1>1, <1>4 DEF BeingServed
  <2>4. EchoFrom(c)' = f_pos'[c]
    <3>1. f_pos'[c] - Len(<<>>) - (IF <<>> = NULL THEN 0 ELSE Len(<<>>)) = f_pos'[c]
      BY <2>1, EchoBegins
    <3> QED
      BY <1>1, <3>1 DEF EchoFrom
  <2>5. EchoFrom(c)' \in 0 .. Len(CL!Stream)
    BY <1>0, <2>1, <2>4
  <2> QED
    BY <1>1, <1>2, <1>3, <2>2, <2>3, <2>5 DEF Own, Starts, Seeks
<1>5. CASE ~(ret'[c] >= 0)
  <2>1. f_pos'[c] = f_pos[c]
    <3> SUFFICES ASSUME ~UNCHANGED f_pos PROVE FALSE
      OBVIOUS
    <3>1. ret'[c] = f_pos'[c]
      BY <1>0, <1>1 DEF aesd_adjust_file_offset, Return
    <3>2. f_pos'[c] >= 0
      BY <1>0
    <3> QED
      BY <1>5, <3>1, <3>2
  <2>2. Placed(c)'
    BY <1>0, <1>1, <1>2, <2>1 DEF Placed
  <2>3. ~BeingServed(c)'
    BY <1>1, <1>5 DEF BeingServed
  <2> QED
    BY <1>1, <1>2, <1>3, <2>2, <2>3 DEF Own, Stays
<1> QED
  BY <1>4, <1>5

LEMMA InDriverOwn ==
  ASSUME AllInv, Inv', NEW c \in Clients, InDriver(c)
  PROVE  Own(c)
<1>0. /\ Exchange(c) /\ Placed(c) /\ c \in Procs /\ UNCHANGED threadVars
      /\ pc \in [Procs -> InCall \cup {"closed", "idle", "done"}]
  BY OwnTypes DEF AllInv, ServiceInv, InDriver
<1>1. CASE Lock(c) \/ Unlock(c)
  <2>1. /\ UNCHANGED <<devVars, f_pos, callVars>>
        /\ (pc[c] = "waiting" /\ pc'[c] = "locked") \/ (pc[c] = "out" /\ pc'[c] = "done")
        /\ UNCHANGED <<stage, fileMutex, fileBuffer, reply>>
    BY <1>0, <1>1 DEF Lock, Unlock, Goto, threadVars
  <2>2. UNCHANGED <<LogOfRing, PendingOfBuffer>> /\ UNCHANGED CL!Stream
    BY <2>1, LogUntouched, StreamStays DEF devVars, PendingOfBuffer
  <2>3. EchoFrom(c)' = EchoFrom(c) /\ (BeingServed(c)' <=> BeingServed(c))
    BY <2>1 DEF EchoFrom, BeingServed, callVars
  <2>4. Echoed(c)' <=> Echoed(c)
    BY <2>1, <2>2, <2>3 DEF Echoed, callVars
  <2>5. Placed(c)'
    BY <1>0, <2>1, <2>2, <2>4 DEF Placed, callVars, Data
  <2> QED
    BY <2>1, <2>2, <2>3, <2>5 DEF Own, Stays
<1>2. CASE ClientBody(c)
  BY <1>0, <1>2, WriteOwn, ReadOwn, SeekOwn DEF ClientBody
<1> QED
  BY <1>1, <1>2 DEF InDriver

-----------------------------------------------------------------------------
(* All steps. *)

LEMMA CallsOfDriver ==
  ASSUME ServerInv, NEW c \in Clients,
         StartClient(c) \/ WriteMessage(c) \/ SeekDevice(c) \/ EchoRead(c)
  PROVE  DriverStep(c)
<1>1. CASE StartClient(c)
  BY <1>1 DEF StartClient, DriverStep
<1>2. CASE WriteMessage(c)
  <2> DEFINE r == [op |-> "write", data |-> Text(c), write_count |-> WriteCount(Len(Text(c)))]
  <2>1. r \in Request
    <3>1. Text(c) \in Seq(Byte) /\ Len(Text(c)) \in Nat /\ write_buffer_index \in Nat
      BY TextType DEF ServerInv, Inv, TypeOK
    <3> QED
      BY <3>1 DEF Request, WriteCount
  <2>2. r.op # "none" /\ Call(c, r)
    BY <1>2 DEF WriteMessage
  <2> HIDE DEF r
  <2> QED
    BY <2>1, <2>2 DEF DriverStep
<1>3. CASE SeekDevice(c)
  <2>1. PICK cmd \in 0 .. MaxOps, offset \in SeekOffsets :
          Call(c, [op |-> "ioctl", write_cmd |-> cmd, write_cmd_offset |-> offset])
    BY <1>3 DEF SeekDevice
  <2>2. [op |-> "ioctl", write_cmd |-> cmd, write_cmd_offset |-> offset] \in Request
    <3>1. cmd \in Nat /\ offset \in Nat
      OBVIOUS
    <3> QED
      BY <3>1 DEF Request
  <2> QED
    BY <2>1, <2>2 DEF DriverStep
<1>4. CASE EchoRead(c)
  <2>1. Call(c, [op |-> "read", count |-> FSIZE])
    BY <1>4 DEF EchoRead
  <2>2. [op |-> "read", count |-> FSIZE] \in Request
    BY DEF Request
  <2> QED
    BY <2>1, <2>2 DEF DriverStep
<1> QED
  BY <1>1, <1>2, <1>3, <1>4

\* What a client's thread does is, to the driver, a step of its own or none.
LEMMA ClientDrives ==
  ASSUME ServerInv, NEW c \in Clients,
         StartClient(c) \/ ReceiveNoMem(c) \/ ReceiveCrashes(c) \/ ThreadStep(c) \/ InDriver(c)
  PROVE  DriverStep(c) \/ UNCHANGED vars
<1>1. CASE StartClient(c) \/ WriteMessage(c) \/ SeekDevice(c) \/ EchoRead(c)
  BY <1>1, CallsOfDriver
<1>2. CASE DeviceDone(c) \/ EchoDone(c) \/ EchoRetries(c) \/ EchoCrashes(c)
  BY <1>2 DEF DeviceDone, EchoDone, EchoRetries, EchoCrashes, DriverStep
<1>3. CASE InDriver(c)
  BY <1>3 DEF InDriver, ClientBody, DriverStep, Body, aesd_write, aesd_read
<1>4. CASE \/ LockFile(c) \/ Receive(c) \/ ReceiveEnds(c) \/ ReceiveNoMem(c)
           \/ ReceiveCrashes(c) \/ SeekCrashes(c) \/ Reply(c) \/ UnlockFile(c)
  BY <1>4 DEF LockFile, Receive, ReceiveEnds, ReceiveNoMem, ReceiveCrashes, SeekCrashes,
              Reply, UnlockFile
<1> QED
  BY <1>1, <1>2, <1>3, <1>4 DEF ThreadStep

\* What a client's own step leaves of the other clients' threads.
Apart(c) ==
  /\ fileMutex' = fileMutex \/ fileMutex \in {c, NULL}
  /\ \A d \in Clients : d # c =>
       /\ stage'[d] = stage[d] /\ fileBuffer'[d] = fileBuffer[d]
       /\ input'[d] = input[d] /\ buffer'[d] = buffer[d]

LEMMA ThreadsApart ==
  ASSUME ServerInv, NEW c \in Clients,
         StartClient(c) \/ ReceiveNoMem(c) \/ ReceiveCrashes(c) \/ ThreadStep(c) \/ InDriver(c)
  PROVE  Apart(c)
<1>0. /\ stage \in [Clients -> Stages] /\ fileBuffer \in [Clients -> Seq(Byte) \cup {NULL}]
      /\ input \in [Clients -> Seq(Byte)] /\ buffer \in [Clients -> Seq(Byte)]
      /\ Exchange(c)
  BY OwnTypes
<1>1. CASE LockFile(c) \/ ReceiveEnds(c) \/ ReceiveNoMem(c) \/ ReceiveCrashes(c) \/ SeekCrashes(c)
           \/ Reply(c) \/ UnlockFile(c)
  BY <1>0, <1>1 DEF LockFile, ReceiveEnds, ReceiveNoMem, ReceiveCrashes, SeekCrashes, Reply,
                    UnlockFile, Go, Apart, Exchange, Busy
<1>2. CASE Receive(c)
  <2>1. PICK k \in 1 .. Len(input[c]) :
          /\ Go(c, "receive", IF input[c][k] = NL THEN "use" ELSE "receive")
          /\ buffer' = [buffer EXCEPT ![c] = @ \o SubSeq(input[c], 1, k)]
          /\ input' = [input EXCEPT ![c] = SubSeq(@, k + 1, Len(@))]
          /\ UNCHANGED <<vars, fileMutex, fileBuffer, reply>>
    BY <1>2 DEF Receive
  <2> QED
    BY <1>0, <2>1 DEF Go, Apart
<1>3. CASE StartClient(c) \/ WriteMessage(c) \/ SeekDevice(c)
  BY <1>0, <1>3 DEF StartClient, WriteMessage, SeekDevice, Go, Apart
<1>4. CASE EchoRead(c) \/ EchoRetries(c) \/ InDriver(c)
  BY <1>4 DEF EchoRead, EchoRetries, InDriver, threadVars, Apart
<1>5. CASE DeviceDone(c) \/ EchoDone(c) \/ EchoCrashes(c)
  BY <1>0, <1>5 DEF DeviceDone, EchoDone, EchoCrashes, Go, Apart
<1> QED
  BY <1>1, <1>2, <1>3, <1>4, <1>5 DEF ThreadStep

LEMMA ClientStep ==
  ASSUME Writers \subseteq Clients, AllInv, Inv', NEW c \in Clients,
         StartClient(c) \/ ReceiveNoMem(c) \/ ReceiveCrashes(c) \/ ThreadStep(c) \/ InDriver(c)
  PROVE  Own(c) /\ OthersStay(c) /\ ServiceInv'
<1>0. c \in Procs
  BY OwnTypes DEF AllInv
<1>1. Own(c)
  BY QuietOwn, ReplyOwn, CallOwn, DoneOwn, InDriverOwn DEF ThreadStep
<1>2. Apart(c)
  BY ThreadsApart DEF AllInv
<1>3. DriverStep(c) \/ UNCHANGED vars
  BY ClientDrives DEF AllInv
<1>4. ASSUME NEW d \in Clients, d # c
      PROVE  /\ Placed(d)' /\ (BeingServed(d)' <=> BeingServed(d))
             /\ BeingServed(d) => EchoFrom(d)' = EchoFrom(d)
  BY <1>0, <1>2, <1>3, <1>4, OthersSee DEF Apart
<1>5. OthersStay(c)
  BY <1>4 DEF OthersStay
<1>6. ASSUME NEW d \in Clients PROVE Received(d)'
  <2>1. Received(d)
    BY DEF AllInv, ServiceInv
  <2>2. CASE d = c /\ Receive(c)
    BY <2>1, <2>2, ReceiveReceives DEF AllInv
  <2>3. CASE d = c /\ ~Receive(c)
    <3>1. UNCHANGED <<input, buffer>>
      BY <2>3 DEF ThreadStep, StartClient, LockFile, ReceiveEnds, ReceiveNoMem, ReceiveCrashes,
                  WriteMessage, SeekDevice, SeekCrashes, DeviceDone, EchoRead, EchoDone,
                  EchoRetries, EchoCrashes, Reply, UnlockFile, InDriver, threadVars
    <3> QED
      BY <2>1, <3>1 DEF Received
  <2>4. CASE d # c
    BY <1>2, <2>1, <2>4 DEF Apart, Received
  <2> QED
    BY <2>2, <2>3, <2>4
<1>7. ASSUME NEW d \in Clients PROVE Placed(d)'
  BY <1>1, <1>4 DEF Own
<1> QED
  BY <1>1, <1>5, <1>6, <1>7 DEF ServiceInv

LEMMA OutsideStep ==
  ASSUME Writers \subseteq Clients, AllInv, NEW p \in Procs, Outside(p)
  PROVE  /\ p \notin Clients /\ OthersStay(p) /\ ServiceInv'
         /\ UNCHANGED <<LogOfRing, PendingOfBuffer, reply>>
<1>1. DriverStep(p) /\ p \notin Clients /\ UNCHANGED threadVars
  BY OutsideCalls DEF Outside, DriverStep, AllInv, ServerInv
<1>2. ~aesd_write(p)
  BY <1>1, WriterHolds DEF AllInv
<1>3. UNCHANGED <<LogOfRing, PendingOfBuffer, reply>>
  BY <1>1, <1>2, DeviceLeft DEF threadVars
<1>4. ASSUME NEW d \in Clients
      PROVE  /\ Placed(d)' /\ (BeingServed(d)' <=> BeingServed(d))
             /\ BeingServed(d) => EchoFrom(d)' = EchoFrom(d)
  BY <1>1, OthersSee DEF threadVars
<1>5. OthersStay(p)
  BY <1>4 DEF OthersStay
<1>6. ASSUME NEW d \in Clients PROVE Received(d)'
  BY <1>1 DEF AllInv, ServiceInv, Received, threadVars
<1> QED
  BY <1>1, <1>3, <1>4, <1>5, <1>6 DEF ServiceInv

LEMMA NoStep ==
  ASSUME AllInv, UNCHANGED serverVars
  PROVE  /\ OthersStay(NULL) /\ ServiceInv'
         /\ UNCHANGED <<LogOfRing, PendingOfBuffer, reply>>
<1>1. UNCHANGED vars /\ UNCHANGED threadVars
  BY DEF serverVars
<1>2. UNCHANGED <<LogOfRing, PendingOfBuffer, reply>> /\ UNCHANGED CL!Stream
  BY <1>1, LogUntouched, StreamStays DEF vars, devVars, PendingOfBuffer, threadVars
<1>3. ASSUME NEW d \in Clients
      PROVE  /\ Placed(d)' /\ (BeingServed(d)' <=> BeingServed(d)) /\ EchoFrom(d)' = EchoFrom(d)
  <2>1. EchoFrom(d)' = EchoFrom(d) /\ (BeingServed(d)' <=> BeingServed(d))
    BY <1>1 DEF EchoFrom, BeingServed, vars, callVars, threadVars
  <2>2. Echoed(d)' <=> Echoed(d)
    BY <1>1, <1>2, <2>1 DEF Echoed, vars, callVars, threadVars
  <2>3. Placed(d)
    BY DEF AllInv, ServiceInv
  <2> QED
    BY <1>1, <1>2, <2>1, <2>2, <2>3 DEF Placed, Data, vars, callVars, threadVars
<1>4. ASSUME NEW d \in Clients PROVE Received(d)'
  BY <1>1 DEF AllInv, ServiceInv, Received, threadVars
<1>5. OthersStay(NULL)
  BY <1>3 DEF OthersStay
<1> QED
  BY <1>2, <1>3, <1>4, <1>5 DEF ServiceInv

LEMMA ServiceInitInv == ServerInit => ServiceInv
<1> SUFFICES ASSUME ServerInit, NEW c \in Clients PROVE Received(c) /\ Placed(c)
  BY DEF ServiceInv
<1>1. Placed(c)
  BY Nothing DEF ServerInit, Init, Placed, NoReq
<1>2. Received(c)
  <2>1. PICK s \in Sends : input[c] = s /\ buffer[c] = <<>>
    BY DEF ServerInit
  <2>2. s \in Seq(Byte) /\ Len(s) \in Nat /\ 0 \in 0 .. Len(s) /\ 0 <= Len(s)
    OBVIOUS
  <2>3. SubSeq(s, 1, 0) = <<>>
    <3>1. SubSeq(s, 0 + 1, 0) \in Seq(Byte) /\ Len(SubSeq(s, 0 + 1, 0)) = 0 - 0
      BY <2>2, Part
    <3>2. 0 + 1 = 1 /\ 0 - 0 = 0
      OBVIOUS
    <3> DEFINE none == SubSeq(s, 1, 0)
    <3>3. none \in Seq(Byte) /\ Len(none) = 0
      BY <3>1, <3>2
    <3> HIDE DEF none
    <3>4. none = <<>>
      BY <3>3
    <3> QED
      BY <3>4 DEF none
  <2>4. SubSeq(s, 0 + 1, Len(s)) = s
    <3> DEFINE whole == SubSeq(s, 0 + 1, Len(s))
               len   == Len(s)
    <3>1. /\ whole \in Seq(Byte) /\ Len(whole) = len - 0
          /\ \A i \in 1 .. len - 0 : whole[i] = s[0 + i]
      BY <2>2, Part
    <3>2. len - 0 = len /\ \A i \in 1 .. len : 0 + i = i
      BY <2>2
    <3> HIDE DEF whole
    <3>3. Len(whole) = Len(s) /\ \A i \in 1 .. Len(s) : whole[i] = s[i]
      BY <3>1, <3>2
    <3>4. whole = s
      BY <2>2, <3>1, <3>3, SameBytes
    <3> QED
      BY <3>4 DEF whole
  <2> QED
    BY <2>1, <2>2, <2>3, <2>4 DEF Received
<1> QED
  BY <1>1, <1>2

LEMMA AlwaysAllInv ==
  ASSUME Writers \subseteq Clients
  PROVE  ServerSpec => []AllInv
<1>1. ServerInit => ServiceInv
  BY ServiceInitInv
<1>2. AllInv /\ (ServerInv /\ WriterInv)' /\ [ServerNext]_serverVars => ServiceInv'
  <2> SUFFICES ASSUME AllInv, Inv', [ServerNext]_serverVars PROVE ServiceInv'
    BY DEF ServerInv
  <2>1. CASE UNCHANGED serverVars
    BY <2>1, NoStep
  <2>2. CASE ServerNext
    BY <2>2, ClientStep, OutsideStep DEF ServerNext
  <2> QED
    BY <2>1, <2>2
<1>3. AllInv <=> (ServerInv /\ WriterInv) /\ ServiceInv
  BY DEF AllInv
<1> QED
  BY <1>1, <1>2, <1>3, AlwaysServerWriterInv, PTL DEF ServerSpec

\* With the server as the only writer, a client's line and the answer to it are
\* one exchange, whatever is sent, in whatever parts it arrives, and whoever
\* reads, seeks or fails meanwhile (threading.c:24-35, client.c:126-263).
THEOREM ServiceIsExchange ==
  ASSUME Writers \subseteq Clients
  PROVE  ServerSpec => ImplementsLineService
<1>1. ServerInit => LS!Init
  <2> SUFFICES ASSUME ServerInit PROVE LS!Init
    OBVIOUS
  <2>1. Entries(circular_buffer) = 0
    BY DEF ServerInit, Init, EmptyBuffer, Entries, IsEmpty
  <2>2. LogOfRing = <<>>
    BY <2>1 DEF LogOfRing
  <2>3. PendingOfBuffer = <<>>
    BY DEF ServerInit, Init, PendingOfBuffer
  <2>4. \A c \in Clients : ~BeingServed(c)
    BY DEF ServerInit, BeingServed
  <2>5. Turn = NULL /\ From = 0
    BY <2>4 DEF Turn, From
  <2> QED
    BY <2>2, <2>3, <2>5 DEF LS!Init, ServerInit
<1>2. TurnShape' /\ AllInv /\ Inv' /\ [ServerNext]_serverVars => [LS!Next]_LS!vars
  <2> SUFFICES ASSUME TurnShape', AllInv, Inv', [ServerNext]_serverVars
               PROVE  LS!Next \/ UNCHANGED LS!vars
    OBVIOUS
  <2>1. CASE UNCHANGED serverVars
    <3>1. NULL \notin Clients
      OBVIOUS
    <3> QED
      BY <2>1, <3>1, NoStep, StaysIsStutter
  <2>2. ASSUME NEW c \in Clients, OthersStay(c), Own(c)
        PROVE  LS!Next \/ UNCHANGED LS!vars
    <3>1. CASE Stays(c)
      BY <2>2, <3>1, StaysIsStutter DEF Stays
    <3>2. CASE Starts(c) /\ Adds(c)
      BY <2>2, <3>2, AddsIsAddLine DEF LS!Next
    <3>3. CASE Starts(c) /\ Seeks(c)
      BY <2>2, <3>3, SeeksIsSeekTo DEF LS!Next
    <3>4. CASE Finishes(c)
      BY <2>2, <3>4, FinishesIsAnswer DEF LS!Next
    <3> QED
      BY <2>2, <3>1, <3>2, <3>3, <3>4 DEF Own, Starts
  <2>3. ASSUME NEW p \in Procs, Outside(p) PROVE UNCHANGED LS!vars
    BY <2>3, OutsideStep, StaysIsStutter
  <2>4. CASE ServerNext
    BY <2>2, <2>3, <2>4, ClientStep DEF ServerNext
  <2> QED
    BY <2>1, <2>4
<1>3. AllInv => TurnShape /\ Inv
  BY TurnHasShape DEF AllInv, ServerInv
<1> QED
  BY <1>1, <1>2, <1>3, AlwaysAllInv, PTL DEF ServerSpec, ImplementsLineService, LS!Spec

-----------------------------------------------------------------------------
(***************************************************************************)
(* The threads' calls are those of a log's users.                          *)
(***************************************************************************)

\* Who is not a client reads as much as AesdChar's readers do.
OutsidersAsk ==
  \A p \in Procs \ Clients : req[p].op = "read" => req[p].count \in ReadCounts

\* Every step is one process's, which is a client or not the server's at all.
StepOf(p) == DriverStep(p) /\ (p \in Clients \/ Outside(p))

LEMMA StepHasProcess ==
  ASSUME ServerInv, ServerNext
  PROVE  UNCHANGED vars \/ \E p \in Procs : StepOf(p)
<1>1. ASSUME NEW c \in Clients,
             StartClient(c) \/ ReceiveNoMem(c) \/ ReceiveCrashes(c) \/ ThreadStep(c) \/ InDriver(c)
      PROVE  UNCHANGED vars \/ \E p \in Procs : StepOf(p)
  <2>1. DriverStep(c) \/ UNCHANGED vars
    BY <1>1, ClientDrives
  <2>2. c \in Procs
    BY OwnTypes
  <2> QED
    BY <2>1, <2>2 DEF StepOf
<1>2. ASSUME NEW p \in Procs, Outside(p)
      PROVE  StepOf(p)
  BY <1>2, OutsideCalls DEF Outside, DriverStep, ServerInv, StepOf
<1> QED
  BY <1>1, <1>2 DEF ServerNext

LEMMA OutsidersAskNext ==
  ASSUME ServerInv, OutsidersAsk, [ServerNext]_serverVars
  PROVE  OutsidersAsk'
<1>0. Inv /\ req \in [Procs -> Request]
  BY DEF ServerInv, Inv, TypeOK
<1>1. CASE UNCHANGED vars
  BY <1>1 DEF OutsidersAsk, vars, callVars
<1>2. ASSUME NEW p \in Procs, StepOf(p) PROVE OutsidersAsk'
  <2> SUFFICES ASSUME NEW q \in Procs \ Clients, req'[q].op = "read"
               PROVE  req'[q].count \in ReadCounts
    BY DEF OutsidersAsk
  <2>1. CASE q # p
    <3>1. req'[q] = req[q]
      BY <1>0, <1>2, <2>1, StepIsLocal DEF StepOf, Untouched
    <3> QED
      BY <3>1 DEF OutsidersAsk
  <2>2. CASE q = p
    <3>1. Outside(p)
      BY <1>2, <2>2 DEF StepOf
    <3>2. CASE CallWrite(p) \/ CallLlseek(p) \/ CallSeekTo(p)
      BY <1>0, <2>2, <3>2 DEF CallWrite, CallLlseek, CallSeekTo, Call
    <3>3. CASE CallRead(p)
      BY <1>0, <2>2, <3>3 DEF CallRead, Call
    <3>4. CASE Finish(p)
      BY <1>0, <2>2, <3>4 DEF Finish, NoReq
    <3>5. CASE IoctlRefused(p)
      BY <1>0, <2>2, <3>5 DEF IoctlRefused
    <3>6. CASE aesd_open(p) \/ aesd_release(p) \/ Lock(p) \/ Interrupted(p) \/ Unlock(p)
      BY <2>2, <3>6 DEF aesd_open, aesd_release, Lock, Interrupted, Unlock, callVars, OutsidersAsk
    <3>7. CASE Body(p)
      <4>1. UNCHANGED req
        BY <3>7 DEF Body, aesd_write, WriteRefused, WriteFault, WriteHeld, WriteNoMem,
             WriteCommitted, WriteOops, aesd_read, ReadNothing, ReadFault, ReadBytes, aesd_llseek,
             aesd_adjust_file_offset, Return, callVars
      <4> QED
        BY <2>2, <4>1 DEF OutsidersAsk
    <3> QED
      BY <3>1, <3>2, <3>3, <3>4, <3>5, <3>6, <3>7 DEF Outside
  <2> QED
    BY <2>1, <2>2
<1> QED
  BY <1>0, <1>1, <1>2, StepHasProcess DEF serverVars

\* The log that the server's promise speaks of is the driver's.
LEMMA SameLog ==
  /\ SL!Stream = CL!Stream /\ SL!vars = CL!vars
  /\ \A line : SL!Appended(line) = CL!Appended(line)
  /\ \A s : SL!Last(s) = CL!Last(s)
BY DEF SL!Stream, CL!Stream, SL!FlattenSeq, CL!FlattenSeq, SL!vars, CL!vars, SL!Appended,
       CL!Appended, SL!Last, CL!Last

LEMMA SameActions ==
  /\ CL!WriteEmpty => SL!WriteEmpty
  /\ \A data : CL!Write(data) => SL!Write(data)
  /\ \A p : (CL!Seek(p) => SL!Seek(p)) /\ (CL!Consume(p) => SL!Consume(p))
<1>1. CL!WriteEmpty => SL!WriteEmpty
  BY SameLog DEF CL!WriteEmpty, SL!WriteEmpty
<1>2. ASSUME NEW data, CL!Write(data) PROVE SL!Write(data)
  BY <1>2, SameLog DEF CL!Write, SL!Write
<1>3. ASSUME NEW p PROVE (CL!Seek(p) => SL!Seek(p)) /\ (CL!Consume(p) => SL!Consume(p))
  BY DEF CL!Seek, SL!Seek, CL!Consume, SL!Consume
<1> QED
  BY <1>1, <1>2, <1>3

LEMMA ServerStepLogged ==
  ASSUME Writers \subseteq Clients, AllInv, OutsidersAsk, Inv', NEW p \in Procs, StepOf(p)
  PROVE  SL!Next \/ UNCHANGED SL!vars
<1>0. Inv /\ WriterInv /\ DriverStep(p)
  BY DEF AllInv, ServerInv, StepOf
<1>1. CASE aesd_write(p)
  <2>1. Data(p) \in Texts
    <3>1. p \in Clients
      BY <1>1, WriterHolds DEF AllInv
    <3>2. req[p].op = "write"
      BY <1>1, WriteHolds DEF Holds
    <3> QED
      BY <3>1, <3>2 DEF AllInv, ServiceInv, Placed
  <2>2. UNCHANGED CL!vars \/ CL!Write(Data(p)) \/ CL!WriteEmpty
    BY <1>0, <1>1, WriteLogged
  <2>3. UNCHANGED SL!vars \/ SL!Write(Data(p)) \/ SL!WriteEmpty
    BY <2>2, SameActions DEF SL!vars, CL!vars
  <2> QED
    BY <2>1, <2>3 DEF SL!Next
<1>2. CASE aesd_read(p)
  <2>1. UNCHANGED CL!vars \/ (Holds(p, "read") /\ Reads(p, req[p].count))
    BY <1>0, <1>2, ReadLogged
  <2>2. Holds(p, "read") => req[p].count \in ReadCounts \cup {FSIZE}
    <3> SUFFICES ASSUME req[p].op = "read" PROVE req[p].count \in ReadCounts \cup {FSIZE}
      BY DEF Holds
    <3>1. p \in Clients => req[p].count = FSIZE
      BY DEF AllInv, ServiceInv, Placed
    <3> QED
      BY <3>1 DEF OutsidersAsk
  <2>3. Holds(p, "read") /\ Reads(p, req[p].count) => SL!Read(p)
    BY <2>2, SameLog DEF Reads, SL!Read
  <2> QED
    BY <2>1, <2>3 DEF SL!Next, SL!vars, CL!vars
<1>3. CASE ~aesd_write(p) /\ ~aesd_read(p)
  <2>1. \/ aesd_open(p) \/ aesd_release(p) \/ Lock(p) \/ Interrupted(p) \/ Unlock(p)
        \/ Finish(p) \/ aesd_llseek(p) \/ aesd_adjust_file_offset(p)
        \/ IoctlRefused(p) \/ \E r : Call(p, r)
    BY <1>0, <1>3 DEF DriverStep, Body
  <2>2. UNCHANGED CL!vars \/ CL!Seek(p) \/ CL!Consume(p)
    BY <1>0, <2>1, OtherLogged
  <2> QED
    BY <2>2, SameActions DEF SL!Next, SL!vars, CL!vars
<1> QED
  BY <1>1, <1>2, <1>3

\* With the server as the only writer the device is a log to everybody who has it
\* open: fileMutex is all that aesd_write needs to be what it would be in a program
\* of one thread (main.c:137-219, threading.c:24).
THEOREM DeviceStaysLog ==
  ASSUME Writers \subseteq Clients
  PROVE  ServerSpec => ServerKeepsLog
<1>1. ServerInit => SL!Init /\ OutsidersAsk
  <2> SUFFICES ASSUME ServerInit PROVE SL!Init /\ OutsidersAsk
    OBVIOUS
  <2>1. Entries(circular_buffer) = 0
    BY DEF ServerInit, Init, EmptyBuffer, Entries, IsEmpty
  <2>2. LogOfRing = <<>>
    BY <2>1 DEF LogOfRing
  <2>3. PendingOfBuffer = <<>>
    BY DEF ServerInit, Init, PendingOfBuffer
  <2> QED
    BY <2>2, <2>3 DEF ServerInit, Init, SL!Init, OutsidersAsk, NoReq
<1>2. ServerInv /\ OutsidersAsk /\ [ServerNext]_serverVars => OutsidersAsk'
  BY OutsidersAskNext
<1>3. AllInv /\ OutsidersAsk /\ Inv' /\ [ServerNext]_serverVars => [SL!Next]_SL!vars
  <2> SUFFICES ASSUME AllInv, OutsidersAsk, Inv', [ServerNext]_serverVars
               PROVE  SL!Next \/ UNCHANGED SL!vars
    OBVIOUS
  <2>1. CASE UNCHANGED vars
    <3>1. UNCHANGED <<LogOfRing, PendingOfBuffer>>
      BY <2>1, LogUntouched DEF vars, devVars, PendingOfBuffer
    <3> QED
      BY <2>1, <3>1 DEF vars, callVars, SL!vars
  <2>2. CASE \E p \in Procs : StepOf(p)
    BY <2>2, ServerStepLogged
  <2> QED
    BY <2>1, <2>2, StepHasProcess DEF AllInv, serverVars
<1>4. AllInv => ServerInv /\ Inv
  BY DEF AllInv, ServerInv
<1> QED
  BY <1>1, <1>2, <1>3, <1>4, AlwaysAllInv, PTL DEF ServerSpec, ServerKeepsLog, SL!Spec

-----------------------------------------------------------------------------
(***************************************************************************)
(* And what a client is sent is whole lines, its own the last of them: the *)
(* log has nothing but whole lines without a NUL in them, and while a      *)
(* client is served it ends in what the client wrote.                      *)
(***************************************************************************)

\* The bytes that strlen does not stop at.
Clean == Byte \ {NUL}

\* s ends in t.
EndsIn(s, t) ==
  Len(t) <= Len(s) /\ \A i \in 1 .. Len(t) : s[Len(s) - Len(t) + i] = t[i]

LEMMA SuffixIs ==
  ASSUME NEW s \in Seq(Byte), NEW t \in Seq(Byte), EndsIn(s, t)
  PROVE  IsSuffix(t, s)
<1> DEFINE m == Len(t)
           n == Len(s)
           mine == SubSeq(Reverse(t), 1, m)
           its  == SubSeq(Reverse(s), 1, m)
<1>0. m \in Nat /\ n \in Nat /\ m <= n
  BY DEF EndsIn
<1>1. ASSUME NEW u \in Seq(Byte)
      PROVE  /\ Reverse(u) \in Seq(Byte) /\ Len(Reverse(u)) = Len(u)
             /\ \A i \in 1 .. Len(u) : Reverse(u)[i] = u[Len(u) - i + 1]
  <2>1. \A i \in 1 .. Len(u) : u[Len(u) - i + 1] \in Byte
    <3>1. ASSUME NEW i \in 1 .. Len(u) PROVE Len(u) - i + 1 \in 1 .. Len(u)
      OBVIOUS
    <3> QED
      BY <3>1
  <2> QED
    BY <2>1 DEF Reverse
<1>2. ASSUME NEW u \in Seq(Byte), m <= Len(u)
      PROVE  /\ SubSeq(u, 1, m) \in Seq(Byte) /\ Len(SubSeq(u, 1, m)) = m
             /\ \A i \in 1 .. m : SubSeq(u, 1, m)[i] = u[i]
  <2> HIDE DEF m
  <2>1. 0 \in Nat /\ 0 <= m /\ 0 + 1 = 1 /\ m - 0 = m /\ \A i \in 1 .. m : 0 + i = i
    BY <1>0
  <2>2. /\ SubSeq(u, 0 + 1, m) \in Seq(Byte) /\ Len(SubSeq(u, 0 + 1, m)) = m - 0
        /\ \A i \in 1 .. m - 0 : SubSeq(u, 0 + 1, m)[i] = u[0 + i]
    BY <1>0, <1>2, <2>1, Part
  <2> QED
    BY <2>1, <2>2
<1>3. /\ mine \in Seq(Byte) /\ Len(mine) = m
      /\ \A i \in 1 .. m : mine[i] = t[m - i + 1]
  <2>1. Reverse(t) \in Seq(Byte) /\ m <= Len(Reverse(t))
    BY <1>0, <1>1
  <2> QED
    BY <1>1, <1>2, <2>1
<1>4. /\ its \in Seq(Byte) /\ Len(its) = m
      /\ \A i \in 1 .. m : its[i] = s[n - i + 1]
  <2>1. Reverse(s) \in Seq(Byte) /\ m <= Len(Reverse(s))
    BY <1>0, <1>1
  <2>2. \A i \in 1 .. m : i \in 1 .. n
    BY <1>0
  <2> QED
    BY <1>1, <1>2, <2>1, <2>2
<1>5. ASSUME NEW i \in 1 .. m PROVE mine[i] = its[i]
  <2>1. m - i + 1 \in 1 .. m /\ n - m + (m - i + 1) = n - i + 1
    BY <1>0
  <2>2. s[n - m + (m - i + 1)] = t[m - i + 1]
    BY <2>1 DEF EndsIn
  <2> QED
    BY <1>3, <1>4, <2>1, <2>2
<1> HIDE DEF mine, its
<1>6. mine = its
  BY <1>3, <1>4, <1>5, SameBytes
<1>7. Len(Reverse(t)) = m /\ Len(Reverse(s)) = n
  BY <1>1
<1> QED
  BY <1>0, <1>6, <1>7 DEF IsSuffix, IsPrefix, mine, its

\* All of a text without a NUL is sent.
LEMMA CleanIsSent ==
  ASSUME NEW s \in Seq(Clean)
  PROVE  s \in Seq(Byte) /\ UpToNul(s) = s
<1>1. s \in Seq(Byte)
  BY DEF Clean
<1>2. NUL \notin LS!ToSet(s)
  BY DEF LS!ToSet, Clean
<1> QED
  BY <1>1, <1>2, SentIsUpToNul DEF LS!Sent

LEMMA UpToNulIsClean ==
  ASSUME NEW s \in Seq(Byte)
  PROVE  UpToNul(s) \in Seq(Clean)
<1> DEFINE N == Len(s)
           before == {i \in 1 .. N : \A j \in 1 .. i : s[j] # NUL}
           n == Cardinality(before)
<1>0. N \in Nat
  OBVIOUS
<1>3. n \in 0 .. N /\ \A i \in 1 .. n : s[i] # NUL
  <2>1. PICK m \in 0 .. N : before = 1 .. m
    <3>1. CASE \A i \in 1 .. N : s[i] # NUL
      <4>1. before = 1 .. N /\ N \in 0 .. N
        BY <1>0, <3>1
      <4> QED
        BY <4>1
    <3>2. CASE \E i \in 1 .. N : s[i] = NUL
      <4>1. PICK m \in 1 .. N : s[m] = NUL /\ \A j \in 1 .. m - 1 : s[j] # NUL
        BY <3>2, FirstNul
      <4>2. before = 1 .. m - 1 /\ m - 1 \in 0 .. N
        BY <1>0, <4>1
      <4> QED
        BY <4>2
    <3> QED
      BY <3>1, <3>2
  <2>2. n = m
    <3>1. m \in Nat
      BY <1>0
    <3>2. Cardinality(1 .. m) = m
      BY <3>1, IntervalSize
    <3> QED
      BY <2>1, <3>2
  <2>3. \A i \in 1 .. m : s[i] # NUL
    BY <1>0, <2>1
  <2> QED
    BY <2>2, <2>3
<1>4. UpToNul(s) = SubSeq(s, 1, n)
  BY DEF UpToNul
<1> HIDE DEF n
<1>5. \A i \in 1 .. n : s[i] \in Clean
  BY <1>0, <1>3 DEF Clean
<1>6. SubSeq(s, 1, n) \in Seq(Clean)
  <2>1. 1 \in Int /\ n \in Int
    BY <1>3
  <2> QED
    BY <1>5, <2>1, SubSeqProperties
<1> QED
  BY <1>4, <1>6

LEMMA TextsAreClean == Texts \subseteq Seq(Clean)
<1> SUFFICES ASSUME NEW text \in Texts PROVE text \in Seq(Clean)
  OBVIOUS
<1>1. PICK s \in Sends : \E n \in 0 .. Len(s) : text = UpToNul(SubSeq(s, 1, n))
  BY DEF Texts
<1>2. PICK n \in 0 .. Len(s) : text = UpToNul(SubSeq(s, 1, n))
  BY <1>1
<1>3. SubSeq(s, 0 + 1, n) \in Seq(Byte)
  <2>1. s \in Seq(Byte) /\ 0 \in Nat /\ n \in Nat /\ 0 <= n /\ n <= Len(s)
    OBVIOUS
  <2> QED
    BY <2>1, Part
<1>4. SubSeq(s, 1, n) \in Seq(Byte)
  <2>1. 0 + 1 = 1
    OBVIOUS
  <2> QED
    BY <1>3, <2>1
<1> QED
  BY <1>2, <1>4, UpToNulIsClean

\* The log: whole lines, and nothing that a string function would not see.
CleanLog ==
  /\ LogOfRing \in Seq(Seq(Clean)) /\ PendingOfBuffer \in Seq(Clean)
  /\ \A k \in 1 .. Len(LogOfRing) : LogOfRing[k] # <<>> => Last(LogOfRing[k]) = NL

LEMMA CleanStream ==
  ASSUME Inv, CleanLog
  PROVE  CL!Stream \in Seq(Clean) /\ (CL!Stream # <<>> => Last(CL!Stream) = NL)
<1>1. Begins(LogOfRing, Sizes)
  BY LogBegins
<1>2. LogOfRing \in Seq(Seq(Clean))
  BY DEF CleanLog
<1>3. FlattenSeq(LogOfRing) \in Seq(Clean)
  BY <1>1, <1>2, FlattenFacts
<1>4. FlattenSeq(LogOfRing) # <<>> => Last(FlattenSeq(LogOfRing)) = NL
  <2>1. \A k \in 1 .. Len(LogOfRing) : LogOfRing[k] # <<>> => Last(LogOfRing[k]) = NL
    BY DEF CleanLog
  <2> QED
    BY <1>1, <1>2, <2>1, FlattenEnds
<1> QED
  BY <1>3, <1>4, StreamIsFlat

\* A line that is appended is the last of the log,
LEMMA AppendedIs ==
  ASSUME NEW S, LogOfRing \in Seq(Seq(S)), NEW line \in Seq(S)
  PROVE  /\ CL!Appended(line) \in Seq(Seq(S)) /\ Len(CL!Appended(line)) # 0
         /\ Last(CL!Appended(line)) = line
         /\ \A k \in 1 .. Len(CL!Appended(line)) :
              \/ CL!Appended(line)[k] = line
              \/ \E j \in 1 .. Len(LogOfRing) : CL!Appended(line)[k] = LogOfRing[j]
<1> DEFINE log == LogOfRing
           n   == Len(log)
           all == Append(log, line)
           new == CL!Appended(line)
<1>0. log \in Seq(Seq(S)) /\ n \in Nat /\ MaxOps \in Nat \ {0}
  OBVIOUS
<1>1. new = IF Len(all) > MaxOps THEN Tail(all) ELSE all
  BY DEF CL!Appended
<1> HIDE DEF log, new
<1>2. /\ all \in Seq(Seq(S)) /\ Len(all) = n + 1 /\ all[n + 1] = line
      /\ \A k \in 1 .. n : all[k] = log[k]
  BY <1>0
<1> HIDE DEF all, n
<1>3. CASE Len(all) > MaxOps
  <2>1. n # 0 /\ Len(all) # 0
    BY <1>0, <1>2, <1>3
  <2>2. /\ Tail(all) \in Seq(Seq(S)) /\ Len(Tail(all)) = n
        /\ \A k \in 1 .. n : Tail(all)[k] = all[k + 1]
    <3>1. all # <<>>
      BY <1>2, <2>1, EmptySeq
    <3> QED
      BY <1>0, <1>2, <3>1
  <2>3. ASSUME NEW k \in 1 .. n PROVE new[k] = line \/ \E j \in 1 .. n : new[k] = log[j]
    <3>1. new[k] = all[k + 1]
      BY <1>1, <1>3, <2>2
    <3>2. CASE k = n
      BY <1>2, <3>1, <3>2
    <3>3. CASE k # n
      <4>1. k + 1 \in 1 .. n
        BY <1>0, <3>3
      <4> QED
        BY <1>2, <3>1, <4>1
    <3> QED
      BY <3>2, <3>3
  <2>4. new \in Seq(Seq(S)) /\ Len(new) = n
    BY <1>1, <1>3, <2>2
  <2>5. Last(new) = line
    <3>1. n \in 1 .. n
      BY <1>0, <2>1
    <3>2. Tail(all)[n] = all[n + 1]
      BY <2>2, <3>1
    <3> QED
      BY <1>1, <1>2, <1>3, <2>4, <3>2 DEF Last
  <2> QED
    BY <2>1, <2>3, <2>4, <2>5 DEF new, log, n
<1>4. CASE ~(Len(all) > MaxOps)
  <2>1. new = all /\ Len(new) # 0 /\ Last(new) = line
    BY <1>0, <1>1, <1>2, <1>4 DEF Last
  <2>2. ASSUME NEW k \in 1 .. Len(new) PROVE new[k] = line \/ \E j \in 1 .. n : new[k] = log[j]
    <3>1. k \in 1 .. n + 1
      BY <1>2, <2>1
    <3>2. k = n + 1 \/ k \in 1 .. n
      BY <1>0, <3>1
    <3> QED
      BY <1>2, <2>1, <3>2
  <2> QED
    BY <1>2, <2>1, <2>2 DEF new, log, n
<1> QED
  BY <1>3, <1>4

\* and what the log ends in, its last command ends in.
LEMMA FlattenEndsIn ==
  ASSUME NEW S, NEW s \in Seq(Seq(S)), NEW before, Begins(s, before), Len(s) # 0
  PROVE  EndsIn(FlattenSeq(s), Last(s))
<1> DEFINE N    == Len(s)
           flat == FlattenSeq(s)
           line == s[N]
           len  == Len(line)
<1>0. N \in Nat /\ N - 1 \in 0 .. N - 1 /\ N - 1 \in 0 .. N /\ N - 1 + 1 = N /\ N \in 1 .. N
  OBVIOUS
<1>1. line \in Seq(S) /\ len \in Nat
  BY <1>0
<1>2. Len(flat) = before[N]
  BY FlattenFacts
<1>3. \A k \in 0 .. N - 1 : \A o \in 1 .. Len(s[k + 1]) : flat[before[k] + o] = s[k + 1][o]
  BY FlattenFacts
<1>4. before[N] = before[N - 1] + len /\ before[N - 1] \in Nat
  <2>1. before[N - 1 + 1] = before[N - 1] + Len(s[N - 1 + 1]) /\ before[N - 1] \in Nat
    BY <1>0 DEF Begins
  <2> QED
    BY <1>0, <2>1
<1>5. \A o \in 1 .. len : flat[before[N - 1] + o] = line[o]
  <2>1. \A o \in 1 .. Len(s[N - 1 + 1]) : flat[before[N - 1] + o] = s[N - 1 + 1][o]
    BY <1>0, <1>3
  <2> QED
    BY <1>0, <2>1
<1> HIDE DEF flat, line
<1>6. len <= Len(flat) /\ Len(flat) - len = before[N - 1]
  BY <1>1, <1>2, <1>4
<1>7. \A o \in 1 .. len : flat[Len(flat) - len + o] = line[o]
  BY <1>5, <1>6
<1>8. line = Last(s)
  BY DEF line, Last
<1> QED
  BY <1>6, <1>7, <1>8 DEF EndsIn, flat

LEMMA EndsInEnd ==
  ASSUME NEW s \in Seq(Byte), NEW t \in Seq(Byte), NEW u \in Seq(Byte), EndsIn(s, t \o u)
  PROVE  EndsIn(s, u)
<1> DEFINE n == Len(s)
           k == Len(t)
           m == Len(u)
           line == t \o u
<1>0. n \in Nat /\ k \in Nat /\ m \in Nat
  OBVIOUS
<1>1. /\ Len(line) = k + m
      /\ \A i \in 1 .. k + m : line[i] = IF i <= k THEN t[i] ELSE u[i - k]
  BY ConcatProperties
<1>2. k + m <= n /\ \A i \in 1 .. k + m : s[n - (k + m) + i] = line[i]
  <2> HIDE DEF line
  <2>1. Len(line) <= n /\ \A i \in 1 .. Len(line) : s[n - Len(line) + i] = line[i]
    BY DEF EndsIn, line
  <2> QED
    BY <1>1, <2>1
<1> HIDE DEF line, n, k, m
<1>3. ASSUME NEW i \in 1 .. m, NEW j, j = k + i PROVE s[n - m + i] = u[i]
  <2>1. j \in 1 .. k + m /\ ~(j <= k) /\ j - k = i /\ n - (k + m) + j = n - m + i
    BY <1>0, <1>3
  <2>2. s[n - (k + m) + j] = line[j] /\ line[j] = u[j - k]
    BY <1>1, <1>2, <2>1
  <2> QED
    BY <2>1, <2>2
<1>4. m <= n
  BY <1>0, <1>2
<1> QED
  BY <1>3, <1>4 DEF EndsIn, n, m

LEMMA CleanJoin ==
  ASSUME NEW s \in Seq(Clean), NEW t \in Seq(Clean)
  PROVE  /\ s \o t \in Seq(Clean)
         /\ t # <<>> => Last(s \o t) = Last(t)
<1>1. /\ s \o t \in Seq(Clean) /\ Len(s \o t) = Len(s) + Len(t)
      /\ \A i \in 1 .. Len(s) + Len(t) :
           (s \o t)[i] = IF i <= Len(s) THEN s[i] ELSE t[i - Len(s)]
  BY ConcatProperties
<1>2. ASSUME t # <<>> PROVE (s \o t)[Len(s) + Len(t)] = t[Len(t)]
  <2> DEFINE k == Len(s)
             m == Len(t)
             i == k + m
  <2>1. k \in Nat /\ m \in Nat /\ m # 0
    BY <1>2, EmptySeq
  <2> HIDE DEF k, m
  <2>2. i \in 1 .. k + m /\ ~(i <= k) /\ i - k = m
    BY <2>1
  <2> HIDE DEF i
  <2>3. (s \o t)[i] = t[m]
    BY <1>1, <2>2 DEF k, m
  <2> QED
    BY <2>3 DEF i, k, m
<1> QED
  BY <1>1, <1>2 DEF Last

LEMMA CompletedLog ==
  ASSUME Inv', CleanLog, NEW data \in Seq(Clean), Completes(data)
  PROVE  CleanLog' /\ EndsIn(CL!Stream', data)
<1> DEFINE line == PendingOfBuffer \o data
           new  == CL!Appended(line)
<1>1. PendingOfBuffer \in Seq(Clean) /\ LogOfRing \in Seq(Seq(Clean))
  BY DEF CleanLog
<1>2. LogOfRing' = new /\ PendingOfBuffer' = <<>> /\ (line = <<>> \/ (data # <<>> /\ Last(data) = NL))
  BY DEF Completes
<1>3. line \in Seq(Clean) /\ (line # <<>> => Last(line) = NL)
  BY <1>1, <1>2, CleanJoin
<1> HIDE DEF line
<1>4. new \in Seq(Seq(Clean)) /\ Len(new) # 0 /\ Last(new) = line
  BY <1>1, <1>3, AppendedIs
<1>5. \A k \in 1 .. Len(new) :
        new[k] = line \/ \E j \in 1 .. Len(LogOfRing) : new[k] = LogOfRing[j]
  BY <1>1, <1>3, AppendedIs
<1> HIDE DEF new
<1>6. CleanLog'
  <2>1. \A k \in 1 .. Len(new) : new[k] # <<>> => Last(new[k]) = NL
    BY <1>3, <1>5 DEF CleanLog
  <2>2. <<>> \in Seq(Clean)
    BY EmptySeq
  <2> QED
    BY <1>2, <1>4, <2>1, <2>2 DEF CleanLog
<1>7. EndsIn(CL!Stream', line)
  <2>1. Begins(LogOfRing, Sizes)'
    BY LogBegins, PTL
  <2>2. EndsIn(FlattenSeq(new), Last(new))
    BY <1>2, <1>4, <2>1, FlattenEndsIn
  <2>3. CL!Stream' = FlattenSeq(new)
    <3>1. (CL!Stream = FlattenSeq(LogOfRing))'
      BY StreamIsFlat, PTL
    <3> QED
      BY <1>2, <3>1
  <2> QED
    BY <1>4, <2>2, <2>3
<1>8. CL!Stream' \in Seq(Byte) /\ PendingOfBuffer \in Seq(Byte) /\ data \in Seq(Byte)
  <2>1. (CL!Stream \in Seq(Byte))'
    BY StreamIs, PTL
  <2> QED
    BY <1>1, <2>1, CleanIsSent
<1> QED
  BY <1>6, <1>7, <1>8, EndsInEnd DEF line

-----------------------------------------------------------------------------
(* Where an answer stands. *)

\* The client sent a line, so its answer is to end in it.
Wanted(c) == SeekAt(c) = {} /\ Text(c) # <<>> /\ Last(Text(c)) = NL

Whole(c) ==
  /\ reply[c] # <<>> => Last(reply[c]) = NL
  /\ Wanted(c) => IsSuffix(Text(c), reply[c])

Answered(c) ==
  /\ stage[c] = "device" => \/ SeekAt(c) = {} /\ req[c].op = "write" /\ Data(c) = Text(c)
                            \/ SeekAt(c) # {} /\ req[c].op = "ioctl"
  /\ BeingServed(c) /\ Wanted(c) => EchoFrom(c) = 0 /\ EndsIn(CL!Stream, Text(c))
  /\ reply[c] # NULL => stage[c] \in {"unlock", "done"} /\ Whole(c)

AnswerInv == CleanLog /\ \A c \in Clients : Answered(c)

\* What Answered says of the message only changes while it is received.
LEMMA MessageStays ==
  ASSUME NEW c \in Clients, buffer'[c] = buffer[c]
  PROVE  /\ Text(c)' = Text(c) /\ SeekAt(c)' = SeekAt(c) /\ (Wanted(c)' <=> Wanted(c))
         /\ reply'[c] = reply[c] => (Whole(c)' <=> Whole(c))
<1>1. Text(c)' = Text(c)
  BY DEF Text
<1>2. SeekAt(c)' = SeekAt(c)
  BY <1>1 DEF SeekAt
<1>3. Wanted(c)' <=> Wanted(c)
  BY <1>1, <1>2 DEF Wanted
<1> QED
  BY <1>1, <1>2, <1>3 DEF Whole

\* The steps before the call on the device, and behind the reply.
LEMMA QuietAnswered ==
  ASSUME AllInv, NEW c \in Clients, Answered(c),
         \/ StartClient(c) \/ LockFile(c) \/ Receive(c) \/ ReceiveEnds(c) \/ ReceiveNoMem(c)
         \/ ReceiveCrashes(c) \/ SeekCrashes(c) \/ UnlockFile(c)
  PROVE  Answered(c)'
<1>0. /\ Exchange(c) /\ stage \in [Clients -> Stages] /\ reply' = reply /\ <<>> # NULL
      /\ fileBuffer'[c] = fileBuffer[c]
  BY OwnTypes, Nothing DEF AllInv, StartClient, LockFile, Receive, ReceiveEnds, ReceiveNoMem,
     ReceiveCrashes, SeekCrashes, UnlockFile
<1>1. /\ stage'[c] \in {"lock", "receive", "use", "unlock", "crashed", "done"}
      /\ stage'[c] = "crashed" => stage[c] \in {"receive", "use"}
  BY <1>0 DEF StartClient, LockFile, Receive, ReceiveEnds, ReceiveNoMem, ReceiveCrashes,
              SeekCrashes, UnlockFile, Go
<1>2. ~BeingServed(c)'
  BY <1>0, <1>1 DEF BeingServed, Exchange
<1>3. CASE UnlockFile(c)
  <2>1. stage'[c] = "done" /\ buffer'[c] = buffer[c]
    BY <1>0, <1>3 DEF UnlockFile, Go
  <2> QED
    BY <1>0, <1>2, <2>1, MessageStays DEF Answered
<1>4. CASE ~UnlockFile(c)
  <2>1. stage[c] \in {"away", "lock", "receive", "use"}
    BY <1>0, <1>4 DEF StartClient, LockFile, Receive, ReceiveEnds, ReceiveNoMem, ReceiveCrashes,
                      SeekCrashes, Go
  <2>2. reply'[c] = NULL
    BY <1>0, <2>1 DEF Answered
  <2> QED
    BY <1>1, <1>2, <2>2 DEF Answered
<1> QED
  BY <1>3, <1>4

LEMMA DeviceAnswered ==
  ASSUME AllInv, NEW c \in Clients, Answered(c), WriteMessage(c) \/ SeekDevice(c)
  PROVE  Answered(c)'
<1>0. /\ stage \in [Clients -> Stages] /\ c \in Procs /\ req \in [Procs -> Request]
      /\ pc \in [Procs -> InCall \cup {"closed", "idle", "done"}]
  BY OwnTypes DEF AllInv
<1>1. /\ stage[c] = "use" /\ stage'[c] = "device" /\ reply' = reply /\ buffer' = buffer
      /\ pc'[c] = "waiting"
  BY <1>0 DEF WriteMessage, SeekDevice, Go, Call, Goto
<1>2. ~BeingServed(c)' /\ reply'[c] = NULL
  BY <1>1 DEF BeingServed, Answered
<1>3. Text(c)' = Text(c) /\ SeekAt(c)' = SeekAt(c)
  BY <1>1, MessageStays
<1>4. CASE WriteMessage(c)
  <2>1. SeekAt(c) = {} /\ req'[c].op = "write" /\ req'[c].data = Text(c)
    BY <1>0, <1>4 DEF WriteMessage, Call
  <2> QED
    BY <1>2, <1>3, <2>1 DEF Answered, Data
<1>5. CASE SeekDevice(c)
  <2>1. SeekAt(c) # {} /\ req'[c].op = "ioctl"
    BY <1>0, <1>5 DEF SeekDevice, NumbersEnd, Call
  <2> QED
    BY <1>2, <1>3, <2>1 DEF Answered
<1> QED
  BY <1>4, <1>5

\* A step that only goes on with a service: it was there before.
LEMMA StaysAnswered ==
  ASSUME AllInv, NEW c \in Clients, Answered(c), Own(c), BeingServed(c)' => BeingServed(c),
         reply'[c] = reply[c], buffer'[c] = buffer[c],
         stage'[c] = "device" => stage[c] = "device" /\ req'[c] = req[c],
         stage[c] \in {"unlock", "done"} => stage'[c] \in {"unlock", "done"}
  PROVE  Answered(c)'
<1>1. BeingServed(c)' => EchoFrom(c)' = EchoFrom(c) /\ UNCHANGED CL!Stream
  <2>1. BeingServed(c)' => Stays(c)
    BY DEF Own, Starts, Finishes
  <2> QED
    BY <2>1, StreamStays DEF Stays
<1> QED
  BY <1>1, MessageStays DEF Answered, Data

LEMMA EchoAnswered ==
  ASSUME AllInv, NEW c \in Clients, Answered(c), Own(c),
         DeviceDone(c) \/ EchoRead(c) \/ EchoDone(c) \/ EchoRetries(c) \/ EchoCrashes(c)
  PROVE  Answered(c)'
<1>0. stage \in [Clients -> Stages]
  BY OwnTypes DEF AllInv
<1>1. /\ UNCHANGED <<reply, buffer>> /\ stage[c] \in {"device", "echo"}
      /\ stage'[c] \in {"echo", "reply", "unlock", "crashed"}
  BY <1>0 DEF DeviceDone, EchoRead, EchoDone, EchoRetries, EchoCrashes, Go, threadVars
<1>2. BeingServed(c)' => BeingServed(c)
  <2>1. CASE DeviceDone(c)
    <3>1. stage'[c] # "unlock" => pc[c] = "done" /\ stage[c] = "device" /\ ~(ret[c] < 0)
      BY <1>0, <2>1 DEF DeviceDone, Go, Finish, Goto
    <3>2. ret[c] \in Int
      BY OwnTypes DEF AllInv
    <3> QED
      BY <1>1, <3>1, <3>2 DEF BeingServed
  <2>2. CASE ~DeviceDone(c)
    BY <2>2 DEF EchoRead, EchoDone, EchoRetries, EchoCrashes, Go, BeingServed
  <2> QED
    BY <2>1, <2>2
<1> QED
  BY <1>1, <1>2, StaysAnswered

LEMMA ReplyAnswered ==
  ASSUME AllInv, CleanLog, NEW c \in Clients, Answered(c), Reply(c)
  PROVE  Answered(c)'
<1>0. /\ Exchange(c) /\ Placed(c) /\ Inv /\ stage \in [Clients -> Stages]
      /\ fileBuffer \in [Clients -> Seq(Byte) \cup {NULL}]
      /\ reply \in [Clients -> Seq(Byte) \cup {NULL}]
  BY OwnTypes DEF AllInv, ServiceInv, ServerInv
<1>1. /\ stage[c] = "reply" /\ stage'[c] = "unlock" /\ buffer' = buffer
      /\ reply'[c] = UpToNul(fileBuffer[c])
  BY <1>0 DEF Reply, Go
<1>2. ~BeingServed(c)' /\ BeingServed(c)
  BY <1>1 DEF BeingServed
<1> DEFINE stream == CL!Stream
           n      == Len(stream)
           from   == EchoFrom(c)
           bytes  == fileBuffer[c]
<1>3. stream \in Seq(Clean) /\ stream \in Seq(Byte) /\ n \in Nat /\ (stream # <<>> => Last(stream) = NL)
  <2>1. stream \in Seq(Clean) /\ (stream # <<>> => Last(stream) = NL)
    BY <1>0, CleanStream
  <2> HIDE DEF stream
  <2> QED
    BY <2>1, CleanIsSent
<1>4. bytes = SubSeq(stream, from + 1, n) /\ from \in Nat /\ from <= n
  <2>1. /\ bytes \in Seq(Byte) /\ bytes # NULL /\ ubuf[c] = <<>>
        /\ f_pos[c] = n /\ Echoed(c) /\ Len(bytes) + Len(ubuf[c]) <= f_pos[c]
    BY <1>0, <1>1 DEF Placed, Exchange
  <2>2. bytes \o ubuf[c] = bytes /\ Len(ubuf[c]) = 0
    BY <2>1, ConcatEmptySeq, Nothing
  <2>3. from = n - 0 - Len(bytes)
    BY <2>1, <2>2 DEF EchoFrom
  <2>4. bytes = SubSeq(stream, from + 1, n)
    BY <2>1, <2>2 DEF Echoed
  <2>5. Len(bytes) \in Nat /\ Len(bytes) + 0 <= n
    BY <2>1, <2>2
  <2> HIDE DEF bytes, n, from
  <2>6. from \in Nat /\ from <= n
    BY <1>3, <2>3, <2>5
  <2> QED
    BY <2>4, <2>6
<1> HIDE DEF stream, from, bytes
<1>5. /\ bytes \in Seq(Byte) /\ Len(bytes) = n - from
      /\ \A i \in 1 .. n - from : bytes[i] = stream[from + i]
  BY <1>3, <1>4, Part
<1>6. bytes \in Seq(Clean) /\ UpToNul(bytes) = bytes
  <2>1. \A i \in 1 .. n : stream[i] \in Clean
    BY <1>3
  <2>2. \A i \in 1 .. n - from : from + i \in 1 .. n
    BY <1>3, <1>4
  <2>3. bytes \in Seq(Clean)
    BY <1>5, <2>1, <2>2
  <2> QED
    BY <2>3, CleanIsSent
<1>7. reply'[c] = bytes
  BY <1>1, <1>6 DEF bytes
<1>8. bytes # <<>> => Last(bytes) = NL
  <2> SUFFICES ASSUME bytes # <<>> PROVE Last(bytes) = NL
    OBVIOUS
  <2>1. n - from \in 1 .. n - from /\ from + (n - from) = n /\ n # 0
    <3>1. Len(bytes) # 0
      BY <1>5, EmptySeq
    <3> HIDE DEF n
    <3> QED
      BY <1>3, <1>4, <1>5, <3>1
  <2>2. bytes[n - from] = stream[n]
    BY <1>5, <2>1
  <2>3. stream # <<>>
    BY <1>3, <2>1, EmptySeq
  <2> QED
    BY <1>3, <1>5, <2>2, <2>3 DEF Last
<1>9. Wanted(c) => IsSuffix(Text(c), bytes)
  <2> SUFFICES ASSUME Wanted(c) PROVE IsSuffix(Text(c), bytes)
    OBVIOUS
  <2>1. from = 0 /\ EndsIn(stream, Text(c))
    BY <1>2 DEF Answered, from, stream
  <2>2. Len(bytes) = Len(stream) /\ \A i \in 1 .. Len(stream) : bytes[i] = stream[i]
    <3>1. n - 0 = n /\ \A i \in 1 .. n : 0 + i = i
      BY <1>3
    <3> QED
      BY <1>5, <2>1, <3>1
  <2>3. bytes = stream
    BY <1>3, <1>5, <2>2, SameBytes
  <2>4. Text(c) \in Seq(Byte)
    BY TextType DEF AllInv
  <2> QED
    BY <1>5, <2>1, <2>3, <2>4, SuffixIs
<1>10. Whole(c)'
  <2>1. Text(c)' = Text(c) /\ (Wanted(c)' <=> Wanted(c))
    BY <1>1, MessageStays
  <2> QED
    BY <1>7, <1>8, <1>9, <2>1 DEF Whole
<1> QED
  BY <1>1, <1>2, <1>10 DEF Answered

\* The call has its effect: from here on the log ends in the client's line.
LEMMA InDriverAnswered ==
  ASSUME AllInv, CleanLog, Inv', NEW c \in Clients, Answered(c), InDriver(c)
  PROVE  Answered(c)'
<1>0. /\ c \in Procs /\ UNCHANGED threadVars /\ Own(c) /\ Exchange(c)
      /\ pc \in [Procs -> InCall \cup {"closed", "idle", "done"}]
  BY OwnTypes, InDriverOwn DEF AllInv, InDriver
<1>1. /\ UNCHANGED <<stage, reply, buffer, fileBuffer>> /\ req' = req
  BY <1>0 DEF threadVars, InDriver, Lock, Unlock, ClientBody, WriteRefused, WriteHeld,
     WriteNoMem, WriteCommitted, WriteOops, ReadNothing, ReadBytes, ReadFault,
     aesd_adjust_file_offset, Return, callVars
<1>2. CASE BeingServed(c)' => BeingServed(c)
  BY <1>0, <1>1, <1>2, StaysAnswered
<1>3. CASE BeingServed(c)' /\ ~BeingServed(c)
  <2>1. stage[c] = "device" /\ reply'[c] = NULL
    BY <1>1, <1>3 DEF BeingServed, Answered
  <2>2. /\ Text(c)' = Text(c) /\ SeekAt(c)' = SeekAt(c) /\ (Wanted(c)' <=> Wanted(c))
        /\ Data(c)' = Data(c)
    BY <1>1, MessageStays DEF Data
  <2>3. CASE SeekAt(c) # {}
    BY <1>1, <2>1, <2>2, <2>3 DEF Answered, Wanted
  <2>4. CASE SeekAt(c) = {}
    <3>1. req[c].op = "write" /\ Data(c) = Text(c)
      BY <2>1, <2>4 DEF Answered
    <3>2. ~Stays(c)
      BY <1>3 DEF Stays
    <3>3. Adds(c)
      <4>1. ~Lock(c) /\ ~Unlock(c)
        <5>1. Lock(c) => ~BeingServed(c)'
          BY <1>0, <1>1, <2>1 DEF Lock, Goto, BeingServed
        <5>2. Unlock(c) => BeingServed(c)
          <6> SUFFICES ASSUME Unlock(c) PROVE BeingServed(c)
            OBVIOUS
          <6>1. pc[c] = "out" /\ ret' = ret
            BY DEF Unlock, Goto, callVars
          <6> QED
            BY <1>1, <1>3, <2>1, <6>1 DEF BeingServed
        <5> QED
          BY <1>3, <5>1, <5>2
      <4>2. WriteRefused(c) \/ WriteHeld(c) \/ WriteNoMem(c) \/ WriteCommitted(c) \/ WriteOops(c)
        BY <3>1, <4>1 DEF InDriver, ClientBody, ReadNothing, ReadBytes, ReadFault,
           aesd_adjust_file_offset, Holds
      <4> QED
        BY <1>0, <3>2, <4>2, WriteOwn
    <3>4. Data(c) \in Seq(Clean) /\ EchoFrom(c)' = 0 /\ (Extends(Data(c)) \/ Completes(Data(c)))
      BY <3>3, TextsAreClean DEF Adds
    <3>5. Wanted(c) => EndsIn(CL!Stream', Text(c))
      <4> SUFFICES ASSUME Wanted(c) PROVE EndsIn(CL!Stream', Text(c))
        OBVIOUS
      <4>1. ~Extends(Data(c))
        BY <3>1 DEF Extends, Wanted
      <4> QED
        BY <3>1, <3>4, <4>1, CompletedLog
    <3> QED
      BY <1>1, <2>1, <2>2, <2>4, <3>1, <3>4, <3>5 DEF Answered
  <2> QED
    BY <2>3, <2>4
<1> QED
  BY <1>2, <1>3

LEMMA ClientAnswered ==
  ASSUME Writers \subseteq Clients, AllInv, CleanLog, Inv', NEW c \in Clients, Answered(c),
         StartClient(c) \/ ReceiveNoMem(c) \/ ReceiveCrashes(c) \/ ThreadStep(c) \/ InDriver(c)
  PROVE  Answered(c)'
<1>1. Own(c)
  BY ClientStep
<1> QED
  BY <1>1, QuietAnswered, DeviceAnswered, EchoAnswered, ReplyAnswered, InDriverAnswered
     DEF ThreadStep

\* The other clients' answers are as they were.
LEMMA OthersAnswered ==
  ASSUME AllInv, NEW p, NEW d \in Clients, Answered(d), OthersStay(p), d # p,
         BeingServed(d) => UNCHANGED CL!Stream,
         stage'[d] = stage[d], buffer'[d] = buffer[d], reply'[d] = reply[d], req'[d] = req[d]
  PROVE  Answered(d)'
<1>1. (BeingServed(d)' <=> BeingServed(d)) /\ (BeingServed(d) => EchoFrom(d)' = EchoFrom(d))
  BY DEF OthersStay
<1> QED
  BY <1>1, MessageStays DEF Answered, Data

\* The log stays, or a client's text goes to its end.
LogStep ==
  \/ UNCHANGED <<LogOfRing, PendingOfBuffer>>
  \/ \E text \in Texts : Extends(text) \/ Completes(text)

LEMMA CleanLogNext ==
  ASSUME Inv', CleanLog, LogStep
  PROVE  CleanLog'
<1>1. CASE UNCHANGED <<LogOfRing, PendingOfBuffer>>
  BY <1>1 DEF CleanLog
<1>2. ASSUME NEW text \in Texts, Extends(text) PROVE CleanLog'
  <2>1. PendingOfBuffer \o text \in Seq(Clean)
    BY TextsAreClean, CleanJoin DEF CleanLog
  <2> QED
    BY <1>2, <2>1 DEF CleanLog, Extends
<1>3. ASSUME NEW text \in Texts, Completes(text) PROVE CleanLog'
  BY <1>3, TextsAreClean, CompletedLog
<1> QED
  BY <1>1, <1>2, <1>3 DEF LogStep

LEMMA AnswerNext ==
  ASSUME Writers \subseteq Clients, AllInv, AnswerInv, Inv', [ServerNext]_serverVars
  PROVE  AnswerInv'
<1>0. Inv /\ CleanLog /\ \A d \in Clients : Answered(d) /\ d \in Procs /\ d # NULL
  BY OwnTypes DEF AllInv, ServerInv, AnswerInv
<1>1. CASE UNCHANGED serverVars
  <2>1. OthersStay(NULL) /\ UNCHANGED <<LogOfRing, PendingOfBuffer, reply>> /\ UNCHANGED CL!Stream
    BY <1>1, NoStep, StreamStays
  <2>2. UNCHANGED <<stage, buffer, reply, req>>
    BY <1>1 DEF serverVars, vars, callVars, threadVars
  <2>3. \A d \in Clients : Answered(d)'
    BY <1>0, <2>1, <2>2, OthersAnswered
  <2> QED
    BY <1>0, <2>1, <2>3, CleanLogNext DEF LogStep, AnswerInv
<1>2. ASSUME NEW c \in Clients,
             StartClient(c) \/ ReceiveNoMem(c) \/ ReceiveCrashes(c) \/ ThreadStep(c) \/ InDriver(c)
      PROVE  AnswerInv'
  <2>1. Own(c) /\ OthersStay(c) /\ Answered(c)'
    BY <1>0, <1>2, ClientStep, ClientAnswered
  <2>2. LogStep
    BY <2>1 DEF Own, Stays, Starts, Adds, Seeks, Finishes, LogStep
  <2>3. ASSUME NEW d \in Clients, d # c PROVE Answered(d)'
    <3>1. DriverStep(c) \/ UNCHANGED vars
      BY <1>2, ClientDrives DEF AllInv
    <3>2. req'[d] = req[d]
      BY <1>0, <2>3, <3>1, StepIsLocal DEF Untouched, vars, callVars
    <3>3. stage'[d] = stage[d] /\ buffer'[d] = buffer[d]
      BY <1>2, <2>3, ThreadsApart DEF AllInv, Apart
    <3>4. reply'[d] = reply[d]
      <4>1. reply \in [Clients -> Seq(Byte) \cup {NULL}]
        BY OwnTypes DEF AllInv
      <4> QED
        BY <2>1, <2>3, <4>1 DEF Own, Stays, Starts, Finishes
    <3>5. BeingServed(d) => UNCHANGED CL!Stream
      <4> SUFFICES ASSUME BeingServed(d) PROVE UNCHANGED CL!Stream
        OBVIOUS
      <4>1. fileMutex = d
        BY ServedHolds DEF AllInv
      <4>2. ~Starts(c)
        BY <2>3, <4>1 DEF Starts
      <4>3. UNCHANGED LogOfRing
        BY <2>1, <4>2 DEF Own, Stays, Finishes
      <4> QED
        BY <4>3, StreamStays
    <3> QED
      BY <1>0, <2>1, <2>3, <3>2, <3>3, <3>4, <3>5, OthersAnswered
  <2> QED
    BY <1>0, <2>1, <2>2, <2>3, CleanLogNext DEF AnswerInv
<1>3. ASSUME NEW p \in Procs, Outside(p) PROVE AnswerInv'
  <2>1. p \notin Clients /\ OthersStay(p) /\ UNCHANGED <<LogOfRing, PendingOfBuffer, reply>>
    BY <1>3, OutsideStep
  <2>2. DriverStep(p) /\ UNCHANGED threadVars
    BY <1>0, <1>3, OutsideCalls DEF Outside, DriverStep
  <2>3. ASSUME NEW d \in Clients PROVE Answered(d)'
    <3>1. req'[d] = req[d] /\ d # p
      BY <1>0, <2>1, <2>2, StepIsLocal DEF Untouched
    <3>2. UNCHANGED CL!Stream
      BY <2>1, StreamStays
    <3> QED
      BY <1>0, <2>1, <2>2, <3>1, <3>2, OthersAnswered DEF threadVars
  <2> QED
    BY <1>0, <2>1, <2>3, CleanLogNext DEF LogStep, AnswerInv
<1> QED
  BY <1>1, <1>2, <1>3 DEF ServerNext

LEMMA AnswerInit == ServerInit => AnswerInv
<1> SUFFICES ASSUME ServerInit PROVE AnswerInv
  OBVIOUS
<1>1. LogOfRing = <<>> /\ PendingOfBuffer = <<>>
  <2>1. Entries(circular_buffer) = 0
    BY DEF ServerInit, Init, EmptyBuffer, Entries, IsEmpty
  <2> QED
    BY <2>1 DEF ServerInit, Init, LogOfRing, PendingOfBuffer
<1>2. CleanLog
  <2>1. <<>> \in Seq(Clean) /\ <<>> \in Seq(Seq(Clean)) /\ Len(<<>>) = 0
    BY EmptySeq
  <2> QED
    BY <1>1, <2>1 DEF CleanLog
<1>3. \A c \in Clients : Answered(c)
  BY DEF ServerInit, Answered, BeingServed
<1> QED
  BY <1>2, <1>3 DEF AnswerInv

\* With the server as the only writer no reply ends within a line, and a client's own
\* line comes last in its reply, whoever else was served before, and in whatever parts the echo
\* was read (client.c:133-175, 196-255).
THEOREM AnswersAreWhole ==
  ASSUME Writers \subseteq Clients
  PROVE  ServerSpec => []RepliesWhole
<1>1. ServerInit => AnswerInv
  BY AnswerInit
<1>2. AllInv /\ AnswerInv /\ Inv' /\ [ServerNext]_serverVars => AnswerInv'
  BY AnswerNext
<1>3. AllInv => Inv
  BY DEF AllInv, ServerInv
<1>4. AnswerInv => RepliesWhole
  BY DEF AnswerInv, Answered, Whole, Wanted, RepliesWhole
<1> QED
  BY <1>1, <1>2, <1>3, <1>4, AlwaysAllInv, PTL DEF ServerSpec
=============================================================================
