---------------------------- MODULE ServerDevice ----------------------------
(***************************************************************************)
(* The server's client threads on the real driver: handle_client and       *)
(* echo_buffer of server/client.c (the device build) under fileMutex, with *)
(* every call they make on the device as the steps of AesdChar.  The main  *)
(* thread is AesdSocket's subject; here a client simply gets its thread    *)
(* and the device file that main opened for it.                            *)
(*                                                                         *)
(*   away --> lock --> receive --> use --> device --> echo --> reply -->   *)
(*   unlock --> done                                                       *)
(*                                                                         *)
(* Processes that are not the server's may use the device meanwhile.       *)
(***************************************************************************)
EXTENDS AesdChar, SequencesExt

CONSTANTS
  Clients,  \* the server's clients, and their threads: some of the processes
  SEEK,     \* "AESDCHAR_IOCSEEKTO:" and any digits behind it, taken for one byte
  COMMA,    \* ',' and any digits behind it, likewise
  Sends,    \* BOUND: what clients send
  FSIZE     \* the size of echo_buffer's buffer, 4096 in the code

ASSUME ServerDeviceAssumption ==
  /\ Clients \subseteq Writers
  /\ SEEK \in Byte \ {NL, NUL} /\ COMMA \in Byte \ {NL, NUL, SEEK}
  /\ Sends \subseteq Seq(Byte)
  /\ FSIZE \in Nat /\ MaxOps * (MaxWriteSize - 1) < FSIZE

VARIABLES
  stage,       \* how far each client's thread is
  fileMutex,   \* the client whose thread holds it, or NULL
  input,       \* what each client sends and the server has not received yet
  buffer,      \* the message received so far
  fileBuffer,  \* the reply put together so far; NULL when malloc failed
  reply        \* what the client was sent

threadVars == <<stage, fileMutex, input, buffer, fileBuffer, reply>>
serverVars == <<vars, threadVars>>

ServerInit ==
  /\ Init
  /\ stage = [c \in Clients |-> "away"]
  /\ fileMutex = NULL
  /\ input \in [Clients -> Sends]
  /\ buffer = [c \in Clients |-> <<>>]
  /\ fileBuffer = [c \in Clients |-> <<>>]
  /\ reply = [c \in Clients |-> NULL]

Go(c, from, to) == stage[c] = from /\ stage' = [stage EXCEPT ![c] = to]

\* strlen's bytes: those before the first NUL.
UpToNul(s) ==
  SubSeq(s, 1, Cardinality({i \in 1 .. Len(s) : \A j \in 1 .. i : s[j] # NUL}))

-----------------------------------------------------------------------------
(* threadfunc, and the message. *)

StartClient(c) ==
  /\ Go(c, "away", "lock")
  /\ aesd_open(c)
  /\ UNCHANGED <<fileMutex, input, buffer, fileBuffer, reply>>

\* Mutant of LockFile: nothing is locked.
LockFile_Missing(c) ==
  /\ Go(c, "lock", "receive")
  /\ UNCHANGED <<vars, fileMutex, input, buffer, fileBuffer, reply>>

LockFile(c) ==
  /\ Go(c, "lock", "receive")
  /\ fileMutex = NULL /\ fileMutex' = c
  /\ UNCHANGED <<vars, input, buffer, fileBuffer, reply>>

\* One read from the socket brings any part of what is under way.  The message
\* is complete when such a part ends in a newline, and not before.
Receive(c) ==
  \E n \in 1 .. Len(input[c]) :
    /\ Go(c, "receive", IF input[c][n] = NL THEN "use" ELSE "receive")
    /\ buffer' = [buffer EXCEPT ![c] = @ \o SubSeq(input[c], 1, n)]
    /\ input' = [input EXCEPT ![c] = SubSeq(@, n + 1, Len(@))]
    /\ UNCHANGED <<vars, fileMutex, fileBuffer, reply>>

\* The end of the connection, or an error: what is there is the message.
ReceiveEnds(c) ==
  /\ Go(c, "receive", "use")
  /\ UNCHANGED <<vars, fileMutex, input, buffer, fileBuffer, reply>>

\* realloc fails between two parts.
ReceiveNoMem(c) ==
  /\ Go(c, "receive", "unlock")
  /\ buffer[c] # <<>>
  /\ UNCHANGED <<vars, fileMutex, input, buffer, fileBuffer, reply>>

\* The first malloc is not checked: bzero crashes.
ReceiveCrashes(c) ==
  /\ Go(c, "receive", "crashed")
  /\ buffer[c] = <<>>
  /\ UNCHANGED <<vars, fileMutex, input, buffer, fileBuffer, reply>>

-----------------------------------------------------------------------------
(* The message is written to the device, or it seeks there. *)

Text(c) == UpToNul(buffer[c])

SeekAt(c) == {i \in 1 .. Len(Text(c)) : Text(c)[i] = SEEK}

WriteMessage(c) ==
  /\ Go(c, "use", "device") /\ SeekAt(c) = {}
  /\ Call(c, [op |-> "write", data |-> Text(c), write_count |-> WriteCount(Len(Text(c)))])
  /\ UNCHANGED <<fileMutex, input, buffer, fileBuffer, reply>>

\* strstr finds a comma behind the command, and a newline behind that.
NumbersEnd(c) ==
  \E i \in SeekAt(c), j, k \in 1 .. Len(Text(c)) :
    i < j /\ j < k /\ Text(c)[j] = COMMA /\ Text(c)[k] = NL

\* The numbers are copied to tmp_str, which is never terminated: atoi goes on
\* with whatever the stack holds behind them, so it may return any number.
SeekDevice(c) ==
  /\ Go(c, "use", "device") /\ NumbersEnd(c)
  /\ \E cmd \in 0 .. MaxOps, offset \in SeekOffsets :
       Call(c, [op |-> "ioctl", write_cmd |-> cmd, write_cmd_offset |-> offset])
  /\ UNCHANGED <<fileMutex, input, buffer, fileBuffer, reply>>

\* Where the comma or the newline is missing strncpy is given a huge length, and
\* where there are more digits than tmp_str holds it runs over the stack: the
\* server crashes.
SeekCrashes(c) ==
  /\ Go(c, "use", "crashed") /\ SeekAt(c) # {}
  /\ UNCHANGED <<vars, fileMutex, input, buffer, fileBuffer, reply>>

\* write or ioctl returns.  On success echo_buffer allocates its buffer, and
\* goes on when it gets none.
DeviceDone(c) ==
  /\ Go(c, "device", IF ret[c] < 0 THEN "unlock" ELSE "echo")
  /\ Finish(c)
  /\ \E bytes \in {<<>>, NULL} : fileBuffer' = [fileBuffer EXCEPT ![c] = bytes]
  /\ UNCHANGED <<fileMutex, input, buffer, reply>>

-----------------------------------------------------------------------------
(* echo_buffer. *)

EchoRead(c) ==
  /\ stage[c] = "echo"
  /\ Call(c, [op |-> "read", count |-> FSIZE])
  /\ UNCHANGED threadVars

\* Mutant of EchoEnd: the loop ends with the first command.
EchoEnd_Early(c) == TRUE

\* rsize == 0, or rpos >= FSIZE
EchoEnd(c) == ret[c] = 0 \/ Len(fileBuffer[c]) + ret[c] >= FSIZE

EchoDone(c) ==
  /\ ret[c] >= 0 /\ fileBuffer[c] # NULL
  /\ Go(c, "echo", IF EchoEnd(c) THEN "reply" ELSE "echo")
  /\ Finish(c)
  /\ fileBuffer' = [fileBuffer EXCEPT ![c] = @ \o ubuf[c]]
  /\ UNCHANGED <<fileMutex, input, buffer, reply>>

\* A read that fails is tried again.
EchoRetries(c) ==
  /\ stage[c] = "echo" /\ ret[c] < 0
  /\ Finish(c)
  /\ UNCHANGED threadVars

\* fileBuffer[rpos] = '\0' without a buffer.
EchoCrashes(c) ==
  /\ ret[c] = 0 /\ fileBuffer[c] = NULL
  /\ Go(c, "echo", "crashed")
  /\ Finish(c)
  /\ UNCHANGED <<fileMutex, input, buffer, fileBuffer, reply>>

Reply(c) ==
  /\ Go(c, "reply", "unlock")
  /\ reply' = [reply EXCEPT ![c] = UpToNul(fileBuffer[c])]
  /\ UNCHANGED <<vars, fileMutex, input, buffer, fileBuffer>>

\* Mutant of UnlockFile: the mutex is kept.
UnlockFile_Kept(c) ==
  /\ Go(c, "unlock", "done")
  /\ UNCHANGED <<vars, fileMutex, input, buffer, fileBuffer, reply>>

UnlockFile(c) ==
  /\ Go(c, "unlock", "done")
  /\ fileMutex' = NULL
  /\ UNCHANGED <<vars, input, buffer, fileBuffer, reply>>

-----------------------------------------------------------------------------
(* The driver's part of a client's call.  Its buffers are good, the one that  *)
(* malloc did not return excepted, and the kernel delivers signals to main.   *)

ClientBody(c) ==
  \/ WriteRefused(c) \/ WriteHeld(c) \/ WriteNoMem(c) \/ WriteCommitted(c) \/ WriteOops(c)
  \/ ReadNothing(c)
  \/ fileBuffer[c] # NULL /\ ReadBytes(c)
  \/ fileBuffer[c] = NULL /\ ReadFault(c)
  \/ aesd_adjust_file_offset(c)

InDriver(c) ==
  /\ Lock(c) \/ ClientBody(c) \/ Unlock(c)
  /\ UNCHANGED threadVars

\* Everybody else's calls.
Outside(p) ==
  /\ p \notin Clients
  /\ \/ p \in Writers /\ CallWrite(p)
     \/ p \in Readers /\ (CallRead(p) \/ CallLlseek(p) \/ CallSeekTo(p) \/ IoctlRefused(p))
     \/ aesd_open(p) \/ aesd_release(p)
     \/ Lock(p) \/ Interrupted(p) \/ Body(p) \/ Unlock(p) \/ Finish(p)
  /\ UNCHANGED threadVars

\* A crash takes all threads with it.
Crashed == \E c \in Clients : stage[c] = "crashed"

ThreadStep(c) ==
  /\ ~Crashed
  /\ \/ LockFile(c) \/ Receive(c) \/ ReceiveEnds(c)
     \/ WriteMessage(c) \/ SeekDevice(c) \/ SeekCrashes(c) \/ DeviceDone(c)
     \/ EchoRead(c) \/ EchoDone(c) \/ EchoRetries(c) \/ EchoCrashes(c)
     \/ Reply(c) \/ UnlockFile(c)

ServerNext ==
  \/ \E c \in Clients :
       \/ ~Crashed /\ (StartClient(c) \/ ReceiveNoMem(c) \/ ReceiveCrashes(c))
       \/ ThreadStep(c) \/ InDriver(c)
  \/ \E p \in Procs : Outside(p)

\* The scheduler runs every thread that can run, clients send their message or
\* hang up, and the kernel does its part of a call (see Fairness of AesdChar).
ServerFairness ==
  /\ \A c \in Clients :
       WF_serverVars(ThreadStep(c)) /\ SF_serverVars(InDriver(c))
  /\ \A p \in Procs :
       /\ WF_serverVars(Body(p) /\ Outside(p)) /\ WF_serverVars(Unlock(p) /\ Outside(p))
       /\ SF_serverVars(Lock(p) /\ Outside(p))

ServerSpec == ServerInit /\ [][ServerNext]_serverVars /\ ServerFairness

-----------------------------------------------------------------------------
Stages ==
  {"away", "lock", "receive", "use", "device", "echo", "reply", "unlock", "done", "crashed"}

Busy == {"receive", "use", "device", "echo", "reply", "unlock"}

\* The types of what the threads keep; a thread in its exchange holds fileMutex.
ServerTypeOK ==
  /\ stage \in [Clients -> Stages]
  /\ fileMutex \in Clients \cup {NULL}
  /\ \A c \in Clients : stage[c] \in Busy => fileMutex = c
  /\ input \in [Clients -> Seq(Byte)]
  /\ buffer \in [Clients -> Seq(Byte)]
  /\ fileBuffer \in [Clients -> Seq(Byte) \cup {NULL}]
  /\ reply \in [Clients -> Seq(Byte) \cup {NULL}]

\* The reply and the NUL behind it are inside echo_buffer's buffer, though each
\* read is allowed FSIZE bytes wherever it starts (client.c:139-158), and
\* whatever others write to the device during the echo.
EchoFits ==
  \A c \in Clients :
    fileBuffer[c] # NULL =>
      Len(fileBuffer[c]) + (IF stage[c] = "echo" THEN Len(ubuf[c]) ELSE 0) < FSIZE

\* A reply, if there is one, ends with a line's end, never in the middle of a line,
\* and its own line comes last if the client sent one: nothing of another client's
\* follows, and nothing is lost between the write and the end of the echo
\* (client.c:133-175, 196-255).
RepliesWhole ==
  \A c \in Clients :
    reply[c] # NULL =>
      /\ reply[c] # <<>> => Last(reply[c]) = NL
      /\ SeekAt(c) = {} /\ Text(c) # <<>> /\ Last(Text(c)) = NL =>
           IsSuffix(Text(c), reply[c])

\* The device is down for good: a thread died in it with the mutex, the server
\* crashed, or a thread without a buffer reads for ever.
Stuck ==
  \/ Crashed \/ \E p \in Procs : pc[p] = "killed"
  \/ \E c \in Clients : stage[c] = "echo" /\ fileBuffer[c] = NULL

\* A thread that waits for fileMutex gets through its client's message and the
\* whole reply, though others keep the device busy (threading.c:24-35).
ClientsAnswered ==
  \A c \in Clients : stage[c] = "lock" ~> stage[c] = "done" \/ Stuck
=============================================================================
