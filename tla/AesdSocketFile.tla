--------------------------- MODULE AesdSocketFile ---------------------------
(***************************************************************************)
(* The server as it is built with USE_AESD_CHAR_DEVICE 0: all threads      *)
(* share one stream of stdio on one file, and a timer sends SIGUSR1 every  *)
(* ten seconds, whose handler adds a timestamp.  Handler and clients'      *)
(* threads keep each other out with fileMutex, but the handler runs on     *)
(* whichever thread the kernel picks, also on one that holds the mutex.    *)
(*                                                                         *)
(*   client:  away --> lock --> receive --> flush --> tell --> read -->    *)
(*            send --> unlock --> done                                     *)
(*   handler: lock --> unlock --> flush                                    *)
(*                                                                         *)
(* The reaping of threads and the end of the server are AesdSocket's       *)
(* subject.  Reading, writing and flushing the file do not fail here.      *)
(***************************************************************************)
EXTENDS Naturals, Sequences

CONSTANTS
  Clients,  \* the clients, and their threads; a client's line is the client
  Main,     \* the thread that accepts
  Stamp,    \* "timestamp:..."
  NULL,     \* nobody, nothing
  MaxTicks  \* BOUND: how often the timer expires

ASSUME FileAssumption ==
  /\ Main \notin Clients /\ Stamp \notin Clients
  /\ NULL \notin Clients \cup {Main} /\ NULL \notin Seq(Clients \cup {Stamp})
  /\ MaxTicks \in Nat

Threads == Clients \cup {Main}

VARIABLES
  stage,      \* how far each client's thread is
  handler,    \* how far each thread is in the signal handler; "none" outside
  pending,    \* SIGUSR1 waits for a thread that does not block it
  ticks,      \* how often the timer has expired
  fileMutex,  \* the thread that holds it, or NULL
  stream,     \* what was printed to the stream and not written to the file yet
  file,       \* what is in the file
  buffer,     \* each client's message: its line, or nothing
  fileSize,   \* what ftell returned
  fileBuffer, \* what fread read
  reply       \* what the client was sent

fileVars   == <<stream, file>>
clientVars == <<buffer, fileSize, fileBuffer, reply>>
timerVars  == <<pending, ticks>>
vars == <<stage, handler, timerVars, fileMutex, fileVars, clientVars>>

Init ==
  /\ stage = [c \in Clients |-> "away"]
  /\ handler = [t \in Threads |-> "none"]
  /\ pending = FALSE /\ ticks = 0
  /\ fileMutex = NULL
  /\ stream = <<>> /\ file = <<>>
  /\ buffer = [c \in Clients |-> <<>>]
  /\ fileSize = [c \in Clients |-> 0]
  /\ fileBuffer = [c \in Clients |-> <<>>]
  /\ reply = [c \in Clients |-> NULL]

\* A thread in the handler does nothing else.
Go(c, from, to) ==
  /\ handler[c] = "none"
  /\ stage[c] = from /\ stage' = [stage EXCEPT ![c] = to]
  /\ UNCHANGED <<handler, timerVars>>

-----------------------------------------------------------------------------
(* A client's thread: threadfunc and handle_client. *)

\* accept returns; where the handler interrupted it, it is called again.
Accept(c) ==
  /\ handler[Main] = "none"
  /\ Go(c, "away", "lock")
  /\ UNCHANGED <<fileMutex, fileVars, clientVars>>

LockFile(c) ==
  /\ Go(c, "lock", "receive")
  /\ fileMutex = NULL /\ fileMutex' = c
  /\ UNCHANGED <<fileVars, clientVars>>

\* The message ends with a newline, with the connection, with an error or when
\* realloc fails: what has come so far is printed to the stream, if anything.
Receive(c) ==
  /\ Go(c, "receive", "flush")
  /\ \E message \in {<<c>>, <<>>} :
       /\ buffer' = [buffer EXCEPT ![c] = message]
       /\ stream' = stream \o message
  /\ UNCHANGED <<fileMutex, file, fileSize, fileBuffer, reply>>

\* The first malloc is not checked: bzero crashes.
ReceiveNoMem(c) ==
  /\ Go(c, "receive", "crashed")
  /\ UNCHANGED <<fileMutex, fileVars, clientVars>>

Flush(c) ==
  /\ Go(c, "flush", "tell")
  /\ file' = file \o stream /\ stream' = <<>>
  /\ UNCHANGED <<fileMutex, clientVars>>

\* Mutant of Tell: the size is one more, for a NUL.
Tell_WithNul(c) ==
  /\ Go(c, "tell", "read")
  /\ fileSize' = [fileSize EXCEPT ![c] = Len(file) + Len(stream) + 1]
  /\ UNCHANGED <<fileMutex, fileVars, buffer, fileBuffer, reply>>

\* The stream is at its end: it appends, and has just been flushed.
Tell(c) ==
  /\ Go(c, "tell", "read")
  /\ fileSize' = [fileSize EXCEPT ![c] = Len(file) + Len(stream)]
  /\ UNCHANGED <<fileMutex, fileVars, buffer, fileBuffer, reply>>

\* fseek flushes, then fread gets what there is, at most fileSize.
ReadBack(c) ==
  /\ Go(c, "read", "send")
  /\ file' = file \o stream /\ stream' = <<>>
  /\ fileBuffer' = [fileBuffer EXCEPT ![c] = SubSeq(file', 1, fileSize[c])]
  /\ UNCHANGED <<fileMutex, buffer, fileSize, reply>>

\* malloc for the reply fails, and fread gets a null pointer.
ReadNoMem(c) ==
  /\ Go(c, "read", "crashed")
  /\ UNCHANGED <<fileMutex, fileVars, clientVars>>

\* The client may be gone: the write fails.
Send(c) ==
  /\ Go(c, "send", "unlock")
  /\ reply' \in {reply, [reply EXCEPT ![c] = fileBuffer[c]]}
  /\ UNCHANGED <<fileMutex, fileVars, buffer, fileSize, fileBuffer>>

UnlockFile(c) ==
  /\ Go(c, "unlock", "done")
  /\ fileMutex' = NULL
  /\ UNCHANGED <<fileVars, clientVars>>

-----------------------------------------------------------------------------
(* The timer, and the handler of SIGUSR1. *)

\* The timer expires.  A signal that is pending already is not queued twice.
Tick ==
  /\ ticks < MaxTicks /\ ticks' = ticks + 1
  /\ pending' = TRUE
  /\ UNCHANGED <<stage, handler, fileMutex, fileVars, clientVars>>

Alive == {Main} \cup {c \in Clients : stage[c] \notin {"away", "done"}}

At(t, from, to) ==
  /\ handler[t] = from /\ handler' = [handler EXCEPT ![t] = to]
  /\ UNCHANGED <<stage, clientVars>>

\* The kernel picks any thread that is not in the handler already.
Deliver(t) ==
  /\ pending /\ pending' = FALSE
  /\ t \in Alive /\ At(t, "none", "lock")
  /\ UNCHANGED <<ticks, fileMutex, fileVars>>

\* localtime or strftime fails: the handler returns at once.
NoTime(t) ==
  /\ pending /\ pending' = FALSE
  /\ t \in Alive /\ At(t, "none", "none")
  /\ UNCHANGED <<ticks, fileMutex, fileVars>>

\* Mutant of TimerLock: the stamp is printed without the mutex.
TimerLock_Missing(t) ==
  /\ At(t, "lock", "unlock")
  /\ fileMutex' = fileMutex
  /\ stream' = Append(stream, Stamp)
  /\ UNCHANGED <<timerVars, file>>

\* A thread that holds the mutex itself waits here for ever.
TimerLock(t) ==
  /\ At(t, "lock", "unlock")
  /\ fileMutex = NULL /\ fileMutex' = t
  /\ stream' = Append(stream, Stamp)
  /\ UNCHANGED <<timerVars, file>>

\* Mutant of TimerUnlock: the handler keeps the mutex.
TimerUnlock_Missing(t) ==
  /\ At(t, "unlock", "flush")
  /\ UNCHANGED <<timerVars, fileMutex, fileVars>>

TimerUnlock(t) ==
  /\ At(t, "unlock", "flush")
  /\ fileMutex' = NULL
  /\ UNCHANGED <<timerVars, fileVars>>

\* Without the mutex, whatever others do with the stream.
TimerFlush(t) ==
  /\ At(t, "flush", "none")
  /\ file' = file \o stream /\ stream' = <<>>
  /\ UNCHANGED <<timerVars, fileMutex>>

-----------------------------------------------------------------------------
Crashed == \E c \in Clients : stage[c] = "crashed"

ClientStep(c) ==
  ~Crashed /\ (\/ LockFile(c) \/ Receive(c) \/ Flush(c) \/ Tell(c) \/ ReadBack(c)
               \/ Send(c) \/ UnlockFile(c))

TimerStep(t) == ~Crashed /\ (TimerLock(t) \/ TimerUnlock(t) \/ TimerFlush(t))

Next ==
  \/ \E c \in Clients :
       ClientStep(c) \/ (~Crashed /\ (Accept(c) \/ ReceiveNoMem(c) \/ ReadNoMem(c)))
  \/ \E t \in Threads : TimerStep(t) \/ (~Crashed /\ (Deliver(t) \/ NoTime(t)))
  \/ ~Crashed /\ Tick

\* Threads that can run do run, and clients send their line or hang up.  Who
\* waits for the mutex needs no more: each thread takes it once for its client,
\* and once for each of a few ticks.
Fairness ==
  /\ \A c \in Clients : WF_vars(ClientStep(c))
  /\ \A t \in Threads : WF_vars(TimerStep(t))

Spec == Init /\ [][Next]_vars /\ Fairness

-----------------------------------------------------------------------------
\* Where a thread has fileMutex.
Exchanging(c) == stage[c] \in {"receive", "flush", "tell", "read", "send", "unlock"}

Stamping(t) == handler[t] = "unlock"

\* The types of all of it; what a client reads back is part of the file.
TypeOK ==
  /\ stage \in [Clients -> {"away", "lock", "receive", "flush", "tell", "read", "send",
                            "unlock", "done", "crashed"}]
  /\ handler \in [Threads -> {"none", "lock", "unlock", "flush"}]
  /\ pending \in BOOLEAN /\ ticks \in 0 .. MaxTicks
  /\ fileMutex \in Threads \cup {NULL}
  /\ stream \in Seq(Clients \cup {Stamp}) /\ file \in Seq(Clients \cup {Stamp})
  /\ buffer \in [Clients -> Seq(Clients)]
  /\ fileSize \in [Clients -> 0 .. Len(file)]
  /\ fileBuffer \in [Clients -> Seq(Clients \cup {Stamp})]
  /\ reply \in [Clients -> Seq(Clients \cup {Stamp}) \cup {NULL}]

\* Nobody but the owner of fileMutex is between a client's message and its
\* reply, or prints a timestamp, on whichever thread the handler runs; and a
\* thread does not do both at once (threading.c:24-35, aesdsocket.c:453-457).
OneUserOfFile ==
  /\ \A t \in Threads : Stamping(t) => fileMutex = t
  /\ \A c \in Clients : Exchanging(c) => fileMutex = c /\ ~Stamping(c)

\* A thread was interrupted while it held the mutex its handler now waits for.
SelfLocked == \E t \in Threads : handler[t] = "lock" /\ fileMutex = t

\* Every client that was accepted is served (threading.c:24-36), unless a
\* handler got stuck on its own thread's mutex, or memory ran out.
ClientsServed ==
  \A c \in Clients : stage[c] = "lock" ~> stage[c] = "done" \/ SelfLocked \/ Crashed

\* Every handler returns (aesdsocket.c:428-460), main's included, so that clients
\* are accepted again, with the same exceptions.
HandlersReturn ==
  \A t \in Threads : handler[t] # "none" ~> handler[t] = "none" \/ SelfLocked \/ Crashed

\* Clients and handlers all get through, though they wait for the same mutex on
\* the same threads.
AllGetThrough == ClientsServed /\ HandlersReturn

\* When a handler has got stuck, it is for all: from then on no client is sent
\* anything, and no timestamp is added.
StuckForGood ==
  [][SelfLocked => SelfLocked' /\ UNCHANGED <<reply, file \o stream>>]_vars
=============================================================================
