------------------------ MODULE AesdSocketFileProofs ------------------------
(***************************************************************************)
(* Theorems about the file build of the server, for any clients and any    *)
(* number of ticks, with proofs.                                           *)
(***************************************************************************)
EXTENDS AesdSocketFileRefinement, SequenceTheorems, TLAPS

USE FileAssumption

Line == Clients \cup {Stamp}

\* What a client's thread has done so far, and what it has to do yet, agree:
\* its line is the last one printed, all of it is in the file once it is
\* flushed, and stays so until the reply is out.
ExchangeInv(c) ==
  /\ Unsent(c) => Len(Printed) > 0 /\ Printed[Len(Printed)] = c
  /\ stage[c] \in {"tell", "read", "send"} => stream = <<>>
  /\ stage[c] = "read" => fileSize[c] = Len(file)
  /\ stage[c] = "send" => fileBuffer[c] = file
  /\ stage[c] \notin {"unlock", "done"} => reply[c] = NULL

FileInv == TypeOK /\ OneUserOfFile /\ \A c \in Clients : ExchangeInv(c)

-----------------------------------------------------------------------------
(* Sequences. *)

LEMMA PrintedType ==
  ASSUME TypeOK
  PROVE  /\ file \in Seq(Line) /\ stream \in Seq(Line)
         /\ Printed \in Seq(Line) /\ Len(Printed) = Len(file) + Len(stream)
         /\ Len(file) \in Nat /\ Len(stream) \in Nat /\ Len(Printed) \in Nat
BY DEF TypeOK, Line, Printed

LEMMA Flushed ==
  ASSUME TypeOK, file' = file \o stream, stream' = <<>>
  PROVE  Printed' = Printed /\ (stream = <<>> => file' = file) /\ Len(file) <= Len(file')
<1>1. file \o stream \in Seq(Line) /\ Len(file \o stream) = Len(file) + Len(stream)
  BY PrintedType DEF Printed
<1>2. (file \o stream) \o <<>> = file \o stream /\ file \o <<>> = file
  BY <1>1, PrintedType, ConcatEmptySeq
<1>3. Len(file) <= Len(file')
  BY <1>1, PrintedType
<1> QED
  BY <1>2, <1>3 DEF Printed

LEMMA Added ==
  ASSUME TypeOK, NEW x \in Line
  PROVE  /\ file \o Append(stream, x) = Append(Printed, x)
         /\ file \o (stream \o <<x>>) = Append(Printed, x)
BY PrintedType DEF Printed

LEMMA TakenBack ==
  ASSUME NEW s \in Seq(Line), NEW x \in Line
  PROVE  /\ SubSeq(Append(s, x), 1, Len(Append(s, x)) - 1) = s
         /\ Len(Append(s, x)) > 0 /\ Append(s, x)[Len(Append(s, x))] = x
OBVIOUS

LEMMA PutBack ==
  ASSUME NEW s \in Seq(Line), Len(s) > 0, NEW x, s[Len(s)] = x
  PROVE  s = Append(SubSeq(s, 1, Len(s) - 1), x)
OBVIOUS

-----------------------------------------------------------------------------
(* One client's step is not seen by another. *)

Kept(d) ==
  /\ stage'[d] = stage[d] /\ buffer'[d] = buffer[d] /\ fileSize'[d] = fileSize[d]
  /\ fileBuffer'[d] = fileBuffer[d] /\ reply'[d] = reply[d]

\* The stream may be flushed under a client's hands,
LEMMA FlushHarmless ==
  ASSUME TypeOK, NEW d \in Clients, ExchangeInv(d), Kept(d),
         \/ UNCHANGED fileVars
         \/ file' = file \o stream /\ stream' = <<>>
  PROVE  ExchangeInv(d)'
<1>1. Printed' = Printed /\ (stream = <<>> => stream' = <<>> /\ file' = file)
  BY Flushed DEF fileVars, Printed
<1> QED
  BY <1>1 DEF ExchangeInv, Kept, Unsent

\* and more be printed when it is not its turn.
LEMMA IdleKept ==
  ASSUME NEW d \in Clients, ExchangeInv(d), Kept(d),
         stage[d] \notin {"flush", "tell", "read", "send"}
  PROVE  ExchangeInv(d)'
BY DEF ExchangeInv, Kept, Unsent

LEMMA OneAtATime ==
  ASSUME FileInv, NEW d \in Clients, fileMutex # d
  PROVE  stage[d] \notin {"flush", "tell", "read", "send"}
BY DEF FileInv, OneUserOfFile, Exchanging, Threads

\* What a client's thread does on its own.
OwnStep(c) ==
  /\ handler[c] = "none" /\ UNCHANGED <<handler, timerVars>>
  /\ stage' = [stage EXCEPT ![c] = stage'[c]]
  /\ \A d \in Clients \ {c} : Kept(d)

LEMMA OwnSteps ==
  ASSUME FileInv, NEW c \in Clients,
         ClientStep(c) \/ Accept(c) \/ ReceiveNoMem(c) \/ ReadNoMem(c)
  PROVE  OwnStep(c)
<1>1. PICK from, to : Go(c, from, to)
  BY DEF ClientStep, Accept, ReceiveNoMem, ReadNoMem, LockFile, Receive, Flush, Tell, ReadBack,
         Send, UnlockFile
<1>2. /\ handler[c] = "none" /\ UNCHANGED <<handler, timerVars>>
      /\ stage' = [stage EXCEPT ![c] = stage'[c]]
  BY <1>1 DEF Go, FileInv, TypeOK
<1>3. ASSUME NEW d \in Clients \ {c}
      PROVE  /\ buffer'[d] = buffer[d] /\ fileSize'[d] = fileSize[d]
             /\ fileBuffer'[d] = fileBuffer[d] /\ reply'[d] = reply[d]
  <2>1. CASE Accept(c) \/ LockFile(c) \/ ReceiveNoMem(c) \/ ReadNoMem(c) \/ UnlockFile(c) \/ Flush(c)
    BY <2>1 DEF Accept, LockFile, ReceiveNoMem, ReadNoMem, UnlockFile, Flush, clientVars
  <2>2. CASE Receive(c)
    BY <2>2, <1>3 DEF Receive
  <2>3. CASE Tell(c)
    BY <2>3, <1>3 DEF Tell
  <2>4. CASE ReadBack(c)
    BY <2>4, <1>3 DEF ReadBack
  <2>5. CASE Send(c)
    <3>1. UNCHANGED <<buffer, fileSize, fileBuffer>> /\ d # c
      BY <2>5, <1>3 DEF Send
    <3>2. reply' = reply \/ reply' = [reply EXCEPT ![c] = fileBuffer[c]]
      BY <2>5 DEF Send
    <3> QED
      BY <1>3, <3>1, <3>2 DEF FileInv, TypeOK
  <2> QED
    BY <2>1, <2>2, <2>3, <2>4, <2>5 DEF ClientStep
<1>4. \A d \in Clients \ {c} : stage'[d] = stage[d]
  BY <1>1 DEF Go
<1> QED
  BY <1>2, <1>3, <1>4 DEF OwnStep, Kept

\* The mutex: who takes it, takes it from nobody.
LEMMA MutexStep ==
  ASSUME FileInv, NEW t \in Threads,
         \A u \in Threads \ {t} : handler'[u] = handler[u],
         \A d \in Clients \ {t} : stage'[d] = stage[d],
         \/ fileMutex' = fileMutex
         \/ fileMutex = NULL
         \/ fileMutex = t,
         Stamping(t)' => fileMutex' = t,
         t \in Clients /\ Exchanging(t)' => fileMutex' = t /\ ~Stamping(t)'
  PROVE  OneUserOfFile'
BY DEF FileInv, OneUserOfFile, Stamping, Exchanging, Threads

-----------------------------------------------------------------------------
(* The steps of a client's thread. *)

\* Steps that leave what is printed alone, and the files' contents unless they
\* flush.
LEMMA ClientKeeps ==
  ASSUME FileInv, NEW c \in Clients, OwnStep(c), TypeOK', ExchangeInv(c)',
         \/ UNCHANGED fileVars
         \/ file' = file \o stream /\ stream' = <<>>
         \/ fileMutex = c,
         fileMutex' = fileMutex \/ fileMutex = NULL \/ fileMutex = c,
         Exchanging(c)' => fileMutex' = c
  PROVE  FileInv'
<1>1. ASSUME NEW d \in Clients \ {c} PROVE ExchangeInv(d)'
  <2>1. Kept(d) /\ ExchangeInv(d) /\ TypeOK
    BY DEF OwnStep, FileInv
  <2>2. CASE fileMutex = c
    BY <2>1, <2>2, OneAtATime, IdleKept
  <2>3. CASE UNCHANGED fileVars \/ (file' = file \o stream /\ stream' = <<>>)
    BY <2>1, <2>3, FlushHarmless
  <2> QED
    BY <2>2, <2>3
<1>2. OneUserOfFile'
  <2>1. c \in Threads /\ ~Stamping(c)'
    BY DEF OwnStep, Stamping, Threads
  <2>2. /\ \A u \in Threads \ {c} : handler'[u] = handler[u]
        /\ \A d \in Clients \ {c} : stage'[d] = stage[d]
    BY DEF OwnStep, Kept
  <2> QED
    BY <2>1, <2>2, MutexStep
<1> QED
  BY <1>1, <1>2 DEF FileInv

LEMMA HoldsMutex ==
  ASSUME FileInv, NEW c \in Clients, Exchanging(c)
  PROVE  fileMutex = c
BY DEF FileInv, OneUserOfFile, Threads

LEMMA PlainSteps ==
  ASSUME FileInv, NEW c \in Clients,
         Accept(c) \/ LockFile(c) \/ ReceiveNoMem(c) \/ ReadNoMem(c) \/ UnlockFile(c)
  PROVE  TypeOK' /\ ExchangeInv(c)' /\ UNCHANGED <<fileVars, clientVars>>
<1>1. UNCHANGED <<fileVars, clientVars>>
  BY DEF Accept, LockFile, ReceiveNoMem, ReadNoMem, UnlockFile
<1>2. TypeOK'
  BY <1>1 DEF FileInv, TypeOK, Accept, LockFile, ReceiveNoMem, ReadNoMem, UnlockFile, Go,
              fileVars, clientVars, timerVars, Threads
<1>3. ExchangeInv(c)'
  <2>1. /\ stage'[c] \notin {"flush", "tell", "read", "send"}
        /\ stage'[c] \notin {"unlock", "done"} => stage[c] \notin {"unlock", "done"}
    BY DEF Accept, LockFile, ReceiveNoMem, ReadNoMem, UnlockFile, Go, FileInv, TypeOK
  <2> QED
    BY <1>1, <2>1 DEF FileInv, ExchangeInv, Unsent, clientVars
<1> QED
  BY <1>1, <1>2, <1>3

LEMMA PlainInv ==
  ASSUME FileInv, NEW c \in Clients,
         \/ Accept(c) \/ ReceiveNoMem(c) \/ ReadNoMem(c)
         \/ ClientStep(c) /\ (LockFile(c) \/ UnlockFile(c))
  PROVE  FileInv'
<1>1. OwnStep(c) /\ TypeOK' /\ ExchangeInv(c)' /\ UNCHANGED fileVars
  BY OwnSteps, PlainSteps
<1>2. /\ fileMutex' = fileMutex \/ fileMutex = NULL \/ fileMutex = c
      /\ Exchanging(c)' => fileMutex' = c
  <2>1. CASE Accept(c) \/ ReceiveNoMem(c) \/ ReadNoMem(c)
    BY <2>1 DEF Accept, ReceiveNoMem, ReadNoMem, Go, Exchanging, FileInv, TypeOK
  <2>2. CASE LockFile(c)
    BY <2>2 DEF LockFile
  <2>3. CASE UnlockFile(c)
    <3>1. Exchanging(c) /\ ~Exchanging(c)'
      BY <2>3 DEF UnlockFile, Go, Exchanging, FileInv, TypeOK
    <3> QED
      BY <3>1, HoldsMutex
  <2> QED
    BY <2>1, <2>2, <2>3
<1> QED
  BY <1>1, <1>2, ClientKeeps

\* The steps in which c holds the mutex, before and after.
LEMMA HeldInv ==
  ASSUME FileInv, NEW c \in Clients, ClientStep(c), Exchanging(c), UNCHANGED fileMutex,
         TypeOK', ExchangeInv(c)'
  PROVE  FileInv'
<1>1. OwnStep(c)
  BY OwnSteps
<1> QED
  BY <1>1, HoldsMutex, ClientKeeps

LEMMA ReceiveInv ==
  ASSUME FileInv, NEW c \in Clients, ClientStep(c), Receive(c)
  PROVE  FileInv'
<1>1. PICK message \in {<<c>>, <<>>} :
        /\ buffer' = [buffer EXCEPT ![c] = message]
        /\ stream' = stream \o message
  BY DEF Receive
<1>2. /\ UNCHANGED <<fileMutex, file, fileSize, fileBuffer, reply, handler, timerVars>>
      /\ stage[c] = "receive" /\ stage'[c] = "flush" /\ stage' = [stage EXCEPT ![c] = "flush"]
  BY DEF Receive, Go, FileInv, TypeOK
<1>3. TypeOK /\ c \in Line
  BY DEF FileInv, Line
<1>4. TypeOK'
  <2>1. message \in Seq(Line) /\ message \in Seq(Clients)
    <3>1. <<>> \in Seq(Line) /\ <<>> \in Seq(Clients)
      BY EmptySeq
    <3>2. <<c>> \in Seq(Line) /\ <<c>> \in Seq(Clients)
      BY <1>3
    <3> QED
      BY <1>1, <3>1, <3>2
  <2>2. stream' \in Seq(Line) /\ buffer' \in [Clients -> Seq(Clients)]
    BY <1>1, <1>3, <2>1, PrintedType DEF TypeOK
  <2> QED
    BY <1>2, <2>1, <2>2 DEF FileInv, TypeOK, timerVars, Line
<1>5. ExchangeInv(c)'
  <2>1. reply'[c] = NULL
    BY <1>2 DEF FileInv, ExchangeInv
  <2>2. Unsent(c)' => Len(Printed') > 0 /\ Printed'[Len(Printed')] = c
    <3>1. CASE message = <<c>>
      <4>1. Printed' = Append(Printed, c)
        BY <1>1, <1>2, <1>3, <3>1, Added DEF Printed
      <4> QED
        BY <1>3, <4>1, PrintedType, TakenBack
    <3>2. CASE message = <<>>
      BY <1>1, <1>3, <3>2 DEF Unsent, TypeOK
    <3> QED
      BY <3>1, <3>2
  <2> QED
    BY <1>2, <2>1, <2>2 DEF ExchangeInv
<1> QED
  BY <1>2, <1>4, <1>5, HeldInv DEF Exchanging

\* A flush keeps the types, the sizes read earlier among them.
LEMMA FlushTypes ==
  ASSUME TypeOK, file' = file \o stream, stream' = <<>>
  PROVE  /\ file' \in Seq(Line) /\ stream' \in Seq(Line)
         /\ fileSize \in [Clients -> 0 .. Len(file')]
<1>1. file' \in Seq(Line) /\ stream' \in Seq(Line)
  BY PrintedType, EmptySeq DEF Printed
<1>2. Len(file) <= Len(file') /\ Len(file) \in Nat /\ Len(file') \in Nat
  BY <1>1, Flushed, PrintedType
<1>3. fileSize \in [Clients -> 0 .. Len(file)]
  BY DEF TypeOK
<1> DEFINE n == Len(file)
           m == Len(file')
<1> HIDE DEF n, m
<1>4. 0 .. n \subseteq 0 .. m
  BY <1>2 DEF n, m
<1> QED
  BY <1>1, <1>3, <1>4 DEF n, m

LEMMA FlushInv ==
  ASSUME FileInv, NEW c \in Clients, ClientStep(c), Flush(c)
  PROVE  FileInv'
<1>1. /\ file' = file \o stream /\ stream' = <<>>
      /\ UNCHANGED <<fileMutex, clientVars, handler, timerVars>>
      /\ stage[c] = "flush" /\ stage'[c] = "tell" /\ stage' = [stage EXCEPT ![c] = "tell"]
      /\ TypeOK /\ ExchangeInv(c)
  BY DEF Flush, Go, FileInv, TypeOK
<1>2. TypeOK'
  BY <1>1, FlushTypes DEF TypeOK, timerVars, clientVars, Line
<1>3. Printed' = Printed
  BY <1>1, Flushed
<1>4. ExchangeInv(c)'
  BY <1>1, <1>3 DEF ExchangeInv, Unsent, clientVars
<1> QED
  BY <1>1, <1>2, <1>4, HeldInv DEF Exchanging

LEMMA TellInv ==
  ASSUME FileInv, NEW c \in Clients, ClientStep(c), Tell(c)
  PROVE  FileInv'
<1>1. /\ fileSize' = [fileSize EXCEPT ![c] = Len(file) + Len(stream)]
      /\ UNCHANGED <<fileMutex, fileVars, buffer, fileBuffer, reply, handler, timerVars>>
      /\ stage[c] = "tell" /\ stage'[c] = "read" /\ stage' = [stage EXCEPT ![c] = "read"]
      /\ TypeOK /\ ExchangeInv(c)
  BY DEF Tell, Go, FileInv, TypeOK
<1>2. stream = <<>> /\ Len(<<>>) = 0 /\ Len(file) \in Nat
  BY <1>1, PrintedType DEF ExchangeInv
<1>3. Len(file) + Len(stream) = Len(file)
  BY <1>2
<1>4. TypeOK'
  <2>1. fileSize' = [fileSize EXCEPT ![c] = Len(file)] /\ Len(file) \in 0 .. Len(file)
    BY <1>1, <1>2, <1>3
  <2>2. fileSize' \in [Clients -> 0 .. Len(file)]
    BY <1>1, <2>1 DEF TypeOK
  <2> QED
    BY <1>1, <2>2 DEF TypeOK, timerVars, fileVars
<1>5. ExchangeInv(c)'
  <2>1. fileSize'[c] = Len(file)
    BY <1>1, <1>3 DEF TypeOK
  <2> QED
    BY <1>1, <2>1 DEF ExchangeInv, Unsent, fileVars, Printed
<1> QED
  BY <1>1, <1>4, <1>5, HeldInv DEF Exchanging

LEMMA ReadBackInv ==
  ASSUME FileInv, NEW c \in Clients, ClientStep(c), ReadBack(c)
  PROVE  FileInv'
<1>1. /\ file' = file \o stream /\ stream' = <<>>
      /\ fileBuffer' = [fileBuffer EXCEPT ![c] = SubSeq(file', 1, fileSize[c])]
      /\ UNCHANGED <<fileMutex, buffer, fileSize, reply, handler, timerVars>>
      /\ stage[c] = "read" /\ stage'[c] = "send" /\ stage' = [stage EXCEPT ![c] = "send"]
      /\ TypeOK /\ ExchangeInv(c)
  BY DEF ReadBack, Go, FileInv, TypeOK
<1>2. stream = <<>> /\ file' = file /\ fileSize[c] = Len(file) /\ Printed' = Printed
  BY <1>1, Flushed DEF ExchangeInv
<1>3. SubSeq(file', 1, fileSize[c]) = file /\ file \in Seq(Line)
  <2>1. file \in Seq(Line)
    BY <1>1, PrintedType
  <2>2. SubSeq(file, 1, Len(file)) = file
    BY <2>1
  <2> QED
    BY <1>2, <2>1, <2>2
<1>4. TypeOK'
  BY <1>1, <1>2, <1>3, FlushTypes DEF TypeOK, timerVars, Line
<1>5. ExchangeInv(c)'
  <2>1. fileBuffer'[c] = file
    BY <1>1, <1>3 DEF TypeOK
  <2> QED
    BY <1>1, <1>2, <2>1 DEF ExchangeInv, Unsent
<1> QED
  BY <1>1, <1>4, <1>5, HeldInv DEF Exchanging

LEMMA SendInv ==
  ASSUME FileInv, NEW c \in Clients, ClientStep(c), Send(c)
  PROVE  FileInv'
<1>1. /\ UNCHANGED <<fileMutex, fileVars, buffer, fileSize, fileBuffer, handler, timerVars>>
      /\ stage[c] = "send" /\ stage'[c] = "unlock" /\ stage' = [stage EXCEPT ![c] = "unlock"]
      /\ TypeOK
  BY DEF Send, Go, FileInv, TypeOK
<1>2. TypeOK'
  <2>1. reply' = reply \/ reply' = [reply EXCEPT ![c] = fileBuffer[c]]
    BY DEF Send
  <2>2. reply' \in [Clients -> Seq(Line) \cup {NULL}]
    BY <1>1, <2>1 DEF TypeOK, Line
  <2> QED
    BY <1>1, <2>2 DEF TypeOK, timerVars, fileVars, Line
<1>3. ExchangeInv(c)'
  BY <1>1 DEF ExchangeInv, Unsent
<1> QED
  BY <1>1, <1>2, <1>3, HeldInv DEF Exchanging

-----------------------------------------------------------------------------
(* The steps of the handler. *)

LEMMA HandlerMutex ==
  ASSUME FileInv, NEW t \in Threads, UNCHANGED stage,
         handler' = [handler EXCEPT ![t] = handler'[t]],
         \/ fileMutex' = fileMutex /\ ~Stamping(t)'
         \/ fileMutex = NULL /\ fileMutex' = t
         \/ Stamping(t) /\ ~Stamping(t)' /\ fileMutex' = NULL
  PROVE  OneUserOfFile'
<1>1. \A u \in Threads \ {t} : handler'[u] = handler[u]
  BY DEF FileInv, TypeOK
<1>2. Stamping(t) => fileMutex = t
  BY DEF FileInv, OneUserOfFile
<1>3. t \in Clients /\ Exchanging(t)' => Exchanging(t) /\ fileMutex = t /\ ~Stamping(t)
  BY DEF FileInv, OneUserOfFile, Exchanging
<1>4. \A d \in Clients \ {t} : stage'[d] = stage[d]
  OBVIOUS
<1>5. Stamping(t)' => fileMutex' = t
  OBVIOUS
<1>6. t \in Clients /\ Exchanging(t)' => fileMutex' = t /\ ~Stamping(t)'
  BY <1>3
<1> QED
  BY <1>1, <1>2, <1>4, <1>5, <1>6, MutexStep

\* The stream may grow while nobody has the mutex, and be flushed at any time.
LEMMA HandlerKeeps ==
  ASSUME FileInv, UNCHANGED <<stage, clientVars>>,
         \/ UNCHANGED fileVars
         \/ file' = file \o stream /\ stream' = <<>>
         \/ fileMutex = NULL
  PROVE  \A d \in Clients : ExchangeInv(d)'
<1> SUFFICES ASSUME NEW d \in Clients PROVE ExchangeInv(d)'
  OBVIOUS
<1>1. Kept(d) /\ ExchangeInv(d) /\ TypeOK
  BY DEF Kept, clientVars, FileInv
<1>2. CASE fileMutex = NULL
  BY <1>1, <1>2, OneAtATime, IdleKept
<1>3. CASE UNCHANGED fileVars \/ (file' = file \o stream /\ stream' = <<>>)
  BY <1>1, <1>3, FlushHarmless
<1> QED
  BY <1>2, <1>3

LEMMA TimerInv ==
  ASSUME FileInv, NEW t \in Threads, TimerStep(t) \/ Deliver(t) \/ NoTime(t)
  PROVE  FileInv'
<1>1. /\ UNCHANGED <<stage, clientVars>>
      /\ \E to \in {"none", "lock", "unlock", "flush"} : handler' = [handler EXCEPT ![t] = to]
      /\ TypeOK /\ handler \in [Threads -> {"none", "lock", "unlock", "flush"}]
  BY DEF TimerStep, TimerLock, TimerUnlock, TimerFlush, Deliver, NoTime, At, FileInv, TypeOK
<1>2. /\ handler' = [handler EXCEPT ![t] = handler'[t]]
      /\ handler' \in [Threads -> {"none", "lock", "unlock", "flush"}]
  BY <1>1
<1>3. CASE TimerLock(t)
  <2>1. /\ UNCHANGED <<timerVars, file>> /\ fileMutex = NULL /\ fileMutex' = t
        /\ stream' = Append(stream, Stamp)
    BY <1>3 DEF TimerLock
  <2>2. TypeOK'
    <3>1. stream' \in Seq(Line)
      BY <1>1, <2>1, PrintedType DEF Line
    <3> QED
      BY <1>1, <1>2, <2>1, <3>1 DEF TypeOK, timerVars, clientVars, Line
  <2>3. OneUserOfFile'
    BY <1>1, <1>2, <2>1, HandlerMutex
  <2> QED
    BY <1>1, <2>1, <2>2, <2>3, HandlerKeeps DEF FileInv
<1>4. CASE TimerUnlock(t)
  <2>1. UNCHANGED <<timerVars, fileVars>> /\ fileMutex' = NULL /\ Stamping(t) /\ ~Stamping(t)'
    BY <1>1, <1>4 DEF TimerUnlock, At, Stamping
  <2>2. TypeOK'
    BY <1>1, <1>2, <2>1 DEF TypeOK, timerVars, fileVars, clientVars
  <2>3. OneUserOfFile'
    BY <1>1, <1>2, <2>1, HandlerMutex
  <2> QED
    BY <1>1, <2>1, <2>2, <2>3, HandlerKeeps DEF FileInv
<1>5. CASE TimerFlush(t)
  <2>1. /\ UNCHANGED <<timerVars, fileMutex>> /\ ~Stamping(t)'
        /\ file' = file \o stream /\ stream' = <<>>
    BY <1>1, <1>5 DEF TimerFlush, At, Stamping
  <2>2. TypeOK'
    BY <1>1, <1>2, <2>1, FlushTypes DEF TypeOK, timerVars, clientVars, Line
  <2>3. OneUserOfFile'
    BY <1>1, <1>2, <2>1, HandlerMutex
  <2> QED
    BY <1>1, <2>1, <2>2, <2>3, HandlerKeeps DEF FileInv
<1>6. CASE Deliver(t) \/ NoTime(t)
  <2>1. /\ UNCHANGED <<ticks, fileMutex, fileVars>> /\ pending' = FALSE /\ ~Stamping(t)'
    BY <1>1, <1>6 DEF Deliver, NoTime, At, Stamping
  <2>2. TypeOK'
    BY <1>1, <1>2, <2>1 DEF TypeOK, fileVars, clientVars
  <2>3. OneUserOfFile'
    BY <1>1, <1>2, <2>1, HandlerMutex
  <2> QED
    BY <1>1, <2>1, <2>2, <2>3, HandlerKeeps DEF FileInv
<1> QED
  BY <1>3, <1>4, <1>5, <1>6 DEF TimerStep

LEMMA FileInitInv == Init => FileInv
<1> SUFFICES ASSUME Init PROVE FileInv
  OBVIOUS
<1>1. TypeOK
  <2>1. <<>> \in Seq(Line) /\ <<>> \in Seq(Clients) /\ Len(<<>>) = 0
    BY EmptySeq
  <2>2. fileSize \in [Clients -> 0 .. Len(file)] /\ ticks \in 0 .. MaxTicks
    BY <2>1 DEF Init
  <2> QED
    BY <2>1, <2>2 DEF Init, TypeOK, Line
<1>2. OneUserOfFile
  BY DEF Init, OneUserOfFile, Stamping, Exchanging, Threads
<1>3. \A c \in Clients : ExchangeInv(c)
  BY DEF Init, ExchangeInv, Unsent
<1> QED
  BY <1>1, <1>2, <1>3 DEF FileInv

LEMMA FileNextInv == FileInv /\ [Next]_vars => FileInv'
<1> SUFFICES ASSUME FileInv, [Next]_vars PROVE FileInv'
  OBVIOUS
<1>1. CASE UNCHANGED vars
  <2>1. TypeOK' /\ OneUserOfFile'
    BY <1>1 DEF vars, timerVars, fileVars, clientVars, FileInv, TypeOK, OneUserOfFile,
                Stamping, Exchanging
  <2> QED
    BY <1>1, <2>1, HandlerKeeps DEF vars, FileInv
<1>2. ASSUME NEW c \in Clients,
             ClientStep(c) \/ Accept(c) \/ ReceiveNoMem(c) \/ ReadNoMem(c)
      PROVE  FileInv'
  BY <1>2, PlainInv, ReceiveInv, FlushInv, TellInv, ReadBackInv, SendInv DEF ClientStep
<1>3. ASSUME NEW t \in Threads, TimerStep(t) \/ Deliver(t) \/ NoTime(t) PROVE FileInv'
  BY <1>3, TimerInv
<1>4. CASE Tick
  <2>1. TypeOK' /\ OneUserOfFile'
    <3>1. ticks' \in 0 .. MaxTicks /\ pending' = TRUE
      BY <1>4 DEF Tick, FileInv, TypeOK
    <3>2. UNCHANGED <<stage, handler, fileMutex, fileVars, clientVars>>
      BY <1>4 DEF Tick
    <3> QED
      BY <3>1, <3>2 DEF fileVars, clientVars, FileInv, TypeOK, OneUserOfFile, Stamping, Exchanging
  <2> QED
    BY <1>4, <2>1, HandlerKeeps DEF Tick, FileInv
<1> QED
  BY <1>1, <1>2, <1>3, <1>4 DEF Next

LEMMA AlwaysFileInv == Spec => []FileInv
BY FileInitInv, FileNextInv, PTL DEF Spec

\* The types, for any number of clients and ticks.
THEOREM FileTypes == Spec => []TypeOK
<1>1. FileInv => TypeOK
  BY DEF FileInv
<1> QED
  BY <1>1, AlwaysFileInv, PTL

\* fileMutex keeps clients' threads and handlers apart, on whichever thread a
\* handler runs.
THEOREM OneUser == Spec => []OneUserOfFile
<1>1. FileInv => OneUserOfFile
  BY DEF FileInv
<1> QED
  BY <1>1, AlwaysFileInv, PTL

\* A handler that waits for its own thread's mutex stops the server for good.
THEOREM StuckIsForGood == Spec => StuckForGood
<1>1. ASSUME FileInv, [Next]_vars, SelfLocked
      PROVE  SelfLocked' /\ UNCHANGED <<reply, file \o stream>>
  <2>1. PICK t \in Threads : handler[t] = "lock" /\ fileMutex = t
    BY <1>1 DEF SelfLocked
  <2>2. t # NULL /\ TypeOK
    BY <1>1 DEF FileInv, Threads
  <2>3. \A u \in Threads : ~Stamping(u)
    BY <1>1, <2>1 DEF FileInv, OneUserOfFile, Stamping
  <2>4. \A c \in Clients : Exchanging(c) => handler[c] # "none"
    BY <1>1, <2>1 DEF FileInv, OneUserOfFile
  <2>5. SUFFICES fileMutex' = fileMutex /\ handler'[t] = handler[t] /\ reply' = reply
                 /\ Printed' = Printed
    BY <2>1 DEF SelfLocked, Printed
  <2>6. CASE UNCHANGED vars
    BY <2>6 DEF vars, clientVars, fileVars, Printed
  <2>7. ASSUME NEW c \in Clients,
               ClientStep(c) \/ Accept(c) \/ ReceiveNoMem(c) \/ ReadNoMem(c)
        PROVE  fileMutex' = fileMutex /\ handler'[t] = handler[t] /\ reply' = reply
               /\ Printed' = Printed
    <3>1. Accept(c)
      BY <2>1, <2>2, <2>4, <2>7 DEF ClientStep, ReceiveNoMem, ReadNoMem, LockFile, Receive, Flush,
         Tell, ReadBack, Send, UnlockFile, Go, Exchanging
    <3> QED
      BY <3>1 DEF Accept, Go, clientVars, fileVars, Printed
  <2>8. ASSUME NEW u \in Threads, TimerStep(u) \/ Deliver(u) \/ NoTime(u)
        PROVE  fileMutex' = fileMutex /\ handler'[t] = handler[t] /\ reply' = reply
               /\ Printed' = Printed
    <3>1. TimerFlush(u) \/ Deliver(u) \/ NoTime(u)
      BY <2>1, <2>2, <2>3, <2>8 DEF TimerStep, TimerLock, TimerUnlock, At, Stamping
    <3>2. handler'[t] = handler[t] /\ reply' = reply /\ fileMutex' = fileMutex
      BY <2>1, <2>2, <3>1 DEF TimerFlush, Deliver, NoTime, At, clientVars, TypeOK
    <3>3. Printed' = Printed
      BY <2>2, <3>1, Flushed DEF TimerFlush, Deliver, NoTime, fileVars, Printed
    <3> QED
      BY <3>2, <3>3
  <2>9. CASE Tick
    BY <2>9 DEF Tick, clientVars, fileVars, Printed
  <2> QED
    BY <1>1, <2>6, <2>7, <2>8, <2>9 DEF Next
<1> QED
  BY <1>1, AlwaysFileInv, PTL DEF Spec, StuckForGood

-----------------------------------------------------------------------------
(***************************************************************************)
(* The refinement.  The log is what was printed, the line of a client that *)
(* is not answered yet excepted; that one is the last.                     *)
(***************************************************************************)
SomeoneUnsent == \E c \in Clients : Unsent(c)

LEMMA LogWhenSent ==
  ASSUME ~SomeoneUnsent
  PROVE  LogOfFile = Printed
BY DEF SomeoneUnsent, LogOfFile

LEMMA LogWhenUnsent ==
  ASSUME FileInv, NEW c \in Clients, Unsent(c)
  PROVE  Printed = Append(LogOfFile, c)
<1>1. LogOfFile = SubSeq(Printed, 1, Len(Printed) - 1)
  BY DEF LogOfFile
<1>2. Printed \in Seq(Line) /\ Len(Printed) > 0 /\ Printed[Len(Printed)] = c
  BY PrintedType DEF FileInv, ExchangeInv
<1> QED
  BY <1>1, <1>2, PutBack

LEMMA LogKept ==
  ASSUME Printed' = Printed, SomeoneUnsent' <=> SomeoneUnsent
  PROVE  LogOfFile' = LogOfFile
BY DEF LogOfFile, SomeoneUnsent

LEMMA OnlyOneUnsent ==
  ASSUME FileInv
  PROVE  /\ \A c \in Clients : Unsent(c) => fileMutex = c
         /\ fileMutex = NULL => ~SomeoneUnsent
BY DEF FileInv, OneUserOfFile, Exchanging, Unsent, SomeoneUnsent

\* The steps that the log does not see.
LEMMA SilentSteps ==
  ASSUME FileInv, NEW c \in Clients,
         \/ Accept(c) \/ ReceiveNoMem(c)
         \/ ClientStep(c) /\ (LockFile(c) \/ Flush(c) \/ Tell(c) \/ ReadBack(c) \/ UnlockFile(c))
  PROVE  LogOfFile' = LogOfFile /\ reply' = reply
<1>1. OwnStep(c) /\ TypeOK
  BY OwnSteps DEF FileInv
<1>2. \A d \in Clients \ {c} : Unsent(d)' <=> Unsent(d)
  BY <1>1 DEF OwnStep, Kept, Unsent
<1>3. reply' = reply /\ buffer' = buffer
  BY DEF Accept, ReceiveNoMem, LockFile, Flush, Tell, ReadBack, UnlockFile, clientVars
<1>4. Unsent(c)' <=> Unsent(c)
  BY <1>1, <1>3 DEF Accept, ReceiveNoMem, LockFile, Flush, Tell, ReadBack, UnlockFile, Go, Unsent, TypeOK
<1>5. Printed' = Printed
  BY <1>1, Flushed DEF Accept, ReceiveNoMem, LockFile, Flush, Tell, ReadBack, UnlockFile, fileVars, Printed
<1>6. SomeoneUnsent' <=> SomeoneUnsent
  BY <1>2, <1>4 DEF SomeoneUnsent
<1> QED
  BY <1>3, <1>5, <1>6, LogKept

LEMMA ReceiveIsSilent ==
  ASSUME FileInv, NEW c \in Clients, ClientStep(c), Receive(c)
  PROVE  LogOfFile' = LogOfFile /\ reply' = reply
<1>1. PICK message \in {<<c>>, <<>>} :
        /\ buffer' = [buffer EXCEPT ![c] = message]
        /\ stream' = stream \o message
  BY DEF Receive
<1>2. /\ UNCHANGED <<fileMutex, file, reply>> /\ TypeOK /\ c \in Line
      /\ stage[c] = "receive" /\ stage'[c] = "flush"
      /\ buffer'[c] = message /\ FileInv'
  BY <1>1, ReceiveInv DEF Receive, Go, FileInv, TypeOK, Line
<1>3. fileMutex = c /\ fileMutex' = c
  BY <1>2, HoldsMutex DEF Exchanging
<1>4. ~SomeoneUnsent
  BY <1>2, <1>3, OnlyOneUnsent DEF SomeoneUnsent, Unsent
<1>5. LogOfFile = Printed
  BY <1>4, LogWhenSent
<1>6. CASE message = <<c>>
  <2>1. Printed' = Append(Printed, c) /\ Printed \in Seq(Line)
    BY <1>1, <1>2, <1>6, Added, PrintedType DEF Printed
  <2>2. SomeoneUnsent'
    BY SMTT(30), <1>2, <1>6 DEF SomeoneUnsent, Unsent
  <2>3. LogOfFile' = SubSeq(Printed', 1, Len(Printed') - 1)
    BY <2>2 DEF LogOfFile, SomeoneUnsent
  <2> QED
    BY <1>2, <1>5, <2>1, <2>3, TakenBack
<1>7. CASE message = <<>>
  <2>1. stream' = stream
    BY <1>1, <1>2, <1>7, PrintedType, ConcatEmptySeq
  <2>2. Printed' = Printed
    BY <1>2, <2>1 DEF Printed
  <2>3. ~Unsent(c)' /\ \A d \in Clients \ {c} : ~Unsent(d)'
    <3>1. \A d \in Clients : Unsent(d)' => fileMutex' = d
      BY <1>2, OnlyOneUnsent DEF FileInv, OneUserOfFile, Exchanging, Unsent
    <3> QED
      BY <1>2, <1>3, <1>7, <3>1 DEF Unsent
  <2>4. LogOfFile' = Printed'
    BY <2>3 DEF LogOfFile
  <2> QED
    BY <1>2, <1>5, <2>2, <2>4
<1> QED
  BY <1>6, <1>7

\* The end of an exchange, with an answer or by a crash, is the step of FileLog.
LEMMA SendIsExchange ==
  ASSUME FileInv, NEW c \in Clients, (ClientStep(c) /\ Send(c)) \/ ReadNoMem(c)
  PROVE  FL!Exchange(c)
<1>1. /\ UNCHANGED <<buffer, fileVars>> /\ Printed' = Printed /\ TypeOK /\ ExchangeInv(c)
      /\ stage[c] \in {"read", "send"} /\ stage'[c] \in {"unlock", "crashed"}
      /\ \A d \in Clients \ {c} : stage'[d] = stage[d]
  BY DEF Send, ReadNoMem, Go, FileInv, TypeOK, fileVars, clientVars, Printed
<1>2. fileMutex = c
  BY <1>1, HoldsMutex DEF Exchanging
<1>3. \A d \in Clients : ~Unsent(d)'
  <2>1. ~Unsent(c)'
    BY <1>1 DEF Unsent
  <2>2. \A d \in Clients \ {c} : ~Unsent(d)
    BY <1>2, OnlyOneUnsent
  <2> QED
    BY <1>1, <2>1, <2>2 DEF Unsent
<1>4. LogOfFile' = Printed
  BY <1>1, <1>3 DEF LogOfFile
<1>5. LogOfFile' \in {LogOfFile, Append(LogOfFile, c)}
  <2>1. CASE Unsent(c)
    BY <1>4, <2>1, LogWhenUnsent
  <2>2. CASE ~Unsent(c)
    <3>1. ~SomeoneUnsent
      BY <1>2, <2>2, OnlyOneUnsent DEF SomeoneUnsent
    <3> QED
      BY <1>4, <3>1, LogWhenSent
  <2> QED
    BY <2>1, <2>2
<1>6. reply[c] = NULL
  BY <1>1 DEF ExchangeInv
<1>7. reply' \in {reply, [reply EXCEPT ![c] = LogOfFile']}
  <2>1. CASE ReadNoMem(c)
    BY <2>1 DEF ReadNoMem, clientVars
  <2>2. CASE Send(c)
    <3>1. fileBuffer[c] = file /\ stream = <<>>
      BY <1>1, <2>2 DEF Send, Go, ExchangeInv
    <3>2. Printed = file
      BY <1>1, <3>1, PrintedType, ConcatEmptySeq DEF Printed
    <3> QED
      BY <1>4, <2>2, <3>1, <3>2 DEF Send
  <2> QED
    BY <2>1, <2>2
<1> QED
  BY <1>5, <1>6, <1>7 DEF FL!Exchange

\* A timestamp is a tick of FileLog; the handler's other steps are not seen.
LEMMA TimerStepsMap ==
  ASSUME FileInv, NEW t \in Threads, TimerStep(t) \/ Deliver(t) \/ NoTime(t)
  PROVE  FL!Tick \/ (LogOfFile' = LogOfFile /\ reply' = reply)
<1>1. /\ reply' = reply /\ TypeOK /\ Stamp \in Line
      /\ SomeoneUnsent' <=> SomeoneUnsent
  BY DEF TimerStep, TimerLock, TimerUnlock, TimerFlush, Deliver, NoTime, At, clientVars,
         SomeoneUnsent, Unsent, FileInv, Line
<1>2. CASE TimerLock(t)
  <2>1. Printed' = Append(Printed, Stamp) /\ fileMutex = NULL
    BY <1>1, <1>2, Added DEF TimerLock, Printed
  <2>2. ~SomeoneUnsent
    BY <2>1, OnlyOneUnsent
  <2>3. LogOfFile = Printed /\ LogOfFile' = Printed'
    BY <1>1, <2>2, LogWhenSent DEF LogOfFile, SomeoneUnsent
  <2> QED
    BY <1>1, <2>1, <2>3 DEF FL!Tick
<1>3. CASE TimerUnlock(t) \/ TimerFlush(t) \/ Deliver(t) \/ NoTime(t)
  <2>1. Printed' = Printed
    BY <1>1, <1>3, Flushed DEF TimerUnlock, TimerFlush, Deliver, NoTime, fileVars, Printed
  <2> QED
    BY <1>1, <2>1, LogKept
<1> QED
  BY <1>2, <1>3 DEF TimerStep

\* The file build implements FileLog: a client's line and the answer to it are
\* one step to everybody, with the timer at work (client.c:77-114,
\* aesdsocket.c:428-460).
THEOREM FileIsLog == Spec => ImplementsFileLog
<1>1. Init => FL!Init
  <2> SUFFICES ASSUME Init PROVE FL!Init
    OBVIOUS
  <2>1. Printed = <<>>
    BY EmptySeq, ConcatEmptySeq DEF Init, Printed
  <2>2. ~SomeoneUnsent
    BY DEF Init, SomeoneUnsent, Unsent
  <2> QED
    BY <2>1, <2>2, LogWhenSent DEF Init, FL!Init
<1>2. ASSUME FileInv, [Next]_vars
      PROVE  [FL!Next]_<<LogOfFile, reply>>
  <2>1. CASE UNCHANGED vars
    <3>1. UNCHANGED <<Printed, reply, stage, buffer>>
      BY <2>1 DEF vars, fileVars, clientVars, Printed
    <3>2. SomeoneUnsent' <=> SomeoneUnsent
      BY <3>1 DEF SomeoneUnsent, Unsent
    <3> QED
      BY <3>1, <3>2, LogKept
  <2>2. ASSUME NEW c \in Clients,
               ClientStep(c) \/ Accept(c) \/ ReceiveNoMem(c) \/ ReadNoMem(c)
        PROVE  FL!Exchange(c) \/ (LogOfFile' = LogOfFile /\ reply' = reply)
    BY <1>2, <2>2, SilentSteps, ReceiveIsSilent, SendIsExchange DEF ClientStep
  <2>3. ASSUME NEW t \in Threads, TimerStep(t) \/ Deliver(t) \/ NoTime(t)
        PROVE  FL!Tick \/ (LogOfFile' = LogOfFile /\ reply' = reply)
    BY <1>2, <2>3, TimerStepsMap
  <2>4. CASE Tick
    <3>1. UNCHANGED <<Printed, reply, stage, buffer>>
      BY <2>4 DEF Tick, fileVars, clientVars, Printed
    <3>2. SomeoneUnsent' <=> SomeoneUnsent
      BY <3>1 DEF SomeoneUnsent, Unsent
    <3> QED
      BY <3>1, <3>2, LogKept
  <2> QED
    BY <1>2, <2>1, <2>2, <2>3, <2>4 DEF Next, FL!Next
<1> QED
  BY <1>1, <1>2, AlwaysFileInv, PTL DEF Spec, ImplementsFileLog, FL!Spec
=============================================================================
