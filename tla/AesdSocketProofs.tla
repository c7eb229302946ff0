-------------------------- MODULE AesdSocketProofs --------------------------
(***************************************************************************)
(* Safety of the server, for any number of clients and descriptors.        *)
(***************************************************************************)
EXTENDS AesdSocket, SequenceTheorems, TLAPS

Held == {"join", "stop_close", "stop_join"}

\* The thread that uses the device holds fileMutex.
MutexInv == \A c \in Clients : UsesDevice(c) => fileMutex = c

\* What main knows of the client it is dealing with.
MainInv ==
  /\ main \in {"open", "insert", "create"} \cup Held => cur \in Clients
  /\ main \in {"open", "insert", "create"} => sock[cur] = "open" /\ work[cur] = "none"
  /\ main \in {"open", "insert"} => data[cur] = "none"
  /\ main = "create" => data[cur] = "alloc"
  /\ main \in Held => cur \notin Listed
  /\ main = "join" => data[cur] = "alloc" /\ work[cur] \in {"return", "exited"}
  /\ main = "stop_close" => sock[cur] = "shut"
  /\ main = "exited" => Listed = {}

\* Clients that main has not accepted have nothing yet.
FreshInv ==
  \A c \in Clients :
    /\ client[c] = "away" => sock[c] = "none"
    /\ sock[c] \in {"none", "queued"} => data[c] = "none" /\ work[c] = "none"

Entries(s) == {s[i] : i \in 1 .. Len(s)}

Distinct(s) == \A i, j \in 1 .. Len(s) : s[i] = s[j] => i = j

\* Threads at work have their data, and the list holds nothing else.
DataInv ==
  /\ \A c \in Clients : work[c] \in WorkSteps => data[c] = "alloc"
  /\ \A c \in Listed : data[c] = "alloc"
  /\ Distinct(list)

\* Data is in the list or in main's hands, or the server is stopping and the
\* thread no longer uses it.
ListInv ==
  Alive \/ main = "exited" =>
    \A c \in Clients : data[c] = "alloc" =>
      \/ c \in Listed
      \/ main \in Held /\ cur = c
      \/ main \in Handling \cup {"exited"} /\ work[c] \notin WorkSteps

IInv ==
  /\ TypeOK /\ MutexInv /\ MainInv /\ FreshInv /\ DataInv /\ ListInv
  /\ SocketOutlivesThread
-----------------------------------------------------------------------------
(* The list. *)

\* SLIST_REMOVE takes out the entry at place i and keeps the others in order.
LEMMA WithoutFacts ==
  ASSUME NEW s \in Seq(Clients), NEW i \in 1 .. Len(s),
         Distinct(s),
         NEW t, t = Without(s, i)
  PROVE  /\ t \in Seq(Clients)
         /\ Len(t) = Len(s) - 1
         /\ Distinct(t)
         /\ Entries(t) = Entries(s) \ {s[i]}
<1>1. Len(s) \in Nat /\ \A j \in 1 .. Len(s) : s[j] \in Clients
  BY ElementOfSeq, LenProperties
<1>2. \A j \in 1 .. Len(s) - 1 : t[j] = IF j < i THEN s[j] ELSE s[j + 1]
  BY DEF Without
<1>3. t = [j \in 1 .. Len(s) - 1 |-> t[j]] /\ \A j \in 1 .. Len(s) - 1 : t[j] \in Clients
  BY <1>1, <1>2 DEF Without
<1>4. t \in Seq(Clients) /\ Len(t) = Len(s) - 1
  <2>1. Len(s) - 1 \in Nat
    BY <1>1
  <2>2. t \in [1 .. Len(s) - 1 -> Clients]
    BY <1>3
  <2> QED
    BY <2>1, <2>2, SeqDef, LenProperties
<1>5. Distinct(t)
  BY <1>1, <1>2, <1>4 DEF Distinct
<1>6. \A j \in 1 .. Len(t) : \E k \in 1 .. Len(s) : k # i /\ t[j] = s[k]
  <2> SUFFICES ASSUME NEW j \in 1 .. Len(t) PROVE \E k \in 1 .. Len(s) : k # i /\ t[j] = s[k]
    OBVIOUS
  <2>1. CASE j < i
    BY <1>1, <1>2, <1>4, <2>1
  <2>2. CASE j >= i
    BY <1>1, <1>2, <1>4, <2>2
  <2> QED
    BY <1>1, <1>4, <2>1, <2>2
<1>7. \A k \in 1 .. Len(s) : k # i => \E j \in 1 .. Len(t) : t[j] = s[k]
  <2> SUFFICES ASSUME NEW k \in 1 .. Len(s), k # i PROVE \E j \in 1 .. Len(t) : t[j] = s[k]
    OBVIOUS
  <2>1. CASE k < i
    BY <1>1, <1>2, <1>4, <2>1
  <2>2. CASE k > i
    <3>1. k - 1 \in 1 .. Len(s) - 1 /\ ~(k - 1 < i) /\ (k - 1) + 1 = k
      BY <1>1, <2>2
    <3>2. t[k - 1] = s[k]
      BY <1>2, <3>1
    <3> QED
      BY <1>4, <3>1, <3>2
  <2> QED
    BY <1>1, <2>1, <2>2
<1>8. \A j \in 1 .. Len(t) : \E k \in 1 .. Len(s) : t[j] = s[k] /\ t[j] # s[i]
  BY <1>6 DEF Distinct
<1>9. \A k \in 1 .. Len(s) : s[k] # s[i] => \E j \in 1 .. Len(t) : t[j] = s[k]
  BY <1>7
<1>10. Entries(t) \subseteq Entries(s) \ {s[i]}
  BY <1>8 DEF Entries
<1>11. Entries(s) \ {s[i]} \subseteq Entries(t)
  BY <1>9 DEF Entries
<1> QED
  BY <1>4, <1>5, <1>10, <1>11

-----------------------------------------------------------------------------
(* Clients and threads. *)

AllVars == <<client, sock, devOpen, dev_fd, data, list, work, fileMutex, main, cur, cursor>>

LEMMA InitInv == Init => IInv
<1> SUFFICES ASSUME Init PROVE IInv
  OBVIOUS
<1>1. list = <<>> /\ Listed = {} /\ Len(list) = 0 /\ list \in Seq(Clients)
  BY EmptySeq DEF Init, Listed
<1> QED
  BY <1>1 DEF Init, IInv, TypeOK, MutexInv, MainInv, FreshInv, DataInv, Distinct, ListInv,
              SocketOutlivesThread, UsesDevice, WorkSteps, Held, Handling, Ended, Alive

LEMMA StutterInv ==
  ASSUME IInv, UNCHANGED AllVars
  PROVE  IInv'
<1>1. Listed' = Listed
  BY DEF AllVars, Listed
<1> QED
  BY <1>1 DEF AllVars, IInv, TypeOK, MutexInv, UsesDevice, MainInv, FreshInv, DataInv, ListInv,
              SocketOutlivesThread, Alive, Distinct

LEMMA ClientStepInv ==
  ASSUME IInv, NEW c \in Clients, ClientStep(c)
  PROVE  IInv'
<1>1. /\ client' \in [Clients -> {"away", "connected", "sent", "gone", "reset"}]
      /\ sock' \in [Clients -> {"none", "queued", "open", "shut", "closed", "refused"}]
      /\ \A d \in Clients :
           \/ client'[d] = client[d] /\ sock'[d] = sock[d]
           \/ sock[d] = "none" /\ sock'[d] = "queued" /\ client'[d] = "connected"
           \/ client'[d] # "away" /\ sock'[d] = sock[d]
  BY DEF ClientStep, Connect, SendLine, HangUp, Reset, fdVars, IInv, TypeOK, FreshInv
<1>2. UNCHANGED <<devOpen, dev_fd, data, list, work, fileMutex, main, cur, cursor, Listed>>
  BY DEF ClientStep, Connect, SendLine, HangUp, Reset, fdVars, threadVars, mainVars, Listed
<1>3. TypeOK'
  BY <1>1, <1>2 DEF IInv, TypeOK
<1>4. MutexInv' /\ DataInv'
  BY <1>2 DEF IInv, MutexInv, UsesDevice, DataInv
<1>5. MainInv'
  BY <1>1, <1>2 DEF IInv, MainInv, Held
<1>6. FreshInv'
  BY <1>1, <1>2 DEF IInv, FreshInv
<1>7. ListInv'
  BY <1>2 DEF IInv, ListInv, Alive
<1>8. SocketOutlivesThread'
  BY <1>1, <1>2 DEF IInv, SocketOutlivesThread, FreshInv, Alive
<1> QED
  BY <1>3, <1>4, <1>5, <1>6, <1>7, <1>8 DEF IInv

\* Every step of a thread but the mutex it takes or gives back.
LEMMA WorkInv ==
  ASSUME IInv, NEW c \in Clients, NEW from, NEW to,
         from \in WorkSteps \cup {"return"},
         to \in WorkSteps \cup {"return", "exited", "dead"},
         from = "return" => to = "exited",
         to \in {"lock", "read", "device", "echo", "reply"} =>
           from \in {"lock", "read", "device", "echo", "reply"},
         Step(c, from, to),
         UNCHANGED <<client, sock, devOpen, dev_fd, data, list, main, cur, cursor>>,
         fileMutex' \in Clients \cup {NULL},
         MutexInv'
  PROVE  IInv'
<1>1. /\ work' \in [Clients -> WorkSteps \cup {"none", "return", "exited", "dead"}]
      /\ work[c] = from /\ work'[c] = to
      /\ \A d \in Clients : d # c => work'[d] = work[d]
  BY DEF Step, IInv, TypeOK
<1>2. Listed' = Listed
  BY DEF Listed
<1>3. TypeOK'
  BY <1>1 DEF IInv, TypeOK
<1>4. from # "none" /\ to # "none" /\ (to \in WorkSteps => from \in WorkSteps)
  BY DEF WorkSteps
<1>5. MainInv'
  <2>1. work[c] \in {"return", "exited"} => work'[c] \in {"return", "exited"}
    BY <1>1 DEF WorkSteps
  <2> QED
    BY <1>1, <1>2, <1>4, <2>1 DEF IInv, MainInv, Held
<1>6. FreshInv'
  BY <1>1, <1>4 DEF IInv, FreshInv
<1>7. DataInv'
  BY <1>1, <1>2, <1>4 DEF IInv, DataInv
<1>8. ListInv'
  BY <1>1, <1>2, <1>4 DEF IInv, ListInv, Alive
<1>9. SocketOutlivesThread'
  BY <1>1 DEF IInv, SocketOutlivesThread, Alive
<1> QED
  BY <1>3, <1>5, <1>6, <1>7, <1>8, <1>9 DEF IInv

LEMMA ThreadStepInv ==
  ASSUME IInv, NEW c \in Clients, ThreadStep(c) \/ MessageNoMem(c)
  PROVE  IInv'
<1> USE DEF clientVars, fdVars, threadVars, mainVars
<1>1. CASE LockFile(c)
  <2>1. MutexInv' /\ fileMutex' \in Clients
    BY <1>1, ServerAssumption DEF LockFile, MutexFree, Step, IInv, MutexInv, UsesDevice, TypeOK
  <2> QED
    BY <1>1, <2>1, WorkInv DEF LockFile, WorkSteps
<1>2. ASSUME NEW from \in {"read", "device", "echo", "reply"},
             NEW to \in {"device", "echo", "reply", "unlock", "dead"},
             Step(c, from, to),
             UNCHANGED <<client, sock, devOpen, dev_fd, data, list, fileMutex, main, cur, cursor>>
      PROVE  IInv'
  <2>1. MutexInv' /\ fileMutex' \in Clients \cup {NULL}
    BY <1>2 DEF Step, IInv, MutexInv, UsesDevice, TypeOK
  <2> QED
    BY <1>2, <2>1, WorkInv DEF WorkSteps
<1>3. CASE \/ MessageEnds(c) \/ MessageNoMem(c) \/ UseDevice(c) \/ UseDeviceFails(c)
           \/ UseDeviceOops(c) \/ Echo(c) \/ Reply(c)
  BY <1>2, <1>3
     DEF MessageEnds, MessageNoMem, UseDevice, UseDeviceFails, UseDeviceOops, Echo, Reply
<1>4. CASE UnlockFile(c)
  <2>1. MutexInv' /\ fileMutex' = NULL
    BY <1>4 DEF UnlockFile, Step, IInv, MutexInv, UsesDevice, TypeOK
  <2> QED
    BY <1>4, <2>1, WorkInv DEF UnlockFile, WorkSteps
<1>5. CASE SetFlag(c) \/ ThreadExits(c)
  <2>1. MutexInv' /\ fileMutex' \in Clients \cup {NULL}
    BY <1>5 DEF SetFlag, ThreadExits, Step, IInv, MutexInv, UsesDevice, TypeOK
  <2>2. CASE SetFlag(c)
    BY <2>1, <2>2, WorkInv DEF SetFlag, WorkSteps
  <2>3. CASE ThreadExits(c)
    BY <2>1, <2>3, WorkInv DEF ThreadExits, WorkSteps
  <2> QED
    BY <1>5, <2>2, <2>3
<1>6. CASE EchoSpins(c)
  <2>1. UNCHANGED AllVars
    BY <1>6 DEF EchoSpins, vars, AllVars
  <2> QED
    BY <2>1, StutterInv
<1>7. CASE ReplyKills(c)
  <2>1. main' = "killed" /\ UNCHANGED <<client, sock, devOpen, dev_fd, data, list, work, fileMutex, cur, cursor, Listed>>
    BY <1>7 DEF ReplyKills, Listed
  <2> QED
    BY <2>1 DEF IInv, TypeOK, MutexInv, UsesDevice, MainInv, FreshInv, DataInv, ListInv,
                SocketOutlivesThread, Alive, Ended, Held
<1> QED
  BY <1>1, <1>3, <1>4, <1>5, <1>6, <1>7 DEF ThreadStep

-----------------------------------------------------------------------------
(* main: accept a client, start its thread, reap those that are done. *)

LEMMA TurnAwayInv ==
  ASSUME IInv, AcceptFails \/ RefuseNoMem \/ OpenFails \/ InsertFails
  PROVE  IInv'
<1> USE DEF clientVars, fdVars, threadVars, mainVars
<1>1. CASE AcceptFails \/ InsertFails
  <2>1. main' = "failed" /\ UNCHANGED <<client, sock, devOpen, dev_fd, data, list, work, fileMutex, cur, cursor, Listed>>
    BY <1>1 DEF AcceptFails, InsertFails, Listed
  <2> QED
    BY <2>1 DEF IInv, TypeOK, MutexInv, UsesDevice, MainInv, FreshInv, DataInv, ListInv,
                SocketOutlivesThread, Alive, Ended, Held
<1>2. CASE RefuseNoMem \/ OpenFails
  <2>1. /\ main = "open" /\ main' = "accept" /\ cur \in Clients
        /\ work[cur] = "none" /\ sock[cur] = "open"
        /\ sock' = [sock EXCEPT ![cur] = "refused"]
        /\ dev_fd' \in Clients \cup {NULL}
        /\ UNCHANGED <<client, devOpen, data, list, work, fileMutex, cur, cursor, Listed>>
    BY <1>2 DEF RefuseNoMem, OpenFails, Listed, IInv, MainInv, TypeOK
  <2>2. /\ sock' \in [Clients -> {"none", "queued", "open", "shut", "closed", "refused"}]
        /\ sock'[cur] = "refused"
        /\ \A d \in Clients : d # cur => sock'[d] = sock[d]
    BY <2>1 DEF IInv, TypeOK
  <2>3. TypeOK'
    BY <2>1, <2>2 DEF IInv, TypeOK
  <2>4. MutexInv' /\ DataInv' /\ MainInv'
    BY <2>1 DEF IInv, MutexInv, UsesDevice, DataInv, MainInv, Held
  <2>5. FreshInv'
    BY <2>1, <2>2 DEF IInv, FreshInv
  <2>6. ListInv'
    BY <2>1 DEF IInv, ListInv, Alive, Ended, Held, Handling
  <2>7. SocketOutlivesThread'
    BY <2>1, <2>2 DEF IInv, SocketOutlivesThread, Alive, Ended, Handling
  <2> QED
    BY <2>3, <2>4, <2>5, <2>6, <2>7 DEF IInv
<1> QED
  BY <1>1, <1>2

LEMMA AcceptInv ==
  ASSUME IInv, NEW c \in Clients, Accept(c)
  PROVE  IInv'
<1>1. /\ main = "accept" /\ main' = "open" /\ cur' = c /\ sock[c] = "queued"
      /\ UNCHANGED <<client, devOpen, dev_fd, data, list, work, fileMutex, cursor, Listed>>
  BY DEF Accept, clientVars, threadVars, Listed
<1>2. /\ sock' \in [Clients -> {"none", "queued", "open", "shut", "closed", "refused"}]
      /\ sock'[c] = "open"
      /\ \A d \in Clients : d # c => sock'[d] = sock[d]
  BY DEF Accept, IInv, TypeOK
<1>3. data[c] = "none" /\ work[c] = "none" /\ client[c] # "away"
  BY <1>1 DEF IInv, FreshInv
<1>4. TypeOK'
  BY <1>1, <1>2 DEF IInv, TypeOK
<1>5. MutexInv' /\ DataInv'
  BY <1>1 DEF IInv, MutexInv, UsesDevice, DataInv
<1>6. MainInv'
  BY <1>1, <1>2, <1>3 DEF MainInv, Held
<1>7. FreshInv'
  BY <1>1, <1>2, <1>3 DEF IInv, FreshInv
<1>8. ListInv'
  BY <1>1 DEF IInv, ListInv, Alive, Ended, Held, Handling
<1>9. SocketOutlivesThread'
  BY <1>1, <1>2 DEF IInv, SocketOutlivesThread, Alive, Ended, Handling
<1> QED
  BY <1>4, <1>5, <1>6, <1>7, <1>8, <1>9 DEF IInv

LEMMA OpenDeviceInv ==
  ASSUME IInv, OpenDevice
  PROVE  IInv'
<1>1. /\ main = "open" /\ main' = "insert" /\ cur \in Clients
      /\ devOpen' = devOpen \cup {cur} /\ dev_fd' = cur
      /\ UNCHANGED <<client, sock, data, list, work, fileMutex, cur, cursor, Listed>>
  BY DEF OpenDevice, clientVars, threadVars, Listed, IInv, MainInv
<1>2. TypeOK'
  BY <1>1 DEF IInv, TypeOK
<1>3. MutexInv' /\ DataInv' /\ FreshInv' /\ MainInv'
  BY <1>1 DEF IInv, MutexInv, UsesDevice, DataInv, FreshInv, MainInv, Held
<1>4. ListInv' /\ SocketOutlivesThread'
  BY <1>1 DEF IInv, ListInv, SocketOutlivesThread, Alive, Ended, Held, Handling
<1> QED
  BY <1>2, <1>3, <1>4 DEF IInv

LEMMA InsertInv ==
  ASSUME IInv, insert_thread_data
  PROVE  IInv'
<1>1. /\ main = "insert" /\ main' = "create" /\ cur \in Clients
      /\ data[cur] = "none" /\ work[cur] = "none" /\ sock[cur] = "open"
      /\ list' = <<cur>> \o list
      /\ UNCHANGED <<client, sock, devOpen, dev_fd, work, fileMutex, cur, cursor>>
  BY DEF insert_thread_data, clientVars, fdVars, IInv, MainInv
<1>2. /\ data' \in [Clients -> {"none", "alloc", "freed"}]
      /\ data'[cur] = "alloc"
      /\ \A d \in Clients : d # cur => data'[d] = data[d]
  BY <1>1 DEF insert_thread_data, IInv, TypeOK
<1>3. cur \notin Listed
  BY <1>1 DEF IInv, DataInv
<1>4. list \in Seq(Clients) /\ Len(list) \in Nat
  BY LenProperties DEF IInv, TypeOK
<1>5. /\ list' \in Seq(Clients) /\ Len(list') = Len(list) + 1
      /\ list'[1] = cur
      /\ \A i \in 2 .. Len(list') : list'[i] = list[i - 1]
  BY <1>1, <1>4
<1>6. Listed' = Listed \cup {cur}
  <2>1. \A i \in 1 .. Len(list') : list'[i] \in Listed \cup {cur}
    BY <1>4, <1>5 DEF Listed
  <2>2. \A i \in 1 .. Len(list) : i + 1 \in 2 .. Len(list') /\ list'[i + 1] = list[i]
    BY <1>4, <1>5
  <2>3. \A i \in 1 .. Len(list) : \E j \in 1 .. Len(list') : list'[j] = list[i]
    BY <1>4, <1>5, <2>2
  <2>4. Listed \subseteq Listed'
    BY <2>3 DEF Listed
  <2>5. cur \in Listed'
    BY <1>4, <1>5 DEF Listed
  <2>6. Listed' \subseteq Listed \cup {cur}
    BY <2>1 DEF Listed
  <2> QED
    BY <2>4, <2>5, <2>6
<1>7. Distinct(list')
  <2>1. \A i \in 1 .. Len(list) : list[i] # cur
    BY <1>3 DEF Listed
  <2>2. \A i \in 2 .. Len(list') : i - 1 \in 1 .. Len(list) /\ list'[i] = list[i - 1]
    BY <1>4, <1>5
  <2>3. \A i \in 2 .. Len(list') : list'[i] # list'[1]
    BY <1>5, <2>1, <2>2
  <2>4. \A i, j \in 2 .. Len(list') : list'[i] = list'[j] => i - 1 = j - 1
    BY <2>2 DEF IInv, DataInv, Distinct
  <2>5. \A i \in 1 .. Len(list') : i = 1 \/ i \in 2 .. Len(list')
    BY <1>4, <1>5
  <2>6. \A i, j \in 2 .. Len(list') : list'[i] = list'[j] => i = j
    BY <1>4, <1>5, <2>4
  <2> QED
    BY <2>3, <2>5, <2>6 DEF Distinct
<1>8. TypeOK'
  BY <1>1, <1>2, <1>5 DEF IInv, TypeOK
<1>9. MutexInv' /\ MainInv'
  BY <1>1, <1>2 DEF IInv, MutexInv, UsesDevice, MainInv, Held
<1>10. FreshInv'
  BY <1>1, <1>2 DEF IInv, FreshInv
<1>11. DataInv'
  <2>1. \A c \in Clients : work'[c] \in WorkSteps => data'[c] = "alloc"
    BY <1>1, <1>2 DEF IInv, DataInv
  <2>2. Listed \subseteq Clients
    BY <1>4, ElementOfSeq DEF Listed
  <2>3. \A c \in Listed' : data'[c] = "alloc"
    BY <1>2, <1>6, <2>2 DEF IInv, DataInv
  <2> QED
    BY <1>7, <2>1, <2>3 DEF DataInv
<1>12. ListInv'
  BY <1>1, <1>2, <1>6 DEF IInv, ListInv, Alive, Ended, Held, Handling
<1>13. SocketOutlivesThread'
  BY <1>1 DEF IInv, SocketOutlivesThread, Alive, Ended, Handling
<1> QED
  BY <1>8, <1>9, <1>10, <1>11, <1>12, <1>13 DEF IInv

LEMMA StartThreadInv ==
  ASSUME IInv, StartThread
  PROVE  IInv'
<1>1. /\ main = "create" /\ main' = "reap" /\ cursor' = 1 /\ cur \in Clients
      /\ data[cur] = "alloc" /\ work[cur] = "none" /\ sock[cur] = "open"
      /\ UNCHANGED <<client, sock, devOpen, dev_fd, data, list, fileMutex, cur, Listed>>
  BY DEF StartThread, clientVars, fdVars, IInv, MainInv, Listed
<1>2. /\ work' \in [Clients -> WorkSteps \cup {"none", "return", "exited", "dead"}]
      /\ work'[cur] \in {"none", "lock"}
      /\ \A d \in Clients : d # cur => work'[d] = work[d]
  BY <1>1 DEF StartThread, IInv, TypeOK, WorkSteps
<1>3. list \in Seq(Clients) /\ Len(list) \in Nat
  BY LenProperties DEF IInv, TypeOK
<1>4. TypeOK'
  BY <1>1, <1>2, <1>3 DEF IInv, TypeOK
<1>5. MutexInv' /\ MainInv'
  BY <1>1, <1>2 DEF IInv, MutexInv, UsesDevice, MainInv, Held
<1>6. FreshInv' /\ DataInv'
  BY <1>1, <1>2 DEF IInv, FreshInv, DataInv
<1>7. ListInv'
  BY <1>1 DEF IInv, ListInv, Alive, Ended, Held, Handling
<1>8. SocketOutlivesThread'
  BY <1>1, <1>2 DEF IInv, SocketOutlivesThread, Alive, Ended, Handling
<1> QED
  BY <1>4, <1>5, <1>6, <1>7, <1>8 DEF IInv

LEMMA SearchInv ==
  ASSUME IInv, check_list_next \/ check_list_none
  PROVE  IInv'
<1>1. /\ main = "reap" /\ main' \in {"reap", "accept"}
      /\ UNCHANGED <<client, sock, devOpen, dev_fd, data, list, work, fileMutex, cur, Listed>>
  BY DEF check_list_next, check_list_none, clientVars, fdVars, threadVars, Listed
<1>2. list \in Seq(Clients) /\ Len(list) \in Nat
  BY LenProperties DEF IInv, TypeOK
<1>3. cursor' \in Nat \ {0} /\ (main' = "reap" => cursor' <= Len(list) + 1)
  BY <1>2 DEF check_list_next, check_list_none, IInv, TypeOK
<1>4. TypeOK'
  BY <1>1, <1>3 DEF IInv, TypeOK
<1>5. MutexInv' /\ DataInv' /\ FreshInv' /\ MainInv'
  BY <1>1 DEF IInv, MutexInv, UsesDevice, DataInv, FreshInv, MainInv, Held
<1>6. ListInv' /\ SocketOutlivesThread'
  BY <1>1 DEF IInv, ListInv, SocketOutlivesThread, Alive, Ended, Held, Handling
<1> QED
  BY <1>4, <1>5, <1>6 DEF IInv

LEMMA FoundInv ==
  ASSUME IInv, check_list_found
  PROVE  IInv'
<1> DEFINE c == list[cursor]
<1>1. list \in Seq(Clients) /\ Len(list) \in Nat
  BY LenProperties DEF IInv, TypeOK
<1>2. cursor \in 1 .. Len(list) /\ c \in Clients /\ c \in Listed
  BY <1>1, ElementOfSeq DEF check_list_found, IInv, TypeOK, Listed
<1>3. /\ main = "reap" /\ main' = "join" /\ cur' = c
      /\ work[c] \in {"return", "exited"}
      /\ UNCHANGED <<client, devOpen, dev_fd, data, work, fileMutex, cursor>>
  BY DEF check_list_found, Reapable, Flag, clientVars
<1>4. /\ list' \in Seq(Clients)
      /\ Distinct(list')
      /\ Listed' = Listed \ {c}
  <2>1. list' = Without(list, cursor)
    BY DEF check_list_found
  <2>2. Distinct(list)
    BY DEF IInv, DataInv
  <2>3. /\ list' \in Seq(Clients)
        /\ Distinct(list')
        /\ Entries(list') = Entries(list) \ {c}
    BY <1>1, <1>2, <2>1, <2>2, WithoutFacts
  <2>4. Listed = Entries(list) /\ Listed' = Entries(list')
    BY DEF Listed, Entries
  <2> QED
    BY <2>3, <2>4
<1>5. /\ sock' \in [Clients -> {"none", "queued", "open", "shut", "closed", "refused"}]
      /\ sock'[c] = "closed"
      /\ \A d \in Clients : d # c => sock'[d] = sock[d]
  BY <1>2 DEF check_list_found, IInv, TypeOK
<1> HIDE DEF c
<1>6. TypeOK'
  BY <1>2, <1>3, <1>4, <1>5 DEF IInv, TypeOK
<1>7. MutexInv' /\ MainInv'
  <2>1. data[c] = "alloc"
    BY <1>2 DEF IInv, DataInv
  <2> QED
    BY <1>2, <1>3, <1>4, <2>1 DEF IInv, MutexInv, UsesDevice, MainInv, Held
<1>8. FreshInv'
  BY <1>2, <1>3, <1>5 DEF IInv, FreshInv
<1>9. DataInv'
  BY <1>3, <1>4 DEF IInv, DataInv, Listed
<1>10. ListInv'
  BY <1>3, <1>4 DEF IInv, ListInv, Alive, Ended, Held, Handling
<1>11. SocketOutlivesThread'
  BY <1>3, <1>5 DEF IInv, SocketOutlivesThread, Alive, Ended, Handling
<1> QED
  BY <1>6, <1>7, <1>8, <1>9, <1>10, <1>11 DEF IInv

\* A joined thread's data is freed, by main or by the handler.
LEMMA JoinInv ==
  ASSUME IInv, Reap \/ StopJoin
  PROVE  IInv'
<1>1. /\ main \in Held /\ cur \in Clients /\ cur \notin Listed
      /\ work[cur] \in {"exited", "dead"}
      /\ main = "join" => main' = "reap" /\ cursor' = 1
      /\ main # "join" => main' = "stop" /\ cursor' = cursor /\ main = "stop_join"
      /\ UNCHANGED <<client, sock, devOpen, dev_fd, list, work, fileMutex, cur, Listed>>
  BY DEF Reap, StopJoin, Joined, clientVars, fdVars, IInv, MainInv, Held, Listed
<1>2. /\ data' \in [Clients -> {"none", "alloc", "freed"}]
      /\ data'[cur] = "freed"
      /\ \A d \in Clients : d # cur => data'[d] = data[d]
  BY <1>1 DEF Reap, StopJoin, IInv, TypeOK
<1>3. list \in Seq(Clients) /\ Len(list) \in Nat /\ Listed \subseteq Clients
  BY LenProperties, ElementOfSeq DEF IInv, TypeOK, Listed
<1>4. TypeOK'
  BY <1>1, <1>2, <1>3 DEF IInv, TypeOK, Handling, Held
<1>5. MutexInv' /\ MainInv'
  BY <1>1 DEF IInv, MutexInv, UsesDevice, MainInv, Held
<1>6. FreshInv'
  BY <1>1, <1>2 DEF IInv, FreshInv
<1>7. DataInv'
  BY <1>1, <1>2, <1>3 DEF IInv, DataInv, WorkSteps
<1>8. ListInv'
  BY <1>1, <1>2 DEF IInv, ListInv, Alive, Ended, Held, Handling
<1>9. SocketOutlivesThread'
  BY <1>1 DEF IInv, SocketOutlivesThread, Alive, Ended, Held, Handling
<1> QED
  BY <1>4, <1>5, <1>6, <1>7, <1>8, <1>9 DEF IInv

-----------------------------------------------------------------------------
(* The handler, on main. *)

\* SLIST_REMOVE_HEAD takes out the first entry.
LEMMA TailFacts ==
  ASSUME NEW s \in Seq(Clients), s # <<>>, Distinct(s)
  PROVE  /\ Head(s) \in Clients /\ Head(s) \in Entries(s)
         /\ Tail(s) \in Seq(Clients)
         /\ Distinct(Tail(s))
         /\ Entries(Tail(s)) = Entries(s) \ {Head(s)}
<1>1. Len(s) \in Nat /\ Len(s) >= 1 /\ Head(s) = s[1] /\ 1 \in 1 .. Len(s)
  BY LenProperties, HeadTailProperties
<1>2. Head(s) \in Clients /\ Head(s) \in Entries(s)
  BY <1>1, ElementOfSeq DEF Entries
<1>3. /\ Tail(s) \in Seq(Clients) /\ Len(Tail(s)) = Len(s) - 1
      /\ \A j \in 1 .. Len(s) - 1 : Tail(s)[j] = s[j + 1]
  BY HeadTailProperties
<1>4. Distinct(Tail(s))
  BY <1>1, <1>3 DEF Distinct
<1>5. \A j \in 1 .. Len(s) - 1 : Tail(s)[j] # s[1] /\ \E k \in 1 .. Len(s) : Tail(s)[j] = s[k]
  BY <1>1, <1>3 DEF Distinct
<1>6. \A k \in 1 .. Len(s) : s[k] # s[1] => \E j \in 1 .. Len(s) - 1 : Tail(s)[j] = s[k]
  <2> SUFFICES ASSUME NEW k \in 1 .. Len(s), s[k] # s[1]
               PROVE  \E j \in 1 .. Len(s) - 1 : Tail(s)[j] = s[k]
    OBVIOUS
  <2>1. k - 1 \in 1 .. Len(s) - 1 /\ (k - 1) + 1 = k
    BY <1>1
  <2>2. Tail(s)[k - 1] = s[k]
    BY <1>3, <2>1
  <2> QED
    BY <2>1, <2>2
<1>7. Entries(Tail(s)) \subseteq Entries(s) \ {Head(s)}
  BY <1>1, <1>3, <1>5 DEF Entries
<1>8. Entries(s) \ {Head(s)} \subseteq Entries(Tail(s))
  BY <1>1, <1>3, <1>6 DEF Entries
<1> QED
  BY <1>2, <1>3, <1>4, <1>7, <1>8

\* At any moment: the entry main was joining is lost to the handler, but its
\* thread has made its last use of it.
LEMMA SignalInv ==
  ASSUME IInv, Signal
  PROVE  IInv'
<1>1. /\ Alive /\ main \notin Handling /\ main' = "stop" /\ devOpen' \subseteq devOpen
      /\ UNCHANGED <<client, sock, dev_fd, data, list, work, fileMutex, cur, cursor, Listed>>
  BY DEF Signal, clientVars, threadVars, Listed
<1>2. TypeOK'
  BY <1>1 DEF IInv, TypeOK, Handling
<1>3. MutexInv' /\ DataInv' /\ FreshInv' /\ MainInv'
  BY <1>1 DEF IInv, MutexInv, UsesDevice, DataInv, FreshInv, MainInv, Held
<1>4. ListInv'
  BY <1>1 DEF IInv, ListInv, MainInv, Alive, Ended, Held, Handling, WorkSteps
<1>5. SocketOutlivesThread'
  BY <1>1 DEF SocketOutlivesThread, Handling
<1> QED
  BY <1>2, <1>3, <1>4, <1>5 DEF IInv

LEMMA FreeListInv ==
  ASSUME IInv, free_list
  PROVE  IInv'
<1> DEFINE c == Head(list)
<1>1. list \in Seq(Clients) /\ list # <<>> /\ Distinct(list)
  BY DEF free_list, IInv, TypeOK, DataInv
<1>2. Listed = Entries(list) /\ Listed' = Entries(list')
  BY DEF Listed, Entries
<1>3. /\ c \in Clients /\ c \in Listed
      /\ list' \in Seq(Clients) /\ Distinct(list') /\ Listed' = Listed \ {c}
  BY <1>1, <1>2, TailFacts DEF free_list
<1>4. /\ main = "stop" /\ main' = "stop_close" /\ cur' = c
      /\ UNCHANGED <<client, devOpen, dev_fd, data, work, fileMutex, cursor>>
  BY DEF free_list, clientVars
<1>5. /\ sock' \in [Clients -> {"none", "queued", "open", "shut", "closed", "refused"}]
      /\ sock'[c] = "shut"
      /\ \A d \in Clients : d # c => sock'[d] = sock[d]
  BY <1>3 DEF free_list, IInv, TypeOK
<1> HIDE DEF c
<1>6. TypeOK'
  BY <1>3, <1>4, <1>5 DEF IInv, TypeOK, Handling
<1>7. MutexInv' /\ MainInv'
  BY <1>3, <1>4, <1>5 DEF IInv, MutexInv, UsesDevice, MainInv, Held
<1>8. FreshInv'
  <2>1. data[c] = "alloc"
    BY <1>3 DEF IInv, DataInv
  <2>2. sock[c] \notin {"none", "queued"} /\ client[c] # "away"
    BY <1>3, <2>1 DEF IInv, FreshInv
  <2> QED
    BY <1>3, <1>4, <1>5, <2>2 DEF IInv, FreshInv
<1>9. DataInv'
  BY <1>3, <1>4 DEF IInv, DataInv
<1>10. ListInv'
  BY <1>3, <1>4 DEF IInv, ListInv, Alive, Ended, Held, Handling
<1>11. SocketOutlivesThread'
  BY <1>4 DEF SocketOutlivesThread, Handling
<1> QED
  BY <1>6, <1>7, <1>8, <1>9, <1>10, <1>11 DEF IInv

LEMMA StopCloseInv ==
  ASSUME IInv, StopClose
  PROVE  IInv'
<1>1. /\ main = "stop_close" /\ main' = "stop_join" /\ cur \in Clients
      /\ UNCHANGED <<client, devOpen, dev_fd, data, list, work, fileMutex, cur, cursor, Listed>>
  BY DEF StopClose, clientVars, threadVars, Listed, IInv, MainInv, Held
<1>2. /\ sock' \in [Clients -> {"none", "queued", "open", "shut", "closed", "refused"}]
      /\ sock'[cur] = "closed"
      /\ \A d \in Clients : d # cur => sock'[d] = sock[d]
  BY <1>1 DEF StopClose, IInv, TypeOK
<1>3. TypeOK'
  BY <1>1, <1>2 DEF IInv, TypeOK, Handling
<1>4. MutexInv' /\ DataInv' /\ MainInv'
  BY <1>1 DEF IInv, MutexInv, UsesDevice, DataInv, MainInv, Held
<1>5. FreshInv'
  <2>1. sock[cur] = "shut"
    BY <1>1 DEF IInv, MainInv
  <2> QED
    BY <1>1, <1>2, <2>1 DEF IInv, FreshInv
<1>6. ListInv'
  BY <1>1 DEF IInv, ListInv, Alive, Ended, Held, Handling
<1>7. SocketOutlivesThread'
  BY <1>1 DEF SocketOutlivesThread, Handling
<1> QED
  BY <1>3, <1>4, <1>5, <1>6, <1>7 DEF IInv

LEMMA StopEndInv ==
  ASSUME IInv, StopJoinGarbage \/ StopExit
  PROVE  IInv'
<1>1. /\ \/ main = "stop_join" /\ work[cur] = "none" /\ main' \in {"stop", "crashed"}
         \/ main = "stop" /\ Listed = {} /\ main' = "exited"
      /\ UNCHANGED <<client, sock, devOpen, dev_fd, data, list, work, fileMutex, cur, cursor, Listed>>
  <2>1. CASE StopJoinGarbage
    BY <2>1 DEF StopJoinGarbage, clientVars, fdVars, threadVars, Listed
  <2>2. CASE StopExit
    <3>1. list = <<>> => Listed = {}
      BY DEF Listed
    <3> QED
      BY <2>2, <3>1 DEF StopExit, clientVars, fdVars, threadVars, Listed
  <2> QED
    BY <2>1, <2>2
<1>2. TypeOK'
  BY <1>1 DEF IInv, TypeOK, Handling, Ended
<1>3. MutexInv' /\ DataInv' /\ FreshInv' /\ MainInv'
  BY <1>1 DEF IInv, MutexInv, UsesDevice, DataInv, FreshInv, MainInv, Held
<1>4. ListInv'
  BY <1>1 DEF IInv, ListInv, Alive, Ended, Held, Handling, WorkSteps
<1>5. SocketOutlivesThread'
  BY <1>1 DEF SocketOutlivesThread, Handling, Alive, Ended
<1> QED
  BY <1>2, <1>3, <1>4, <1>5 DEF IInv

-----------------------------------------------------------------------------
(* The theorems. *)

LEMMA NextInv ==
  ASSUME IInv, [Next]_vars
  PROVE  IInv'
<1>1. CASE UNCHANGED vars
  <2>1. UNCHANGED AllVars
    BY <1>1 DEF vars, clientVars, fdVars, threadVars, mainVars, AllVars
  <2> QED
    BY <2>1, StutterInv
<1>2. ASSUME NEW c \in Clients, ClientStep(c) \/ ThreadStep(c) \/ MessageNoMem(c)
      PROVE  IInv'
  BY <1>2, ClientStepInv, ThreadStepInv
<1>3. CASE MainStep
  BY <1>3, AcceptInv, TurnAwayInv, OpenDeviceInv, InsertInv, StartThreadInv, SearchInv,
     FoundInv, JoinInv, FreeListInv, StopCloseInv, StopEndInv DEF MainStep
<1>4. CASE Signal
  BY <1>4, SignalInv
<1> QED
  BY <1>1, <1>2, <1>3, <1>4 DEF Next

LEMMA AlwaysInv == Spec => []IInv
<1>1. Init => IInv
  BY InitInv
<1>2. IInv /\ [Next]_vars => IInv'
  BY NextInv
<1> QED
  BY <1>1, <1>2, PTL DEF Spec

\* The types of the server's state: check_list (aesdsocket.c:283-297) never
\* looks behind the end of the list, however the list changes between searches.
THEOREM ServerTypes == Spec => []TypeOK
<1>1. IInv => TypeOK
  BY DEF IInv
<1> QED
  BY <1>1, AlwaysInv, PTL

\* The driver has one user at a time from this server, however many threads
\* there are: fileMutex is held from before the message is read until after the
\* reply (threading.c:24-35).
THEOREM OneDeviceUser == Spec => []DeviceHasOneUser
<1>1. IInv => DeviceHasOneUser
  BY DEF IInv, MutexInv, DeviceHasOneUser
<1> QED
  BY <1>1, AlwaysInv, PTL

\* No thread's data is freed before the thread has made its last use of it,
\* neither by the reaping nor by the handler (aesdsocket.c:324-326, 402-404).
THEOREM NeverUsesFreed == Spec => []NoUseAfterFree
<1>1. IInv => NoUseAfterFree
  BY DEF IInv, DataInv, NoUseAfterFree
<1> QED
  BY <1>1, AlwaysInv, PTL

\* Until a signal, main closes no socket that a thread may still read or write
\* (aesdsocket.c:290-304).
THEOREM SocketsOutliveThreads == Spec => []SocketOutlivesThread
<1>1. IInv => SocketOutlivesThread
  BY DEF IInv
<1> QED
  BY <1>1, AlwaysInv, PTL

\* Every allocated thread_data_t is in the list exactly once, or in main's
\* hands: no thread is forgotten or joined twice (aesdsocket.c:262-326).
THEOREM ListedOnce == Spec => []ThreadsListedOnce
<1>1. ASSUME IInv PROVE ThreadsListedOnce
  <2>1. \A i, j \in 1 .. Len(list) : list[i] = list[j] => i = j
    BY <1>1 DEF IInv, DataInv, Distinct
  <2>2. ASSUME Alive, main \notin Handling, NEW c \in Clients
        PROVE  data[c] = "alloc" <=> c \in Listed \/ (main = "join" /\ cur = c)
    BY <1>1, <2>2 DEF IInv, ListInv, MainInv, DataInv, Held, Handling, Alive, Ended
  <2> QED
    BY <2>1, <2>2 DEF ThreadsListedOnce
<1> QED
  BY <1>1, AlwaysInv, PTL

\* When the server exits on a signal, no thread is in the middle of a client:
\* the handler has joined them all, but the one that main was joining, which
\* is done (aesdsocket.c:366-412).
THEOREM ExitKeepsWork == Spec => []ExitLosesNoWork
<1>1. ASSUME IInv PROVE ExitLosesNoWork
  BY <1>1 DEF IInv, MainInv, DataInv, ListInv, ExitLosesNoWork, Held, Handling
<1> QED
  BY <1>1, AlwaysInv, PTL

=============================================================================
