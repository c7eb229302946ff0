----------------------------- MODULE AesdSocket -----------------------------
(***************************************************************************)
(* The server (server/aesdsocket.c, threading.c, slist.c, client.c) as it  *)
(* is built for the device: main accepts clients, starts one thread for    *)
(* each, and reaps the threads that are done; SIGINT or SIGTERM runs       *)
(* sig_handler on main, which takes all threads down and exits.            *)
(*                                                                         *)
(* A client stands for its connection, for its thread, for the thread's    *)
(* data and for the device file main opened for it.  What the device does  *)
(* is AesdChar; here a call on it works, fails, meets a closed file, or is  *)
(* the end of its thread.                                                  *)
(***************************************************************************)
EXTENDS Naturals, Sequences, FiniteSets

CONSTANTS
  Clients,    \* BOUND: each connects once
  Resetters,  \* those of them that may reset their connection
  NULL,       \* no client
  MaxFds,     \* BOUND: the file descriptors left for clients and device files
  MaySignal   \* BOUND: whether a (single) signal may arrive

ASSUME ServerAssumption ==
  /\ Resetters \subseteq Clients
  /\ NULL \notin Clients
  /\ MaxFds \in Nat
  /\ MaySignal \in BOOLEAN

VARIABLES
  client,     \* what each client has done with its connection
  sock,       \* the server's socket for it, *thread_data->sockfd
  devOpen,    \* the clients whose device file is open
  dev_fd,     \* the client whose device file main opened last
  data,       \* the thread_data_t of each client
  list,       \* the list of threads (head), newest first
  work,       \* how far each thread is
  fileMutex,  \* the client whose thread holds fileMutex, or NULL
  main,       \* how far main is, or how the process ended
  cur,        \* the client main is dealing with
  cursor      \* the entry check_list looks at

clientVars == <<client>>
fdVars     == <<sock, devOpen, dev_fd>>
threadVars == <<data, list, work, fileMutex>>
mainVars   == <<main, cur, cursor>>
vars       == <<clientVars, fdVars, threadVars, mainVars>>

Ended == {"exited", "failed", "killed", "crashed"}

Alive == main \notin Ended

Init ==
  /\ client = [c \in Clients |-> "away"]
  /\ sock = [c \in Clients |-> "none"]
  /\ devOpen = {} /\ dev_fd = NULL
  /\ data = [c \in Clients |-> "none"]
  /\ list = <<>>
  /\ work = [c \in Clients |-> "none"]
  /\ fileMutex = NULL
  /\ main = "accept" /\ cur = NULL /\ cursor = 1

Listed == {list[i] : i \in 1 .. Len(list)}

\* Mutant of Without: the entries behind it are lost too.
Without_CutOff(s, i) == SubSeq(s, 1, i - 1)

\* SLIST_REMOVE of the entry at place i.
Without(s, i) == [j \in 1 .. Len(s) - 1 |-> IF j < i THEN s[j] ELSE s[j + 1]]

-----------------------------------------------------------------------------
(* Clients: they connect, then send one line, hang up, or do nothing. *)

Connect(c) ==
  /\ Alive /\ client[c] = "away"
  /\ client' = [client EXCEPT ![c] = "connected"]
  /\ sock' = [sock EXCEPT ![c] = "queued"]
  /\ UNCHANGED <<devOpen, dev_fd, threadVars, mainVars>>

SendLine(c) ==
  /\ Alive /\ client[c] = "connected"
  /\ client' = [client EXCEPT ![c] = "sent"]
  /\ UNCHANGED <<fdVars, threadVars, mainVars>>

HangUp(c) ==
  /\ Alive /\ client[c] = "connected"
  /\ client' = [client EXCEPT ![c] = "gone"]
  /\ UNCHANGED <<fdVars, threadVars, mainVars>>

Reset(c) ==
  /\ Alive /\ c \in Resetters /\ client[c] \in {"connected", "sent", "gone"}
  /\ client' = [client EXCEPT ![c] = "reset"]
  /\ UNCHANGED <<fdVars, threadVars, mainVars>>

-----------------------------------------------------------------------------
(* main: accept a client and start its thread. *)

FdsInUse ==
  Cardinality({c \in Clients : sock[c] \in {"open", "shut"}}) + Cardinality(devOpen)

FreeFd == FdsInUse < MaxFds

Accept(c) ==
  /\ main = "accept" /\ sock[c] = "queued" /\ FreeFd
  /\ sock' = [sock EXCEPT ![c] = "open"]
  /\ main' = "open" /\ cur' = c
  /\ UNCHANGED <<clientVars, devOpen, dev_fd, threadVars, cursor>>

\* Every error of accept but EINTR ends the server: no descriptor is left, or no
\* memory for the connection it was to take.
AcceptFails ==
  /\ main = "accept" /\ (FreeFd => \E c \in Clients : sock[c] = "queued")
  /\ main' = "failed"
  /\ UNCHANGED <<clientVars, fdVars, threadVars, cur, cursor>>

\* The client is turned away: no memory for its thread.
RefuseNoMem ==
  /\ main = "open"
  /\ sock' = [sock EXCEPT ![cur] = "refused"]
  /\ main' = "accept"
  /\ UNCHANGED <<clientVars, devOpen, dev_fd, threadVars, cur, cursor>>

OpenDevice ==
  /\ main = "open" /\ FreeFd
  /\ devOpen' = devOpen \cup {cur} /\ dev_fd' = cur
  /\ main' = "insert"
  /\ UNCHANGED <<clientVars, sock, threadVars, cur, cursor>>

\* The client is turned away: no descriptor, or no device.
OpenFails ==
  /\ main = "open"
  /\ dev_fd' = NULL
  /\ sock' = [sock EXCEPT ![cur] = "refused"]
  /\ main' = "accept"
  /\ UNCHANGED <<clientVars, devOpen, threadVars, cur, cursor>>

insert_thread_data ==
  /\ main = "insert"
  /\ data' = [data EXCEPT ![cur] = "alloc"]
  /\ list' = <<cur>> \o list
  /\ main' = "create"
  /\ UNCHANGED <<clientVars, fdVars, work, fileMutex, cur, cursor>>

\* No memory for the list entry: the server exits on the spot.
InsertFails ==
  /\ main = "insert"
  /\ main' = "failed"
  /\ UNCHANGED <<clientVars, fdVars, threadVars, cur, cursor>>

\* start_thread_obtaining_mutex: pthread_create works, or the entry stays in
\* the list with a thread id that was never set.
StartThread ==
  /\ main = "create"
  /\ work' \in {work, [work EXCEPT ![cur] = "lock"]}
  /\ main' = "reap" /\ cursor' = 1
  /\ UNCHANGED <<clientVars, fdVars, data, list, fileMutex, cur>>

-----------------------------------------------------------------------------
(* main: reap the threads that are done. *)

\* thread_complete_success, which a thread sets when it is done.
Flag(c) == work[c] \in {"return", "exited"}

\* Mutant of Reapable: a thread is taken once it has used the device.
Reapable_Early(c) == Flag(c) \/ work[c] = "reply"

\* What check_list takes an entry for done by.
Reapable(c) == Flag(c)

\* Mutant of check_list_next: the search skips an entry.
check_list_next_Skips ==
  /\ main = "reap" /\ cursor <= Len(list) /\ ~Reapable(list[cursor])
  /\ cursor' = cursor + 2
  /\ UNCHANGED <<clientVars, fdVars, threadVars, main, cur>>

\* One entry that check_list passes by.
check_list_next ==
  /\ main = "reap" /\ cursor <= Len(list) /\ ~Reapable(list[cursor])
  /\ cursor' = cursor + 1
  /\ UNCHANGED <<clientVars, fdVars, threadVars, main, cur>>

\* One that it takes out; main shuts and closes its socket, then joins.
check_list_found ==
  /\ main = "reap" /\ cursor <= Len(list) /\ Reapable(list[cursor])
  /\ cur' = list[cursor]
  /\ list' = Without(list, cursor)
  /\ sock' = [sock EXCEPT ![list[cursor]] = "closed"]
  /\ main' = "join"
  /\ UNCHANGED <<clientVars, devOpen, dev_fd, data, work, fileMutex, cursor>>

\* The end of the list: nobody is waited for.
check_list_none ==
  /\ main = "reap" /\ cursor > Len(list)
  /\ main' = "accept"
  /\ UNCHANGED <<clientVars, fdVars, threadVars, cur, cursor>>

\* Mutant of Joined: pthread_join is left out.
Joined_NoJoin(c) == TRUE

\* pthread_join returns, also for a thread that the kernel has killed.
Joined(c) == work[c] \in {"exited", "dead"}

\* The device file of the thread stays open.
Reap ==
  /\ main = "join" /\ Joined(cur)
  /\ data' = [data EXCEPT ![cur] = "freed"]
  /\ main' = "reap" /\ cursor' = 1
  /\ UNCHANGED <<clientVars, fdVars, list, work, fileMutex, cur>>

-----------------------------------------------------------------------------
(* main: SIGINT or SIGTERM.  The kernel delivers it to main, wherever it is. *)

Handling == {"stop", "stop_close", "stop_join"}

Signal ==
  /\ MaySignal /\ Alive /\ main \notin Handling
  /\ devOpen' = devOpen \ {dev_fd}
  /\ main' = "stop"
  /\ UNCHANGED <<clientVars, sock, dev_fd, threadVars, cur, cursor>>

\* Mutant of free_list: the entry stays in the list.
free_list_Kept ==
  /\ main = "stop" /\ list # <<>>
  /\ cur' = Head(list)
  /\ sock' = [sock EXCEPT ![Head(list)] = "shut"]
  /\ main' = "stop_close"
  /\ UNCHANGED <<clientVars, devOpen, dev_fd, threadVars, cursor>>

\* free_list takes the newest thread, and its socket is shut down,
free_list ==
  /\ main = "stop" /\ list # <<>>
  /\ cur' = Head(list) /\ list' = Tail(list)
  /\ sock' = [sock EXCEPT ![Head(list)] = "shut"]
  /\ main' = "stop_close"
  /\ UNCHANGED <<clientVars, devOpen, dev_fd, data, work, fileMutex, cursor>>

\* closed,
StopClose ==
  /\ main = "stop_close"
  /\ sock' = [sock EXCEPT ![cur] = "closed"]
  /\ main' = "stop_join"
  /\ UNCHANGED <<clientVars, devOpen, dev_fd, threadVars, cur, cursor>>

\* and the thread joined and freed.
StopJoin ==
  /\ main = "stop_join" /\ Joined(cur)
  /\ data' = [data EXCEPT ![cur] = "freed"]
  /\ main' = "stop"
  /\ UNCHANGED <<clientVars, fdVars, list, work, fileMutex, cur, cursor>>

\* pthread_join with an id that pthread_create never set: an error, or a crash.
StopJoinGarbage ==
  /\ main = "stop_join" /\ work[cur] = "none"
  /\ main' \in {"stop", "crashed"}
  /\ UNCHANGED <<clientVars, fdVars, threadVars, cur, cursor>>

StopExit ==
  /\ main = "stop" /\ list = <<>>
  /\ main' = "exited"
  /\ UNCHANGED <<clientVars, fdVars, threadVars, cur, cursor>>

-----------------------------------------------------------------------------
(* threadfunc and handle_client. *)

Step(c, from, to) == Alive /\ work[c] = from /\ work' = [work EXCEPT ![c] = to]

\* Mutant of MutexFree: the device is not locked.
MutexFree_Always == TRUE

MutexFree == fileMutex = NULL

LockFile(c) ==
  /\ Step(c, "lock", "read")
  /\ MutexFree /\ fileMutex' = c
  /\ UNCHANGED <<clientVars, fdVars, data, list, mainVars>>

\* The message is there, or there will be no more of it: a line, the end of the
\* connection, or an error.  Each of them goes on to the device.
MessageEnds(c) ==
  /\ \/ client[c] \in {"sent", "gone", "reset"}
     \/ sock[c] \in {"shut", "closed"}
  /\ Step(c, "read", "device")
  /\ UNCHANGED <<clientVars, fdVars, data, list, fileMutex, mainVars>>

\* realloc fails in the middle of a message.
MessageNoMem(c) ==
  /\ client[c] = "connected"
  /\ Step(c, "read", "unlock")
  /\ UNCHANGED <<clientVars, fdVars, data, list, fileMutex, mainVars>>

\* write or AESDCHAR_IOCSEEKTO on the device file,
UseDevice(c) ==
  /\ c \in devOpen
  /\ Step(c, "device", "echo")
  /\ UNCHANGED <<clientVars, fdVars, data, list, fileMutex, mainVars>>

\* which can fail, and does when the file is closed.
UseDeviceFails(c) ==
  /\ Step(c, "device", "unlock")
  /\ UNCHANGED <<clientVars, fdVars, data, list, fileMutex, mainVars>>

\* An empty message, which is what a client that hangs up leaves, or one that
\* begins with a NUL, may make the kernel kill the thread in aesd_write (see
\* WriteOops of AesdChar).  The thread keeps fileMutex.
UseDeviceOops(c) ==
  /\ c \in devOpen
  /\ Step(c, "device", "dead")
  /\ UNCHANGED <<clientVars, fdVars, data, list, fileMutex, mainVars>>

\* echo_buffer reads until the device has no more,
Echo(c) ==
  /\ c \in devOpen
  /\ Step(c, "echo", "reply")
  /\ UNCHANGED <<clientVars, fdVars, data, list, fileMutex, mainVars>>

\* and goes on for ever when a read fails: do { ... } while (rpos < FSIZE).
EchoSpins(c) ==
  /\ Alive /\ work[c] = "echo" /\ c \notin devOpen
  /\ UNCHANGED vars

\* Nobody listens to the reply any more: the write raises SIGPIPE.
BrokenPipe(c) == sock[c] = "shut" \/ (sock[c] = "open" /\ client[c] = "reset")

Reply(c) ==
  /\ ~BrokenPipe(c)
  /\ Step(c, "reply", "unlock")
  /\ UNCHANGED <<clientVars, fdVars, data, list, fileMutex, mainVars>>

\* SIGPIPE is not handled: it ends the process.
ReplyKills(c) ==
  /\ Alive /\ work[c] = "reply" /\ BrokenPipe(c)
  /\ main' = "killed"
  /\ UNCHANGED <<clientVars, fdVars, threadVars, cur, cursor>>

\* Mutant of UnlockFile: the mutex is kept.
UnlockFile_Kept(c) ==
  /\ Step(c, "unlock", "flag")
  /\ UNCHANGED <<clientVars, fdVars, data, list, fileMutex, mainVars>>

UnlockFile(c) ==
  /\ Step(c, "unlock", "flag")
  /\ fileMutex' = NULL
  /\ UNCHANGED <<clientVars, fdVars, data, list, mainVars>>

\* thread_complete_success is set whatever handle_client returned.
SetFlag(c) ==
  /\ Step(c, "flag", "return")
  /\ UNCHANGED <<clientVars, fdVars, data, list, fileMutex, mainVars>>

ThreadExits(c) ==
  /\ Step(c, "return", "exited")
  /\ UNCHANGED <<clientVars, fdVars, data, list, fileMutex, mainVars>>

-----------------------------------------------------------------------------
ClientStep(c) == Connect(c) \/ SendLine(c) \/ HangUp(c) \/ Reset(c)

MainStep ==
  \/ \E c \in Clients : Accept(c)
  \/ AcceptFails \/ RefuseNoMem \/ OpenDevice \/ OpenFails
  \/ insert_thread_data \/ InsertFails \/ StartThread
  \/ check_list_next \/ check_list_found \/ check_list_none \/ Reap
  \/ free_list \/ StopClose \/ StopJoin \/ StopJoinGarbage \/ StopExit

\* What a thread does when memory does not run out in the middle of a message.
ThreadStep(c) ==
  \/ LockFile(c) \/ MessageEnds(c)
  \/ UseDevice(c) \/ UseDeviceFails(c) \/ UseDeviceOops(c)
  \/ Echo(c) \/ EchoSpins(c) \/ Reply(c) \/ ReplyKills(c)
  \/ UnlockFile(c) \/ SetFlag(c) \/ ThreadExits(c)

Next ==
  \/ \E c \in Clients : ClientStep(c) \/ ThreadStep(c) \/ MessageNoMem(c)
  \/ MainStep
  \/ Signal

\* The scheduler runs main and every thread that can run.
ThreadFairness ==
  /\ WF_vars(MainStep)
  /\ \A c \in Clients : WF_vars(ThreadStep(c))

Spec == Init /\ [][Next]_vars /\ ThreadFairness

\* Clients that do not stay silent for ever: they send a line or hang up.
PatientSpec ==
  Spec /\ \A c \in Clients : WF_vars(SendLine(c) \/ HangUp(c))

-----------------------------------------------------------------------------
WorkSteps == {"lock", "read", "device", "echo", "reply", "unlock", "flag"}

\* The types of the server's state; check_list never looks behind the list.
TypeOK ==
  /\ client \in [Clients -> {"away", "connected", "sent", "gone", "reset"}]
  /\ sock \in [Clients -> {"none", "queued", "open", "shut", "closed", "refused"}]
  /\ devOpen \subseteq Clients /\ dev_fd \in Clients \cup {NULL}
  /\ data \in [Clients -> {"none", "alloc", "freed"}]
  /\ list \in Seq(Clients)
  /\ work \in [Clients -> WorkSteps \cup {"none", "return", "exited", "dead"}]
  /\ fileMutex \in Clients \cup {NULL}
  /\ main \in {"accept", "open", "insert", "create", "reap", "join"} \cup Handling \cup Ended
  /\ cur \in Clients \cup {NULL}
  /\ cursor \in Nat \ {0}
  /\ main = "reap" => cursor <= Len(list) + 1

-----------------------------------------------------------------------------
(* Safety. *)

UsesDevice(c) == work[c] \in {"read", "device", "echo", "reply", "unlock"}

\* The driver never has two writers at a time from this server, which is what
\* its own unlocked count (see AesdChar) relies on: fileMutex is held from
\* before the message is read until after the reply (threading.c:24-35).
DeviceHasOneUser ==
  \A c, d \in Clients : UsesDevice(c) /\ UsesDevice(d) => c = d

\* A thread's data is there until the thread has made its last use of it, in
\* both places that free it (aesdsocket.c:324-326 and 402-404).
NoUseAfterFree ==
  Alive => \A c \in Clients : work[c] \in WorkSteps => data[c] = "alloc"

\* Until the server is told to stop, a thread has its socket to itself: main
\* does not close it, so that accept cannot give the descriptor to the next
\* client, while the thread may still read or write (aesdsocket.c:290-304).
SocketOutlivesThread ==
  Alive /\ main \notin Handling =>
    \A c \in Clients :
      work[c] \in {"lock", "read", "device", "echo", "reply"} => sock[c] = "open"

\* Every thread's data is in the list once, until main takes it out to free it:
\* no thread is forgotten, and none is joined twice.
ThreadsListedOnce ==
  /\ \A i, j \in 1 .. Len(list) : list[i] = list[j] => i = j
  /\ Alive /\ main \notin Handling =>
       \A c \in Clients :
         data[c] = "alloc" <=> c \in Listed \/ (main = "join" /\ cur = c)

\* When the server exits on a signal, no thread is cut off in the middle of a
\* client: what was written to the device has been answered or has failed.
ExitLosesNoWork ==
  main = "exited" => \A c \in Clients : work[c] \notin WorkSteps

ActiveThreads == {c \in Clients : work[c] \in WorkSteps \cup {"return"}}

\* "The number of threads active should be limited only by the amount of
\* available memory" (threading.h:42): with no thread active at all, there are
\* descriptors for one more.
OnlyMemoryLimits == main = "open" /\ ActiveThreads = {} => FreeFd

-----------------------------------------------------------------------------
(* Liveness. *)

\* pthread_create failed for it: nobody serves this client.
Unstarted(c) == data[c] = "alloc" /\ work[c] = "none" /\ main # "create"

\* A thread died in the driver with fileMutex: nobody gets to the device again.
DeviceDown == \E c \in Clients : work[c] = "dead"

\* A client that is in the queue gets a thread, and the thread gets through the
\* device to its end, unless there was no memory, descriptor or thread for it, a
\* thread died in the driver, or the server has been told to stop
\* (aesdsocket.c:200-334, threading.c:24-35).
ClientsServed ==
  \A c \in Clients :
    sock[c] = "queued" ~>
      \/ work[c] = "exited" \/ sock[c] = "refused" \/ Unstarted(c)
      \/ main \in Handling \/ ~Alive \/ DeviceDown

Spinning == \E c \in Clients : work[c] = "echo" /\ c \notin devOpen

\* "Stopping aesdsocket" (aesdsocket-start-stop:9): a signal ends the server, but
\* for the case that a thread is just reading the device file that the handler
\* closes (aesdsocket.c:368), and that one died in the driver.  It takes clients
\* that do not stay silent.
StopEndsUnlessSpinning == main = "stop" /\ ~Spinning ~> ~Alive \/ DeviceDown
=============================================================================
