# A verification development of the aesdchar driver and the aesdsocket server

The repository holds a Linux character driver (`aesd-char-driver/`), a threaded
TCP server that stores what its clients send in that device, or in a file
(`server/`), and the exercises that led there (`examples/`, `finder-app/`). The
modules here model the driver, its loading, both builds of the server, the server
on the driver, and the process wrappers of `examples/systemcalls`; they are
checked with TLC on small instances, and their main properties are proved with
TLAPS for every value of the constants.

Contents: [inventory](#1-inventory) - [modules](#2-modules) -
[runs](#3-runs-and-bounds) - [disagreements](#4-where-code-and-documents-disagree) -
[proofs](#5-proofs) - [what is left out](#6-not-modelled) - [plan](#7-plan)

## 1. Inventory

| component | state | operations | what makes it correct | module |
|---|---|---|---|---|
| circular buffer (`aesd-circular-buffer.c`) | `entry[10]`, `in_offs`, `out_offs`, `full` | init, add_entry, find_entry_offset_for_fpos, size | offsets and flag agree after any number of adds; the searches wrap in the same way; the pointer that add_entry returns is the one nobody keeps | `CircularBuffer` |
| driver, file operations (`main.c`) | the ring, `write_buffer` and its index, the mutex, the heap, each file's `f_pos` | open, release, read, write, llseek, ioctl | no leak or dangling entry; writes stay in `write_buffer`; a line is stored by the write that completes it; an error changes nothing; the mutex is given back | `AesdChar` |
| driver, load and unload (`main.c`, `aesdchar_load`, `aesdchar_unload`) | device number, both buffers, the cdev, the node | aesd_init_module, aesd_setup_cdev, aesd_cleanup_module, mknod, rm | what can be opened is initialised; each failure gives back what was taken; unloading leaves nothing | `DriverLifecycle` |
| server, main loop (`aesdsocket.c`) | listening socket, last device file, list of threads | accept, open, insert, create, reap | a thread's socket and data outlive it; none is forgotten; clients are served | `AesdSocket` |
| server, signal handler (`aesdsocket.c`) | as above | close the device, take down every thread, exit | ends; loses no work | `AesdSocket` |
| list of threads (`slist.c`) | `head` | insert_thread_data, check_list, free_list | every thread is in it once | `AesdSocket` |
| client thread (`threading.c`, `client.c`) | `thread_data_t`, `fileMutex`, the message, the reply's buffer | receive, write or seek, echo, reply | a line and its answer are one exchange; the reply fits its buffer; each client is answered | `ServerDevice` |
| file build and timer (`aesdsocket.c`, `client.c`) | one stream of stdio, a POSIX timer | as above, with a timestamp every 10 s | timestamps and exchanges do not mix; nobody waits for itself | `AesdSocketFile` |
| process wrappers (`examples/systemcalls`) | processes, wait statuses, stdio buffers, descriptors | do_system, do_exec, do_exec_redirect | true means success; nothing printed twice; no zombie | `SystemCalls` |
| `examples/threading`, `autotest-validate`, `finder-app`, scripts, tests | - | - | sequential, or without shared state | - |

How they interact: a client's thread is the only caller of the driver that the
server has, through the device file that main opened for it; other programs may
use the device at the same time. The driver serialises calls with `dev->lock`,
the server serialises its clients with `fileMutex`, from before the message until
after the reply. The threads and main share `thread_data_t`; main polls its flag
`thread_complete_success` without a lock. The signal handler runs on main, at
any of its steps, and uses the same list and the same data. In the file build the
timer's handler runs on any thread and takes `fileMutex` there.

Hard to test here: two writers of the driver; a ring that has wrapped (11 writes
and more); failures of `kmalloc`, `copy_from_user`, `cdev_add`, `pthread_create`,
`malloc`, `dup2`; a signal between two steps of main, or on the thread that holds
a mutex; messages in parts; clients that send nothing; descriptors running out.
`PROJECT.json` lists each of these under "hazards", at its line, with the
properties aimed at it.

## 2. Modules

Which module uses which:

    CircularBuffer <- AesdChar <- AesdCharRefinement ---------------> CommandLog
                               <- DriverLifecycle <- DriverLifecycleRefinement --> LoadedLog
                               <- ServerDevice <- ServerDeviceRefinement --> LineService
                                                                         --> CommandLog
    AesdSocket
    AesdSocketFile <- AesdSocketFileRefinement ---------------> FileLog
    SystemCalls

`<-` is EXTENDS, `-->` is the abstract specification that the refinement
instantiates; the refinements of the load and of the server also extend
`AesdCharRefinement`, and `LoadedLog` extends `CommandLog`. Each `X` has its theorems in `XProofs` and its constants' values in
`MCX`; the proof about `FileLog` is in `AesdSocketFileProofs`.

**CircularBuffer** - the ring as a record with the C struct's fields, each
function as an operator. The two loops of the code both walk `SlotAt(buf, k)`
for k below `Iterations(buf, stop)`, the number of turns of a
`do ... while (i != stop)`. The running `total_size` is the number of bytes in
the first k slots, a cardinality: the provers handle it without recursion.

**AesdChar** - the driver. Every process has its own open file. A call goes
through the steps that others can interleave with:

    idle --Call--> waiting --Lock--> locked --body--> out --Unlock--> done --Finish--> idle

The call step has what the code does before the mutex; for `aesd_write` that is
the read of `write_buffer_index` (main.c:158). The body under the mutex is one
step, since everything it touches but `write_buffer_index` is protected, and it
reads that one once. A body has a disjunct for every way through the code:

| action | code |
|---|---|
| `WriteRefused`, `WriteFault`, `WriteHeld`, `WriteNoMem`, `WriteCommitted` | the exits of `aesd_write` in their order: too long, copy_from_user, no newline yet, kmalloc, stored |
| `WriteOops` | the read of `write_buffer[UINT_MAX]` for an empty write faults |
| `ReadNothing`, `ReadFault`, `ReadBytes` | the exits of `aesd_read` |
| `aesd_llseek`, `aesd_adjust_file_offset` | the same functions |
| `IoctlRefused` | the returns of `aesd_ioctl` before the mutex |
| `Interrupted` | mutex_lock_interruptible returns an error, possible only when the mutex is contended |

Abstractions: a byte is one of a few values (the newline, NUL, any other); a
block of memory is a model value and what it holds a sequence; a failing
`copy_from_user` copies any part and clears the rest; the uninitialised bytes of
`kmalloc` are any of `Garbage`. An empty write reads far outside `write_buffer`;
`EndsLine` lets that read say anything, `WriteOops` lets it kill the process,
which then keeps the mutex as the kernel leaves it.

**CommandLog** - what the device promises: the last `MaxOps` commands in order,
the unfinished line, a position per file, whole appends, reads that return the
bytes at the position. An empty write where no line has begun may add an empty
command: the code does that, see above. **AesdCharRefinement** maps the driver to
it: the log is the ring from `out_offs` on, the unfinished line the used part of
`write_buffer`.

**DriverLifecycle** - the same driver from the first `insmod` on. The load goes
through `region`, `ring`, `buffer`, `ready` to `in`, an action per allocation or
call of the kernel; `AllocFails` and `AddCdevFails` are its error paths.
`aesd_cleanup_module` is an operator, since rmmod and the load both call it; it
records in `misuse` what it hands to the kernel that the kernel must not get
(a `cdev` that was never added, a pointer that kmalloc did not return), and in
`lost` what nobody frees. Memory fresh from kmalloc holds any pointers, `Wild` or
null, and a flag that may be set. `script` is the step that `aesdchar_load` or `aesdchar_unload` still has to
do, `node` what `/dev/aesdchar` leads to. `Use` is a step of `AesdChar`.

**LoadedLog** - `CommandLog` for a device that comes and goes: it is empty whenever
it comes, and nothing happens to it while it is not there.
**DriverLifecycleRefinement** maps the driver to it: the log is the ring's while the
cdev is there, and nothing otherwise, whatever kmalloc returned.

**AesdSocket** - the server as it is built for the device, seen from main. A
client stands for its connection, thread, `thread_data_t` and device file. Main's
program counter is `main`; a thread's is `work`:

    lock --LockFile--> read --MessageEnds--> device --UseDevice--> echo --Echo-->
    reply --Reply--> unlock --UnlockFile--> flag --SetFlag--> return --ThreadExits--> exited

with the error exits of `handle_client` going to `unlock`. `check_list` is walked
entry by entry because threads set their flags meanwhile. The handler has its
steps at each point where a thread can act in between: close the device file,
take an entry and shut its socket, close it, join. `accept` and `open` fail when
`MaxFds` descriptors are in use; malloc can fail wherever the code checks it.
The device is abstract: a call on it works, fails, fails for certain when the file
is closed, or is the end of its thread, which then keeps `fileMutex`
(`UseDeviceOops`: an empty message, see `WriteOops`). Joining such a thread returns.

**ServerDevice** - the composition of the client threads with the driver: every
call that `handle_client` and `echo_buffer` make is a `Call` of `AesdChar`, whose
body and mutex take their own steps (`InDriver`), and programs that are not the
server's make calls meanwhile (`Outside`). It has the bytes that `AesdSocket`
leaves out: a message arrives in any parts and is complete when a part ends in a
newline; what is written ends at the first NUL; `AESDCHAR_IOCSEEKTO:` and its first number
are one byte `SEEK`, the comma and the second number one byte `COMMA`; `echo_buffer`
collects what it reads, up to `FSIZE`. A seek needs a comma behind the command and a
newline behind that (`NumbersEnd`); the numbers are any, since `tmp_str` is not
terminated. Where one of the two is missing, or there are more digits than `tmp_str`
holds, the server crashes (`SeekCrashes`). The unchecked mallocs are there too
(`ReceiveCrashes`, a `fileBuffer` that is `NULL`). A thread that crashes stops all
threads of the server, not the other programs.

**LineService** - what the server promises: one client at a time adds its line
or seeks, and is sent the log from there on, with nobody's line in between.
**ServerDeviceRefinement** maps threads and driver to it: the turn is the client
whose write or ioctl has had its effect and whose reply is not out. It also maps
them to `CommandLog` once more, for the other programs: to them the server is one
writer, whose lines are the texts that its clients send (`ServerKeepsLog`).

**AesdSocketFile** - the server as it is built with `USE_AESD_CHAR_DEVICE 0`. All
threads share a stream: what was printed to it (`stream`) and what has reached the
file (`file`). The timer's signal is pending, not queued; `Deliver` gives it to
any thread, which then runs the handler's steps `TimerLock`, `TimerUnlock`,
`TimerFlush` before it goes on with its own. **FileLog** is the promise: one log
of lines and timestamps, an exchange is one step. **AesdSocketFileRefinement**
takes the last line out of the log while its client has not been answered.

**SystemCalls** - the three wrappers over processes: the program that calls them,
children, and a child that returns into its caller's code. Wait statuses, exit
codes (`% 256`), standard output and the stdio buffer that fork copies are
modelled; `ran` and `unwaited` are history variables. `system()` is modelled from
what POSIX promises of it.

Operators named `X_Something` and commented "Mutant of X" are deliberate errors;
each property is known to fail when `X` is replaced by one of them. No
specification uses them.

## 3. Runs and bounds

| run | instance | what it shows |
|---|---|---|
| `driver_log` | a writer, and a process that reads and seeks, ring of 2, lines shorter than 3 bytes, empty writes, every failure | types, `HeapOwned`, `LinesEndCommands`, `WriteInBounds`, `ReadsToTheEnd`, `RingShape`, `SeeksLand`, `ErrorChangesNothing`; the driver implements `CommandLog` |
| `driver_load` | three loads, one process, ring of 2 | `DeviceSoundWhenReachable`, `BooksAgree`, `UnloadIsClean`, `FailedLoad`; from load to load the driver implements `LoadedLog` |
| `exchange` | three clients, ring of 2, lines shorter than 4 bytes | types, `EchoFits`, `RepliesWhole`; server and driver implement `LineService`, and `CommandLog` to others |
| `exchange_live` | two clients, a program that writes, ring of 1 | `ClientsAnswered`, `CallReturns` |
| `server_safety` | 3 clients, one that may reset, 4 descriptors, a signal | types, `DeviceHasOneUser`, `NoUseAfterFree`, `SocketOutlivesThread`, `ThreadsListedOnce`, `ExitLosesNoWork` |
| `server_live` | 2 patient clients, a signal | `ClientsServed`, `StopEndsUnlessSpinning` |
| `file_timer` | 3 clients, 2 ticks | types, `OneUserOfFile`, `StuckForGood`, `AllGetThrough`; the file build implements `FileLog` |
| `systemcalls` | 3 processes, 2 calls, exit codes 0 and 1 | types, `TrueMeansRan`, `PrintedOnce`, `NoZombieLeft`, `SecondCallerByDup2`, `CallEnds` |
| `driver_two_writers`, `driver_seek`, `server_fd_limit`, `server_stop_idle` | small | the disagreements 1 to 4 of section 4 |

Why the bounds are enough. A ring of 2 fills, overwrites and wraps any number of
times (the commands are not counted), and has the three cases of the code: empty,
partly filled, full at each rotation; `driver_seek` has a ring of 3, and the theorems
any. Lines shorter than 3 or 4 bytes give a pending line that is empty, begun, and as
long as it can be, and the data of the writes include nothing, a part, a whole line
and one that is too long. An empty write where no line has begun may put an empty
command into the ring of `driver_log`, which the seeks then have to pass. There is one
block more than slots, as the code needs while it replaces a command, and kmalloc may
fail all the same; `exchange_live` has only one, so that its full ring refuses
lines. `Garbage` is the newline, the value that could mislead the test of the last
byte. `MaxPos` only keeps SEEK_CUR from counting upwards for ever.

`MaxLoads` 3: a load that leaves something behind, one that finds it, and one
more. In `exchange` each client has one message: a line, two lines at once, a line
with a NUL, or a seek, in all its parts, or only in part, or nothing of it. There are
three clients for a ring of 2, so that the third command drops the first, and the
pending text of one client becomes part of the next one's line. Nobody else uses the
device there; another program does in `exchange_live`, and in the theorems. `FSIZE` is
7 for a device of at most 6 bytes, the relation that the code's 4096 and 10 * 127
have, only tighter. In
`exchange_live` what matters is who waits for whom, so lines are one byte and the
other program writes without end. Three clients of `AesdSocket` give a holder of
`fileMutex`, a waiter and one being accepted or reaped; four descriptors make both
`accept` and `open` fail. Two ticks put a handler on a thread while another waits for
the mutex. Three processes are a caller, a child, and a child of that child where it
came back as a caller.

Blocks are symmetric in the runs that check no liveness, and so are the clients of
`exchange`. Deadlock is checked in `driver_log`, where somebody can always call, or
give up waiting for a mutex whose holder was killed. It is not in the others: a
server with no more clients waits in `accept` and its process may end; the clients of
`exchange` come once; a module that was loaded `MaxLoads` times is not loaded again;
processes and calls are bounded.

Fairness. `AesdChar`: a body and its unlock run to their end (WF), and the mutex
is handed to each waiter in time (SF on `Lock`: the kernel's mutex queues its
waiters). Nobody has to call, and interruption is never forced. `ServerDevice`:
the same for the driver's part of every call, with WF for the threads' own steps;
that needs clients which send or hang up, and the properties except a device that
is down for good (`Stuck`). `AesdSocket`: the scheduler runs main and each thread
that can run (WF); a signal is never forced, and the properties except a thread that
died in the driver (`DeviceDown`). `PatientSpec` adds that a client
which has connected sends its line or hangs up; nothing in the code makes it, so it
is used only where a run says so. `AesdSocketFile`: WF for threads and handlers, clients send or hang up;
the mutex needs no SF, since each thread takes it a bounded number of times. `SystemCalls`: callers and children
run (WF), nothing makes a command end or a signal come. `DriverLifecycle` states none: its properties are safety.

## 4. Where code and documents disagree

With a run that shows it:

1. `driver_two_writers` - `write_count` is computed before the mutex is taken
   (main.c:158), so with two writers the newline test, the NUL and the command's
   length use a stale index. The server's threads never do so at once (theorem
   `MutexKeepsCountFresh`); other users of the device may.
2. `driver_seek` - `write_cmd` is an index into the array (main.c:484), where
   aesd_ioctl.h:44 and main.c:462 say that it is the number of a command. The two are
   the same only until the ring wraps. What the code does is `SeekToNamesSlot`
   (theorem `SeeksGoToSlots`).
3. `server_fd_limit` - one device file per client is opened and never closed, so
   threads are limited by descriptors ever used, not by memory (threading.h:42).
   In the end `accept` fails, which exits the server.
4. `server_stop_idle` - SIGTERM may not stop the server: the handler joins the
   newest thread first, which waits for `fileMutex` behind an idle client. The
   property is that of `server_live`, without the patience of the clients.

Plain from the code, and modelled as the code has them:

5. A successful seek returns the new position; the comment says 0 (main.c:464).
6. The loop that reaps threads looks once and goes back to `accept`: a finished
   thread is joined only after another client has come, though the comment says
   "Wait for the thread to complete" (aesdsocket.c:287).
7. A failed copy_from_user in the ioctl returns EFAULT without a minus
   (main.c:328), a success to its caller. `IoctlRefused` returns it so.
8. `do_exec_redirect` returns true when the command failed: both tests of
   systemcalls.c:194 would have to hold for false, while its comment promises what
   do_exec does (systemcalls.c:129). Its parent never closes the file it opened.

Some more are part of properties that hold: SEEK_END on a full ring goes to 0
(`SeeksLand`); a pending line of 127 bytes ends all writing (`ImplementsCommandLog`, whose writes
all need room; theorem `OneWriterFullPendingStays`); a
handler that closes the device file under `echo_buffer` waits for ever (the
exception in `StopEndsUnlessSpinning`); a reply without memory reads for ever, and
an empty message may take the device down (`Stuck`, `DeviceDown`); a failed `cdev_add` loses both
buffers, and a failed second kmalloc frees wild pointers (`FailedLoad`); the timer's
handler on the thread that holds `fileMutex` stops the file build (`StuckForGood`);
a failed `dup2` makes a second caller (`SecondCallerByDup2`).

## 5. Proofs

All are theorems of the specifications that the runs check, under the named
assumptions about the constants only (`RingAssumption`, `DriverAssumption`,
`LifecycleAssumption`, `ServerAssumption`, `ServerDeviceAssumption`,
`FileAssumption`, `CallsAssumption`): a ring of at least one slot, lines of at least
one byte, any sets of processes and clients, any bytes and any data.

**The ring** (`CircularBufferProofs`)

| theorem | says |
|---|---|
| `SearchIsExact` | the search finds each stored byte in the slot where the size function counts it, and finds nothing exactly behind the end |
| `SeekFinds` | the size before a slot, plus an offset into it, is found in that slot at that offset |
| `AddKeepsNoHoles` | adding an entry keeps what the two above assume (`NoHoles`), which an initialised ring has (`EmptyHasNoHoles`) |
| `AddTradesBytes` | adding an entry adds its bytes and takes those of the oldest one if the ring was full |

They are about the operators alone, for rings of any size at any rotation, so they
say of `aesd-circular-buffer.c` what its unit tests try at a few sizes.

**The driver** (`AesdCharProofs`, on `CircularBufferProofs`)

| theorem | says |
|---|---|
| `TypeCorrect` | `TypeOK` |
| `HeapIsOwned` | `HeapOwned`: blocks and entries match one to one, for any number of writers |
| `RingKeepsShape` | `RingShape` |
| `ErrorsChangeNothing` | `ErrorChangesNothing`, an action property |
| `OneWriterCountsRight`, `OneWriterStaysInBounds`, `OneWriterEndsLines`, `OneWriterFullPendingStays` | what needs `SingleWriter`: `WriteCountFresh` (which `driver_two_writers` refutes without it), `WriteInBounds`, `LinesEndCommands`, `FullPendingStays` |
| `SeeksGoToSlots` | `SeekToNamesSlot`: the ioctl goes to the slot it was given, whichever command is there (disagreement 2) |
| `SeeksAlwaysLand` | `SeeksLand`: what each seek that succeeded has made of the position. The offset is honoured in some stored command, and in the one that was asked for while the oldest is in slot 0 |
| `ReadsReachTheEnd` | `ReadsToTheEnd`: a read returns nothing only at or behind the end |
| `CommitAppends` (`AesdCharRefinementProofs`) | a completed line is appended to the log, and the oldest command goes when there are `MaxOps` |
| `DeviceIsLog` (`AesdCharRefinementProofs`) | `ImplementsCommandLog`: the whole refinement, for one writer |

`Inv == TypeOK /\ HeapOwned /\ RingShape` is inductive, and none of its parts is
without the others: a committed line overwrites `entry[in_offs]` and frees
`entry[out_offs]`, which is the same slot only because a full ring has equal offsets
(`RingShape`); that the freed block belongs to no other entry is `HeapOwned`; that
the new block is fresh needs `heap` typed. Rings with empty commands (`ZeroPtr`)
are included. `WriterInv` adds for one writer that `write_count` is fresh from the
call to the end of the body, that the pending bytes fit in `write_buffer`, and
that they and the commands end as they should; it is inductive on top of `Inv`.
`CircularBufferProofs` holds what these need of the ring: the modulo by cases,
that the loops end within a turn, the ranges of what the searches return, and
`TotalSizeBound`, that n slots hold at most n * (MaxWriteSize - 1) bytes.

`SeeksAlwaysLand`, `ReadsReachTheEnd` and `DeviceIsLog` rest on one measure. `TotalSize` grows by the size of a slot when it
counts one slot more (`TotalSizeStep`), so the search, the size of the device and the
sum in the ioctl agree, and slots that begin where others end leave no byte without
a slot (`NoHoles`). Where one would use induction over the slots, the proof counts
instead: a set of positions in which each slot's follow the one's before it is an
interval (`IntervalInduction`). `SeeksLand` speaks of a step after the body, so
`LandInv` says that the result of a body holds until its unlock, which nobody but the
holder of the mutex can disturb.

`DeviceIsLog` adds the abstract log. `FlattenFacts` places the bytes of every command
behind those of the commands before it, and `StreamIs` says that the driver counts the
same places; then a read copies from the log at the file's position (`ReadLogged`).
`CommitAppends` is the heart of the rest: `aesd_circular_buffer_add_entry` is an
append, after which a full ring drops its first command, whatever the rotation. What a
call was asked stays what it was until its body (`AskedInv`), so that the bytes which
the abstract write appends are those of the call (`CopiedExtends`).

**Load and unload** (`DriverLifecycleProofs`)

| theorem | says |
|---|---|
| `SoundWhenReachable` | `DeviceSoundWhenReachable` |
| `NodesLead` | `BooksAgree` |
| `UnloadsClean` | `UnloadIsClean` |
| `FailedLoads` | `FailedLoad` |
| `LoadsKeepLog` | `ImplementsLoadedLog`: the whole refinement, for one writer and any number of loads |

While the module is in, the driver's `Inv` holds, kept by the lemma `NextInv` of
`AesdCharProofs`; while it is not, every block is free, since the heap is the only
thing that survives a load. That rmmod frees each block once is `HeapOwned` again;
`node` and `script` have their own invariant, which depends on neither.
`LoadsKeepLog` needs of the driver's refinement only its step (`StepLogged`): what
`WriterInv` and `AskedInv` say of the writer outlives the module, because nobody
is in a call while there is none, and a process that died in one holds neither a
length nor the mutex of the next load (`UserLoadInv`).

**The server, from main** (`AesdSocketProofs`)

| theorem | says |
|---|---|
| `ServerTypes` | `TypeOK` |
| `OneDeviceUser` | `DeviceHasOneUser` |
| `NeverUsesFreed` | `NoUseAfterFree` |
| `SocketsOutliveThreads` | `SocketOutlivesThread` |
| `ListedOnce` | `ThreadsListedOnce` |
| `ExitKeepsWork` | `ExitLosesNoWork` |

`IInv` ties main to the list: data that is allocated is in the list, or in main's
hands, or belongs to a thread that no longer works while the server stops
(`ListInv`). The last case is the entry that main was joining when the signal
came: the handler does not find it, and only `MainInv` (its thread has set its
flag) says that nothing is lost but the memory. `DataInv` says that threads at
work have their data and that no entry is listed twice, so that a removal removes
the client (`WithoutFacts`, `TailFacts`); `FreshInv` that a client main has not
accepted has nothing yet; `MutexInv` that whoever uses the device holds
`fileMutex`.

**The server on the driver** (`ServerDeviceProofs`)

| theorem | says |
|---|---|
| `ThreadsExclude` | `ServerTypeOK`: a thread in its exchange holds `fileMutex` |
| `DriverStaysSound` | the driver's `Inv`, with the server and anybody else on it |
| `EchoStaysInBuffer` | `EchoFits`, for any `FSIZE` greater than `MaxOps * (MaxWriteSize - 1)` |
| `MutexKeepsCountFresh`, `MutexKeepsWritesInBounds`, `MutexKeepsLines` | `WriteCountFresh`, `WriteInBounds`, `LinesEndCommands` with several writers, if all are the server's threads |
| `ServiceIsExchange` | `ImplementsLineService`, the whole refinement, for the same writers |
| `DeviceStaysLog` | `ServerKeepsLog`: the driver's refinement without its one writer, for the same writers |
| `AnswersAreWhole` | `RepliesWhole`: a reply ends with a whole line, the client's own if it sent one |

The driver's lemmas are cited, not repeated: a step of `ServerNext` is one of
`AesdChar`'s actions or leaves the driver alone, so `Inv` carries over. What is new
for `EchoFits` is that the position is where the reply ends, so that a read brings
at most what the ring still holds behind it (`TotalSizeBound`), however the others
shift the ring: `CallInv` ties each call to its thread's stage. The three about
writers are `WriterInv` with "the one writer" replaced by "the holder of `fileMutex`".

`ServiceIsExchange` assumes of the other programs only that they do not write
(`Writers \subseteq Clients`, as in the run `exchange`, which has no other programs); they may read, seek and fail
at any point. Its invariant adds to the theorems above where each exchange stands
(`ServiceInv`): what the server has of a message and what it has not are the message
(`Received`), and what has been read for a client is the log from `EchoFrom` to the
file's position (`Placed`), which a read continues (`ReadEffect`, `ReadOwn`). A
thread's own step then leaves the service where it is, begins an exchange by the
line or the seek, or ends it by the reply (`Own`), while the others stay where they
are, because the log changes only under `fileMutex` (`OthersStay`).

`DeviceStaysLog` uses the driver's step lemmas (`WriteLogged`, `ReadLogged`,
`OtherLogged`), which ask for a right `write_count` and not for one writer:
`fileMutex` gives it. `AnswersAreWhole` follows a line through both halves. The log
holds only lines that end in their one newline and have no NUL (`CleanLog`), since
what is written are texts up to a NUL (`TextsAreClean`) and a command is what is
pending and one of them (`CompletedLog`). While a client is served, the log ends
in what it wrote (`Wanted`), because nobody else can add to it; the echo stops only
where the log ends (`EchoAnswered`), and the reply is cut at no NUL, because there is
none (`UpToNulIsClean`). `LineService` says which part of the log a reply is; that this
part ends with the client's own whole line needs what the log contains.

**The file build** (`AesdSocketFileProofs`)

| theorem | says |
|---|---|
| `FileTypes` | `TypeOK` |
| `OneUser` | `OneUserOfFile` |
| `StuckIsForGood` | `StuckForGood` |
| `FileIsLog` | `ImplementsFileLog`: the whole refinement, with its initial states and every step |

The invariant adds to `OneUserOfFile` what the owner of the mutex knows of the
stream: after its own printing the last item is its line, until it has replied; a
handler's flush moves items from `stream` to `file` and leaves `file \o stream`
as it is. Each action then maps to one step of `FileLog` or to none.

**The process wrappers** (`SystemCallsProofs`)

| theorem | says |
|---|---|
| `WrapperTypes` | `TypeOK` |
| `TrueOnlyOfSuccess` | `TrueMeansRan` |
| `LinesPrintedOnce` | `PrintedOnce` |
| `NoZombies` | `NoZombieLeft` |
| `SecondCallers` | `SecondCallerByDup2` |

The invariants speak of a process and the child it waits for: they are in the same
call, no two parents have one child, a child that runs the command has `ran`, and
a zombie's status says how it ended; for the printing, that a line is in at most
one buffer that will be flushed to the terminal, or has been written.

Only model-checked: liveness under fairness, which is out of the prover's reach.
`CommandLog` is proved for one writer and for the server's threads, which is what the
runs check: with two writers of other programs, the disagreement 1 of section 4
breaks it. The types and invariants of the passing runs all have a theorem.

## 6. Not modelled

- A second signal that interrupts the server's handler, and the handler's calls of
  functions that are not async-signal-safe (printf, malloc, syslog). Signals that
  the kernel delivers to a client's thread in the device build.
- In the file build: SIGTERM, whose handler closes the stream that threads still
  use, and errors of reading, writing and flushing the file. Main's loop and the
  list of threads are the same code in both builds.
- In `AesdSocket`, the unchecked mallocs; `ServerDevice` has them.
- What the kernel does after it was given a wild pointer or a cdev that was never
  added: `misuse` records it, and the model goes on.
- Start-up of the server (socket, bind, listen, daemon): straight-line code whose
  errors exit; it is `Init`.
- `examples/threading`: a thread that sleeps, locks, sleeps and unlocks, with
  nothing under the lock; the server's `threadfunc` is derived from it.
- `examples/autotest-validate`, `finder-app/`, build, start-stop, emulator and test
  scripts: sequential code without shared state.

## 7. Plan

1. Done: ring, driver, its abstract log, load and unload; the server from main, on
   the driver, and in its file build; the process wrappers; the invariants of all
   of them, and the refinements of `CommandLog`, `LoadedLog`, `LineService` and
   `FileLog`, proved.
2. Left: a nested signal in `AesdSocket`; SIGTERM in the file build.
