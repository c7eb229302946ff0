---------------------------- MODULE SystemCalls ----------------------------
(***************************************************************************)
(* The wrappers do_system, do_exec and do_exec_redirect                    *)
(* (examples/systemcalls/systemcalls.c) over fork, execv and waitpid.      *)
(* Every process is modelled: the program that calls the wrappers, the     *)
(* children they fork, and a child that comes back as a second caller.     *)
(*                                                                         *)
(*  caller: idle --> called --> forking --> waiting --> done --> idle      *)
(*  child:  child --> (redirected) --> command --> zombie --> reaped       *)
(***************************************************************************)
EXTENDS Integers, FiniteSets

CONSTANTS
  Procs,      \* processes
  First,      \* the one that runs at the start
  Lines,      \* what callers print, each once
  ExitCodes,  \* BOUND: the exit codes of commands and callers
  MaxCalls    \* BOUND: how many calls are made

ASSUME CallsAssumption ==
  /\ First \in Procs
  /\ ExitCodes \subseteq 0 .. 255
  /\ MaxCalls \in Nat

VARIABLES
  state,      \* how far each process is
  call,       \* the call it is in, a child has that of its parent
  kid,        \* the child it forked last
  result,     \* the return value of its last call
  status,     \* the wait status a process leaves
  stdout,     \* where its standard output goes
  fds,        \* how many files opened for redirection it has open
  buf,        \* what it has printed and stdio has not written yet
  written,    \* how often each line has been written, and where
  calls,      \* how many calls were made
  ran,        \* history: the processes that became the command
  unwaited    \* history: the children whose waitpid failed

vars == <<state, call, kid, result, status, stdout, fds, buf, written, calls,
          ran, unwaited>>

Wrappers == {"do_system", "do_exec", "do_exec_redirect"}
Commands == {"null", "missing", "program"}
Call     == [fn : Wrappers, cmd : Commands]
NoCall   == [fn |-> "none", cmd |-> "null"]

\* Mutant of Exited: the argument is passed on as it is.
Exited_AllBits(code) == [exited |-> TRUE, code |-> code]

\* Wait statuses; exit passes on the low eight bits of its argument.
Exited(code) == [exited |-> TRUE, code |-> code % 256]

Signaled == [exited |-> FALSE, code |-> 0]

Caller  == {"idle", "called", "forking", "waiting", "done"}
Child   == {"child", "redirected"}
Places  == {"terminal", "file"}

Init ==
  /\ state = [p \in Procs |-> IF p = First THEN "idle" ELSE "none"]
  /\ call = [p \in Procs |-> NoCall]
  /\ kid = [p \in Procs |-> p]
  /\ result = [p \in Procs |-> FALSE]
  /\ status = [p \in Procs |-> Signaled]
  /\ stdout = [p \in Procs |-> "terminal"]
  /\ fds = [p \in Procs |-> 0]
  /\ buf = [p \in Procs |-> {}]
  /\ written = [w \in Lines \X Places |-> 0]
  /\ calls = 0
  /\ ran = {}
  /\ unwaited = {}

Goto(p, from, to) == state[p] = from /\ state' = [state EXCEPT ![p] = to]

fn(p) == call[p].fn

-----------------------------------------------------------------------------
(* Standard output: fflush writes the buffer, exit does so too. *)

fflush(p) ==
  /\ written' = [w \in Lines \X Places |->
                   written[w] + IF w[1] \in buf[p] /\ w[2] = stdout[p] THEN 1 ELSE 0]
  /\ buf' = [buf EXCEPT ![p] = {}]

\* The process is over, and st is what waitpid will say of it.
Ends(p, st) ==
  /\ state' = [state EXCEPT ![p] = "zombie"]
  /\ status' = [status EXCEPT ![p] = st]

exit(p, code) == Ends(p, Exited(code)) /\ fflush(p)

WIFEXITED(st)   == st.exited
WEXITSTATUS(st) == IF st.exited THEN st.code ELSE 0

-----------------------------------------------------------------------------
(* The callers. *)

\* Between its calls a caller prints; the text stays in the stdio buffer.
Prints(p) ==
  /\ state[p] = "idle"
  /\ \E l \in Lines :
       /\ \A q \in Procs : l \notin buf[q]
       /\ \A s \in Places : written[<<l, s>>] = 0
       /\ buf' = [buf EXCEPT ![p] = @ \cup {l}]
  /\ UNCHANGED <<state, call, kid, result, status, stdout, fds, written, calls,
                 ran, unwaited>>

MakeCall(p) ==
  /\ calls < MaxCalls
  /\ Goto(p, "idle", "called")
  /\ \E c \in Call : call' = [call EXCEPT ![p] = c]
  /\ calls' = calls + 1
  /\ UNCHANGED <<kid, result, status, stdout, fds, buf, written, ran, unwaited>>

Returns(p, r) ==
  /\ state' = [state EXCEPT ![p] = "done"]
  /\ result' = [result EXCEPT ![p] = r]

\* do_exec without a command; system(NULL) asks whether there is a shell, and
\* its answer is not 0.
NoCommand(p) ==
  /\ state[p] = "called" /\ call[p].cmd = "null" /\ fn(p) # "do_exec_redirect"
  /\ Returns(p, FALSE)
  /\ UNCHANGED <<call, kid, status, stdout, fds, buf, written, calls, ran, unwaited>>

\* system() does not touch the stdio buffers.
SystemBegins(p) ==
  /\ fn(p) = "do_system" /\ call[p].cmd # "null"
  /\ Goto(p, "called", "forking")
  /\ UNCHANGED <<call, kid, result, status, stdout, fds, buf, written, calls,
                 ran, unwaited>>

\* Mutant of ExecBegins: nothing is flushed before the fork.
ExecBegins_NoFlush(p) ==
  /\ fn(p) = "do_exec" /\ call[p].cmd # "null"
  /\ Goto(p, "called", "forking")
  /\ UNCHANGED <<call, kid, result, status, stdout, fds, buf, written, calls,
                 ran, unwaited>>

ExecBegins(p) ==
  /\ fn(p) = "do_exec" /\ call[p].cmd # "null"
  /\ Goto(p, "called", "forking")
  /\ fflush(p)
  /\ UNCHANGED <<call, kid, result, status, stdout, fds, calls, ran, unwaited>>

RedirectBegins(p) ==
  /\ fn(p) = "do_exec_redirect"
  /\ Goto(p, "called", "forking")
  /\ fflush(p)
  /\ fds' = [fds EXCEPT ![p] = @ + 1]
  /\ UNCHANGED <<call, kid, result, status, stdout, calls, ran, unwaited>>

OpenFails(p) ==
  /\ state[p] = "called" /\ fn(p) = "do_exec_redirect"
  /\ fflush(p)
  /\ Returns(p, FALSE)
  /\ UNCHANGED <<call, kid, status, stdout, fds, calls, ran, unwaited>>

ForkFails(p) ==
  /\ state[p] = "forking"
  /\ Returns(p, FALSE)
  /\ UNCHANGED <<call, kid, status, stdout, fds, buf, written, calls, ran, unwaited>>

\* The child has its own copies of everything, the stdio buffer too.
Fork(p) ==
  /\ state[p] = "forking"
  /\ \E c \in Procs :
       /\ state[c] = "none"
       /\ state' = [state EXCEPT ![p] = "waiting", ![c] = "child"]
       /\ call' = [call EXCEPT ![c] = call[p]]
       /\ kid' = [kid EXCEPT ![p] = c]
       /\ stdout' = [stdout EXCEPT ![c] = stdout[p]]
       /\ fds' = [fds EXCEPT ![c] = fds[p]]
       /\ buf' = [buf EXCEPT ![c] = buf[p]]
  /\ UNCHANGED <<result, status, written, calls, ran, unwaited>>

\* Mutant of Success: do_exec takes every exit for a success.
Success_AnyExit(f, st) == WIFEXITED(st)

\* What each wrapper makes of the status.  do_exec_redirect returns false only
\* when both tests of line 194 hold.
Success(f, st) ==
  IF f = "do_exec_redirect"
  THEN WIFEXITED(st) \/ WEXITSTATUS(st) # 0
  ELSE WIFEXITED(st) /\ WEXITSTATUS(st) = 0

\* Mutant of WaitReturns: it waits for a child that exits.
WaitReturns_ExitsOnly(p) ==
  /\ state[p] = "waiting" /\ state[kid[p]] = "zombie" /\ WIFEXITED(status[kid[p]])
  /\ state' = [state EXCEPT ![p] = "done", ![kid[p]] = "reaped"]
  /\ result' = [result EXCEPT ![p] = Success(fn(p), status[kid[p]])]
  /\ UNCHANGED <<call, kid, status, stdout, fds, buf, written, calls, ran, unwaited>>

\* Mutant of WaitReturns: it looks at the status and leaves the child a zombie.
WaitReturns_NoReap(p) ==
  /\ state[p] = "waiting" /\ state[kid[p]] = "zombie"
  /\ state' = [state EXCEPT ![p] = "done"]
  /\ result' = [result EXCEPT ![p] = Success(fn(p), status[kid[p]])]
  /\ UNCHANGED <<call, kid, status, stdout, fds, buf, written, calls, ran, unwaited>>

WaitReturns(p) ==
  /\ state[p] = "waiting" /\ state[kid[p]] = "zombie"
  /\ state' = [state EXCEPT ![p] = "done", ![kid[p]] = "reaped"]
  /\ result' = [result EXCEPT ![p] = Success(fn(p), status[kid[p]])]
  /\ UNCHANGED <<call, kid, status, stdout, fds, buf, written, calls, ran, unwaited>>

\* A signal handler of the caller interrupts waitpid; system() tries again.
WaitFails(p) ==
  /\ state[p] = "waiting" /\ fn(p) # "do_system"
  /\ Returns(p, FALSE)
  /\ unwaited' = unwaited \cup {kid[p]}
  /\ UNCHANGED <<call, kid, status, stdout, fds, buf, written, calls, ran>>

Resume(p) ==
  /\ Goto(p, "done", "idle")
  /\ call' = [call EXCEPT ![p] = NoCall]
  /\ UNCHANGED <<kid, result, status, stdout, fds, buf, written, calls, ran, unwaited>>

CallerExits(p) ==
  /\ state[p] = "idle"
  /\ \E code \in ExitCodes : exit(p, code)
  /\ UNCHANGED <<call, kid, result, stdout, fds, calls, ran, unwaited>>

-----------------------------------------------------------------------------
(* The children. *)

\* The child returns false into the code that called do_exec_redirect.
Dup2Fails(c) ==
  /\ state[c] = "child" /\ fn(c) = "do_exec_redirect"
  /\ Returns(c, FALSE)
  /\ UNCHANGED <<call, kid, status, stdout, fds, buf, written, calls, ran, unwaited>>

Dup2(c) ==
  /\ fn(c) = "do_exec_redirect"
  /\ Goto(c, "child", "redirected")
  /\ stdout' = [stdout EXCEPT ![c] = "file"]
  /\ fds' = [fds EXCEPT ![c] = @ - 1]
  /\ UNCHANGED <<call, kid, result, status, buf, written, calls, ran, unwaited>>

AtExec(c) == state[c] = IF fn(c) = "do_exec_redirect" THEN "redirected" ELSE "child"

\* The stdio buffer is gone with the old program.
Exec(c) ==
  /\ AtExec(c) /\ call[c].cmd = "program"
  /\ state' = [state EXCEPT ![c] = "command"]
  /\ buf' = [buf EXCEPT ![c] = {}]
  /\ ran' = ran \cup {c}
  /\ UNCHANGED <<call, kid, result, status, stdout, fds, written, calls, unwaited>>

\* Mutant of ExecFails: the child of do_exec does not exit.
ExecFails_Goes(c) ==
  /\ AtExec(c)
  /\ Returns(c, FALSE)
  /\ UNCHANGED <<call, kid, status, stdout, fds, buf, written, calls, ran, unwaited>>

\* The child of system() leaves by _exit, which does not flush.
ExecFails(c) ==
  /\ AtExec(c)
  /\ \/ fn(c) = "do_exec" /\ exit(c, 1)
     \/ fn(c) = "do_exec_redirect" /\ exit(c, -1)
     \/ fn(c) = "do_system" /\ Ends(c, Exited(127)) /\ UNCHANGED <<buf, written>>
  /\ UNCHANGED <<call, kid, result, stdout, fds, calls, ran, unwaited>>

CommandEnds(c) ==
  /\ state[c] = "command"
  /\ \E code \in ExitCodes : Ends(c, Exited(code))
  /\ UNCHANGED <<call, kid, result, stdout, fds, buf, written, calls, ran, unwaited>>

\* A signal ends a child or the command.
Killed(c) ==
  /\ state[c] \in Child \cup {"command"}
  /\ Ends(c, Signaled)
  /\ UNCHANGED <<call, kid, result, stdout, fds, buf, written, calls, ran, unwaited>>

-----------------------------------------------------------------------------
ChildStep(c) == Dup2Fails(c) \/ Dup2(c) \/ Exec(c) \/ ExecFails(c)

CallStep(p) ==
  \/ NoCommand(p) \/ SystemBegins(p) \/ ExecBegins(p) \/ RedirectBegins(p)
  \/ OpenFails(p) \/ ForkFails(p) \/ Fork(p) \/ WaitReturns(p)

Next ==
  \E p \in Procs :
    \/ Prints(p) \/ MakeCall(p) \/ CallStep(p) \/ WaitFails(p) \/ Resume(p)
    \/ CallerExits(p) \/ ChildStep(p) \/ CommandEnds(p) \/ Killed(p)

\* Callers and children run.  Nothing makes a command end.
Fairness == \A p \in Procs : WF_vars(CallStep(p)) /\ WF_vars(ChildStep(p))

Spec == Init /\ [][Next]_vars /\ Fairness

-----------------------------------------------------------------------------
\* The types of all that is kept of the processes.
TypeOK ==
  /\ state \in [Procs -> Caller \cup Child \cup {"none", "command", "zombie", "reaped"}]
  /\ call \in [Procs -> Call \cup {NoCall}]
  /\ kid \in [Procs -> Procs]
  /\ result \in [Procs -> BOOLEAN]
  /\ status \in [Procs -> [exited : BOOLEAN, code : 0 .. 255]]
  /\ stdout \in [Procs -> Places]
  /\ fds \in [Procs -> Nat]
  /\ buf \in [Procs -> SUBSET Lines]
  /\ written \in [Lines \X Places -> Nat]
  /\ calls \in Nat
  /\ ran \subseteq Procs /\ unwaited \subseteq Procs

\* true says that the child of this call ended by itself; of do_system and
\* do_exec also that it became the command, and that the command returned 0:
\* no failure on the way to execv looks like a success (systemcalls.c:99-124).
TrueMeansRan ==
  \A p \in Procs :
    state[p] = "done" /\ result[p] =>
      /\ state[kid[p]] = "reaped" /\ status[kid[p]].exited
      /\ fn(p) # "do_exec_redirect" =>
           kid[p] \in ran /\ status[kid[p]].code = 0

\* What a caller prints is written once, and never into the file of a
\* redirection, though each child starts with a copy of the buffer: the fflush
\* before the fork empties it (systemcalls.c:79, 165), and the child of system
\* leaves its copy behind.
PrintedOnce ==
  \A l \in Lines : written[<<l, "terminal">>] <= 1 /\ written[<<l, "file">>] = 0

\* A child that has ended is waited for, unless waitpid failed: no way through
\* the wrappers leaves a zombie.
NoZombieLeft ==
  \A c \in Procs \ {First} :
    state[c] = "zombie" =>
      c \in unwaited \/ \E p \in Procs : state[p] = "waiting" /\ kid[p] = c

\* A child runs on in the code that called the wrapper only where dup2 failed
\* (systemcalls.c:182), and that call, which its parent is still in, returns
\* false to it.
SecondCallerByDup2 ==
  [][\A c \in Procs :
       state[c] \in Child /\ state'[c] \in Caller =>
         fn(c) = "do_exec_redirect" /\ ~result'[c]]_vars

\* A call returns, unless the command it waits for never ends, or the second
\* caller that its child has become.
CallEnds ==
  \A p \in Procs :
    state[p] \in {"called", "forking", "waiting"} ~>
      \/ state[p] = "done"
      \/ state[p] = "waiting" /\ state[kid[p]] \in {"command"} \cup Caller
=============================================================================
