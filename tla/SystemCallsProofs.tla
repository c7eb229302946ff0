------------------------- MODULE SystemCallsProofs -------------------------
(***************************************************************************)
(* Safety of the wrappers, for any number of processes, calls and lines.   *)
(***************************************************************************)
EXTENDS SystemCalls, TLAPS

\* Every waiting caller has a child of its own, at work on the caller's call.
KidInv ==
  /\ \A p \in Procs : state[p] = "waiting" => kid[p] # p /\ state[kid[p]] \notin {"none", "reaped"}
  /\ \A p, q \in Procs :
       state[p] = "waiting" /\ state[q] = "waiting" /\ kid[p] = kid[q] => p = q
  /\ \A p \in Procs : state[p] = "waiting" /\ state[kid[p]] \in Child => fn(kid[p]) = fn(p)

\* A process that ran the command is the only one to leave the status 0 to
\* do_system and do_exec.
RanInv ==
  /\ \A c \in Procs : state[c] = "command" => c \in ran
  /\ \A p \in Procs :
       state[p] = "waiting" /\ fn(p) # "do_exec_redirect" =>
         /\ state[kid[p]] \notin Caller \cup {"redirected"}
         /\ state[kid[p]] = "zombie" /\ status[kid[p]].exited /\ status[kid[p]].code = 0
              => kid[p] \in ran

\* Text waits in the buffer of one caller only, and goes to the terminal; the
\* children of do_exec and do_exec_redirect have none.
BufInv ==
  /\ \A p \in Procs : state[p] \in Caller \cup {"child"} => stdout[p] = "terminal"
  /\ \A p \in Procs :
       state[p] \in Child \cup {"forking"} /\ fn(p) # "do_system" => buf[p] = {}
  /\ \A p \in Procs : state[p] = "redirected" => fn(p) = "do_exec_redirect"
  /\ \A p \in Procs, l \in Lines :
       state[p] \in Caller /\ l \in buf[p] =>
         /\ written[<<l, "terminal">>] = 0
         /\ \A q \in Procs : state[q] \in Caller /\ l \in buf[q] => p = q

\* The file of a redirection is open until dup2 has been called.
FdInv ==
  \A p \in Procs :
    state[p] \in {"forking", "child"} /\ fn(p) = "do_exec_redirect" => fds[p] > 0

\* Whoever was forked and is still there is waited for, or was once.
WaitedInv ==
  \A c \in Procs \ {First} :
    state[c] \notin {"none", "reaped"} =>
      c \in unwaited \/ \E p \in Procs : state[p] = "waiting" /\ kid[p] = c

IInv == TypeOK /\ FdInv /\ KidInv /\ RanInv /\ TrueMeansRan /\ WaitedInv /\ BufInv /\ PrintedOnce

-----------------------------------------------------------------------------
LEMMA InitInv == Init => IInv
<1> SUFFICES ASSUME Init PROVE IInv
  OBVIOUS
<1>1. TypeOK
  <2>1. status \in [Procs -> [exited : BOOLEAN, code : 0 .. 255]]
    BY DEF Init, Signaled
  <2>2. written \in [Lines \X Places -> Nat]
    BY DEF Init
  <2> QED
    BY <2>1, <2>2, CallsAssumption DEF Init, TypeOK, NoCall, Places, Caller, Child
<1>2. FdInv /\ KidInv /\ RanInv /\ TrueMeansRan /\ WaitedInv
  BY DEF Init, FdInv, KidInv, RanInv, TrueMeansRan, WaitedInv
<1>3. BufInv /\ PrintedOnce
  BY DEF Init, BufInv, PrintedOnce, Child, Caller, Places, NoCall
<1> QED
  BY <1>1, <1>2, <1>3 DEF IInv

LEMMA WrittenType ==
  ASSUME TypeOK, NEW p \in Procs, fflush(p)
  PROVE  written' \in [Lines \X Places -> Nat] /\ buf' \in [Procs -> SUBSET Lines]
<1>1. \A w \in Lines \X Places : written[w] \in Nat
  BY DEF TypeOK
<1> QED
  BY <1>1 DEF TypeOK, fflush

LEMMA ExitedType == \A code \in Int : Exited(code) \in [exited : BOOLEAN, code : 0 .. 255]
  BY DEF Exited

LEMMA TypeStep == TypeOK /\ FdInv /\ [Next]_vars => TypeOK'
<1> SUFFICES ASSUME TypeOK, FdInv, [Next]_vars PROVE TypeOK'
  OBVIOUS
<1>0. \A p \in Procs : fflush(p) =>
        written' \in [Lines \X Places -> Nat] /\ buf' \in [Procs -> SUBSET Lines]
  BY WrittenType
<1> USE DEF TypeOK, Caller, Child, Goto, Returns, exit, Ends
<1>1. ASSUME NEW p \in Procs, Prints(p) PROVE TypeOK'
  BY <1>1 DEF Prints
<1>2. ASSUME NEW p \in Procs, MakeCall(p) PROVE TypeOK'
  BY <1>2 DEF MakeCall
<1>3. ASSUME NEW p \in Procs, CallStep(p) PROVE TypeOK'
  <2>1. CASE NoCommand(p) \/ SystemBegins(p) \/ ExecBegins(p)
    BY ZenonT(40), <1>0, <2>1 DEF NoCommand, SystemBegins, ExecBegins
  <2>2. CASE RedirectBegins(p)
    <3>1. fds' \in [Procs -> Nat]
      BY <2>2 DEF RedirectBegins
    <3>2. written' \in [Lines \X Places -> Nat] /\ buf' \in [Procs -> SUBSET Lines]
      BY <1>0, <2>2 DEF RedirectBegins
    <3> QED
      BY <2>2, <3>1, <3>2 DEF RedirectBegins
  <2>5. CASE OpenFails(p) \/ ForkFails(p)
    BY ZenonT(40), <1>0, <2>5 DEF OpenFails, ForkFails
  <2>3. CASE Fork(p)
    BY <2>3 DEF Fork
  <2>4. CASE WaitReturns(p)
    <3>1. Success(fn(p), status[kid[p]]) \in BOOLEAN
      BY DEF Success, WIFEXITED
    <3> QED
      BY <2>4, <3>1 DEF WaitReturns
  <2> QED
    BY <1>3, <2>1, <2>2, <2>3, <2>4, <2>5 DEF CallStep
<1>4. ASSUME NEW p \in Procs, WaitFails(p) PROVE TypeOK'
  BY <1>4 DEF WaitFails
<1>5. ASSUME NEW p \in Procs, Resume(p) PROVE TypeOK'
  BY <1>5 DEF Resume
<1>6. ASSUME NEW p \in Procs, CallerExits(p) PROVE TypeOK'
  BY SMTT(30), <1>0, <1>6, ExitedType, CallsAssumption DEF CallerExits
<1>7. ASSUME NEW p \in Procs, ChildStep(p) PROVE TypeOK'
  <2>1. CASE Dup2Fails(p)
    BY <2>1 DEF Dup2Fails
  <2>2. CASE Dup2(p)
    <3>1. fds' \in [Procs -> Nat]
      BY <2>2 DEF Dup2, FdInv
    <3> QED
      BY <2>2, <3>1 DEF Dup2, Places
  <2>3. CASE Exec(p)
    BY <2>3 DEF Exec
  <2>4. CASE ExecFails(p)
    <3>0. /\ Exited(1) \in [exited : BOOLEAN, code : 0 .. 255]
          /\ Exited(-1) \in [exited : BOOLEAN, code : 0 .. 255]
          /\ Exited(127) \in [exited : BOOLEAN, code : 0 .. 255]
      BY ExitedType
    <3>1. CASE fn(p) = "do_exec" /\ exit(p, 1)
      BY <1>0, <2>4, <3>0, <3>1 DEF ExecFails
    <3>2. CASE fn(p) = "do_exec_redirect" /\ exit(p, -1)
      BY <1>0, <2>4, <3>0, <3>2 DEF ExecFails
    <3>3. CASE fn(p) = "do_system" /\ Ends(p, Exited(127)) /\ UNCHANGED <<buf, written>>
      BY <2>4, <3>0, <3>3 DEF ExecFails
    <3> QED
      BY <2>4, <3>1, <3>2, <3>3 DEF ExecFails
  <2> QED
    BY <1>7, <2>1, <2>2, <2>3, <2>4 DEF ChildStep
<1>8. ASSUME NEW p \in Procs, CommandEnds(p) PROVE TypeOK'
  BY <1>8, ExitedType, CallsAssumption DEF CommandEnds
<1>9. ASSUME NEW p \in Procs, Killed(p) PROVE TypeOK'
  BY <1>9 DEF Killed, Signaled
<1> QED
  BY ZenonT(40), <1>1, <1>2, <1>3, <1>4, <1>5, <1>6, <1>7, <1>8, <1>9 DEF Next, vars

LEMMA Domains ==
  TypeOK => /\ DOMAIN state = Procs /\ DOMAIN call = Procs /\ DOMAIN kid = Procs
            /\ DOMAIN result = Procs /\ DOMAIN status = Procs /\ DOMAIN stdout = Procs
            /\ DOMAIN fds = Procs /\ DOMAIN buf = Procs
            /\ \A p \in Procs : kid[p] \in Procs /\ fds[p] \in Nat
  BY DEF TypeOK

\* A caller's buffer is written to the terminal, each line for the first time.
LEMMA FlushOnce ==
  ASSUME TypeOK, BufInv, PrintedOnce, NEW p \in Procs,
         fflush(p), state[p] \in Caller \/ buf[p] = {}
  PROVE  PrintedOnce'
<1>1. \A l \in Lines, s \in Places : written[<<l, s>>] \in Nat
  BY DEF TypeOK
<1>2. \A l \in Lines, s \in Places :
        written'[<<l, s>>] = written[<<l, s>>] + IF l \in buf[p] /\ s = stdout[p] THEN 1 ELSE 0
  BY DEF fflush
<1>3. \A l \in Lines : l \in buf[p] => stdout[p] = "terminal" /\ written[<<l, "terminal">>] = 0
  BY DEF BufInv
<1> SUFFICES ASSUME NEW l \in Lines
             PROVE  written'[<<l, "terminal">>] <= 1 /\ written'[<<l, "file">>] = 0
  BY DEF PrintedOnce
<1>4. written[<<l, "terminal">>] <= 1 /\ written[<<l, "file">>] = 0
  BY DEF PrintedOnce
<1>5. "terminal" \in Places /\ "file" \in Places
  BY DEF Places
<1> QED
  BY <1>1, <1>2, <1>3, <1>4, <1>5

LEMMA KidStep ==
  ASSUME TypeOK, KidInv, [Next]_vars
  PROVE  KidInv'
<1> USE Domains DEF KidInv, Caller, Child, Goto, Returns, Ends, exit, fn, AtExec
<1>1. ASSUME NEW p \in Procs, Prints(p) PROVE KidInv'
  BY <1>1 DEF Prints
<1>2. ASSUME NEW p \in Procs, MakeCall(p) PROVE KidInv'
  BY <1>2 DEF MakeCall
<1>3. ASSUME NEW p \in Procs, NoCommand(p) PROVE KidInv'
  BY <1>3 DEF NoCommand
<1>4. ASSUME NEW p \in Procs, SystemBegins(p) PROVE KidInv'
  BY <1>4 DEF SystemBegins
<1>5. ASSUME NEW p \in Procs, ExecBegins(p) PROVE KidInv'
  BY <1>5 DEF ExecBegins
<1>6. ASSUME NEW p \in Procs, RedirectBegins(p) PROVE KidInv'
  BY <1>6 DEF RedirectBegins
<1>7. ASSUME NEW p \in Procs, OpenFails(p) PROVE KidInv'
  BY <1>7 DEF OpenFails
<1>8. ASSUME NEW p \in Procs, ForkFails(p) PROVE KidInv'
  BY <1>8 DEF ForkFails
<1>9. ASSUME NEW p \in Procs, Fork(p) PROVE KidInv'
  BY <1>9 DEF Fork
<1>10. ASSUME NEW p \in Procs, WaitReturns(p) PROVE KidInv'
  BY <1>10 DEF WaitReturns
<1>11. ASSUME NEW p \in Procs, WaitFails(p) PROVE KidInv'
  BY <1>11 DEF WaitFails
<1>12. ASSUME NEW p \in Procs, Resume(p) PROVE KidInv'
  BY <1>12 DEF Resume
<1>13. ASSUME NEW p \in Procs, CallerExits(p) PROVE KidInv'
  BY <1>13 DEF CallerExits
<1>14. ASSUME NEW p \in Procs, Dup2Fails(p) PROVE KidInv'
  BY <1>14 DEF Dup2Fails
<1>15. ASSUME NEW p \in Procs, Dup2(p) PROVE KidInv'
  BY <1>15 DEF Dup2
<1>16. ASSUME NEW p \in Procs, Exec(p) PROVE KidInv'
  BY <1>16 DEF Exec
<1>17. ASSUME NEW p \in Procs, ExecFails(p) PROVE KidInv'
  BY <1>17 DEF ExecFails
<1>18. ASSUME NEW p \in Procs, CommandEnds(p) PROVE KidInv'
  BY <1>18 DEF CommandEnds
<1>19. ASSUME NEW p \in Procs, Killed(p) PROVE KidInv'
  BY <1>19 DEF Killed
<1>20. CASE UNCHANGED vars
  BY <1>20 DEF vars
<1> QED
  BY <1>1, <1>2, <1>3, <1>4, <1>5, <1>6, <1>7, <1>8, <1>9, <1>10, <1>11, <1>12, <1>13, <1>14, <1>15, <1>16, <1>17, <1>18, <1>19, <1>20
  DEF Next, CallStep, ChildStep

LEMMA FdStep ==
  ASSUME TypeOK, FdInv, [Next]_vars
  PROVE  FdInv'
<1> USE Domains DEF FdInv, Goto, Returns, Ends, exit, fn, AtExec
<1>1. ASSUME NEW p \in Procs, Prints(p) PROVE FdInv'
  BY <1>1 DEF Prints
<1>2. ASSUME NEW p \in Procs, MakeCall(p) PROVE FdInv'
  BY <1>2 DEF MakeCall
<1>3. ASSUME NEW p \in Procs, NoCommand(p) PROVE FdInv'
  BY <1>3 DEF NoCommand
<1>4. ASSUME NEW p \in Procs, SystemBegins(p) PROVE FdInv'
  BY <1>4 DEF SystemBegins
<1>5. ASSUME NEW p \in Procs, ExecBegins(p) PROVE FdInv'
  BY <1>5 DEF ExecBegins
<1>6. ASSUME NEW p \in Procs, RedirectBegins(p) PROVE FdInv'
  BY <1>6 DEF RedirectBegins
<1>7. ASSUME NEW p \in Procs, OpenFails(p) PROVE FdInv'
  BY <1>7 DEF OpenFails
<1>8. ASSUME NEW p \in Procs, ForkFails(p) PROVE FdInv'
  BY <1>8 DEF ForkFails
<1>9. ASSUME NEW p \in Procs, Fork(p) PROVE FdInv'
  BY <1>9 DEF Fork
<1>10. ASSUME NEW p \in Procs, WaitReturns(p) PROVE FdInv'
  BY <1>10 DEF WaitReturns
<1>11. ASSUME NEW p \in Procs, WaitFails(p) PROVE FdInv'
  BY <1>11 DEF WaitFails
<1>12. ASSUME NEW p \in Procs, Resume(p) PROVE FdInv'
  BY <1>12 DEF Resume
<1>13. ASSUME NEW p \in Procs, CallerExits(p) PROVE FdInv'
  BY <1>13 DEF CallerExits
<1>14. ASSUME NEW p \in Procs, Dup2Fails(p) PROVE FdInv'
  BY <1>14 DEF Dup2Fails
<1>15. ASSUME NEW p \in Procs, Dup2(p) PROVE FdInv'
  BY <1>15 DEF Dup2
<1>16. ASSUME NEW p \in Procs, Exec(p) PROVE FdInv'
  BY <1>16 DEF Exec
<1>17. ASSUME NEW p \in Procs, ExecFails(p) PROVE FdInv'
  BY <1>17 DEF ExecFails
<1>18. ASSUME NEW p \in Procs, CommandEnds(p) PROVE FdInv'
  BY <1>18 DEF CommandEnds
<1>19. ASSUME NEW p \in Procs, Killed(p) PROVE FdInv'
  BY <1>19 DEF Killed
<1>20. CASE UNCHANGED vars
  BY <1>20 DEF vars
<1> QED
  BY <1>1, <1>2, <1>3, <1>4, <1>5, <1>6, <1>7, <1>8, <1>9, <1>10, <1>11, <1>12, <1>13, <1>14, <1>15, <1>16, <1>17, <1>18, <1>19, <1>20
  DEF Next, CallStep, ChildStep

LEMMA RanStep ==
  ASSUME TypeOK, KidInv, RanInv, [Next]_vars
  PROVE  RanInv'
<1> USE Domains DEF KidInv, RanInv, Exited, Signaled, Caller, Child, Goto, Returns, Ends, exit, fn, AtExec
<1>1. ASSUME NEW p \in Procs, Prints(p) PROVE RanInv'
  BY <1>1 DEF Prints
<1>2. ASSUME NEW p \in Procs, MakeCall(p) PROVE RanInv'
  BY <1>2 DEF MakeCall
<1>3. ASSUME NEW p \in Procs, NoCommand(p) PROVE RanInv'
  BY <1>3 DEF NoCommand
<1>4. ASSUME NEW p \in Procs, SystemBegins(p) PROVE RanInv'
  BY <1>4 DEF SystemBegins
<1>5. ASSUME NEW p \in Procs, ExecBegins(p) PROVE RanInv'
  BY <1>5 DEF ExecBegins
<1>6. ASSUME NEW p \in Procs, RedirectBegins(p) PROVE RanInv'
  BY <1>6 DEF RedirectBegins
<1>7. ASSUME NEW p \in Procs, OpenFails(p) PROVE RanInv'
  BY <1>7 DEF OpenFails
<1>8. ASSUME NEW p \in Procs, ForkFails(p) PROVE RanInv'
  BY <1>8 DEF ForkFails
<1>9. ASSUME NEW p \in Procs, Fork(p) PROVE RanInv'
  BY <1>9 DEF Fork
<1>10. ASSUME NEW p \in Procs, WaitReturns(p) PROVE RanInv'
  BY <1>10 DEF WaitReturns
<1>11. ASSUME NEW p \in Procs, WaitFails(p) PROVE RanInv'
  BY <1>11 DEF WaitFails
<1>12. ASSUME NEW p \in Procs, Resume(p) PROVE RanInv'
  BY <1>12 DEF Resume
<1>13. ASSUME NEW p \in Procs, CallerExits(p) PROVE RanInv'
  BY <1>13 DEF CallerExits
<1>14. ASSUME NEW p \in Procs, Dup2Fails(p) PROVE RanInv'
  BY <1>14 DEF Dup2Fails
<1>15. ASSUME NEW p \in Procs, Dup2(p) PROVE RanInv'
  BY <1>15 DEF Dup2
<1>16. ASSUME NEW p \in Procs, Exec(p) PROVE RanInv'
  BY <1>16 DEF Exec
<1>17. ASSUME NEW p \in Procs, ExecFails(p) PROVE RanInv'
  BY <1>17 DEF ExecFails
<1>18. ASSUME NEW p \in Procs, CommandEnds(p) PROVE RanInv'
  BY <1>18 DEF CommandEnds
<1>19. ASSUME NEW p \in Procs, Killed(p) PROVE RanInv'
  BY <1>19 DEF Killed
<1>20. CASE UNCHANGED vars
  BY <1>20 DEF vars
<1> QED
  BY <1>1, <1>2, <1>3, <1>4, <1>5, <1>6, <1>7, <1>8, <1>9, <1>10, <1>11, <1>12, <1>13, <1>14, <1>15, <1>16, <1>17, <1>18, <1>19, <1>20
  DEF Next, CallStep, ChildStep

LEMMA TrueStep ==
  ASSUME TypeOK, KidInv, RanInv, TrueMeansRan, [Next]_vars
  PROVE  TrueMeansRan'
<1> USE Domains DEF KidInv, RanInv, TrueMeansRan, Caller, Child, Goto, Returns, Ends, exit, fn, AtExec
<1>1. ASSUME NEW p \in Procs, Prints(p) PROVE TrueMeansRan'
  BY <1>1 DEF Prints
<1>2. ASSUME NEW p \in Procs, MakeCall(p) PROVE TrueMeansRan'
  BY <1>2 DEF MakeCall
<1>3. ASSUME NEW p \in Procs, NoCommand(p) PROVE TrueMeansRan'
  BY <1>3 DEF NoCommand
<1>4. ASSUME NEW p \in Procs, SystemBegins(p) PROVE TrueMeansRan'
  BY <1>4 DEF SystemBegins
<1>5. ASSUME NEW p \in Procs, ExecBegins(p) PROVE TrueMeansRan'
  BY <1>5 DEF ExecBegins
<1>6. ASSUME NEW p \in Procs, RedirectBegins(p) PROVE TrueMeansRan'
  BY <1>6 DEF RedirectBegins
<1>7. ASSUME NEW p \in Procs, OpenFails(p) PROVE TrueMeansRan'
  BY <1>7 DEF OpenFails
<1>8. ASSUME NEW p \in Procs, ForkFails(p) PROVE TrueMeansRan'
  BY <1>8 DEF ForkFails
<1>9. ASSUME NEW p \in Procs, Fork(p) PROVE TrueMeansRan'
  BY <1>9 DEF Fork
<1>10. ASSUME NEW p \in Procs, WaitReturns(p) PROVE TrueMeansRan'
  BY <1>10 DEF WaitReturns, Success, WIFEXITED, WEXITSTATUS
<1>11. ASSUME NEW p \in Procs, WaitFails(p) PROVE TrueMeansRan'
  BY <1>11 DEF WaitFails
<1>12. ASSUME NEW p \in Procs, Resume(p) PROVE TrueMeansRan'
  BY <1>12 DEF Resume
<1>13. ASSUME NEW p \in Procs, CallerExits(p) PROVE TrueMeansRan'
  BY <1>13 DEF CallerExits
<1>14. ASSUME NEW p \in Procs, Dup2Fails(p) PROVE TrueMeansRan'
  BY <1>14 DEF Dup2Fails
<1>15. ASSUME NEW p \in Procs, Dup2(p) PROVE TrueMeansRan'
  BY <1>15 DEF Dup2
<1>16. ASSUME NEW p \in Procs, Exec(p) PROVE TrueMeansRan'
  BY <1>16 DEF Exec
<1>17. ASSUME NEW p \in Procs, ExecFails(p) PROVE TrueMeansRan'
  BY <1>17 DEF ExecFails
<1>18. ASSUME NEW p \in Procs, CommandEnds(p) PROVE TrueMeansRan'
  BY <1>18 DEF CommandEnds
<1>19. ASSUME NEW p \in Procs, Killed(p) PROVE TrueMeansRan'
  BY <1>19 DEF Killed
<1>20. CASE UNCHANGED vars
  BY <1>20 DEF vars
<1> QED
  BY <1>1, <1>2, <1>3, <1>4, <1>5, <1>6, <1>7, <1>8, <1>9, <1>10, <1>11, <1>12, <1>13, <1>14, <1>15, <1>16, <1>17, <1>18, <1>19, <1>20
  DEF Next, CallStep, ChildStep

LEMMA WaitedStep ==
  ASSUME TypeOK, KidInv, WaitedInv, [Next]_vars
  PROVE  WaitedInv'
<1> USE Domains DEF KidInv, WaitedInv, Caller, Child, Goto, Returns, Ends, exit, fn, AtExec
<1>1. ASSUME NEW p \in Procs, Prints(p) PROVE WaitedInv'
  BY <1>1 DEF Prints
<1>2. ASSUME NEW p \in Procs, MakeCall(p) PROVE WaitedInv'
  BY <1>2 DEF MakeCall
<1>3. ASSUME NEW p \in Procs, NoCommand(p) PROVE WaitedInv'
  BY <1>3 DEF NoCommand
<1>4. ASSUME NEW p \in Procs, SystemBegins(p) PROVE WaitedInv'
  BY <1>4 DEF SystemBegins
<1>5. ASSUME NEW p \in Procs, ExecBegins(p) PROVE WaitedInv'
  BY <1>5 DEF ExecBegins
<1>6. ASSUME NEW p \in Procs, RedirectBegins(p) PROVE WaitedInv'
  BY <1>6 DEF RedirectBegins
<1>7. ASSUME NEW p \in Procs, OpenFails(p) PROVE WaitedInv'
  BY <1>7 DEF OpenFails
<1>8. ASSUME NEW p \in Procs, ForkFails(p) PROVE WaitedInv'
  BY <1>8 DEF ForkFails
<1>9. ASSUME NEW p \in Procs, Fork(p) PROVE WaitedInv'
  BY <1>9 DEF Fork
<1>10. ASSUME NEW p \in Procs, WaitReturns(p) PROVE WaitedInv'
  BY <1>10 DEF WaitReturns
<1>11. ASSUME NEW p \in Procs, WaitFails(p) PROVE WaitedInv'
  BY <1>11 DEF WaitFails
<1>12. ASSUME NEW p \in Procs, Resume(p) PROVE WaitedInv'
  BY <1>12 DEF Resume
<1>13. ASSUME NEW p \in Procs, CallerExits(p) PROVE WaitedInv'
  BY <1>13 DEF CallerExits
<1>14. ASSUME NEW p \in Procs, Dup2Fails(p) PROVE WaitedInv'
  BY <1>14 DEF Dup2Fails
<1>15. ASSUME NEW p \in Procs, Dup2(p) PROVE WaitedInv'
  BY <1>15 DEF Dup2
<1>16. ASSUME NEW p \in Procs, Exec(p) PROVE WaitedInv'
  BY <1>16 DEF Exec
<1>17. ASSUME NEW p \in Procs, ExecFails(p) PROVE WaitedInv'
  BY <1>17 DEF ExecFails
<1>18. ASSUME NEW p \in Procs, CommandEnds(p) PROVE WaitedInv'
  BY <1>18 DEF CommandEnds
<1>19. ASSUME NEW p \in Procs, Killed(p) PROVE WaitedInv'
  BY <1>19 DEF Killed
<1>20. CASE UNCHANGED vars
  BY <1>20 DEF vars
<1> QED
  BY <1>1, <1>2, <1>3, <1>4, <1>5, <1>6, <1>7, <1>8, <1>9, <1>10, <1>11, <1>12, <1>13, <1>14, <1>15, <1>16, <1>17, <1>18, <1>19, <1>20
  DEF Next, CallStep, ChildStep

LEMMA BufStep ==
  ASSUME TypeOK, BufInv, [Next]_vars
  PROVE  BufInv'
<1> USE Domains DEF BufInv, NoCall, fflush, Caller, Child, Places, Goto, Returns, Ends, exit, fn, AtExec
<1>1. ASSUME NEW p \in Procs, Prints(p) PROVE BufInv'
  BY <1>1 DEF Prints
<1>2. ASSUME NEW p \in Procs, MakeCall(p) PROVE BufInv'
  BY <1>2 DEF MakeCall
<1>3. ASSUME NEW p \in Procs, NoCommand(p) PROVE BufInv'
  BY <1>3 DEF NoCommand
<1>4. ASSUME NEW p \in Procs, SystemBegins(p) PROVE BufInv'
  BY <1>4 DEF SystemBegins
<1>5. ASSUME NEW p \in Procs, ExecBegins(p) PROVE BufInv'
  BY <1>5 DEF ExecBegins
<1>6. ASSUME NEW p \in Procs, RedirectBegins(p) PROVE BufInv'
  BY <1>6 DEF RedirectBegins
<1>7. ASSUME NEW p \in Procs, OpenFails(p) PROVE BufInv'
  BY <1>7 DEF OpenFails
<1>8. ASSUME NEW p \in Procs, ForkFails(p) PROVE BufInv'
  BY <1>8 DEF ForkFails
<1>9. ASSUME NEW p \in Procs, Fork(p) PROVE BufInv'
  BY <1>9 DEF Fork
<1>10. ASSUME NEW p \in Procs, WaitReturns(p) PROVE BufInv'
  BY <1>10 DEF WaitReturns
<1>11. ASSUME NEW p \in Procs, WaitFails(p) PROVE BufInv'
  BY <1>11 DEF WaitFails
<1>12. ASSUME NEW p \in Procs, Resume(p) PROVE BufInv'
  BY <1>12 DEF Resume
<1>13. ASSUME NEW p \in Procs, CallerExits(p) PROVE BufInv'
  BY <1>13 DEF CallerExits
<1>14. ASSUME NEW p \in Procs, Dup2Fails(p) PROVE BufInv'
  BY <1>14 DEF Dup2Fails
<1>15. ASSUME NEW p \in Procs, Dup2(p) PROVE BufInv'
  BY <1>15 DEF Dup2
<1>16. ASSUME NEW p \in Procs, Exec(p) PROVE BufInv'
  BY <1>16 DEF Exec
<1>17. ASSUME NEW p \in Procs, ExecFails(p) PROVE BufInv'
  BY <1>17 DEF ExecFails
<1>18. ASSUME NEW p \in Procs, CommandEnds(p) PROVE BufInv'
  BY <1>18 DEF CommandEnds
<1>19. ASSUME NEW p \in Procs, Killed(p) PROVE BufInv'
  BY <1>19 DEF Killed
<1>20. CASE UNCHANGED vars
  BY <1>20 DEF vars
<1> QED
  BY <1>1, <1>2, <1>3, <1>4, <1>5, <1>6, <1>7, <1>8, <1>9, <1>10, <1>11, <1>12, <1>13, <1>14, <1>15, <1>16, <1>17, <1>18, <1>19, <1>20
  DEF Next, CallStep, ChildStep

LEMMA PrintStep ==
  ASSUME TypeOK, BufInv, PrintedOnce, [Next]_vars
  PROVE  PrintedOnce'
<1> USE Domains DEF PrintedOnce, Caller, Child, Goto, Returns, Ends, exit, fn, AtExec
<1>1. ASSUME NEW p \in Procs, Prints(p) PROVE PrintedOnce'
  BY <1>1 DEF Prints
<1>2. ASSUME NEW p \in Procs, MakeCall(p) PROVE PrintedOnce'
  BY <1>2 DEF MakeCall
<1>3. ASSUME NEW p \in Procs, NoCommand(p) PROVE PrintedOnce'
  BY <1>3 DEF NoCommand
<1>4. ASSUME NEW p \in Procs, SystemBegins(p) PROVE PrintedOnce'
  BY <1>4 DEF SystemBegins
<1>5. ASSUME NEW p \in Procs, ExecBegins(p) PROVE PrintedOnce'
  BY <1>5, FlushOnce DEF ExecBegins
<1>6. ASSUME NEW p \in Procs, RedirectBegins(p) PROVE PrintedOnce'
  BY <1>6, FlushOnce DEF RedirectBegins
<1>7. ASSUME NEW p \in Procs, OpenFails(p) PROVE PrintedOnce'
  BY <1>7, FlushOnce DEF OpenFails
<1>8. ASSUME NEW p \in Procs, ForkFails(p) PROVE PrintedOnce'
  BY <1>8 DEF ForkFails
<1>9. ASSUME NEW p \in Procs, Fork(p) PROVE PrintedOnce'
  BY <1>9 DEF Fork
<1>10. ASSUME NEW p \in Procs, WaitReturns(p) PROVE PrintedOnce'
  BY <1>10 DEF WaitReturns
<1>11. ASSUME NEW p \in Procs, WaitFails(p) PROVE PrintedOnce'
  BY <1>11 DEF WaitFails
<1>12. ASSUME NEW p \in Procs, Resume(p) PROVE PrintedOnce'
  BY <1>12 DEF Resume
<1>13. ASSUME NEW p \in Procs, CallerExits(p) PROVE PrintedOnce'
  BY <1>13, FlushOnce DEF CallerExits
<1>14. ASSUME NEW p \in Procs, Dup2Fails(p) PROVE PrintedOnce'
  BY <1>14 DEF Dup2Fails
<1>15. ASSUME NEW p \in Procs, Dup2(p) PROVE PrintedOnce'
  BY <1>15 DEF Dup2
<1>16. ASSUME NEW p \in Procs, Exec(p) PROVE PrintedOnce'
  BY <1>16 DEF Exec
<1>17. ASSUME NEW p \in Procs, ExecFails(p) PROVE PrintedOnce'
  BY <1>17, FlushOnce DEF ExecFails, BufInv
<1>18. ASSUME NEW p \in Procs, CommandEnds(p) PROVE PrintedOnce'
  BY <1>18 DEF CommandEnds
<1>19. ASSUME NEW p \in Procs, Killed(p) PROVE PrintedOnce'
  BY <1>19 DEF Killed
<1>20. CASE UNCHANGED vars
  BY <1>20 DEF vars
<1> QED
  BY <1>1, <1>2, <1>3, <1>4, <1>5, <1>6, <1>7, <1>8, <1>9, <1>10, <1>11, <1>12, <1>13, <1>14, <1>15, <1>16, <1>17, <1>18, <1>19, <1>20
  DEF Next, CallStep, ChildStep

-----------------------------------------------------------------------------
LEMMA NextInv == IInv /\ [Next]_vars => IInv'
  BY TypeStep, KidStep, FdStep, RanStep, TrueStep, WaitedStep, BufStep, PrintStep DEF IInv

LEMMA SpecInv == Spec => []IInv
  BY InitInv, NextInv, PTL DEF Spec

\* The types, for any number of processes, calls and lines: no wrapper closes a
\* file that it has not opened.
THEOREM WrapperTypes == Spec => []TypeOK
<1>1. IInv => TypeOK
  BY DEF IInv
<1> QED
  BY <1>1, SpecInv, PTL

\* true is returned only for a child that ended by itself, by do_system and
\* do_exec only for a command that ran and returned 0.
THEOREM TrueOnlyOfSuccess == Spec => []TrueMeansRan
<1>1. IInv => TrueMeansRan
  BY DEF IInv
<1> QED
  BY <1>1, SpecInv, PTL

\* No line is printed twice, or into the file of a redirection, by all the
\* copies of the stdio buffer that forks make.
THEOREM LinesPrintedOnce == Spec => []PrintedOnce
<1>1. IInv => PrintedOnce
  BY DEF IInv
<1> QED
  BY <1>1, SpecInv, PTL

\* A child that has ended is waited for, or its waitpid has failed.
THEOREM NoZombies == Spec => []NoZombieLeft
<1>1. IInv => NoZombieLeft
  BY DEF IInv, WaitedInv, NoZombieLeft
<1> QED
  BY <1>1, SpecInv, PTL

\* Only a failed dup2 makes a second caller.
THEOREM SecondCallers == Spec => SecondCallerByDup2
<1>1. TypeOK /\ [Next]_vars =>
        [\A c \in Procs :
           state[c] \in Child /\ state'[c] \in Caller =>
             fn(c) = "do_exec_redirect" /\ ~result'[c]]_vars
  <2> SUFFICES ASSUME TypeOK, Next, NEW c \in Procs,
                      state[c] \in Child, state'[c] \in Caller
               PROVE  fn(c) = "do_exec_redirect" /\ ~result'[c]
    BY DEF vars
  <2> USE Domains DEF Goto, Returns, Ends, exit, fn, AtExec, Caller, Child
  <2>1. ASSUME NEW p \in Procs, Prints(p) \/ MakeCall(p) \/ WaitFails(p) \/ Resume(p)
        PROVE  FALSE
    BY <2>1 DEF Prints, MakeCall, WaitFails, Resume
  <2>2. ASSUME NEW p \in Procs, CallStep(p) PROVE FALSE
    BY <2>2 DEF CallStep, NoCommand, SystemBegins, ExecBegins, RedirectBegins, OpenFails,
                ForkFails, Fork, WaitReturns
  <2>3. ASSUME NEW p \in Procs, CallerExits(p) \/ CommandEnds(p) \/ Killed(p) PROVE FALSE
    BY <2>3 DEF CallerExits, CommandEnds, Killed
  <2>4. ASSUME NEW p \in Procs, Dup2(p) \/ Exec(p) \/ ExecFails(p) PROVE FALSE
    BY <2>4 DEF Dup2, Exec, ExecFails
  <2>5. ASSUME NEW p \in Procs, Dup2Fails(p) PROVE fn(c) = "do_exec_redirect" /\ ~result'[c]
    BY <2>5 DEF Dup2Fails
  <2> QED
    BY <2>1, <2>2, <2>3, <2>4, <2>5 DEF Next, ChildStep
<1> QED
  BY <1>1, WrapperTypes, PTL DEF Spec, SecondCallerByDup2
=============================================================================
