----------------------------- MODULE LoadedLog -----------------------------
(***************************************************************************)
(* CommandLog over the life of the module: a device that comes and goes.   *)
(* It is empty whenever it comes, and nobody's position moves, nothing is  *)
(* written and nothing read while it is not there.                         *)
(***************************************************************************)
EXTENDS CommandLog

VARIABLE there  \* whether the device can be used

LoadedInit == Init /\ ~there

Load ==
  /\ ~there /\ there'
  /\ UNCHANGED vars

\* The commands and the unfinished line are gone with the module.
Unload ==
  /\ there /\ ~there'
  /\ log' = <<>> /\ pending' = <<>>
  /\ UNCHANGED <<pos, got>>

LoadedNext ==
  \/ there /\ Next /\ UNCHANGED there
  \/ Load \/ Unload

LoadedSpec == LoadedInit /\ [][LoadedNext]_<<vars, there>>
=============================================================================
