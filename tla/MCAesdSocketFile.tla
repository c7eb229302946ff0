-------------------------- MODULE MCAesdSocketFile --------------------------
(* Constant values for the run of AesdSocketFile. *)
EXTENDS AesdSocketFileRefinement

CONSTANTS c1, c2, c3

ThreeClients == {c1, c2, c3}
=============================================================================
