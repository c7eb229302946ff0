--------------------------- MODULE MCSystemCalls ---------------------------
(* Constant values for the runs of SystemCalls. *)
EXTENDS SystemCalls

CONSTANTS first, second, third, hello

ThreeProcs == {first, second, third}
OneLine    == {hello}
=============================================================================
