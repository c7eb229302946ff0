------------------------ MODULE MCDriverLifecycle ------------------------
(* Constant values for the run of DriverLifecycle. *)
EXTENDS DriverLifecycleRefinement, TLC

CONSTANTS p1, b1, b2, b3, x, nl, nul

OneProcess  == {p1}
ThreeBlocks == {b1, b2, b3}
AllBytes    == {x, nl, nul}
SomeGarbage == {nl}

\* Whole lines, a part of one, and nothing.
SomeLines == {<<>>, <<x>>, <<nl>>}

BlockSymmetry == Permutations(Blocks)
=============================================================================
