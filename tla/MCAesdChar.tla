----------------------------- MODULE MCAesdChar -----------------------------
(***************************************************************************)
(* Constant values for the runs of AesdChar and its refinement.            *)
(***************************************************************************)
EXTENDS AesdCharRefinement

CONSTANTS w1, w2, r1, b1, b2, b3, b4, x, nl, nul

OneWriter  == {w1}
OneReader  == {r1}
TwoWriters == {w1, w2}
WriterAndReader == {w1, r1}
Nobody == {}

ThreeBlocks == {b1, b2, b3}
FourBlocks  == {b1, b2, b3, b4}

AllBytes == {x, nl, nul}

\* A fresh buffer that looks as if it ended a line.
MisleadingGarbage == {nl}

\* Parts of lines, whole lines, nothing, and a part that is too long.
Lines     == {<<x>>, <<nl>>, <<x, nl>>, <<x, x, x, x>>}
AnyLines  == Lines \cup {<<>>}
TwoLines  == {<<nl>>, <<x, nl>>}
Fragments == {<<x>>, <<x, nl>>}

\* Offsets of llseek calls.
Steps == {-1, 2}

BlockSymmetry == Permutations(Blocks)
=============================================================================
