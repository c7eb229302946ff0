--------------------------- MODULE MCServerDevice ---------------------------
(* Constant values for the run of ServerDevice and its refinement. *)
EXTENDS ServerDeviceRefinement

CONSTANTS c1, c2, c3, o1, b1, b2, b3, x, nl, nul, sk, co

TwoClients    == {c1, c2}
ThreeClients  == {c1, c2, c3}
Everybody     == Clients \cup {o1}
Nobody        == {}
OneBlock      == {b1}
ThreeBlocks   == {b1, b2, b3}
AllBytes      == {x, nl, nul, sk, co}
SomeGarbage   == {nl}

\* A line, two lines in one, a line with a NUL, and one that seeks.  Each may
\* come in parts, or only in part: a client may also send nothing.
SomeSends == {<<x, nl>>, <<nl, x, nl>>, <<x, nul, nl>>, <<sk, co, nl>>}

\* What becomes of those.
Written == {<<>>, <<x>>, <<x, nl>>, <<nl>>, <<nl, x>>, <<nl, x, nl>>}

OneLine == {<<nl>>}

Symmetry == Permutations(Blocks) \cup Permutations(Clients)
=============================================================================
