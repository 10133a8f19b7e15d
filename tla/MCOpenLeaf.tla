---------------------------- MODULE MCOpenLeaf -----------------------------
(* Model-checking instances of OpenLeaf: two opens served at once, with names  *)
(* for both beside the daemon's own, or one.                                  *)
EXTENDS OpenLeaf, TLC

CONSTANTS o1, o2, me, n1, n2

TwoOpens == {o1, o2}
OneOpen == {o1}
MCNames == {me, n1, n2}

\* Neither the opens nor the names the daemon draws differ in anything.
Interchangeable == Permutations(TwoOpens) \cup Permutations(MCNames \ {me})
=============================================================================
