---------------------------- MODULE MCSimpleFS ----------------------------
(* Constants for the runs of SimpleFS: two names, that are alike.          *)
EXTENDS SimpleFS, TLC

CONSTANTS a, b

MCNames == {a, b}
Symmetry == Permutations(MCNames)
===========================================================================
