--------------------------- MODULE MCListSelection ---------------------------
(* ListSelection for TLC: three sessions that differ in nothing.           *)
EXTENDS ListSelection

CONSTANTS a, b, c

SessionSymmetry == Permutations(Sessions)
=============================================================================
