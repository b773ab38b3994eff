---------------------------- MODULE MCGraphReads ----------------------------
(* Small instances of GraphReads.                                          *)
EXTENDS GraphReads, TLC

CONSTANTS f1, f2, a, b

Symmetry == Permutations({f1, f2}) \cup Permutations({a, b})
=============================================================================
