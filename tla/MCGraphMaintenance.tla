------------------------ MODULE MCGraphMaintenance -------------------------
(* Small instances of GraphMaintenance.                                    *)
EXTENDS GraphMaintenance, TLC

CONSTANTS p1, p2, f1, f2, a, b

Processes == {p1, p2}
Symmetry == Permutations(Processes) \cup Permutations({a, b})
=============================================================================
