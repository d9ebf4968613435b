----------------------------- MODULE MCNbrTable -----------------------------
(* Small instances of NbrTable: addresses are interchangeable, and so are    *)
(* destinations.                                                             *)
EXTENDS NbrTable, TLC

CONSTANTS a1, a2, a3, a4, d1, d2, d3

Symmetry == Permutations(Nbr) \cup Permutations(Dest)
=============================================================================
