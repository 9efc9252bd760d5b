---------------------------- MODULE MCGraphStore ----------------------------
(* GraphStore for TLC.                                                     *)
EXTENDS GraphStore, TLC

Symmetry == Permutations(Procs) \union Permutations(EdgeIds)
=============================================================================
