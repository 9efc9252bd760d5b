--------------------------- MODULE MCVectorStore ---------------------------
(* VectorStore for TLC: two patches that overlap in one document.          *)
EXTENDS VectorStore, TLC

CONSTANTS d1, d2, d3, x1, x2

MCIds == {d1, d2, d3}
MCPatches == {x1, x2}
MCScope == x1 :> {d1, d2} @@ x2 :> {d2, d3}

Symmetry == Permutations(Procs)
=============================================================================
