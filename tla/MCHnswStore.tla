---------------------------- MODULE MCHnswStore ----------------------------
(* HnswStore for TLC.                                                      *)
EXTENDS HnswStore, TLC

Symmetry == Permutations(Procs) \union Permutations(Ids) \union Permutations(Models)
=============================================================================
