----------------------------- MODULE MCReEmbed -----------------------------
(* ReEmbed for TLC.                                                        *)
EXTENDS ReEmbed, TLC

Symmetry ==
    Permutations(Paths) \union Permutations(Models) \union Permutations(Stores)
=============================================================================
