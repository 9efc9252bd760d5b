------------------------------ MODULE MCRetain ------------------------------
(* Retain for TLC.                                                         *)
EXTENDS Retain, TLC

CONSTANTS tenantA, tenantB

\* No namespace at all, and two tenants.
MCNamespaces == {{}, {tenantA}, {tenantB}}

Symmetry == Permutations(Procs) \union Permutations(Topics) \union Permutations(Texts)
                \union Permutations({tenantA, tenantB})
=============================================================================
