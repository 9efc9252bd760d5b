--------------------------- MODULE MCSessionLife ---------------------------
(* Workflow for TLC: one session, or one feature of two artifacts.          *)
EXTENDS Workflow, TLC

CONSTANTS t1, t2

MCBodies == Sessions \X (0 .. MaxSteps)
MCArtifacts == <<t1, t2>>

Symmetry == Permutations(Promoters) \union Permutations(Reviews)
                \union Permutations(Enders)
=============================================================================
