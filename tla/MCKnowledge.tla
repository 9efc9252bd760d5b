---------------------------- MODULE MCKnowledge ----------------------------
(* Knowledge for TLC: two issues of one title, changed and closed, and a    *)
(* hotfix opened and resolved.                                              *)
EXTENDS Knowledge, TLC

CONSTANTS make, again, change, shut, open, resolve, i1, i2, h1

MCKind == make :> "create" @@ again :> "create" @@ change :> "setStatus"
          @@ shut :> "close" @@ open :> "open" @@ resolve :> "resolve"
MCId == make :> i1 @@ again :> i1 @@ change :> i1 @@ shut :> i1
        @@ open :> h1 @@ resolve :> h1
MCStatus == [o \in {make, again, change, shut, open, resolve} |-> "wontfix"]

Symmetry == Permutations(Lookups)
=============================================================================
