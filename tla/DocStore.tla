------------------------------ MODULE DocStore ------------------------------
(***************************************************************************)
(* What a vector store promises about the documents it keeps: rows appear  *)
(* one by one, a metadata patch reaches all the rows it names in one step  *)
(* (and may bring in rows whose insert was reported as failed),            *)
(* and the only way to lose a row or a patch is to clear the store.        *)
(***************************************************************************)
CONSTANTS
    Ids, NoRow,
    Patches,   \* calls of patchMetadataMany, by what they write
    Scope      \* per patch: the ids it names

VARIABLE rows   \* per id: NoRow, or the set of patches the row carries

Row == SUBSET Patches
Content == [Ids -> Row \union {NoRow}]
NoRows == [id \in Ids |-> NoRow]
Has(m, id) == m[id] # NoRow

\* The rows of m with patch applied to those of ids that exist.
Patched(m, ids, patch) ==
    [id \in Ids |-> IF id \in ids /\ Has(m, id) THEN m[id] \union {patch} ELSE m[id]]

Init == rows = NoRows

Insert(id) == ~Has(rows, id) /\ rows' = [rows EXCEPT ![id] = {}]
\* The rows whose insert failed before come in with the patch.
Joined(m, late) == [id \in Ids |-> IF id \in late /\ ~Has(m, id) THEN {} ELSE m[id]]
Amend(patch, late) == rows' = Patched(Joined(rows, late), Scope[patch], patch)
Erase == rows' = NoRows

Next ==
    \/ \E id \in Ids : Insert(id)
    \/ \E patch \in Patches, late \in SUBSET Ids : Amend(patch, late)
    \/ Erase

Spec == Init /\ [][Next]_rows
=============================================================================
