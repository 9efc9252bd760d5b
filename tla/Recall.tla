------------------------------- MODULE Recall -------------------------------
(***************************************************************************)
(* The memory store's reads and the Obsidian client it asks among its      *)
(* sources.  The store sees of the client an answer or an empty one, which *)
(* MemoryStore leaves open, and gives it nothing but the calls; so one of  *)
(* the two, chosen at the start, moves, and TLC is spared the product.     *)
(***************************************************************************)
EXTENDS MemoryStore, ObsidianClient

VARIABLE side   \* the part that moves

RecallInit ==
    /\ MemoryInit /\ ObsidianInit
    /\ side \in {"store", "vault"}
    /\ side = "store" => adapter = "rest"
    /\ side = "vault" => ~ reranking

RecallNext ==
    \/ side = "store" /\ MemoryNext /\ UNCHANGED <<obsidianVars, side>>
    \/ side = "vault" /\ ObsidianNext /\ UNCHANGED <<memoryVars, side>>

RecallSpec == RecallInit /\ [][RecallNext]_<<memoryVars, obsidianVars, side>>

\* Types of both parts.
RecallTypeOK == MemoryTypeOK /\ ObsidianTypeOK
=============================================================================
