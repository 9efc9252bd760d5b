---------------------------- MODULE AtomicLayer ----------------------------
(***************************************************************************)
(* The atomic layer of src/memory/gks.ts and the re-builder of its index,  *)
(* scripts/msp/re-indexer.ts, over the files that the issue and hotfix     *)
(* stores write.  The re-builder reads the files one by one and writes one *)
(* row per readable file; the layer keeps the rows of the index in memory, *)
(* reads them anew when the index's modification time has grown, and reads *)
(* a note's body once between two such loads.                              *)
(*                                                                         *)
(* A row is an id and the rev of the text it was made from; a body is the  *)
(* rev of the file when it was read.  mtime counts the moments the file    *)
(* system tells apart: emptying and filling the index may share one.       *)
(***************************************************************************)
EXTENDS IssueStore

CONSTANTS
    Lookups,     \* bound: calls of lookup
    MaxRebuilds, \* bound
    NoIndex, NoBody

ASSUME RebuildsAssumption == MaxRebuilds \in Nat /\ NoBody \notin Nat

VARIABLES
    index,      \* the rows in the index file
    mtime,      \* its modification time
    rpc,        \* the re-builder: "idle", "reading" or "emptied"
    todo,       \* files it has still to read
    rows,       \* the rows it has made
    rebuilds,
    entries,    \* the layer's rows
    loaded,     \* it has loaded once
    indexMtime, \* the modification time it goes by
    bodies,     \* its bodyCache
    lpc,        \* per lookup: its next step
    wants,      \* per lookup: the id asked for
    fresh,      \* per lookup: rows it has read from the index
    note,       \* per lookup: the row it found, and the body it returned
    apart,      \* discipline: no index is written while the layer loads one
    overtaken,  \* history: lookups that had read a body when a load forgot all bodies
    late,       \* history: ids whose kept body was read by one of those
    misled      \* history: lookups that were given such a body

rebuilderVars == <<rpc, todo, rows, rebuilds>>
layerVars == <<entries, loaded, indexMtime, bodies>>
lookupVars == <<lpc, wants, fresh, note>>
bodyHistory == <<overtaken, late, misled>>
atomicVars == <<index, mtime, rebuilderVars, layerVars, lookupVars, apart, bodyHistory>>

Row == [id : Ids, rev : Nat]
LookupPlaces ==
    {"idle", "stat", "load", "install", "mtime", "find", "body", "keep", "done"}
NoNote == [row |-> {}, body |-> NoBody]

AtomicTypeOK ==
    /\ index \in (SUBSET Row) \union {NoIndex} /\ mtime \in Nat
    /\ rpc \in {"idle", "reading", "emptied"}
    /\ todo \subseteq Ids /\ rows \subseteq Row /\ rebuilds \in 0 .. MaxRebuilds
    /\ entries \subseteq Row /\ loaded \in BOOLEAN /\ indexMtime \in Nat
    /\ \A r, s \in entries : r.id = s.id => r = s
    /\ bodies \in [Ids -> Nat \union {NoBody}]
    /\ lpc \in [Lookups -> LookupPlaces] /\ wants \in [Lookups -> Ids]
    /\ fresh \in [Lookups -> SUBSET Row]
    /\ note \in [Lookups -> [row : SUBSET Row, body : Nat \union {NoBody}]]
    /\ apart \in BOOLEAN
    /\ overtaken \subseteq Lookups /\ late \subseteq Ids /\ misled \subseteq Lookups

AtomicInit ==
    /\ index = NoIndex /\ mtime = 0
    /\ rpc = "idle" /\ todo = {} /\ rows = {} /\ rebuilds = 0
    /\ entries = {} /\ loaded = FALSE /\ indexMtime = 0
    /\ bodies = [i \in Ids |-> NoBody]
    /\ lpc = [l \in Lookups |-> "idle"] /\ wants \in [Lookups -> Ids]
    /\ fresh = [l \in Lookups |-> {}] /\ note = [l \in Lookups |-> NoNote]
    /\ apart \in BOOLEAN
    /\ overtaken = {} /\ late = {} /\ misled = {}

-----------------------------------------------------------------------------
\* The re-builder.

Loading == {l \in Lookups : lpc[l] \in {"load", "install", "mtime"}}

StartRebuild ==
    /\ rpc = "idle" /\ rebuilds < MaxRebuilds
    /\ rpc' = "reading" /\ rebuilds' = rebuilds + 1
    /\ todo' = {i \in Ids : Exists(i)} /\ rows' = {}
    /\ UNCHANGED <<index, mtime, layerVars, lookupVars, apart, bodyHistory>>

\* A file without front matter, as one is while it is being written, has no row.
RowsFrom(i) == IF Readable(i) THEN {[id |-> i, rev |-> file[i].rev]} ELSE {}

\* One file of the walk.
ReadFile(i) ==
    /\ rpc = "reading" /\ i \in todo
    /\ todo' = todo \ {i}
    /\ rows' = rows \union RowsFrom(i)
    /\ UNCHANGED <<index, mtime, rpc, rebuilds, layerVars, lookupVars, apart, bodyHistory>>

\* writeFile again empties and fills; two runs of the re-builder differ in mtime.
EmptyIndex ==
    /\ rpc = "reading" /\ todo = {} /\ (apart => Loading = {})
    /\ index' = {} /\ mtime' = mtime + 1 /\ rpc' = "emptied"
    /\ UNCHANGED <<todo, rows, rebuilds, layerVars, lookupVars, apart, bodyHistory>>

FillIndex ==
    /\ rpc = "emptied" /\ (apart => Loading = {})
    /\ index' = rows /\ mtime' \in {mtime, mtime + 1}
    /\ rpc' = "idle" /\ rows' = {}
    /\ UNCHANGED <<todo, rebuilds, layerVars, lookupVars, apart, bodyHistory>>

\* It ends early: on --dry-run, on an error, with its process.
StopRebuild ==
    /\ rpc # "idle"
    /\ rpc' = "idle" /\ todo' = {} /\ rows' = {}
    /\ UNCHANGED <<index, mtime, rebuilds, layerVars, lookupVars, apart, bodyHistory>>

-----------------------------------------------------------------------------
\* A lookup.

Go(l, place) == lpc' = [lpc EXCEPT ![l] = place]

Lookup(l) ==
    /\ lpc[l] = "idle"
    /\ Go(l, IF loaded THEN "stat" ELSE "load")
    /\ UNCHANGED <<index, mtime, rebuilderVars, layerVars, wants, fresh, note, apart,
                   bodyHistory>>

MayLoad == apart => rpc # "emptied"

\* shouldReload: the index has a later time than the one last seen.
Stat(l) ==
    /\ lpc[l] = "stat" /\ MayLoad
    /\ Go(l, IF index # NoIndex /\ mtime > indexMtime THEN "load" ELSE "find")
    /\ UNCHANGED <<index, mtime, rebuilderVars, layerVars, wants, fresh, note, apart,
                   bodyHistory>>

\* No index file is an empty index; while it is filled it is an empty one too,
\* or ends in half a row, and the lookup throws.
ReadIndex(l) ==
    /\ lpc[l] = "load" /\ MayLoad
    /\ \/ /\ index = NoIndex
          /\ entries' = {} /\ loaded' = TRUE /\ indexMtime' = 0
          /\ Go(l, "find") /\ UNCHANGED <<bodies, fresh>>
       \/ /\ index # NoIndex
          /\ fresh' = [fresh EXCEPT ![l] = index]
          /\ Go(l, "install") /\ UNCHANGED layerVars
       \/ rpc = "emptied" /\ Go(l, "done") /\ UNCHANGED <<fresh, layerVars>>
    /\ UNCHANGED <<index, mtime, rebuilderVars, wants, note, apart, bodyHistory>>

\* Mutant: the bodies of before are kept.
InstallKeepingBodies(l) ==
    /\ lpc[l] = "install"
    /\ entries' = fresh[l] /\ loaded' = TRUE
    /\ fresh' = [fresh EXCEPT ![l] = {}] /\ Go(l, "mtime")
    /\ UNCHANGED <<index, mtime, rebuilderVars, indexMtime, bodies, wants, note, apart,
                   bodyHistory>>

\* The rows are taken over and the bodies forgotten.
Install(l) ==
    /\ lpc[l] = "install"
    /\ entries' = fresh[l] /\ loaded' = TRUE
    /\ bodies' = [i \in Ids |-> NoBody]
    /\ overtaken' = overtaken \union {k \in Lookups : lpc[k] = "keep"} /\ late' = {}
    /\ fresh' = [fresh EXCEPT ![l] = {}] /\ Go(l, "mtime")
    /\ UNCHANGED <<index, mtime, rebuilderVars, indexMtime, wants, note, apart, misled>>

\* Mutant: the layer goes by the time of the load.
SeeClock(l) ==
    /\ lpc[l] = "mtime"
    /\ indexMtime' = mtime + 1 /\ Go(l, "find")
    /\ UNCHANGED <<index, mtime, rebuilderVars, entries, loaded, bodies, wants, fresh,
                   note, apart, bodyHistory>>

\* The time it goes by is the file's, asked for after the rows were taken over.
SeeMtime(l) ==
    /\ lpc[l] = "mtime"
    /\ indexMtime' = mtime /\ Go(l, "find")
    /\ UNCHANGED <<index, mtime, rebuilderVars, entries, loaded, bodies, wants, fresh,
                   note, apart, bodyHistory>>

RowsOf(i) == {r \in entries : r.id = i}

\* The row, if there is one, and the body when the layer has it.
FindRow(l) ==
    LET i == wants[l]
    IN  /\ lpc[l] = "find"
        /\ note' = [note EXCEPT ![l] = [row |-> RowsOf(i),
                        body |-> IF RowsOf(i) = {} THEN NoBody ELSE bodies[i]]]
        /\ Go(l, IF RowsOf(i) = {} \/ bodies[i] # NoBody THEN "done" ELSE "body")
        /\ misled' = IF RowsOf(i) # {} /\ i \in late THEN misled \union {l} ELSE misled
        /\ UNCHANGED <<index, mtime, rebuilderVars, layerVars, wants, fresh, apart,
                       overtaken, late>>

\* readBody from the file, whatever the file is just now, and then the caching.
ReadBody(l) ==
    /\ lpc[l] = "body"
    /\ note' = [note EXCEPT ![l].body = Rev(wants[l])]
    /\ Go(l, "keep")
    /\ UNCHANGED <<index, mtime, rebuilderVars, layerVars, wants, fresh, apart, bodyHistory>>

KeepBody(l) ==
    /\ lpc[l] = "keep"
    /\ bodies' = [bodies EXCEPT ![wants[l]] = note[l].body]
    /\ late' = IF l \in overtaken THEN late \union {wants[l]} ELSE late \ {wants[l]}
    /\ Go(l, "done")
    /\ UNCHANGED <<index, mtime, rebuilderVars, entries, loaded, indexMtime, wants,
                   fresh, note, apart, overtaken, misled>>

AtomicNext ==
    \/ StartRebuild \/ EmptyIndex \/ FillIndex \/ StopRebuild
    \/ \E i \in Ids : ReadFile(i)
    \/ \E l \in Lookups : \/ Lookup(l) \/ Stat(l) \/ ReadIndex(l) \/ Install(l)
                          \/ SeeMtime(l) \/ FindRow(l) \/ ReadBody(l) \/ KeepBody(l)

AtomicSpec == AtomicInit /\ [][AtomicNext]_atomicVars

-----------------------------------------------------------------------------
\* As long as no index is written while one is loaded, a layer that will not
\* reload has the rows of the index, whatever re-builders die or share a tick
\* of the file system's clock (shouldReload, loadIndex).  Without that
\* discipline it may keep half an index until the next rebuild.
LayerKnowsWhenStale ==
    apart /\ loaded /\ index # NoIndex /\ Loading = {} /\ ~ (mtime > indexMtime)
        => entries = index

\* The body a lookup returns is no older than the text its row was made from,
\* through any number of overlapping lookups, rebuilds and half-written files,
\* with one exception: a body that was read before a load of the index and kept
\* after it is served under the newer row until the next load (loadIndex,
\* readBody).
BodyNotOlderThanRow ==
    \A l \in Lookups \ misled :
        note[l].body # NoBody => \A r \in note[l].row : note[l].body >= r.rev
=============================================================================
