------------------------------- MODULE ReEmbed -------------------------------
(***************************************************************************)
(* The manifest of src/memory/vector/index.ts and the incremental rebuild  *)
(* scripts/msp/re-embed.ts that relies on it.                              *)
(*                                                                         *)
(* All vector stores of a project share a directory, and with it the one   *)
(* file _manifest.json: the embedder model and, per source file, the hash  *)
(* it was last embedded at.  Every store instance keeps a copy of it, read *)
(* when it loads and written back whole.  A server process, restarted now  *)
(* and then with another model, retains into the stores; the script embeds *)
(* the source files into the store it is run for, skipping those whose     *)
(* hash the manifest has.  Either may die at any await.                    *)
(*                                                                         *)
(* A hash is the version of a file, and a file is one chunk.  Whether a    *)
(* row is stored once or twice is not told apart.  A write of the manifest *)
(* empties the file first; only what that can leave behind is told apart:  *)
(* an unreadable file, at which every load throws (manifest.ts:22).        *)
(***************************************************************************)
EXTENDS Naturals, FiniteSets

CONSTANTS
    Stores,
    Paths,       \* source files
    Models,      \* embedder models, each with its dimension
    MaxVersion,  \* bound: versions of a file
    MaxCrashes,  \* bound: processes that die
    MaxRuns,     \* bound: runs of the script
    Note,        \* the "path" of a retained text
    NoFile,
    NoHash,      \* no entry in file_hashes, or the tombstone ''
    Nil,         \* no manifest; no process; not loaded
    Torn         \* a manifest file that cannot be read

ASSUME BoundAssumption == MaxVersion \in Nat \ {0} /\ MaxCrashes \in Nat /\ MaxRuns \in Nat
ASSUME NilAssumption ==
    /\ Nil \notin Models
    /\ Note \notin Paths
    /\ NoFile \notin 1 .. MaxVersion /\ NoHash \notin 1 .. MaxVersion

VARIABLES
    source, latest,   \* source files; their newest version so far
    manifest, rows,   \* files: _manifest.json and one .jsonl per store
    server,           \* the model of the running server, or Nil
    store,            \* per store: the server's instance of it, or Nil
    pending,          \* stores whose add has still to write the manifest
    pc,               \* where the script awaits
    dest,             \* --store: the store the script rebuilds
    model, full,      \* the script's model; opts.full
    own,              \* the script's instance of dest
    hashes,           \* currentHashes
    deleted, text,    \* files no longer there; what was read of the others
    todo,             \* files still to be appended, then to be recorded
    crashes, runs,
    raced,            \* history: files edited during a run
    emptied,          \* history: a store was emptied, the manifest not yet
    keeper            \* history: per file, the store of the last run that embedded it

sources == <<source, latest, raced>>
files == <<manifest, rows>>
serverVars == <<server, store, pending>>
plan == <<dest, model, full, hashes, deleted>>
script == <<pc, plan, own, text, todo>>
bounds == <<crashes, runs>>
history == <<emptied, keeper>>

vars == <<sources, files, serverVars, script, bounds, history>>

Versions == 1 .. MaxVersion
Hashes == [Paths -> Versions \union {NoHash}]
Manifest == [model : Models, hashes : Hashes]
Row == [path : Paths \union {Note}, hash : Versions \union {NoHash},
        text : Versions \union {NoHash}, model : Models]
Instance == [man : Manifest, any : BOOLEAN]   \* its manifest; docs.length > 0

ASSUME NilIsNoRecord == Nil \notin Manifest \union Instance \union Stores
ASSUME TornAssumption == Torn \notin Manifest /\ Torn # Nil

Places == {"idle", "loaded", "planned", "cleared", "reading", "read",
           "appending", "recording"}

TypeOK ==
    /\ source \in [Paths -> Versions \union {NoFile}]
    /\ latest \in [Paths -> Versions]
    /\ raced \in SUBSET Paths
    /\ manifest \in Manifest \union {Nil, Torn}
    /\ rows \in [Stores -> SUBSET Row]
    /\ server \in Models \union {Nil}
    /\ store \in [Stores -> Instance \union {Nil}]
    /\ pending \in SUBSET Stores
    /\ \A s \in Stores : store[s] # Nil => server # Nil
    /\ \A s \in pending : store[s] # Nil
    /\ pc \in Places
    /\ dest \in Stores \union {Nil} /\ model \in Models \union {Nil} /\ full \in BOOLEAN
    /\ own \in Instance \union {Nil}
    /\ pc # "idle" => dest # Nil /\ model # Nil /\ own # Nil
    /\ hashes \in Hashes /\ text \in Hashes
    /\ deleted \in SUBSET Paths /\ todo \in SUBSET Paths
    /\ crashes \in 0 .. MaxCrashes /\ runs \in 0 .. MaxRuns
    /\ emptied \in BOOLEAN /\ keeper \in [Paths -> Stores \union {Nil}]

NoHashes == [p \in Paths |-> NoHash]

NoScript ==
    /\ pc' = "idle"
    /\ dest' = Nil /\ model' = Nil /\ full' = FALSE /\ own' = Nil
    /\ hashes' = NoHashes /\ text' = NoHashes
    /\ deleted' = {} /\ todo' = {}

Init ==
    /\ source = [p \in Paths |-> 1] /\ latest = source
    /\ raced = {}
    /\ manifest = Nil /\ rows = [s \in Stores |-> {}]
    /\ server = Nil /\ store = [s \in Stores |-> Nil] /\ pending = {}
    /\ pc = "idle"
    /\ dest = Nil /\ model = Nil /\ full = FALSE /\ own = Nil
    /\ hashes = NoHashes /\ text = NoHashes
    /\ deleted = {} /\ todo = {}
    /\ crashes = 0 /\ runs = 0 /\ emptied = FALSE /\ keeper = [p \in Paths |-> Nil]

-----------------------------------------------------------------------------
(* A store instance                                                        *)

emptyManifest(m) == [model |-> m, hashes |-> NoHashes]

\* load: a manifest of another model is only warned about, an unreadable one
\* makes it throw.  It is read before the rows; nobody else appends to a store
\* that is being loaded.
Loaded(s, m) ==
    [man |-> IF manifest = Nil THEN emptyManifest(m) ELSE manifest,
     any |-> rows[s] # {}]

\* assertCompatible: a store that holds nothing adopts the current model.
Compatible(inst, m) == inst.man.model = m
MayAdd(inst, m) == Compatible(inst, m) \/ ~inst.any
Adopted(inst, m) ==
    [man |-> IF Compatible(inst, m) THEN inst.man ELSE emptyManifest(m), any |-> TRUE]

\* bumpManifest names the current model, whatever was there.
Bumped(inst, m) == [inst EXCEPT !.man.model = m]

-----------------------------------------------------------------------------
(* The server                                                              *)

Start(m) ==
    /\ server = Nil
    /\ server' = m
    /\ UNCHANGED <<sources, files, store, pending, script, bounds, history>>

Load(s) ==
    /\ server # Nil /\ manifest # Torn
    /\ store[s] = Nil
    /\ store' = [store EXCEPT ![s] = Loaded(s, server)]
    /\ UNCHANGED <<sources, files, server, pending, script, bounds, history>>

\* addWithVector: a row is appended, then the manifest is written.
Add(s) ==
    /\ store[s] # Nil
    /\ MayAdd(store[s], server)
    /\ s \notin pending
    /\ rows' = [rows EXCEPT ![s] = @ \union
                 {[path |-> Note, hash |-> NoHash, text |-> NoHash, model |-> server]}]
    /\ store' = [store EXCEPT ![s] = Adopted(@, server)]
    /\ pending' = pending \union {s}
    /\ UNCHANGED <<sources, manifest, server, script, bounds, history>>

\* bumpManifest; rewriteAll, after a patch, writes the same manifest.
BumpManifest(s) ==
    /\ s \in pending
    /\ store' = [store EXCEPT ![s] = Bumped(@, server)]
    /\ manifest' = store'[s].man
    /\ pending' = pending \ {s}
    /\ UNCHANGED <<sources, rows, server, script, bounds, history>>

\* Two writes that overlap can leave the head of one and the tail of the other.
BumpTogether(s, t) ==
    /\ s \in pending /\ t \in pending /\ s # t
    /\ store' = [store EXCEPT ![s] = Bumped(@, server), ![t] = Bumped(@, server)]
    /\ manifest' = Torn
    /\ pending' = pending \ {s, t}
    /\ UNCHANGED <<sources, rows, server, script, bounds, history>>

ServerGone ==
    /\ server # Nil
    /\ server' = Nil
    /\ store' = [s \in Stores |-> Nil]
    /\ pending' = {}

Stop ==
    /\ pending = {}
    /\ ServerGone
    /\ UNCHANGED <<sources, files, script, bounds, history>>

ServerDies ==
    /\ crashes < MaxCrashes
    /\ crashes' = crashes + 1
    /\ manifest' \in {manifest} \union (IF pending # {} THEN {Torn} ELSE {})
    /\ ServerGone
    /\ UNCHANGED <<sources, rows, script, runs, history>>

-----------------------------------------------------------------------------
(* The source files                                                        *)

\* New content, for a file that is there or was there.
Edit(p) ==
    /\ latest[p] < MaxVersion
    /\ latest' = [latest EXCEPT ![p] = @ + 1]
    /\ source' = [source EXCEPT ![p] = latest'[p]]
    /\ raced' = IF pc = "idle" THEN raced ELSE raced \union {p}
    /\ UNCHANGED <<files, serverVars, script, bounds, history>>

\* The file is deleted, or put back to a content it had before.
Restore(p) ==
    /\ source' \in {[source EXCEPT ![p] = v] : v \in (1 .. latest[p]) \union {NoFile}}
    /\ source' # source
    /\ raced' = IF pc = "idle" THEN raced ELSE raced \union {p}
    /\ UNCHANGED <<latest, files, serverVars, script, bounds, history>>

-----------------------------------------------------------------------------
(* re-embed                                                                *)

At(place) == pc' = place

Run(s, m, force) ==
    /\ pc = "idle" /\ manifest # Torn
    /\ runs < MaxRuns /\ runs' = runs + 1
    /\ dest' = s /\ model' = m /\ full' = force
    /\ own' = Loaded(s, m)
    /\ At("loaded")
    /\ UNCHANGED <<sources, files, serverVars, hashes, deleted, text, todo, crashes, history>>

Present == {p \in Paths : source[p] # NoFile}
Known == IF manifest = Nil THEN NoHashes ELSE manifest.hashes

\* The manifest on disk, read again, decides about a full rebuild and, file by
\* file, about what has changed; todo is then what will be embedded.
Plan ==
    /\ pc = "loaded"
    /\ full' = (full \/ (manifest # Nil /\ manifest.model # model))
    /\ hashes' = [p \in Paths |-> IF p \in Present THEN source[p] ELSE NoHash]
    /\ deleted' = {p \in Paths \ Present : Known[p] # NoHash}
    /\ todo' = IF full' THEN Present ELSE {p \in Present : Known[p] # source[p]}
    /\ At("planned")
    /\ UNCHANGED <<sources, files, serverVars, dest, model, own, text, bounds, history>>

\* Mutant: a full rebuild adds to what is there.
ClearNever ==
    /\ pc = "planned"
    /\ At("reading")
    /\ UNCHANGED <<sources, files, serverVars, plan, own, text, todo, bounds, history>>

\* clear, for a full rebuild of a store that holds something: the rows go
\* first, the manifest follows.
Clear ==
    /\ pc = "planned"
    /\ IF full /\ own.any
       THEN /\ rows' = [rows EXCEPT ![dest] = {}]
            /\ own' = [man |-> emptyManifest(model), any |-> FALSE]
            /\ emptied' = TRUE
            /\ At("cleared")
       ELSE At("reading") /\ UNCHANGED <<rows, own, emptied>>
    /\ UNCHANGED <<sources, manifest, serverVars, plan, text, todo, bounds, keeper>>

ClearManifest ==
    /\ pc = "cleared"
    /\ manifest' = own.man
    /\ emptied' = FALSE
    /\ At("reading")
    /\ UNCHANGED <<sources, rows, serverVars, plan, own, text, todo, bounds, keeper>>

\* The contents are read after the hashes; a file that is gone makes it throw.
Read ==
    /\ pc = "reading"
    /\ todo \subseteq Present
    /\ text' = [p \in Paths |-> IF p \in todo THEN source[p] ELSE NoHash]
    /\ At("read")
    /\ UNCHANGED <<sources, files, serverVars, plan, own, todo, bounds, history>>

\* What the last loop of the script records.
ToRecord == deleted \union {p \in Paths : hashes[p] # NoHash}

\* addBatch, with nothing to add or once the embedder has answered; it throws
\* if the store holds rows of another model.
AddBatch ==
    /\ pc = "read"
    /\ IF todo = {}
       THEN /\ todo' = ToRecord
            /\ At("recording")
            /\ UNCHANGED own
       ELSE /\ MayAdd(own, model)
            /\ own' = Adopted(own, model)
            /\ At("appending")
            /\ UNCHANGED todo
    /\ UNCHANGED <<sources, files, serverVars, plan, text, bounds, history>>

Append(p) ==
    /\ pc = "appending"
    /\ p \in todo
    /\ rows' = [rows EXCEPT ![dest] = @ \union
                 {[path |-> p, hash |-> hashes[p], text |-> text[p], model |-> model]}]
    /\ todo' = todo \ {p}
    /\ UNCHANGED <<sources, manifest, serverVars, pc, plan, own, text, bounds, history>>

\* Mutant: bumpManifest does not wait for the last append.
AppendedEarly ==
    /\ pc = "appending"
    /\ own' = Bumped(own, model)
    /\ manifest' = own'.man
    /\ todo' = ToRecord
    /\ At("recording")
    /\ UNCHANGED <<sources, rows, serverVars, plan, text, bounds, history>>

\* bumpManifest at the end of addBatch.
Appended ==
    /\ pc = "appending"
    /\ todo = {}
    /\ own' = Bumped(own, model)
    /\ manifest' = own'.man
    /\ todo' = ToRecord
    /\ At("recording")
    /\ UNCHANGED <<sources, rows, serverVars, plan, text, bounds, history>>

NoteKeeper(p) ==
    /\ keeper' = IF text[p] = NoHash THEN keeper ELSE [keeper EXCEPT ![p] = dest]
    /\ UNCHANGED emptied

\* Mutant: setFileHash writes an entry into the manifest it was loaded with.
SetFileHashForgets(p) ==
    /\ pc = "recording"
    /\ p \in todo
    /\ manifest' = [own.man EXCEPT !.hashes[p] = hashes[p]]
    /\ todo' = todo \ {p}
    /\ NoteKeeper(p)
    /\ UNCHANGED <<sources, rows, serverVars, pc, plan, own, text, bounds>>

\* setFileHash, one write of the whole manifest per file, embedded or skipped.
SetFileHash(p) ==
    /\ pc = "recording"
    /\ p \in todo
    /\ own' = [own EXCEPT !.man.hashes[p] = hashes[p]]
    /\ manifest' = own'.man
    /\ todo' = todo \ {p}
    /\ NoteKeeper(p)
    /\ UNCHANGED <<sources, rows, serverVars, pc, plan, text, bounds>>

Finish ==
    /\ pc = "recording"
    /\ todo = {}
    /\ NoScript
    /\ emptied' = (emptied /\ ~full)
    /\ UNCHANGED <<sources, files, serverVars, bounds, keeper>>

\* The next thing it does is to write the manifest.
Writing ==
    \/ pc = "cleared"
    \/ pc = "appending" /\ todo = {}
    \/ pc = "recording" /\ todo # {}

\* Any step throws, or the process is killed: there is no cleaning up.
Dies ==
    /\ pc # "idle"
    /\ crashes < MaxCrashes
    /\ crashes' = crashes + 1
    /\ manifest' \in {manifest} \union (IF Writing THEN {Torn} ELSE {})
    /\ NoScript
    /\ UNCHANGED <<sources, rows, serverVars, runs, history>>

-----------------------------------------------------------------------------
ServerNext ==
    \/ \E m \in Models : Start(m)
    \/ \E s \in Stores : Load(s) \/ Add(s) \/ BumpManifest(s)
    \/ \E s, t \in Stores : BumpTogether(s, t)
    \/ Stop \/ ServerDies

Step ==
    \/ Plan \/ Clear \/ ClearManifest \/ Read \/ AddBatch \/ Appended \/ Finish \/ Dies
    \/ \E p \in Paths : Append(p) \/ SetFileHash(p)

Next ==
    \/ ServerNext
    \/ \E p \in Paths : Edit(p) \/ Restore(p)
    \/ \E s \in Stores, m \in Models, force \in BOOLEAN : Run(s, m, force)
    \/ Step

Spec == Init /\ [][Next]_vars

\* The discipline the script takes for granted.  It runs while no server does;
\* when one died after it had emptied a store, the next is a full one; and a
\* file edited during a run is not put back afterwards to what it was when the
\* run hashed it.
OrderlyNext ==
    \/ pc = "idle" /\ ServerNext
    \/ \E p \in Paths : Edit(p) \/ (pc = "idle" /\ p \notin raced /\ Restore(p))
    \/ /\ server = Nil
       /\ \E s \in Stores, m \in Models, force \in BOOLEAN :
             (emptied => force) /\ Run(s, m, force)
    \/ Step

OrderlySpec == Init /\ [][OrderlyNext]_vars

-----------------------------------------------------------------------------
(* Properties                                                              *)

\* The script skips a file whose hash the manifest has.  Whatever runs died, for
\* whichever stores they were, and whatever was edited while one ran: a file that
\* the next run would skip has its present content embedded, by the model the
\* manifest names, in the store whose run embedded it last.  So a run for that
\* store skips it safely; a run for another store, which shares the hashes,
\* skips it all the same.
SkipIsSafe ==
    ~emptied /\ manifest \notin {Nil, Torn} =>
        \A p \in Present :
            manifest.hashes[p] = source[p] =>
                \E s \in Stores : s = keeper[p] /\ \E r \in rows[s] :
                    r.path = p /\ r.text = source[p] /\ r.model = manifest.model

\* re-embed.ts:138, "avoids leftover docs": what a full rebuild leaves is what
\* it embedded, and all of it.
FullRebuildExact ==
    [][Finish /\ full =>
          /\ {[path |-> r.path, hash |-> r.hash] : r \in rows[dest]}
                = {[path |-> p, hash |-> hashes[p]] : p \in {q \in Paths : hashes[q] # NoHash}}
          /\ \A r \in rows[dest] : r.model = model]_vars

\* A run that finishes has recorded what it saw, deletions included: the next
\* run, with nothing changed, finds nothing to do.
RunSettles == [][Finish /\ manifest # Nil => Known = hashes]_vars
=============================================================================
