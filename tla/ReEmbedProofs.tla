--------------------------- MODULE ReEmbedProofs ---------------------------
(***************************************************************************)
(* The incremental rebuild, for every number of stores, files, versions,   *)
(* models and processes that die, under OrderlySpec.  One inductive        *)
(* invariant says what every copy of the manifest is worth and how far a   *)
(* run has come; from it: a file that is skipped is embedded, a full       *)
(* rebuild leaves what it embedded, and a run that ends has settled.       *)
(***************************************************************************)
EXTENDS ReEmbed, TLAPS

Hashed == {p \in Paths : hashes[p] # NoHash}
RowFor(rs, p, h, m) == \E r \in rs : r.path = p /\ r.hash = h /\ r.model = m

\* Every entry of a manifest is backed by a row of its model, in the store whose
\* run embedded the file last.
Backed(rs, ks, man) ==
    \A p \in Paths : man.hashes[p] # NoHash =>
        ks[p] \in Stores /\ RowFor(rs[ks[p]], p, man.hashes[p], man.model)

\* Whoever wrote it last and whoever holds a copy: no manifest names a hash
\* that has no row, unless the store was emptied under it.
ManifestsBacked ==
    ~emptied => /\ manifest \notin {Nil, Torn} => Backed(rows, keeper, manifest)
                /\ \A s \in Stores : store[s] # Nil => Backed(rows, keeper, store[s].man)
                /\ pc # "idle" => Backed(rows, keeper, own.man)

\* An add leaves its store with the model of the server.
ServerModel == \A s \in pending : store[s].man.model = server

\* A file edited during a run has stayed at its newest version since.
RacedIsLatest ==
    /\ \A p \in raced : source[p] = latest[p]
    /\ \A p \in Present : source[p] <= latest[p]

\* A hash that is not, or no longer, that of the text it stands for is one the
\* file cannot have again.
Outdated(p, h) == p \in raced /\ h < latest[p]

RowsHonest ==
    \A s \in Stores : \A r \in rows[s] : r.path \in Paths =>
        r.hash \in Versions /\ (r.text = r.hash \/ Outdated(r.path, r.hash))

Planned == {"planned", "cleared", "reading", "read", "appending"}

PlanHonest ==
    pc \in Planned \union {"recording"} =>
        \A p \in Hashed : hashes[p] = source[p] \/ Outdated(p, hashes[p])

TextHonest ==
    /\ pc \in {"idle", "loaded", "planned", "cleared", "reading"} => text = NoHashes
    /\ pc \in {"read", "appending"} =>
          \A p \in todo : text[p] \in Versions /\ (text[p] = hashes[p] \/ Outdated(p, hashes[p]))
    /\ pc \in {"read", "appending", "recording"} =>
          \A p \in Paths : text[p] # NoHash => p \in Hashed

\* What this run embeds goes to dest; what it skips is where it was.
Home(p) == IF text[p] # NoHash THEN dest ELSE keeper[p]
Found(p) == Home(p) \in Stores /\ RowFor(rows[Home(p)], p, hashes[p], model)

\* What the run need not embed, or no longer, is embedded by its model.
Progress ==
    /\ pc \in Planned => todo \subseteq Hashed /\ \A p \in Hashed \ todo : Found(p)
    /\ pc = "recording" => \A p \in Hashed : Found(p)
    /\ (pc \in {"planned", "cleared", "reading", "read"} /\ full) => todo = Hashed

\* The run's own copy of the manifest and of the store's emptiness.
OwnFresh ==
    /\ pc # "idle" => server = Nil /\ (emptied => full) /\ manifest # Torn
    /\ pc \in {"loaded", "planned", "reading", "read"} => own = Loaded(dest, model)
    /\ (pc \in {"planned", "reading", "read"} /\ ~full) => own.man.model = model
    /\ pc = "cleared" => /\ full /\ rows[dest] = {}
                         /\ own = [man |-> emptyManifest(model), any |-> FALSE]
    /\ pc = "appending" => own.man.model = model
    /\ pc = "recording" => /\ manifest # Nil => manifest = own.man
                           /\ Hashed # {} => own.man.model = model

\* Entries the run will not write are those it has nothing to say about.
Recorded ==
    /\ pc \in Planned => \A p \in Paths \ ToRecord : own.man.hashes[p] = NoHash
    /\ pc = "recording" => \A p \in Paths \ todo :
          own.man.hashes[p] = hashes[p] /\ (text[p] # NoHash => keeper[p] = dest)

\* A full rebuild starts from nothing.
RowOf(p) == [path |-> p, hash |-> hashes[p], text |-> text[p], model |-> model]
FullRows ==
    full => /\ pc \in {"reading", "read"} => rows[dest] = {}
            /\ pc = "appending" => rows[dest] = {RowOf(p) : p \in Hashed \ todo}
            /\ pc = "recording" => rows[dest] = {RowOf(p) : p \in Hashed}

StoresInv == TypeOK /\ ManifestsBacked /\ ServerModel /\ RacedIsLatest /\ RowsHonest
ScriptInv == PlanHonest /\ TextHonest /\ Progress /\ OwnFresh /\ Recorded /\ FullRows
RebuildInv == StoresInv /\ ScriptInv

-----------------------------------------------------------------------------
(* Manifests and instances                                                 *)

LEMMA EmptyManifest ==
    ASSUME NEW m \in Models
    PROVE  /\ emptyManifest(m) \in Manifest
           /\ emptyManifest(m).model = m /\ emptyManifest(m).hashes = NoHashes
           /\ \A rs, ks : Backed(rs, ks, emptyManifest(m))
BY DEF emptyManifest, Manifest, Hashes, NoHashes, Backed

LEMMA BackedGrows ==
    ASSUME NEW rs, NEW ss, \A s \in Stores : rs[s] \subseteq ss[s],
           NEW ks, NEW man, Backed(rs, ks, man)
    PROVE  Backed(ss, ks, man)
BY DEF Backed, RowFor

LEMMA LoadedFacts ==
    ASSUME TypeOK, manifest # Torn, NEW m \in Models, NEW s \in Stores
    PROVE  /\ Loaded(s, m) \in Instance /\ Loaded(s, m) # Nil
           /\ Loaded(s, m).man = (IF manifest = Nil THEN emptyManifest(m) ELSE manifest)
           /\ Loaded(s, m).any = (rows[s] # {})
<1>1. /\ Loaded(s, m).man = (IF manifest = Nil THEN emptyManifest(m) ELSE manifest)
      /\ Loaded(s, m).any = (rows[s] # {})
  BY DEF Loaded
<1>2. Loaded(s, m) \in Instance
  BY EmptyManifest DEF TypeOK, Loaded, Instance
<1> QED
  BY <1>1, <1>2, NilIsNoRecord

LEMMA AdoptedFacts ==
    ASSUME NEW inst \in Instance, NEW m \in Models
    PROVE  /\ Adopted(inst, m) \in Instance /\ Adopted(inst, m) # Nil
           /\ Adopted(inst, m).man.model = m
           /\ \/ Adopted(inst, m).man = inst.man
              \/ Adopted(inst, m).man = emptyManifest(m)
<1>1. Adopted(inst, m) \in Instance
  BY EmptyManifest DEF Adopted, Compatible, Instance
<1>2. \/ Compatible(inst, m) /\ Adopted(inst, m).man = inst.man
      \/ Adopted(inst, m).man = emptyManifest(m)
  BY DEF Adopted
<1> QED
  BY <1>1, <1>2, NilIsNoRecord, EmptyManifest DEF Compatible

\* bumpManifest changes nothing in a manifest that names the model already.
LEMMA BumpedFacts ==
    ASSUME NEW inst \in Instance, NEW m \in Models, inst.man.model = m
    PROVE  Bumped(inst, m) = inst
BY DEF Bumped, Instance, Manifest

LEMMA HashTypes ==
    ASSUME TypeOK, NEW p \in Hashed
    PROVE  p \in Paths /\ hashes[p] \in Versions
BY DEF TypeOK, Hashed, Hashes

LEMMA SourceTypes ==
    ASSUME TypeOK, NEW p \in Present
    PROVE  p \in Paths /\ source[p] \in Versions /\ source[p] # NoHash
BY NilAssumption DEF TypeOK, Present, Versions

LEMMA InitRebuild == Init => RebuildInv
<1> SUFFICES ASSUME Init PROVE RebuildInv
  OBVIOUS
<1>1. TypeOK
  <2>1. crashes \in 0 .. MaxCrashes /\ runs \in 0 .. MaxRuns /\ 1 \in Versions
    BY BoundAssumption DEF Init, Versions
  <2>2. hashes \in Hashes /\ text \in Hashes
    BY DEF Init, NoHashes, Hashes
  <2> QED
    BY <2>1, <2>2 DEF Init, TypeOK, Places
<1>2. ManifestsBacked /\ ServerModel /\ RacedIsLatest /\ RowsHonest
  BY BoundAssumption DEF Init, ManifestsBacked, ServerModel, RacedIsLatest,
     RowsHonest, Present, Versions
<1>3. ScriptInv
  BY DEF Init, ScriptInv, PlanHonest, TextHonest, Progress, OwnFresh, Recorded, FullRows, Planned
<1> QED
  BY <1>1, <1>2, <1>3 DEF RebuildInv, StoresInv

-----------------------------------------------------------------------------
(* The server                                                              *)

\* Without a run there is nothing to say about one.
LEMMA IdleScript ==
    ASSUME pc' = "idle", text' = NoHashes
    PROVE  ScriptInv'
BY DEF ScriptInv, PlanHonest, TextHonest, Progress, OwnFresh, Recorded, FullRows, Planned

LEMMA ServerRebuild ==
    ASSUME RebuildInv, pc = "idle", ServerNext
    PROVE  RebuildInv'
<1>1. ASSUME NEW m \in Models, Start(m) PROVE StoresInv' /\ pc' = "idle" /\ text' = text
  <2> USE DEF Start, sources, files, script, plan, bounds, history
  <2>1. TypeOK'
    BY <1>1, NilAssumption DEF RebuildInv, StoresInv, TypeOK
  <2>2. ManifestsBacked' /\ ServerModel' /\ RacedIsLatest' /\ RowsHonest'
    BY <1>1 DEF RebuildInv, StoresInv, TypeOK, ManifestsBacked, ServerModel, RacedIsLatest,
                RowsHonest, Outdated, Present
  <2> QED
    BY <1>1, <2>1, <2>2 DEF StoresInv
<1>2. ASSUME NEW s \in Stores, Load(s) PROVE StoresInv' /\ pc' = "idle" /\ text' = text
  <2> USE DEF Load, sources, files, script, plan, bounds, history
  <2>1. server \in Models /\ Loaded(s, server) \in Instance /\ Loaded(s, server) # Nil
    BY <1>2, LoadedFacts DEF RebuildInv, StoresInv, TypeOK
  <2>2. TypeOK'
    BY <1>2, <2>1 DEF RebuildInv, StoresInv, TypeOK
  <2>3. ~emptied => Backed(rows, keeper, Loaded(s, server).man)
    BY <1>2, <2>1, LoadedFacts, EmptyManifest DEF RebuildInv, StoresInv, ManifestsBacked
  <2>4. ManifestsBacked'
    BY <1>2, <2>3 DEF RebuildInv, StoresInv, TypeOK, ManifestsBacked
  <2>5. ServerModel' /\ RacedIsLatest' /\ RowsHonest'
    BY <1>2 DEF RebuildInv, StoresInv, TypeOK, ServerModel, RacedIsLatest, RowsHonest,
                Outdated, Present
  <2> QED
    BY <1>2, <2>2, <2>4, <2>5 DEF StoresInv
<1>3. ASSUME NEW s \in Stores, Add(s) PROVE StoresInv' /\ pc' = "idle" /\ text' = text
  <2> USE DEF Add, sources, script, plan, bounds, history
  <2> DEFINE note == [path |-> Note, hash |-> NoHash, text |-> NoHash, model |-> server]
             new == Adopted(store[s], server)
  <2>1. server \in Models /\ store[s] \in Instance
    BY <1>3 DEF RebuildInv, StoresInv, TypeOK
  <2>2. new \in Instance /\ new # Nil /\ new.man.model = server
    BY <2>1, AdoptedFacts
  <2>3. \A t \in Stores : /\ rows[t] \subseteq rows'[t]
                          /\ rows'[t] \subseteq rows[t] \union {note}
    BY <1>3 DEF RebuildInv, StoresInv, TypeOK
  <2>4. note \in Row
    BY <2>1 DEF Row
  <2>5. TypeOK'
    BY <1>3, <2>1, <2>2, <2>4 DEF RebuildInv, StoresInv, TypeOK
  <2>6. ASSUME ~emptied PROVE Backed(rows, keeper, new.man)
    BY <1>3, <2>1, <2>6, AdoptedFacts, EmptyManifest DEF RebuildInv, StoresInv, ManifestsBacked
  <2>7. ManifestsBacked'
    <3> SUFFICES ASSUME ~emptied'
                 PROVE  /\ manifest' \notin {Nil, Torn} => Backed(rows', keeper', manifest')
                        /\ \A t \in Stores : store'[t] # Nil => Backed(rows', keeper', store'[t].man)
      BY <1>3 DEF ManifestsBacked
    <3>1. manifest \notin {Nil, Torn} => Backed(rows, keeper, manifest)
      BY <1>3 DEF RebuildInv, StoresInv, ManifestsBacked
    <3>2. \A t \in Stores : store'[t] # Nil => Backed(rows, keeper, store'[t].man)
      BY <1>3, <2>6 DEF RebuildInv, StoresInv, ManifestsBacked, TypeOK
    <3>3. /\ keeper' = keeper /\ manifest' = manifest
          /\ \A t \in Stores : rows[t] \subseteq rows'[t]
      BY <1>3, <2>3
    <3> QED
      BY <3>1, <3>2, <3>3, BackedGrows
  <2>8. ServerModel' /\ RacedIsLatest'
    BY <1>3, <2>2 DEF RebuildInv, StoresInv, TypeOK, ServerModel, RacedIsLatest, Present
  <2>9. RowsHonest'
    BY <1>3, <2>3, NilAssumption DEF RebuildInv, StoresInv, RowsHonest, Outdated
  <2> QED
    BY <1>3, <2>5, <2>7, <2>8, <2>9 DEF StoresInv
<1>4. ASSUME NEW s \in Stores, BumpManifest(s) PROVE StoresInv' /\ pc' = "idle" /\ text' = text
  <2> USE DEF BumpManifest, sources, script, plan, bounds, history
  <2>1. /\ store[s] \in Instance /\ server \in Models /\ store[s] # Nil
        /\ store[s].man.model = server
    BY <1>4 DEF RebuildInv, StoresInv, TypeOK, ServerModel
  <2>2. store' = store /\ manifest' = store[s].man
    BY <1>4, <2>1, BumpedFacts DEF RebuildInv, StoresInv, TypeOK
  <2>3. TypeOK'
    BY <1>4, <2>1, <2>2 DEF RebuildInv, StoresInv, TypeOK, Instance
  <2>4. ManifestsBacked' /\ ServerModel' /\ RacedIsLatest' /\ RowsHonest'
    BY <1>4, <2>1, <2>2 DEF RebuildInv, StoresInv, TypeOK, ManifestsBacked, ServerModel,
       RacedIsLatest, RowsHonest, Outdated, Present
  <2> QED
    BY <1>4, <2>3, <2>4 DEF StoresInv
<1>5. ASSUME NEW s \in Stores, NEW t \in Stores, BumpTogether(s, t)
      PROVE  StoresInv' /\ pc' = "idle" /\ text' = text
  <2> USE DEF BumpTogether, sources, script, plan, bounds, history
  <2>1. /\ store[s] \in Instance /\ store[t] \in Instance /\ server \in Models
        /\ store[s].man.model = server /\ store[t].man.model = server
    BY <1>5 DEF RebuildInv, StoresInv, TypeOK, ServerModel
  <2>2. store' = store /\ manifest' = Torn
    BY <1>5, <2>1, BumpedFacts DEF RebuildInv, StoresInv, TypeOK
  <2>3. TypeOK'
    BY <1>5, <2>2 DEF RebuildInv, StoresInv, TypeOK
  <2>4. ManifestsBacked' /\ ServerModel' /\ RacedIsLatest' /\ RowsHonest'
    BY <1>5, <2>2 DEF RebuildInv, StoresInv, TypeOK, ManifestsBacked, ServerModel,
       RacedIsLatest, RowsHonest, Outdated, Present
  <2> QED
    BY <1>5, <2>3, <2>4 DEF StoresInv
<1>6. ASSUME Stop \/ ServerDies PROVE StoresInv' /\ pc' = "idle" /\ text' = text
  <2> USE DEF Stop, ServerDies, ServerGone, sources, files, script, plan, bounds, history
  <2>1. crashes' \in 0 .. MaxCrashes
    BY <1>6, BoundAssumption DEF RebuildInv, StoresInv, TypeOK
  <2>2. TypeOK'
    BY <1>6, <2>1 DEF RebuildInv, StoresInv, TypeOK
  <2>3. ManifestsBacked' /\ ServerModel' /\ RacedIsLatest' /\ RowsHonest'
    BY <1>6 DEF RebuildInv, StoresInv, TypeOK, ManifestsBacked, ServerModel,
       RacedIsLatest, RowsHonest, Outdated, Present
  <2> QED
    BY <1>6, <2>2, <2>3 DEF StoresInv
<1> QED
  <2>1. text = NoHashes
    BY DEF RebuildInv, ScriptInv, TextHonest
  <2> QED
    BY <1>1, <1>2, <1>3, <1>4, <1>5, <1>6, <2>1, IdleScript DEF ServerNext, RebuildInv

-----------------------------------------------------------------------------
(* The source files                                                        *)

LEMMA EditRebuild ==
    ASSUME RebuildInv, NEW p \in Paths, Edit(p)
    PROVE  RebuildInv'
<1> USE DEF Edit, files, serverVars, script, plan, bounds, history
<1>1. /\ latest[p] \in Versions /\ latest'[p] = latest[p] + 1 /\ latest'[p] \in Versions
      /\ source'[p] = latest'[p]
      /\ \A q \in Paths \ {p} : latest'[q] = latest[q] /\ source'[q] = source[q]
  BY BoundAssumption DEF RebuildInv, StoresInv, TypeOK, Versions
<1>2. TypeOK'
  BY <1>1 DEF RebuildInv, StoresInv, TypeOK
<1>3. ASSUME NEW q \in Paths, NEW h \in Versions, Outdated(q, h) PROVE Outdated(q, h)'
  BY <1>1, <1>3 DEF Outdated, Versions, RebuildInv, StoresInv, TypeOK
<1>4. /\ RacedIsLatest'
      /\ \A q \in Present : source[q] <= latest[q]
  <2>1. \A q \in raced' \ {p} : q \in raced
    OBVIOUS
  <2>2. \A q \in Present' \ {p} : q \in Present
    BY <1>1 DEF Present
  <2> QED
    BY <1>1, <2>1, <2>2 DEF RebuildInv, StoresInv, TypeOK, RacedIsLatest, Present, Versions
<1>5. ManifestsBacked' /\ ServerModel'
  BY DEF RebuildInv, StoresInv, TypeOK, ManifestsBacked, ServerModel
<1>6. RowsHonest'
  BY <1>3 DEF RebuildInv, StoresInv, RowsHonest
<1>7. PlanHonest'
  <2> SUFFICES ASSUME pc \in Planned \union {"recording"}, NEW q \in Hashed
               PROVE  hashes[q] = source'[q] \/ Outdated(q, hashes[q])'
    BY DEF PlanHonest, Hashed
  <2>1. q \in Paths /\ hashes[q] \in Versions
    BY HashTypes DEF RebuildInv, StoresInv
  <2>2. CASE Outdated(q, hashes[q])
    BY <1>3, <2>1, <2>2
  <2>3. CASE q # p /\ hashes[q] = source[q]
    BY <1>1, <2>1, <2>3
  <2>4. CASE q = p /\ hashes[q] = source[q]
    <3>1. source[p] <= latest[p]
      BY <1>4, <2>1, <2>4, NilAssumption DEF Present, Versions
    <3>2. p \in raced'
      BY DEF Planned
    <3> QED
      BY <1>1, <2>1, <2>4, <3>1, <3>2 DEF Outdated, Versions
  <2> QED
    BY <2>2, <2>3, <2>4 DEF RebuildInv, ScriptInv, PlanHonest
<1>8. TextHonest'
  BY <1>3, HashTypes DEF RebuildInv, StoresInv, ScriptInv, TextHonest, Progress, Planned,
                         Hashed
<1>9. Progress' /\ OwnFresh' /\ Recorded' /\ FullRows'
  BY DEF RebuildInv, ScriptInv, Progress, OwnFresh, Recorded, FullRows, Hashed, ToRecord,
         RowOf, Loaded, Found, Home
<1> QED
  BY <1>2, <1>4, <1>5, <1>6, <1>7, <1>8, <1>9 DEF RebuildInv, StoresInv, ScriptInv

LEMMA RestoreRebuild ==
    ASSUME RebuildInv, pc = "idle", NEW p \in Paths, p \notin raced, Restore(p)
    PROVE  RebuildInv'
<1> USE DEF Restore, files, serverVars, script, plan, bounds, history
<1>1. PICK v \in (1 .. latest[p]) \union {NoFile} : source' = [source EXCEPT ![p] = v]
  OBVIOUS
<1>2. TypeOK'
  <2>1. v \in Versions \union {NoFile}
    BY <1>1, BoundAssumption DEF RebuildInv, StoresInv, TypeOK, Versions
  <2> QED
    BY <1>1, <2>1 DEF RebuildInv, StoresInv, TypeOK
<1>3. RacedIsLatest'
  BY <1>1 DEF RebuildInv, StoresInv, TypeOK, RacedIsLatest, Present, Versions
<1>4. ManifestsBacked' /\ ServerModel' /\ RowsHonest'
  BY DEF RebuildInv, StoresInv, TypeOK, ManifestsBacked, ServerModel, RowsHonest, Outdated
<1>5. text' = NoHashes
  BY DEF RebuildInv, ScriptInv, TextHonest
<1> QED
  BY <1>2, <1>3, <1>4, <1>5, IdleScript DEF RebuildInv, StoresInv

-----------------------------------------------------------------------------
(* The script                                                              *)

\* A step of the script finds no server, and leaves what it does not write.
LEMMA ScriptAlone ==
    ASSUME RebuildInv, pc # "idle"
    PROVE  /\ server = Nil /\ pending = {} /\ \A s \in Stores : store[s] = Nil
           /\ model \in Models /\ dest \in Stores /\ own \in Instance
           /\ manifest # Torn
           /\ emptied => full
BY DEF RebuildInv, StoresInv, ScriptInv, OwnFresh, TypeOK

LEMMA SourcesKept ==
    ASSUME RebuildInv, UNCHANGED <<sources, serverVars>>
    PROVE  RacedIsLatest' /\ (pc # "idle" => ServerModel')
BY ScriptAlone DEF RebuildInv, StoresInv, RacedIsLatest, ServerModel, Present, sources, serverVars

LEMMA RunRebuild ==
    ASSUME RebuildInv, server = Nil, NEW s \in Stores, NEW m \in Models,
           NEW force \in BOOLEAN, emptied => force, Run(s, m, force)
    PROVE  RebuildInv'
<1> USE DEF Run, At, sources, files, serverVars, bounds, history
<1>1. Loaded(s, m) \in Instance /\ Loaded(s, m) # Nil
  BY LoadedFacts DEF RebuildInv, StoresInv
<1>2. TypeOK'
  BY <1>1, NilAssumption, NilIsNoRecord, BoundAssumption DEF RebuildInv, StoresInv, TypeOK, Places
<1>3. ~emptied => Backed(rows, keeper, Loaded(s, m).man)
  BY LoadedFacts, EmptyManifest DEF RebuildInv, StoresInv, ManifestsBacked
<1>4. ManifestsBacked' /\ ServerModel' /\ RacedIsLatest' /\ RowsHonest'
  BY <1>3 DEF RebuildInv, StoresInv, TypeOK, ManifestsBacked, ServerModel, RacedIsLatest,
              RowsHonest, Outdated, Present
<1>5. PlanHonest' /\ TextHonest' /\ Progress' /\ Recorded' /\ FullRows'
  BY DEF RebuildInv, ScriptInv, PlanHonest, TextHonest, Progress, Recorded, FullRows, Planned
<1>6. OwnFresh'
  BY DEF OwnFresh, Loaded
<1> QED
  BY <1>2, <1>4, <1>5, <1>6 DEF RebuildInv, StoresInv, ScriptInv

LEMMA PlanRebuild ==
    ASSUME RebuildInv, Plan
    PROVE  RebuildInv'
<1> USE DEF Plan, At, sources, files, serverVars, bounds, history
<1>1. /\ server = Nil /\ model \in Models /\ own = Loaded(dest, model)
      /\ emptied => full
  BY ScriptAlone DEF RebuildInv, ScriptInv, OwnFresh
<1>2. \A p \in Paths : /\ p \in Present => hashes'[p] = source[p]
                       /\ p \notin Present => hashes'[p] = NoHash
                       /\ (p \in Present) = (p \in Hashed')
  BY SourceTypes DEF RebuildInv, StoresInv, Hashed
<1>3. TypeOK'
  <2>1. hashes' \in Hashes
    BY SourceTypes DEF RebuildInv, StoresInv, Hashes
  <2> QED
    BY <1>1, <2>1 DEF RebuildInv, StoresInv, TypeOK, Places, Present
<1>4. ManifestsBacked' /\ RowsHonest'
  BY DEF RebuildInv, StoresInv, ManifestsBacked, RowsHonest, Outdated
<1>5. PlanHonest' /\ TextHonest' /\ FullRows'
  BY <1>2 DEF RebuildInv, ScriptInv, PlanHonest, TextHonest, FullRows, Hashed
<1>6. own.man.hashes = Known /\ (~full' => own.man.model = model)
  <2>1. own.man = IF manifest = Nil THEN emptyManifest(model) ELSE manifest
    BY <1>1, LoadedFacts, ScriptAlone DEF RebuildInv, StoresInv
  <2>2. ~full' => manifest = Nil \/ manifest.model = model
    OBVIOUS
  <2> QED
    BY <1>1, <2>1, <2>2, EmptyManifest DEF Known
<1>7. Progress'
  <2>1. todo' \subseteq Hashed' /\ (full' => todo' = Hashed')
    BY <1>2 DEF Present, Hashed
  <2>2. ASSUME NEW p \in Hashed', p \notin todo' PROVE Found(p)'
    <3>1. p \in Present /\ ~full' /\ Known[p] = source[p] /\ hashes'[p] = source[p]
      BY <1>2, <2>1, <2>2 DEF Hashed
    <3>2. manifest # Nil /\ source[p] # NoHash
      BY <3>1, SourceTypes DEF Known, NoHashes, RebuildInv, StoresInv, Present
    <3>3. Backed(rows, keeper, manifest) /\ manifest.model = model
      BY <1>1, <3>1, <3>2, ScriptAlone DEF RebuildInv, StoresInv, ManifestsBacked
    <3>4. text' = NoHashes
      BY DEF RebuildInv, ScriptInv, TextHonest
    <3>5. Home(p)' = keeper[p]
      BY <3>1, <3>4 DEF Home, NoHashes, Present
    <3> QED
      BY <3>1, <3>2, <3>3, <3>5 DEF Backed, Known, Present, Found
  <2> QED
    BY <2>1, <2>2 DEF Progress, Planned
<1>8. OwnFresh'
  BY <1>1, <1>6, ScriptAlone DEF OwnFresh, Loaded
<1>9. Recorded'
  BY <1>2, <1>6 DEF Recorded, ToRecord, Present, Hashed
<1> QED
  BY <1>3, <1>4, <1>5, <1>7, <1>8, <1>9, SourcesKept DEF RebuildInv, StoresInv, ScriptInv

LEMMA ClearRebuild ==
    ASSUME RebuildInv, Clear
    PROVE  RebuildInv'
<1> USE DEF Clear, At, sources, serverVars, plan, bounds, history
<1>1. /\ server = Nil /\ model \in Models /\ own = Loaded(dest, model)
      /\ emptied => full
  BY ScriptAlone DEF RebuildInv, ScriptInv, OwnFresh
<1>2. own.any = (rows[dest] # {})
  BY <1>1, LoadedFacts, ScriptAlone DEF RebuildInv, StoresInv
<1>3. RacedIsLatest' /\ ServerModel'
  BY SourcesKept
<1>4. CASE full /\ own.any
  <2>1. /\ rows' = [rows EXCEPT ![dest] = {}] /\ rows'[dest] = {}
        /\ own' = [man |-> emptyManifest(model), any |-> FALSE] /\ emptied' = TRUE
        /\ pc' = "cleared"
    BY <1>4 DEF RebuildInv, StoresInv, TypeOK
  <2>2. own' \in Instance /\ own' # Nil
    <3>1. own' \in Instance
      BY <1>1, <2>1, EmptyManifest DEF Instance
    <3> QED
      BY <3>1, NilIsNoRecord
  <2>3. TypeOK'
    BY <1>1, <2>1, <2>2 DEF RebuildInv, StoresInv, TypeOK, Places
  <2>4. ManifestsBacked' /\ RowsHonest'
    <3>1. \A s \in Stores : rows'[s] \subseteq rows[s]
      BY <1>1, <2>1 DEF RebuildInv, StoresInv, TypeOK
    <3> QED
      BY <2>1, <3>1 DEF RebuildInv, StoresInv, ManifestsBacked, RowsHonest, Outdated
  <2>5. PlanHonest' /\ TextHonest' /\ FullRows'
    BY <2>1 DEF RebuildInv, ScriptInv, PlanHonest, TextHonest, FullRows, Hashed, Outdated, Planned
  <2>6. Progress'
    BY <1>4, <2>1 DEF RebuildInv, ScriptInv, Progress, Hashed, Planned
  <2>7. OwnFresh' /\ Recorded'
    BY <1>1, <1>4, <2>1, EmptyManifest, ScriptAlone
       DEF OwnFresh, Recorded, Planned, emptyManifest, NoHashes
  <2> QED
    BY <1>3, <2>3, <2>4, <2>5, <2>6, <2>7 DEF RebuildInv, StoresInv, ScriptInv
<1>5. CASE ~(full /\ own.any)
  <2>1. UNCHANGED <<rows, own, emptied>> /\ pc' = "reading"
    BY <1>5
  <2>2. TypeOK'
    BY <1>1, <2>1 DEF RebuildInv, StoresInv, TypeOK, Places
  <2>3. ManifestsBacked' /\ RowsHonest'
    BY <2>1 DEF RebuildInv, StoresInv, ManifestsBacked, RowsHonest, Outdated
  <2>4. FullRows'
    BY <1>2, <1>5, <2>1 DEF FullRows
  <2>5. PlanHonest' /\ TextHonest' /\ Progress' /\ Recorded' /\ OwnFresh'
    BY <2>1 DEF RebuildInv, ScriptInv, PlanHonest, TextHonest, Progress, Recorded, OwnFresh,
                Hashed, ToRecord, Outdated, Planned, Loaded, Found, Home
  <2> QED
    BY <1>3, <2>2, <2>3, <2>4, <2>5 DEF RebuildInv, StoresInv, ScriptInv
<1> QED
  BY <1>4, <1>5

LEMMA ClearManifestRebuild ==
    ASSUME RebuildInv, ClearManifest
    PROVE  RebuildInv'
<1> USE DEF ClearManifest, At, sources, serverVars, plan, bounds, history
<1>1. /\ server = Nil /\ model \in Models /\ own \in Instance
      /\ own = [man |-> emptyManifest(model), any |-> FALSE]
      /\ full /\ rows[dest] = {}
      /\ \A s \in Stores : store[s] = Nil
  BY ScriptAlone DEF RebuildInv, ScriptInv, OwnFresh
<1>2. manifest' = emptyManifest(model) /\ manifest' \in Manifest /\ manifest' # Nil
  BY <1>1, EmptyManifest, NilIsNoRecord
<1>3. TypeOK'
  BY <1>1, <1>2 DEF RebuildInv, StoresInv, TypeOK, Places
<1>4. ManifestsBacked' /\ RowsHonest'
  BY <1>1, <1>2, EmptyManifest DEF RebuildInv, StoresInv, ManifestsBacked, RowsHonest, Outdated
<1>5. PlanHonest' /\ TextHonest' /\ Progress' /\ Recorded' /\ FullRows'
  BY <1>1 DEF RebuildInv, ScriptInv, PlanHonest, TextHonest, Progress, Recorded, FullRows,
              Hashed, ToRecord, Outdated, Planned, Found, Home
<1>6. OwnFresh'
  BY <1>1, <1>2, TornAssumption DEF OwnFresh, Loaded
<1> QED
  BY <1>3, <1>4, <1>5, <1>6, SourcesKept DEF RebuildInv, StoresInv, ScriptInv

LEMMA ReadRebuild ==
    ASSUME RebuildInv, Read
    PROVE  RebuildInv'
<1> USE DEF Read, At, sources, files, serverVars, plan, bounds, history
<1>1. todo \subseteq Hashed
  BY DEF RebuildInv, ScriptInv, Progress, Planned
<1>2. TypeOK'
  <2>1. text' \in Hashes
    BY SourceTypes DEF RebuildInv, StoresInv, Hashes
  <2> QED
    BY <2>1 DEF RebuildInv, StoresInv, TypeOK, Places
<1>3. ManifestsBacked' /\ RowsHonest'
  BY DEF RebuildInv, StoresInv, ManifestsBacked, RowsHonest, Outdated
<1>4. TextHonest'
  BY <1>1, SourceTypes DEF StoresInv, RebuildInv, ScriptInv, PlanHonest, TextHonest, Outdated, Planned, Hashed
<1>5. Progress'
  <2>1. ASSUME NEW p \in Hashed, p \notin todo PROVE Found(p)'
    <3>1. Found(p) /\ text = NoHashes /\ p \in Paths
      BY <2>1 DEF RebuildInv, ScriptInv, Progress, TextHonest, Planned, Hashed
    <3>2. text[p] = NoHash /\ text'[p] = NoHash
      BY <2>1, <3>1 DEF NoHashes
    <3> QED
      BY <3>1, <3>2 DEF Found, Home
  <2> QED
    BY <1>1, <2>1 DEF RebuildInv, ScriptInv, Progress, Planned, Hashed
<1>6. PlanHonest' /\ Recorded' /\ FullRows' /\ OwnFresh'
  BY DEF RebuildInv, ScriptInv, PlanHonest, Recorded, FullRows, OwnFresh,
         Hashed, ToRecord, Outdated, Planned, Loaded, Found, Home
<1> QED
  BY <1>2, <1>3, <1>4, <1>5, <1>6, SourcesKept DEF RebuildInv, StoresInv, ScriptInv

LEMMA AddBatchRebuild ==
    ASSUME RebuildInv, AddBatch
    PROVE  RebuildInv'
<1> USE DEF AddBatch, At, sources, files, serverVars, plan, bounds, history
<1>1. /\ server = Nil /\ model \in Models /\ own \in Instance
      /\ own = Loaded(dest, model) /\ todo \subseteq Hashed /\ (full => todo = Hashed)
      /\ \A p \in Hashed \ todo : Found(p)
  BY ScriptAlone DEF RebuildInv, ScriptInv, OwnFresh, Progress, Planned
<1>2. RacedIsLatest' /\ ServerModel' /\ RowsHonest' /\ PlanHonest'
  BY SourcesKept DEF RebuildInv, StoresInv, ScriptInv, RowsHonest, PlanHonest, Outdated,
                     Hashed, Planned
<1>3. CASE todo = {}
  <2>1. todo' = ToRecord /\ pc' = "recording" /\ own' = own
    BY <1>3
  <2>2. TypeOK'
    BY <2>1 DEF RebuildInv, StoresInv, TypeOK, Places, ToRecord
  <2>3. ManifestsBacked' /\ TextHonest' /\ Progress' /\ FullRows'
    BY <1>1, <1>3, <2>1 DEF RebuildInv, StoresInv, ScriptInv, ManifestsBacked, TextHonest,
                            Progress, FullRows, Hashed, RowOf, Planned,
                            Found, Home
  <2>4. Recorded'
    <3> SUFFICES ASSUME NEW p \in Paths, p \notin ToRecord
                 PROVE  own.man.hashes[p] = hashes[p] /\ text[p] = NoHash
      BY <2>1 DEF Recorded, Planned
    <3>1. own.man.hashes[p] = NoHash /\ hashes[p] = NoHash
      BY DEF RebuildInv, ScriptInv, Recorded, Planned, ToRecord
    <3>2. text[p] = NoHash
      BY <3>1 DEF RebuildInv, ScriptInv, TextHonest, Hashed
    <3> QED
      BY <3>1, <3>2
  <2>5. OwnFresh'
    <3>1. manifest # Nil => manifest = own.man
      BY <1>1, LoadedFacts, ScriptAlone DEF RebuildInv, StoresInv
    <3>2. Hashed # {} => own.man.model = model
      BY <1>1, <1>3 DEF RebuildInv, ScriptInv, OwnFresh
    <3> QED
      BY <1>1, <2>1, <3>1, <3>2, ScriptAlone DEF OwnFresh, Hashed
  <2> QED
    BY <1>2, <2>2, <2>3, <2>4, <2>5 DEF RebuildInv, StoresInv, ScriptInv
<1>4. CASE todo # {}
  <2>1. own' = Adopted(own, model) /\ pc' = "appending" /\ todo' = todo
    BY <1>4
  <2>2. /\ own' \in Instance /\ own' # Nil /\ own'.man.model = model
        /\ own'.man = own.man \/ own'.man = emptyManifest(model)
    BY <1>1, <2>1, AdoptedFacts
  <2>3. TypeOK'
    BY <2>1, <2>2 DEF RebuildInv, StoresInv, TypeOK, Places
  <2>4. ManifestsBacked'
    BY <1>1, <2>1, <2>2, EmptyManifest DEF RebuildInv, StoresInv, ManifestsBacked
  <2>5. TextHonest' /\ Progress'
    BY <1>1, <2>1 DEF RebuildInv, ScriptInv, TextHonest, Progress, Hashed, Outdated, Planned,
                      Found, Home
  <2>6. FullRows'
    BY <1>1, <2>1 DEF RebuildInv, ScriptInv, FullRows, Hashed, RowOf
  <2>7. Recorded'
    BY <1>1, <2>1, <2>2, EmptyManifest
       DEF RebuildInv, ScriptInv, Recorded, ToRecord, Planned, NoHashes
  <2>8. OwnFresh'
    BY <1>1, <2>1, <2>2, ScriptAlone DEF OwnFresh
  <2> QED
    BY <1>2, <2>3, <2>4, <2>5, <2>6, <2>7, <2>8 DEF RebuildInv, StoresInv, ScriptInv
<1> QED
  BY <1>3, <1>4

LEMMA AppendRebuild ==
    ASSUME RebuildInv, NEW p \in Paths, Append(p)
    PROVE  RebuildInv'
<1> USE DEF Append, sources, serverVars, plan, bounds, history
<1>1. /\ server = Nil /\ model \in Models /\ own \in Instance
      /\ todo \subseteq Hashed /\ own.man.model = model
      /\ \A q \in Hashed \ todo : Found(q)
      /\ dest \in Stores
  BY ScriptAlone DEF RebuildInv, ScriptInv, OwnFresh, Progress, Planned
<1>2. /\ rows' = [rows EXCEPT ![dest] = @ \union {RowOf(p)}]
      /\ rows'[dest] = rows[dest] \union {RowOf(p)}
  BY DEF RebuildInv, StoresInv, TypeOK, RowOf
<1>3. hashes[p] \in Versions
  BY <1>1, HashTypes DEF RebuildInv, StoresInv
<1>4. TypeOK'
  <2>1. RowOf(p) \in Row
    BY <1>1, <1>3 DEF RebuildInv, StoresInv, TypeOK, RowOf, Row, Hashes
  <2>2. rows' \in [Stores -> SUBSET Row]
    BY <1>2, <2>1 DEF RebuildInv, StoresInv, TypeOK
  <2> QED
    BY <2>2 DEF RebuildInv, StoresInv, TypeOK
<1>5. ManifestsBacked'
  <2>1. \A s \in Stores : rows[s] \subseteq rows'[s]
    BY <1>1, <1>2 DEF RebuildInv, StoresInv, TypeOK
  <2>2. UNCHANGED <<keeper, manifest, store, own, pc, emptied>>
    OBVIOUS
  <2>3. ASSUME NEW man, Backed(rows, keeper, man) PROVE Backed(rows', keeper', man)
    <3>1. Backed(rows', keeper, man)
      BY <2>1, <2>3, BackedGrows
    <3> QED
      BY <2>2, <3>1
  <2> SUFFICES ASSUME ~emptied'
               PROVE  /\ manifest' \notin {Nil, Torn} => Backed(rows', keeper', manifest')
                      /\ \A s \in Stores :
                            store'[s] # Nil => Backed(rows', keeper', store'[s].man)
                      /\ Backed(rows', keeper', own'.man)
    BY DEF ManifestsBacked
  <2>4. /\ manifest \notin {Nil, Torn} => Backed(rows, keeper, manifest)
        /\ \A s \in Stores : store[s] # Nil => Backed(rows, keeper, store[s].man)
        /\ Backed(rows, keeper, own.man)
    BY DEF RebuildInv, StoresInv, ManifestsBacked
  <2> QED
    BY <2>2, <2>3, <2>4
<1>6. RowsHonest'
  <2>1. text[p] = hashes[p] \/ Outdated(p, hashes[p])
    BY DEF RebuildInv, ScriptInv, TextHonest
  <2>2. \A s \in Stores : rows'[s] \subseteq rows[s] \union {RowOf(p)}
    BY <1>1, <1>2 DEF RebuildInv, StoresInv, TypeOK
  <2> QED
    BY <1>3, <2>1, <2>2 DEF RebuildInv, StoresInv, RowsHonest, RowOf, Outdated
<1>7. PlanHonest' /\ TextHonest' /\ Recorded' /\ OwnFresh'
  BY DEF RebuildInv, ScriptInv, PlanHonest, TextHonest, Recorded, OwnFresh,
         Hashed, ToRecord, Outdated, Planned
<1>8. Progress'
  <2>1. Found(p)'
    <3>1. RowOf(p) \in rows'[dest]
      BY <1>2
    <3>2. RowOf(p).path = p /\ RowOf(p).hash = hashes[p] /\ RowOf(p).model = model
      BY DEF RowOf
    <3>3. text[p] # NoHash
      BY NilAssumption DEF RebuildInv, ScriptInv, TextHonest, Versions
    <3> QED
      BY <1>1, <3>1, <3>2, <3>3 DEF RowFor, Found, Home
  <2>2. ASSUME NEW q \in Hashed \ todo PROVE Found(q)'
    <3>1. Home(q)' = Home(q) /\ Found(q)
      BY <1>1 DEF Home
    <3>2. rows[Home(q)] \subseteq rows'[Home(q)]
      BY <1>1, <1>2, <3>1 DEF RebuildInv, StoresInv, TypeOK, Found
    <3> QED
      BY <3>1, <3>2 DEF Found, RowFor
  <2> QED
    BY <1>1, <2>1, <2>2 DEF Progress, Hashed, Planned
<1>9. FullRows'
  <2> SUFFICES ASSUME full PROVE rows'[dest] = {RowOf(q) : q \in Hashed \ todo'}
    BY DEF FullRows, RowOf, Hashed
  <2>1. rows[dest] = {RowOf(q) : q \in Hashed \ todo}
    BY DEF RebuildInv, ScriptInv, FullRows
  <2>2. Hashed \ todo' = (Hashed \ todo) \union {p}
    BY <1>1
  <2> QED
    BY <1>2, <2>1, <2>2
<1> QED
  BY <1>4, <1>5, <1>6, <1>7, <1>8, <1>9, SourcesKept DEF RebuildInv, StoresInv, ScriptInv

LEMMA AppendedRebuild ==
    ASSUME RebuildInv, Appended
    PROVE  RebuildInv'
<1>1. own \in Instance /\ model \in Models /\ own.man.model = model
  BY ScriptAlone DEF RebuildInv, ScriptInv, OwnFresh, Appended
<1>2. own' = own /\ manifest' = own.man
  BY <1>1, BumpedFacts DEF Appended
<1> USE DEF Appended, At, sources, serverVars, plan, bounds, history
<1>3. /\ server = Nil
      /\ emptied => full
      /\ \A q \in Hashed : Found(q)
  BY ScriptAlone DEF RebuildInv, ScriptInv, Progress, Planned
<1>4. TypeOK'
  BY <1>1, <1>2 DEF RebuildInv, StoresInv, TypeOK, Places, ToRecord, Instance
<1>5. ManifestsBacked' /\ RowsHonest' /\ PlanHonest' /\ TextHonest'
  BY <1>2 DEF RebuildInv, StoresInv, ScriptInv, ManifestsBacked, RowsHonest, PlanHonest,
              TextHonest, Hashed, Outdated, Planned
<1>6. Progress'
  BY <1>3 DEF Progress, Hashed, Planned, Found, Home
<1>7. OwnFresh'
  BY <1>1, <1>2, <1>3, TornAssumption DEF OwnFresh, Instance
<1>8. FullRows'
  BY <1>2 DEF RebuildInv, ScriptInv, FullRows, RowOf, Hashed
<1>9. Recorded'
  <2> SUFFICES ASSUME NEW p \in Paths, p \notin ToRecord
               PROVE  own.man.hashes[p] = hashes[p] /\ text[p] = NoHash
    BY <1>2 DEF Recorded, Planned
  <2>1. own.man.hashes[p] = NoHash /\ hashes[p] = NoHash
    BY DEF RebuildInv, ScriptInv, Recorded, Planned, ToRecord
  <2>2. text[p] = NoHash
    BY <2>1 DEF RebuildInv, ScriptInv, TextHonest, Hashed
  <2> QED
    BY <2>1, <2>2
<1> QED
  BY <1>4, <1>5, <1>6, <1>7, <1>8, <1>9, SourcesKept DEF RebuildInv, StoresInv, ScriptInv

LEMMA SetFileHashRebuild ==
    ASSUME RebuildInv, NEW p \in Paths, SetFileHash(p)
    PROVE  RebuildInv'
<1> USE DEF SetFileHash, NoteKeeper, sources, serverVars, plan, bounds
<1>1. /\ server = Nil /\ model \in Models /\ dest \in Stores /\ own \in Instance
      /\ emptied => full
      /\ Hashed # {} => own.man.model = model
      /\ \A q \in Hashed : Found(q)
      /\ hashes \in Hashes
  BY ScriptAlone DEF RebuildInv, StoresInv, TypeOK, ScriptInv, OwnFresh, Progress
<1>2. /\ own' \in Instance /\ own'.man.model = own.man.model /\ manifest' = own'.man
      /\ own'.man.hashes[p] = hashes[p]
      /\ \A q \in Paths \ {p} : own'.man.hashes[q] = own.man.hashes[q]
      /\ manifest' \in Manifest /\ manifest' # Torn
  BY <1>1, TornAssumption DEF Instance, Manifest, Hashes
<1>3. /\ keeper' \in [Paths -> Stores \union {Nil}]
      /\ keeper'[p] = Home(p)
      /\ \A q \in Paths \ {p} : keeper'[q] = keeper[q]
      /\ \A q \in Paths : Home(q)' = Home(q)
  BY <1>1 DEF RebuildInv, StoresInv, TypeOK, Home
<1>4. TypeOK'
  BY <1>1, <1>2, <1>3, NilIsNoRecord DEF RebuildInv, StoresInv, TypeOK, Places
<1>5. ManifestsBacked'
  <2> SUFFICES ASSUME ~emptied PROVE Backed(rows, keeper', own'.man)
    BY <1>2, ScriptAlone DEF ManifestsBacked
  <2>1. Backed(rows, keeper, own.man)
    BY DEF RebuildInv, StoresInv, ManifestsBacked
  <2>2. ASSUME hashes[p] # NoHash
        PROVE  Home(p) \in Stores /\ RowFor(rows[Home(p)], p, hashes[p], own.man.model)
    BY <1>1, <2>2 DEF Hashed, Found
  <2> QED
    BY <1>2, <1>3, <2>1, <2>2 DEF Backed
<1>6. Progress'
  <2>1. \A q \in Hashed : Found(q)'
    BY <1>1, <1>3 DEF Found, Hashed
  <2> QED
    BY <2>1 DEF Progress, Planned, Hashed
<1>7. RowsHonest' /\ PlanHonest' /\ TextHonest' /\ FullRows'
  BY DEF RebuildInv, StoresInv, ScriptInv, RowsHonest, PlanHonest, TextHonest,
         FullRows, RowOf, Hashed, Outdated, Planned
<1>8. OwnFresh'
  BY <1>1, <1>2 DEF OwnFresh, Hashed
<1>9. Recorded'
  BY <1>2, <1>3 DEF RebuildInv, ScriptInv, Recorded, Planned, Home
<1> QED
  BY <1>4, <1>5, <1>6, <1>7, <1>8, <1>9, SourcesKept DEF RebuildInv, StoresInv, ScriptInv

\* A run that has recorded everything leaves the manifest of what it saw.
LEMMA SettledAtEnd ==
    ASSUME RebuildInv, pc = "recording", todo = {}, manifest # Nil
    PROVE  manifest.hashes = hashes /\ Backed(rows, keeper, manifest)
<1>1. /\ manifest = own.man /\ own \in Instance /\ hashes \in Hashes
      /\ Hashed # {} => own.man.model = model
      /\ \A q \in Hashed : Found(q)
  BY ScriptAlone DEF RebuildInv, StoresInv, TypeOK, ScriptInv, OwnFresh, Progress
<1>2. \A p \in Paths : own.man.hashes[p] = hashes[p] /\ Home(p) = keeper[p]
  BY DEF RebuildInv, ScriptInv, Recorded, Home
<1>3. manifest.hashes = hashes
  BY <1>1, <1>2 DEF Instance, Manifest, Hashes
<1> QED
  BY <1>1, <1>2, <1>3 DEF Backed, Hashed, Found

LEMMA NoScriptTypes ==
    ASSUME TypeOK, NoScript, UNCHANGED <<sources, rows, serverVars, runs, keeper>>,
           manifest' \in {manifest, Torn}, crashes' \in 0 .. MaxCrashes, emptied' \in BOOLEAN
    PROVE  TypeOK'
<1>1. NoHashes \in Hashes
  BY DEF NoHashes, Hashes
<1> QED
  BY <1>1 DEF TypeOK, NoScript, sources, serverVars, Places

LEMMA FinishRebuild ==
    ASSUME RebuildInv, Finish
    PROVE  RebuildInv'
<1> USE DEF Finish, sources, files, serverVars, bounds, history
<1>1. /\ \A s \in Stores : store[s] = Nil
      /\ emptied => full
      /\ pc' = "idle" /\ text' = NoHashes
  BY ScriptAlone DEF NoScript
<1>2. TypeOK'
  BY NoScriptTypes DEF RebuildInv, StoresInv, TypeOK
<1>3. ManifestsBacked'
  BY <1>1, SettledAtEnd DEF ManifestsBacked
<1>4. RowsHonest'
  BY DEF RebuildInv, StoresInv, RowsHonest, Outdated
<1> QED
  BY <1>1, <1>2, <1>3, <1>4, SourcesKept, IdleScript DEF RebuildInv, StoresInv

LEMMA DiesRebuild ==
    ASSUME RebuildInv, Dies
    PROVE  RebuildInv'
<1> USE DEF Dies, sources, files, serverVars, bounds, history
<1>1. TypeOK'
  <2>1. crashes' \in 0 .. MaxCrashes
    BY BoundAssumption DEF RebuildInv, StoresInv, TypeOK
  <2> QED
    BY <2>1, NoScriptTypes DEF RebuildInv, StoresInv, TypeOK
<1>2. ManifestsBacked' /\ RowsHonest' /\ pc' = "idle" /\ text' = NoHashes
  BY DEF RebuildInv, StoresInv, ManifestsBacked, RowsHonest, Outdated, NoScript, Writing
<1> QED
  BY <1>1, <1>2, SourcesKept, IdleScript DEF RebuildInv, StoresInv

LEMMA StepRebuild == RebuildInv /\ [OrderlyNext]_vars => RebuildInv'
<1> SUFFICES ASSUME RebuildInv, [OrderlyNext]_vars PROVE RebuildInv'
  OBVIOUS
<1>1. CASE pc = "idle" /\ ServerNext
  BY <1>1, ServerRebuild
<1>2. ASSUME NEW p \in Paths, Edit(p) \/ (pc = "idle" /\ p \notin raced /\ Restore(p))
      PROVE  RebuildInv'
  BY <1>2, EditRebuild, RestoreRebuild
<1>3. ASSUME server = Nil, NEW s \in Stores, NEW m \in Models, NEW force \in BOOLEAN,
             emptied => force, Run(s, m, force)
      PROVE  RebuildInv'
  BY <1>3, RunRebuild
<1>4. CASE Step
  BY <1>4, PlanRebuild, ClearRebuild, ClearManifestRebuild, ReadRebuild, AddBatchRebuild,
     AppendRebuild, AppendedRebuild, SetFileHashRebuild, FinishRebuild, DiesRebuild DEF Step
<1>5. CASE UNCHANGED vars
  <2> USE <1>5 DEF vars, sources, files, serverVars, script, plan, bounds, history
  <2>1. StoresInv'
    BY DEF RebuildInv, StoresInv, TypeOK, ManifestsBacked, ServerModel, RacedIsLatest,
           RowsHonest, Outdated, Present
  <2>2. ScriptInv'
    BY DEF RebuildInv, ScriptInv, PlanHonest, TextHonest, Progress, OwnFresh, Recorded,
           FullRows, Hashed, ToRecord, RowOf, Outdated, Loaded, Found, Home
  <2> QED
    BY <2>1, <2>2 DEF RebuildInv
<1> QED
  BY <1>1, <1>2, <1>3, <1>4, <1>5 DEF OrderlyNext

LEMMA RebuildInvariant == OrderlySpec => []RebuildInv
BY InitRebuild, StepRebuild, PTL DEF OrderlySpec

-----------------------------------------------------------------------------
(* Theorems                                                                *)

\* Every copy of the manifest, every row and the state of the run are well
\* formed, whatever died.
THEOREM RebuildTypes == OrderlySpec => []TypeOK
BY RebuildInvariant, PTL DEF RebuildInv, StoresInv

\* A file whose hash the manifest has, and which the next run would skip, has
\* its present content embedded, by the model the manifest names, in the store
\* whose run embedded it last, whichever stores runs were for.
THEOREM RebuildSkipIsSafe == OrderlySpec => []SkipIsSafe
<1>1. RebuildInv => SkipIsSafe
  <2> SUFFICES ASSUME RebuildInv, ~emptied, manifest \notin {Nil, Torn}, NEW p \in Present,
                      manifest.hashes[p] = source[p]
               PROVE  \E s \in Stores : s = keeper[p] /\ \E r \in rows[s] :
                         r.path = p /\ r.text = source[p] /\ r.model = manifest.model
    BY DEF SkipIsSafe
  <2>1. p \in Paths /\ source[p] \in Versions /\ source[p] # NoHash
    BY SourceTypes DEF RebuildInv, StoresInv
  <2>2. keeper[p] \in Stores /\ RowFor(rows[keeper[p]], p, source[p], manifest.model)
    BY <2>1 DEF RebuildInv, StoresInv, ManifestsBacked, Backed
  <2>3. PICK r \in rows[keeper[p]] :
            r.path = p /\ r.hash = source[p] /\ r.model = manifest.model
    BY <2>2 DEF RowFor
  <2>4. ~Outdated(p, source[p])
    BY <2>1 DEF RebuildInv, StoresInv, RacedIsLatest, Outdated, Versions
  <2>5. r.text = r.hash
    BY <2>1, <2>2, <2>3, <2>4 DEF RebuildInv, StoresInv, RowsHonest
  <2> QED
    BY <2>2, <2>3, <2>5
<1> QED
  BY <1>1, RebuildInvariant, PTL

\* re-embed.ts:138, "avoids leftover docs": a full rebuild that ends leaves the
\* rows of the files it hashed, one for each, all of its model.
THEOREM RebuildFullExact == OrderlySpec => FullRebuildExact
<1>1. RebuildInv /\ [OrderlyNext]_vars =>
        [Finish /\ full =>
          /\ {[path |-> r.path, hash |-> r.hash] : r \in rows[dest]}
                = {[path |-> p, hash |-> hashes[p]] : p \in {q \in Paths : hashes[q] # NoHash}}
          /\ \A r \in rows[dest] : r.model = model]_vars
  <2> SUFFICES ASSUME RebuildInv, Finish, full
               PROVE  /\ {[path |-> r.path, hash |-> r.hash] : r \in rows[dest]}
                            = {[path |-> p, hash |-> hashes[p]] : p \in {q \in Paths : hashes[q] # NoHash}}
                      /\ \A r \in rows[dest] : r.model = model
    OBVIOUS
  <2>1. rows[dest] = {RowOf(p) : p \in Hashed}
    BY DEF RebuildInv, ScriptInv, FullRows, Finish
  <2>2. \A p : RowOf(p).path = p /\ RowOf(p).hash = hashes[p] /\ RowOf(p).model = model
    BY DEF RowOf
  <2> QED
    BY <2>1, <2>2 DEF Hashed
<1> QED
  BY <1>1, RebuildInvariant, PTL DEF OrderlySpec, FullRebuildExact

\* A run that ends has recorded what it saw, deletions included.
THEOREM RebuildSettles == OrderlySpec => RunSettles
<1>1. RebuildInv /\ [OrderlyNext]_vars => [Finish /\ manifest # Nil => Known = hashes]_vars
  BY SettledAtEnd DEF Finish, Known
<1> QED
  BY <1>1, RebuildInvariant, PTL DEF OrderlySpec, RunSettles
=============================================================================
