# GKS v3: a TLA+ verification project

GKS is the storage engine of an agent's memory (TypeScript, Node). This project
models the parts of it that keep state, checks them with TLC on small instances
and proves the most important results with TLAPS for every instance.

One Node process runs one thread: code interleaves only where it awaits. Every
model therefore has one action per stretch of code between two awaits, or per
statement where a database does the work. Several processes (command line, MCP
server, scripts) work on the same files and tables, and each of them may die at
any await; nothing in the code takes a lock, except Postgres.

## 1. Inventory

| component | state | operations | what is hard | correct when |
|---|---|---|---|---|
| CircuitBreaker (`src/lib/circuit-breaker.ts`) | state, failure streak, cooldown | exec, reset | calls settle long after they were admitted | closed iff the streak is short; a broken upstream costs a bounded number of calls; it closes again |
| Retry, embedders, CostTracker (`src/lib/retry.ts`, `src/memory/vector/embedder.ts`, `src/lib/cost-tracker.ts`) | attempt, shared usage box, totals | embed, embedBatch | concurrent embeds share the box | every embed settles; each report is billed once |
| VectorStore (`src/memory/vector/index.ts`, `src/lib/jsonl.ts`) | documents, JSONL file, temporary file | load, add, addBatch, patchMetadataMany, rewriteAll, clear, search | rewrites over appends, crashes | what was acknowledged is in the file and in memory |
| Manifest and re-embed (`src/memory/vector/manifest.ts`, `scripts/msp/re-embed.ts`) | one `_manifest.json` per directory | load, bump, setFileHash, clear, a run of the script | copies of a shared file, a change of model, stores that share the hashes, death in the middle | a file is skipped only if it is embedded |
| HnswBackend (`src/memory/vector/hnsw.ts`) | documents, labels, native index; index, metadata and manifest files | add, addBatch, patchMetadataMany, setFileHash, clear, search, load | three files, each emptied before it is written; batches that await between documents | labels name one document each; what an add reported is listed and found |
| PgvectorBackend (`src/memory/vector/pgvector.ts`) | document table, manifest row, its cached copy | load, addWithVector, addBatch, patchMetadataMany, clear | READ COMMITTED, a count kept by statements of its own | a patch is seen whole; the count covers the rows |
| retain, recall, reflect (`src/memory/api.ts`) | documents' valid_to and superseded_by | retain, recall, reflect | search, insert and invalidation are three calls | the last retain wins over what its search can see; history is kept; tenants stay apart |
| MemoryStore, Reranker (`src/memory/index.ts`, `rerank.ts`) | embedder and stores opened once, attempts in flight | retrieve, search, getVectorStore | concurrent first calls, failed attempts; merge of four sources | one backend per name, nobody hangs; tenants filtered; no key lost or shown twice |
| Obsidian adapters (`src/memory/obsidian-mcp.ts`, `obsidian-mcp-stdio.ts`) | cache with lifetime and cap, one connection | search, read, ping, connect | attempts that outlive their timer, loads that overlap | answers are recent, connections are used |
| GraphStore (`src/memory/graph.ts`) | nodes, edges, two indexes, event log | addNode, addEdge (supersede), retractEdge, query, neighbors | half-done supersedes, appends out of order | one value at a time for single-valued relations; memory and file agree |
| PgGraphBackend (`src/memory/graph/pg.ts`, `pg.sql`, `src/lib/sql.ts`) | node and edge tables | the same | READ COMMITTED, row locks, a COMMIT without an answer | an edge is added whole or not at all; history is final; it reaches what GraphStore reaches |
| Session, EpisodicLayer, Consolidator (`src/memory/session.ts`, `episodic.ts`, `consolidator.ts`) | session.json, trace, episodic file | startSession, appendTrace, endSession | endSession has a dozen awaits and is retried | an episode is written once and never replaced; a named one is there |
| InboundQueue (`src/memory/inbound.ts`) | proposal files, `gks/` files | propose, list, promote | races of promotions, a file emptied before it is written, death at any await | a proposal is lost in one way only; approved texts stay |
| Scaffold (`src/scaffold/new-feature.ts`) | proposals and task files of a feature | scaffoldNewFeature | failure in the middle, retry, reviewers meanwhile | no artifact is filed before its parents |
| IssueStore, HotfixStore (`src/issue/store.ts`, `src/hotfix/store.ts`) | a Markdown file per record | create, comment, setStatus, assign, close, open | read-modify-write, a file emptied before it is written | what a call was told is done is in the file |
| AtomicLayer and re-indexer (`src/memory/gks.ts`, `scripts/msp/re-indexer.ts`) | index file; rows, bodies, modification time | loadIndex, lookup, a run of the script | reload by modification time, overlapping lookups | a change is noticed; a body fits its row |
| without state of their own: AuditLog, verify flow, link validation, chunker, nomic embedder, telemetry, CLI and MCP dispatch | | | | |

`PROJECT.json` lists every component with its status, and under `hazards` the
lines where the difficulties bite.

## 2. Modules

| module | models | checked by | proved in |
|---|---|---|---|
| `CircuitBreaker` | `exec` split into admission (`ExecPass`, `ExecTrial`) and settlement (`Succeed`, `Fail`, `FailUncounted`), `Reset`, time | through `EmbedClient` | `ServiceProofs` |
| `EmbedClient` | an embedder: retry loop around requests, inside the breaker, and the usage box that `wrapEmbedderWithCostTracker` reads. EXTENDS `CircuitBreaker` | `MCEmbedClient.cfg` | `ServiceProofs` |
| `DocStore` | what `VectorBackend` promises: insert, amend several at once, erase | abstract specification | `VectorStoreProofs` |
| `VectorStore` | the JSONL backend, one action per await, with appends that fail and write streams that follow their file through a rename; implements `DocStore` | `MCVectorStore.cfg`, `MCVectorRace.cfg` | `VectorStoreProofs` |
| `ReEmbed` | store instances with copies of the shared manifest, a server restarted with other models, runs of the re-embed script for any store, the source files | `MCReEmbed.cfg` | `ReEmbedProofs` |
| `HnswStore` | the HNSW backend: labels, capacity, the three files with their emptied and torn states, a restart with the same or another model | `MCHnsw.cfg` | `HnswProofs` |
| `PgGraph` | the graph tables: addNode, addEdge statement by statement, retract, locks, deadlock, lost connections, and the traversal of both graph backends | through `PgStore` | `ServiceProofs` |
| `PgVector` | the document table, the manifest row and its cached copies; add, batch, copy, patch transaction, clear | through `PgStore` | `ServiceProofs` |
| `PgStore` | both backends of one database | `MCPostgres.cfg`, `MCPgSupersede.cfg` | `ServiceProofs` |
| `Retain` | retain and recall over a vector store whose own operations are atomic (that is `VectorStore`'s result) | `MCRetain.cfg` | `RecordProofs` |
| `MemoryStore` | embedder and stores opened on first use, the tasks of retrieve and search, merge, rerank, audit line | through `Recall` | `RecallProofs` |
| `ObsidianClient` | the cache of `withCache` before the REST or the stdio adapter, connection attempts and timers | through `Recall` | `RecallProofs` |
| `Recall` | both of them | `MCRecall.cfg` | `RecallProofs` |
| `GraphStore` | memory, indexes, event log, load and crash | `MCGraphSerial.cfg` | `GraphStoreProofs` |
| `InboundQueue` | the queue's files, promote in its five awaited steps (read, look, empty, write, remove), deletion by hand | through `Workflow` | `SessionLifeProofs` |
| `SessionLife` | startSession, appendTrace, endSession with reflect; EXTENDS `InboundQueue` | through `Workflow` | `SessionLifeProofs` |
| `Scaffold` | scaffoldNewFeature; EXTENDS `InboundQueue` | through `Workflow` | `SessionLifeProofs` |
| `Workflow` | the producers of the queue: sessions; scaffolds and direct proposals, each beside reviewers | `MCSessionLife.cfg` | `SessionLifeProofs` |
| `IssueStore` | the calls of both stores as read, emptied file, filled file | through `Knowledge` | `RecordProofs` |
| `AtomicLayer` | the re-indexer and the layer's lookups over those files; EXTENDS `IssueStore` | through `Knowledge` | `RecordProofs` |
| `Knowledge` | the files' writers, and their readers beside some writers | `MCKnowledge.cfg` | `RecordProofs` |

How state and code correspond is said in each module's header and, definition by
definition, in `PROJECT.json` under `map`. In short:

* `pc` (`phase`, `ppc`, `epc`, `gpc`, `ipc`, `opc`, ...) names the await or the
  statement at which a call of an operation is suspended; the per-process
  variables beside it are the locals it carries over.
* Memory and files are separate variables. `Crash` (or `Dies`, `Abort`,
  `Abandon`, `Lose`) resets memory and leaves the files.
* Texts, vectors, names and reasons are model values. What tells two documents
  apart is their topic, their text and the namespace they carry; of a Markdown
  file in `IssueStore` there are its status, the calls it holds and a revision.
* Variables marked *history* are read by no action that models code, only by
  properties and by the disciplines below.
* Modules that compose two parts which give each other nothing (`PgStore`,
  `Recall`, `Workflow`) choose at the start which part moves. Steps of the two
  commute, so every behaviour of the composition shows each part exactly a
  behaviour that is worked here; the product of the two is saved. In `Workflow`
  what one producer does to another goes through the queue, where
  `ProposeDirectly` stands for it; a session only ever adds to the queue. In
  `Knowledge` the writers never look at the readers, so all their overlaps are
  worked on their own, and a few calls in turn (`Beside`) beside the readers.

Each definition named as a mutant is a wrong version of the one that follows it.
It is used nowhere; put in the other's place, it must break the property that
`PROJECT.json` pairs it with. Every module states its type invariant. Section 5
proves all of them, so the runs leave them out in favour of other properties.

### Disciplines

The code takes no locks, so some properties hold only if callers keep certain
operations apart. Where that is so the module has a second specification whose
`Next` adds one guard to the *start* of an operation and to no other step, or a
flag, chosen at the start, that turns such a guard on and that the property has
as its hypothesis.

| discipline | what it asks |
|---|---|
| `GraphStore!SerialSpec` | operations on one subject and relation, and the first load, do not overlap; all others do |
| `VectorStore!ExclusiveSpec` | loads, patches and clears run alone; adds overlap each other |
| `HnswStore!AddsOverlapSpec` | adds overlap each other; a patch, a clear and a recorded file hash run alone |
| `SessionLife!OrderlyNext`, in `Workflow` | one endSession at a time for a session; a forced promotion or a deletion by hand has its id to itself; ordinary promotions race |
| `ReEmbed!OrderlySpec` | no server while the script runs; a rebuild that died after emptying the store is repeated in full; a file edited during a run is not put back to its earlier content |
| `IssueStore!in_turn` | calls on issues and hotfixes do not overlap |
| `AtomicLayer!apart` | no index is written while one is loaded (two steps of a load wait as well) |

The Postgres modules and `Recall` ask for none: row locks, transactions and the
shared attempts in flight do there what callers must do elsewhere. What goes wrong
all the same is named by a history variable and excepted by the property that it
breaks, never by a guard: section 3 says of each what it stands for.

## 3. Runs

| run | question | bounds | result |
|---|---|---|---|
| `embed_client` | do retries, breaker and billing work together? | 2 calls, threshold 2, cooldown 2, 2 attempts: a call can be late on either side of a trip, a trial and a retry | holds, with liveness |
| `graph_serial` | is history consistent across callers and a crash? | 2 callers, 3 edges, 1 single- and 1 multi-valued relation, 2 instants that callers choose freely, 1 crash: a chain of two supersedes, one of them half done, one dated back | holds |
| `vector_store` | is acknowledged data safe? | 2 callers, 3 documents, 1 crash, appends that fail: a batch of two cut short, a patch over several documents, a failed document that a rewrite saves | holds |
| `vector_rewrite_race` | and without the discipline? | the same | an append is renamed away |
| `hnsw` | do index, labels and metadata file agree after crashes? | 2 callers, 2 documents, 2 models, an index that starts with room for 1, 2 restarts: a doubling, a batch interrupted by another add, a label that outlives a restart, a change of model in between | holds |
| `postgres` | what do transactions give? | 2 clients, 3 edges of 2 facts that chain, a supersede, 2 hops; 2 backends of one store or two, a batch of 2, 2 patches of the same rows in opposite orders; 1 lost connection: a deadlock, a wait for a row that changes, a COMMIT without an answer | holds |
| `pg_supersede` | does the table accept a supersede? | the same | its foreign key refuses |
| `retain` | do racing and dying retains keep history and tenants apart? | 2 callers, 4 documents, 2 tenants and none, TopK = 2: a search with room for fewer than match | holds |
| `recall` | do the reads open each thing once and rank right? are the vault's answers recent? | a retrieve from four sources beside a search, 8 hits of 4 keys in 2 tenants and none, two of them chunks of one file, a retrieve that names no topK (2 hits a source, room for 3), a reranker that scores 2; 2 clients of a cache of one entry and lifetime 2, 2 connections, a clock of 3: two first calls at once, a failed attempt, an eviction, an attempt that opens too late | holds |
| `knowledge` | does a record keep what was done to it, and does the layer notice? | 6 calls on 2 issues and a hotfix, 1 crash; 2 lookups, 2 rebuilds, 2 calls beside them: a second issue of one title, a half-written index, two writes in one tick, a body read before a reload and kept after it | holds |
| `session_life` | what survives a session's end and the review? | 1 session, 2 enders, writes that fail and looks that cannot read the directory at any await; 2 promoters, 2 ids, 2 review ids, 2 bodies; or a scaffold of 2 artifacts and a task that fails and is repeated: two proposals of one id, a retry after death at any await, a racer that empties a finished file | holds |
| `re_embed` | does an incremental run skip only what is embedded? | 2 stores, 2 files of 2 versions, 2 models, 2 runs of the script for either store, 1 crash: a partly appended batch, a partly recorded one, an adopted manifest, a file embedded in one store and skipped for the other, a manifest that cannot be read | holds |

The bounds are the smallest at which each interesting case happens: a mutant for
every property shows that the run reaches a state in which it matters. Symmetry
is used only over sets of interchangeable model values, and not in
`embed_client`, which checks liveness. `CHECK_DEADLOCK FALSE` stands in the runs
whose documents, times, labels, versions, calls or crashes are used up, where a
real system goes on.

### What the passing runs show

* **Breaker.** A broken upstream costs at most `Threshold - 1` failures and what
  was in flight (`WasteBounded`), whatever late successes do; no usage report is
  billed twice (`NoDoubleBilling`); every embed settles and the circuit closes
  again (`EveryEmbedSettles`, `Recovers`).
* **Graph.** Single-valued relations have one valid value, through crashes
  (`SingleValued`). A question about any instant has one answer (`AsOfUnique`),
  whatever instants callers name in `valid_from` and `at`, except between an edge
  that was dated back and one that ended after that date: `addEdge` retires what
  is valid now, not what was valid then (`behind` has those pairs). Memory and
  file agree (`MemoryMatchesFile`); retired edges are final.
* **Vector store.** Nothing acknowledged is lost at any crash point, and the file
  is at every moment what the abstract store could hold (`ImplementsDocStore`).
  Memory is ahead of the file by exactly the documents whose append failed
  (`MemoryMatchesFile`): they are found, reported as failed, saved by the next
  rewrite and lost with the process.
* **HNSW store.** A document whose add returned keeps its row in the metadata file
  and is found by search under its own vector (`AckedListed`, `AckedSearchable`),
  through restarts at any await and changes of the model. Excepted (`damaged`) is
  what `load` does not notice: a metadata file that a crash cut in a rewrite, and a
  manifest that a restart finds emptied, or mixed up by two adds that wrote it at
  the same time.
* **Postgres.** An addEdge that was reported is there with its nodes, one that
  was refused left nothing and retired nothing (`AllOrNothing`): the half-done
  supersede of the JSONL store cannot happen. Retired edges are final with no
  discipline (`PgRetiredIsFinal`). Both graph backends reach the same nodes at
  the same least depth (`SameReach`; the graph of the run is a chain, so that a
  node is reached by paths of one length only, and the theorem covers all other
  graphs). A patch of several documents, which is how a supersession is written,
  is seen whole (`PatchAllOrNone`). The count in the manifest table, with what
  calls under way are still to add, is never below the rows there are
  (`CountCovers`), but for a client that died before its bump and a bump that
  fell between the DELETE and the zero of a clear (`crossed`). `size()` answers
  from the backend's own cached copy, which may be older.
* **Retain.** Supersession chains end in a valid document whatever races
  (`SuccessorLater`), never cross tenants (`SupersededByItsOwn`), and a retain
  that ran alone has the last word over what its search can return: documents that
  contradict it stay valid only in so far as TopK others, valid or not, crowded
  them out, and none does when at most TopK match (`LastRetainWins`).
* **Recall.** One backend is made of a name (`OneBackend`), and after any failure
  nobody waits for an attempt that is over (`NobodyWaitsInVain`). What retrieve
  returns is its tenant's (`TenantKept`) and the best of each key, as many keys as
  there is room for (`AnswerRanksAll`), with a reranker, without one and with one
  that fails. The vault's answers are never older than a cache entry may live and
  a request may take (`AnswerIsRecent`), and a server that was connected in time
  is used (`OpenIsUsed`).
* **Records and index.** While calls take turns, what a call on an issue was told
  is done stays in the file, unless a crash cut a write (`InTurnNothingIsLost`).
  As long as no index is written while one is loaded, a layer that sees no reason
  to reload has the index (`LayerKnowsWhenStale`). However lookups and rebuilds
  overlap, no body is older than its row (`BodyNotOlderThanRow`), but for one that
  was read before a load of the index and kept after it (`overtaken`, `late`,
  `misled`).
* **Session, queue, scaffold.** An episode is final, also across retries and
  reopened sessions (`EpisodeIsFinal`), as long as the look before the write can
  read the directory (`exists` answers no to every error, see
  `CheckEpisodeMisled`). The episode that a session.json names is there and whole
  (`NamedEpisodeIsWhole`); `consolidated` promises no such thing, see below. Nothing
  but a forced promotion replaces an approved text (`ApprovedIsFinal`), and what a
  promotion takes from the queue is kept, with one way to lose it: a racer that
  looked before the first one wrote empties the finished file and dies (`torn`,
  `NoProposalLost`). Whatever of a scaffold fails and is repeated, no artifact is
  filed before its parents (`ParentsFirst`).
* **Re-embed.** A file that the next run would skip is embedded as it is, by the
  model the manifest names, in the store whose run embedded it last (`SkipIsSafe`,
  `keeper`); outside the window between emptying a store and writing the manifest
  (`emptied`). Three more ways to skip a changed file are in the code and outside
  the property, see below: a run for another store, a server that writes while the
  script runs, and a file put back to earlier content during a run. A full rebuild
  leaves what it embedded and nothing else (`FullRebuildExact`), and a finished run
  has recorded everything it saw (`RunSettles`).

### Where code and documentation disagree

Two runs expect a violation, `vector_rewrite_race` and `pg_supersede`;
`PROJECT.json` quotes the lines under `findings`. Disagreements met while
modelling that have no run of their own (paths under `src/memory/` unless they
name another directory):

* Breaker: `lib/circuit-breaker.ts:7` speaks of a single trial call in HALF_OPEN;
  `exec` (69) admits every call. The model follows the code, and `WasteBounded`
  counts them.
* Vector stores: `vector/index.ts:197` says `addBatch` appends atomically; it
  awaits one append per document (232-236), and a document that could not be
  appended stays in memory (189, 233). An empty store replaces the model of the
  manifest that filled stores rely on (393), so a store can come to hold vectors
  of two models. `hnsw.ts:252` makes room for a batch once, before its awaits,
  and an add in between makes a later document of it refused; two adds may mix
  up the manifest (454, 465), whereupon the next `load` starts with an empty
  index. In `pgvector.ts` `addBatch` leaves existing rows alone where
  `addWithVector` replaces them, also those of another store (161), `clear`
  keeps the manifest's file hashes in the table (365), `load` checks no model,
  and a bump between the two statements of `clear` (357-369) leaves a row that
  the count does not know of.
* Re-embed: `re-embed.ts:18-19` says chunks of deleted files are removed;
  `existingDocs` (145-151) is computed and never used. In `ReEmbed` incremental
  runs only add. The script takes `--store` (293), but all stores share the hashes of
  one manifest (94): after a run for one store a changed file is skipped by a run for
  another, which keeps the old text. A process that dies in a write of the manifest,
  or two that write it at once, may leave one that no parse accepts; then every
  `load` throws (`vector/manifest.ts:22`) until somebody repairs it.
* Graph: `graph.ts:65` and 187-192 describe the edges that `supersede` retires
  differently; the model follows the code (same subject and relation). A back-dated
  `valid_from` (182) makes two edges answer for one past instant, as `addEdge` retires
  only what is valid now. In
  `graph/pg.ts` a node reached by several paths has several rows, and LIMIT counts
  them.
* Retain and recall: `api.ts:158` says the supersede policy will "mark all matches
  as invalidated"; `resolveConflicts` (187) asks for the five best hits, invalidated
  ones among them, so matches beyond those stay valid. `recall`
  returns superseded documents (`index.ts:467` filters by namespace only), which
  ADR 002 excludes. `MemoryStore.search` has no namespace filter at all.
* Obsidian: `obsidian-mcp.ts:328` speaks of least recently used; an expired or
  doubly loaded key keeps its old place in the map. Failures are cached as empty
  answers for the whole lifetime. A server that connects after the init timer is
  left open, and a client whose server has died is never reset.
* Records: `issue/store.ts:10-11` says "a tiny transaction" and "atomic write"; the
  write empties the file first and overlapping calls lose updates. The same holds
  of "Atomic write" in `re-indexer.ts` (238).
* Atomic layer: `gks.ts:103-104` says "we read the canonical file"; a cached body
  is served until the next reload. A body that is read (192) before a reload clears
  the cache (94) is kept after it (193), so an old body is served under the newer row
  until the next one. The modification time is read after the rows
  (95), so a load during a rebuild may keep half an index until the next one.
* Sessions: two ends of one session overwrite each other's episode
  (`episodic.ts:72`). `endSession` with `persist: false` writes no episode
  (`api.ts:283`) and still records `consolidated: true` (`session.ts:215`). A
  death in `writeFile` (`episodic.ts:79`) leaves an empty episode; the retry
  takes it for a written one and records the session as consolidated, without
  naming it. `consolidator.ts:81` says "session ended OR ...";
  `shouldConsolidate` (89) requires both the number of messages and the
  duration.
* Queue: `promote` "refuses unless force" (`inbound.ts:135`) by a look and a write that
  are two awaits (156, 184): a second promoter may empty and rewrite the finished file,
  and one that dies in between costs the text, as the first one removes the proposal.
* Scaffold: `scaffold/new-feature.ts:164` says "fail fast"; a bad task slug throws
  after all artifacts were proposed.

## 4. Fairness

Only `EmbedClient` has liveness properties. Its specification assumes weak
fairness of the steps that the runtime takes by itself: a request settles (every
fetch has a timeout), a timer fires (backoff, cooldown), the code after an await
runs. `Recovers` needs, besides, that somebody goes on calling and that a healthy
upstream answers; the breaker has no timer of its own, and nothing in the code
supplies those calls, so they are stated as fairness of `Embed` next to
`ClientSpec`. All other specifications are safety only: a process may stop for
ever at any await. What could hang there is stated as safety:
`NobodyWaitsInVain` says that whoever waits has somebody at work for it.

## 5. Proofs

The theorems hold for every value of the constants allowed by the named
assumptions of the modules.

Every safety property that a passing run checks is also a theorem, about the
specification that the run checks; so are the two refinements and the type
invariants. What is left to TLC alone is at the end of this section.

* **`ServiceProofs`**, part 1 (`CircuitBreaker`, `EmbedClient`): of the breaker,
  type correctness, `ClosedIffBudgetLeft` and `WasteBounded`. The bound is not
  inductive alone: it is strengthened by how the waste so far relates to the
  streak while the circuit is closed, and by the fact that an open circuit admits
  nothing. A step of the client is one of the breaker or leaves it alone, so both
  hold of an embedder with its retries; `InFlightAgrees` and `NoDoubleBilling`
  follow from an invariant that ties the phase of each call to the breaker's set
  of running calls and to the reports not yet billed.
  Part 2 (`PgGraph`): types, `RowLocks`, `AllOrNothing` and `PgRetiredIsFinal`,
  with no discipline. The invariant (`PgIInv`): an idle client has written nothing
  (`IdleClean`); a row is written by one open transaction, and the committed row
  it writes is still valid (`RowLocks`); what a transaction retires it retires in
  favour of its own edge (`WritesOwn`); one that is about to commit has its edge
  among its rows (`CommitsItsEdge`). So a commit changes no retired row and a
  rollback leaves no trace. `SameReach` needs one more invariant, `EndsInv`: the
  ends of every edge are in the table, because a transaction goes on only past an
  end it has found and nodes stay. The rest of it is about the two recursive
  functions. The library states induction with an operator as its parameter, which
  the provers cannot instantiate; here it is carried out on sets of numbers
  instead: a set of numbers that is not empty has a least member (`LeastNumber`),
  so a set that holds 0 and, with every k, k + 1, holds everything (`UpTo`), and
  what is given step by step exists (`StepByStep`), which unfolds the recursion of
  both traversals. `ReachIsLeast` then compares level by level the nodes first
  seen at a depth with the ends of the paths of that length.
  Part 3 (`PgVector`): types, `CountCovers` and `PatchAllOrNone`. For the count,
  every document that a call has written and not yet counted is a token, and
  `RowsCounted` says that count and tokens cover the rows of every store that no bump
  crossed: between the DELETE and the zero of a clear the tokens alone cover what has
  come in since (`Sure`, `Covered`). For the patches,
  `PatchesInOrder` says that a transaction has locked, or is still to visit, every
  row that it owes, `NotYetSeen` that nothing of it shows before its commit, and
  `SeenWhole` that afterwards all of it does.
* **`GraphStoreProofs`**: part 1, types and `IndexExact` under `Spec`, that is for
  any interleaving, load and crash. Part 2, `SingleValued`, `MemoryMatchesFile`,
  `EndpointsDurable` and `RetiredIsFinal` under `SerialSpec`. The invariant says
  what each suspended operation owns: the victims it has still to retire are the
  only valid edges of its key, and what it is about to append is what memory holds.
  Part 3, `AsOfUnique` and `SuccessorExists`: of two values of a single-valued
  relation one is over when the other starts, or the other was dated behind it, in
  memory and in the file
  (`InSlots`), an operation's new edge starts when everything of its key has ended
  (`StartsLater`), and a successor that is not there yet is what an operation
  under way will add (`Successors`).
* **`VectorStoreProofs`**, under `ExclusiveSpec`: types, `AckedDurable`,
  `MemoryMatchesFile`, `RewriteKeepsRows`, and `ImplementsDocStore`, step by
  step. The invariant `DurableInv` says at each await how far the file lags
  behind memory (`FileLags`: by the documents whose append failed, the patch of
  the rewrite in progress, everything while a clear is, else by the documents
  being appended), that what is renamed is what memory holds (`TmpIsMemory`),
  that batches are disjoint, and that a clear has taken back every promise
  before it touches the file (`NothingOwed`).
* **`ReEmbedProofs`**, under `OrderlySpec`: types, `SkipIsSafe`,
  `FullRebuildExact`, `RunSettles`. The invariant says of every copy of the
  manifest, the file's and those in memory, that its hashes have rows of its
  model (`ManifestsBacked`), of the rows that their hash is that of their text
  or one which the file cannot have again (`RowsHonest`), of the store that
  embedded a file last that the hash of the file is backed there (`Home`,
  `Found`), and of the run how far it has come (`Progress`, `Recorded`) and that
  its own copies are fresh (`OwnFresh`), which is what a server beside the
  script would break.
* **`RecordProofs`**, of `Retain`: types, `SuccessorLater`,
  `SupersededByItsOwn`, `HistoryKept`, `LastRetainWins`. The last counts: the
  documents that a search returned are no longer valid, so those that still
  contradict the retain and those that filled its search are different documents
  of its scope. Of `Knowledge`: types, `InTurnNothingIsLost`,
  `LayerKnowsWhenStale`, `BodyNotOlderThanRow`. While calls take turns at most
  one is in progress, it holds what it read plus its own entry (`Underway`), and
  what was done is in the file or, once that is emptied, in what that call is
  about to write (`Kept`). For the layer, `Current` says at each step of a load
  how its rows and its time relate to the index, `RowsPast` that no row is ahead
  of its file, and `Bodies` that a kept body was read after the rows in force
  were, unless its reader was overtaken by a load.
* **`RecallProofs`**: `OneBackend` and `NobodyWaitsInVain`: a store that is being
  opened is opened by one call and not kept yet (`OneOpens`), what has been made of
  a name is what is kept of it (`KeptOnce`), and a store noted as opening has a
  call that opens it (`HasOpener`). `TenantKept` and `AnswerRanksAll`: what was
  found in a store passed the filter (`FoundAllowed`), and the answer is at each
  stage a list of the best hits of distinct keys (`Lists`) that falls from the
  place on where the reranker stopped (`Falls`) and leaves out nothing better
  (`LeavesOutWorse`). The sort is the set of all sequences that are in order, so
  there is no recursion to unfold: a bijection counts the keys. `OpenIsUsed`: an
  attempt under way is the one callers wait for or was given up, and while there
  is one to wait for no connection is in use (`DialInv`). `AnswerIsRecent`: a
  cached value was read at most a request's time before it was cached
  (`EntriesFresh`), and a reply not before its request was sent (`RepliesFresh`).
  Last, the types of both parts; those of the vault say that the keys of the
  cache, in the order of its map, are the keys of its entries, each once and never
  more than the cap (`CacheKeys`).
* **`HnswProofs`**: types under `Spec`; `LabelsDistinct`, `AckedListed` and
  `AckedSearchable` under `AddsOverlapSpec`, for any number of callers, documents,
  models and restarts. The labels' invariant (`LInv`) says that ids and labels are
  inverse to each other in memory and that the metadata file, or what is about to
  be written to it, never names another label for an id than memory does: so a
  restart, which rebuilds memory from the file, finds distinct labels again.
  `ListInv` adds which rows the file must have at each await, and `SearchInv`
  where the vector of an acknowledged document is: in memory, in the index file
  when that can be read (`IndexInv`), under the model that the manifest names or
  is about to name (`ManifestInv`). `load` is sound because, as long as no restart
  found a file emptied or mixed up, an index or a manifest is missing only before the
  first add has returned.
* **`SessionLifeProofs`**: types under `Spec`; under `OrderlySpec` the queue's
  `ApprovedIsFinal` and `NoProposalLost`, and the session's `NamedEpisodeIsWhole`
  and `EpisodeIsFinal`. The queue's invariant (`QueueInv`): a forced promotion is
  alone with its id (`ForcedAlone`); while nothing of an id is approved, all its
  promoters hold one file, and it is still in the queue (`OneCandidate`), so they
  write one text (`OneText`); a promoter past its look that was not forced finds
  nothing at its place, an empty file, or its own text (`OwnOrNothing`); what was
  approved is the text of those still at work on its id (`ApprovedText`), and it is in
  its place from the first write on (`WrittenIsKept`, `ApprovedIsKept`). The
  session's (`EpisodeInv`): one caller ends it (`OneEnder`), and what that caller is
  about to name in session.json is whole already (`EpisodeReady`). Under
  `WorkflowSpec`, `ParentsFirst`: a promoter's candidate stays filed until its
  destination is written (`CandidateFiled`), and a scaffold has filed everything
  that lies behind it (`FiledBehind`). `WorkflowIsOrderly` shows that a workflow
  with either producer is a behaviour of `OrderlySpec`, so the results about queue
  and session hold of `WorkflowSpec`, which the run checks
  (`WorkflowKeepsPromises`).

The assumptions the proofs use are named in the modules and evaluated by TLC on
every run. Most say of a number that it is one and of a mark (no file, no entry,
no document, ...) that it is none of the values it stands beside. The others: calls
of the breaker, ids of the HNSW store, backends of the vector table, hits and
namespaces are finitely many; a search asks one source and a retrieve any; a patch
is made for documents named beforehand; records and hotfixes have different names.

Only model-checked: the liveness properties `EveryEmbedSettles` and `Recovers`.
Liveness under fairness and ENABLED are beyond this prover. The two runs that
expect a violation show single behaviours, which need no proof.

## 6. Not modelled

* Components with status `not_modelled`: command line and MCP dispatch (argument
  parsing), verify flow and link validation (pure reports over the files), the
  chunker (a pure function of a text), the nomic embedder (an in-process model),
  telemetry, logging, guards, text and YAML helpers.
* Within `VectorStore`: failures of a rewrite, a clear or a manifest write other
  than the rename that finds no file; an append that fails leaves no part of its
  line. Within `HnswStore`: what a metadata patch changes, the value of
  `doc_count`, two processes with one store. Within `PgVector`: `setFileHash`
  and `search`, and two calls at once of one backend object. Within `PgGraph`
  and `GraphStore`: properties of nodes and edges; `addEdge` with the id of an
  existing edge in `GraphStore`; an append of `GraphStore` that fails after
  memory has changed (as in `VectorStore`, memory is then ahead of the file).
* Within `MemoryStore`: how scores come about (a source returns any best hits that
  it may return, a reranker any scores), the heap of `topK`, totals and prices of
  the cost tracker. Within `Consolidator`: the text heuristics and the LLM prompt.
* Within `SessionLife`: the write of session.json is one step (like every `writeJson` it
  empties the file first, and a reader of an emptied one throws).
* Everywhere: markdown rendering and parsing beyond what a property tells apart,
  dry runs of the script, torn lines left by a crash inside one `write`
  call of an append, the one-off migrations, and how often a row is stored after a
  repeated run.

## 7. Plan

Done: breaker and embed client; graph; vector store; HNSW store; re-embed; retain;
session, queue and scaffold; both Postgres backends; memory store and Obsidian
client; records, re-indexer and atomic layer; with the proofs of section 5. What
could come next:

1. two processes on one HNSW store, and several calls at once of one pgvector
   backend, which share its cached manifest: the proofs of both are for one;
2. the algorithms against reference definitions: topK's heap, verifyFlow,
   schema-version;
3. a proof that the HNSW store, too, implements `DocStore`, under
   `AddsOverlapSpec` and as long as no crash did damage.
