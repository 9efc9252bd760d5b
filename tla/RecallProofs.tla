---------------------------- MODULE RecallProofs ----------------------------
(***************************************************************************)
(* The stores a MemoryStore opens, the answers it makes of what its        *)
(* sources found, and the connection and the cache of its Obsidian client, *)
(* for any number of calls, clients and connections, every set of hits,    *)
(* every reranker and every value of the timeouts; and the types of both   *)
(* parts, the keys of the cache among them.                                *)
(***************************************************************************)
EXTENDS Recall, FiniteSetTheorems, SequenceTheorems, TLAPS

-----------------------------------------------------------------------------
(* The stores                                                              *)

\* The call that opens store s: it waits for the embedder, or for the backend.
Opens(c, s) == task[c][s] \in {"embedder", "load"}

StorePlaces == task \in [Calls -> [Sources -> Places]] /\ backends \in [Stores -> Nat]

\* A store that a call opens is noted, not yet kept, and no other call opens it.
OneOpens ==
    \A c \in Calls, s \in Stores : Opens(c, s) =>
        /\ s \in opening /\ s \notin stores
        /\ \A d \in Calls \ {c} : ~ Opens(d, s)

\* What has been made of a name is what is kept of it.
KeptOnce == \A s \in Stores : backends[s] = IF s \in stores THEN 1 ELSE 0

StoreInv == StorePlaces /\ OneOpens /\ KeptOnce

LEMMA StoreNames == Stores \subseteq Sources
BY DEF Sources

LEMMA BeginStores ==
    ASSUME StoreInv, NEW c \in Calls, Begin(c)
    PROVE  StoreInv'
<1> DEFINE asked == Asked[c].sources \intersect Stores
           first == [s \in Sources |->
                        CASE s \in asked -> GetVectorStore(s)
                          [] s \in Asked[c].sources \ Stores -> "search"
                          [] OTHER -> "none"]
<1>1. /\ task' = [task EXCEPT ![c] = first]
      /\ opening' = opening \union (asked \ stores)
      /\ UNCHANGED <<stores, backends>>
  BY DEF Begin
<1>2. \A s : GetVectorStore(s) \in Places
  BY DEF GetVectorStore, Places
<1>3. first \in [Sources -> Places]
  <2>1. ASSUME NEW s \in Sources PROVE first[s] \in Places
    BY <1>2 DEF Places
  <2> QED BY <2>1
<1>4. StorePlaces'
  BY <1>1, <1>3 DEF StoreInv, StorePlaces
<1>5. \A s \in Stores : first[s] \in {"embedder", "load"} =>
          s \in asked /\ s \notin stores \union opening
  BY StoreNames DEF GetVectorStore
<1>6. \A d \in Calls : task'[d] = IF d = c THEN first ELSE task[d]
  BY <1>1 DEF StoreInv, StorePlaces
<1>7. OneOpens'
  BY <1>1, <1>5, <1>6 DEF StoreInv, OneOpens, Opens
<1>8. KeptOnce'
  BY <1>1 DEF StoreInv, KeptOnce
<1> QED BY <1>4, <1>7, <1>8 DEF StoreInv

\* What the three steps that move other calls' tasks do to each task.
LEMMA ReadyMoves ==
    ASSUME StorePlaces, EmbedderReady
    PROVE  /\ task' \in [Calls -> [Sources -> Places]]
           /\ \A c \in Calls, s \in Stores :
                task'[c][s] = IF task[c][s] = "embedder" THEN "load" ELSE task[c][s]
<1> DEFINE S == UNION {Tasks(s, {"embedder"}) : s \in Stores}
<1>1. \A c \in Calls, s \in Stores : <<c, s>> \in S <=> task[c][s] = "embedder"
  <2>1. \A c \in Calls, s, r \in Stores :
            <<c, s>> \in Tasks(r, {"embedder"}) <=> s = r /\ task[c][r] = "embedder"
    BY DEF Tasks
  <2> QED BY <2>1
<1>2. Move(S, "load")
  BY DEF EmbedderReady
<1> HIDE DEF S
<1>3. "load" \in Places
  BY DEF Places
<1> QED BY <1>1, <1>2, <1>3, StoreNames DEF Move, StorePlaces

LEMMA FailsMoves ==
    ASSUME StorePlaces, EmbedderFails
    PROVE  /\ task' \in [Calls -> [Sources -> Places]]
           /\ \A c \in Calls, s \in Stores :
                task'[c][s] = IF /\ \E d \in Calls : task[d][s] = "embedder"
                                 /\ task[c][s] \in {"embedder", "wait"}
                              THEN "failed" ELSE task[c][s]
<1> DEFINE of == {s \in Stores : \E c \in Calls : task[c][s] = "embedder"}
           S == UNION {Tasks(s, {"embedder", "wait"}) : s \in of}
<1>1. \A c \in Calls, s \in Stores :
          <<c, s>> \in S <=> s \in of /\ task[c][s] \in {"embedder", "wait"}
  <2>1. \A c \in Calls, s \in Stores, r \in of :
            <<c, s>> \in Tasks(r, {"embedder", "wait"})
                <=> s = r /\ task[c][r] \in {"embedder", "wait"}
    BY DEF Tasks
  <2> QED BY <2>1
<1>2. Move(S, "failed")
  BY DEF EmbedderFails
<1> HIDE DEF S
<1>3. "failed" \in Places
  BY DEF Places
<1> QED BY <1>1, <1>2, <1>3, StoreNames DEF Move, StorePlaces

LEMMA BackendMoves ==
    ASSUME StorePlaces, NEW c \in Calls, NEW s \in Sources,
           StoreOpens(c, s) \/ StoreFails(c, s)
    PROVE  /\ task' \in [Calls -> [Sources -> Places]]
           /\ \A d \in Calls, r \in Stores :
                IF r = s /\ (d = c \/ task[d][r] = "wait")
                THEN task'[d][r] \in {"search", "failed"} ELSE task'[d][r] = task[d][r]
<1> DEFINE S == {<<c, s>>} \union Tasks(s, {"wait"})
<1>1. \A d \in Calls, r \in Stores :
          <<d, r>> \in S <=> r = s /\ (d = c \/ task[d][r] = "wait")
  BY DEF Tasks
<1>2. PICK to \in {"search", "failed"} : Move(S, to)
  BY DEF StoreOpens, StoreFails
<1> HIDE DEF S
<1>3. to \in Places
  BY DEF Places
<1>4. \A d \in Calls, r \in Sources :
          task'[d][r] = IF <<d, r>> \in S THEN to ELSE task[d][r]
  BY <1>2 DEF Move, StorePlaces
<1>5. task' \in [Calls -> [Sources -> Places]]
  BY <1>2, <1>3 DEF Move, StorePlaces
<1> QED BY <1>1, <1>4, <1>5, StoreNames

LEMMA EmbedderStores ==
    ASSUME StoreInv, EmbedderReady \/ EmbedderFails
    PROVE  StoreInv'
<1>1. CASE EmbedderReady
  <2>1. UNCHANGED <<stores, opening, backends>>
    BY <1>1 DEF EmbedderReady
  <2>2. StorePlaces' /\ \A c \in Calls, s \in Stores : Opens(c, s)' <=> Opens(c, s)
    BY <1>1, <2>1, ReadyMoves DEF StoreInv, StorePlaces, Opens
  <2> QED BY <2>1, <2>2 DEF StoreInv, OneOpens, KeptOnce
<1>2. CASE EmbedderFails
  <2> DEFINE of == {s \in Stores : \E c \in Calls : task[c][s] = "embedder"}
  <2>1. opening' = opening \ of /\ UNCHANGED <<stores, backends>>
    BY <1>2 DEF EmbedderFails
  <2>2. StorePlaces'
    BY <1>2, <2>1, FailsMoves DEF StoreInv, StorePlaces
  <2>3. \A c \in Calls, s \in Stores : Opens(c, s)' => Opens(c, s) /\ s \notin of
    <3>1. SUFFICES ASSUME NEW c \in Calls, NEW s \in Stores, Opens(c, s)'
                   PROVE  Opens(c, s) /\ s \notin of
      OBVIOUS
    <3>2. Opens(c, s) /\ (s \in of => task[c][s] = "load")
      BY <1>2, <3>1, FailsMoves DEF StoreInv, Opens
    <3> QED BY <3>2 DEF StoreInv, OneOpens, Opens
  <2> QED BY <2>1, <2>2, <2>3 DEF StoreInv, OneOpens, KeptOnce
<1> QED BY <1>1, <1>2

LEMMA BackendStores ==
    ASSUME StoreInv, NEW c \in Calls, NEW s \in Sources,
           StoreOpens(c, s) \/ StoreFails(c, s)
    PROVE  StoreInv'
<1>1. /\ task[c][s] = "load" /\ opening' = opening \ {s}
      /\ \/ UNCHANGED <<stores, backends>>
         \/ /\ stores' = stores \union {s}
            /\ backends' = [backends EXCEPT ![s] = @ + 1]
  BY DEF StoreOpens, StoreFails
<1>2. StorePlaces'
  BY <1>1, BackendMoves DEF StoreInv, StorePlaces
<1>3. \A d \in Calls, r \in Stores : Opens(d, r)' => Opens(d, r) /\ r # s
  <2>1. \A d \in Calls, r \in Stores :
            Opens(d, r)' => Opens(d, r) /\ (d = c => r # s)
    BY BackendMoves DEF StoreInv, Opens
  <2> QED BY <1>1, <2>1 DEF StoreInv, OneOpens, Opens
<1>4. OneOpens'
  BY <1>1, <1>3 DEF StoreInv, OneOpens
<1>5. KeptOnce'
  <2>1. s \in Stores => s \notin stores
    BY <1>1 DEF StoreInv, OneOpens, Opens
  <2> QED BY <1>1, <2>1 DEF StoreInv, StorePlaces, KeptOnce
<1> QED BY <1>2, <1>4, <1>5 DEF StoreInv

LEMMA SourceStores ==
    ASSUME StoreInv, NEW c \in Calls, NEW s \in Sources, SourceAnswers(c, s)
    PROVE  StoreInv'
<1>1. PICK to \in {"done", "failed"} : task' = [task EXCEPT ![c][s] = to]
  BY DEF SourceAnswers
<1>2. UNCHANGED <<stores, opening, backends>>
  BY DEF SourceAnswers, poolVars
<1>3. StorePlaces'
  BY <1>1, <1>2 DEF StoreInv, StorePlaces, Places
<1>4. \A d \in Calls, r \in Stores : Opens(d, r)' => Opens(d, r)
  BY <1>1, StoreNames DEF StoreInv, StorePlaces, Opens
<1> QED BY <1>2, <1>3, <1>4 DEF StoreInv, OneOpens, KeptOnce

LEMMA SameStores ==
    ASSUME StoreInv, UNCHANGED <<stores, opening, backends, task>>
    PROVE  StoreInv'
BY DEF StoreInv, StorePlaces, OneOpens, KeptOnce, Opens

LEMMA InitStores == ASSUME RecallInit PROVE StoreInv
<1>1. /\ stores = {} /\ backends = [s \in Stores |-> 0]
      /\ task = [c \in Calls |-> [s \in Sources |-> "none"]]
  BY DEF RecallInit, MemoryInit
<1>2. \A c \in Calls, s \in Stores : task[c][s] = "none"
  BY <1>1, StoreNames
<1> QED BY <1>1, <1>2 DEF StoreInv, StorePlaces, OneOpens, KeptOnce, Opens, Places

LEMMA NextStores ==
    ASSUME StoreInv, [RecallNext]_<<memoryVars, obsidianVars, side>>
    PROVE  StoreInv'
<1>1. ASSUME NEW c \in Calls, Begin(c) PROVE StoreInv'
  BY <1>1, BeginStores
<1>2. ASSUME NEW c \in Calls,
             Reject(c) \/ Merge(c) \/ Rerank(c) \/ KeepOrder(c) \/ ReturnSearch(c)
      PROVE  StoreInv'
  <2>1. UNCHANGED <<stores, opening, backends, task>>
    BY <1>2 DEF Reject, Merge, Rerank, KeepOrder, ReturnSearch, poolVars
  <2> QED BY <2>1, SameStores
<1>3. ASSUME NEW c \in Calls, NEW s \in Sources,
             StoreOpens(c, s) \/ StoreFails(c, s) \/ SourceAnswers(c, s)
      PROVE  StoreInv'
  BY <1>3, BackendStores, SourceStores
<1>4. ASSUME NEW h \in Hits, AddDocument(h) PROVE StoreInv'
  BY <1>4, SameStores DEF AddDocument
<1>5. CASE Warm
  BY <1>5, SameStores DEF Warm
<1>6. CASE EmbedderReady \/ EmbedderFails
  BY <1>6, EmbedderStores
<1>7. CASE UNCHANGED memoryVars
  BY <1>7, SameStores DEF memoryVars, poolVars
<1> QED BY <1>1, <1>2, <1>3, <1>4, <1>5, <1>6, <1>7 DEF RecallNext, MemoryNext

\* However many calls need a store at once, and whatever of them fails, one
\* backend is made of a name (getVectorStore).
THEOREM StoreOpensOnce == RecallSpec => []OneBackend
<1>1. RecallInit => StoreInv
  BY InitStores
<1>2. StoreInv /\ [RecallNext]_<<memoryVars, obsidianVars, side>> => StoreInv'
  BY NextStores
<1>3. StoreInv => OneBackend
  BY DEF StoreInv, KeptOnce, OneBackend
<1> QED BY <1>1, <1>2, <1>3, PTL DEF RecallSpec

\* A store that is being opened has a call that opens it, a call that waits
\* waits for one of those, and a call that has not begun has no tasks.
HasOpener ==
    /\ \A c \in Calls : mpc[c] = "idle" => \A s \in Stores : task[c][s] = "none"
    /\ \A s \in Stores : s \in opening => \E c \in Calls : Opens(c, s)
    /\ \A c \in Calls, s \in Stores :
         /\ task[c][s] = "wait" => s \in opening
         /\ task[c][s] = "embedder" => embedder = "pending"

MemoryPlaces ==
    /\ mpc \in [Calls -> {"idle", "running", "merged", "answered", "rejected"}]
    /\ embedder \in {"none", "pending", "ready"}

WaitInv == StoreInv /\ HasOpener /\ MemoryPlaces

LEMMA SameWait ==
    ASSUME WaitInv, UNCHANGED <<stores, opening, task>>, MemoryPlaces',
           embedder' = embedder \/ embedder' = "pending",
           \A c \in Calls : mpc'[c] = "idle" => mpc[c] = "idle"
    PROVE  HasOpener'
BY DEF WaitInv, HasOpener, Opens

LEMMA BeginWait ==
    ASSUME WaitInv, NEW c \in Calls, Begin(c)
    PROVE  HasOpener' /\ MemoryPlaces'
<1> DEFINE asked == Asked[c].sources \intersect Stores
           first == [s \in Sources |->
                        CASE s \in asked -> GetVectorStore(s)
                          [] s \in Asked[c].sources \ Stores -> "search"
                          [] OTHER -> "none"]
<1>1. /\ mpc[c] = "idle" /\ mpc' = [mpc EXCEPT ![c] = "running"]
      /\ task' = [task EXCEPT ![c] = first]
      /\ opening' = opening \union (asked \ stores)
      /\ embedder' = IF embedder = "none" /\ \E s \in Sources : first[s] = "embedder"
                     THEN "pending" ELSE embedder
  BY DEF Begin
<1>2. \A s \in Stores :
        /\ s \in asked \ stores =>
             \/ first[s] = "wait" /\ s \in opening
             \/ first[s] = "load"
             \/ first[s] = "embedder" /\ embedder # "ready"
        /\ s \notin asked \ stores => first[s] \in {"search", "none"}
  BY StoreNames DEF GetVectorStore
<1>3. \A d \in Calls : task'[d] = IF d = c THEN first ELSE task[d]
  BY <1>1 DEF WaitInv, StoreInv, StorePlaces
<1>4. MemoryPlaces' /\ \A d \in Calls : mpc'[d] = "idle" => d # c /\ mpc[d] = "idle"
  BY <1>1 DEF WaitInv, MemoryPlaces
<1> HIDE DEF first
<1>5. \A s \in Stores : s \in opening' => \E d \in Calls : Opens(d, s)'
  <2> SUFFICES ASSUME NEW s \in Stores, s \in opening'
               PROVE  \E d \in Calls : Opens(d, s)'
    OBVIOUS
  <2>1. CASE s \in opening
    <3>1. PICK d \in Calls : Opens(d, s)
      BY <2>1 DEF WaitInv, HasOpener
    <3>2. d # c
      BY <1>1, <3>1 DEF WaitInv, HasOpener, Opens
    <3> QED BY <1>3, <3>1, <3>2 DEF Opens
  <2>2. CASE s \notin opening
    BY <1>1, <1>2, <1>3, <2>2 DEF Opens
  <2> QED BY <2>1, <2>2
<1>6. \A s \in Stores : first[s] = "embedder" => embedder' = "pending"
  BY <1>1, <1>2, StoreNames DEF WaitInv, MemoryPlaces
<1>7. \A d \in Calls, s \in Stores :
        /\ task'[d][s] = "wait" => s \in opening'
        /\ task'[d][s] = "embedder" => embedder' = "pending"
  BY <1>1, <1>2, <1>3, <1>6 DEF WaitInv, HasOpener
<1> QED BY <1>3, <1>4, <1>5, <1>7 DEF WaitInv, HasOpener

LEMMA EmbedderWait ==
    ASSUME WaitInv, EmbedderReady \/ EmbedderFails
    PROVE  HasOpener' /\ MemoryPlaces'
<1>1. CASE EmbedderReady
  <2>1. /\ embedder' = "ready" /\ UNCHANGED <<opening, mpc>>
    BY <1>1 DEF EmbedderReady
  <2>2. \A c \in Calls, s \in Stores :
            task'[c][s] = IF task[c][s] = "embedder" THEN "load" ELSE task[c][s]
    BY <1>1, ReadyMoves DEF WaitInv, StoreInv
  <2> QED BY <2>1, <2>2 DEF WaitInv, HasOpener, MemoryPlaces, Opens
<1>2. CASE EmbedderFails
  <2> DEFINE of == {s \in Stores : \E c \in Calls : task[c][s] = "embedder"}
  <2>1. /\ embedder' = "none" /\ opening' = opening \ of /\ UNCHANGED mpc
    BY <1>2 DEF EmbedderFails
  <2>2. \A c \in Calls, s \in Stores :
            task'[c][s] = IF s \in of /\ task[c][s] \in {"embedder", "wait"}
                          THEN "failed" ELSE task[c][s]
    BY <1>2, FailsMoves DEF WaitInv, StoreInv
  <2>3. \A s \in Stores : s \in opening' => \E c \in Calls : Opens(c, s)'
    BY <2>1, <2>2 DEF WaitInv, HasOpener, Opens
  <2> QED BY <2>1, <2>2, <2>3 DEF WaitInv, HasOpener, MemoryPlaces
<1> QED BY <1>1, <1>2

LEMMA BackendWait ==
    ASSUME WaitInv, NEW c \in Calls, NEW s \in Sources,
           StoreOpens(c, s) \/ StoreFails(c, s)
    PROVE  HasOpener' /\ MemoryPlaces'
<1>1. /\ task[c][s] = "load" /\ opening' = opening \ {s} /\ UNCHANGED <<embedder, mpc>>
  BY DEF StoreOpens, StoreFails
<1>2. \A d \in Calls, r \in Stores :
        \/ task'[d][r] = task[d][r] /\ (r = s => task[d][r] # "wait")
        \/ task'[d][r] \in {"search", "failed"} /\ r = s /\ task[d][r] \in {"load", "wait"}
  BY <1>1, BackendMoves DEF WaitInv, StoreInv
<1>3. \A d \in Calls, r \in Stores : Opens(d, r) /\ r # s => Opens(d, r)'
  BY <1>2 DEF Opens
<1>4. \A r \in Stores : r \in opening' => \E d \in Calls : Opens(d, r)'
  BY <1>1, <1>3 DEF WaitInv, HasOpener
<1> QED BY <1>1, <1>2, <1>4 DEF WaitInv, HasOpener, MemoryPlaces

LEMMA SourceWait ==
    ASSUME WaitInv, NEW c \in Calls, NEW s \in Sources, SourceAnswers(c, s)
    PROVE  HasOpener' /\ MemoryPlaces'
<1>1. /\ task[c][s] = "search" /\ UNCHANGED <<opening, embedder, mpc>>
      /\ \E to \in {"done", "failed"} : task' = [task EXCEPT ![c][s] = to]
  BY DEF SourceAnswers, poolVars
<1>2. \A d \in Calls, r \in Stores :
        \/ task'[d][r] = task[d][r]
        \/ task'[d][r] \in {"done", "failed"} /\ task[d][r] = "search"
  BY <1>1, StoreNames DEF WaitInv, StoreInv, StorePlaces
<1>3. \A d \in Calls, r \in Stores : Opens(d, r) => Opens(d, r)'
  BY <1>2 DEF Opens
<1>4. \A r \in Stores : r \in opening' => \E d \in Calls : Opens(d, r)'
  BY <1>1, <1>3 DEF WaitInv, HasOpener
<1> QED BY <1>1, <1>2, <1>4 DEF WaitInv, HasOpener, MemoryPlaces

\* Whatever fails, no call waits for a store or an embedder that nobody opens
\* (storesPending and embedderPending are cleared in finally).
THEOREM NoVainWait == RecallSpec => []NobodyWaitsInVain
<1>1. RecallInit => WaitInv
  <2> SUFFICES ASSUME RecallInit PROVE WaitInv
    OBVIOUS
  <2>1. /\ stores = {} /\ opening = {} /\ embedder = "none"
        /\ mpc = [c \in Calls |-> "idle"]
        /\ task = [c \in Calls |-> [s \in Sources |-> "none"]]
    BY DEF RecallInit, MemoryInit
  <2>2. \A c \in Calls, s \in Stores : task[c][s] = "none"
    BY <2>1, StoreNames
  <2> QED BY <2>1, <2>2, InitStores DEF WaitInv, HasOpener, MemoryPlaces
<1>2. ASSUME WaitInv, [RecallNext]_<<memoryVars, obsidianVars, side>>
      PROVE  WaitInv'
  <2>0. StoreInv'
    BY <1>2, NextStores DEF WaitInv
  <2>1. ASSUME NEW c \in Calls, Begin(c) PROVE WaitInv'
    BY <1>2, <2>0, <2>1, BeginWait DEF WaitInv
  <2>2. ASSUME NEW c \in Calls,
               Reject(c) \/ Merge(c) \/ Rerank(c) \/ KeepOrder(c) \/ ReturnSearch(c)
        PROVE  WaitInv'
    <3>1. UNCHANGED <<stores, opening, task, embedder>>
      BY <2>2 DEF Reject, Merge, Rerank, KeepOrder, ReturnSearch, poolVars
    <3>2. \E to \in {"rejected", "merged", "answered"} : mpc' = [mpc EXCEPT ![c] = to]
      BY <2>2 DEF Reject, Merge, Rerank, KeepOrder, ReturnSearch, Answered
    <3>3. MemoryPlaces' /\ \A d \in Calls : mpc'[d] = "idle" => mpc[d] = "idle"
      BY <1>2, <3>1, <3>2 DEF WaitInv, MemoryPlaces
    <3> QED BY <1>2, <2>0, <3>1, <3>3, SameWait DEF WaitInv
  <2>3. ASSUME NEW c \in Calls, NEW s \in Sources,
               StoreOpens(c, s) \/ StoreFails(c, s) \/ SourceAnswers(c, s)
        PROVE  WaitInv'
    BY <1>2, <2>0, <2>3, BackendWait, SourceWait DEF WaitInv
  <2>4. CASE EmbedderReady \/ EmbedderFails
    BY <1>2, <2>0, <2>4, EmbedderWait DEF WaitInv
  <2>5. CASE \/ \E h \in Hits : AddDocument(h)
             \/ Warm \/ UNCHANGED memoryVars
    <3>1. /\ UNCHANGED <<stores, opening, task, mpc>>
          /\ embedder' = embedder \/ embedder' = "pending"
      BY <2>5 DEF AddDocument, Warm, memoryVars, poolVars
    <3>2. MemoryPlaces' /\ \A d \in Calls : mpc'[d] = "idle" => mpc[d] = "idle"
      BY <1>2, <3>1 DEF WaitInv, MemoryPlaces
    <3> QED BY <1>2, <2>0, <3>1, <3>2, SameWait DEF WaitInv
  <2> QED BY <1>2, <2>1, <2>2, <2>3, <2>4, <2>5 DEF RecallNext, MemoryNext
<1>3. WaitInv => NobodyWaitsInVain
  BY DEF WaitInv, HasOpener, NobodyWaitsInVain, Opens
<1> QED BY <1>1, <1>2, <1>3, PTL DEF RecallSpec

-----------------------------------------------------------------------------
(* The answers                                                             *)

\* What a hit is made of, as the assumption on the hits has it.
LEMMA HitTypes ==
    ASSUME NEW h \in Hits
    PROVE  h.score \in Nat /\ Boosted(h) \in Nat
BY HitAssumption, NumberAssumption DEF Boosted

\* First cuts a sequence and leaves its elements as they are.
LEMMA FirstCuts ==
    ASSUME NEW k \in Nat, NEW seq, seq = [i \in 1 .. k |-> seq[i]], NEW n \in Nat
    PROVE  /\ Len(seq) = k
           /\ Lesser(n, k) \in 0 .. k /\ Lesser(n, k) <= n
           /\ First(seq, n) = [i \in 1 .. Lesser(n, k) |-> seq[i]]
<1> DEFINE T == {seq[i] : i \in 1 .. k}
<1>1. seq \in [1 .. k -> T]
  OBVIOUS
<1> HIDE DEF T
<1>2. seq \in Seq(T) /\ Len(seq) = k
  <2>1. seq \in Seq(T)
    BY <1>1
  <2>2. Len(seq) \in Nat /\ DOMAIN seq = 1 .. Len(seq)
    BY <2>1, LenProperties
  <2>3. DOMAIN seq = 1 .. k
    BY <1>1
  <2> QED BY <2>1, <2>2, <2>3
<1>3. Lesser(n, k) \in 0 .. k /\ Lesser(n, k) <= n
  BY DEF Lesser
<1>4. First(seq, n) = SubSeq(seq, 1, Lesser(n, k))
  BY <1>2 DEF First
<1>5. SubSeq(seq, 1, Lesser(n, k)) = Restrict(seq, 1 .. Lesser(n, k))
  BY <1>2, <1>3, SubSeqRestrict
<1>6. Restrict(seq, 1 .. Lesser(n, k)) = [i \in 1 .. Lesser(n, k) |-> seq[i]]
  BY <1>2, <1>3 DEF Restrict
<1> QED BY <1>2, <1>3, <1>4, <1>5, <1>6

\* A sorting of a finite set shows each of its elements once, in order.
LEMMA SortingShows ==
    ASSUME NEW S, IsFiniteSet(S), NEW above, NEW seq \in Sortings(S, above)
    PROVE  /\ Cardinality(S) \in Nat
           /\ seq \in [1 .. Cardinality(S) -> S]
           /\ \A i, j \in 1 .. Cardinality(S) : i # j => seq[i] # seq[j]
           /\ \A i, j \in 1 .. Cardinality(S) : i < j => <<seq[j], seq[i]>> \notin above
           /\ \A x \in S : \E i \in 1 .. Cardinality(S) : seq[i] = x
<1> DEFINE n == Cardinality(S)
           R == {seq[i] : i \in 1 .. n}
<1>1. n \in Nat
  BY FS_CardinalityType
<1>2. /\ seq \in [1 .. n -> S]
      /\ \A i, j \in 1 .. n : i < j => seq[i] # seq[j] /\ <<seq[j], seq[i]>> \notin above
  BY DEF Sortings
<1> HIDE DEF n
<1>3. \A i, j \in 1 .. n : i # j => seq[i] # seq[j]
  <2> SUFFICES ASSUME NEW i \in 1 .. n, NEW j \in 1 .. n, i # j PROVE seq[i] # seq[j]
    OBVIOUS
  <2>1. i < j \/ j < i
    BY <1>1
  <2> QED BY <1>2, <2>1
<1>4. seq \in Bijection(1 .. n, R)
  BY <1>2, <1>3 DEF Bijection, Injection, Surjection, IsInjective
<1>5. R \subseteq S
  BY <1>2
<1> HIDE DEF R
<1>6. Cardinality(R) = n
  BY <1>1, <1>4, FS_CountingElements DEF ExistsBijection
<1>7. R = S
  BY <1>5, <1>6, FS_Subset DEF n
<1> QED BY <1>1, <1>2, <1>3, <1>7 DEF n, R

\* What a merge keeps of the hits found: of every key one, and none is better.
LEMMA MergingKeeps ==
    ASSUME NEW S \in SUBSET Hits, NEW M \in Merging(S)
    PROVE  /\ M \subseteq S /\ IsFiniteSet(M)
           /\ \A h \in M, g \in S : g.key = h.key => g.score <= h.score
           /\ \A g \in S : \E h \in M : h.key = g.key
           /\ \A g, h \in M : g.key = h.key => g = h
           /\ Cardinality(M) = Cardinality({h.key : h \in S})
<1> DEFINE keys == {h.key : h \in S}
           f == [h \in M |-> h.key]
<1>1. /\ M \subseteq {h \in S : Survives(h, S)}
      /\ \A g \in S : \E h \in M : \A i \in M : i.key = g.key <=> i = h
  BY DEF Merging
<1>2. M \subseteq S
  BY <1>1
<1>3. IsFiniteSet(M)
  BY <1>2, HitAssumption, FS_Subset
<1>4. \A h \in M, g \in S : g.key = h.key => g.score <= h.score
  <2> SUFFICES ASSUME NEW h \in M, NEW g \in S, g.key = h.key PROVE g.score <= h.score
    OBVIOUS
  <2>1. h.score > g.score \/ h.score = g.score
    BY <1>1 DEF Survives
  <2>2. h.score \in Nat /\ g.score \in Nat
    BY <1>2, HitTypes
  <2> QED BY <2>1, <2>2
<1>5. \A g \in S : \E h \in M : h.key = g.key
  BY <1>1
<1>6. \A g, h \in M : g.key = h.key => g = h
  <2> SUFFICES ASSUME NEW g \in M, NEW h \in M, g.key = h.key PROVE g = h
    OBVIOUS
  <2>1. PICK m \in M : \A i \in M : i.key = g.key <=> i = m
    BY <1>1, <1>2
  <2> QED BY <2>1
<1>7. f \in Bijection(M, keys)
  <2>1. f \in [M -> keys]
    BY <1>2
  <2>2. \A k \in keys : \E h \in M : f[h] = k
    BY <1>5
  <2>3. \A g, h \in M : f[g] = f[h] => g = h
    BY <1>6
  <2> HIDE DEF f, keys
  <2> QED BY <2>1, <2>2, <2>3 DEF Bijection, Injection, Surjection, IsInjective
<1> HIDE DEF f, keys
<1>8. Cardinality(M) = Cardinality(keys)
  BY <1>3, <1>7, FS_Bijection DEF ExistsBijection
<1> QED BY <1>2, <1>3, <1>4, <1>5, <1>6, <1>8 DEF keys

\* a lists n of the hits of S: each the best of its key, and no key twice.
Lists(a, n, S) ==
    /\ n \in Nat /\ a = [i \in 1 .. n |-> a[i]]
    /\ \A i \in 1 .. n : a[i].hit \in S
    /\ \A i \in 1 .. n, g \in S : g.key = a[i].hit.key => g.score <= a[i].hit.score
    /\ \A i, j \in 1 .. n : i # j => a[i].hit.key # a[j].hit.key

\* From place m + 1 on, no hit is better than one before it.
Falls(a, m, n) ==
    \A i, j \in 1 .. n : j < i /\ m < i => Boosted(a[j].hit) >= Boosted(a[i].hit)

\* What is left out of a list is no better than what is in it.
LeavesOutWorse(a, n, S) ==
    \A i \in 1 .. n, g \in S :
        (\A j \in 1 .. n : a[j].hit.key # g.key) =>
            \E h \in S : h.key = g.key /\ Boosted(h) <= Boosted(a[i].hit)

Ranks(a, n, S) == Lists(a, n, S) /\ Falls(a, 0, n) /\ LeavesOutWorse(a, n, S)

Keys(S) == Cardinality({h.key : h \in S})

LEMMA KeysNumber == ASSUME NEW S \in SUBSET Hits PROVE Keys(S) \in Nat
<1> DEFINE keys == {h.key : h \in S}
           f == [h \in S |-> h.key]
<1>1. IsFiniteSet(S)
  BY HitAssumption, FS_Subset
<1>2. f \in Surjection(S, keys)
  BY DEF Surjection
<1> HIDE DEF f, keys
<1>3. IsFiniteSet(keys)
  BY <1>1, <1>2, FS_Surjection
<1> QED BY <1>3, FS_CardinalityType DEF Keys, keys

\* The merge ranks what was found.
LEMMA MergeRanks ==
    ASSUME NEW S \in SUBSET Hits, NEW max \in Nat, NEW seq \in Merged(S, max)
    PROVE  Ranks(Plain(seq), Lesser(max, Keys(S)), S)
<1>0. PICK M \in Merging(S) : \E all \in Sortings(M, Better) : seq = First(all, max)
  BY DEF Merged
<1>1. PICK all \in Sortings(M, Better) : seq = First(all, max)
  BY <1>0
<1> DEFINE K == Keys(S)
           n == Lesser(max, K)
<1>2. /\ M \subseteq S
      /\ \A h \in M, g \in S : g.key = h.key => g.score <= h.score
      /\ \A g \in S : \E h \in M : h.key = g.key
      /\ \A g, h \in M : g.key = h.key => g = h
  BY MergingKeeps
<1>3. IsFiniteSet(M) /\ Cardinality(M) = K
  BY MergingKeeps DEF Keys
<1> HIDE DEF K
<1>4. /\ K \in Nat /\ all \in [1 .. K -> M]
      /\ \A i, j \in 1 .. K : i # j => all[i] # all[j]
      /\ \A i, j \in 1 .. K : i < j => <<all[j], all[i]>> \notin Better
      /\ \A h \in M : \E i \in 1 .. K : all[i] = h
  BY <1>3, SortingShows
<1>5. n \in 0 .. K /\ seq = [i \in 1 .. n |-> all[i]]
  <2>1. K \in Nat /\ all = [i \in 1 .. K |-> all[i]]
    BY <1>4
  <2>2. /\ n \in 0 .. K
        /\ First(all, max) = [i \in 1 .. n |-> all[i]]
    BY <2>1, FirstCuts
  <2> QED BY <1>1, <2>2
<1> DEFINE a == Plain(seq)
<1> HIDE DEF n
<1>6. a = [i \in 1 .. n |-> [hit |-> all[i], score |-> 10 * Boosted(all[i])]]
  BY <1>5 DEF Plain
<1>7. 1 .. n \subseteq 1 .. K
  BY <1>4, <1>5
<1>8. \A i \in 1 .. n : a[i].hit = all[i] /\ all[i] \in M
  BY <1>4, <1>6, <1>7
<1>9. \A i, j \in 1 .. K : i < j => Boosted(all[i]) >= Boosted(all[j])
  <2> SUFFICES ASSUME NEW i \in 1 .. K, NEW j \in 1 .. K, i < j
               PROVE  Boosted(all[i]) >= Boosted(all[j])
    OBVIOUS
  <2>1. all[i] \in Hits /\ all[j] \in Hits
    BY <1>2, <1>4
  <2>2. ~ (Boosted(all[j]) > Boosted(all[i]))
    BY <1>4, <2>1 DEF Better
  <2>3. Boosted(all[i]) \in Nat /\ Boosted(all[j]) \in Nat
    BY <2>1, HitTypes
  <2> QED BY <2>2, <2>3
<1>10. Lists(a, n, S)
  <2>1. n \in Nat /\ a = [i \in 1 .. n |-> a[i]]
    BY <1>5, <1>6
  <2>2. \A i \in 1 .. n : a[i].hit \in S
    BY <1>2, <1>8
  <2>3. \A i \in 1 .. n, g \in S : g.key = a[i].hit.key => g.score <= a[i].hit.score
    BY <1>2, <1>8
  <2>4. \A i, j \in 1 .. n : i # j => a[i].hit.key # a[j].hit.key
    BY <1>2, <1>4, <1>7, <1>8
  <2> QED BY <2>1, <2>2, <2>3, <2>4 DEF Lists
<1>11. Falls(a, 0, n)
  BY <1>7, <1>8, <1>9 DEF Falls
<1>12. LeavesOutWorse(a, n, S)
  <2> SUFFICES ASSUME NEW i \in 1 .. n, NEW g \in S,
                      \A j \in 1 .. n : a[j].hit.key # g.key
               PROVE  \E h \in S : h.key = g.key /\ Boosted(h) <= Boosted(a[i].hit)
    BY DEF LeavesOutWorse
  <2>1. PICK h \in M : h.key = g.key
    BY <1>2
  <2>2. PICK k \in 1 .. K : all[k] = h
    BY <1>4
  <2>3. k \notin 1 .. n
    BY <1>8, <2>1, <2>2
  <2>4. i < k /\ i \in 1 .. K
    BY <1>4, <1>5, <1>7, <2>3
  <2>5. Boosted(all[i]) >= Boosted(h)
    BY <1>9, <2>2, <2>4
  <2>6. all[i] \in Hits /\ h \in S /\ h \in Hits
    BY <1>2, <1>8
  <2>7. Boosted(h) <= Boosted(all[i])
    BY <2>5, <2>6, HitTypes
  <2> QED BY <1>8, <2>1, <2>6, <2>7
<1> QED BY <1>10, <1>11, <1>12 DEF Ranks, n, K

\* Cutting a ranking leaves a ranking.
LEMMA CutRanks ==
    ASSUME NEW S \in SUBSET Hits, NEW a, NEW k, Ranks(a, k, S), NEW max \in Nat
    PROVE  Ranks(First(a, max), Lesser(max, k), S)
<1> DEFINE n == Lesser(max, k)
           b == First(a, max)
<1>1. k \in Nat /\ n \in 0 .. k /\ b = [i \in 1 .. n |-> a[i]]
  BY FirstCuts DEF Ranks, Lists
<1> HIDE DEF n, b
<1>2. 1 .. n \subseteq 1 .. k /\ \A i \in 1 .. n : b[i] = a[i]
  BY <1>1
<1>3. Lists(b, n, S)
  BY <1>1, <1>2 DEF Ranks, Lists
<1>4. Falls(b, 0, n)
  BY <1>2 DEF Ranks, Falls
<1>5. LeavesOutWorse(b, n, S)
  <2> SUFFICES ASSUME NEW i \in 1 .. n, NEW g \in S,
                      \A j \in 1 .. n : b[j].hit.key # g.key
               PROVE  \E h \in S : h.key = g.key /\ Boosted(h) <= Boosted(b[i].hit)
    BY DEF LeavesOutWorse
  <2>1. CASE \A j \in 1 .. k : a[j].hit.key # g.key
    BY <1>2, <2>1 DEF Ranks, LeavesOutWorse
  <2>2. ASSUME NEW j \in 1 .. k, a[j].hit.key = g.key
        PROVE  \E h \in S : h.key = g.key /\ Boosted(h) <= Boosted(b[i].hit)
    <3>1. j \notin 1 .. n
      BY <1>2, <2>2
    <3>2. i < j /\ 0 < j /\ i \in 1 .. k
      BY <1>1, <1>2, <3>1
    <3>3. Boosted(a[i].hit) >= Boosted(a[j].hit)
      BY <3>2 DEF Ranks, Falls
    <3>4. a[i].hit \in S /\ a[j].hit \in S
      BY <3>2 DEF Ranks, Lists
    <3>5. Boosted(a[j].hit) <= Boosted(a[i].hit)
      BY <3>3, <3>4, HitTypes
    <3> QED BY <1>2, <2>2, <3>4, <3>5
  <2> QED BY <2>1, <2>2
<1> QED BY <1>3, <1>4, <1>5 DEF Ranks, n, b

LEMMA ScoresLength == ASSUME NEW n \in Nat, NEW v \in Scores(n) PROVE Len(v) = n
BY DEF Scores

\* The reranker moves the hits that it scored, and those only.
LEMMA RerankMoves ==
    ASSUME NEW S \in SUBSET Hits, NEW a, NEW k, Ranks(a, k, S),
           NEW n \in 0 .. k, NEW v \in Scores(n),
           NEW seq \in Reranked(a, v), NEW max \in Nat
    PROVE  /\ Lists(First(seq, max), Lesser(max, k), S)
           /\ Falls(First(seq, max), n, Lesser(max, k))
<1> DEFINE blend == [i \in 1 .. Len(v) |-> 4 * Boosted(a[i].hit) + 3 * Full * MinMax(v)[i]]
           above == {p \in (1 .. Len(v)) \X (1 .. Len(v)) :
                       \/ blend[p[1]] > blend[p[2]]
                       \/ blend[p[1]] = blend[p[2]] /\ p[1] < p[2]}
           m == Lesser(max, k)
           b == First(seq, max)
<1>1. k \in Nat /\ a = [i \in 1 .. k |-> a[i]] /\ DOMAIN a = 1 .. k
  BY DEF Ranks, Lists
<1>2. n \in Nat /\ Len(v) = n
  BY <1>1, ScoresLength
<1>3. PICK perm \in Sortings(1 .. Len(v), above) :
          seq = [i \in DOMAIN a |->
                    IF i <= Len(v) THEN [hit |-> a[perm[i]].hit, score |-> blend[perm[i]]]
                                   ELSE a[i]]
  BY DEF Reranked
<1> HIDE DEF blend, above
<1>4. IsFiniteSet(1 .. n) /\ Cardinality(1 .. n) = n
  BY <1>2, FS_Interval
<1>5. perm \in [1 .. n -> 1 .. n] /\ \A i, j \in 1 .. n : i # j => perm[i] # perm[j]
  <2>1. perm \in Sortings(1 .. n, above)
    BY <1>2, <1>3
  <2> DEFINE C == Cardinality(1 .. n)
  <2>2. perm \in [1 .. C -> 1 .. n] /\ \A i, j \in 1 .. C : i # j => perm[i] # perm[j]
    BY <1>4, <2>1, SortingShows
  <2>3. C = n
    BY <1>4
  <2> HIDE DEF C
  <2> QED BY <2>2, <2>3
<1> DEFINE place(i) == IF i <= n THEN perm[i] ELSE i
<1>6. \A i \in 1 .. k : place(i) \in 1 .. k /\ seq[i].hit = a[place(i)].hit
  BY <1>1, <1>2, <1>3, <1>5
<1>7. \A i, j \in 1 .. k : i # j => place(i) # place(j)
  BY <1>1, <1>2, <1>5
<1>8. m \in 0 .. k /\ b = [i \in 1 .. m |-> seq[i]]
  <2>1. seq = [i \in 1 .. k |-> seq[i]]
    BY <1>1, <1>3
  <2>0. k \in Nat
    BY <1>1
  <2>2. m \in 0 .. k
    BY <2>0, <2>1, FirstCuts
  <2>3. First(seq, max) = [i \in 1 .. m |-> seq[i]]
    BY <2>0, <2>1, FirstCuts
  <2> QED BY <2>2, <2>3
<1> HIDE DEF m, b, place
<1>9. 1 .. m \subseteq 1 .. k /\ \A i \in 1 .. m : b[i].hit = a[place(i)].hit
  <2>1. 1 .. m \subseteq 1 .. k
    BY <1>1, <1>8
  <2>2. \A i \in 1 .. m : b[i] = seq[i]
    BY <1>8
  <2> QED BY <1>6, <2>1, <2>2
<1>10. Lists(b, m, S)
  <2>1. m \in Nat /\ b = [i \in 1 .. m |-> b[i]]
    BY <1>1, <1>8
  <2>2. \A i \in 1 .. m : b[i].hit \in S
    BY <1>6, <1>9 DEF Ranks, Lists
  <2>3. ASSUME NEW i \in 1 .. m, NEW g \in S, g.key = b[i].hit.key
        PROVE  g.score <= b[i].hit.score
    BY <1>6, <1>9, <2>3 DEF Ranks, Lists
  <2>4. ASSUME NEW i \in 1 .. m, NEW j \in 1 .. m, i # j
        PROVE  b[i].hit.key # b[j].hit.key
    <3>1. place(i) \in 1 .. k /\ place(j) \in 1 .. k /\ place(i) # place(j)
      BY <1>6, <1>7, <1>9, <2>4
    <3>2. a[place(i)].hit.key # a[place(j)].hit.key
      BY <3>1 DEF Ranks, Lists
    <3> QED BY <1>9, <2>4, <3>2
  <2> QED BY <2>1, <2>2, <2>3, <2>4 DEF Lists
<1>11. Falls(b, n, m)
  <2> SUFFICES ASSUME NEW i \in 1 .. m, NEW j \in 1 .. m, j < i, n < i
               PROVE  Boosted(b[j].hit) >= Boosted(b[i].hit)
    BY DEF Falls
  <2>1. i \in 1 .. k /\ j \in 1 .. k /\ b[i].hit = a[i].hit
    BY <1>2, <1>9 DEF place
  <2>2. place(j) < i /\ 0 < i
    BY <1>2, <1>5, <2>1 DEF place
  <2>3. Boosted(a[place(j)].hit) >= Boosted(a[i].hit)
    BY <1>6, <2>1, <2>2 DEF Ranks, Falls
  <2> QED BY <1>9, <2>1, <2>3
<1> QED BY <1>10, <1>11 DEF m, b

\* The sources of a call have all answered.
Settled(c) == \A s \in Sources : task[c][s] \in {"none", "done"}

\* What a call found in the stores its filter let through.
FoundAllowed ==
    /\ found \in [Calls -> SUBSET Hits]
    /\ \A c \in Calls : \A h \in found[c] : h.src \in Stores => Allows(c, h)

\* What the answer of a retrieve is worth, at each of its stages.
AnswerRanked(c) ==
    /\ mpc[c] \in {"idle", "running", "merged"} => second[c] = <<>>
    /\ mpc[c] \in {"merged", "answered"} => Settled(c)
    /\ mpc[c] = "merged" =>
         Ranks(answer[c], Lesser(PreRerankMax(c), Keys(found[c])), found[c])
    /\ mpc[c] = "answered" =>
         LET n == Lesser(DedupMax(c), Keys(found[c]))
         IN  /\ Lists(answer[c], n, found[c])
             /\ Falls(answer[c], Len(second[c]), n)
             /\ second[c] = <<>> => LeavesOutWorse(answer[c], n, found[c])

AnswerPlaces ==
    /\ task \in [Calls -> [Sources -> Places]]
    /\ mpc \in [Calls -> {"idle", "running", "merged", "answered", "rejected"}]
    /\ DOMAIN answer = Calls /\ DOMAIN second = Calls

AnswerInv ==
    /\ AnswerPlaces /\ FoundAllowed
    /\ \A c \in Calls : Asked[c].kind = "retrieve" => AnswerRanked(c)

LEMMA MaxTypes ==
    ASSUME NEW c \in Calls
    PROVE  /\ DedupMax(c) \in Nat /\ PreRerankMax(c) \in Nat
           /\ DedupMax(c) <= PreRerankMax(c)
<1>1. Asked[c].topK \in Nat \union {Unset}
  BY AskedAssumption DEF Ask
<1>2. DedupMax(c) \in Nat
  BY <1>1, NumberAssumption DEF DedupMax, Lesser
<1> QED BY <1>2, NumberAssumption DEF PreRerankMax, Greater

LEMMA ListLength ==
    ASSUME NEW S, NEW a, NEW n, Lists(a, n, S)
    PROVE  n \in Nat /\ Len(a) = n /\ DOMAIN a = 1 .. n
<1>1. n \in Nat /\ a = [i \in 1 .. n |-> a[i]]
  BY DEF Lists
<1>2. Len(a) = n
  BY <1>1, FirstCuts
<1> QED BY <1>1, <1>2

\* A call that a step leaves alone keeps the worth of its answer.
LEMMA OtherAnswers ==
    ASSUME NEW d \in Calls, AnswerRanked(d), reranking' = reranking,
           mpc'[d] = mpc[d], found'[d] = found[d],
           answer'[d] = answer[d], second'[d] = second[d], Settled(d) => Settled(d)'
    PROVE  AnswerRanked(d)'
<1>1. PreRerankMax(d)' = PreRerankMax(d)
  BY DEF PreRerankMax
<1> QED BY <1>1 DEF AnswerRanked

\* The steps of the stores go on with tasks that have not answered.
LEMMA MoveSettles ==
    ASSUME AnswerPlaces, NEW S, NEW to \in Places, Move(S, to),
           \A c \in Calls, s \in Sources :
               <<c, s>> \in S => task[c][s] \in {"embedder", "wait", "load"}
    PROVE  /\ task' \in [Calls -> [Sources -> Places]]
           /\ \A c \in Calls : Settled(c) => Settled(c)'
<1>1. task' \in [Calls -> [Sources -> Places]]
  BY DEF Move, AnswerPlaces
<1>2. ASSUME NEW c \in Calls, Settled(c), NEW s \in Sources
      PROVE  task'[c][s] = task[c][s]
  <2>1. <<c, s>> \notin S
    BY <1>2 DEF Settled
  <2> QED BY <2>1 DEF Move
<1> QED BY <1>1, <1>2 DEF Settled

LEMMA PoolAnswers ==
    ASSUME AnswerInv, UNCHANGED <<reranking, mpc, found, answer, second>>,
           task' \in [Calls -> [Sources -> Places]],
           \A c \in Calls : Settled(c) => Settled(c)'
    PROVE  AnswerInv'
<1>1. AnswerPlaces' /\ FoundAllowed'
  BY DEF AnswerInv, AnswerPlaces, FoundAllowed, Allows
<1>2. \A c \in Calls : Asked[c].kind = "retrieve" => AnswerRanked(c)'
  BY OtherAnswers DEF AnswerInv
<1> QED BY <1>1, <1>2 DEF AnswerInv

LEMMA StoreAnswers ==
    ASSUME AnswerInv,
           \/ EmbedderReady \/ EmbedderFails
           \/ \E c \in Calls, s \in Sources : StoreOpens(c, s) \/ StoreFails(c, s)
    PROVE  AnswerInv'
<1>1. UNCHANGED <<reranking, mpc, found, answer, second>>
  BY DEF EmbedderReady, EmbedderFails, StoreOpens, StoreFails
<1>2. \A c \in Calls, s, r \in Sources, places \in SUBSET Places :
          <<c, s>> \in Tasks(r, places) <=> s = r /\ task[c][s] \in places
  BY DEF Tasks
<1>3. \E S : \E to \in Places :
        /\ Move(S, to)
        /\ \A c \in Calls, s \in Sources :
             <<c, s>> \in S => task[c][s] \in {"embedder", "wait", "load"}
  <2>1. CASE EmbedderReady
    <3> DEFINE S == UNION {Tasks(s, {"embedder"}) : s \in Stores}
    <3>1. Move(S, "load") /\ "load" \in Places
      BY <2>1 DEF EmbedderReady, Places
    <3>2. \A c \in Calls, s \in Sources : <<c, s>> \in S => task[c][s] = "embedder"
      <4>1. {"embedder"} \in SUBSET Places
        BY DEF Places
      <4> QED BY <1>2, <4>1, StoreNames
    <3> QED BY <3>1, <3>2
  <2>2. CASE EmbedderFails
    <3> DEFINE of == {s \in Stores : \E c \in Calls : task[c][s] = "embedder"}
               S == UNION {Tasks(s, {"embedder", "wait"}) : s \in of}
    <3>1. Move(S, "failed") /\ "failed" \in Places
      BY <2>2 DEF EmbedderFails, Places
    <3>2. \A c \in Calls, s \in Sources :
              <<c, s>> \in S => task[c][s] \in {"embedder", "wait"}
      <4>1. {"embedder", "wait"} \in SUBSET Places
        BY DEF Places
      <4> QED BY <1>2, <4>1, StoreNames
    <3> QED BY <3>1, <3>2
  <2>3. ASSUME NEW c \in Calls, NEW s \in Sources, StoreOpens(c, s) \/ StoreFails(c, s)
        PROVE  \E S : \E to \in Places :
                 /\ Move(S, to)
                 /\ \A d \in Calls, r \in Sources :
                      <<d, r>> \in S => task[d][r] \in {"embedder", "wait", "load"}
    <3> DEFINE S == {<<c, s>>} \union Tasks(s, {"wait"})
    <3>1. task[c][s] = "load" /\ \E to \in Places : Move(S, to)
      BY <2>3 DEF StoreOpens, StoreFails, Places
    <3>2. \A d \in Calls, r \in Sources :
              <<d, r>> \in S => task[d][r] \in {"wait", "load"}
      <4>1. {"wait"} \in SUBSET Places
        BY DEF Places
      <4> QED BY <1>2, <3>1, <4>1
    <3> QED BY <3>1, <3>2
  <2> QED BY <2>1, <2>2, <2>3
<1>4. /\ task' \in [Calls -> [Sources -> Places]]
      /\ \A c \in Calls : Settled(c) => Settled(c)'
  BY <1>3, MoveSettles DEF AnswerInv
<1> QED BY <1>1, <1>4, PoolAnswers

LEMMA BeginAnswers ==
    ASSUME AnswerInv, NEW c \in Calls, Begin(c)
    PROVE  AnswerInv'
<1>1. PICK first \in [Sources -> Places] : task' = [task EXCEPT ![c] = first]
  <2> DEFINE asked == Asked[c].sources \intersect Stores
             f == [s \in Sources |->
                      CASE s \in asked -> GetVectorStore(s)
                        [] s \in Asked[c].sources \ Stores -> "search"
                        [] OTHER -> "none"]
  <2>1. task' = [task EXCEPT ![c] = f]
    BY DEF Begin
  <2>2. \A s : GetVectorStore(s) \in Places
    BY DEF GetVectorStore, Places
  <2>3. \A s \in Sources : f[s] \in Places
    BY <2>2 DEF Places
  <2>4. f \in [Sources -> Places]
    BY <2>3
  <2> HIDE DEF f
  <2> QED BY <2>1, <2>4
<1>2. /\ mpc[c] = "idle" /\ mpc' = [mpc EXCEPT ![c] = "running"]
      /\ UNCHANGED <<reranking, found, answer, second>>
  BY DEF Begin
<1>3. AnswerPlaces' /\ FoundAllowed'
  BY <1>1, <1>2 DEF AnswerInv, AnswerPlaces, FoundAllowed, Allows
<1>4. ASSUME NEW d \in Calls, Asked[d].kind = "retrieve" PROVE AnswerRanked(d)'
  <2>0. AnswerRanked(d)
    BY <1>4 DEF AnswerInv
  <2>1. CASE d = c
    BY <1>2, <2>0, <2>1 DEF AnswerInv, AnswerPlaces, AnswerRanked
  <2>2. CASE d # c
    <3>1. mpc'[d] = mpc[d] /\ task'[d] = task[d]
      BY <1>1, <1>2, <2>2 DEF AnswerInv, AnswerPlaces
    <3> QED BY <1>2, <2>0, <3>1, OtherAnswers DEF Settled
  <2> QED BY <2>1, <2>2
<1> QED BY <1>3, <1>4 DEF AnswerInv

LEMMA SourceAnswersRanked ==
    ASSUME AnswerInv, NEW c \in Calls, NEW s \in Sources, SourceAnswers(c, s)
    PROVE  AnswerInv'
<1>1. /\ task[c][s] = "search"
      /\ \E to \in {"done", "failed"} : task' = [task EXCEPT ![c][s] = to]
      /\ UNCHANGED <<reranking, mpc, answer, second>>
  BY DEF SourceAnswers, poolVars
<1>2. PICK T \in SUBSET {h \in Hits : h.src = s} :
        /\ found' = [found EXCEPT ![c] = @ \union T]
        /\ T = {} \/ Finds(c, s, T)
  <2>1. CASE UNCHANGED found
    <3>1. found' = [found EXCEPT ![c] = @ \union {}]
      BY <2>1 DEF AnswerInv, FoundAllowed
    <3> QED BY <3>1
  <2>2. CASE \E T \in SUBSET {h \in Hits : h.src = s} :
               /\ Finds(c, s, T)
               /\ found' = [found EXCEPT ![c] = @ \union T]
    BY <2>2
  <2> QED BY <2>1, <2>2 DEF SourceAnswers
<1>3. ASSUME NEW h \in T, h.src \in Stores PROVE Allows(c, h)
  <2>1. s \in Stores /\ T # {}
    BY <1>2, <1>3
  <2>2. Finds(c, s, T)
    BY <1>2, <2>1
  <2> DEFINE U == {g \in {x \in Hits : x.src = s} \intersect held : Allows(c, g)}
  <2>3. IsTop(T, U, Wanted(c))
    BY <2>1, <2>2 DEF Finds, Stores
  <2>4. T \subseteq U
    BY <2>3 DEF IsTop
  <2> QED BY <2>4
<1>4. AnswerPlaces'
  <2>1. task' \in [Calls -> [Sources -> Places]]
    BY <1>1 DEF AnswerInv, AnswerPlaces, Places
  <2> QED BY <1>1, <2>1 DEF AnswerInv, AnswerPlaces
<1>5. FoundAllowed'
  <2>1. found' \in [Calls -> SUBSET Hits]
    BY <1>2 DEF AnswerInv, FoundAllowed
  <2>2. ASSUME NEW d \in Calls, NEW h \in found'[d], h.src \in Stores
        PROVE  Allows(d, h)
    BY <1>2, <1>3, <2>2 DEF AnswerInv, FoundAllowed
  <2> QED BY <2>1, <2>2 DEF FoundAllowed, Allows
<1>6. ASSUME NEW d \in Calls, Asked[d].kind = "retrieve" PROVE AnswerRanked(d)'
  <2>0. AnswerRanked(d)
    BY <1>6 DEF AnswerInv
  <2>1. CASE d = c
    <3>1. ~ Settled(c)
      BY <1>1 DEF Settled
    <3> QED BY <1>1, <2>0, <2>1, <3>1 DEF AnswerRanked
  <2>2. CASE d # c
    <3>1. found'[d] = found[d] /\ task'[d] = task[d]
      BY <1>1, <1>2, <2>2 DEF AnswerInv, AnswerPlaces, FoundAllowed
    <3> QED BY <1>1, <2>0, <3>1, OtherAnswers DEF Settled
  <2> QED BY <2>1, <2>2
<1> QED BY <1>4, <1>5, <1>6 DEF AnswerInv

\* A step of one call that goes on to its next stage.
LEMMA StageAnswers ==
    ASSUME AnswerInv, NEW c \in Calls, NEW stage \in {"merged", "answered", "rejected"},
           mpc' = [mpc EXCEPT ![c] = stage],
           UNCHANGED <<reranking, task, found>>,
           \/ UNCHANGED answer
           \/ \E a : answer' = [answer EXCEPT ![c] = a],
           \/ UNCHANGED second
           \/ \E v : second' = [second EXCEPT ![c] = v],
           Asked[c].kind = "retrieve" => AnswerRanked(c)'
    PROVE  AnswerInv'
<1>1. AnswerPlaces' /\ FoundAllowed'
  BY DEF AnswerInv, AnswerPlaces, FoundAllowed, Allows
<1>2. ASSUME NEW d \in Calls, Asked[d].kind = "retrieve", d # c PROVE AnswerRanked(d)'
  <2>1. /\ mpc'[d] = mpc[d] /\ answer'[d] = answer[d] /\ second'[d] = second[d]
        /\ found'[d] = found[d] /\ task'[d] = task[d]
    BY <1>2 DEF AnswerInv, AnswerPlaces
  <2> QED BY <1>2, <2>1, OtherAnswers DEF AnswerInv, Settled
<1> QED BY <1>1, <1>2 DEF AnswerInv

LEMMA MergeAnswers ==
    ASSUME AnswerInv, NEW c \in Calls, Merge(c)
    PROVE  AnswerInv'
<1>1. /\ Asked[c].kind = "retrieve" /\ mpc[c] = "running" /\ Settled(c)
      /\ mpc' = [mpc EXCEPT ![c] = "merged"]
      /\ UNCHANGED <<reranking, task, found, second>>
  BY DEF Merge, poolVars, Settled
<1>2. PICK seq \in Merged(found[c], PreRerankMax(c)) :
          answer' = [answer EXCEPT ![c] = Plain(seq)]
  BY DEF Merge
<1>3. found[c] \in SUBSET Hits
  BY DEF AnswerInv, FoundAllowed
<1>4. Ranks(Plain(seq), Lesser(PreRerankMax(c), Keys(found[c])), found[c])
  BY <1>3, MaxTypes, MergeRanks
<1>5. mpc'[c] = "merged" /\ answer'[c] = Plain(seq)
  BY <1>1, <1>2 DEF AnswerInv, AnswerPlaces
<1>6. second[c] = <<>> /\ PreRerankMax(c)' = PreRerankMax(c) /\ Settled(c)'
  BY <1>1 DEF AnswerInv, AnswerRanked, PreRerankMax, Settled
<1>7. AnswerRanked(c)'
  BY <1>1, <1>4, <1>5, <1>6 DEF AnswerRanked
<1> QED BY <1>1, <1>2, <1>7, StageAnswers

\* The number of hits left after the second cut.
LEMMA CutTwice ==
    ASSUME NEW c \in Calls, NEW S \in SUBSET Hits
    PROVE  Lesser(DedupMax(c), Lesser(PreRerankMax(c), Keys(S))) = Lesser(DedupMax(c), Keys(S))
BY MaxTypes, KeysNumber DEF Lesser

LEMMA RerankAnswers ==
    ASSUME AnswerInv, NEW c \in Calls, Rerank(c)
    PROVE  AnswerInv'
<1>1. /\ mpc[c] = "merged" /\ answer[c] # <<>>
      /\ mpc' = [mpc EXCEPT ![c] = "answered"]
      /\ UNCHANGED <<reranking, task, found>>
  BY DEF Rerank, Answered, poolVars
<1>2. PICK v \in Scores(Scored(c)) :
        /\ second' = [second EXCEPT ![c] = v]
        /\ \E seq \in Reranked(answer[c], v) : Answered(c, seq)
  BY DEF Rerank
<1>3. PICK seq \in Reranked(answer[c], v) :
          answer' = [answer EXCEPT ![c] = First(seq, DedupMax(c))]
  BY <1>2 DEF Answered
<1>4. ASSUME Asked[c].kind = "retrieve" PROVE AnswerRanked(c)'
  <2> DEFINE S == found[c]
             k == Lesser(PreRerankMax(c), Keys(S))
             n == Lesser(DedupMax(c), Keys(S))
             b == First(seq, DedupMax(c))
  <2>1. S \in SUBSET Hits /\ Settled(c) /\ Ranks(answer[c], k, S)
    BY <1>1, <1>4 DEF AnswerInv, FoundAllowed, AnswerRanked
  <2>2. k \in Nat /\ Len(answer[c]) = k
    BY <2>1, ListLength DEF Ranks
  <2>3. k # 0
    <3>1. answer[c] = [i \in 1 .. k |-> answer[c][i]]
      BY <2>1 DEF Ranks, Lists
    <3> HIDE DEF k
    <3>2. k = 0 => answer[c] = <<>>
      BY <3>1
    <3> QED BY <1>1, <3>2
  <2>4. Scored(c) \in 0 .. k /\ Scored(c) # 0
    BY <2>2, <2>3, NumberAssumption DEF Scored, Lesser
  <2>5. n = Lesser(DedupMax(c), k)
    BY <2>1, CutTwice
  <2> HIDE DEF S, k, n
  <2>6. /\ Lists(b, n, S) /\ Falls(b, Scored(c), n) /\ Len(v) = Scored(c)
    <3>1. v \in Scores(Scored(c)) /\ DedupMax(c) \in Nat
      BY MaxTypes
    <3>2. /\ Lists(b, Lesser(DedupMax(c), k), S)
          /\ Falls(b, Scored(c), Lesser(DedupMax(c), k))
      BY <1>3, <2>1, <2>4, <3>1, RerankMoves
    <3>3. Len(v) = Scored(c)
      BY <2>2, <2>4, <3>1, ScoresLength
    <3> QED BY <2>5, <3>2, <3>3
  <2>7. v # <<>>
    BY <2>4, <2>6
  <2> HIDE DEF b
  <2>8. mpc'[c] = "answered" /\ answer'[c] = b /\ second'[c] = v
    BY <1>1, <1>2, <1>3 DEF AnswerInv, AnswerPlaces, b
  <2>9. Settled(c)'
    BY <1>1, <2>1 DEF Settled
  <2> QED BY <1>1, <2>6, <2>7, <2>8, <2>9 DEF AnswerRanked, S, n
<1> QED BY <1>1, <1>2, <1>3, <1>4, StageAnswers

LEMMA KeepAnswers ==
    ASSUME AnswerInv, NEW c \in Calls, KeepOrder(c)
    PROVE  AnswerInv'
<1>1. /\ mpc[c] = "merged"
      /\ mpc' = [mpc EXCEPT ![c] = "answered"]
      /\ answer' = [answer EXCEPT ![c] = First(answer[c], DedupMax(c))]
      /\ UNCHANGED <<reranking, task, found, second>>
  BY DEF KeepOrder, Answered, poolVars
<1>2. ASSUME Asked[c].kind = "retrieve" PROVE AnswerRanked(c)'
  <2> DEFINE S == found[c]
             k == Lesser(PreRerankMax(c), Keys(S))
             n == Lesser(DedupMax(c), Keys(S))
             b == First(answer[c], DedupMax(c))
  <2>1. /\ S \in SUBSET Hits /\ Settled(c) /\ Ranks(answer[c], k, S)
        /\ second[c] = <<>>
    BY <1>1, <1>2 DEF AnswerInv, FoundAllowed, AnswerRanked
  <2>2. n = Lesser(DedupMax(c), k)
    BY <2>1, CutTwice
  <2> HIDE DEF S, k, n
  <2>3. Ranks(b, n, S)
    BY <2>1, <2>2, MaxTypes, CutRanks
  <2> HIDE DEF b
  <2>4. mpc'[c] = "answered" /\ answer'[c] = b /\ second'[c] = <<>>
    BY <1>1, <2>1 DEF AnswerInv, AnswerPlaces, b
  <2>5. Settled(c)' /\ Len(<<>>) = 0
    BY <1>1, <2>1 DEF Settled
  <2> QED BY <1>1, <2>3, <2>4, <2>5 DEF AnswerRanked, Ranks, S, n
<1> QED BY <1>1, <1>2, StageAnswers

LEMMA RejectAnswers ==
    ASSUME AnswerInv, NEW c \in Calls, Reject(c)
    PROVE  AnswerInv'
<1>1. /\ mpc' = [mpc EXCEPT ![c] = "rejected"]
      /\ UNCHANGED <<reranking, task, found, answer, second>>
  BY DEF Reject, poolVars
<1>2. AnswerRanked(c)'
  BY <1>1 DEF AnswerInv, AnswerPlaces, AnswerRanked
<1> QED BY <1>1, <1>2, StageAnswers

LEMMA SearchAnswers ==
    ASSUME AnswerInv, NEW c \in Calls, ReturnSearch(c)
    PROVE  AnswerInv'
<1>1. /\ Asked[c].kind = "search"
      /\ mpc' = [mpc EXCEPT ![c] = "answered"]
      /\ \E a : answer' = [answer EXCEPT ![c] = a]
      /\ UNCHANGED <<reranking, task, found, second>>
  BY DEF ReturnSearch, poolVars
<1> QED BY <1>1, StageAnswers

LEMMA SpecAnswers == RecallSpec => []AnswerInv
<1>1. ASSUME RecallInit PROVE AnswerInv
  <2>1. /\ task = [c \in Calls |-> [s \in Sources |-> "none"]]
        /\ mpc = [c \in Calls |-> "idle"] /\ found = [c \in Calls |-> {}]
        /\ answer = [c \in Calls |-> <<>>] /\ second = [c \in Calls |-> <<>>]
    BY <1>1 DEF RecallInit, MemoryInit
  <2>2. AnswerPlaces
    BY <2>1 DEF AnswerPlaces, Places
  <2>3. FoundAllowed
    BY <2>1 DEF FoundAllowed
  <2>4. \A c \in Calls : AnswerRanked(c)
    BY <2>1 DEF AnswerRanked
  <2> QED BY <2>2, <2>3, <2>4 DEF AnswerInv
<1>2. ASSUME AnswerInv, [RecallNext]_<<memoryVars, obsidianVars, side>>
      PROVE  AnswerInv'
  <2>1. ASSUME NEW c \in Calls, Begin(c) PROVE AnswerInv'
    BY <1>2, <2>1, BeginAnswers
  <2>2. ASSUME NEW c \in Calls, Merge(c) PROVE AnswerInv'
    BY <1>2, <2>2, MergeAnswers
  <2>3. ASSUME NEW c \in Calls, Rerank(c) \/ KeepOrder(c) PROVE AnswerInv'
    BY <1>2, <2>3, RerankAnswers, KeepAnswers
  <2>4. ASSUME NEW c \in Calls, Reject(c) \/ ReturnSearch(c) PROVE AnswerInv'
    BY <1>2, <2>4, RejectAnswers, SearchAnswers
  <2>5. ASSUME NEW c \in Calls, NEW s \in Sources, SourceAnswers(c, s) PROVE AnswerInv'
    BY <1>2, <2>5, SourceAnswersRanked
  <2>6. CASE \/ EmbedderReady \/ EmbedderFails
             \/ \E c \in Calls, s \in Sources : StoreOpens(c, s) \/ StoreFails(c, s)
    BY <1>2, <2>6, StoreAnswers
  <2>7. CASE \/ \E h \in Hits : AddDocument(h)
             \/ Warm \/ UNCHANGED memoryVars
    <3>1. UNCHANGED <<reranking, task, mpc, found, answer, second>>
      BY <2>7 DEF AddDocument, Warm, memoryVars, poolVars
    <3>2. /\ task' \in [Calls -> [Sources -> Places]]
          /\ \A c \in Calls : Settled(c) => Settled(c)'
      BY <1>2, <3>1 DEF AnswerInv, AnswerPlaces, Settled
    <3> QED BY <1>2, <3>1, <3>2, PoolAnswers
  <2> QED BY <1>2, <2>1, <2>2, <2>3, <2>4, <2>5, <2>6, <2>7 DEF RecallNext, MemoryNext
<1> QED BY <1>1, <1>2, PTL DEF RecallSpec

\* A retrieve for one tenant shows nothing that a store holds for another, for
\* every set of hits and whatever the reranker says of them (retrieveInner).
THEOREM AnswersKeepTenant == RecallSpec => []TenantKept
<1>1. ASSUME AnswerInv PROVE TenantKept
  <2> SUFFICES ASSUME NEW c \in Calls, mpc[c] = "answered", Asked[c].kind = "retrieve",
                      NEW i \in DOMAIN answer[c], answer[c][i].hit.src \in Stores
               PROVE  Asked[c].tenant \in {Anyone, answer[c][i].hit.tenant}
    BY DEF TenantKept
  <2>1. PICK n : Lists(answer[c], n, found[c])
    BY <1>1 DEF AnswerInv, AnswerRanked
  <2>2. answer[c][i].hit \in found[c]
    BY <2>1, ListLength DEF Lists
  <2> QED BY <1>1, <2>2 DEF AnswerInv, FoundAllowed, Allows
<1> QED BY <1>1, SpecAnswers, PTL

\* The answer of a retrieve shows as many keys as there is room for, each once
\* and by its best hit; it leaves out nothing better, but for what the reranker
\* scored, which nothing it did not score displaces (mergeAndRerank, rerank).
THEOREM AnswersRankAll == RecallSpec => []AnswerRanksAll
<1>1. ASSUME AnswerInv PROVE AnswerRanksAll
  <2> SUFFICES ASSUME NEW c \in Calls, mpc[c] = "answered", Asked[c].kind = "retrieve"
               PROVE
        LET keys == {h.key : h \in found[c]}
            hits == {answer[c][i].hit : i \in DOMAIN answer[c]}
        IN  /\ Len(answer[c]) = Lesser(DedupMax(c), Cardinality(keys))
            /\ Cardinality({h.key : h \in hits}) = Len(answer[c])
            /\ hits \subseteq found[c]
            /\ \A h \in hits, g \in found[c] : g.key = h.key => g.score <= h.score
            /\ second[c] = <<>> => \A h \in hits, k \in keys \ {g.key : g \in hits} :
                    \E g \in found[c] : g.key = k /\ Boosted(g) <= Boosted(h)
            /\ \A i, j \in DOMAIN answer[c] : j < i /\ Len(second[c]) < i =>
                    Boosted(answer[c][j].hit) >= Boosted(answer[c][i].hit)
    BY DEF AnswerRanksAll
  <2> DEFINE a == answer[c]
             S == found[c]
             n == Lesser(DedupMax(c), Keys(S))
             hits == {a[i].hit : i \in DOMAIN a}
             shown == {h.key : h \in hits}
             f == [i \in 1 .. n |-> a[i].hit.key]
  <2>1. /\ Lists(a, n, S) /\ Falls(a, Len(second[c]), n)
        /\ second[c] = <<>> => LeavesOutWorse(a, n, S)
    BY <1>1 DEF AnswerInv, AnswerRanked
  <2> HIDE DEF a, S, n
  <2>2. n \in Nat /\ Len(a) = n /\ DOMAIN a = 1 .. n
    BY <2>1, ListLength
  <2>3. \A h \in hits : \E i \in 1 .. n : h = a[i].hit
    BY <2>2
  <2>4. \A i \in 1 .. n : a[i].hit \in hits
    BY <2>2
  <2>5. Cardinality(shown) = n
    <3>1. f \in [1 .. n -> shown]
      BY <2>4
    <3>2. \A k \in shown : \E i \in 1 .. n : f[i] = k
      BY <2>3
    <3>3. \A i, j \in 1 .. n : f[i] = f[j] => i = j
      BY <2>1 DEF Lists
    <3> HIDE DEF f, shown
    <3>4. f \in Bijection(1 .. n, shown)
      BY <3>1, <3>2, <3>3 DEF Bijection, Injection, Surjection, IsInjective
    <3> QED BY <2>2, <3>4, FS_CountingElements DEF ExistsBijection
  <2> HIDE DEF hits
  <2>6. hits \subseteq S
    BY <2>1, <2>3 DEF Lists
  <2>7. \A h \in hits, g \in S : g.key = h.key => g.score <= h.score
    BY <2>1, <2>3 DEF Lists
  <2>8. ASSUME second[c] = <<>>, NEW h \in hits, NEW g \in S, g.key \notin shown
        PROVE  \E m \in S : m.key = g.key /\ Boosted(m) <= Boosted(h)
    <3>1. PICK i \in 1 .. n : h = a[i].hit
      BY <2>3, <2>8
    <3>2. \A j \in 1 .. n : a[j].hit.key # g.key
      BY <2>4, <2>8
    <3> QED BY <2>1, <2>8, <3>1, <3>2 DEF LeavesOutWorse
  <2>9. \A i, j \in 1 .. n : j < i /\ Len(second[c]) < i =>
            Boosted(a[j].hit) >= Boosted(a[i].hit)
    BY <2>1 DEF Falls
  <2> QED BY <2>2, <2>5, <2>6, <2>7, <2>8, <2>9 DEF a, S, n, hits, Keys
<1> QED BY <1>1, SpecAnswers, PTL

-----------------------------------------------------------------------------
(* The connection                                                          *)

\* An attempt that is under way is the one callers wait for, or was given up;
\* while there is one to wait for there is no connection in use.
DialInv ==
    /\ conn \in [Dials -> {"unused", "dialing", "open", "closed"}]
    /\ \A d \in Dials : conn[d] = "dialing" => d = connecting \/ d \in given_up
    /\ connecting # NoDial => client = NoDial

ConnInv == DialInv /\ OpenIsUsed

LEMMA SameConn ==
    ASSUME ConnInv, UNCHANGED <<client, connecting, conn, given_up>>
    PROVE  ConnInv'
BY DEF ConnInv, DialInv, OpenIsUsed

LEMMA LoadConn ==
    ASSUME ConnInv, NEW c \in Clients, NEW a, Load(c, a)
    PROVE  ConnInv'
<1>1. \/ UNCHANGED <<client, connecting, conn, given_up>>
      \/ /\ client = NoDial /\ connecting = NoDial
         /\ UNCHANGED <<client, given_up>>
         /\ \E d \in Dials : /\ conn' = [conn EXCEPT ![d] = "dialing"]
                             /\ connecting' = d
  BY DEF Load, Send, GetClient, connVars
<1>2. CASE client = NoDial /\ connecting = NoDial /\ UNCHANGED <<client, given_up>>
  <2> SUFFICES ASSUME NEW d \in Dials, conn' = [conn EXCEPT ![d] = "dialing"],
                      connecting' = d
               PROVE  ConnInv'
    BY <1>1, <1>2, SameConn
  <2> QED BY <1>2, NoAssumption DEF ConnInv, DialInv, OpenIsUsed
<1> QED BY <1>1, <1>2, SameConn

LEMMA DialConn ==
    ASSUME ConnInv, NEW d \in Dials,
           \/ DialOpens(d) \/ DialOpensLate(d) \/ DialFails(d)
           \/ DialTimesOut(d) \/ ServerExits(d)
    PROVE  ConnInv'
<1>1. CASE DialOpens(d)
  <2>1. /\ connecting = d /\ client = NoDial /\ client' = d /\ connecting' = NoDial
        /\ conn' = [conn EXCEPT ![d] = "open"] /\ given_up' = given_up
    BY <1>1, NoAssumption DEF DialOpens, ConnInv, DialInv
  <2> QED BY <2>1, NoAssumption DEF ConnInv, DialInv, OpenIsUsed
<1>2. CASE DialOpensLate(d)
  <2>1. /\ d \in given_up /\ conn' = [conn EXCEPT ![d] = "open"]
        /\ UNCHANGED <<client, connecting, given_up>>
    BY <1>2 DEF DialOpensLate, ConnInv, DialInv
  <2> QED BY <2>1 DEF ConnInv, DialInv, OpenIsUsed
<1>3. CASE DialFails(d)
  <2>1. /\ conn' = [conn EXCEPT ![d] = "closed"] /\ UNCHANGED <<client, given_up>>
        /\ connecting' = IF connecting = d THEN NoDial ELSE connecting
    BY <1>3 DEF DialFails
  <2> QED BY <2>1 DEF ConnInv, DialInv, OpenIsUsed
<1>4. CASE DialTimesOut(d)
  <2>1. /\ connecting = d /\ connecting' = NoDial /\ given_up' = given_up \union {d}
        /\ UNCHANGED <<client, conn>>
    BY <1>4 DEF DialTimesOut
  <2> QED BY <2>1 DEF ConnInv, DialInv, OpenIsUsed
<1>5. CASE ServerExits(d)
  <2>1. /\ conn' = [conn EXCEPT ![d] = "closed"]
        /\ UNCHANGED <<client, connecting, given_up>>
    BY <1>5 DEF ServerExits
  <2> QED BY <2>1 DEF ConnInv, DialInv, OpenIsUsed
<1> QED BY <1>1, <1>2, <1>3, <1>4, <1>5

\* A server that was connected in time is never left behind: every open
\* connection is the one in use, or one whose init timer had fired (getClient,
\* connect).
THEOREM ServersAreUsed == RecallSpec => []OpenIsUsed
<1>1. RecallInit => ConnInv
  BY DEF RecallInit, ObsidianInit, ConnInv, DialInv, OpenIsUsed
<1>2. ASSUME ConnInv, [RecallNext]_<<memoryVars, obsidianVars, side>>
      PROVE  ConnInv'
  <2>1. ASSUME NEW c \in Clients, NEW a \in Asks \union {Ping}, Load(c, a)
        PROVE  ConnInv'
    BY <1>2, <2>1, LoadConn
  <2>2. ASSUME NEW c \in Clients,
               \/ \E a \in Asks : Remember(c, a)
               \/ \E r \in Replies : VaultAnswers(c, r)
               \/ RequestFails(c) \/ Arrive(c)
        PROVE  ConnInv'
    <3>1. UNCHANGED <<client, connecting, conn, given_up>>
      BY <2>2 DEF Remember, VaultAnswers, RequestFails, Arrive, connVars
    <3> QED BY <1>2, <3>1, SameConn
  <2>3. ASSUME NEW d \in Dials,
               \/ DialOpens(d) \/ DialOpensLate(d) \/ DialFails(d)
               \/ DialTimesOut(d) \/ ServerExits(d)
        PROVE  ConnInv'
    BY <1>2, <2>3, DialConn
  <2>4. CASE Tick
    BY <1>2, <2>4, SameConn DEF Tick, connVars
  <2>5. CASE UNCHANGED obsidianVars
    BY <1>2, <2>5, SameConn DEF obsidianVars, connVars
  <2> QED BY <1>2, <2>1, <2>2, <2>3, <2>4, <2>5 DEF RecallNext, ObsidianNext
<1>3. ConnInv => OpenIsUsed
  BY DEF ConnInv
<1> QED BY <1>1, <1>2, <1>3, PTL DEF RecallSpec

-----------------------------------------------------------------------------
(* The cache                                                               *)

AnswerTypes ==
    /\ clock \in Time
    /\ entry \in [Asks -> Entry \union {NoEntry}]
    /\ opc \in [Clients -> {"idle", "waiting", "asking", "reply", "failed"}]
    /\ ask \in [Clients -> Asks \union {Ping}]
    /\ since \in [Clients -> Time] /\ reply \in [Clients -> Value]
    /\ got \in [Clients -> Int]

\* A value was read at most a request's time before it was cached.
EntriesFresh ==
    \A a \in Asks : entry[a] # NoEntry =>
        /\ entry[a].t <= clock
        /\ entry[a].t - entry[a].value.seen <= RequestTimeout

\* The value on its way was read since its request was sent, which is no longer
\* ago than a request may take; a failure arrives at once.
RepliesFresh ==
    \A c \in Clients :
        /\ opc[c] \in {"asking", "reply"} =>
              since[c] <= clock /\ clock <= since[c] + RequestTimeout
        /\ opc[c] = "reply" => since[c] <= reply[c].seen
        /\ opc[c] = "failed" => reply[c].seen = clock

RecentInv == AnswerTypes /\ EntriesFresh /\ RepliesFresh /\ AnswerIsRecent

LEMMA SameRecent ==
    ASSUME RecentInv, UNCHANGED <<clock, entry, opc, ask, since, reply, got>>
    PROVE  RecentInv'
BY DEF RecentInv, AnswerTypes, EntriesFresh, RepliesFresh, AnswerIsRecent

LEMMA FailedType == ASSUME clock \in Time PROVE Failed \in Value /\ Failed.seen = clock
BY DEF Failed, Value

\* A step that leaves the cache and what was answered alone.
LEMMA CallRecent ==
    ASSUME RecentInv, UNCHANGED <<clock, entry, ask, got>>,
           opc' \in [Clients -> {"idle", "waiting", "asking", "reply", "failed"}],
           since' \in [Clients -> Time], reply' \in [Clients -> Value],
           \A c \in Clients : opc'[c] # opc[c] \/ since'[c] # since[c]
                                \/ reply'[c] # reply[c] =>
               \/ opc'[c] \in {"idle", "waiting"}
               \/ opc'[c] = "asking" /\ since'[c] = clock
               \/ /\ opc'[c] = "reply" /\ opc[c] \in {"asking", "reply"}
                  /\ since'[c] = since[c] /\ reply'[c].seen = clock
               \/ opc'[c] = "failed" /\ reply'[c].seen = clock
    PROVE  RecentInv'
<1>1. AnswerTypes'
  BY DEF RecentInv, AnswerTypes
<1>2. EntriesFresh' /\ AnswerIsRecent'
  BY DEF RecentInv, EntriesFresh, AnswerIsRecent
<1>3. RepliesFresh'
  <2> SUFFICES ASSUME NEW c \in Clients
               PROVE  /\ opc'[c] \in {"asking", "reply"} =>
                           since'[c] <= clock /\ clock <= since'[c] + RequestTimeout
                      /\ opc'[c] = "reply" => since'[c] <= reply'[c].seen
                      /\ opc'[c] = "failed" => reply'[c].seen = clock
    BY DEF RepliesFresh
  <2>1. clock \in Int /\ RequestTimeout \in Nat
    BY ClockAssumption, TimeoutAssumption DEF RecentInv, AnswerTypes, Time
  <2> QED BY <2>1 DEF RecentInv, RepliesFresh
<1> QED BY <1>1, <1>2, <1>3 DEF RecentInv

LEMMA RememberRecent ==
    ASSUME RecentInv, NEW c \in Clients, NEW a \in Asks, Remember(c, a)
    PROVE  RecentInv'
<1>1. /\ entry[a] # NoEntry /\ clock - entry[a].t < Ttl
      /\ got' = [got EXCEPT ![c] = clock - entry[a].value.seen]
      /\ UNCHANGED <<clock, entry, opc, ask, since, reply>>
  BY DEF Remember, Fresh, Reinsert, Get
<1>2. /\ entry[a].t \in Int /\ entry[a].value.seen \in Int /\ clock \in Int
      /\ Ttl \in Nat /\ RequestTimeout \in Nat
  BY <1>1, TtlAssumption, TimeoutAssumption, ClockAssumption
  DEF RecentInv, AnswerTypes, Entry, Value, Time
<1>3. clock - entry[a].value.seen < Ttl + RequestTimeout
  BY <1>1, <1>2 DEF RecentInv, EntriesFresh
<1>4. AnswerTypes'
  BY <1>1, <1>2 DEF RecentInv, AnswerTypes
<1>5. EntriesFresh' /\ RepliesFresh'
  BY <1>1 DEF RecentInv, EntriesFresh, RepliesFresh
<1>6. AnswerIsRecent'
  BY <1>1, <1>3 DEF RecentInv, AnswerTypes, AnswerIsRecent
<1> QED BY <1>4, <1>5, <1>6 DEF RecentInv

LEMMA ArriveRecent ==
    ASSUME RecentInv, NEW c \in Clients, Arrive(c)
    PROVE  RecentInv'
<1> DEFINE value == reply[c]
<1>1. /\ opc[c] \in {"reply", "failed"} /\ UNCHANGED clock
      /\ opc' = [opc EXCEPT ![c] = "idle"] /\ ask' = [ask EXCEPT ![c] = Ping]
      /\ since' = [since EXCEPT ![c] = 0] /\ reply' = [reply EXCEPT ![c] = Nothing]
      /\ got' = [got EXCEPT ![c] = clock - value.seen]
  BY DEF Arrive, Get, Place
<1>2. clock \in Time /\ value \in Value /\ since[c] \in Time /\ 0 \in Time
  BY ClockAssumption DEF RecentInv, AnswerTypes, Time
<1>3. /\ clock \in Int /\ value.seen \in Int /\ since[c] \in Int
      /\ Ttl \in Nat \ {0} /\ RequestTimeout \in Nat
  BY <1>2, TtlAssumption, TimeoutAssumption, ClockAssumption DEF Value, Time
<1>4. clock - value.seen <= RequestTimeout
  BY <1>1, <1>3 DEF RecentInv, RepliesFresh
<1>5. \A k \in Asks : entry'[k] \in {NoEntry, entry[k], [t |-> clock, value |-> value]}
  <2>1. CASE ask[c] = Ping
    BY <2>1 DEF Arrive, cacheVars
  <2>2. CASE ask[c] # Ping
    BY <2>2 DEF Arrive, Touch, RecentInv, AnswerTypes
  <2> QED BY <2>1, <2>2
<1>6. [t |-> clock, value |-> value] \in Entry
  BY <1>2 DEF Entry
<1>7. entry' \in [Asks -> Entry \union {NoEntry}]
  <2>1. \A k \in Asks : entry'[k] \in Entry \union {NoEntry}
    BY <1>5, <1>6 DEF RecentInv, AnswerTypes
  <2>2. \E f : entry' = [k \in Asks |-> f[k]]
    <3>1. CASE ask[c] = Ping
      BY <3>1 DEF Arrive, cacheVars, RecentInv, AnswerTypes
    <3>2. CASE ask[c] # Ping
      <4> DEFINE keys == IF entry[ask[c]] = NoEntry THEN Append(order, ask[c]) ELSE order
                 out == SubSeq(keys, 1, Len(keys) - MaxEntries)
                 set == [entry EXCEPT ![ask[c]] = [t |-> clock, value |-> value]]
                 f == [k \in Asks |-> IF k \in ToSet(out) THEN NoEntry ELSE set[k]]
      <4>1. entry' = f
        BY <3>2 DEF Arrive, Touch
      <4>2. f = [k \in Asks |-> f[k]]
        OBVIOUS
      <4> QED BY <4>1, <4>2
    <3> QED BY <3>1, <3>2
  <2> QED BY <2>1, <2>2
<1>8. AnswerTypes'
  <2>1. Nothing \in Value
    BY <1>2 DEF Nothing, Value
  <2> QED BY <1>1, <1>2, <1>3, <1>7, <2>1 DEF RecentInv, AnswerTypes
<1>9. EntriesFresh'
  <2> SUFFICES ASSUME NEW a \in Asks, entry'[a] # NoEntry
               PROVE  /\ entry'[a].t <= clock
                      /\ entry'[a].t - entry'[a].value.seen <= RequestTimeout
    BY <1>1 DEF EntriesFresh
  <2>1. CASE entry'[a] = entry[a]
    BY <2>1 DEF RecentInv, EntriesFresh
  <2>2. CASE entry'[a] = [t |-> clock, value |-> value]
    BY <2>2, <1>3, <1>4
  <2> QED BY <1>5, <2>1, <2>2
<1>10. RepliesFresh'
  BY <1>1 DEF RecentInv, AnswerTypes, RepliesFresh
<1>11. AnswerIsRecent'
  BY <1>1, <1>3, <1>4 DEF RecentInv, AnswerTypes, AnswerIsRecent
<1> QED BY <1>8, <1>9, <1>10, <1>11 DEF RecentInv

LEMMA LoadRecent ==
    ASSUME RecentInv, NEW c \in Clients, NEW a \in Asks \union {Ping}, Load(c, a)
    PROVE  RecentInv'
<1>1. /\ ask' = [ask EXCEPT ![c] = a] /\ got' = [got EXCEPT ![c] = 0]
      /\ UNCHANGED <<clock, entry, reply>>
      /\ \/ /\ opc' = [opc EXCEPT ![c] = "asking"]
            /\ since' = [since EXCEPT ![c] = clock]
         \/ opc' = [opc EXCEPT ![c] = "waiting"] /\ UNCHANGED since
  BY DEF Load, Send, GetClient, Place, cacheVars
<1>2. AnswerTypes'
  BY <1>1 DEF RecentInv, AnswerTypes
<1>3. EntriesFresh'
  BY <1>1 DEF RecentInv, EntriesFresh
<1>4. clock \in Int /\ Ttl \in Nat \ {0} /\ RequestTimeout \in Nat
  BY TtlAssumption, TimeoutAssumption, ClockAssumption DEF RecentInv, AnswerTypes, Time
<1>5. RepliesFresh'
  BY <1>1, <1>4 DEF RecentInv, AnswerTypes, RepliesFresh
<1>6. AnswerIsRecent'
  BY <1>1, <1>4 DEF RecentInv, AnswerTypes, AnswerIsRecent
<1> QED BY <1>2, <1>3, <1>5, <1>6 DEF RecentInv

LEMMA FailWaitingRecent ==
    ASSUME RecentInv, FailWaiting, UNCHANGED <<clock, entry, ask, got>>
    PROVE  RecentInv'
<1>1. clock \in Time /\ Failed \in Value /\ Failed.seen = clock
  BY FailedType DEF RecentInv, AnswerTypes
<1>2. /\ opc' \in [Clients -> {"idle", "waiting", "asking", "reply", "failed"}]
      /\ since' \in [Clients -> Time] /\ reply' \in [Clients -> Value]
  BY <1>1 DEF FailWaiting, RecentInv, AnswerTypes
<1>3. \A c \in Clients :
          \/ opc'[c] = opc[c] /\ since'[c] = since[c] /\ reply'[c] = reply[c]
          \/ opc'[c] = "failed" /\ reply'[c].seen = clock
  BY <1>1 DEF FailWaiting, RecentInv, AnswerTypes
<1> QED BY <1>2, <1>3, CallRecent

LEMMA DialRecent ==
    ASSUME RecentInv, NEW d \in Dials,
           \/ DialOpens(d) \/ DialOpensLate(d) \/ DialFails(d)
           \/ DialTimesOut(d) \/ ServerExits(d)
    PROVE  RecentInv'
<1>1. CASE DialOpens(d)
  <2>1. /\ opc' = [c \in Clients |-> IF c \in Waiting THEN "asking" ELSE opc[c]]
        /\ since' = [c \in Clients |-> IF c \in Waiting THEN clock ELSE since[c]]
        /\ UNCHANGED <<clock, entry, ask, reply, got>>
    BY <1>1 DEF DialOpens, cacheVars
  <2>2. /\ opc' \in [Clients -> {"idle", "waiting", "asking", "reply", "failed"}]
        /\ since' \in [Clients -> Time] /\ reply' \in [Clients -> Value]
    BY <2>1 DEF RecentInv, AnswerTypes
  <2>3. \A c \in Clients :
            \/ opc'[c] = opc[c] /\ since'[c] = since[c] /\ reply'[c] = reply[c]
            \/ opc'[c] = "asking" /\ since'[c] = clock
    BY <2>1 DEF RecentInv, AnswerTypes
  <2> QED BY <2>1, <2>2, <2>3, CallRecent
<1>2. CASE DialOpensLate(d) \/ ServerExits(d)
  BY <1>2, SameRecent DEF DialOpensLate, ServerExits, cacheVars, callVars
<1>3. CASE DialFails(d) \/ DialTimesOut(d)
  <2>1. /\ UNCHANGED <<clock, entry, ask, got>>
        /\ FailWaiting \/ UNCHANGED <<opc, reply, since>>
    BY <1>3 DEF DialFails, DialTimesOut, cacheVars
  <2> QED BY <2>1, FailWaitingRecent, SameRecent
<1> QED BY <1>1, <1>2, <1>3

LEMMA ReplyRecent ==
    ASSUME RecentInv, NEW c \in Clients,
           (\E r \in Replies : VaultAnswers(c, r)) \/ RequestFails(c)
    PROVE  RecentInv'
<1>1. PICK value : /\ reply' = [reply EXCEPT ![c] = value]
                   /\ value \in Value /\ value.seen = clock
  <2>1. \A r : Normalise(r) \in Value /\ Normalise(r).seen = clock
    BY DEF RecentInv, AnswerTypes, Normalise, Value
  <2>2. Failed \in Value /\ Failed.seen = clock
    BY FailedType DEF RecentInv, AnswerTypes
  <2> QED BY <2>1, <2>2 DEF VaultAnswers, RequestFails
<1>2. /\ \/ opc[c] = "asking" /\ opc' = [opc EXCEPT ![c] = "reply"]
         \/ opc' = [opc EXCEPT ![c] = "failed"]
      /\ UNCHANGED <<clock, entry, ask, since, got>>
  BY DEF VaultAnswers, RequestFails, Place, cacheVars
<1>3. /\ opc' \in [Clients -> {"idle", "waiting", "asking", "reply", "failed"}]
      /\ since' \in [Clients -> Time] /\ reply' \in [Clients -> Value]
  BY <1>1, <1>2 DEF RecentInv, AnswerTypes
<1>4. \A b \in Clients :
          \/ opc'[b] = opc[b] /\ since'[b] = since[b] /\ reply'[b] = reply[b]
          \/ /\ opc'[b] = "reply" /\ opc[b] = "asking"
             /\ since'[b] = since[b] /\ reply'[b].seen = clock
          \/ opc'[b] = "failed" /\ reply'[b].seen = clock
  BY <1>1, <1>2 DEF RecentInv, AnswerTypes
<1> QED BY <1>2, <1>3, <1>4, CallRecent

LEMMA TickRecent ==
    ASSUME RecentInv, Tick
    PROVE  RecentInv'
<1>1. /\ clock' = clock + 1 /\ clock < MaxClock
      /\ \A c \in Clients :
           /\ opc[c] \in {"asking", "reply"} => clock < since[c] + RequestTimeout
           /\ opc[c] # "failed"
      /\ UNCHANGED <<entry, opc, ask, since, reply, got>>
  BY DEF Tick, cacheVars, callVars
<1>2. /\ clock \in Int /\ RequestTimeout \in Nat /\ MaxClock \in Nat
      /\ \A c \in Clients : since[c] \in Int
      /\ \A a \in Asks : entry[a] # NoEntry => entry[a].t \in Int
  BY TimeoutAssumption, ClockAssumption DEF RecentInv, AnswerTypes, Entry, Time
<1>3. AnswerTypes'
  BY <1>1, <1>2, ClockAssumption DEF RecentInv, AnswerTypes, Time
<1>4. EntriesFresh'
  BY <1>1, <1>2 DEF RecentInv, EntriesFresh
<1>5. RepliesFresh'
  BY <1>1, <1>2 DEF RecentInv, RepliesFresh
<1>6. AnswerIsRecent'
  BY <1>1 DEF RecentInv, AnswerIsRecent
<1> QED BY <1>3, <1>4, <1>5, <1>6 DEF RecentInv

LEMMA SpecRecent == RecallSpec => []RecentInv
<1>1. RecallInit => RecentInv
  <2>1. 0 \in Time /\ Ttl \in Nat \ {0} /\ RequestTimeout \in Nat
    BY ClockAssumption, TtlAssumption, TimeoutAssumption DEF Time
  <2>2. Nothing \in Value
    BY <2>1 DEF Nothing, Value
  <2> QED BY <2>1, <2>2 DEF RecallInit, ObsidianInit, RecentInv, AnswerTypes,
                            EntriesFresh, RepliesFresh, AnswerIsRecent
<1>2. ASSUME RecentInv, [RecallNext]_<<memoryVars, obsidianVars, side>>
      PROVE  RecentInv'
  <2>1. ASSUME NEW c \in Clients, NEW a \in Asks, Remember(c, a) PROVE RecentInv'
    BY <1>2, <2>1, RememberRecent
  <2>2. ASSUME NEW c \in Clients, NEW a \in Asks \union {Ping}, Load(c, a)
        PROVE  RecentInv'
    BY <1>2, <2>2, LoadRecent
  <2>3. ASSUME NEW c \in Clients,
               (\E r \in Replies : VaultAnswers(c, r)) \/ RequestFails(c)
        PROVE  RecentInv'
    BY <1>2, <2>3, ReplyRecent
  <2>4. ASSUME NEW c \in Clients, Arrive(c) PROVE RecentInv'
    BY <1>2, <2>4, ArriveRecent
  <2>5. ASSUME NEW d \in Dials,
               \/ DialOpens(d) \/ DialOpensLate(d) \/ DialFails(d)
               \/ DialTimesOut(d) \/ ServerExits(d)
        PROVE  RecentInv'
    BY <1>2, <2>5, DialRecent
  <2>6. CASE Tick
    BY <1>2, <2>6, TickRecent
  <2>7. CASE UNCHANGED obsidianVars
    BY <1>2, <2>7, SameRecent DEF obsidianVars, cacheVars, callVars
  <2> QED BY <1>2, <2>1, <2>2, <2>3, <2>4, <2>5, <2>6, <2>7 DEF RecallNext, ObsidianNext
<1> QED BY <1>1, <1>2, PTL DEF RecallSpec

\* No answer shows the vault as it was longer ago than an entry may live and a
\* request may take, for every lifetime and timeout (remember, touch).
THEOREM AnswersAreRecent == RecallSpec => []AnswerIsRecent
<1>1. RecentInv => AnswerIsRecent
  BY DEF RecentInv
<1> QED BY <1>1, SpecRecent, PTL

-----------------------------------------------------------------------------
(* The keys of the cache                                                   *)

\* A key that is moved to the back stays one of the same keys.
LEMMA MovedKeys ==
    ASSUME NEW q \in Seq(Asks), IsInjective(q), NEW i \in 1 .. Len(q)
    PROVE  LET r == Append(RemoveAt(q, i), q[i])
           IN  /\ r \in Seq(Asks) /\ IsInjective(r)
               /\ ToSet(r) = ToSet(q) /\ Len(r) = Len(q)
<1> DEFINE n == Len(q)
           front == SubSeq(q, 1, i - 1)
           back == SubSeq(q, i + 1, n)
           others == front \o back
           r == Append(others, q[i])
<1>1. n \in Nat /\ i \in 1 .. n /\ DOMAIN q = 1 .. n /\ \A j \in 1 .. n : q[j] \in Asks
  BY LenProperties, ElementOfSeq
<1>2. /\ front \in Seq(Asks) /\ Len(front) = i - 1
      /\ \A j \in 1 .. i - 1 : front[j] = q[j]
  <2>1. 1 \in Int /\ i - 1 \in Int /\ \A j \in 1 .. i - 1 : q[j] \in Asks
    BY <1>1
  <2>2. /\ front \in Seq(Asks)
        /\ Len(front) = IF 1 <= i - 1 THEN (i - 1) - 1 + 1 ELSE 0
        /\ \A j \in 1 .. (i - 1) - 1 + 1 : front[j] = q[1 + j - 1]
    BY <2>1, SubSeqProperties
  <2> HIDE DEF front
  <2>3. Len(front) = i - 1
    BY <1>1, <2>2
  <2>4. ASSUME NEW j \in 1 .. i - 1 PROVE front[j] = q[j]
    <3>1. j \in 1 .. (i - 1) - 1 + 1 /\ 1 + j - 1 = j
      BY <1>1
    <3> QED BY <2>2, <3>1
  <2> QED BY <2>2, <2>3, <2>4
<1>3. /\ back \in Seq(Asks) /\ Len(back) = n - i
      /\ \A j \in 1 .. n - i : back[j] = q[i + j]
  <2>1. i + 1 \in Int /\ n \in Int /\ \A j \in i + 1 .. n : q[j] \in Asks
    BY <1>1
  <2>2. /\ back \in Seq(Asks)
        /\ Len(back) = IF i + 1 <= n THEN n - (i + 1) + 1 ELSE 0
        /\ \A j \in 1 .. n - (i + 1) + 1 : back[j] = q[i + 1 + j - 1]
    BY <2>1, SubSeqProperties
  <2> HIDE DEF back, n
  <2>3. Len(back) = n - i
    BY <1>1, <2>2
  <2>4. ASSUME NEW j \in 1 .. n - i PROVE back[j] = q[i + j]
    <3>1. j \in 1 .. n - (i + 1) + 1 /\ i + 1 + j - 1 = i + j
      BY <1>1
    <3> QED BY <2>2, <3>1
  <2> QED BY <2>2, <2>3, <2>4
<1> HIDE DEF front, back, n
<1>4. /\ others \in Seq(Asks) /\ Len(others) = n - 1
      /\ \A j \in 1 .. n - 1 : others[j] = IF j < i THEN q[j] ELSE q[j + 1]
  <2>1. /\ others \in Seq(Asks) /\ Len(others) = Len(front) + Len(back)
        /\ \A j \in 1 .. Len(front) + Len(back) :
             others[j] = IF j <= Len(front) THEN front[j] ELSE back[j - Len(front)]
    BY <1>2, <1>3, ConcatProperties
  <2> HIDE DEF others
  <2>2. Len(front) + Len(back) = n - 1
    BY <1>1, <1>2, <1>3
  <2>3. ASSUME NEW j \in 1 .. n - 1, j < i PROVE others[j] = q[j]
    <3>1. j \in 1 .. i - 1 /\ j <= Len(front)
      BY <1>1, <1>2, <2>3
    <3> QED BY <1>2, <2>1, <2>2, <3>1
  <2>4. ASSUME NEW j \in 1 .. n - 1, ~ (j < i) PROVE others[j] = q[j + 1]
    <3>1. /\ j - (i - 1) \in 1 .. n - i /\ i + (j - (i - 1)) = j + 1
          /\ ~ (j <= i - 1)
      BY <1>1, <2>4
    <3>2. others[j] = back[j - (i - 1)]
      BY <1>2, <2>1, <2>2, <3>1
    <3>3. back[j - (i - 1)] = q[i + (j - (i - 1))]
      BY <1>3, <3>1
    <3> QED BY <3>1, <3>2, <3>3
  <2> QED BY <2>1, <2>2, <2>3, <2>4
<1> HIDE DEF others
<1>5. /\ r \in Seq(Asks) /\ Len(r) = n /\ DOMAIN r = 1 .. n
      /\ r[n] = q[i] /\ \A j \in 1 .. n - 1 : r[j] = others[j]
  <2>1. q[i] \in Asks
    BY <1>1
  <2>2. /\ r \in Seq(Asks) /\ Len(r) = Len(others) + 1
        /\ \A j \in 1 .. Len(others) : r[j] = others[j]
        /\ r[Len(others) + 1] = q[i]
    BY <1>4, <2>1, AppendProperties
  <2>3. Len(others) = n - 1 /\ Len(others) + 1 = n
    BY <1>1, <1>4
  <2>4. DOMAIN r = 1 .. Len(r)
    BY <2>2, LenProperties
  <2> HIDE DEF r
  <2> QED BY <2>2, <2>3, <2>4
<1> HIDE DEF r
<1> DEFINE from(j) == IF j = n THEN i ELSE IF j < i THEN j ELSE j + 1
<1>6. \A j \in 1 .. n : from(j) \in 1 .. n /\ r[j] = q[from(j)]
  <2> SUFFICES ASSUME NEW j \in 1 .. n
               PROVE  from(j) \in 1 .. n /\ r[j] = q[from(j)]
    OBVIOUS
  <2>1. CASE j = n
    BY <1>1, <1>5, <2>1
  <2>2. CASE j # n
    <3>1. j \in 1 .. n - 1
      BY <1>1, <2>2
    <3>2. r[j] = IF j < i THEN q[j] ELSE q[j + 1]
      BY <1>4, <1>5, <3>1
    <3>3. from(j) \in 1 .. n
      BY <1>1, <2>2
    <3> QED BY <2>2, <3>2, <3>3
  <2> QED BY <2>1, <2>2
<1>7. \A j \in 1 .. n : \E k \in 1 .. n : from(k) = j
  <2> SUFFICES ASSUME NEW j \in 1 .. n PROVE \E k \in 1 .. n : from(k) = j
    OBVIOUS
  <2>1. CASE j = i
    <3>1. n \in 1 .. n /\ from(n) = j
      BY <1>1, <2>1
    <3> QED BY <3>1
  <2>2. CASE j < i
    <3>1. from(j) = j
      BY <1>1, <2>2
    <3> QED BY <3>1
  <2>3. CASE j > i
    <3>1. j - 1 \in 1 .. n /\ j - 1 # n /\ ~ (j - 1 < i) /\ (j - 1) + 1 = j
      BY <1>1, <2>3
    <3>2. from(j - 1) = j
      BY <3>1
    <3> HIDE DEF from
    <3> QED BY <3>1, <3>2
  <2>4. j = i \/ j < i \/ j > i
    BY <1>1
  <2> HIDE DEF from
  <2> QED BY <2>1, <2>2, <2>3, <2>4
<1>8. \A j, k \in 1 .. n : from(j) = from(k) => j = k
  BY <1>1
<1> HIDE DEF from
<1>9. IsInjective(r)
  <2> SUFFICES ASSUME NEW j \in 1 .. n, NEW k \in 1 .. n, r[j] = r[k] PROVE j = k
    BY <1>5 DEF IsInjective
  <2>1. from(j) = from(k)
    BY <1>1, <1>6 DEF IsInjective
  <2> QED BY <1>8, <2>1
<1>10. ToSet(r) = ToSet(q)
  <2>1. ASSUME NEW x \in ToSet(r) PROVE x \in ToSet(q)
    <3>1. PICK j \in 1 .. n : x = r[j]
      BY <1>5, <2>1 DEF ToSet
    <3> QED BY <1>1, <1>6, <3>1 DEF ToSet
  <2>2. ASSUME NEW x \in ToSet(q) PROVE x \in ToSet(r)
    <3>1. PICK j \in 1 .. n : x = q[j]
      BY <1>1, <2>2 DEF ToSet
    <3>2. PICK k \in 1 .. n : from(k) = j
      BY <1>7
    <3> QED BY <1>5, <1>6, <3>1, <3>2 DEF ToSet
  <2> QED BY <2>1, <2>2
<1> QED BY <1>5, <1>9, <1>10 DEF RemoveAt, r, others, front, back, n

\* The keys that are left when the first m have gone.
LEMMA CutKeys ==
    ASSUME NEW q \in Seq(Asks), IsInjective(q), NEW m \in 0 .. Len(q)
    PROVE  LET rest == SubSeq(q, m + 1, Len(q))
           IN  /\ rest \in Seq(Asks) /\ IsInjective(rest) /\ Len(rest) = Len(q) - m
               /\ ToSet(rest) = ToSet(q) \ ToSet(SubSeq(q, 1, m))
               /\ Len(SubSeq(q, 1, m)) = m
<1> DEFINE n == Len(q)
           rest == SubSeq(q, m + 1, n)
           out == SubSeq(q, 1, m)
<1>1. n \in Nat /\ m \in 0 .. n /\ DOMAIN q = 1 .. n /\ \A j \in 1 .. n : q[j] \in Asks
  BY LenProperties, ElementOfSeq
<1>2. /\ rest \in Seq(Asks) /\ Len(rest) = n - m /\ DOMAIN rest = 1 .. n - m
      /\ \A j \in 1 .. n - m : rest[j] = q[m + j]
  <2>1. m + 1 \in Int /\ n \in Int /\ \A j \in m + 1 .. n : q[j] \in Asks
    BY <1>1
  <2>2. /\ rest \in Seq(Asks)
        /\ Len(rest) = IF m + 1 <= n THEN n - (m + 1) + 1 ELSE 0
        /\ \A j \in 1 .. n - (m + 1) + 1 : rest[j] = q[m + 1 + j - 1]
    BY <2>1, SubSeqProperties
  <2>3. DOMAIN rest = 1 .. Len(rest)
    BY <2>2, LenProperties
  <2> HIDE DEF rest, n
  <2>4. Len(rest) = n - m
    BY <1>1, <2>2
  <2>5. ASSUME NEW j \in 1 .. n - m PROVE rest[j] = q[m + j]
    <3>1. j \in 1 .. n - (m + 1) + 1 /\ m + 1 + j - 1 = m + j
      BY <1>1
    <3> QED BY <2>2, <3>1
  <2> QED BY <2>2, <2>3, <2>4, <2>5
<1>3. /\ Len(out) = m /\ DOMAIN out = 1 .. m
      /\ \A j \in 1 .. m : out[j] = q[j]
  <2>1. 1 \in Int /\ m \in Int /\ \A j \in 1 .. m : q[j] \in Asks
    BY <1>1
  <2>2. /\ out \in Seq(Asks) /\ Len(out) = IF 1 <= m THEN m - 1 + 1 ELSE 0
        /\ \A j \in 1 .. m - 1 + 1 : out[j] = q[1 + j - 1]
    BY <2>1, SubSeqProperties
  <2>3. DOMAIN out = 1 .. Len(out)
    BY <2>2, LenProperties
  <2> HIDE DEF out
  <2>4. Len(out) = m
    BY <1>1, <2>2
  <2>5. ASSUME NEW j \in 1 .. m PROVE out[j] = q[j]
    <3>1. j \in 1 .. m - 1 + 1 /\ 1 + j - 1 = j
      BY <1>1
    <3> QED BY <2>2, <3>1
  <2> QED BY <2>3, <2>4, <2>5
<1> HIDE DEF rest, out, n
<1>4. IsInjective(rest)
  <2> SUFFICES ASSUME NEW j \in 1 .. n - m, NEW k \in 1 .. n - m, rest[j] = rest[k]
               PROVE  j = k
    BY <1>2 DEF IsInjective
  <2>1. m + j \in 1 .. n /\ m + k \in 1 .. n
    BY <1>1
  <2>2. m + j = m + k
    BY <1>1, <1>2, <2>1 DEF IsInjective
  <2> QED BY <1>1, <2>2
<1>5. ToSet(rest) = ToSet(q) \ ToSet(out)
  <2>1. ASSUME NEW x \in ToSet(rest) PROVE x \in ToSet(q) /\ x \notin ToSet(out)
    <3>1. PICK j \in 1 .. n - m : x = q[m + j]
      BY <1>2, <2>1 DEF ToSet
    <3>2. m + j \in 1 .. n
      BY <1>1
    <3>3. ASSUME x \in ToSet(out) PROVE FALSE
      <4>1. PICK k \in 1 .. m : x = q[k]
        BY <1>3, <3>3 DEF ToSet
      <4>2. k \in 1 .. n /\ k # m + j
        BY <1>1
      <4> QED BY <1>1, <3>1, <3>2, <4>1, <4>2 DEF IsInjective
    <3> QED BY <1>1, <3>1, <3>2, <3>3 DEF ToSet
  <2>2. ASSUME NEW x \in ToSet(q), x \notin ToSet(out) PROVE x \in ToSet(rest)
    <3>1. PICK k \in 1 .. n : x = q[k]
      BY <1>1, <2>2 DEF ToSet
    <3>2. ~ (k <= m)
      <4>1. k <= m => k \in 1 .. m
        BY <1>1
      <4> QED BY <1>3, <2>2, <3>1, <4>1 DEF ToSet
    <3>3. k - m \in 1 .. n - m /\ m + (k - m) = k
      BY <1>1, <3>2
    <3>4. rest[k - m] = x
      BY <1>2, <3>1, <3>3
    <3> QED BY <1>2, <3>3, <3>4 DEF ToSet
  <2> QED BY <2>1, <2>2
<1> QED BY <1>2, <1>3, <1>4, <1>5 DEF rest, out, n

\* A new key at the back.
LEMMA AddedKey ==
    ASSUME NEW q \in Seq(Asks), IsInjective(q), NEW a \in Asks \ ToSet(q)
    PROVE  LET r == Append(q, a)
           IN  /\ r \in Seq(Asks) /\ IsInjective(r)
               /\ ToSet(r) = ToSet(q) \union {a} /\ Len(r) = Len(q) + 1
<1> DEFINE n == Len(q)
           r == Append(q, a)
<1>1. n \in Nat /\ DOMAIN q = 1 .. n
  BY LenProperties
<1>2. /\ r \in Seq(Asks) /\ Len(r) = n + 1 /\ DOMAIN r = 1 .. n + 1
      /\ r[n + 1] = a /\ \A j \in 1 .. n : r[j] = q[j]
  <2>1. /\ r \in Seq(Asks) /\ Len(r) = n + 1
        /\ r[n + 1] = a /\ \A j \in 1 .. n : r[j] = q[j]
    BY AppendProperties
  <2>2. DOMAIN r = 1 .. Len(r)
    BY <2>1, LenProperties
  <2> HIDE DEF r, n
  <2> QED BY <2>1, <2>2
<1> HIDE DEF r, n
<1>3. \A j \in 1 .. n : r[j] # a
  BY <1>1, <1>2 DEF ToSet
<1>4. \A j \in 1 .. n + 1 : j \in 1 .. n \/ j = n + 1
  BY <1>1
<1>5. IsInjective(r)
  <2> SUFFICES ASSUME NEW j \in 1 .. n + 1, NEW k \in 1 .. n + 1, r[j] = r[k]
               PROVE  j = k
    BY <1>2 DEF IsInjective
  <2> QED BY <1>1, <1>2, <1>3, <1>4 DEF IsInjective
<1>6. ToSet(r) = ToSet(q) \union {a}
  <2>1. ASSUME NEW x \in ToSet(r) PROVE x \in ToSet(q) \union {a}
    <3>1. PICK j \in 1 .. n + 1 : x = r[j]
      BY <1>2, <2>1 DEF ToSet
    <3> QED BY <1>1, <1>2, <1>4, <3>1 DEF ToSet
  <2>2. ASSUME NEW x \in ToSet(q) PROVE x \in ToSet(r)
    <3>1. PICK j \in 1 .. n : x = q[j]
      BY <1>1, <2>2 DEF ToSet
    <3>2. j \in 1 .. n + 1
      BY <1>1
    <3> QED BY <1>2, <3>1, <3>2 DEF ToSet
  <2>3. n + 1 \in 1 .. n + 1
    BY <1>1
  <2>4. a \in ToSet(r)
    BY <1>2, <2>3 DEF ToSet
  <2> QED BY <2>1, <2>2, <2>4
<1> QED BY <1>2, <1>5, <1>6 DEF r, n

\* The Map of the cache: each key once, a key for every entry, and no more of
\* them than the cap.
CacheKeys ==
    /\ order \in Seq(Asks) /\ IsInjective(order)
    /\ ToSet(order) = {a \in Asks : entry[a] # NoEntry}
    /\ Len(order) <= MaxEntries

LEMMA ReinsertKeys ==
    ASSUME CacheKeys, NEW a \in Asks, Reinsert(a)
    PROVE  CacheKeys'
<1>1. PICK i \in DOMAIN order : order[i] = a /\ order' = Append(RemoveAt(order, i), a)
  BY DEF Reinsert, Reordered
<1>2. i \in 1 .. Len(order) /\ order \in Seq(Asks) /\ IsInjective(order)
  BY LenProperties DEF CacheKeys
<1>3. order' = Append(RemoveAt(order, i), order[i])
  BY <1>1
<1>4. /\ order' \in Seq(Asks) /\ IsInjective(order')
      /\ ToSet(order') = ToSet(order) /\ Len(order') = Len(order)
  BY <1>2, <1>3, MovedKeys
<1> QED BY <1>4 DEF CacheKeys, Reinsert

LEMMA TouchKeys ==
    ASSUME CacheKeys, entry \in [Asks -> Entry \union {NoEntry}], clock \in Time,
           NEW a \in Asks, NEW value \in Value, Touch(a, value)
    PROVE  CacheKeys'
<1> DEFINE keys == IF entry[a] = NoEntry THEN Append(order, a) ELSE order
           m == Len(keys) - MaxEntries
           out == SubSeq(keys, 1, m)
           e == IF m > 0 THEN m ELSE 0
           set == [entry EXCEPT ![a] = [t |-> clock, value |-> value]]
           had == {k \in Asks : entry[k] # NoEntry}
<1>1. /\ order' = SubSeq(keys, Len(out) + 1, Len(keys))
      /\ entry' = [k \in Asks |-> IF k \in ToSet(out) THEN NoEntry ELSE set[k]]
  BY DEF Touch
<1>2. /\ keys \in Seq(Asks) /\ IsInjective(keys)
      /\ ToSet(keys) = had \union {a}
  <2>1. CASE entry[a] = NoEntry
    <3>1. a \notin ToSet(order) /\ order \in Seq(Asks) /\ IsInjective(order)
      BY <2>1 DEF CacheKeys
    <3>2. /\ Append(order, a) \in Seq(Asks) /\ IsInjective(Append(order, a))
          /\ ToSet(Append(order, a)) = ToSet(order) \union {a}
      BY <3>1, AddedKey
    <3> QED BY <2>1, <3>2 DEF CacheKeys
  <2>2. CASE entry[a] # NoEntry
    BY <2>2 DEF CacheKeys
  <2> QED BY <2>1, <2>2
<1> HIDE DEF keys
<1>3. Len(keys) \in Nat /\ MaxEntries \in Nat \ {0}
  BY <1>2, LenProperties, TtlAssumption
<1>4. e \in 0 .. Len(keys) /\ Len(keys) - e <= MaxEntries
  BY <1>3
<1>5. out = SubSeq(keys, 1, e)
  <2>1. CASE m > 0
    BY <2>1
  <2>2. CASE ~ (m > 0)
    <3>1. m \in Int /\ 1 \in Int /\ 0 \in Int /\ m < 1 /\ 0 < 1 /\ e = 0
      BY <1>3, <2>2
    <3>2. SubSeq(keys, 1, m) = <<>> /\ SubSeq(keys, 1, 0) = <<>>
      <4> HIDE DEF m, e
      <4> QED BY <3>1, SubSeqEmpty
    <3> QED BY <3>1, <3>2
  <2> QED BY <2>1, <2>2
<1> HIDE DEF out, e, m
<1> DEFINE rest == SubSeq(keys, e + 1, Len(keys))
<1>6. /\ rest \in Seq(Asks) /\ IsInjective(rest) /\ Len(rest) = Len(keys) - e
      /\ ToSet(rest) = ToSet(keys) \ ToSet(SubSeq(keys, 1, e))
      /\ Len(SubSeq(keys, 1, e)) = e
  BY <1>2, <1>4, CutKeys
<1>7. order' = rest /\ ToSet(rest) = (had \union {a}) \ ToSet(out)
  BY <1>1, <1>2, <1>5, <1>6
<1>8. \A k \in Asks : set[k] = IF k = a THEN [t |-> clock, value |-> value] ELSE entry[k]
  OBVIOUS
<1> HIDE DEF set
<1>9. [t |-> clock, value |-> value] # NoEntry
  BY NoAssumption DEF Entry
<1>10. ASSUME NEW k \in Asks
      PROVE  entry'[k] # NoEntry <=> k \in (had \union {a}) \ ToSet(out)
  <2>1. CASE k \in ToSet(out)
    BY <1>1, <2>1
  <2>2. CASE k \notin ToSet(out) /\ k = a
    <3>1. entry'[k] = [t |-> clock, value |-> value]
      BY <1>1, <1>8, <2>2
    <3> QED BY <1>9, <2>2, <3>1
  <2>3. CASE k \notin ToSet(out) /\ k # a
    <3>1. entry'[k] = entry[k]
      BY <1>1, <1>8, <2>3
    <3> QED BY <2>3, <3>1
  <2> QED BY <2>1, <2>2, <2>3
<1> HIDE DEF rest, had
<1>11. ToSet(order') = {k \in Asks : entry'[k] # NoEntry}
  <2>1. ToSet(order') \subseteq Asks
    BY <1>2, <1>7 DEF had
  <2> QED BY <1>7, <1>10, <2>1
<1>12. Len(order') <= MaxEntries
  BY <1>3, <1>4, <1>6, <1>7
<1> QED BY <1>6, <1>7, <1>11, <1>12 DEF CacheKeys

\* What was read is of the past.
SeenPast ==
    /\ \A a \in Asks : entry[a] # NoEntry => entry[a].value.seen <= clock
    /\ \A c \in Clients : reply[c].seen <= clock

DialTypes ==
    /\ adapter \in {"rest", "stdio"}
    /\ client \in Dials \union {NoDial} /\ connecting \in Dials \union {NoDial}
    /\ conn \in [Dials -> {"unused", "dialing", "open", "closed"}]
    /\ dialed \in [Dials -> Time] /\ given_up \subseteq Dials

VaultInv == CacheKeys /\ SeenPast /\ DialTypes /\ got \in [Clients -> Time]

LEMMA AgeIsTime ==
    ASSUME clock \in Time, NEW value \in Value, value.seen <= clock
    PROVE  clock - value.seen \in Time
<1>1. clock \in 0 .. MaxClock /\ value.seen \in 0 .. MaxClock /\ MaxClock \in Nat
  BY ClockAssumption DEF Time, Value
<1> QED BY <1>1 DEF Time

\* A step that leaves the cache alone, and at most brings an answer of now.
LEMMA CallVault ==
    ASSUME RecentInv, VaultInv, UNCHANGED <<clock, cacheVars>>, DialTypes',
           got' \in [Clients -> Time],
           \A c \in Clients : reply'[c] = reply[c] \/ reply'[c].seen = clock
    PROVE  VaultInv'
<1>1. CacheKeys'
  BY DEF VaultInv, CacheKeys, cacheVars
<1>2. clock \in Int
  BY ClockAssumption DEF RecentInv, AnswerTypes, Time
<1>3. SeenPast'
  BY <1>2 DEF VaultInv, SeenPast, cacheVars
<1> QED BY <1>1, <1>3 DEF VaultInv

LEMMA LoadVault ==
    ASSUME RecentInv, VaultInv, NEW c \in Clients, NEW a \in Asks \union {Ping}, Load(c, a)
    PROVE  VaultInv'
<1>1. /\ got' = [got EXCEPT ![c] = 0]
      /\ UNCHANGED <<clock, adapter, cacheVars, reply, client, given_up>>
      /\ \/ UNCHANGED <<connecting, conn, dialed>>
         \/ \E d \in Dials : /\ conn' = [conn EXCEPT ![d] = "dialing"]
                             /\ dialed' = [dialed EXCEPT ![d] = clock]
                             /\ connecting' = d
  BY DEF Load, Send, GetClient, connVars
<1>2. clock \in Time /\ 0 \in Time
  BY ClockAssumption DEF RecentInv, AnswerTypes, Time
<1>3. DialTypes'
  BY <1>1, <1>2 DEF VaultInv, DialTypes
<1>4. got' \in [Clients -> Time]
  BY <1>1, <1>2 DEF VaultInv
<1> QED BY <1>1, <1>3, <1>4, CallVault

LEMMA DialVault ==
    ASSUME RecentInv, VaultInv, NEW d \in Dials,
           \/ DialOpens(d) \/ DialOpensLate(d) \/ DialFails(d)
           \/ DialTimesOut(d) \/ ServerExits(d)
    PROVE  VaultInv'
<1>1. clock \in Time /\ 0 \in Time /\ Failed.seen = clock
  BY ClockAssumption, FailedType DEF RecentInv, AnswerTypes, Time
<1>2. UNCHANGED <<clock, cacheVars, adapter, got>>
  BY DEF DialOpens, DialOpensLate, DialFails, DialTimesOut, ServerExits, callVars
<1>3. /\ \/ UNCHANGED conn
         \/ \E p \in {"open", "closed"} : conn' = [conn EXCEPT ![d] = p]
      /\ UNCHANGED dialed \/ dialed' = [dialed EXCEPT ![d] = 0]
      /\ client' \in {client, d} /\ connecting' \in {connecting, NoDial}
      /\ given_up' \in {given_up, given_up \union {d}}
  BY DEF DialOpens, DialOpensLate, DialFails, DialTimesOut, ServerExits
<1>4. DialTypes'
  BY <1>1, <1>2, <1>3 DEF VaultInv, DialTypes
<1>5. UNCHANGED reply \/ FailWaiting
  BY DEF DialOpens, DialOpensLate, DialFails, DialTimesOut, ServerExits, callVars
<1>6. \A c \in Clients : reply'[c] = reply[c] \/ reply'[c].seen = clock
  BY <1>1, <1>5 DEF FailWaiting
<1>7. got' \in [Clients -> Time]
  BY <1>2 DEF VaultInv
<1> QED BY <1>2, <1>4, <1>6, <1>7, CallVault

LEMMA ReplyVault ==
    ASSUME RecentInv, VaultInv, NEW c \in Clients,
           (\E r \in Replies : VaultAnswers(c, r)) \/ RequestFails(c)
    PROVE  VaultInv'
<1>1. PICK value : reply' = [reply EXCEPT ![c] = value] /\ value.seen = clock
  <2>1. \A r : Normalise(r).seen = clock
    BY DEF Normalise
  <2>2. Failed.seen = clock
    BY DEF Failed
  <2> QED BY <2>1, <2>2 DEF VaultAnswers, RequestFails
<1>2. UNCHANGED <<clock, adapter, cacheVars, client, connecting, conn, dialed, given_up,
                  got>>
  BY DEF VaultAnswers, RequestFails, connVars
<1>3. \A b \in Clients : reply'[b] = reply[b] \/ reply'[b].seen = clock
  BY <1>1 DEF RecentInv, AnswerTypes
<1>4. DialTypes' /\ got' \in [Clients -> Time]
  BY <1>2 DEF VaultInv, DialTypes
<1> QED BY <1>2, <1>3, <1>4, CallVault

LEMMA RememberVault ==
    ASSUME RecentInv, VaultInv, NEW c \in Clients, NEW a \in Asks, Remember(c, a)
    PROVE  VaultInv'
<1>1. /\ entry[a] # NoEntry /\ Reinsert(a)
      /\ got' = [got EXCEPT ![c] = clock - entry[a].value.seen]
      /\ UNCHANGED <<clock, entry, reply, adapter, client, connecting, conn, dialed, given_up>>
  BY DEF Remember, Fresh, Reinsert, Get, connVars
<1>2. CacheKeys'
  BY <1>1, ReinsertKeys DEF VaultInv
<1>3. SeenPast' /\ DialTypes'
  BY <1>1 DEF VaultInv, SeenPast, DialTypes
<1>4. entry[a].value \in Value /\ entry[a].value.seen <= clock /\ clock \in Time
  BY <1>1 DEF VaultInv, SeenPast, RecentInv, AnswerTypes, Entry
<1>5. clock - entry[a].value.seen \in Time
  BY <1>4, AgeIsTime
<1>6. got' \in [Clients -> Time]
  BY <1>1, <1>5 DEF VaultInv
<1> QED BY <1>2, <1>3, <1>6 DEF VaultInv

LEMMA ArriveVault ==
    ASSUME RecentInv, VaultInv, NEW c \in Clients, Arrive(c)
    PROVE  VaultInv'
<1> DEFINE value == reply[c]
           a == ask[c]
<1>1. /\ UNCHANGED <<clock, adapter, client, connecting, conn, dialed, given_up>>
      /\ reply' = [reply EXCEPT ![c] = Nothing]
      /\ got' = [got EXCEPT ![c] = clock - value.seen]
      /\ IF a = Ping THEN UNCHANGED cacheVars ELSE Touch(a, value)
  BY DEF Arrive, Get, connVars
<1>2. /\ clock \in Time /\ value \in Value /\ value.seen <= clock
      /\ entry \in [Asks -> Entry \union {NoEntry}]
      /\ a # Ping => a \in Asks
  BY DEF RecentInv, AnswerTypes, VaultInv, SeenPast
<1> HIDE DEF value, a
<1>3. CacheKeys'
  <2>1. CASE a = Ping
    BY <1>1, <2>1 DEF VaultInv, CacheKeys, cacheVars
  <2>2. CASE a # Ping
    BY <1>1, <1>2, <2>2, TouchKeys DEF VaultInv
  <2> QED BY <2>1, <2>2
<1>4. \A k \in Asks : entry'[k] \in {NoEntry, entry[k], [t |-> clock, value |-> value]}
  <2>1. CASE a = Ping
    BY <1>1, <2>1 DEF cacheVars
  <2>2. CASE a # Ping
    BY <1>1, <1>2, <2>2 DEF Touch
  <2> QED BY <2>1, <2>2
<1>5. Nothing.seen <= clock
  <2>1. clock \in 0 .. MaxClock /\ MaxClock \in Nat
    BY <1>2, ClockAssumption DEF Time
  <2> QED BY <2>1 DEF Nothing
<1>6. SeenPast'
  <2>1. ASSUME NEW k \in Asks, entry'[k] # NoEntry PROVE entry'[k].value.seen <= clock
    <3>1. CASE entry'[k] = entry[k]
      BY <2>1, <3>1 DEF VaultInv, SeenPast
    <3>2. CASE entry'[k] = [t |-> clock, value |-> value]
      BY <1>2, <3>2
    <3> QED BY <1>4, <2>1, <3>1, <3>2
  <2>2. \A b \in Clients : reply'[b].seen <= clock
    BY <1>1, <1>5 DEF RecentInv, AnswerTypes, VaultInv, SeenPast
  <2> QED BY <1>1, <2>1, <2>2 DEF SeenPast
<1>7. DialTypes'
  BY <1>1 DEF VaultInv, DialTypes
<1>8. got' \in [Clients -> Time]
  <2>1. clock - value.seen \in Time
    BY <1>2, AgeIsTime
  <2> QED BY <1>1, <2>1 DEF VaultInv
<1> QED BY <1>3, <1>6, <1>7, <1>8 DEF VaultInv

LEMMA TickVault ==
    ASSUME RecentInv, VaultInv, Tick
    PROVE  VaultInv'
<1>1. /\ clock' = clock + 1
      /\ UNCHANGED <<order, entry, reply, adapter, client, connecting, conn, dialed, given_up,
                     got>>
  BY DEF Tick, cacheVars, connVars, callVars
<1>2. /\ clock \in Int
      /\ \A a \in Asks : entry[a] # NoEntry => entry[a].value.seen \in Int
      /\ \A c \in Clients : reply[c].seen \in Int
  BY ClockAssumption DEF RecentInv, AnswerTypes, Entry, Value, Time
<1>3. SeenPast'
  BY <1>1, <1>2 DEF VaultInv, SeenPast
<1> QED BY <1>1, <1>3 DEF VaultInv, CacheKeys, DialTypes

LEMMA SameVault ==
    ASSUME VaultInv, UNCHANGED obsidianVars
    PROVE  VaultInv'
BY DEF obsidianVars, cacheVars, connVars, callVars, VaultInv, CacheKeys, SeenPast, DialTypes

\* The client's types, and with them the shape of its cache: its keys, in the
\* order of the Map, are those of its entries, each once, and never more than
\* the cap, whichever loads of one key arrive and in which order (withCache).
THEOREM VaultTypes == RecallSpec => []ObsidianTypeOK
<1>1. RecallInit => VaultInv
  <2> SUFFICES ASSUME RecallInit PROVE VaultInv
    OBVIOUS
  <2>1. 0 \in Time /\ MaxEntries \in Nat
    BY ClockAssumption, TtlAssumption DEF Time
  <2>2. CacheKeys
    <3>1. order = <<>> /\ \A a \in Asks : entry[a] = NoEntry
      BY DEF RecallInit, ObsidianInit
    <3>2. <<>> \in Seq(Asks) /\ Len(<<>>) = 0 /\ DOMAIN <<>> = {}
      BY EmptySeq
    <3>3. IsInjective(order) /\ ToSet(order) = {}
      BY <3>1, <3>2 DEF IsInjective, ToSet
    <3> QED BY <2>1, <3>1, <3>2, <3>3 DEF CacheKeys
  <2>3. SeenPast
    BY DEF RecallInit, ObsidianInit, SeenPast, Nothing
  <2>4. DialTypes /\ got \in [Clients -> Time]
    BY <2>1 DEF RecallInit, ObsidianInit, DialTypes
  <2> QED BY <2>2, <2>3, <2>4 DEF VaultInv
<1>2. ASSUME RecentInv, VaultInv, [RecallNext]_<<memoryVars, obsidianVars, side>>
      PROVE  VaultInv'
  <2>1. ASSUME NEW c \in Clients, NEW a \in Asks, Remember(c, a) PROVE VaultInv'
    BY <1>2, <2>1, RememberVault
  <2>2. ASSUME NEW c \in Clients, NEW a \in Asks \union {Ping}, Load(c, a)
        PROVE  VaultInv'
    BY <1>2, <2>2, LoadVault
  <2>3. ASSUME NEW c \in Clients,
               (\E r \in Replies : VaultAnswers(c, r)) \/ RequestFails(c)
        PROVE  VaultInv'
    BY <1>2, <2>3, ReplyVault
  <2>4. ASSUME NEW c \in Clients, Arrive(c) PROVE VaultInv'
    BY <1>2, <2>4, ArriveVault
  <2>5. ASSUME NEW d \in Dials,
               \/ DialOpens(d) \/ DialOpensLate(d) \/ DialFails(d)
               \/ DialTimesOut(d) \/ ServerExits(d)
        PROVE  VaultInv'
    BY <1>2, <2>5, DialVault
  <2>6. CASE Tick
    BY <1>2, <2>6, TickVault
  <2>7. CASE UNCHANGED obsidianVars
    BY <1>2, <2>7, SameVault
  <2> QED BY <1>2, <2>1, <2>2, <2>3, <2>4, <2>5, <2>6, <2>7
          DEF RecallNext, ObsidianNext
<1>3. RecentInv /\ VaultInv => ObsidianTypeOK
  BY DEF RecentInv, AnswerTypes, VaultInv, CacheKeys, DialTypes, ObsidianTypeOK
<1> QED BY <1>1, <1>2, <1>3, SpecRecent, PTL DEF RecallSpec

-----------------------------------------------------------------------------
(* Types of the memory store                                               *)

\* A list of hits with the score each shows.
Shows(a) == \A i \in DOMAIN a : a[i].hit \in Hits /\ a[i].score \in Nat

\* A backend is made for the sources that read a store.
OnlyStoresLoad == \A c \in Calls, s \in Sources \ Stores : task[c][s] # "load"

\* What the other invariants leave out.  Only what retrieve found is merged.
AnswerTyped ==
    /\ reranking \in BOOLEAN /\ embedder \in {"none", "pending", "ready"}
    /\ stores \subseteq Stores /\ opening \subseteq Stores
    /\ held \subseteq Hits /\ trail \subseteq Calls /\ OnlyStoresLoad
    /\ second \in [Calls -> Seq(0 .. 2)]
    /\ \A c \in Calls : Shows(answer[c])
    /\ \A c \in Calls : mpc[c] = "merged" => Asked[c].kind = "retrieve"

LEMMA FirstShows ==
    ASSUME NEW a, NEW k \in Nat, a = [i \in 1 .. k |-> a[i]], Shows(a), NEW n \in Nat
    PROVE  Shows(First(a, n))
<1>1. /\ Lesser(n, k) \in 0 .. k
      /\ First(a, n) = [i \in 1 .. Lesser(n, k) |-> a[i]]
  BY FirstCuts
<1>2. DOMAIN a = 1 .. k
  OBVIOUS
<1> HIDE DEF First
<1>3. ASSUME NEW i \in DOMAIN First(a, n) PROVE i \in DOMAIN a /\ First(a, n)[i] = a[i]
  <2>1. i \in 1 .. Lesser(n, k)
    BY <1>1, <1>3
  <2>2. First(a, n)[i] = a[i]
    BY <1>1, <2>1
  <2>3. i \in 1 .. k
    <3>1. Lesser(n, k) \in 0 .. k
      BY <1>1
    <3> HIDE DEF Lesser
    <3> QED BY <2>1, <3>1
  <2> QED BY <1>2, <2>2, <2>3
<1> QED BY <1>3 DEF Shows

\* A score between the least and the greatest of them, in halves.
LEMMA MinMaxType ==
    ASSUME NEW n \in Nat, NEW v \in Scores(n), NEW i \in 1 .. n
    PROVE  MinMax(v)[i] \in Nat
<1> DEFINE T == ToSet(v)
           lo == CHOOSE m \in T : \A k \in T : m <= k
           hi == CHOOSE m \in T : \A k \in T : m >= k
<1>1. DOMAIN v = 1 .. n /\ \A j \in 1 .. n : v[j] \in 0 .. 2
  BY DEF Scores
<1>2. T \subseteq 0 .. 2 /\ v[i] \in T /\ v[i] \in 0 .. 2
  BY <1>1 DEF ToSet
<1>3. MinMax(v)[i] = IF hi = lo THEN 1 ELSE (2 * (v[i] - lo)) \div (hi - lo)
  BY <1>1 DEF MinMax
<1> HIDE DEF T
<1>4. lo \in T /\ \A k \in T : lo <= k
  <2>1. \E m \in T : \A k \in T : m <= k
    <3>1. CASE 0 \in T
      BY <1>2, <3>1
    <3>2. CASE 0 \notin T /\ 1 \in T
      BY <1>2, <3>2
    <3>3. CASE 0 \notin T /\ 1 \notin T
      <4>1. \A k \in T : k = 2
        BY <1>2, <3>3
      <4>2. \A k \in T : v[i] = k
        BY <1>2, <4>1
      <4>3. v[i] \in Int
        BY <1>2
      <4> HIDE DEF T
      <4>4. \A k \in T : v[i] <= k /\ v[i] >= k
        BY <4>2, <4>3
      <4> QED BY <1>2, <4>4
    <3> QED BY <3>1, <3>2, <3>3
  <2> QED BY <2>1
<1>5. hi \in T /\ \A k \in T : hi >= k
  <2>1. \E m \in T : \A k \in T : m >= k
    <3>1. CASE 2 \in T
      BY <1>2, <3>1
    <3>2. CASE 2 \notin T /\ 1 \in T
      BY <1>2, <3>2
    <3>3. CASE 2 \notin T /\ 1 \notin T
      <4>1. \A k \in T : k = 0
        BY <1>2, <3>3
      <4>2. \A k \in T : v[i] = k
        BY <1>2, <4>1
      <4>3. v[i] \in Int
        BY <1>2
      <4> HIDE DEF T
      <4>4. \A k \in T : v[i] <= k /\ v[i] >= k
        BY <4>2, <4>3
      <4> QED BY <1>2, <4>4
    <3> QED BY <3>1, <3>2, <3>3
  <2> QED BY <2>1
<1> HIDE DEF lo, hi
<1>6. lo \in 0 .. 2 /\ hi \in 0 .. 2 /\ v[i] \in lo .. hi
  <2>1. lo \in 0 .. 2 /\ hi \in 0 .. 2 /\ v[i] \in 0 .. 2
    BY <1>2, <1>4, <1>5
  <2>2. lo <= v[i] /\ hi >= v[i]
    BY <1>2, <1>4, <1>5
  <2> QED BY <2>1, <2>2
<1>7. CASE hi = lo
  BY <1>3, <1>7
<1>8. CASE hi # lo
  <2>1. hi - lo \in 1 .. 2 /\ 2 * (v[i] - lo) \in 0 .. 4
    BY <1>6, <1>8
  <2>2. \A x \in 0 .. 4, y \in 1 .. 2 : x \div y \in Nat
    OBVIOUS
  <2> QED BY <1>3, <1>8, <2>1, <2>2
<1> QED BY <1>7, <1>8

LEMMA RerankShows ==
    ASSUME NEW a, NEW k \in Nat, a = [i \in 1 .. k |-> a[i]], Shows(a),
           NEW n \in 0 .. k, NEW v \in Scores(n), NEW seq \in Reranked(a, v)
    PROVE  seq = [i \in 1 .. k |-> seq[i]] /\ Shows(seq)
<1> DEFINE blend == [i \in 1 .. Len(v) |-> 4 * Boosted(a[i].hit) + 3 * Full * MinMax(v)[i]]
           above == {p \in (1 .. Len(v)) \X (1 .. Len(v)) :
                       \/ blend[p[1]] > blend[p[2]]
                       \/ blend[p[1]] = blend[p[2]] /\ p[1] < p[2]}
<1>1. DOMAIN a = 1 .. k /\ n \in Nat /\ Len(v) = n
  BY ScoresLength
<1>2. PICK perm \in Sortings(1 .. Len(v), above) :
          seq = [i \in DOMAIN a |->
                    IF i <= Len(v) THEN [hit |-> a[perm[i]].hit, score |-> blend[perm[i]]]
                                   ELSE a[i]]
  BY DEF Reranked
<1>3. blend = [i \in 1 .. n |-> 4 * Boosted(a[i].hit) + 3 * Full * MinMax(v)[i]]
  BY <1>1
<1> HIDE DEF blend, above
<1>4. ASSUME NEW i \in 1 .. n PROVE a[i].hit \in Hits /\ blend[i] \in Nat
  <2>1. i \in 1 .. k
    BY <1>1
  <2>2. a[i].hit \in Hits
    BY <1>1, <2>1 DEF Shows
  <2>3. Boosted(a[i].hit) \in Nat /\ MinMax(v)[i] \in Nat /\ Full \in Nat
    BY <1>1, <2>2, HitTypes, MinMaxType, NumberAssumption
  <2>4. \A x, y \in Nat : x * y \in Nat /\ x + y \in Nat
    OBVIOUS
  <2>6. 4 * Boosted(a[i].hit) \in Nat /\ 3 * Full \in Nat
    BY <2>3
  <2>7. 3 * Full * MinMax(v)[i] \in Nat
    BY <2>3, <2>4, <2>6
  <2>5. blend[i] = 4 * Boosted(a[i].hit) + 3 * Full * MinMax(v)[i]
    BY <1>3
  <2> QED BY <2>2, <2>4, <2>5, <2>6, <2>7
<1>5. perm \in [1 .. n -> 1 .. n]
  <2>1. perm \in [1 .. Cardinality(1 .. n) -> 1 .. n]
    BY <1>1, <1>2 DEF Sortings
  <2>2. n \in Nat
    BY <1>1
  <2>3. IsFiniteSet(1 .. n) /\ Cardinality(1 .. n) = n
    BY <2>2, FS_Interval
  <2> QED BY <2>1, <2>3
<1>6. seq = [i \in 1 .. k |-> IF i <= n THEN [hit |-> a[perm[i]].hit, score |-> blend[perm[i]]]
                                        ELSE a[i]]
  BY <1>1, <1>2
<1>7. ASSUME NEW i \in 1 .. k PROVE seq[i].hit \in Hits /\ seq[i].score \in Nat
  <2>1. CASE i <= n
    <3>1. i \in 1 .. n
      BY <1>1, <2>1
    <3>2. perm[i] \in 1 .. n
      BY <1>5, <3>1
    <3>3. seq[i] = [hit |-> a[perm[i]].hit, score |-> blend[perm[i]]]
      BY <1>6, <2>1
    <3>4. a[perm[i]].hit \in Hits /\ blend[perm[i]] \in Nat
      BY <1>4, <3>2
    <3> QED BY <3>3, <3>4
  <2>2. CASE ~ (i <= n)
    BY <1>1, <1>6, <2>2 DEF Shows
  <2> QED BY <2>1, <2>2
<1> QED BY <1>6, <1>7 DEF Shows

\* A call goes on to its next stage.
LEMMA StageTyped ==
    ASSUME AnswerInv, AnswerTyped, UNCHANGED <<poolVars, task>>,
           NEW c \in Calls, NEW stage, mpc' = [mpc EXCEPT ![c] = stage],
           stage = "merged" => Asked[c].kind = "retrieve",
           \/ UNCHANGED answer
           \/ \E a : Shows(a) /\ answer' = [answer EXCEPT ![c] = a],
           \/ UNCHANGED second
           \/ \E v \in Seq(0 .. 2) : second' = [second EXCEPT ![c] = v],
           trail' \in {trail, trail \union {c}}
    PROVE  AnswerTyped'
<1>1. second' \in [Calls -> Seq(0 .. 2)]
  BY DEF AnswerTyped
<1>2. \A d \in Calls : Shows(answer[d])'
  BY DEF AnswerTyped, AnswerInv, AnswerPlaces, Shows
<1>3. \A d \in Calls : mpc'[d] = "merged" => Asked[d].kind = "retrieve"
  BY DEF AnswerTyped, AnswerInv, AnswerPlaces
<1> QED BY <1>1, <1>2, <1>3 DEF AnswerTyped, OnlyStoresLoad, poolVars

\* What is merged is a list.
LEMMA MergedIsList ==
    ASSUME AnswerInv, AnswerTyped, NEW c \in Calls, mpc[c] = "merged"
    PROVE  \E k \in Nat : answer[c] = [i \in 1 .. k |-> answer[c][i]] /\ Len(answer[c]) = k
<1> DEFINE k == Lesser(PreRerankMax(c), Keys(found[c]))
<1>1. Ranks(answer[c], k, found[c])
  BY DEF AnswerInv, AnswerTyped, AnswerRanked
<1> HIDE DEF k
<1>2. k \in Nat /\ answer[c] = [i \in 1 .. k |-> answer[c][i]]
  BY <1>1 DEF Ranks, Lists
<1>3. Len(answer[c]) = k
  BY <1>2, FirstCuts
<1> QED BY <1>2, <1>3

LEMMA MergeTyped ==
    ASSUME AnswerInv, AnswerTyped, NEW c \in Calls, Merge(c)
    PROVE  AnswerTyped'
<1>1. /\ Asked[c].kind = "retrieve" /\ mpc' = [mpc EXCEPT ![c] = "merged"]
      /\ UNCHANGED <<poolVars, task, second, trail>>
  BY DEF Merge
<1>2. PICK seq \in Merged(found[c], PreRerankMax(c)) :
          answer' = [answer EXCEPT ![c] = Plain(seq)]
  BY DEF Merge
<1> DEFINE n == Lesser(PreRerankMax(c), Keys(found[c]))
<1>3. found[c] \in SUBSET Hits
  BY DEF AnswerInv, FoundAllowed
<1>4. Ranks(Plain(seq), n, found[c])
  BY <1>3, MaxTypes, MergeRanks
<1> HIDE DEF n
<1>5. DOMAIN Plain(seq) = 1 .. n /\ \A i \in 1 .. n : Plain(seq)[i].hit \in Hits
  BY <1>3, <1>4 DEF Ranks, Lists
<1>6. \A i \in DOMAIN Plain(seq) : Plain(seq)[i].score = 10 * Boosted(Plain(seq)[i].hit)
  BY DEF Plain
<1>7. Shows(Plain(seq))
  BY <1>5, <1>6, HitTypes DEF Shows
<1> QED BY <1>1, <1>2, <1>7, StageTyped

LEMMA RerankTyped ==
    ASSUME AnswerInv, AnswerTyped, NEW c \in Calls, Rerank(c) \/ KeepOrder(c)
    PROVE  AnswerTyped'
<1>1. /\ mpc[c] = "merged" /\ mpc' = [mpc EXCEPT ![c] = "answered"]
      /\ UNCHANGED <<poolVars, task>> /\ trail' \in {trail, trail \union {c}}
  BY DEF Rerank, KeepOrder, Answered, Audit
<1>2. DedupMax(c) \in Nat
  BY MaxTypes
<1>3. PICK k \in Nat : /\ answer[c] = [i \in 1 .. k |-> answer[c][i]]
                       /\ Len(answer[c]) = k
  BY <1>1, MergedIsList
<1>4. Shows(answer[c])
  BY DEF AnswerTyped
<1>5. CASE KeepOrder(c)
  <2>1. /\ answer' = [answer EXCEPT ![c] = First(answer[c], DedupMax(c))]
        /\ UNCHANGED second
    BY <1>5 DEF KeepOrder, Answered
  <2>2. Shows(First(answer[c], DedupMax(c)))
    BY <1>2, <1>3, <1>4, FirstShows
  <2> QED BY <1>1, <2>1, <2>2, StageTyped
<1>6. CASE Rerank(c)
  <2>1. PICK v \in Scores(Scored(c)) :
          /\ second' = [second EXCEPT ![c] = v]
          /\ \E seq \in Reranked(answer[c], v) : Answered(c, seq)
    BY <1>6 DEF Rerank
  <2>2. PICK seq \in Reranked(answer[c], v) :
            answer' = [answer EXCEPT ![c] = First(seq, DedupMax(c))]
    BY <2>1 DEF Answered
  <2>3. Scored(c) \in 0 .. k
    BY <1>3, NumberAssumption DEF Scored, Lesser
  <2>4. seq = [i \in 1 .. k |-> seq[i]] /\ Shows(seq)
    BY <1>3, <1>4, <2>3, RerankShows
  <2>5. Shows(First(seq, DedupMax(c)))
    BY <1>2, <2>4, FirstShows
  <2>6. v \in Seq(0 .. 2)
    BY <2>3 DEF Scores
  <2> QED BY <1>1, <2>1, <2>2, <2>5, <2>6, StageTyped
<1> QED BY <1>5, <1>6

LEMMA SearchTyped ==
    ASSUME AnswerInv, AnswerTyped, NEW c \in Calls, ReturnSearch(c)
    PROVE  AnswerTyped'
<1>1. PICK seq \in Sortings(found[c], {p \in Hits \X Hits : p[1].score > p[2].score}) :
          answer' = [answer EXCEPT ![c] =
             [i \in DOMAIN seq |-> [hit |-> seq[i], score |-> 10 * seq[i].score]]]
  BY DEF ReturnSearch
<1> DEFINE a == [i \in DOMAIN seq |-> [hit |-> seq[i], score |-> 10 * seq[i].score]]
<1>2. \A i \in DOMAIN seq : seq[i] \in Hits
  BY DEF Sortings, AnswerInv, FoundAllowed
<1>3. Shows(a)
  BY <1>2, HitTypes DEF Shows
<1> HIDE DEF a
<1>4. /\ mpc' = [mpc EXCEPT ![c] = "answered"] /\ UNCHANGED <<poolVars, task, second, trail>>
      /\ answer' = [answer EXCEPT ![c] = a]
  BY <1>1 DEF ReturnSearch, a
<1> QED BY <1>3, <1>4, StageTyped

LEMMA OnlyStores ==
    ASSUME AnswerInv, OnlyStoresLoad,
           \/ EmbedderReady \/ EmbedderFails
           \/ \E c \in Calls, s \in Sources :
                StoreOpens(c, s) \/ StoreFails(c, s) \/ SourceAnswers(c, s)
           \/ \E c \in Calls : Begin(c)
    PROVE  OnlyStoresLoad'
<1> SUFFICES ASSUME NEW c \in Calls, NEW s \in Sources \ Stores
             PROVE  task'[c][s] # "load"
  BY DEF OnlyStoresLoad
<1>1. task[c][s] # "load" /\ task \in [Calls -> [Sources -> Places]]
  BY DEF OnlyStoresLoad, AnswerInv, AnswerPlaces
<1>2. CASE EmbedderReady
  <2>1. <<c, s>> \notin UNION {Tasks(r, {"embedder"}) : r \in Stores}
    BY DEF Tasks
  <2> QED BY <1>1, <1>2, <2>1 DEF EmbedderReady, Move
<1>3. CASE EmbedderFails
  BY <1>1, <1>3 DEF EmbedderFails, Move
<1>4. ASSUME NEW d \in Calls, NEW r \in Sources, StoreOpens(d, r) \/ StoreFails(d, r)
      PROVE  task'[c][s] # "load"
  <2>1. \E S : \E to \in {"search", "failed"} :
            task' = [b \in Calls |-> [q \in Sources |->
                       IF <<b, q>> \in S THEN to ELSE task[b][q]]]
    BY <1>4 DEF StoreOpens, StoreFails, Move
  <2> QED BY <1>1, <2>1
<1>5. ASSUME NEW d \in Calls, NEW r \in Sources, SourceAnswers(d, r)
      PROVE  task'[c][s] # "load"
  <2>1. \E to \in {"done", "failed"} : task' = [task EXCEPT ![d][r] = to]
    BY <1>5 DEF SourceAnswers
  <2> QED BY <1>1, <2>1
<1>6. ASSUME NEW d \in Calls, Begin(d) PROVE task'[c][s] # "load"
  <2> DEFINE asked == Asked[d].sources \intersect Stores
             first == [r \in Sources |->
                         CASE r \in asked -> GetVectorStore(r)
                           [] r \in Asked[d].sources \ Stores -> "search"
                           [] OTHER -> "none"]
  <2>1. task' = [task EXCEPT ![d] = first]
    BY <1>6 DEF Begin
  <2>2. first[s] # "load"
    <3>1. s \notin asked
      OBVIOUS
    <3> HIDE DEF asked
    <3> QED BY <3>1
  <2> HIDE DEF first
  <2> QED BY <1>1, <2>1, <2>2
<1> QED BY <1>2, <1>3, <1>4, <1>5, <1>6

\* The steps of the stores, and the start of a call.
LEMMA PoolTyped ==
    ASSUME AnswerInv, AnswerTyped,
           \/ EmbedderReady \/ EmbedderFails \/ Warm
           \/ \E h \in Hits : AddDocument(h)
           \/ \E c \in Calls, s \in Sources :
                StoreOpens(c, s) \/ StoreFails(c, s)
           \/ \E c \in Calls : Begin(c)
           \/ UNCHANGED memoryVars
    PROVE  AnswerTyped'
<1>1. /\ UNCHANGED <<reranking, answer, second, trail>>
      /\ UNCHANGED mpc \/ \E c \in Calls : mpc' = [mpc EXCEPT ![c] = "running"]
  BY DEF EmbedderReady, EmbedderFails, Warm, AddDocument, StoreOpens, StoreFails, Begin,
         memoryVars, poolVars
<1>2. embedder' \in {embedder, "none", "pending", "ready"}
  BY DEF EmbedderReady, EmbedderFails, Warm, AddDocument, StoreOpens, StoreFails, Begin,
         memoryVars, poolVars
<1>3. held' \subseteq Hits
  BY DEF EmbedderReady, EmbedderFails, Warm, AddDocument, StoreOpens, StoreFails, Begin,
         memoryVars, poolVars, AnswerTyped
<1>4. stores' \subseteq Stores /\ opening' \subseteq Stores
  <2>1. ASSUME NEW c \in Calls, NEW s \in Sources, StoreOpens(c, s) PROVE s \in Stores
    BY <2>1 DEF StoreOpens, AnswerTyped, OnlyStoresLoad
  <2> QED BY <2>1 DEF EmbedderReady, EmbedderFails, Warm, AddDocument, StoreOpens,
                      StoreFails, Begin, memoryVars, poolVars, AnswerTyped
<1>5. \A c \in Calls : Shows(answer[c])'
  BY <1>1 DEF AnswerTyped, Shows
<1>6. \A c \in Calls : mpc'[c] = "merged" => Asked[c].kind = "retrieve"
  BY <1>1 DEF AnswerTyped, AnswerInv, AnswerPlaces
<1>7. OnlyStoresLoad'
  <2>1. CASE UNCHANGED task
    BY <2>1 DEF AnswerTyped, OnlyStoresLoad
  <2>2. CASE ~ UNCHANGED task
    BY <2>2, OnlyStores DEF Warm, AddDocument, memoryVars, AnswerTyped
  <2> QED BY <2>1, <2>2
<1> QED BY <1>1, <1>2, <1>3, <1>4, <1>5, <1>6, <1>7 DEF AnswerTyped

\* The types of both parts, whatever the hits, the calls and the reranker are.
THEOREM RecallTypes == RecallSpec => []RecallTypeOK
<1>1. RecallInit => StoreInv
  BY InitStores
<1>2. StoreInv /\ [RecallNext]_<<memoryVars, obsidianVars, side>> => StoreInv'
  BY NextStores
<1>3. RecallInit => AnswerTyped
  <2> SUFFICES ASSUME RecallInit PROVE AnswerTyped
    OBVIOUS
  <2>1. <<>> \in Seq(0 .. 2) /\ DOMAIN <<>> = {}
    BY EmptySeq
  <2>2. /\ \A c \in Calls : answer[c] = <<>> /\ mpc[c] = "idle"
        /\ second = [c \in Calls |-> <<>>]
    BY DEF RecallInit, MemoryInit
  <2>3. /\ reranking \in BOOLEAN /\ embedder = "none" /\ stores = {} /\ opening = {}
        /\ held = {} /\ trail = {}
    BY DEF RecallInit, MemoryInit
  <2>4. OnlyStoresLoad
    BY DEF RecallInit, MemoryInit, OnlyStoresLoad
  <2> QED BY <2>1, <2>2, <2>3, <2>4 DEF AnswerTyped, Shows
<1>4. ASSUME AnswerInv, AnswerTyped, StoreInv,
             [RecallNext]_<<memoryVars, obsidianVars, side>>
      PROVE  AnswerTyped'
  <2>1. ASSUME NEW c \in Calls, Merge(c) PROVE AnswerTyped'
    BY <1>4, <2>1, MergeTyped
  <2>2. ASSUME NEW c \in Calls, Rerank(c) \/ KeepOrder(c) PROVE AnswerTyped'
    BY <1>4, <2>2, RerankTyped
  <2>3. ASSUME NEW c \in Calls, ReturnSearch(c) PROVE AnswerTyped'
    BY <1>4, <2>3, SearchTyped
  <2>4. ASSUME NEW c \in Calls, Reject(c) PROVE AnswerTyped'
    <3>1. /\ mpc' = [mpc EXCEPT ![c] = "rejected"]
          /\ UNCHANGED <<poolVars, task, answer, second, trail>>
      BY <2>4 DEF Reject
    <3> QED BY <1>4, <3>1, StageTyped
  <2>5. ASSUME NEW c \in Calls, NEW s \in Sources, SourceAnswers(c, s) PROVE AnswerTyped'
    <3>1. UNCHANGED <<reranking, embedder, stores, opening, held, mpc, answer, second, trail>>
      BY <2>5 DEF SourceAnswers, poolVars
    <3>2. \A d \in Calls : Shows(answer[d])'
      BY <1>4, <3>1 DEF AnswerTyped, Shows
    <3>3. OnlyStoresLoad'
      BY <1>4, <2>5, OnlyStores DEF AnswerTyped
    <3> QED BY <1>4, <3>1, <3>2, <3>3 DEF AnswerTyped
  <2>6. CASE \/ EmbedderReady \/ EmbedderFails \/ Warm
             \/ \E h \in Hits : AddDocument(h)
             \/ \E c \in Calls, s \in Sources : StoreOpens(c, s) \/ StoreFails(c, s)
             \/ \E c \in Calls : Begin(c)
             \/ UNCHANGED memoryVars
    BY <1>4, <2>6, PoolTyped
  <2> QED BY <1>4, <2>1, <2>2, <2>3, <2>4, <2>5, <2>6 DEF RecallNext, MemoryNext
<1>5. AnswerInv /\ AnswerTyped /\ StoreInv => MemoryTypeOK
  BY DEF AnswerInv, AnswerPlaces, FoundAllowed, AnswerTyped, Shows, StoreInv, StorePlaces,
         MemoryTypeOK
<1>6. RecallSpec => []MemoryTypeOK
  BY <1>1, <1>2, <1>3, <1>4, <1>5, SpecAnswers, PTL DEF RecallSpec
<1> QED BY <1>6, VaultTypes, PTL DEF RecallTypeOK
=============================================================================
