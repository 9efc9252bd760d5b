---------------------------- MODULE MemoryStore ----------------------------
(***************************************************************************)
(* MemoryStore of src/memory/index.ts: the embedder and the vector stores  *)
(* it opens on first use, and retrieve, which asks its sources at the same *)
(* time, merges what they found and has it reranked (src/memory/rerank.ts).*)
(*                                                                         *)
(* Each call's tasks, one per source, go at their own pace; the others'    *)
(* calls and additions to the stores come in between.  A hit is the key it *)
(* is merged by (its path, or its id), its score for the query, a tenant   *)
(* and whether it is stable; a source returns hits from a given set, all   *)
(* above the score threshold.  What a store, the atomic layer or the vault *)
(* does inside is other modules' subject.                                  *)
(***************************************************************************)
EXTENDS Integers, FiniteSets, SequencesExt

CONSTANTS
    Calls,       \* bound: calls of retrieve and search
    Asked,       \* per call: what it asks for
    Hits,        \* what the sources can find
    Tenants, Anyone,
    Unset,       \* a call that names no topK
    DefaultTopK, \* hits asked of a source then
    MaxTotal,    \* maxTotal of the options
    Limit,       \* hits the reranker scores at most
    Boost, Full  \* STABLE_BOOST and the score 1.0, in twentieths

Stores == {"vector", "episodic"}   \* by the source that reads them
Sources == Stores \union {"atomic", "obsidian"}
Hit == [key : STRING, src : Sources, tenant : Tenants \union {Anyone},
        score : Nat, stable : BOOLEAN]
Ask == [kind : {"retrieve", "search"}, sources : SUBSET Sources,
        tenant : Tenants \union {Anyone}, id : BOOLEAN,
        topK : (Nat \ {0}) \union {Unset}]

ASSUME HitAssumption ==
    /\ IsFiniteSet(Hits)
    /\ \A h \in Hits : /\ {h.key} \subseteq STRING /\ h.src \in Sources
                       /\ h.tenant \in Tenants \union {Anyone}
                       /\ h.score \in 0 .. Full /\ h.stable \in BOOLEAN
ASSUME AskedAssumption ==
    /\ Asked \in [Calls -> Ask]
    /\ \A c \in Calls : Asked[c].kind = "search" => Cardinality(Asked[c].sources) = 1
ASSUME NumberAssumption ==
    /\ MaxTotal \in Nat \ {0} /\ Limit \in Nat \ {0}
    /\ DefaultTopK \in Nat \ {0} /\ Unset \notin Nat
    /\ Boost \in Nat /\ Full \in Nat \ {0} /\ Anyone \notin Tenants

VARIABLES
    reranking,  \* a reranker is configured; never changes
    embedder,   \* "none", "pending" or "ready"
    stores,     \* the names whose backend is kept
    opening,    \* the names in storesPending
    backends,   \* history: backends made per name
    held,       \* the hits whose documents the stores hold
    mpc,        \* per call: "idle", "running", "merged", "answered", "rejected"
    task,       \* per call and source: how far it has come
    found,      \* per call: the hits of its sources so far
    answer,     \* per call: the hits in order, each with the score it shows
    second,     \* history: what the reranker said of each, or <<>>
    trail       \* calls the audit log has a line of

poolVars == <<reranking, embedder, stores, opening, backends, held>>
memoryVars == <<poolVars, mpc, task, found, answer, second, trail>>

Places == {"none", "wait", "embedder", "load", "search", "done", "failed"}

MemoryTypeOK ==
    /\ reranking \in BOOLEAN /\ embedder \in {"none", "pending", "ready"}
    /\ stores \subseteq Stores /\ opening \subseteq Stores
    /\ backends \in [Stores -> Nat] /\ held \subseteq Hits
    /\ mpc \in [Calls -> {"idle", "running", "merged", "answered", "rejected"}]
    /\ task \in [Calls -> [Sources -> Places]]
    /\ found \in [Calls -> SUBSET Hits]
    /\ \A c \in Calls : \A i \in DOMAIN answer[c] :
         answer[c][i].hit \in Hits /\ answer[c][i].score \in Nat
    /\ second \in [Calls -> Seq(0 .. 2)] /\ trail \subseteq Calls

MemoryInit ==
    /\ reranking \in BOOLEAN /\ embedder = "none"
    /\ stores = {} /\ opening = {} /\ backends = [s \in Stores |-> 0]
    /\ held = {}
    /\ mpc = [c \in Calls |-> "idle"]
    /\ task = [c \in Calls |-> [s \in Sources |-> "none"]]
    /\ found = [c \in Calls |-> {}] /\ answer = [c \in Calls |-> <<>>]
    /\ second = [c \in Calls |-> <<>>] /\ trail = {}

-----------------------------------------------------------------------------
\* The embedder and the stores, opened once.

\* Mutant: the attempt in flight is not looked up.
GetVectorStoreAlone(s) ==
    CASE s \in stores -> "search"
      [] s \notin stores /\ embedder = "ready" -> "load"
      [] OTHER -> "embedder"

\* getVectorStore: the kept backend, the attempt in flight, or an attempt of
\* its own, which starts with the embedder.
GetVectorStore(s) ==
    CASE s \in stores -> "search"
      [] s \notin stores /\ s \in opening -> "wait"
      [] s \notin stores \union opening /\ embedder = "ready" -> "load"
      [] OTHER -> "embedder"

\* retrieve or search begins: every task runs to its first await.
Begin(c) ==
    LET asked == Asked[c].sources \intersect Stores
        first == [s \in Sources |->
                    CASE s \in asked -> GetVectorStore(s)
                      [] s \in Asked[c].sources \ Stores -> "search"
                      [] OTHER -> "none"]
    IN  /\ mpc[c] = "idle"
        /\ mpc' = [mpc EXCEPT ![c] = "running"]
        /\ task' = [task EXCEPT ![c] = first]
        /\ opening' = opening \union (asked \ stores)
        /\ embedder' = IF embedder = "none" /\ \E s \in Sources : first[s] = "embedder"
                       THEN "pending" ELSE embedder
        /\ UNCHANGED <<reranking, stores, backends, held, found, answer, second, trail>>

\* init asks for the embedder alone.
Warm ==
    /\ embedder = "none" /\ embedder' = "pending"
    /\ UNCHANGED <<reranking, stores, opening, backends, held, mpc, task, found,
                   answer, second, trail>>

\* The tasks of S, pairs of a call and a source, go on to one place.
Move(S, to) ==
    task' = [c \in Calls |-> [s \in Sources |->
                IF <<c, s>> \in S THEN to ELSE task[c][s]]]

Tasks(s, places) == {x \in Calls \X {s} : task[x[1]][s] \in places}

EmbedderReady ==
    /\ embedder = "pending" /\ embedder' = "ready"
    /\ Move(UNION {Tasks(s, {"embedder"}) : s \in Stores}, "load")
    /\ UNCHANGED <<reranking, stores, opening, backends, held, mpc, found, answer,
                   second, trail>>

\* Mutant: a failed attempt stays in storesPending.
EmbedderFailsKept ==
    LET of == {s \in Stores : \E c \in Calls : task[c][s] = "embedder"}
    IN  /\ embedder = "pending" /\ embedder' = "none"
        /\ Move(UNION {Tasks(s, {"embedder", "wait"}) : s \in of}, "failed")
        /\ UNCHANGED <<reranking, stores, opening, backends, held, mpc, found, answer,
                       second, trail>>

\* createEmbedder rejects: all who wait for it, or for a store that does, fail;
\* the next call tries again.
EmbedderFails ==
    LET of == {s \in Stores : \E c \in Calls : task[c][s] = "embedder"}
    IN  /\ embedder = "pending" /\ embedder' = "none"
        /\ opening' = opening \ of
        /\ Move(UNION {Tasks(s, {"embedder", "wait"}) : s \in of}, "failed")
        /\ UNCHANGED <<reranking, stores, backends, held, mpc, found, answer, second,
                       trail>>

\* The backend of s is there: call c made it, the others waited.
StoreOpens(c, s) ==
    /\ task[c][s] = "load"
    /\ stores' = stores \union {s} /\ opening' = opening \ {s}
    /\ backends' = [backends EXCEPT ![s] = @ + 1]
    /\ Move({<<c, s>>} \union Tasks(s, {"wait"}), "search")
    /\ UNCHANGED <<reranking, embedder, held, mpc, found, answer, second, trail>>

StoreFails(c, s) ==
    /\ task[c][s] = "load"
    /\ opening' = opening \ {s}
    /\ Move({<<c, s>>} \union Tasks(s, {"wait"}), "failed")
    /\ UNCHANGED <<reranking, embedder, stores, backends, held, mpc, found, answer,
                   second, trail>>

\* Somebody adds a document to an open store.
AddDocument(h) ==
    /\ h \in Hits \ held /\ h.src \in stores
    /\ held' = held \union {h}
    /\ UNCHANGED <<reranking, embedder, stores, opening, backends, mpc, task, found,
                   answer, second, trail>>

-----------------------------------------------------------------------------
\* The sources.

\* Mutant: only the vector source is filtered.
AllowsEpisodic(c, h) ==
    Asked[c].kind = "retrieve" =>
        Asked[c].tenant \in {Anyone, h.tenant} \/ h.src = "episodic"

\* namespaceAsFilter: what retrieve's filter lets through.  search has none.
Allows(c, h) == Asked[c].kind = "retrieve" => Asked[c].tenant \in {Anyone, h.tenant}

\* How many hits each source is asked for.
Wanted(c) == IF Asked[c].topK = Unset THEN DefaultTopK ELSE Asked[c].topK

\* The k best of S.
IsTop(T, S, k) ==
    /\ T \subseteq S
    /\ Cardinality(T) = IF Cardinality(S) < k THEN Cardinality(S) ELSE k
    /\ \A t \in T : \A u \in S \ T : t.score >= u.score

\* The atomic layer is asked by id; only search also tries words.
AtomicFinds(c, T) ==
    \/ T = {}
    \/ Asked[c].id /\ Cardinality(T) = 1
    \/ ~ Asked[c].id /\ Asked[c].kind = "search" /\ Cardinality(T) <= Wanted(c)

\* What source s may return to call c.
Finds(c, s, T) ==
    LET all == {h \in Hits : h.src = s}
    IN  CASE s \in Stores ->
               IsTop(T, {h \in all \intersect held : Allows(c, h)}, Wanted(c))
          [] s = "atomic" -> AtomicFinds(c, T)
          [] OTHER -> Cardinality(T) <= Wanted(c)   \* {} also when it fails

\* A search of the vault never rejects; the others may.
SourceAnswers(c, s) ==
    /\ task[c][s] = "search"
    /\ \/ /\ \E T \in SUBSET {h \in Hits : h.src = s} :
               /\ Finds(c, s, T)
               /\ found' = [found EXCEPT ![c] = @ \union T]
          /\ task' = [task EXCEPT ![c][s] = "done"]
       \/ /\ s # "obsidian"
          /\ task' = [task EXCEPT ![c][s] = "failed"] /\ UNCHANGED found
    /\ UNCHANGED <<poolVars, mpc, answer, second, trail>>

\* Promise.all rejects with the first task that does.  The others run on.
Reject(c) ==
    /\ mpc[c] = "running" /\ \E s \in Sources : task[c][s] = "failed"
    /\ mpc' = [mpc EXCEPT ![c] = "rejected"]
    /\ UNCHANGED <<poolVars, task, found, answer, second, trail>>

-----------------------------------------------------------------------------
\* Merging and ranking.

Lesser(m, n) == IF m < n THEN m ELSE n
Greater(m, n) == IF m < n THEN n ELSE m

\* A call without a topK is given whatever maxTotal allows.
DedupMax(c) == IF Asked[c].topK = Unset THEN MaxTotal ELSE Lesser(Asked[c].topK, MaxTotal)
PreRerankMax(c) == IF reranking THEN Greater(DedupMax(c), Limit) ELSE DedupMax(c)

Before(r, s) ==   \* the order the results are concatenated in
    LET place == [atomic |-> 1, vector |-> 2, episodic |-> 3, obsidian |-> 4]
    IN  place[r] < place[s]

\* Mutant: the last hit of a key overwrites the earlier ones.
SurvivesLast(h, S) ==
    \A g \in S : g.key = h.key => g.src = h.src \/ Before(g.src, h.src)

\* Of the hits of one key the best is kept, the first of two equal ones.
Survives(h, S) ==
    \A g \in S : g.key = h.key =>
        h.score > g.score \/ (h.score = g.score /\ ~ Before(g.src, h.src))

Boosted(h) == h.score + (IF h.stable THEN Boost ELSE 0)

\* One hit for every key of S: the chunks of a file have its path, and those of
\* one score come in either order.
Merging(S) ==
    {M \in SUBSET {h \in S : Survives(h, S)} :
        \A g \in S : \E h \in M : \A i \in M : i.key = g.key <=> i = h}

\* The sequences of S in which no element follows one that it goes above.
Sortings(S, above) ==
    {seq \in [1 .. Cardinality(S) -> S] :
        \A i, j \in DOMAIN seq :
            i < j => seq[i] # seq[j] /\ <<seq[j], seq[i]>> \notin above}

First(seq, n) == SubSeq(seq, 1, Lesser(n, Len(seq)))

\* mergeAndRerank; hits of one boosted score in either order.
Better == {p \in Hits \X Hits : Boosted(p[1]) > Boosted(p[2])}
Merged(S, max) ==
    {First(seq, max) : seq \in UNION {Sortings(M, Better) : M \in Merging(S)}}

\* Scores in the answer are in two-hundredths.
Plain(seq) == [i \in DOMAIN seq |-> [hit |-> seq[i], score |-> 10 * Boosted(seq[i])]]

Merge(c) ==
    /\ Asked[c].kind = "retrieve"
    /\ mpc[c] = "running" /\ \A s \in Sources : task[c][s] \in {"none", "done"}
    /\ \E seq \in Merged(found[c], PreRerankMax(c)) :
         answer' = [answer EXCEPT ![c] = Plain(seq)]
    /\ mpc' = [mpc EXCEPT ![c] = "merged"]
    /\ UNCHANGED <<poolVars, task, found, second, trail>>

\* minMax, in halves: equal scores are all one half.
MinMax(v) ==
    LET lo == CHOOSE m \in ToSet(v) : \A n \in ToSet(v) : m <= n
        hi == CHOOSE m \in ToSet(v) : \A n \in ToSet(v) : m >= n
    IN  [i \in DOMAIN v |-> IF hi = lo THEN 1 ELSE (2 * (v[i] - lo)) \div (hi - lo)]

\* rerank with the scores v of the first hits: alpha is 0.6; what lies beyond
\* them follows as it was.
Reranked(seq, v) ==
    LET n == Len(v)
        blend == [i \in 1 .. n |-> 4 * Boosted(seq[i].hit) + 3 * Full * MinMax(v)[i]]
        above == {p \in (1 .. n) \X (1 .. n) :
                    \/ blend[p[1]] > blend[p[2]]
                    \/ blend[p[1]] = blend[p[2]] /\ p[1] < p[2]}
    IN  {[i \in DOMAIN seq |->
            IF i <= n THEN [hit |-> seq[perm[i]].hit, score |-> blend[perm[i]]]
                      ELSE seq[i]] : perm \in Sortings(1 .. n, above)}

Scored(c) == Lesser(Limit, Len(answer[c]))

\* The audit line of a recall is best effort: a full disk changes nothing.
Audit(c) == trail' = trail \/ trail' = trail \union {c}

Answered(c, seq) ==
    /\ answer' = [answer EXCEPT ![c] = First(seq, DedupMax(c))]
    /\ mpc' = [mpc EXCEPT ![c] = "answered"]
    /\ Audit(c)

\* What a reranker may say of n hits, the lexical one or the one behind HTTP.
Scores(n) == [1 .. n -> 0 .. 2]

\* It scores the hits, the higher the better.
Rerank(c) ==
    /\ mpc[c] = "merged"
    /\ reranking /\ answer[c] # <<>>
    /\ \E v \in Scores(Scored(c)) :
         /\ \E seq \in Reranked(answer[c], v) : Answered(c, seq)
         /\ second' = [second EXCEPT ![c] = v]
    /\ UNCHANGED <<poolVars, task, found>>

\* There is none, or it throws, or returns a wrong number of scores.
KeepOrder(c) ==
    /\ mpc[c] = "merged"
    /\ Answered(c, answer[c])
    /\ UNCHANGED <<poolVars, task, found, second>>

\* search returns what its one source found, and audits nothing.
ReturnSearch(c) ==
    /\ Asked[c].kind = "search"
    /\ mpc[c] = "running" /\ \A s \in Sources : task[c][s] \in {"none", "done"}
    /\ \E seq \in Sortings(found[c], {p \in Hits \X Hits : p[1].score > p[2].score}) :
         answer' = [answer EXCEPT ![c] =
             [i \in DOMAIN seq |-> [hit |-> seq[i], score |-> 10 * seq[i].score]]]
    /\ mpc' = [mpc EXCEPT ![c] = "answered"]
    /\ UNCHANGED <<poolVars, task, found, second, trail>>

MemoryNext ==
    \/ \E c \in Calls :
         \/ Begin(c) \/ Reject(c) \/ Merge(c)
         \/ Rerank(c) \/ KeepOrder(c) \/ ReturnSearch(c)
         \/ \E s \in Sources : StoreOpens(c, s) \/ StoreFails(c, s) \/ SourceAnswers(c, s)
    \/ \E h \in Hits : AddDocument(h)
    \/ Warm \/ EmbedderReady \/ EmbedderFails

MemorySpec == MemoryInit /\ [][MemoryNext]_memoryVars

-----------------------------------------------------------------------------
\* However many calls need a store first, and whichever of them fail, one
\* backend is made of a name: two would each append to and rewrite the same
\* file from a memory of their own (getVectorStore, embedder).
OneBackend == \A s \in Stores : backends[s] <= 1

\* A call that waits for a store waits for one that opens it, and one that waits
\* for the embedder for an attempt that goes on: after any failure the next call
\* starts afresh, and none hangs on an attempt that is over (storesPending,
\* embedderPending and their finally).
NobodyWaitsInVain ==
    \A c \in Calls, s \in Stores :
        /\ task[c][s] = "wait" => \E d \in Calls : task[d][s] \in {"embedder", "load"}
        /\ task[c][s] = "embedder" => embedder = "pending"

\* A retrieve for a tenant returns no document of another one's, whichever
\* source found it and whatever it was merged with (retrieveInner).
TenantKept ==
    \A c \in Calls :
        mpc[c] = "answered" /\ Asked[c].kind = "retrieve" =>
            \A i \in DOMAIN answer[c] :
                answer[c][i].hit.src \in Stores => Asked[c].tenant \in {Anyone, answer[c][i].hit.tenant}

\* Whatever the sources found, merging and reranking lose no key while there is
\* room, show none twice and each by its best hit; without scores from the
\* reranker no better hit is left out, and with them none that it did not score
\* displaces one that it did (mergeAndRerank, rerank).
AnswerRanksAll ==
    \A c \in Calls : mpc[c] = "answered" /\ Asked[c].kind = "retrieve" =>
        LET keys == {h.key : h \in found[c]}
            hits == {answer[c][i].hit : i \in DOMAIN answer[c]}
        IN  /\ Len(answer[c]) = Lesser(DedupMax(c), Cardinality(keys))
            /\ Cardinality({h.key : h \in hits}) = Len(answer[c])
            /\ hits \subseteq found[c]
            /\ \A h \in hits, g \in found[c] : g.key = h.key => g.score <= h.score
            /\ second[c] = <<>> => \A h \in hits, k \in keys \ {g.key : g \in hits} :
                    \E g \in found[c] : g.key = k /\ Boosted(g) <= Boosted(h)
            /\ \A i, j \in DOMAIN answer[c] : j < i /\ Len(second[c]) < i =>
                    Boosted(answer[c][j].hit) >= Boosted(answer[c][i].hit)
=============================================================================
