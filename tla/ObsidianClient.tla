--------------------------- MODULE ObsidianClient ---------------------------
(***************************************************************************)
(* The Obsidian side of a MemoryStore: the cache of withCache              *)
(* (src/memory/obsidian-mcp.ts) in front of the REST adapter of the same   *)
(* file or of the stdio adapter (src/memory/obsidian-mcp-stdio.ts), which  *)
(* spawns an MCP server and keeps one connection to it.                    *)
(*                                                                         *)
(* An ask is a method with its arguments, the key of a cache entry.  What  *)
(* a note says is left out: an answer is the moment the vault was read and *)
(* whether it holds hits.  An adapter turns every failure into an empty    *)
(* answer, and the cache keeps that like any other.                        *)
(* The clock is coarse, and a timer fires before the clock passes it.      *)
(***************************************************************************)
EXTENDS Integers, FiniteSets, SequencesExt

CONSTANTS
    Clients,        \* calls in progress of the memory store
    Asks,           \* what is asked: method, argument, limit
    Ping,           \* the health probe, which is not cached
    Dials,          \* bound: connections opened
    Ttl, MaxEntries,
    InitTimeout,    \* initTimeoutMs of the stdio adapter
    RequestTimeout, \* timeoutMs of REST; the MCP library's own for stdio
    MaxClock,       \* bound
    NoDial, NoEntry

ASSUME TtlAssumption == Ttl \in Nat \ {0} /\ MaxEntries \in Nat \ {0}
ASSUME TimeoutAssumption == InitTimeout \in Nat \ {0} /\ RequestTimeout \in Nat \ {0}
ASSUME PingAssumption == Ping \notin Asks
ASSUME ClockAssumption == MaxClock \in Nat

Time == 0 .. MaxClock
Value == [seen : Time, hits : BOOLEAN]
Entry == [t : Time, value : Value]

ASSUME NoAssumption == NoDial \notin Dials /\ NoEntry \notin Entry

VARIABLES
    clock,
    adapter,    \* "rest" or "stdio"; chosen by the host, never changed
    order,      \* the cache's keys, in the insertion order of its Map
    entry,      \* the cache's entries
    client,     \* the stdio adapter's connection
    connecting, \* the connection attempt in flight
    conn,       \* each connection: "unused", "dialing", "open" or "closed"
    dialed,     \* when the attempt in flight was dialed
    given_up,   \* history: attempts whose init timer fired
    opc, ask,   \* each call's place, and what it asks
    since,      \* when its request was sent
    reply,      \* the value that is on its way to it
    got         \* history: how long ago the vault was as its last answer shows it

cacheVars == <<order, entry>>
connVars == <<client, connecting, conn, dialed, given_up>>
callVars == <<opc, ask, since, reply, got>>
obsidianVars == <<clock, adapter, cacheVars, connVars, callVars>>

ObsidianTypeOK ==
    /\ clock \in Time /\ adapter \in {"rest", "stdio"}
    /\ order \in Seq(Asks) /\ entry \in [Asks -> Entry \union {NoEntry}]
    /\ IsInjective(order) /\ ToSet(order) = {a \in Asks : entry[a] # NoEntry}
    /\ Len(order) <= MaxEntries
    /\ {client, connecting} \subseteq Dials \union {NoDial}
    /\ conn \in [Dials -> {"unused", "dialing", "open", "closed"}]
    /\ dialed \in [Dials -> Time] /\ given_up \subseteq Dials
    /\ opc \in [Clients -> {"idle", "waiting", "asking", "reply", "failed"}]
    /\ ask \in [Clients -> Asks \union {Ping}]
    /\ since \in [Clients -> Time] /\ reply \in [Clients -> Value]
    /\ got \in [Clients -> Time]

Nothing == [seen |-> 0, hits |-> FALSE]
Failed == [seen |-> clock, hits |-> FALSE]   \* [] or null, or ping's false

ObsidianInit ==
    /\ clock = 0 /\ adapter \in {"rest", "stdio"}
    /\ order = <<>> /\ entry = [a \in Asks |-> NoEntry]
    /\ client = NoDial /\ connecting = NoDial
    /\ conn = [d \in Dials |-> "unused"] /\ dialed = [d \in Dials |-> 0]
    /\ given_up = {}
    /\ opc = [c \in Clients |-> "idle"] /\ ask = [c \in Clients |-> Ping]
    /\ since = [c \in Clients |-> 0] /\ reply = [c \in Clients |-> Nothing]
    /\ got = [c \in Clients |-> 0]

-----------------------------------------------------------------------------
\* The cache.

Fresh(a) == entry[a] # NoEntry /\ clock - entry[a].t < Ttl

Reordered(a) ==
    \E i \in DOMAIN order : order[i] = a /\ order' = Append(RemoveAt(order, i), a)

\* Mutant: the entry of a hit is also given a new time.
ReinsertAsNew(a) == Reordered(a) /\ entry' = [entry EXCEPT ![a].t = clock]

\* A hit is deleted and inserted again, at the back of the Map.
Reinsert(a) == Reordered(a) /\ UNCHANGED entry

\* touch: a new key goes to the back, an old one (expired, or loaded twice)
\* keeps its place; over the cap, the front goes.
Touch(a, value) ==
    LET keys == IF entry[a] = NoEntry THEN Append(order, a) ELSE order
        out == SubSeq(keys, 1, Len(keys) - MaxEntries)
        set == [entry EXCEPT ![a] = [t |-> clock, value |-> value]]
    IN  /\ order' = SubSeq(keys, Len(out) + 1, Len(keys))
        /\ entry' = [k \in Asks |-> IF k \in ToSet(out) THEN NoEntry ELSE set[k]]

Get(c, value) == got' = [got EXCEPT ![c] = clock - value.seen]

\* remember, answered from the cache.
Remember(c, a) ==
    /\ opc[c] = "idle" /\ Fresh(a)
    /\ Reinsert(a)
    /\ Get(c, entry[a].value)
    /\ UNCHANGED <<clock, adapter, connVars, opc, ask, since, reply>>

-----------------------------------------------------------------------------
\* The adapters.

Place(c, p) == opc' = [opc EXCEPT ![c] = p]

Send(c) == /\ Place(c, "asking") /\ since' = [since EXCEPT ![c] = clock]
           /\ UNCHANGED connVars

\* Mutant: the attempt under way is not shared.
GetClientAlone(c) ==
    \/ client # NoDial /\ Send(c)
    \/ /\ client = NoDial
       /\ \E d \in Dials :
            /\ conn[d] = "unused"
            /\ conn' = [conn EXCEPT ![d] = "dialing"]
            /\ dialed' = [dialed EXCEPT ![d] = clock]
            /\ connecting' = d
       /\ Place(c, "waiting") /\ UNCHANGED <<client, given_up, since>>

\* getClient: the connection there is, the attempt under way, or a new one.
GetClient(c) ==
    \/ client # NoDial /\ Send(c)
    \/ /\ client = NoDial /\ connecting # NoDial
       /\ Place(c, "waiting") /\ UNCHANGED <<since, connVars>>
    \/ /\ client = NoDial /\ connecting = NoDial
       /\ \E d \in Dials :
            /\ conn[d] = "unused"
            /\ conn' = [conn EXCEPT ![d] = "dialing"]
            /\ dialed' = [dialed EXCEPT ![d] = clock]
            /\ connecting' = d
       /\ Place(c, "waiting") /\ UNCHANGED <<client, given_up, since>>

\* A miss, or a ping, goes to the adapter.  Two misses of one key both do.
Load(c, a) ==
    /\ opc[c] = "idle"
    /\ a # Ping => ~ Fresh(a)
    /\ ask' = [ask EXCEPT ![c] = a] /\ got' = [got EXCEPT ![c] = 0]
    /\ IF adapter = "rest" THEN Send(c) ELSE GetClient(c)
    /\ UNCHANGED <<clock, adapter, cacheVars, reply>>

Waiting == {c \in Clients : opc[c] = "waiting"}

FailWaiting ==
    /\ opc' = [c \in Clients |-> IF c \in Waiting THEN "failed" ELSE opc[c]]
    /\ reply' = [c \in Clients |-> IF c \in Waiting THEN Failed ELSE reply[c]]
    /\ UNCHANGED since

\* An attempt succeeds in time: the callers that wait for it send.
DialOpens(d) ==
    /\ conn[d] = "dialing" /\ connecting = d
    /\ conn' = [conn EXCEPT ![d] = "open"]
    /\ dialed' = [dialed EXCEPT ![d] = 0]
    /\ client' = d /\ connecting' = NoDial
    /\ opc' = [c \in Clients |-> IF c \in Waiting THEN "asking" ELSE opc[c]]
    /\ since' = [c \in Clients |-> IF c \in Waiting THEN clock ELSE since[c]]
    /\ UNCHANGED <<clock, adapter, cacheVars, given_up, ask, reply, got>>

\* One the race has forgotten opens all the same; nobody closes it.
DialOpensLate(d) ==
    /\ conn[d] = "dialing" /\ connecting # d
    /\ conn' = [conn EXCEPT ![d] = "open"]
    /\ UNCHANGED <<clock, adapter, cacheVars, client, connecting, dialed, given_up,
                   callVars>>

DialFails(d) ==
    /\ conn[d] = "dialing"
    /\ conn' = [conn EXCEPT ![d] = "closed"] /\ dialed' = [dialed EXCEPT ![d] = 0]
    /\ IF connecting = d
       THEN connecting' = NoDial /\ FailWaiting
       ELSE UNCHANGED <<connecting, opc, reply, since>>
    /\ UNCHANGED <<clock, adapter, cacheVars, client, given_up, ask, got>>

\* The init timer wins the race of connect; the attempt goes on.
DialTimesOut(d) ==
    /\ conn[d] = "dialing" /\ connecting = d
    /\ clock >= dialed[d] + InitTimeout
    /\ connecting' = NoDial /\ given_up' = given_up \union {d}
    /\ dialed' = [dialed EXCEPT ![d] = 0]
    /\ FailWaiting
    /\ UNCHANGED <<clock, adapter, cacheVars, client, conn, ask, got>>

\* The server exits.  client keeps pointing at the dead connection.
ServerExits(d) ==
    /\ conn[d] = "open"
    /\ conn' = [conn EXCEPT ![d] = "closed"]
    /\ UNCHANGED <<clock, adapter, cacheVars, client, connecting, dialed, given_up,
                   callVars>>

\* What the normalisers make of a reply: hits only from a list, a record that
\* holds one, or (readNote) a note; an error, no content and plain text give
\* none.
Replies == {"list", "wrapped list", "note", "text", "none", "error"}
Normalise(r) == [seen |-> clock, hits |-> r \in {"list", "wrapped list", "note"}]

\* The vault is read for a request.
VaultAnswers(c, r) ==
    /\ opc[c] = "asking"
    /\ adapter = "stdio" => conn[client] = "open"
    /\ reply' = [reply EXCEPT ![c] = Normalise(r)] /\ Place(c, "reply")
    /\ UNCHANGED <<clock, adapter, cacheVars, connVars, ask, since, got>>

\* It fails, or its timer fires while it is out or its answer on the way.
RequestFails(c) ==
    /\ \/ opc[c] = "asking"
       \/ opc[c] = "reply" /\ clock >= since[c] + RequestTimeout
    /\ reply' = [reply EXCEPT ![c] = Failed] /\ Place(c, "failed")
    /\ UNCHANGED <<clock, adapter, cacheVars, connVars, ask, since, got>>

\* The value arrives, and is cached unless it is ping's.
Arrive(c) ==
    /\ opc[c] \in {"reply", "failed"}
    /\ IF ask[c] = Ping THEN UNCHANGED cacheVars ELSE Touch(ask[c], reply[c])
    /\ Get(c, reply[c]) /\ Place(c, "idle")
    /\ ask' = [ask EXCEPT ![c] = Ping] /\ since' = [since EXCEPT ![c] = 0]
    /\ reply' = [reply EXCEPT ![c] = Nothing]
    /\ UNCHANGED <<clock, adapter, connVars>>

Tick ==
    /\ clock < MaxClock
    /\ \A c \in Clients :
         /\ opc[c] \in {"asking", "reply"} => clock < since[c] + RequestTimeout
         /\ opc[c] # "failed"
    /\ connecting # NoDial => clock < dialed[connecting] + InitTimeout
    /\ clock' = clock + 1
    /\ UNCHANGED <<adapter, cacheVars, connVars, callVars>>

ObsidianNext ==
    \/ \E c \in Clients :
         \/ \E a \in Asks : Remember(c, a)
         \/ \E a \in Asks \union {Ping} : Load(c, a)
         \/ \E r \in Replies : VaultAnswers(c, r)
         \/ RequestFails(c) \/ Arrive(c)
    \/ \E d \in Dials : \/ DialOpens(d) \/ DialOpensLate(d) \/ DialFails(d)
                        \/ DialTimesOut(d) \/ ServerExits(d)
    \/ Tick

ObsidianSpec == ObsidianInit /\ [][ObsidianNext]_obsidianVars

-----------------------------------------------------------------------------
\* No answer shows the vault as it was longer ago than an entry may live and a
\* request may take, however often its entry was hit and whichever of several
\* loads of the key arrived last (remember, touch).
AnswerIsRecent ==
    \A c \in Clients : got[c] < Ttl + RequestTimeout

\* An open connection to the server is the one the adapter uses, or one whose
\* attempt outlived the init timer: calls that miss together share one attempt,
\* and a server that was connected in time is never left behind.
OpenIsUsed ==
    \A d \in Dials : conn[d] = "open" => d = client \/ d \in given_up
=============================================================================
