---------------------------- MODULE DnsGenerations ----------------------------
(***************************************************************************)
(* DNS lookups across transactional reloads: SystemDnsResolver.resolve over *)
(* the DNSGenerationStore, the cache and the single flight of a generation, *)
(* and the DNS reload adapter that replaces the active generation.         *)
(*                                                                         *)
(* A lookup runs up to its upstream query, and again from the answer to    *)
(* the release of its handle, without yielding; each is one action.  The   *)
(* answer of an upstream is abstracted to the upstream that gave it, and   *)
(* the times of a cache entry to its place in the order of use: whoever    *)
(* reads an entry may find it expired.                                     *)
(*                                                                         *)
(* Lookups may run between any two steps of the reload and any step may be *)
(* followed by a rollback, as the adapter's contract has it.  In the order *)
(* that runtimeIntegration.ts gives the components, DNS commits last.      *)
(***************************************************************************)
EXTENDS Integers, Sequences, FiniteSets

CONSTANTS
  Callers,          \* pending calls of resolve()
  Hosts,            \* host names, in lower case
  Configs,          \* the DNS configurations a reload may bring
  MaxGens           \* bound: DNSGeneration objects ever built

\* upstream: the resolver and its servers, rules and fallback hosts;
\* static: config.hosts; max: cacheMaxEntries; negative: negativeTtlMs > 0;
\* fake: fakeIp.enabled.
Config == [upstream : STRING, static : SUBSET Hosts, max : Nat \ {0},
           negative : BOOLEAN, fake : BOOLEAN]

ASSUME DnsAssumption ==
  /\ IsFiniteSet(Callers)
  /\ Configs \subseteq Config
  /\ MaxGens \in Nat \ {0}

VARIABLES
  gens,      \* the DNSGeneration objects, in the order they were built
  store,     \* DNSGenerationStore.generations, id to object; 0 is absent
  active,    \* DNSGenerationStore.activeGeneration
  txn,       \* the reload in progress and the adapter's prepared value
  counter,   \* RuntimeReloadIntegration.generation
  caller,    \* the flight each call of resolve() awaits
  aborted,   \* upstream queries that run on after their abort
  stopped    \* SystemDnsResolver.stop was called

vars == <<gens, store, active, txn, counter, caller, aborted, stopped>>

Ids == 0 .. MaxGens
Idle == [gen |-> 0, host |-> "none"]
NoTxn == [phase |-> "idle", old |-> 0, cand |-> 0]

Entry == [host : Hosts, positive : BOOLEAN, via : {c.upstream : c \in Configs}]

Generation == [id : Ids, cfg : Configs, cache : Seq(Entry), flights : SUBSET Hosts,
               refs : Nat, draining : BOOLEAN]

NewGeneration(id, cfg, cache) ==
  [id |-> id, cfg |-> cfg, cache |-> cache, flights |-> {}, refs |-> 0,
   draining |-> FALSE]

Init ==
  /\ \E c \in Configs : gens = <<NewGeneration(0, c, <<>>)>>
  /\ store = [i \in Ids |-> IF i = 0 THEN 1 ELSE 0]
  /\ active = 1
  /\ txn = NoTxn
  /\ counter = 0
  /\ caller = [c \in Callers |-> Idle]
  /\ aborted = {}
  /\ stopped = FALSE

------------------------------------------------------------------------------
(* The cache of a generation, least recently used entry first.  The code    *)
(* keeps positive and negative entries in two Maps, each in that order.     *)

\* The entries at the places in I, in their order: a set with one member.
Kept(cache, I) ==
  {[k \in DOMAIN e |-> cache[e[k]]] :
     e \in {f \in [1 .. Cardinality(I) -> I] : \A j, k \in DOMAIN f : j < k => f[j] < f[k]}}

Places(cache, h) == {i \in DOMAIN cache : cache[i].host = h}
Without(cache, h) == Kept(cache, DOMAIN cache \ Places(cache, h))

\* the cache without its i-th entry
Dropped(cache, i) == SubSeq(cache, 1, i - 1) \o SubSeq(cache, i + 1, Len(cache))

\* trimCache compares the oldest positive with the oldest negative entry; the
\* positive one goes if it was used no later, so also if both were used within
\* one millisecond.
Victims(cache) ==
  {1} \cup {i \in DOMAIN cache :
              /\ ~cache[1].positive /\ cache[i].positive
              /\ \A j \in 1 .. i - 1 : ~cache[j].positive}

\* One entry was added, so at most one has to go.
Trimmed(cache, max) ==
  IF Len(cache) <= max THEN {cache} ELSE {Dropped(cache, i) : i \in Victims(cache)}

\* setPositive and setNegative
Stored(cache, e, max) ==
  UNION {Trimmed(Append(rest, e), max) : rest \in Without(cache, e.host)}

\* getPositive and getNegative of an entry that has not expired
Touched(cache, h) ==
  {rest \o found : rest \in Without(cache, h), found \in Kept(cache, Places(cache, h))}

Hit(cache, h) == Places(cache, h) # {}

\* Mutant: the resolver's identity is not compared.
SameResolverAlways(c, d) == TRUE

\* equality of dnsResolverCompatibilityHash
SameResolver(c, d) == c.upstream = d.upstream /\ c.static = d.static

\* planDnsCacheCarryover: the most recently used positive entries, of those
\* for the hosts in live, whose entries have not expired
Carryover(g, c, live) ==
  IF SameResolver(g.cfg, c) /\ ~g.cfg.fake /\ ~c.fake
  THEN LET eligible == {i \in DOMAIN g.cache : g.cache[i].positive /\ g.cache[i].host \in live}
       IN Kept(g.cache, {i \in eligible : Cardinality({j \in eligible : j >= i}) <= c.max})
  ELSE {<<>>}

------------------------------------------------------------------------------
(* The store.                                                              *)

Releasable(g) == g.draining /\ g.refs = 0 /\ g.flights = {}

\* releaseDrained, on the objects, the Map and the active generation given
ReleaseDrained(objs, st, act) ==
  [i \in Ids |-> IF st[i] # 0 /\ st[i] # act /\ Releasable(objs[st[i]]) THEN 0
                 ELSE st[i]]

Waiting(g, h) == {c \in Callers : caller[c] = [gen |-> g, host |-> h]}

\* endQuery, called n times
Ended(r, n) == [r EXCEPT !.refs = IF @ >= n THEN @ - n ELSE 0]

Begun(r) == [r EXCEPT !.refs = @ + 1]

\* The lookups of the generations in S are aborted: their entries are deleted
\* and everyone who awaits them gets an error and releases its handle.
Abort(S, st, act) ==
  LET Left(g) == Cardinality({c \in Callers : caller[c].gen = g})
      objs == [g \in DOMAIN gens |->
                 IF g \in S THEN Ended([gens[g] EXCEPT !.flights = {}], Left(g))
                 ELSE gens[g]]
  IN /\ gens' = objs
     /\ caller' = [c \in Callers |-> IF caller[c].gen \in S THEN Idle ELSE caller[c]]
     /\ aborted' = aborted \cup UNION {{g} \X gens[g].flights : g \in S}
     /\ store' = ReleaseDrained(objs, st, act)

------------------------------------------------------------------------------
(* Lookups.                                                                *)

\* A host of config.hosts or a cached answer or failure: the handle is
\* acquired and released in one go.
ResolveAtOnce(h) ==
  /\ LET g == gens[active]
     IN \/ /\ h \in g.cfg.static
           /\ store' = ReleaseDrained(gens, store, active)
           /\ UNCHANGED gens
        \/ /\ h \notin g.cfg.static
           /\ Hit(g.cache, h)
           /\ \E cache \in Touched(g.cache, h) :
                gens' = [gens EXCEPT ![active] =
                           Ended(Begun([g EXCEPT !.cache = cache]), 1)]
           /\ store' = ReleaseDrained(gens', store, active)
  /\ UNCHANGED <<active, txn, counter, caller, aborted, stopped>>

\* Nothing is cached, or an entry that has expired and is deleted: join or start
\* the flight.
ResolveUpstream(c, h) ==
  /\ caller[c] = Idle
  /\ LET g == gens[active]
     IN /\ h \notin g.cfg.static
        /\ \E rest \in Without(g.cache, h) :
             LET missed == [g EXCEPT !.cache = rest, !.flights = @ \cup {h}]
             IN gens' = [gens EXCEPT ![active] = Begun(missed)]
  /\ caller' = [caller EXCEPT ![c] = [gen |-> active, host |-> h]]
  /\ UNCHANGED <<store, active, txn, counter, aborted, stopped>>

\* The flight ends with cache as the cache of its generation, and so do the
\* calls that joined it.
Landed(g, h, cache) ==
  /\ LET done == [gens[g] EXCEPT !.cache = cache, !.flights = @ \ {h}]
     IN gens' = [gens EXCEPT ![g] = Ended(done, Cardinality(Waiting(g, h)))]
  /\ caller' = [c \in Callers |-> IF c \in Waiting(g, h) THEN Idle ELSE caller[c]]
  /\ store' = ReleaseDrained(gens', store, active)
  /\ UNCHANGED <<active, txn, counter, aborted, stopped>>

EntryOf(g, h, positive) ==
  [host |-> h, positive |-> positive, via |-> gens[g].cfg.upstream]

\* Mutant: the result goes to the generation that is active by now.
AnswerToActive(g, h) ==
  /\ h \in gens[g].flights
  /\ \E cache \in Stored(gens[active].cache, EntryOf(g, h, TRUE), gens[active].cfg.max) :
       gens' = [x \in DOMAIN gens |->
                  LET r == IF x = g THEN Ended([gens[x] EXCEPT !.flights = @ \ {h}],
                                               Cardinality(Waiting(g, h)))
                           ELSE gens[x]
                  IN IF x = active THEN [r EXCEPT !.cache = cache] ELSE r]
  /\ caller' = [c \in Callers |-> IF c \in Waiting(g, h) THEN Idle ELSE caller[c]]
  /\ store' = ReleaseDrained(gens', store, active)
  /\ UNCHANGED <<active, txn, counter, aborted, stopped>>

\* An upstream answers.
Answer(g, h) ==
  /\ h \in gens[g].flights
  /\ \E cache \in Stored(gens[g].cache, EntryOf(g, h, TRUE), gens[g].cfg.max) :
       Landed(g, h, cache)

\* All upstreams fail, and no fallback host is configured.
Failure(g, h) ==
  /\ h \in gens[g].flights
  /\ gens[g].cfg.negative
  /\ \E cache \in Stored(gens[g].cache, EntryOf(g, h, FALSE), gens[g].cfg.max) :
       Landed(g, h, cache)

\* The same without negative caching, or with a fallback host: nothing is cached.
Fallback(g, h) ==
  /\ h \in gens[g].flights
  /\ Landed(g, h, gens[g].cache)

\* Mutant: the continuation does not look at its signal.
LateAnswerWrites(g, h) ==
  /\ <<g, h>> \in aborted
  /\ \E cache \in Stored(gens[g].cache, EntryOf(g, h, TRUE), gens[g].cfg.max) :
       gens' = [gens EXCEPT ![g].cache = cache]
  /\ aborted' = aborted \ {<<g, h>>}
  /\ UNCHANGED <<store, active, txn, counter, caller, stopped>>

\* dns.lookup cannot be cancelled; when it returns after an abort the
\* continuation throws before it writes.
LateAnswer(g, h) ==
  /\ <<g, h>> \in aborted
  /\ aborted' = aborted \ {<<g, h>>}
  /\ UNCHANGED <<gens, store, active, txn, counter, caller, stopped>>

------------------------------------------------------------------------------
(* The reload adapter.                                                     *)

\* Builds the candidate.  A change of the fake-IP settings is rejected before.
Prepare(c) ==
  /\ txn.phase = "idle"
  /\ Len(gens) < MaxGens
  /\ c.fake = gens[active].cfg.fake
  /\ \E live \in SUBSET Hosts : \E cache \in Carryover(gens[active], c, live) :
       gens' = Append(gens, NewGeneration(counter + 1, c, cache))
  /\ txn' = [phase |-> "prepared", old |-> active, cand |-> Len(gens) + 1]
  /\ UNCHANGED <<store, active, counter, caller, aborted, stopped>>

\* switchTo
Commit ==
  /\ txn.phase = "prepared"
  /\ gens' = [gens EXCEPT ![active].draining = TRUE, ![txn.cand].draining = FALSE]
  /\ store' = [store EXCEPT ![gens[txn.cand].id] = txn.cand]
  /\ active' = txn.cand
  /\ txn' = [txn EXCEPT !.phase = "committed"]
  /\ UNCHANGED <<counter, caller, aborted, stopped>>

\* rollback of a candidate that was not published
RollbackPrepared ==
  /\ txn.phase = "prepared"
  /\ txn' = [txn EXCEPT !.phase = "rolled back"]
  /\ UNCHANGED <<gens, store, active, counter, caller, aborted, stopped>>

\* rollback of a published candidate: restore.  The old generation may have
\* been released in the meantime.
RollbackCommitted ==
  /\ txn.phase = "committed"
  /\ gens' = [gens EXCEPT ![txn.cand].draining = TRUE, ![txn.old].draining = FALSE]
  /\ store' = ReleaseDrained(gens', [store EXCEPT ![gens[txn.old].id] = txn.old,
                                                  ![gens[txn.cand].id] = txn.cand],
                             txn.old)
  /\ active' = txn.old
  /\ txn' = [txn EXCEPT !.phase = "rolled back"]
  /\ UNCHANGED <<counter, caller, aborted, stopped>>

\* Mutant: drained generations are left to the next lookup.
CleanupKeeps ==
  /\ txn.phase = "committed"
  /\ counter' = counter + 1
  /\ txn' = NoTxn
  /\ UNCHANGED <<gens, store, active, caller, aborted, stopped>>

\* cleanup after success; the reload counter moves on
CleanupCommitted ==
  /\ txn.phase = "committed"
  /\ store' = ReleaseDrained(gens, store, active)
  /\ counter' = counter + 1
  /\ txn' = NoTxn
  /\ UNCHANGED <<gens, active, caller, aborted, stopped>>

\* cleanup after a rollback: lookups on the candidate are aborted
CleanupRolledBack ==
  /\ txn.phase = "rolled back"
  /\ Abort({txn.cand}, store, active)
  /\ txn' = NoTxn
  /\ UNCHANGED <<active, counter, stopped>>

\* Mutant: only the active generation is told.
ShutdownActiveOnly ==
  /\ ~stopped
  /\ stopped' = TRUE
  /\ Abort({active}, store, active)
  /\ UNCHANGED <<active, txn, counter>>

\* SystemDnsResolver.stop; lookups that begin later are still served
Shutdown ==
  /\ ~stopped
  /\ stopped' = TRUE
  /\ Abort({store[i] : i \in Ids} \ {0}, store, active)
  /\ UNCHANGED <<active, txn, counter>>

Next ==
  \/ \E h \in Hosts : ResolveAtOnce(h)
  \/ \E c \in Callers, h \in Hosts : ResolveUpstream(c, h)
  \/ \E g \in DOMAIN gens, h \in Hosts :
       Answer(g, h) \/ Failure(g, h) \/ Fallback(g, h) \/ LateAnswer(g, h)
  \/ \E c \in Configs : Prepare(c)
  \/ Commit
  \/ RollbackPrepared
  \/ RollbackCommitted
  \/ CleanupCommitted
  \/ CleanupRolledBack
  \/ Shutdown

Spec == Init /\ [][Next]_vars

------------------------------------------------------------------------------
(* Properties.                                                             *)

\* Each variable has its type.
TypeOK ==
  /\ gens \in Seq(Generation)
  /\ Len(gens) \in 1 .. MaxGens
  /\ store \in [Ids -> 0 .. Len(gens)]
  /\ active \in DOMAIN gens
  /\ txn \in [phase : {"idle", "prepared", "committed", "rolled back"},
              old : 0 .. Len(gens), cand : 0 .. Len(gens)]
  /\ counter \in Ids
  /\ caller \in [Callers -> {Idle} \cup [gen : DOMAIN gens, host : Hosts]]
  /\ aborted \subseteq (DOMAIN gens) \X Hosts
  /\ stopped \in BOOLEAN

\* queryRefs counts exactly the calls of resolve() that hold a handle, and a
\* flight is in the single-flight table exactly as long as someone awaits it.
RefsExact ==
  \A g \in DOMAIN gens :
    /\ gens[g].refs = Cardinality({c \in Callers : caller[c].gen = g})
    /\ gens[g].flights = {h \in Hosts : Waiting(g, h) # {}}

\* The store knows the generations that matter, although ids are used again
\* after a failed reload: one with pending lookups is registered under its id
\* (otherwise stop() would not reach it), so is the active one, and every other
\* registered generation is draining.
StoreSound ==
  /\ store[gens[active].id] = active
  /\ \A g \in DOMAIN gens : gens[g].refs > 0 => store[gens[g].id] = g
  /\ \A i \in Ids : store[i] # 0 => /\ gens[store[i]].id = i
                                    /\ gens[store[i]].draining <=> store[i] # active

\* A generation's cache holds at most its limit, at most one entry per host
\* (positive and negative entries exclude each other), none for a host that is
\* being looked up, and only answers of its own upstream, whatever generation
\* they were carried over from and whenever the query was started.
CacheSound ==
  \A g \in DOMAIN gens :
    LET cache == gens[g].cache
    IN /\ Len(cache) <= gens[g].cfg.max
       /\ \A i, j \in DOMAIN cache : cache[i].host = cache[j].host => i = j
       /\ \A i \in DOMAIN cache : /\ cache[i].host \notin gens[g].flights
                                  /\ cache[i].via = gens[g].cfg.upstream

\* What is over stays over.  stop() rejects every pending lookup, on draining
\* generations too, and nothing is added to a generation after it was released
\* and its reload has ended: neither a late answer nor a later reload with the
\* same id reaches it.
EndedIsFinal ==
  [][/\ ~stopped /\ stopped' => \A c \in Callers : caller'[c] = Idle
     /\ \A g \in DOMAIN gens :
          (/\ \A i \in Ids : store[i] # g
           /\ g \notin {txn.old, txn.cand})
          => /\ gens'[g].flights = gens[g].flights
             /\ Len(gens'[g].cache) <= Len(gens[g].cache)]_vars

\* Once a reload has ended, a draining generation is registered only as long as
\* lookups hold it: whichever lookup, abort or cleanup is last releases it.
DrainedReleased ==
  txn.phase = "idle" =>
    \A i \in Ids : store[i] \notin {0, active} => gens[store[i]].refs > 0

\* Every lookup is on exactly one generation, which the store knows, counts
\* and gives up when the last of them has ended (resolver.ts resolve,
\* generationStore.ts).
LookupsAccounted == TypeOK /\ RefsExact /\ StoreSound /\ DrainedReleased
==============================================================================
