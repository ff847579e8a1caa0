-------------------------- MODULE OutboundRegistry --------------------------
(***************************************************************************)
(* The generation-aware outbound registry (src/outbound/runtimeRegistry.ts,*)
(* src/outbound/generation.ts) together with the two clients that drive    *)
(* it: the data plane (Engine.openTcp / bindOutboundReference acquire and  *)
(* release references) and the transactional reload adapter                *)
(* (src/reload/adapters/outboundRuntimeAdapter.ts: prepare, commit,        *)
(* rollback, cleanup).                                                     *)
(*                                                                         *)
(* A generation is an object; its id is built from the counter of          *)
(* src/reload/runtimeIntegration.ts, and a failed reload leaves that       *)
(* counter alone, so two objects may carry the same id (IdOf need not be   *)
(* injective).  The registry's Map is keyed by id.                         *)
(***************************************************************************)
EXTENDS Integers, FiniteSets

CONSTANTS
    Gens,          \* generation objects (OutboundGeneration instances)
    Ids,           \* generation ids, the keys of the registry's Map
    Tags,          \* outbound tags
    IdOf,          \* [Gens -> Ids]
    TagsOf,        \* [Gens -> SUBSET Tags], the outbounds of a generation
    InitialGen,    \* the generation Engine.start builds
    NoGen,         \* "undefined" of records.get
    MaxRefs,       \* bound on the references ever acquired
    YieldsDuringSwap \* may the data plane run between a commit and its cleanup?

ASSUME RegistryAssumption ==
    /\ Ids \subseteq Nat
    /\ IdOf \in [Gens -> Ids]
    /\ TagsOf \in [Gens -> SUBSET Tags]
    /\ InitialGen \in Gens
    /\ NoGen \notin Gens
    /\ MaxRefs \in Nat
    /\ YieldsDuringSwap \in BOOLEAN

VARIABLES
    records,         \* id -> generation whose record is in the Map
    activeId,        \* activeGenerationId
    recState,        \* generation -> state of its record
    usage,           \* generation -> #usage.references
    tagRefs,         \* generation -> referencesByTag of its record
    refs,            \* references handed out and not yet released
    nextReferenceId,
    built,           \* generations the program has created so far
    stopped,         \* outbounds whose stop() has been called
    stopping,        \* retired outbounds whose stop() is awaited, onRetire due
    stopQueue,       \* outbounds stopAll has not finished with
    registered,      \* outbounds registered with the lifecycle
    prepared,        \* the reload adapter's prepared value
    generation       \* RuntimeReloadIntegration's counter of successful reloads

regVars == <<records, activeId, recState>>
refVars == <<usage, tagRefs, refs, nextReferenceId>>
lifeVars == <<stopped, stopping, stopQueue, registered>>
vars == <<regVars, refVars, lifeVars, built, prepared, generation>>

Outbounds(g) == {g} \X TagsOf[g]
Recorded == {g \in Gens : records[IdOf[g]] = g}

\* Every record is gone: stopAll has run (Engine.stop, legacy reload).
Closed == records[activeId] = NoGen
ActiveGen == records[activeId]

Stages == {"idle", "prepared", "commit-ok", "commit-failed", "rolled-back"}
Idle == [stage |-> "idle", old |-> IdOf[InitialGen], cand |-> InitialGen,
         switched |-> FALSE, committed |-> FALSE, disposed |-> FALSE]

Ref == [id : Nat, gen : Gens, tag : Tags]

TypeOK ==
    /\ records \in [Ids -> Gens \cup {NoGen}]
    /\ activeId \in Ids
    /\ recState \in [Gens -> {"active", "draining"}]
    /\ usage \in [Gens -> Nat]
    /\ tagRefs \in [Gens -> [Tags -> Nat]]
    /\ refs \in SUBSET Ref
    /\ nextReferenceId \in Nat
    /\ built \in SUBSET Gens
    /\ stopped \in SUBSET (Gens \X Tags)
    /\ stopping \in SUBSET (Gens \X Tags)
    /\ stopQueue \in SUBSET (Gens \X Tags)
    /\ registered \in SUBSET (Gens \X Tags)
    /\ prepared \in [stage : Stages, old : Ids, cand : Gens,
                     switched : BOOLEAN, committed : BOOLEAN,
                     disposed : BOOLEAN]
    /\ generation \in Nat

Init ==
    /\ records = [i \in Ids |-> IF i = IdOf[InitialGen] THEN InitialGen ELSE NoGen]
    /\ activeId = IdOf[InitialGen]
    /\ recState = [g \in Gens |-> IF g = InitialGen THEN "active" ELSE "draining"]
    /\ usage = [g \in Gens |-> 0]
    /\ tagRefs = [g \in Gens |-> [t \in Tags |-> 0]]
    /\ refs = {}
    /\ nextReferenceId = 1
    /\ built = {InitialGen}
    /\ stopped = {}
    /\ stopping = {}
    /\ stopQueue = {}
    /\ registered = Outbounds(InitialGen)
    /\ prepared = Idle
    /\ generation = IdOf[InitialGen]

-----------------------------------------------------------------------------
(***************************************************************************)
(* Registry operations.  Each is the synchronous part of a method; what    *)
(* follows an await is an action of its own.                               *)
(***************************************************************************)

Dec(n) == IF n > 0 THEN n - 1 ELSE 0

\* requireRecord(id) does not throw.
Available(id) == records[id] # NoGen

\* Mutant of Unused: retire without looking at the reference count.
UnusedIgnoringReferences(id, use) == Available(id) /\ id # activeId

\* The condition under which retireIfUnused deletes a record, given the
\* usage counters current at the call.
Unused(id, use) ==
    /\ Available(id)
    /\ id # activeId
    /\ use[records[id]] = 0

\* retireIfUnused(id): forget the record and call stop() on each of its
\* outbounds; onRetire follows in FinishStop.
RetireIfUnused(id, use) ==
    IF Unused(id, use)
    THEN /\ records' = [records EXCEPT ![id] = NoGen]
         /\ stopped' = stopped \cup Outbounds(records[id])
         /\ stopping' = stopping \cup Outbounds(records[id])
         /\ UNCHANGED <<activeId, recState, stopQueue, registered>>
    ELSE UNCHANGED <<regVars, lifeVars>>

\* Mutant of AcquireOutboundRef: no check that the record exists.
AcquireUnchecked(t) ==
    /\ refs' = refs \cup {[id |-> nextReferenceId, gen |-> ActiveGen, tag |-> t]}
    /\ nextReferenceId' = nextReferenceId + 1
    /\ UNCHANGED <<regVars, usage, tagRefs, lifeVars, built, prepared, generation>>

\* acquireOutboundRef(tag) on the active generation.
AcquireOutboundRef(t) ==
    LET g == ActiveGen
        ref == [id |-> nextReferenceId, gen |-> g, tag |-> t]
    IN /\ Available(activeId)
       /\ t \in TagsOf[g]
       /\ usage' = [usage EXCEPT ![g] = @ + 1]
       /\ tagRefs' = [tagRefs EXCEPT ![g][t] = @ + 1]
       /\ refs' = refs \cup {ref}
       /\ nextReferenceId' = nextReferenceId + 1
       /\ UNCHANGED <<regVars, lifeVars, built, prepared, generation>>

\* Mutant of ReleaseOutboundRef: the last release does not retire.
ReleaseWithoutRetire(r) ==
    /\ r \in refs
    /\ refs' = refs \ {r}
    /\ usage' = [usage EXCEPT ![r.gen] = Dec(@)]
    /\ tagRefs' = [tagRefs EXCEPT ![r.gen][r.tag] = Dec(@)]
    /\ UNCHANGED <<regVars, lifeVars, nextReferenceId, built, prepared, generation>>

\* releaseOutboundRef(reference): the closure decrements the generation the
\* reference was taken from; the per-tag count and the retirement go through
\* the record that is under the reference's generation id now.
ReleaseOutboundRef(r) ==
    LET id == IdOf[r.gen]
        h == records[id]
    IN /\ r \in refs
       /\ refs' = refs \ {r}
       /\ usage' = [usage EXCEPT ![r.gen] = Dec(@)]
       /\ tagRefs' = IF h = NoGen THEN tagRefs
                     ELSE [tagRefs EXCEPT ![h][r.tag] = Dec(@)]
       /\ RetireIfUnused(id, usage')
       /\ UNCHANGED <<nextReferenceId, built, prepared, generation>>

\* The await on stop() resolves and onRetire unregisters the outbound.
FinishStop(o) ==
    /\ o \in stopping
    /\ stopping' = stopping \ {o}
    /\ registered' = registered \ {o}
    /\ UNCHANGED <<regVars, refVars, stopped, stopQueue, built, prepared, generation>>

\* stopAll(): clear the Map at once, then stop the outbounds one by one.
StopAll ==
    /\ ~Closed
    /\ records' = [i \in Ids |-> NoGen]
    /\ stopQueue' = UNION {Outbounds(g) : g \in Recorded}
    /\ UNCHANGED <<activeId, recState, refVars, stopped, stopping, registered,
                   built, prepared, generation>>

\* The loop of stopAll calls stop() on the next outbound ...
StopNext(o) ==
    /\ o \in stopQueue
    /\ stopQueue \cap stopped = {}
    /\ stopped' = stopped \cup {o}
    /\ UNCHANGED <<regVars, refVars, stopping, stopQueue, registered, built,
                   prepared, generation>>

\* ... and unregisters it once the await resolves.
StopNextDone(o) ==
    /\ o \in stopQueue \cap stopped
    /\ stopQueue' = stopQueue \ {o}
    /\ registered' = registered \ {o}
    /\ UNCHANGED <<regVars, refVars, stopping, stopped, built, prepared, generation>>

-----------------------------------------------------------------------------
(***************************************************************************)
(* The reload adapter.  Reloads are serialised: one prepared value at a    *)
(* time.                                                                   *)
(***************************************************************************)

\* prepare(): build a candidate generation and its outbounds.  A candidate
\* that validation rejects leaves nothing behind (a stuttering step).  Its id
\* is one more than the number of successful reloads, of any component.
Prepare(g) ==
    /\ prepared.stage = "idle"
    /\ ~Closed
    /\ g \notin built
    /\ IdOf[g] > generation
    /\ built' = built \cup {g}
    /\ prepared' = [stage |-> "prepared", old |-> activeId, cand |-> g,
                    switched |-> FALSE, committed |-> FALSE, disposed |-> FALSE]
    /\ UNCHANGED <<regVars, refVars, lifeVars, generation>>

\* switchGeneration's guards: the id is new and the active record is there.
CanSwitch(g) == ~Available(IdOf[g]) /\ Available(activeId)

\* commit(): switchGeneration, then the routing commit succeeds.
Commit ==
    LET g == prepared.cand IN
    /\ prepared.stage = "prepared"
    /\ CanSwitch(g)
    /\ records' = [records EXCEPT ![IdOf[g]] = g]
    /\ recState' = [recState EXCEPT ![ActiveGen] = "draining", ![g] = "active"]
    /\ activeId' = IdOf[g]
    /\ registered' = registered \cup Outbounds(g)
    /\ prepared' = [prepared EXCEPT !.stage = "commit-ok",
                                    !.switched = TRUE, !.committed = TRUE]
    /\ UNCHANGED <<refVars, stopped, stopping, stopQueue, built, generation>>

\* commit(): switchGeneration throws, nothing has changed.
CommitRefused ==
    /\ prepared.stage = "prepared"
    /\ ~CanSwitch(prepared.cand)
    /\ prepared' = [prepared EXCEPT !.stage = "commit-failed"]
    /\ UNCHANGED <<regVars, refVars, lifeVars, built, generation>>

\* commit(): the routing commit throws after the switch; the catch block
\* restores the old generation and retires the candidate, which nobody can
\* have referenced in between.
CommitThrows ==
    LET g == prepared.cand IN
    /\ prepared.stage = "prepared"
    /\ CanSwitch(g)
    /\ recState' = [recState EXCEPT ![ActiveGen] = "draining",
                                    ![records[prepared.old]] = "active",
                                    ![g] = "draining"]
    /\ activeId' = prepared.old
    /\ stopped' = stopped \cup Outbounds(g)
    /\ stopping' = stopping \cup Outbounds(g)
    /\ registered' = registered \cup Outbounds(g)
    /\ prepared' = [prepared EXCEPT !.stage = "commit-failed", !.disposed = TRUE]
    /\ UNCHANGED <<records, refVars, stopQueue, built, generation>>

\* restoreGeneration's guards.
CanRestore == Available(prepared.old) /\ Available(IdOf[prepared.cand])

\* rollback() after a successful switch.
RollbackSwitched ==
    /\ prepared.stage = "commit-ok"
    /\ CanRestore
    /\ recState' = [recState EXCEPT ![records[IdOf[prepared.cand]]] = "draining",
                                    ![records[prepared.old]] = "active"]
    /\ activeId' = prepared.old
    /\ prepared' = [prepared EXCEPT !.stage = "rolled-back",
                                    !.switched = FALSE, !.committed = FALSE]
    /\ UNCHANGED <<records, refVars, lifeVars, built, generation>>

\* rollback(): restoreGeneration throws because a record is gone; the
\* executor records the error and goes on to cleanup.
RollbackThrows ==
    /\ prepared.stage = "commit-ok"
    /\ ~CanRestore
    /\ prepared' = [prepared EXCEPT !.stage = "rolled-back"]
    /\ UNCHANGED <<regVars, refVars, lifeVars, built, generation>>

\* rollback() after a successful switch, which restores or throws.
RollbackCommitted == IF CanRestore THEN RollbackSwitched ELSE RollbackThrows

\* rollback() of a candidate that was never switched in.
RollbackPrepared ==
    /\ prepared.stage = "prepared"
    /\ prepared' = [prepared EXCEPT !.stage = "rolled-back"]
    /\ UNCHANGED <<regVars, refVars, lifeVars, built, generation>>

\* Mutant of CleanupUnswitched: the candidate's outbounds are not stopped.
CleanupForgetsCandidate ==
    /\ prepared.stage # "idle"
    /\ ~prepared.disposed /\ ~prepared.switched
    /\ ~Closed
    /\ ~Available(IdOf[prepared.cand])
    /\ prepared' = Idle
    /\ UNCHANGED <<regVars, refVars, lifeVars, built, generation>>

\* cleanup() when the candidate is not in the registry: stop its outbounds.
CleanupUnswitched ==
    /\ prepared.stage # "idle"
    /\ ~prepared.disposed /\ ~prepared.switched
    /\ ~Closed
    /\ ~Available(IdOf[prepared.cand])
    /\ stopped' = stopped \cup Outbounds(prepared.cand)
    /\ prepared' = Idle
    /\ UNCHANGED <<regVars, refVars, stopping, stopQueue, registered, built, generation>>

\* Mutant of CleanupSwitched: only failed candidates are retired.
CleanupKeepsOld ==
    /\ prepared.stage # "idle"
    /\ ~prepared.disposed
    /\ prepared.switched \/ (~Closed /\ Available(IdOf[prepared.cand]))
    /\ RetireIfUnused(IdOf[prepared.cand], usage)
    /\ prepared' = Idle
    /\ generation' = IF prepared.stage = "commit-ok" THEN IdOf[prepared.cand]
                     ELSE generation
    /\ UNCHANGED <<refVars, built>>

\* cleanup() when the candidate's id is in the registry: retire the old
\* generation after a success, the candidate after a failure.  A successful
\* reload then advances the counter.
CleanupSwitched ==
    /\ prepared.stage # "idle"
    /\ ~prepared.disposed
    /\ prepared.switched \/ (~Closed /\ Available(IdOf[prepared.cand]))
    /\ RetireIfUnused(IF prepared.committed THEN prepared.old
                      ELSE IdOf[prepared.cand], usage)
    /\ prepared' = Idle
    /\ generation' = IF prepared.stage = "commit-ok" THEN IdOf[prepared.cand]
                     ELSE generation
    /\ UNCHANGED <<refVars, built>>

\* cleanup() with nothing to do: the candidate is disposed, or
\* registry.snapshot() throws because the registry has been closed.
CleanupNothing ==
    /\ prepared.stage # "idle"
    /\ prepared.disposed \/ (~prepared.switched /\ Closed)
    /\ prepared' = Idle
    /\ UNCHANGED <<regVars, refVars, lifeVars, built, generation>>

-----------------------------------------------------------------------------
\* Sockets and Engine.stop run only while the executor awaits real I/O.
DataPlaneRuns == YieldsDuringSwap \/ prepared.stage # "commit-ok"

Acquire == /\ DataPlaneRuns
           /\ nextReferenceId <= MaxRefs
           /\ \E t \in Tags : AcquireOutboundRef(t)
Release == DataPlaneRuns /\ \E r \in refs : ReleaseOutboundRef(r)
Shutdown == DataPlaneRuns /\ StopAll
Cleanup == CleanupUnswitched \/ CleanupSwitched \/ CleanupNothing

Next ==
    \/ Acquire
    \/ Release
    \/ Shutdown
    \/ \E o \in stopping : FinishStop(o)
    \/ \E o \in stopQueue : StopNext(o)
    \/ \E o \in stopQueue : StopNextDone(o)
    \/ \E g \in Gens : Prepare(g)
    \/ Commit
    \/ CommitRefused
    \/ CommitThrows
    \/ RollbackCommitted
    \/ RollbackPrepared
    \/ CleanupUnswitched
    \/ CleanupSwitched
    \/ CleanupNothing

\* Connections close eventually (idle timers), the executor always reaches
\* cleanup, and awaited stop() calls resolve.
Fairness ==
    /\ WF_vars(Release)
    /\ WF_vars(Cleanup)
    /\ WF_vars(\E o \in stopping : FinishStop(o))
    /\ WF_vars(\E o \in stopQueue : StopNext(o) \/ StopNextDone(o))

Spec == Init /\ [][Next]_vars
FairSpec == Spec /\ Fairness

-----------------------------------------------------------------------------
(***************************************************************************)
(* Properties.                                                             *)
(***************************************************************************)

RefsOf(g) == {r \in refs : r.gen = g}
RefsOfTag(g, t) == {r \in refs : r.gen = g /\ r.tag = t}

\* While the registry is open, a generation stays in the Map, under its id
\* and with none of its outbounds stopped, as long as a connection holds a
\* reference to it (retireIfUnused against acquire/release, through ids that
\* may be reused).
LiveReferencesUsable ==
    ~Closed => \A r \in refs : /\ records[IdOf[r.gen]] = r.gen
                               /\ <<r.gen, r.tag>> \notin stopped

\* The two counters a reference moves, the generation's usage and the
\* record's per-tag count, are exactly the references outstanding, although
\* the release reaches the record through its id.
ReferenceCountsExact ==
    /\ \A g \in Gens : usage[g] = Cardinality(RefsOf(g))
    /\ \A g \in Recorded, t \in Tags :
           tagRefs[g][t] = Cardinality(RefsOfTag(g, t))

\* After any sequence of switches, restores and retirements exactly the
\* record under activeGenerationId is in state "active".
OneActiveGeneration ==
    ~Closed => \A g \in Recorded : recState[g] = "active" <=> g = ActiveGen

\* A drained generation nobody references is in the Map only while the
\* transaction that will retire it is under way: none is left behind.
NoOrphanedGeneration ==
    \A g \in Recorded :
        g # ActiveGen /\ usage[g] = 0 =>
            /\ prepared.stage # "idle"
            /\ IdOf[g] \in {prepared.old, IdOf[prepared.cand]}

\* The lifecycle holds exactly the outbounds of recorded generations and
\* those whose stop() is still due or awaited (onActivate and onRetire pair
\* up on every path, CommitThrows and stopAll included).
LifecycleTracksRegistry ==
    registered = (UNION {Outbounds(g) : g \in Recorded}) \cup stopping \cup stopQueue

\* No outbound object is forgotten: a generation the adapter has built is in
\* the Map, or its transaction is still open, or its outbounds are stopped.
\* Needs the executor not to yield between commit and cleanup: otherwise a
\* connection can pin a rolled-back candidate whose id the next one reuses.
NoLeakedCandidate ==
    ~Closed => \A g \in built \ Recorded :
                  \/ prepared.stage # "idle" /\ prepared.cand = g
                  \/ Outbounds(g) \subseteq stopped

\* A rolled-back reload has put the old generation back (restoreGeneration
\* found both records).  Needs the executor not to yield, as above: else the
\* old generation may drain and retire before the rollback.
RollbackRestoresOld ==
    prepared.stage = "rolled-back" /\ ~Closed => activeId = prepared.old

\* References: acquire, release and retireIfUnused agree, whatever reload is
\* under way, so that a count never lies and a connection never meets a
\* stopped outbound.
ReferencesSound == LiveReferencesUsable /\ ReferenceCountsExact

\* Generations: one is active and each other one is either in use or about to
\* be retired by the transaction under way.
GenerationsSound == OneActiveGeneration /\ NoOrphanedGeneration

\* Reload: whichever of commit, rollback and cleanup ran, the lifecycle and
\* the registry hold the same outbounds, no candidate is forgotten, and a
\* rolled-back transaction has put the old generation back.
ReloadAccountsForAll ==
    LifecycleTracksRegistry /\ NoLeakedCandidate /\ RollbackRestoresOld

\* A generation that is no longer active is eventually retired.
DrainingRetires ==
    \A g \in Gens :
        (g \in Recorded /\ g # ActiveGen) ~> (g \notin Recorded \/ g = ActiveGen)
=============================================================================
