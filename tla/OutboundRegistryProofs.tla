----------------------- MODULE OutboundRegistryProofs -----------------------
(***************************************************************************)
(* Safety of the outbound registry for any set of generations, ids, tags   *)
(* and references, whether or not the data plane runs between a commit and *)
(* its cleanup; only the account of the candidates needs that it does not. *)
(***************************************************************************)
EXTENDS OutboundRegistry, FiniteSetTheorems, TLAPS

-----------------------------------------------------------------------------
(* The inductive invariant.                                                *)

\* A record sits under the id of its generation.
Keyed == \A i \in Ids : records[i] # NoGen => IdOf[records[i]] = i

\* stopAll clears the whole Map; nothing else removes the active record.
AllGone ==
    /\ Closed => \A i \in Ids : records[i] = NoGen
    /\ stopQueue # {} => Closed

RefsWellFormed ==
    /\ IsFiniteSet(refs)
    /\ \A r \in refs : r.id < nextReferenceId /\ r.tag \in TagsOf[r.gen]

RefsRecorded == ~Closed => \A r \in refs : records[IdOf[r.gen]] = r.gen

Unstopped == \A g \in Recorded : Outbounds(g) \cap stopped = {}

\* A generation that has never been switched in has left no trace.
Fresh(g) ==
    /\ g \notin Recorded
    /\ \A r \in refs : r.gen # g
    /\ \A t \in Tags : tagRefs[g][t] = 0
    /\ Outbounds(g) \cap stopped = {}

FreshGens ==
    ~Closed => \A g \in Gens :
        (g \notin built \/ (prepared.stage = "prepared" /\ g = prepared.cand))
            => Fresh(g)

\* The open transaction's candidate has been built.
CandBuilt == {InitialGen, prepared.cand} \subseteq built

\* Where the adapter's flags and the active id stand in each stage.
TxnInv ==
    /\ prepared.switched = prepared.committed
    /\ prepared.stage \in {"idle", "prepared", "commit-failed"} => ~prepared.committed
    /\ prepared.stage \in {"idle", "prepared", "commit-ok"} => ~prepared.disposed
    /\ prepared.stage = "commit-ok" => prepared.committed
    /\ ~Closed =>
          /\ prepared.stage # "idle" /\ ~prepared.committed
                => activeId = prepared.old
          /\ prepared.committed => /\ activeId = IdOf[prepared.cand]
                                   /\ prepared.old # activeId
          /\ prepared.disposed => records[IdOf[prepared.cand]] = NoGen

IInv ==
    /\ TypeOK
    /\ Keyed
    /\ AllGone
    /\ RefsWellFormed
    /\ RefsRecorded
    /\ Unstopped
    /\ FreshGens
    /\ CandBuilt
    /\ TxnInv
    /\ ReferenceCountsExact
    /\ OneActiveGeneration
    /\ NoOrphanedGeneration

-----------------------------------------------------------------------------
(* Facts about the operators.                                              *)

LEMMA DecType == \A n \in Nat : Dec(n) \in Nat
  BY DEF Dec

\* Outbounds of a generation are pairs of a generation and a tag.
LEMMA OutboundsType == \A g \in Gens : Outbounds(g) \subseteq Gens \X Tags
  BY RegistryAssumption DEF Outbounds

\* retireIfUnused keeps the types, whatever counters it is given.
LEMMA RetireType ==
  ASSUME TypeOK, NEW id \in Ids, NEW use, RetireIfUnused(id, use)
  PROVE  /\ records' \in [Ids -> Gens \cup {NoGen}]
         /\ activeId' \in Ids
         /\ recState' \in [Gens -> {"active", "draining"}]
         /\ stopped' \in SUBSET (Gens \X Tags)
         /\ stopping' \in SUBSET (Gens \X Tags)
         /\ stopQueue' \in SUBSET (Gens \X Tags)
         /\ registered' \in SUBSET (Gens \X Tags)
  <1>1. CASE Unused(id, use)
    <2>1. records[id] \in Gens
      BY <1>1 DEF TypeOK, Unused, Available
    <2>2. Outbounds(records[id]) \subseteq Gens \X Tags
      BY <2>1, OutboundsType
    <2>. QED  BY <1>1, <2>2 DEF RetireIfUnused, TypeOK
  <1>2. CASE ~Unused(id, use)
    BY <1>2 DEF RetireIfUnused, TypeOK, regVars, lifeVars
  <1>. QED  BY <1>1, <1>2

\* Every step keeps the types.
LEMMA TypeStep == TypeOK /\ [Next]_vars => TypeOK'
<1>. SUFFICES ASSUME TypeOK, [Next]_vars PROVE TypeOK'  OBVIOUS
<1>. USE RegistryAssumption
<1>1. CASE Acquire
  <2>. PICK t \in Tags : AcquireOutboundRef(t)
    BY <1>1 DEF Acquire
  <2>1. ActiveGen \in Gens
    BY DEF AcquireOutboundRef, Available, ActiveGen, TypeOK
  <2>2. refs' \in SUBSET Ref
    BY <2>1 DEF AcquireOutboundRef, TypeOK, Ref
  <2>3. usage' \in [Gens -> Nat] /\ tagRefs' \in [Gens -> [Tags -> Nat]]
    BY <2>1 DEF AcquireOutboundRef, TypeOK
  <2>. QED  BY <2>2, <2>3 DEF AcquireOutboundRef, TypeOK, regVars, lifeVars
<1>2. CASE Release
  <2>. PICK r \in refs : ReleaseOutboundRef(r)
    BY <1>2 DEF Release
  <2>1. r.gen \in Gens /\ r.tag \in Tags
    BY DEF TypeOK, Ref
  <2>2. usage' \in [Gens -> Nat] /\ tagRefs' \in [Gens -> [Tags -> Nat]]
    <3>1. usage' \in [Gens -> Nat]
      BY <2>1, DecType DEF ReleaseOutboundRef, TypeOK
    <3>2. CASE records[IdOf[r.gen]] = NoGen
      BY <3>1, <3>2 DEF ReleaseOutboundRef, TypeOK
    <3>3. CASE records[IdOf[r.gen]] # NoGen
      <4>1. records[IdOf[r.gen]] \in Gens
        BY <2>1, <3>3 DEF TypeOK
      <4>2. Dec(tagRefs[records[IdOf[r.gen]]][r.tag]) \in Nat
        BY <2>1, <4>1, DecType DEF TypeOK
      <4>. QED  BY <2>1, <3>1, <3>3, <4>1, <4>2 DEF ReleaseOutboundRef, TypeOK
    <3>. QED  BY <3>2, <3>3
  <2>3. IdOf[r.gen] \in Ids /\ RetireIfUnused(IdOf[r.gen], usage')
    BY <2>1 DEF ReleaseOutboundRef
  <2>. QED  BY <2>2, <2>3, RetireType DEF ReleaseOutboundRef, TypeOK
<1>3. CASE Shutdown
  <2>1. UNION {Outbounds(g) : g \in Recorded} \subseteq Gens \X Tags
    BY OutboundsType DEF Recorded
  <2>. QED  BY <1>3, <2>1 DEF Shutdown, StopAll, TypeOK, refVars
<1>4. CASE \E o \in stopping : FinishStop(o)
  BY <1>4 DEF FinishStop, TypeOK, regVars, refVars
<1>5. CASE \E o \in stopQueue : StopNext(o) \/ StopNextDone(o)
  BY <1>5 DEF StopNext, StopNextDone, TypeOK, regVars, refVars
<1>6. CASE \E g \in Gens : Prepare(g)
  BY <1>6 DEF Prepare, TypeOK, Stages, regVars, refVars, lifeVars
<1>7. CASE Commit
  <2>1. prepared.cand \in Gens /\ IdOf[prepared.cand] \in Ids
    BY DEF TypeOK
  <2>2. Outbounds(prepared.cand) \subseteq Gens \X Tags
    BY <2>1, OutboundsType
  <2>3. prepared' \in [stage : Stages, old : Ids, cand : Gens,
                       switched : BOOLEAN, committed : BOOLEAN,
                       disposed : BOOLEAN]
    BY <1>7 DEF Commit, TypeOK, Stages
  <2>. QED  BY <1>7, <2>1, <2>2, <2>3 DEF Commit, TypeOK, refVars
<1>8. CASE CommitThrows
  <2>1. prepared.cand \in Gens /\ prepared.old \in Ids
    BY DEF TypeOK
  <2>2. Outbounds(prepared.cand) \subseteq Gens \X Tags
    BY <2>1, OutboundsType
  <2>3. prepared' \in [stage : Stages, old : Ids, cand : Gens,
                       switched : BOOLEAN, committed : BOOLEAN,
                       disposed : BOOLEAN]
    BY <1>8 DEF CommitThrows, TypeOK, Stages
  <2>. QED  BY <1>8, <2>1, <2>2, <2>3 DEF CommitThrows, TypeOK, refVars
<1>9. CASE RollbackSwitched
  <2>1. prepared.old \in Ids
    BY DEF TypeOK
  <2>2. prepared' \in [stage : Stages, old : Ids, cand : Gens,
                       switched : BOOLEAN, committed : BOOLEAN,
                       disposed : BOOLEAN]
    BY <1>9 DEF RollbackSwitched, TypeOK, Stages
  <2>. QED  BY <1>9, <2>1, <2>2 DEF RollbackSwitched, TypeOK, refVars, lifeVars
<1>10. CASE CommitRefused \/ RollbackThrows \/ RollbackPrepared
  BY <1>10, ZenonT(60) DEF CommitRefused, RollbackThrows, RollbackPrepared, TypeOK, Stages,
     regVars, refVars, lifeVars
<1>11. CASE CleanupUnswitched
  <2>1. Outbounds(prepared.cand) \subseteq Gens \X Tags
    BY OutboundsType DEF TypeOK
  <2>. QED
    BY <1>11, <2>1 DEF CleanupUnswitched, TypeOK, Idle, Stages, regVars, refVars
<1>12. CASE CleanupSwitched
  <2>. DEFINE id == IF prepared.committed THEN prepared.old ELSE IdOf[prepared.cand]
  <2>1. id \in Ids /\ IdOf[prepared.cand] \in Nat
    BY DEF TypeOK
  <2>2. RetireIfUnused(id, usage)
    BY <1>12 DEF CleanupSwitched
  <2>. HIDE DEF id
  <2>. QED
    BY <1>12, <2>1, <2>2, RetireType
    DEF CleanupSwitched, TypeOK, Idle, Stages, refVars
<1>13. CASE CleanupNothing
  BY <1>13 DEF CleanupNothing, TypeOK, Idle, Stages, regVars, refVars, lifeVars
<1>14. CASE UNCHANGED vars
  BY <1>14 DEF vars, regVars, refVars, lifeVars, TypeOK
<1>. QED
  BY <1>1, <1>2, <1>3, <1>4, <1>5, <1>6, <1>7, <1>8, <1>9, <1>10, <1>11,
     <1>12, <1>13, <1>14 DEF Next, RollbackCommitted

LEMMA InitType == Init => TypeOK
<1>. SUFFICES ASSUME Init PROVE TypeOK  OBVIOUS
<1>1. Outbounds(InitialGen) \subseteq Gens \X Tags
  BY OutboundsType, RegistryAssumption
<1>2. IdOf[InitialGen] \in Ids /\ IdOf[InitialGen] \in Nat
  BY RegistryAssumption
<1>. QED  BY <1>1, <1>2, RegistryAssumption DEF Init, TypeOK, Idle, Stages, Ref

\* The type invariant: Map keys, counters, reference and outbound sets and
\* the adapter's prepared value keep their types in every step.
THEOREM TypeCorrect == Spec => []TypeOK
  BY InitType, TypeStep, PTL DEF Spec

-----------------------------------------------------------------------------
(* The inductive invariant is preserved, one lemma per operation.          *)

\* Subsets of the reference set are finite, so their cardinality is a number.
LEMMA RefsFinite ==
  ASSUME RefsWellFormed
  PROVE  /\ \A g : IsFiniteSet(RefsOf(g)) /\ Cardinality(RefsOf(g)) \in Nat
         /\ \A g, t : /\ IsFiniteSet(RefsOfTag(g, t))
                      /\ Cardinality(RefsOfTag(g, t)) \in Nat
  BY FS_Subset, FS_CardinalityType DEF RefsWellFormed, RefsOf, RefsOfTag

\* A generation that no element of a finite set of references belongs to.
LEMMA ZeroCount ==
  ASSUME NEW R, IsFiniteSet(R), NEW g, Cardinality({r \in R : r.gen = g}) = 0
  PROVE  \A r \in R : r.gen # g
  <1>1. IsFiniteSet({r \in R : r.gen = g})
    BY FS_Subset
  <1>2. {r \in R : r.gen = g} = {}
    BY <1>1, FS_EmptySet
  <1>. QED  BY <1>2

\* Once every record is gone, only the parts about references and flags
\* remain to be shown.
LEMMA ClosedCase ==
  ASSUME TypeOK, Closed, AllGone
  PROVE  /\ Recorded = {}
         /\ Keyed /\ RefsRecorded /\ Unstopped /\ FreshGens
         /\ OneActiveGeneration /\ NoOrphanedGeneration
  <1>1. Recorded = {}
    <2>1. \A g \in Gens : IdOf[g] \in Ids /\ g # NoGen
      BY RegistryAssumption
    <2>. QED  BY <2>1 DEF AllGone, Recorded
  <1>. QED
    BY <1>1 DEF AllGone, Keyed, RefsRecorded, Unstopped, FreshGens,
       OneActiveGeneration, NoOrphanedGeneration, TypeOK

LEMMA AcquireStep ==
  ASSUME IInv, TypeOK', NEW t \in Tags, AcquireOutboundRef(t)
  PROVE  IInv'
<1>. DEFINE g == ActiveGen
            ref == [id |-> nextReferenceId, gen |-> g, tag |-> t]
<1>. USE RegistryAssumption
<1>1. /\ g \in Gens /\ IdOf[g] = activeId /\ g \in Recorded /\ ~Closed
      /\ t \in TagsOf[g]
  BY DEF IInv, TypeOK, AcquireOutboundRef, Available, ActiveGen, Keyed, Recorded, Closed
<1>2. /\ UNCHANGED <<records, activeId, recState, stopped, stopping, stopQueue,
                     registered, built, prepared, generation>>
      /\ Recorded' = Recorded /\ Closed' = Closed /\ ActiveGen' = ActiveGen
  BY DEF AcquireOutboundRef, regVars, lifeVars, Recorded, Closed, ActiveGen
<1>3. /\ refs' = refs \cup {ref} /\ ref \notin refs
      /\ ref.gen = g /\ ref.tag = t /\ ref.id = nextReferenceId
  BY DEF AcquireOutboundRef, IInv, RefsWellFormed, TypeOK
<1>. HIDE DEF g, ref
<1>4. RefsWellFormed'
  <2>1. IsFiniteSet(refs')
    BY <1>3, FS_AddElement DEF IInv, RefsWellFormed
  <2>2. \A r \in refs' : r.id < nextReferenceId' /\ r.tag \in TagsOf[r.gen]
    <3>. TAKE r \in refs'
    <3>1. nextReferenceId' = nextReferenceId + 1 /\ nextReferenceId \in Nat
      BY DEF AcquireOutboundRef, IInv, TypeOK
    <3>2. CASE r = ref
      BY <1>1, <1>3, <3>1, <3>2
    <3>3. CASE r \in refs
      <4>1. r.id < nextReferenceId /\ r.tag \in TagsOf[r.gen] /\ r.id \in Nat
        BY <3>3 DEF IInv, RefsWellFormed, TypeOK, Ref
      <4>. QED  BY <3>1, <4>1
    <3>. QED  BY <1>3, <3>2, <3>3
  <2>. QED  BY <2>1, <2>2 DEF RefsWellFormed
<1>5. ReferenceCountsExact'
  <2>1. \A h : RefsOf(h)' = IF h = g THEN RefsOf(h) \cup {ref} ELSE RefsOf(h)
    BY <1>3 DEF RefsOf
  <2>2. \A h, u : RefsOfTag(h, u)' = IF h = g /\ u = t THEN RefsOfTag(h, u) \cup {ref}
                                     ELSE RefsOfTag(h, u)
    BY <1>3 DEF RefsOfTag
  <2>3. Cardinality(RefsOf(g) \cup {ref}) = Cardinality(RefsOf(g)) + 1
    <3>1. ref \notin RefsOf(g)
      BY <1>3 DEF RefsOf
    <3>. QED  BY <3>1, RefsFinite, FS_AddElement DEF IInv
  <2>4. Cardinality(RefsOfTag(g, t) \cup {ref}) = Cardinality(RefsOfTag(g, t)) + 1
    <3>1. ref \notin RefsOfTag(g, t)
      BY <1>3 DEF RefsOfTag
    <3>. QED  BY <3>1, RefsFinite, FS_AddElement DEF IInv
  <2>5. \A h \in Gens : usage'[h] = IF h = g THEN usage[h] + 1 ELSE usage[h]
    BY <1>1 DEF AcquireOutboundRef, IInv, TypeOK, g
  <2>6. \A h \in Gens, u \in Tags :
           tagRefs'[h][u] = IF h = g /\ u = t THEN tagRefs[h][u] + 1 ELSE tagRefs[h][u]
    BY <1>1 DEF AcquireOutboundRef, IInv, TypeOK, g
  <2>7. \A h \in Gens : usage'[h] = Cardinality(RefsOf(h)')
    BY <2>1, <2>3, <2>5 DEF IInv, ReferenceCountsExact
  <2>8. \A h \in Recorded, u \in Tags : tagRefs'[h][u] = Cardinality(RefsOfTag(h, u)')
    <3>. TAKE h \in Recorded, u \in Tags
    <3>1. h \in Gens /\ tagRefs[h][u] = Cardinality(RefsOfTag(h, u))
      BY DEF IInv, ReferenceCountsExact, Recorded
    <3>2. CASE h = g /\ u = t
      BY <2>2, <2>4, <2>6, <3>1, <3>2
    <3>3. CASE ~(h = g /\ u = t)
      BY <2>2, <2>6, <3>1, <3>3
    <3>. QED  BY <3>2, <3>3
  <2>. QED  BY <1>2, <2>7, <2>8 DEF ReferenceCountsExact
<1>6. RefsRecorded'
  BY <1>1, <1>2, <1>3 DEF IInv, RefsRecorded, Recorded
<1>7. FreshGens'
  <2>1. \A h \in Gens : Fresh(h) => h # g
    BY <1>1 DEF Fresh
  <2>2. \A h \in Gens : h # g => tagRefs'[h] = tagRefs[h]
    BY <1>1 DEF AcquireOutboundRef, IInv, TypeOK, g
  <2>3. \A h \in Gens : Fresh(h) => Fresh(h)'
    BY <1>2, <1>3, <2>1, <2>2 DEF Fresh, Outbounds
  <2>. QED  BY <1>2, <2>3 DEF IInv, FreshGens
<1>8. NoOrphanedGeneration'
  <2>1. \A h \in Recorded : h # ActiveGen => usage'[h] = usage[h]
    BY <1>1 DEF AcquireOutboundRef, IInv, TypeOK, g, Recorded
  <2>. QED  BY <1>2, <2>1 DEF IInv, NoOrphanedGeneration
<1>9. Keyed' /\ AllGone' /\ Unstopped' /\ CandBuilt' /\ TxnInv' /\ OneActiveGeneration'
  BY <1>2 DEF IInv, Keyed, AllGone, Unstopped, CandBuilt, TxnInv, OneActiveGeneration,
     Outbounds
<1>. QED  BY <1>4, <1>5, <1>6, <1>7, <1>8, <1>9 DEF IInv

\* What retireIfUnused does to the Map and to the stopped outbounds.
LEMMA RetireEffects ==
  ASSUME TypeOK, Keyed, AllGone, NEW id \in Ids, NEW use, RetireIfUnused(id, use)
  PROVE  /\ UNCHANGED <<activeId, recState, stopQueue, registered>>
         /\ (Closed' <=> Closed) /\ ActiveGen' = ActiveGen
         /\ Keyed' /\ AllGone'
         /\ Unused(id, use) =>
               /\ records[id] \in Recorded /\ records[id] # ActiveGen /\ ~Closed
               /\ Recorded' = Recorded \ {records[id]}
               /\ records' = [records EXCEPT ![id] = NoGen]
               /\ stopped' = stopped \cup Outbounds(records[id])
         /\ ~Unused(id, use) => /\ Recorded' = Recorded /\ records' = records
                                /\ stopped' = stopped
<1>. USE RegistryAssumption
<1>1. CASE ~Unused(id, use)
  BY <1>1 DEF RetireIfUnused, regVars, lifeVars, Closed, ActiveGen, Keyed, AllGone, Recorded
<1>2. CASE Unused(id, use)
  <2>. DEFINE h == records[id]
  <2>1. h \in Gens /\ IdOf[h] = id /\ id # activeId
    BY <1>2 DEF Unused, Available, Keyed, TypeOK
  <2>2. /\ records' = [records EXCEPT ![id] = NoGen]
        /\ stopped' = stopped \cup Outbounds(h)
        /\ UNCHANGED <<activeId, recState, stopQueue, registered>>
    BY <1>2 DEF RetireIfUnused
  <2>3. records'[activeId] = records[activeId]
    BY <2>1, <2>2 DEF TypeOK
  <2>4. ~Closed /\ ~Closed' /\ ActiveGen' = ActiveGen
    <3>1. ~Closed
      BY <2>1 DEF AllGone
    <3>. QED  BY <2>2, <2>3, <3>1 DEF Closed, ActiveGen
  <2>5. h # ActiveGen
    <3>1. IdOf[ActiveGen] = activeId
      BY <2>4 DEF ActiveGen, Closed, Keyed, TypeOK
    <3>. QED  BY <2>1, <3>1
  <2>6. Recorded' = Recorded \ {h}
    <3>1. \A k \in Gens : k \in Recorded' <=> k \in Recorded /\ k # h
      <4>. TAKE k \in Gens
      <4>1. IdOf[k] \in Ids
        OBVIOUS
      <4>2. CASE IdOf[k] = id
        BY <2>1, <2>2, <4>1, <4>2 DEF Recorded, TypeOK
      <4>3. CASE IdOf[k] # id
        BY <2>1, <2>2, <4>1, <4>3 DEF Recorded, TypeOK
      <4>. QED  BY <4>2, <4>3
    <3>. QED  BY <3>1 DEF Recorded
  <2>7. Keyed'
    BY <2>2 DEF Keyed, TypeOK
  <2>8. AllGone'
    BY <2>2, <2>4 DEF AllGone
  <2>9. h \in Recorded
    BY <2>1 DEF Recorded
  <2>. QED  BY <1>2, <2>2, <2>4, <2>5, <2>6, <2>7, <2>8, <2>9
<1>. QED  BY <1>1, <1>2

\* The outbounds of different generations are different objects.
LEMMA OutboundsDisjoint ==
  ASSUME NEW g, NEW h, g # h
  PROVE  Outbounds(g) \cap Outbounds(h) = {}
  BY DEF Outbounds

LEMMA ReleaseStep ==
  ASSUME IInv, TypeOK', NEW r \in refs, ReleaseOutboundRef(r)
  PROVE  IInv'
<1>. DEFINE id == IdOf[r.gen]
            h == records[id]
<1>. USE RegistryAssumption
<1>1. r.gen \in Gens /\ r.tag \in Tags /\ id \in Ids
  BY DEF IInv, TypeOK, Ref
<1>2. /\ UNCHANGED <<nextReferenceId, built, prepared, generation>>
      /\ refs' = refs \ {r}
      /\ usage' = [usage EXCEPT ![r.gen] = Dec(@)]
      /\ RetireIfUnused(id, usage')
  BY DEF ReleaseOutboundRef
<1>. HIDE DEF id
<1>3. /\ UNCHANGED <<activeId, recState, stopQueue, registered>>
      /\ (Closed' <=> Closed) /\ ActiveGen' = ActiveGen
      /\ Keyed' /\ AllGone'
      /\ Unused(id, usage') =>
            /\ h \in Recorded /\ h # ActiveGen /\ ~Closed
            /\ Recorded' = Recorded \ {h}
            /\ records' = [records EXCEPT ![id] = NoGen]
            /\ stopped' = stopped \cup Outbounds(h)
      /\ ~Unused(id, usage') => /\ Recorded' = Recorded /\ records' = records
                                /\ stopped' = stopped
  BY <1>1, <1>2, RetireEffects DEF IInv
<1>4. ~Closed => h = r.gen
  BY DEF IInv, RefsRecorded, id
<1>5. RefsWellFormed'
  <2>1. IsFiniteSet(refs')
    BY <1>2, FS_RemoveElement DEF IInv, RefsWellFormed
  <2>. QED  BY <1>2, <2>1 DEF IInv, RefsWellFormed
<1>6. \A g \in Gens : usage'[g] = Cardinality(RefsOf(g)')
  <2>1. \A g : RefsOf(g)' = IF g = r.gen THEN RefsOf(g) \ {r} ELSE RefsOf(g)
    BY <1>2 DEF RefsOf
  <2>2. Cardinality(RefsOf(r.gen) \ {r}) = Cardinality(RefsOf(r.gen)) - 1
    <3>1. r \in RefsOf(r.gen)
      BY DEF RefsOf
    <3>2. IsFiniteSet(RefsOf(r.gen))
      BY RefsFinite DEF IInv
    <3>. QED  BY <3>1, <3>2, FS_RemoveElement
  <2>3. Cardinality(RefsOf(r.gen)) \in Nat /\ Cardinality(RefsOf(r.gen) \ {r}) \in Nat
    BY RefsFinite, FS_RemoveElement, FS_CardinalityType DEF IInv
  <2>4. usage'[r.gen] = Cardinality(RefsOf(r.gen)) - 1
    BY <1>1, <1>2, <2>2, <2>3 DEF IInv, ReferenceCountsExact, Dec, TypeOK
  <2>5. \A g \in Gens : g # r.gen => usage'[g] = usage[g]
    BY <1>1, <1>2 DEF IInv, TypeOK
  <2>. TAKE g \in Gens
  <2>6. CASE g = r.gen
    BY <2>1, <2>2, <2>4, <2>6
  <2>7. CASE g # r.gen
    BY <2>1, <2>5, <2>7 DEF IInv, ReferenceCountsExact
  <2>. QED  BY <2>6, <2>7
<1>7. \A g \in Recorded, t \in Tags : tagRefs'[g][t] = Cardinality(RefsOfTag(g, t)')
  <2>. TAKE g \in Recorded, t \in Tags
  <2>1. g \in Gens /\ ~Closed /\ tagRefs[g][t] = Cardinality(RefsOfTag(g, t))
    BY ClosedCase DEF IInv, Recorded, ReferenceCountsExact
  <2>2. h = r.gen /\ h # NoGen
    BY <1>1, <1>4, <2>1
  <2>3. tagRefs' = [tagRefs EXCEPT ![r.gen][r.tag] = Dec(@)]
    BY <2>2 DEF ReleaseOutboundRef, id
  <2>4. CASE g = r.gen /\ t = r.tag
    <3>1. RefsOfTag(g, t)' = RefsOfTag(g, t) \ {r} /\ r \in RefsOfTag(g, t)
      BY <1>2, <2>4 DEF RefsOfTag
    <3>2. /\ Cardinality(RefsOfTag(g, t) \ {r}) = Cardinality(RefsOfTag(g, t)) - 1
          /\ Cardinality(RefsOfTag(g, t) \ {r}) \in Nat
          /\ Cardinality(RefsOfTag(g, t)) \in Nat
      BY <3>1, RefsFinite, FS_RemoveElement, FS_CardinalityType DEF IInv
    <3>3. tagRefs'[g][t] = Dec(tagRefs[g][t])
      BY <1>1, <2>1, <2>3, <2>4 DEF IInv, TypeOK
    <3>. QED  BY <2>1, <3>1, <3>2, <3>3 DEF Dec
  <2>5. CASE ~(g = r.gen /\ t = r.tag)
    <3>1. RefsOfTag(g, t)' = RefsOfTag(g, t)
      BY <1>2, <2>5 DEF RefsOfTag
    <3>2. tagRefs'[g][t] = tagRefs[g][t]
      BY <1>1, <2>1, <2>3, <2>5 DEF IInv, TypeOK
    <3>. QED  BY <2>1, <3>1, <3>2
  <2>. QED  BY <2>4, <2>5
<1>8. ReferenceCountsExact'
  BY <1>3, <1>6, <1>7 DEF ReferenceCountsExact
<1>9. Unused(id, usage') => \A q \in refs' : q.gen # h
  <2>. SUFFICES ASSUME Unused(id, usage') PROVE \A q \in refs' : q.gen # h
    OBVIOUS
  <2>1. h \in Gens /\ usage'[h] = 0
    BY <1>3 DEF Unused, Recorded
  <2>2. Cardinality({q \in refs' : q.gen = h}) = 0
    BY <1>6, <2>1 DEF RefsOf
  <2>. QED  BY <1>5, <2>2, ZeroCount DEF RefsWellFormed
<1>10. RefsRecorded'
  <2>. SUFFICES ASSUME ~Closed, NEW q \in refs' PROVE records'[IdOf[q.gen]] = q.gen
    BY <1>3 DEF RefsRecorded
  <2>1. records[IdOf[q.gen]] = q.gen /\ q.gen \in Gens /\ IdOf[q.gen] \in Ids
    BY <1>2 DEF IInv, RefsRecorded, TypeOK, Ref
  <2>2. CASE Unused(id, usage')
    <3>1. IdOf[q.gen] # id
      BY <1>9, <2>1, <2>2
    <3>. QED  BY <1>1, <1>3, <2>1, <2>2, <3>1 DEF IInv, TypeOK
  <2>3. CASE ~Unused(id, usage')
    BY <1>3, <2>1, <2>3
  <2>. QED  BY <2>2, <2>3
<1>11. Unstopped'
  BY <1>3, OutboundsDisjoint DEF IInv, Unstopped
<1>12. FreshGens'
  <2>. SUFFICES ASSUME ~Closed, NEW g \in Gens, Fresh(g) PROVE Fresh(g)'
    BY <1>2, <1>3 DEF IInv, FreshGens
  <2>1. g # h
    <3>1. h = r.gen
      BY <1>4
    <3>. QED  BY <3>1 DEF Fresh
  <2>2. g \notin Recorded' /\ (\A q \in refs' : q.gen # g)
    BY <1>2, <1>3 DEF Fresh
  <2>3. \A t \in Tags : tagRefs'[g][t] = 0
    <3>1. tagRefs' = [tagRefs EXCEPT ![h][r.tag] = Dec(@)]
      BY <1>1, <1>4 DEF ReleaseOutboundRef, id
    <3>2. tagRefs'[g] = tagRefs[g]
      BY <1>1, <2>1, <3>1 DEF IInv, TypeOK
    <3>. QED  BY <3>2 DEF Fresh
  <2>4. Outbounds(g) \cap stopped' = {}
    BY <1>3, <2>1, OutboundsDisjoint DEF Fresh
  <2>. QED  BY <2>2, <2>3, <2>4 DEF Fresh, Outbounds
<1>13. CandBuilt' /\ TxnInv'
  <2>1. records[IdOf[prepared.cand]] = NoGen => records'[IdOf[prepared.cand]] = NoGen
    BY <1>1, <1>3 DEF IInv, TypeOK
  <2>. QED  BY <1>2, <1>3, <2>1 DEF IInv, CandBuilt, TxnInv
<1>14. OneActiveGeneration'
  BY <1>3 DEF IInv, OneActiveGeneration
<1>15. NoOrphanedGeneration'
  <2>. SUFFICES ASSUME NEW g \in Recorded', g # ActiveGen, usage'[g] = 0
               PROVE  /\ prepared.stage # "idle"
                      /\ IdOf[g] \in {prepared.old, IdOf[prepared.cand]}
    BY <1>2, <1>3 DEF NoOrphanedGeneration
  <2>1. g \in Recorded /\ g \in Gens /\ ~Closed
    BY <1>3, ClosedCase DEF IInv, Recorded
  <2>2. g # r.gen
    <3>. SUFFICES ASSUME g = r.gen PROVE FALSE
      OBVIOUS
    <3>1. h = g /\ h # NoGen /\ id # activeId
      BY <1>4, <2>1 DEF ActiveGen
    <3>2. Unused(id, usage')
      BY <3>1 DEF Unused, Available
    <3>. QED  BY <1>3, <3>1, <3>2
  <2>3. usage[g] = 0
    BY <1>1, <1>2, <2>1, <2>2 DEF IInv, TypeOK
  <2>. QED  BY <2>1, <2>3 DEF IInv, NoOrphanedGeneration
<1>. QED
  BY <1>3, <1>5, <1>8, <1>10, <1>11, <1>12, <1>13, <1>14, <1>15 DEF IInv

\* Steps that touch neither the references nor their counters keep the
\* parts of the invariant that are about them.
LEMMA RefsUntouched ==
  ASSUME IInv, UNCHANGED refVars, Recorded' \subseteq Recorded
  PROVE  RefsWellFormed' /\ ReferenceCountsExact'
  BY DEF IInv, refVars, RefsWellFormed, ReferenceCountsExact, RefsOf, RefsOfTag

LEMMA ShutdownStep ==
  ASSUME IInv, TypeOK', StopAll
  PROVE  IInv'
<1>1. /\ records' = [i \in Ids |-> NoGen]
      /\ UNCHANGED <<activeId, recState, stopped, stopping, registered, built,
                     prepared, generation>>
      /\ UNCHANGED refVars
  BY DEF StopAll
<1>2. Closed' /\ AllGone'
  BY <1>1 DEF Closed, AllGone, IInv, TypeOK
<1>3. Recorded' = {} /\ Keyed' /\ RefsRecorded' /\ Unstopped' /\ FreshGens'
      /\ OneActiveGeneration' /\ NoOrphanedGeneration'
  <2>1. \A g \in Gens : IdOf[g] \in Ids /\ g # NoGen
    BY RegistryAssumption
  <2>2. Recorded' = {}
    BY <1>1, <2>1 DEF Recorded
  <2>. QED
    BY <1>1, <1>2, <2>2 DEF Keyed, RefsRecorded, Unstopped, FreshGens,
       OneActiveGeneration, NoOrphanedGeneration
<1>4. RefsWellFormed' /\ ReferenceCountsExact'
  BY <1>1, <1>3, RefsUntouched
<1>5. CandBuilt' /\ TxnInv'
  BY <1>1, <1>2 DEF IInv, CandBuilt, TxnInv
<1>. QED  BY <1>2, <1>3, <1>4, <1>5 DEF IInv

LEMMA StopStep ==
  ASSUME IInv, TypeOK', NEW o, FinishStop(o) \/ StopNext(o) \/ StopNextDone(o)
  PROVE  IInv'
<1>1. /\ UNCHANGED <<records, activeId, recState, built, prepared, generation>>
      /\ UNCHANGED refVars
      /\ Recorded' = Recorded /\ (Closed' <=> Closed) /\ ActiveGen' = ActiveGen
  BY DEF FinishStop, StopNext, StopNextDone, regVars, Recorded, Closed, ActiveGen
<1>2. ~Closed => stopped' = stopped
  BY DEF FinishStop, StopNext, StopNextDone, IInv, AllGone
<1>3. Keyed' /\ CandBuilt' /\ TxnInv' /\ OneActiveGeneration'
  BY <1>1 DEF IInv, Keyed, CandBuilt, TxnInv, OneActiveGeneration
<1>4. AllGone'
  BY <1>1 DEF IInv, AllGone, FinishStop, StopNext, StopNextDone
<1>5. RefsWellFormed' /\ ReferenceCountsExact'
  BY <1>1, RefsUntouched
<1>6. RefsRecorded' /\ NoOrphanedGeneration'
  BY <1>1 DEF IInv, RefsRecorded, NoOrphanedGeneration, refVars
<1>7. CASE ~Closed
  <2>1. Unstopped' /\ FreshGens'
    BY <1>1, <1>2, <1>7 DEF IInv, Unstopped, FreshGens, Fresh, Outbounds, refVars
  <2>. QED  BY <1>3, <1>4, <1>5, <1>6, <2>1 DEF IInv
<1>8. CASE Closed
  <2>1. Recorded = {}
    BY <1>8, ClosedCase DEF IInv
  <2>2. Unstopped' /\ FreshGens'
    BY <1>1, <1>8, <2>1 DEF Unstopped, FreshGens
  <2>. QED  BY <1>3, <1>4, <1>5, <1>6, <2>2 DEF IInv
<1>. QED  BY <1>7, <1>8

LEMMA PrepareStep ==
  ASSUME IInv, TypeOK', NEW g \in Gens, Prepare(g)
  PROVE  IInv'
<1>1. /\ UNCHANGED <<records, activeId, recState, stopped, stopping, stopQueue,
                     registered>>
      /\ UNCHANGED refVars
      /\ Recorded' = Recorded /\ (Closed' <=> Closed) /\ ActiveGen' = ActiveGen
  BY DEF Prepare, regVars, lifeVars, Recorded, Closed, ActiveGen
<1>2. /\ prepared' = [stage |-> "prepared", old |-> activeId, cand |-> g,
                      switched |-> FALSE, committed |-> FALSE, disposed |-> FALSE]
      /\ prepared.stage = "idle" /\ g \notin built /\ built' = built \cup {g}
  BY DEF Prepare
<1>3. Keyed' /\ AllGone' /\ Unstopped' /\ OneActiveGeneration' /\ RefsRecorded'
  BY <1>1 DEF IInv, Keyed, AllGone, Unstopped, OneActiveGeneration, RefsRecorded,
     refVars, Outbounds
<1>4. RefsWellFormed' /\ ReferenceCountsExact'
  BY <1>1, RefsUntouched
<1>5. CandBuilt' /\ TxnInv'
  BY <1>1, <1>2 DEF IInv, CandBuilt, TxnInv
<1>6. FreshGens'
  <2>1. \A h \in Gens : Fresh(h)' <=> Fresh(h)
    BY <1>1 DEF Fresh, Outbounds, refVars
  <2>. QED  BY <1>1, <1>2, <2>1 DEF IInv, FreshGens
<1>7. NoOrphanedGeneration'
  BY <1>1, <1>2 DEF IInv, NoOrphanedGeneration, refVars
<1>. QED  BY <1>3, <1>4, <1>5, <1>6, <1>7 DEF IInv

LEMMA CommitStep ==
  ASSUME IInv, TypeOK', Commit
  PROVE  IInv'
<1>. DEFINE g == prepared.cand
<1>. USE RegistryAssumption
<1>1. /\ g \in Gens /\ IdOf[g] \in Ids /\ ~Closed /\ records[IdOf[g]] = NoGen
      /\ prepared.old = activeId /\ activeId # IdOf[g] /\ activeId \in Ids
      /\ ActiveGen \in Gens /\ IdOf[ActiveGen] = activeId
  BY DEF Commit, CanSwitch, Available, IInv, TypeOK, TxnInv, Closed, ActiveGen, Keyed
<1>2. /\ records' = [records EXCEPT ![IdOf[g]] = g]
      /\ recState' = [recState EXCEPT ![ActiveGen] = "draining", ![g] = "active"]
      /\ activeId' = IdOf[g]
      /\ UNCHANGED <<stopped, stopping, stopQueue, built, generation>>
      /\ UNCHANGED refVars
  BY DEF Commit
<1>3. /\ prepared'.stage = "commit-ok" /\ prepared'.switched /\ prepared'.committed
      /\ prepared'.cand = g /\ prepared'.old = prepared.old
      /\ prepared'.disposed = prepared.disposed
  BY DEF Commit, IInv, TypeOK
<1>4. Fresh(g)
  BY <1>1 DEF Commit, IInv, FreshGens
<1>. HIDE DEF g
<1>5. /\ Recorded' = Recorded \cup {g} /\ ~Closed' /\ ActiveGen' = g
      /\ g # ActiveGen
  <2>1. ActiveGen' = g
    BY <1>1, <1>2 DEF ActiveGen, IInv, TypeOK
  <2>2. ~Closed'
    BY <1>1, <2>1 DEF Closed, ActiveGen
  <2>3. \A k \in Gens : k \in Recorded' <=> k \in Recorded \/ k = g
    <3>. TAKE k \in Gens
    <3>1. CASE IdOf[k] = IdOf[g]
      BY <1>1, <1>2, <3>1 DEF Recorded, IInv, TypeOK
    <3>2. CASE IdOf[k] # IdOf[g]
      BY <1>1, <1>2, <3>2 DEF Recorded, IInv, TypeOK
    <3>. QED  BY <3>1, <3>2
  <2>4. Recorded' = Recorded \cup {g}
    BY <1>1, <2>3 DEF Recorded
  <2>. QED  BY <1>1, <2>1, <2>2, <2>4
<1>6. Keyed'
  BY <1>1, <1>2 DEF IInv, Keyed, TypeOK
<1>7. AllGone'
  BY <1>1, <1>2, <1>5 DEF IInv, AllGone
<1>8. RefsWellFormed'
  BY <1>2 DEF IInv, RefsWellFormed, refVars
<1>9. ReferenceCountsExact'
  <2>1. \A h \in Gens : usage'[h] = Cardinality(RefsOf(h)')
    BY <1>2 DEF IInv, ReferenceCountsExact, RefsOf, refVars
  <2>2. \A t \in Tags : tagRefs[g][t] = Cardinality(RefsOfTag(g, t))
    <3>1. \A t \in Tags : RefsOfTag(g, t) = {}
      BY <1>4 DEF Fresh, RefsOfTag
    <3>. QED  BY <1>4, <3>1, FS_EmptySet DEF Fresh
  <2>3. \A h \in Recorded', t \in Tags : tagRefs'[h][t] = Cardinality(RefsOfTag(h, t)')
    BY <1>2, <1>5, <2>2 DEF IInv, ReferenceCountsExact, RefsOfTag, refVars
  <2>. QED  BY <2>1, <2>3 DEF ReferenceCountsExact
<1>10. RefsRecorded'
  <2>. SUFFICES ASSUME NEW q \in refs' PROVE records'[IdOf[q.gen]] = q.gen
    BY DEF RefsRecorded
  <2>1. records[IdOf[q.gen]] = q.gen /\ q.gen \in Gens /\ IdOf[q.gen] \in Ids
    BY <1>1, <1>2 DEF IInv, RefsRecorded, TypeOK, Ref, refVars
  <2>2. IdOf[q.gen] # IdOf[g]
    BY <1>1, <2>1
  <2>. QED  BY <1>1, <1>2, <2>1, <2>2 DEF IInv, TypeOK
<1>11. Unstopped'
  BY <1>2, <1>4, <1>5 DEF IInv, Unstopped, Fresh, Outbounds
<1>12. FreshGens'
  <2>. SUFFICES ASSUME NEW h \in Gens, h \notin built PROVE Fresh(h)'
    BY <1>2, <1>3, <1>5 DEF FreshGens
  <2>1. Fresh(h)
    BY <1>1 DEF IInv, FreshGens
  <2>2. h # g
    BY DEF Commit, IInv, TxnInv, FreshGens, CandBuilt, g
  <2>. QED  BY <1>2, <1>5, <2>1, <2>2 DEF Fresh, Outbounds, refVars
<1>13. CandBuilt' /\ TxnInv'
  BY <1>1, <1>2, <1>3, <1>5 DEF IInv, CandBuilt, TxnInv, Commit, g
<1>14. OneActiveGeneration'
  <2>1. recState'[g] = "active"
    BY <1>1, <1>2 DEF IInv, TypeOK
  <2>2. recState'[ActiveGen] = "draining"
    BY <1>1, <1>2, <1>5 DEF IInv, TypeOK
  <2>3. \A h \in Gens : h # g /\ h # ActiveGen => recState'[h] = recState[h]
    BY <1>1, <1>2 DEF IInv, TypeOK
  <2>4. \A h \in Recorded : h \in Gens /\ (recState[h] = "active" <=> h = ActiveGen)
    BY <1>1 DEF IInv, OneActiveGeneration, Recorded
  <2>5. \A h \in Recorded' : recState'[h] = "active" <=> h = g
    BY <1>4, <1>5, <2>1, <2>2, <2>3, <2>4 DEF Fresh
  <2>. QED  BY <1>5, <2>5 DEF OneActiveGeneration
<1>15. NoOrphanedGeneration'
  <2>. SUFFICES ASSUME NEW h \in Recorded', h # g, usage'[h] = 0
               PROVE  IdOf[h] \in {prepared.old, IdOf[g]}
    BY <1>3, <1>5 DEF NoOrphanedGeneration
  <2>1. h \in Recorded /\ usage[h] = 0
    BY <1>2, <1>5 DEF refVars
  <2>2. CASE h = ActiveGen
    BY <1>1, <2>2
  <2>3. CASE h # ActiveGen
    BY <2>1, <2>3 DEF IInv, NoOrphanedGeneration, g
  <2>. QED  BY <2>2, <2>3
<1>. QED
  BY <1>6, <1>7, <1>8, <1>9, <1>10, <1>11, <1>12, <1>13, <1>14, <1>15 DEF IInv

LEMMA CommitThrowsStep ==
  ASSUME IInv, TypeOK', CommitThrows
  PROVE  IInv'
<1>. DEFINE g == prepared.cand
<1>. USE RegistryAssumption
<1>1. /\ g \in Gens /\ IdOf[g] \in Ids /\ ~Closed /\ records[IdOf[g]] = NoGen
      /\ prepared.old = activeId /\ activeId # IdOf[g] /\ activeId \in Ids
      /\ ActiveGen \in Gens /\ IdOf[ActiveGen] = activeId
  BY DEF CommitThrows, CanSwitch, Available, IInv, TypeOK, TxnInv, Closed, ActiveGen, Keyed
<1>2. /\ UNCHANGED <<records, stopQueue, built, generation>>
      /\ UNCHANGED refVars
      /\ activeId' = activeId
      /\ stopped' = stopped \cup Outbounds(g)
  BY <1>1 DEF CommitThrows
<1>3. /\ prepared'.stage = "commit-failed" /\ prepared'.switched = prepared.switched
      /\ prepared'.committed = prepared.committed
      /\ prepared'.cand = g /\ prepared'.old = prepared.old /\ prepared'.disposed
  BY DEF CommitThrows, IInv, TypeOK
<1>4. Fresh(g)
  BY <1>1 DEF CommitThrows, IInv, FreshGens
<1>5. \A h \in Recorded : h \in Gens /\ h # g /\ recState'[h] = recState[h]
  <2>1. recState' = [recState EXCEPT ![ActiveGen] = "draining", ![ActiveGen] = "active",
                                     ![g] = "draining"]
    BY <1>1 DEF CommitThrows, ActiveGen
  <2>2. g \notin Recorded /\ Recorded \subseteq Gens
    BY <1>4 DEF Fresh, Recorded
  <2>3. recState[ActiveGen] = "active"
    <3>1. ActiveGen \in Recorded
      BY <1>1 DEF Recorded, ActiveGen
    <3>. QED  BY <1>1, <3>1 DEF IInv, OneActiveGeneration
  <2>. QED  BY <1>1, <2>1, <2>2, <2>3 DEF IInv, TypeOK
<1>. HIDE DEF g
<1>6. Recorded' = Recorded /\ (Closed' <=> Closed) /\ ActiveGen' = ActiveGen
  BY <1>2 DEF Recorded, Closed, ActiveGen
<1>7. Keyed' /\ AllGone' /\ RefsRecorded' /\ CandBuilt'
  BY <1>2, <1>3, <1>6 DEF IInv, Keyed, AllGone, RefsRecorded, refVars, CandBuilt, g
<1>8. RefsWellFormed' /\ ReferenceCountsExact'
  BY <1>2, <1>6, RefsUntouched
<1>9. Unstopped'
  BY <1>2, <1>5, <1>6, OutboundsDisjoint DEF IInv, Unstopped
<1>10. FreshGens'
  <2>. SUFFICES ASSUME NEW h \in Gens, h \notin built PROVE Fresh(h)'
    BY <1>2, <1>3, <1>6 DEF FreshGens
  <2>1. Fresh(h) /\ h # g
    BY <1>1 DEF IInv, FreshGens, CandBuilt, g
  <2>2. Outbounds(h) \cap stopped' = {}
    BY <1>2, <2>1, OutboundsDisjoint DEF Fresh
  <2>. QED  BY <1>2, <1>6, <2>1, <2>2 DEF Fresh, Outbounds, refVars
<1>11. TxnInv'
  BY <1>1, <1>2, <1>3 DEF IInv, TxnInv, CommitThrows, g
<1>12. OneActiveGeneration'
  BY <1>5, <1>6 DEF IInv, OneActiveGeneration
<1>13. NoOrphanedGeneration'
  BY <1>2, <1>3, <1>6 DEF IInv, NoOrphanedGeneration, refVars, g
<1>. QED  BY <1>7, <1>8, <1>9, <1>10, <1>11, <1>12, <1>13 DEF IInv

LEMMA RollbackStep ==
  ASSUME IInv, TypeOK', RollbackSwitched
  PROVE  IInv'
<1>. DEFINE g == prepared.cand
            old == records[prepared.old]
<1>. USE RegistryAssumption
<1>1. /\ g \in Gens /\ prepared.old \in Ids /\ IdOf[g] \in Ids
      /\ old \in Gens /\ IdOf[old] = prepared.old /\ ~Closed
      /\ prepared.committed
  BY DEF RollbackSwitched, CanRestore, Available, IInv, TypeOK, Keyed, AllGone, TxnInv
<1>2. activeId = IdOf[g] /\ prepared.old # activeId /\ ActiveGen \in Gens
      /\ old # ActiveGen
  BY <1>1 DEF IInv, TxnInv, ActiveGen, Closed, Keyed, TypeOK
<1>3. /\ UNCHANGED <<records, stopped, stopping, stopQueue, registered, built>>
      /\ UNCHANGED refVars
      /\ activeId' = prepared.old
      /\ recState' = [recState EXCEPT ![ActiveGen] = "draining", ![old] = "active"]
  BY <1>2 DEF RollbackSwitched, lifeVars, ActiveGen
<1>4. /\ prepared'.stage = "rolled-back" /\ ~prepared'.switched /\ ~prepared'.committed
      /\ prepared'.cand = g /\ prepared'.old = prepared.old
      /\ prepared'.disposed = prepared.disposed /\ ~prepared.disposed
  BY DEF RollbackSwitched, IInv, TypeOK, TxnInv
<1>. HIDE DEF g, old
<1>5. Recorded' = Recorded /\ ~Closed' /\ ActiveGen' = old
  BY <1>1, <1>3 DEF Recorded, Closed, ActiveGen, old
<1>6. Keyed' /\ AllGone' /\ RefsRecorded' /\ CandBuilt' /\ Unstopped'
  <2>1. Keyed' /\ RefsRecorded' /\ Unstopped'
    BY <1>1, <1>3, <1>5 DEF IInv, Keyed, RefsRecorded, refVars, Unstopped, Outbounds
  <2>2. AllGone' /\ CandBuilt'
    BY <1>1, <1>3, <1>4, <1>5 DEF IInv, AllGone, CandBuilt, g
  <2>. QED  BY <2>1, <2>2
<1>7. RefsWellFormed' /\ ReferenceCountsExact'
  BY <1>3, <1>5, RefsUntouched
<1>8. FreshGens'
  <2>1. \A h \in Gens : h \notin built => Fresh(h)
    BY <1>1 DEF IInv, FreshGens
  <2>2. \A h \in Gens : Fresh(h) => Fresh(h)'
    BY <1>3, <1>5 DEF Fresh, Outbounds, refVars
  <2>. QED  BY <1>3, <1>4, <2>1, <2>2 DEF FreshGens
<1>9. TxnInv'
  <2>1. ~prepared'.disposed /\ prepared'.switched = prepared'.committed
    BY <1>4 DEF RollbackSwitched, IInv, TypeOK
  <2>. QED  BY <1>3, <1>4, <2>1 DEF TxnInv
<1>10. OneActiveGeneration'
  <2>1. \A h \in Gens : recState'[h] = IF h = old THEN "active"
                       ELSE IF h = ActiveGen THEN "draining" ELSE recState[h]
    BY <1>1, <1>2, <1>3 DEF IInv, TypeOK
  <2>2. \A h \in Recorded : h \in Gens /\ (recState[h] = "active" <=> h = ActiveGen)
    BY <1>1 DEF IInv, OneActiveGeneration, Recorded
  <2>3. \A h \in Recorded : recState'[h] = "active" <=> h = old
    BY <2>1, <2>2
  <2>. QED  BY <1>5, <2>3 DEF OneActiveGeneration
<1>11. NoOrphanedGeneration'
  <2>. SUFFICES ASSUME NEW h \in Recorded, usage[h] = 0
               PROVE  IdOf[h] \in {prepared.old, IdOf[g]}
    BY <1>3, <1>4, <1>5 DEF NoOrphanedGeneration, refVars
  <2>1. CASE h = ActiveGen
    <3>1. IdOf[h] = activeId
      BY <1>1, <2>1 DEF IInv, Keyed, ActiveGen, Closed, TypeOK
    <3>. QED  BY <1>2, <3>1
  <2>2. CASE h # ActiveGen
    BY <2>2 DEF IInv, NoOrphanedGeneration, g
  <2>. QED  BY <2>1, <2>2
<1>. QED  BY <1>6, <1>7, <1>8, <1>9, <1>10, <1>11 DEF IInv

\* Steps that change nothing but the adapter's prepared value.
LEMMA FlagStep ==
  ASSUME IInv, TypeOK',
         CommitRefused \/ RollbackThrows \/ RollbackPrepared \/ CleanupNothing
  PROVE  IInv'
<1>1. /\ UNCHANGED <<records, activeId, recState, stopped, stopping, stopQueue,
                     registered, built>>
      /\ UNCHANGED refVars
      /\ Recorded' = Recorded /\ (Closed' <=> Closed) /\ ActiveGen' = ActiveGen
  BY DEF CommitRefused, RollbackThrows, RollbackPrepared, CleanupNothing, regVars,
     lifeVars, Recorded, Closed, ActiveGen
<1>2. Keyed' /\ AllGone' /\ Unstopped' /\ OneActiveGeneration' /\ RefsRecorded'
  BY <1>1 DEF IInv, Keyed, AllGone, Unstopped, OneActiveGeneration, RefsRecorded,
     refVars, Outbounds
<1>3. RefsWellFormed' /\ ReferenceCountsExact'
  BY <1>1, RefsUntouched
<1>4. CandBuilt'
  <2>1. prepared'.cand \in {InitialGen, prepared.cand}
    BY DEF IInv, CommitRefused, RollbackThrows, RollbackPrepared, CleanupNothing, Idle,
       TypeOK
  <2>. QED  BY <1>1, <2>1 DEF IInv, CandBuilt
<1>5. TxnInv'
  <2>1. CASE CommitRefused
    BY <1>1, <2>1 DEF IInv, TxnInv, CommitRefused, TypeOK
  <2>2. CASE RollbackThrows
    BY <1>1, <2>2 DEF IInv, TxnInv, RollbackThrows, TypeOK
  <2>3. CASE RollbackPrepared
    BY <1>1, <2>3 DEF IInv, TxnInv, RollbackPrepared, TypeOK
  <2>4. CASE CleanupNothing
    BY <1>1, <2>4 DEF IInv, TxnInv, CleanupNothing, Idle
  <2>. QED  BY <2>1, <2>2, <2>3, <2>4
<1>6. prepared'.stage # "prepared"
  BY DEF CommitRefused, RollbackThrows, RollbackPrepared, CleanupNothing, Idle, IInv,
     TypeOK
<1>7. FreshGens'
  <2>1. \A h \in Gens : Fresh(h)' <=> Fresh(h)
    BY <1>1 DEF Fresh, Outbounds, refVars
  <2>. QED  BY <1>1, <1>6, <2>1 DEF IInv, FreshGens
<1>8. NoOrphanedGeneration'
  <2>1. CASE CleanupNothing
    <3>. SUFFICES ASSUME NEW h \in Recorded, h # ActiveGen, usage[h] = 0 PROVE FALSE
      BY <1>1 DEF NoOrphanedGeneration, refVars
    <3>1. ~Closed /\ records[IdOf[h]] = h /\ h # NoGen /\ IdOf[h] \in Ids
      BY ClosedCase, RegistryAssumption DEF IInv, Recorded
    <3>2. IdOf[h] = prepared.old \/ IdOf[h] = IdOf[prepared.cand]
      BY DEF IInv, NoOrphanedGeneration
    <3>3. prepared.disposed /\ prepared.stage # "idle"
      BY <2>1, <3>1 DEF CleanupNothing
    <3>4. records[IdOf[prepared.cand]] = NoGen
      BY <3>1, <3>3 DEF IInv, TxnInv
    <3>5. IdOf[h] = prepared.old
      BY <3>1, <3>2, <3>4
    <3>6. activeId = prepared.old \/ activeId = IdOf[prepared.cand]
      BY <3>1, <3>3 DEF IInv, TxnInv
    <3>7. activeId # IdOf[prepared.cand]
      BY <3>1, <3>4 DEF Closed
    <3>. QED  BY <3>1, <3>5, <3>6, <3>7 DEF ActiveGen
  <2>2. CASE CommitRefused \/ RollbackThrows \/ RollbackPrepared
    <3>1. /\ prepared'.stage # "idle" /\ prepared'.old = prepared.old
          /\ prepared'.cand = prepared.cand
      BY <2>2 DEF CommitRefused, RollbackThrows, RollbackPrepared, IInv, TypeOK
    <3>. QED  BY <1>1, <3>1 DEF IInv, NoOrphanedGeneration, refVars
  <2>. QED  BY <2>1, <2>2
<1>. QED  BY <1>2, <1>3, <1>4, <1>5, <1>7, <1>8 DEF IInv

LEMMA CleanupUnswitchedStep ==
  ASSUME IInv, TypeOK', CleanupUnswitched
  PROVE  IInv'
<1>. DEFINE g == prepared.cand
<1>1. /\ UNCHANGED <<records, activeId, recState, stopQueue, built>>
      /\ UNCHANGED refVars
      /\ Recorded' = Recorded /\ ~Closed' /\ ~Closed /\ ActiveGen' = ActiveGen
      /\ stopped' = stopped \cup Outbounds(g) /\ prepared' = Idle
      /\ records[IdOf[g]] = NoGen
  BY DEF CleanupUnswitched, regVars, Recorded, Closed, ActiveGen, Available
<1>2. g \notin Recorded /\ g \in built
  BY <1>1, RegistryAssumption DEF Recorded, IInv, CandBuilt
<1>. HIDE DEF g
<1>3. Keyed' /\ AllGone' /\ OneActiveGeneration' /\ RefsRecorded' /\ CandBuilt'
  BY <1>1 DEF IInv, Keyed, AllGone, OneActiveGeneration, RefsRecorded, refVars,
     CandBuilt, Idle
<1>4. RefsWellFormed' /\ ReferenceCountsExact'
  BY <1>1, RefsUntouched
<1>5. Unstopped'
  BY <1>1, <1>2, OutboundsDisjoint DEF IInv, Unstopped
<1>6. TxnInv'
  BY <1>1 DEF TxnInv, Idle
<1>7. FreshGens'
  <2>. SUFFICES ASSUME NEW h \in Gens, h \notin built PROVE Fresh(h)'
    BY <1>1 DEF FreshGens, Idle
  <2>1. Fresh(h) /\ h # g
    BY <1>1, <1>2 DEF IInv, FreshGens
  <2>2. Outbounds(h) \cap stopped' = {}
    BY <1>1, <2>1, OutboundsDisjoint DEF Fresh
  <2>. QED  BY <1>1, <2>1, <2>2 DEF Fresh, Outbounds, refVars
<1>8. NoOrphanedGeneration'
  <2>. SUFFICES ASSUME NEW h \in Recorded, h # ActiveGen, usage[h] = 0 PROVE FALSE
    BY <1>1 DEF NoOrphanedGeneration, refVars
  <2>1. IdOf[h] = prepared.old \/ IdOf[h] = IdOf[g]
    BY DEF IInv, NoOrphanedGeneration, g
  <2>2. records[IdOf[h]] = h /\ h # NoGen
    BY RegistryAssumption DEF Recorded
  <2>3. activeId = prepared.old
    BY <1>1 DEF IInv, TxnInv, CleanupUnswitched
  <2>. QED  BY <1>1, <2>1, <2>2, <2>3 DEF ActiveGen
<1>. QED  BY <1>3, <1>4, <1>5, <1>6, <1>7, <1>8 DEF IInv

LEMMA CleanupSwitchedStep ==
  ASSUME IInv, TypeOK', CleanupSwitched
  PROVE  IInv'
<1>. DEFINE id == IF prepared.committed THEN prepared.old ELSE IdOf[prepared.cand]
            h == records[id]
<1>. USE RegistryAssumption
<1>1. /\ id \in Ids /\ RetireIfUnused(id, usage) /\ prepared' = Idle
      /\ UNCHANGED refVars /\ built' = built
      /\ prepared.stage # "idle"
  BY DEF CleanupSwitched, IInv, TypeOK
<1>2. ~Closed => \/ activeId = prepared.old /\ id = IdOf[prepared.cand]
                 \/ activeId = IdOf[prepared.cand] /\ id = prepared.old
  BY <1>1 DEF IInv, TxnInv
<1>. HIDE DEF id
<1>3. /\ UNCHANGED <<activeId, recState, stopQueue, registered>>
      /\ (Closed' <=> Closed) /\ ActiveGen' = ActiveGen
      /\ Keyed' /\ AllGone'
      /\ Unused(id, usage) =>
            /\ h \in Recorded /\ h # ActiveGen /\ ~Closed
            /\ Recorded' = Recorded \ {h}
            /\ records' = [records EXCEPT ![id] = NoGen]
            /\ stopped' = stopped \cup Outbounds(h)
      /\ ~Unused(id, usage) => /\ Recorded' = Recorded /\ records' = records
                               /\ stopped' = stopped
  BY <1>1, RetireEffects DEF IInv
<1>4. RefsWellFormed' /\ ReferenceCountsExact'
  BY <1>1, <1>3, RefsUntouched
<1>5. RefsRecorded'
  <2>. SUFFICES ASSUME ~Closed, NEW q \in refs PROVE records'[IdOf[q.gen]] = q.gen
    BY <1>1, <1>3 DEF RefsRecorded, refVars
  <2>1. records[IdOf[q.gen]] = q.gen /\ q.gen \in Gens /\ IdOf[q.gen] \in Ids
    BY DEF IInv, RefsRecorded, TypeOK, Ref
  <2>2. CASE Unused(id, usage)
    <3>1. Cardinality({p \in refs : p.gen = h}) = 0
      BY <1>3, <2>2 DEF Unused, IInv, ReferenceCountsExact, RefsOf, Recorded
    <3>2. q.gen # h
      BY <3>1, ZeroCount DEF IInv, RefsWellFormed
    <3>3. IdOf[q.gen] # id
      BY <2>1, <3>2
    <3>. QED  BY <1>1, <1>3, <2>1, <2>2, <3>3 DEF IInv, TypeOK
  <2>3. CASE ~Unused(id, usage)
    BY <1>3, <2>1, <2>3
  <2>. QED  BY <2>2, <2>3
<1>6. Unstopped'
  BY <1>3, OutboundsDisjoint DEF IInv, Unstopped
<1>7. FreshGens'
  <2>. SUFFICES ASSUME ~Closed, NEW g \in Gens, g \notin built PROVE Fresh(g)'
    BY <1>1, <1>3 DEF FreshGens, Idle
  <2>1. Fresh(g)
    BY DEF IInv, FreshGens
  <2>2. Outbounds(g) \cap stopped' = {}
    BY <1>3, <2>1, OutboundsDisjoint DEF Fresh
  <2>3. g \notin Recorded'
    BY <1>3, <2>1 DEF Fresh
  <2>. QED  BY <1>1, <2>1, <2>2, <2>3 DEF Fresh, Outbounds, refVars
<1>8. CandBuilt' /\ TxnInv'
  BY <1>1 DEF IInv, CandBuilt, TxnInv, Idle
<1>9. OneActiveGeneration'
  BY <1>3 DEF IInv, OneActiveGeneration
<1>10. NoOrphanedGeneration'
  <2>. SUFFICES ASSUME NEW g \in Recorded', g # ActiveGen, usage[g] = 0 PROVE FALSE
    BY <1>1, <1>3 DEF NoOrphanedGeneration, refVars
  <2>1. g \in Recorded /\ ~Closed /\ records[IdOf[g]] = g /\ g # NoGen
    BY <1>3, ClosedCase DEF IInv, Recorded
  <2>2. IdOf[g] \in {prepared.old, IdOf[prepared.cand]} /\ IdOf[g] # activeId
    BY <2>1 DEF IInv, NoOrphanedGeneration, ActiveGen
  <2>3. IdOf[g] = id
    BY <1>2, <2>1, <2>2
  <2>4. Unused(id, usage)
    BY <2>1, <2>2, <2>3 DEF Unused, Available
  <2>. QED  BY <1>3, <2>1, <2>3, <2>4
<1>. QED  BY <1>3, <1>4, <1>5, <1>6, <1>7, <1>8, <1>9, <1>10 DEF IInv

-----------------------------------------------------------------------------
(* Theorems.                                                               *)

\* The strengthened invariant holds in every reachable state.
THEOREM Inductive == Spec => []IInv
<1>1. Init => IInv
  <2>. SUFFICES ASSUME Init PROVE IInv
    OBVIOUS
  <2>. USE RegistryAssumption
  <2>1. TypeOK
    BY InitType
  <2>2. /\ Recorded = {InitialGen} /\ ActiveGen = InitialGen /\ ~Closed
        /\ activeId = IdOf[InitialGen] /\ refs = {} /\ stopped = {} /\ prepared = Idle
    <3>1. \A g \in Gens : g # NoGen
      OBVIOUS
    <3>. QED  BY <3>1 DEF Init, Recorded, ActiveGen, Closed
  <2>3. Keyed /\ AllGone /\ CandBuilt /\ TxnInv
    BY <2>2 DEF Init, Keyed, AllGone, CandBuilt, TxnInv, Idle
  <2>4. RefsWellFormed /\ RefsRecorded /\ Unstopped
    BY <2>2, FS_EmptySet DEF RefsWellFormed, RefsRecorded, Unstopped
  <2>5. FreshGens
    BY <2>2 DEF Init, FreshGens, Fresh, Idle
  <2>6. ReferenceCountsExact
    <3>1. \A g, t : RefsOf(g) = {} /\ RefsOfTag(g, t) = {}
      BY <2>2 DEF RefsOf, RefsOfTag
    <3>. QED  BY <3>1, FS_EmptySet DEF Init, ReferenceCountsExact, Recorded
  <2>7. OneActiveGeneration /\ NoOrphanedGeneration
    BY <2>2 DEF Init, OneActiveGeneration, NoOrphanedGeneration
  <2>. QED  BY <2>1, <2>3, <2>4, <2>5, <2>6, <2>7 DEF IInv
<1>2. IInv /\ [Next]_vars => IInv'
  <2>. SUFFICES ASSUME IInv, [Next]_vars PROVE IInv'
    OBVIOUS
  <2>1. TypeOK'
    BY TypeStep DEF IInv
  <2>2. CASE Acquire
    BY <2>1, <2>2, AcquireStep DEF Acquire
  <2>3. CASE Release
    BY <2>1, <2>3, ReleaseStep DEF Release
  <2>4. CASE Shutdown
    BY <2>1, <2>4, ShutdownStep DEF Shutdown
  <2>5. CASE \/ \E o \in stopping : FinishStop(o)
             \/ \E o \in stopQueue : StopNext(o)
             \/ \E o \in stopQueue : StopNextDone(o)
    BY <2>1, <2>5, StopStep
  <2>6. CASE \E g \in Gens : Prepare(g)
    BY <2>1, <2>6, PrepareStep
  <2>7. CASE Commit
    BY <2>1, <2>7, CommitStep
  <2>8. CASE CommitThrows
    BY <2>1, <2>8, CommitThrowsStep
  <2>9. CASE RollbackSwitched
    BY <2>1, <2>9, RollbackStep
  <2>10. CASE CommitRefused \/ RollbackThrows \/ RollbackPrepared \/ CleanupNothing
    BY <2>1, <2>10, FlagStep
  <2>11. CASE CleanupUnswitched
    BY <2>1, <2>11, CleanupUnswitchedStep
  <2>12. CASE CleanupSwitched
    BY <2>1, <2>12, CleanupSwitchedStep
  <2>13. CASE UNCHANGED vars
    <3>1. /\ UNCHANGED <<records, activeId, recState, stopped, stopping, stopQueue,
                         registered, built, prepared, usage, tagRefs, refs,
                         nextReferenceId>>
      BY <2>13 DEF vars, regVars, refVars, lifeVars
    <3>. QED
      BY <2>1, <3>1 DEF IInv, Keyed, AllGone, RefsWellFormed, RefsRecorded, Unstopped,
         FreshGens, Fresh, CandBuilt, TxnInv, ReferenceCountsExact, RefsOf, RefsOfTag,
         OneActiveGeneration, NoOrphanedGeneration, Recorded, Closed, ActiveGen, Outbounds
  <2>. QED
    BY <2>2, <2>3, <2>4, <2>5, <2>6, <2>7, <2>8, <2>9, <2>10, <2>11, <2>12, <2>13
    DEF Next, RollbackCommitted
<1>. QED  BY <1>1, <1>2, PTL DEF Spec

\* While the registry is open, a generation that a connection references is in
\* the Map and none of its outbounds has been stopped (retireIfUnused).
THEOREM ReferencesStayUsable == Spec => []LiveReferencesUsable
<1>1. IInv => LiveReferencesUsable
  <2>. SUFFICES ASSUME IInv, ~Closed, NEW r \in refs
               PROVE  records[IdOf[r.gen]] = r.gen /\ <<r.gen, r.tag>> \notin stopped
    BY DEF LiveReferencesUsable
  <2>1. records[IdOf[r.gen]] = r.gen /\ r.gen \in Gens /\ r.tag \in TagsOf[r.gen]
    BY DEF IInv, RefsRecorded, RefsWellFormed, TypeOK, Ref
  <2>2. r.gen \in Recorded /\ <<r.gen, r.tag>> \in Outbounds(r.gen)
    BY <2>1 DEF Recorded, Outbounds
  <2>. QED  BY <2>1, <2>2 DEF IInv, Unstopped
<1>. QED  BY <1>1, Inductive, PTL

\* Usage and per-tag counters are exactly the references outstanding
\* (acquireOutboundRef / releaseOutboundRef).
THEOREM CountsAreExact == Spec => []ReferenceCountsExact
<1>1. IInv => ReferenceCountsExact
  BY DEF IInv
<1>. QED  BY <1>1, Inductive, PTL

\* Exactly the record under activeGenerationId is in state "active"
\* (switchGeneration / restoreGeneration).
THEOREM OneActive == Spec => []OneActiveGeneration
<1>1. IInv => OneActiveGeneration
  BY DEF IInv
<1>. QED  BY <1>1, Inductive, PTL

\* No drained, unreferenced generation outlives its transaction (retirement by
\* the last release or by the adapter's cleanup).
THEOREM NothingOrphaned == Spec => []NoOrphanedGeneration
<1>1. IInv => NoOrphanedGeneration
  BY DEF IInv
<1>. QED  BY <1>1, Inductive, PTL

\* References: the counts the registry decides on are exact and no connection
\* meets a retired generation or a stopped outbound (acquireOutboundRef,
\* releaseOutboundRef, retireIfUnused).
THEOREM ReferencesAreSound == Spec => []ReferencesSound
<1>1. LiveReferencesUsable /\ ReferenceCountsExact => ReferencesSound
  BY DEF ReferencesSound
<1>. QED  BY <1>1, ReferencesStayUsable, CountsAreExact, PTL

\* Generations: one active record, and no drained one left behind
\* (switchGeneration, restoreGeneration, retireIfUnused).
THEOREM GenerationsAreSound == Spec => []GenerationsSound
<1>1. OneActiveGeneration /\ NoOrphanedGeneration => GenerationsSound
  BY DEF GenerationsSound
<1>. QED  BY <1>1, OneActive, NothingOrphaned, PTL

-----------------------------------------------------------------------------
(* What a reload leaves behind.  The lifecycle agrees with the Map however *)
(* the data plane runs; that every candidate is accounted for needs the    *)
(* executor not to yield between a commit and its cleanup.                 *)

\* The outbounds of the recorded generations.
RecordedOutbounds == UNION {Outbounds(g) : g \in Recorded}

\* A retired outbound's stop() has been called, and stopAll handles others.
StopsApart == stopping \subseteq stopped /\ stopping \cap stopQueue = {}

LifecycleInv == LifecycleTracksRegistry /\ StopsApart

\* The transaction has its candidate in the Map.
SwappedIn == prepared.stage \in {"commit-ok", "rolled-back"}

\* The ids in the Map were counted, except the candidate's.
IdsCounted ==
    \A h \in Recorded : IdOf[h] <= generation \/ (SwappedIn /\ h = prepared.cand)

CandidateIsNew ==
    prepared.stage # "idle" =>
        prepared.old <= generation /\ generation < IdOf[prepared.cand]

BothRecorded ==
    prepared.stage = "commit-ok" =>
        Available(prepared.old) /\ records[IdOf[prepared.cand]] = prepared.cand

RollbackUncommits == prepared.stage = "rolled-back" => ~prepared.committed

CandidateUnused == SwappedIn => \A r \in refs : r.gen # prepared.cand

FailedIsDisposed ==
    /\ prepared.stage = "commit-failed" => prepared.disposed
    /\ prepared.disposed => Outbounds(prepared.cand) \subseteq stopped

CandidateInv ==
    ~Closed =>
        /\ IdsCounted
        /\ CandidateIsNew
        /\ BothRecorded
        /\ RollbackUncommits
        /\ CandidateUnused
        /\ FailedIsDisposed
        /\ NoLeakedCandidate

\* An outbound of a recorded generation has not been stopped.
LEMMA RecordedNotStopped ==
  ASSUME Unstopped
  PROVE  RecordedOutbounds \cap stopped = {}
  BY DEF Unstopped, RecordedOutbounds

LEMMA RetireLifecycle ==
  ASSUME TypeOK, Keyed, AllGone, LifecycleInv, NEW id \in Ids, NEW use,
         RetireIfUnused(id, use)
  PROVE  LifecycleInv'
<1>1. CASE ~Unused(id, use)
  BY <1>1 DEF RetireIfUnused, regVars, lifeVars, LifecycleInv, LifecycleTracksRegistry,
     StopsApart, Recorded, Outbounds
<1>2. CASE Unused(id, use)
  <2>. DEFINE h == records[id]
  <2>1. /\ h \in Recorded /\ Recorded' = Recorded \ {h} /\ ~Closed
        /\ UNCHANGED <<stopQueue, registered>>
    BY <1>2, RetireEffects
  <2>2. /\ stopped' = stopped \cup Outbounds(h)
        /\ stopping' = stopping \cup Outbounds(h)
    BY <1>2 DEF RetireIfUnused
  <2>3. stopQueue = {}
    BY <2>1 DEF AllGone
  <2>4. UNION {Outbounds(g) : g \in Recorded}
           = (UNION {Outbounds(g) : g \in Recorded \ {h}}) \cup Outbounds(h)
    BY <2>1
  <2>5. RecordedOutbounds' = UNION {Outbounds(g) : g \in Recorded \ {h}}
    BY <2>1 DEF RecordedOutbounds, Outbounds
  <2>6. LifecycleTracksRegistry'
    <3>1. RecordedOutbounds = RecordedOutbounds' \cup Outbounds(h)
      BY <2>4, <2>5 DEF RecordedOutbounds
    <3>2. registered = RecordedOutbounds \cup stopping \cup stopQueue
      BY DEF LifecycleInv, LifecycleTracksRegistry, RecordedOutbounds
    <3>. HIDE DEF h
    <3>3. registered' = RecordedOutbounds' \cup stopping' \cup stopQueue'
      BY <2>1, <2>2, <2>3, <3>1, <3>2
    <3>. QED  BY <3>3 DEF LifecycleTracksRegistry, RecordedOutbounds
  <2>7. StopsApart'
    BY <2>1, <2>2, <2>3 DEF LifecycleInv, StopsApart
  <2>. QED  BY <2>6, <2>7 DEF LifecycleInv
<1>. QED  BY <1>1, <1>2

LEMMA LifecycleStep ==
  ASSUME IInv, LifecycleInv, [Next]_vars
  PROVE  LifecycleInv'
<1>. USE RegistryAssumption
<1>0. /\ \A g : Outbounds(g)' = Outbounds(g)
      /\ RecordedOutbounds \cap stopped = {}
      /\ (LifecycleTracksRegistry <=> registered = RecordedOutbounds \cup stopping \cup stopQueue)
      /\ (LifecycleTracksRegistry' <=> registered' = RecordedOutbounds' \cup stopping' \cup stopQueue')
      /\ TypeOK /\ Keyed /\ AllGone
  <2>1. RecordedOutbounds \cap stopped = {} /\ TypeOK /\ Keyed /\ AllGone
    BY RecordedNotStopped DEF IInv
  <2>2. \A g : Outbounds(g)' = Outbounds(g)
    BY DEF Outbounds
  <2>3. LifecycleTracksRegistry <=> registered = RecordedOutbounds \cup stopping \cup stopQueue
    BY DEF LifecycleTracksRegistry, RecordedOutbounds
  <2>4. LifecycleTracksRegistry' <=> registered' = RecordedOutbounds' \cup stopping' \cup stopQueue'
    BY DEF LifecycleTracksRegistry, RecordedOutbounds
  <2>. QED  BY <2>1, <2>2, <2>3, <2>4
<1>1. ASSUME UNCHANGED <<records, stopped, stopping, stopQueue, registered>>
      PROVE  LifecycleInv'
  BY <1>1 DEF LifecycleInv, LifecycleTracksRegistry, StopsApart, Recorded, Outbounds
<1>2. CASE Acquire
  BY <1>1, <1>2 DEF Acquire, AcquireOutboundRef, regVars, lifeVars
<1>3. CASE Release
  <2>. PICK r \in refs : ReleaseOutboundRef(r)
    BY <1>3 DEF Release
  <2>1. IdOf[r.gen] \in Ids
    BY DEF IInv, TypeOK, Ref
  <2>2. RetireIfUnused(IdOf[r.gen], usage')
    BY DEF ReleaseOutboundRef
  <2>. QED  BY <1>0, <2>1, <2>2, RetireLifecycle
<1>4. CASE Shutdown
  <2>1. Recorded' = {} /\ stopQueue = {} /\ stopQueue' = RecordedOutbounds
    <3>1. \A g \in Gens : IdOf[g] \in Ids /\ g # NoGen
      OBVIOUS
    <3>. QED  BY <1>4, <3>1 DEF Shutdown, StopAll, Recorded, IInv, AllGone, RecordedOutbounds
  <2>2. RecordedOutbounds' = {}
    BY <2>1 DEF RecordedOutbounds
  <2>3. UNCHANGED <<stopped, stopping, registered>>
    BY <1>4 DEF Shutdown, StopAll
  <2>. QED  BY <1>0, <2>1, <2>2, <2>3 DEF LifecycleInv, StopsApart
<1>5. CASE \E o \in stopping : FinishStop(o)
  <2>. PICK o \in stopping : FinishStop(o)
    BY <1>5
  <2>1. /\ UNCHANGED <<records, stopped, stopQueue>>
        /\ stopping' = stopping \ {o} /\ registered' = registered \ {o}
    BY DEF FinishStop, regVars
  <2>2. RecordedOutbounds' = RecordedOutbounds
    BY <2>1 DEF RecordedOutbounds, Recorded, Outbounds
  <2>3. o \notin RecordedOutbounds /\ o \notin stopQueue
    BY <1>0 DEF LifecycleInv, StopsApart
  <2>. QED  BY <1>0, <2>1, <2>2, <2>3 DEF LifecycleInv, StopsApart
<1>6. CASE \E o \in stopQueue : StopNext(o)
  <2>1. UNCHANGED <<records, stopping, stopQueue, registered>> /\ stopped \subseteq stopped'
    BY <1>6 DEF StopNext, regVars
  <2>2. RecordedOutbounds' = RecordedOutbounds
    BY <2>1 DEF RecordedOutbounds, Recorded, Outbounds
  <2>. QED  BY <1>0, <2>1, <2>2 DEF LifecycleInv, StopsApart
<1>7. CASE \E o \in stopQueue : StopNextDone(o)
  <2>. PICK o \in stopQueue : StopNextDone(o)
    BY <1>7
  <2>1. /\ UNCHANGED <<records, stopped, stopping>>
        /\ stopQueue' = stopQueue \ {o} /\ registered' = registered \ {o}
    BY DEF StopNextDone, regVars
  <2>2. Recorded = {}
    BY <1>0, ClosedCase DEF AllGone
  <2>3. RecordedOutbounds = {} /\ RecordedOutbounds' = {}
    BY <2>1, <2>2 DEF RecordedOutbounds, Recorded
  <2>4. o \notin stopping
    BY DEF LifecycleInv, StopsApart
  <2>. QED  BY <1>0, <2>1, <2>3, <2>4 DEF LifecycleInv, StopsApart
<1>8. CASE \/ \E g \in Gens : Prepare(g)
           \/ CommitRefused \/ RollbackCommitted \/ RollbackPrepared \/ CleanupNothing
  <2>1. UNCHANGED <<records, stopped, stopping, stopQueue, registered>>
    BY <1>8 DEF Prepare, CommitRefused, RollbackCommitted, RollbackSwitched, RollbackThrows,
       RollbackPrepared, CleanupNothing, regVars, lifeVars
  <2>. QED  BY <1>1, <2>1
<1>9. CASE Commit
  <2>. DEFINE g == prepared.cand
  <2>1. /\ records' = [records EXCEPT ![IdOf[g]] = g]
        /\ registered' = registered \cup Outbounds(g)
        /\ UNCHANGED <<stopped, stopping, stopQueue>>
        /\ g \in Gens /\ IdOf[g] \in Ids /\ records[IdOf[g]] = NoGen
    BY <1>9 DEF Commit, CanSwitch, Available, IInv, TypeOK
  <2>2. Recorded' = Recorded \cup {g}
    <3>1. \A h \in Gens : IdOf[h] \in Ids /\ h # NoGen
      OBVIOUS
    <3>2. \A h \in Gens : h \in Recorded' <=> h \in Recorded \/ h = g
      BY <2>1, <3>1 DEF Recorded, IInv, TypeOK
    <3>. QED  BY <2>1, <3>2 DEF Recorded
  <2>3. RecordedOutbounds' = RecordedOutbounds \cup Outbounds(g)
    BY <1>0, <2>2 DEF RecordedOutbounds
  <2>. QED  BY <1>0, <2>1, <2>3 DEF LifecycleInv, StopsApart
<1>10. CASE CommitThrows
  <2>. DEFINE g == prepared.cand
  <2>1. /\ UNCHANGED <<records, stopQueue>>
        /\ registered' = registered \cup Outbounds(g)
        /\ stopped' = stopped \cup Outbounds(g)
        /\ stopping' = stopping \cup Outbounds(g)
        /\ stopQueue = {}
    BY <1>10 DEF CommitThrows, CanSwitch, Available, IInv, AllGone, Closed
  <2>2. RecordedOutbounds' = RecordedOutbounds
    BY <2>1 DEF RecordedOutbounds, Recorded, Outbounds
  <2>. QED  BY <1>0, <2>1, <2>2 DEF LifecycleInv, StopsApart
<1>11. CASE CleanupUnswitched
  <2>1. UNCHANGED <<records, stopping, stopQueue, registered>> /\ stopped \subseteq stopped'
    BY <1>11 DEF CleanupUnswitched, regVars
  <2>2. RecordedOutbounds' = RecordedOutbounds
    BY <2>1 DEF RecordedOutbounds, Recorded, Outbounds
  <2>. QED  BY <1>0, <2>1, <2>2 DEF LifecycleInv, StopsApart
<1>12. CASE CleanupSwitched
  <2>. DEFINE id == IF prepared.committed THEN prepared.old ELSE IdOf[prepared.cand]
  <2>1. id \in Ids
    BY DEF IInv, TypeOK
  <2>2. RetireIfUnused(id, usage)
    BY <1>12 DEF CleanupSwitched
  <2>. HIDE DEF id
  <2>. QED  BY <1>0, <2>1, <2>2, RetireLifecycle
<1>13. CASE UNCHANGED vars
  BY <1>1, <1>13 DEF vars, regVars, lifeVars
<1>. QED
  BY <1>2, <1>3, <1>4, <1>5, <1>6, <1>7, <1>8, <1>9, <1>10, <1>11, <1>12, <1>13 DEF Next

\* The registry never opens again once stopAll has run.
LEMMA StaysClosed ==
  ASSUME IInv, [Next]_vars, Closed
  PROVE  Closed'
<1>. USE RegistryAssumption
<1>1. \A i \in Ids : records[i] = NoGen
  BY DEF IInv, AllGone
<1>2. \A use : \A id \in Ids : ~Unused(id, use)
  BY <1>1 DEF Unused, Available
<1>3. /\ ~Commit /\ ~CommitThrows /\ ~RollbackSwitched /\ ~Shutdown
      /\ \A t \in Tags : ~AcquireOutboundRef(t)
  BY <1>1 DEF Commit, CommitThrows, CanSwitch, RollbackSwitched, CanRestore, Available,
     Shutdown, StopAll, AcquireOutboundRef, IInv, TypeOK
<1>4. ASSUME NEW id \in Ids, NEW use, RetireIfUnused(id, use)
      PROVE  UNCHANGED <<records, activeId>>
  BY <1>2, <1>4 DEF RetireIfUnused, regVars
<1>5. UNCHANGED <<records, activeId>>
  <2>1. CASE Release
    <3>. PICK r \in refs : ReleaseOutboundRef(r)
      BY <2>1 DEF Release
    <3>1. IdOf[r.gen] \in Ids
      BY DEF IInv, TypeOK, Ref
    <3>2. RetireIfUnused(IdOf[r.gen], usage')
      BY DEF ReleaseOutboundRef
    <3>. QED  BY <1>4, <3>1, <3>2
  <2>2. CASE CleanupSwitched
    <3>. DEFINE id == IF prepared.committed THEN prepared.old ELSE IdOf[prepared.cand]
    <3>1. id \in Ids
      BY DEF IInv, TypeOK
    <3>2. RetireIfUnused(id, usage)
      BY <2>2 DEF CleanupSwitched
    <3>. HIDE DEF id
    <3>. QED  BY <1>4, <3>1, <3>2
  <2>3. CASE \/ \E o \in stopping : FinishStop(o)
             \/ \E o \in stopQueue : StopNext(o)
             \/ \E o \in stopQueue : StopNextDone(o)
             \/ \E g \in Gens : Prepare(g)
             \/ CommitRefused \/ RollbackThrows \/ RollbackPrepared
             \/ CleanupUnswitched \/ CleanupNothing \/ UNCHANGED vars
    BY <2>3 DEF FinishStop, StopNext, StopNextDone, Prepare, CommitRefused, RollbackThrows,
       RollbackPrepared, CleanupUnswitched, CleanupNothing, vars, regVars
  <2>. QED  BY <1>3, <2>1, <2>2, <2>3 DEF Next, Acquire, RollbackCommitted
<1>. QED  BY <1>5 DEF Closed

\* retireIfUnused takes a generation out of the Map only with its outbounds
\* stopped.
LEMMA RetireKeepsAccount ==
  ASSUME TypeOK, Keyed, AllGone, NEW id \in Ids, NEW use, RetireIfUnused(id, use)
  PROVE  /\ Recorded' \subseteq Recorded
         /\ stopped \subseteq stopped'
         /\ \A g \in Recorded \ Recorded' : IdOf[g] = id /\ Outbounds(g) \subseteq stopped'
<1>1. CASE ~Unused(id, use)
  BY <1>1, RetireEffects
<1>2. CASE Unused(id, use)
  <2>1. IdOf[records[id]] = id
    BY <1>2 DEF Unused, Available, Keyed
  <2>. QED  BY <1>2, <2>1, RetireEffects
<1>. QED  BY <1>1, <1>2

\* With the executor not yielding, every step accounts for the candidate.
LEMMA CandidateStep ==
  ASSUME IInv, IInv', CandidateInv, [Next]_vars, ~YieldsDuringSwap
  PROVE  CandidateInv'
<1>. SUFFICES ASSUME ~Closed'
              PROVE  /\ IdsCounted' /\ CandidateIsNew' /\ BothRecorded' /\ RollbackUncommits'
                     /\ CandidateUnused' /\ FailedIsDisposed' /\ NoLeakedCandidate'
  BY DEF CandidateInv
<1>. USE RegistryAssumption
<1>1. ~Closed
  BY StaysClosed
<1>2. /\ IdsCounted /\ CandidateIsNew /\ BothRecorded /\ RollbackUncommits
      /\ CandidateUnused /\ FailedIsDisposed
      /\ \A g \in built \ Recorded : \/ prepared.stage # "idle" /\ prepared.cand = g
                                     \/ Outbounds(g) \subseteq stopped
  BY <1>1 DEF CandidateInv, NoLeakedCandidate
<1>3. /\ TypeOK /\ Keyed /\ AllGone /\ TxnInv
      /\ \A g : Outbounds(g)' = Outbounds(g)
      /\ prepared.cand \in Gens /\ prepared.old \in Ids /\ IdOf[prepared.cand] \in Ids
      /\ prepared.stage \in Stages
      /\ generation \in Nat /\ prepared.old \in Nat
      /\ \A g \in Gens : IdOf[g] \in Ids /\ IdOf[g] \in Nat
  BY DEF IInv, Outbounds, TypeOK
<1>4. /\ ActiveGen \in Recorded /\ IdOf[ActiveGen] = activeId /\ ActiveGen \in Gens
  BY <1>1, <1>3 DEF ActiveGen, Closed, Keyed, Recorded, TypeOK
\* A recorded id is counted unless it is the candidate's.
<1>5. \A g \in Gens : g \in Recorded <=> records[IdOf[g]] = g
  BY DEF Recorded
<1>6. ASSUME UNCHANGED <<records, built, prepared, generation, refs>>, stopped \subseteq stopped'
      PROVE  /\ IdsCounted' /\ CandidateIsNew' /\ BothRecorded' /\ RollbackUncommits'
             /\ CandidateUnused' /\ FailedIsDisposed' /\ NoLeakedCandidate'
  <2>1. Recorded' = Recorded
    BY <1>6 DEF Recorded
  <2>2. IdsCounted' /\ CandidateIsNew' /\ BothRecorded' /\ RollbackUncommits' /\ CandidateUnused'
    BY <1>2, <1>6, <2>1 DEF IdsCounted, CandidateIsNew, BothRecorded, RollbackUncommits,
       CandidateUnused, SwappedIn, Available
  <2>3. FailedIsDisposed'
    BY <1>2, <1>3, <1>6 DEF FailedIsDisposed
  <2>4. NoLeakedCandidate'
    BY <1>2, <1>3, <1>6, <2>1 DEF NoLeakedCandidate
  <2>. QED  BY <2>2, <2>3, <2>4
<1>7. CASE Acquire
  <2>. PICK t \in Tags : AcquireOutboundRef(t)
    BY <1>7 DEF Acquire
  <2>1. /\ UNCHANGED <<records, built, prepared, generation, stopped>>
        /\ \A r \in refs' : r \in refs \/ r.gen = ActiveGen
    BY DEF AcquireOutboundRef, regVars, lifeVars
  <2>2. Recorded' = Recorded
    BY <2>1 DEF Recorded
  <2>3. IdsCounted' /\ CandidateIsNew' /\ BothRecorded' /\ RollbackUncommits'
    BY <1>2, <2>1, <2>2 DEF IdsCounted, CandidateIsNew, BothRecorded, RollbackUncommits,
       SwappedIn, Available
  <2>4. CandidateUnused'
    <3>1. prepared.stage # "commit-ok"
      BY <1>7 DEF Acquire, DataPlaneRuns
    <3>2. prepared.stage = "rolled-back" => activeId = prepared.old /\ prepared.old < IdOf[prepared.cand]
      <4>1. prepared.stage = "rolled-back" => ~prepared.committed /\ activeId = prepared.old
        BY <1>1, <1>2, <1>3 DEF TxnInv, RollbackUncommits
      <4>2. prepared.stage = "rolled-back" => prepared.old < IdOf[prepared.cand]
        BY <1>2, <1>3 DEF CandidateIsNew
      <4>. QED  BY <4>1, <4>2
    <3>3. prepared.stage = "rolled-back" => ActiveGen # prepared.cand
      BY <1>3, <1>4, <3>2
    <3>. QED  BY <1>2, <2>1, <3>1, <3>3 DEF CandidateUnused, SwappedIn
  <2>5. FailedIsDisposed'
    BY <1>2, <1>3, <2>1 DEF FailedIsDisposed
  <2>6. NoLeakedCandidate'
    BY <1>2, <1>3, <2>1, <2>2 DEF NoLeakedCandidate
  <2>. QED  BY <2>3, <2>4, <2>5, <2>6
<1>8. CASE Release
  <2>. PICK r \in refs : ReleaseOutboundRef(r)
    BY <1>8 DEF Release
  <2>1. r.gen \in Gens /\ IdOf[r.gen] \in Ids
    BY DEF IInv, TypeOK, Ref
  <2>2. /\ RetireIfUnused(IdOf[r.gen], usage')
        /\ UNCHANGED <<built, prepared, generation>> /\ refs' \subseteq refs
    BY DEF ReleaseOutboundRef
  <2>3. /\ Recorded' \subseteq Recorded /\ stopped \subseteq stopped'
        /\ \A g \in Recorded \ Recorded' : Outbounds(g) \subseteq stopped'
    BY <1>3, <2>1, <2>2, RetireKeepsAccount
  <2>4. prepared.stage # "commit-ok"
    BY <1>8 DEF Release, DataPlaneRuns
  <2>5. IdsCounted' /\ CandidateIsNew' /\ BothRecorded' /\ RollbackUncommits' /\ CandidateUnused'
    BY <1>2, <2>2, <2>3, <2>4 DEF IdsCounted, CandidateIsNew, BothRecorded, RollbackUncommits,
       CandidateUnused, SwappedIn
  <2>6. FailedIsDisposed'
    BY <1>2, <1>3, <2>2, <2>3 DEF FailedIsDisposed
  <2>7. NoLeakedCandidate'
    BY <1>2, <1>3, <2>2, <2>3 DEF NoLeakedCandidate
  <2>. QED  BY <2>5, <2>6, <2>7
<1>9. CASE Shutdown
  <2>1. Closed'
    BY <1>3, <1>9 DEF Shutdown, StopAll, Closed, TypeOK
  <2>. QED  BY <2>1
<1>10. CASE \/ \E o \in stopping : FinishStop(o)
            \/ \E o \in stopQueue : StopNext(o)
            \/ \E o \in stopQueue : StopNextDone(o)
            \/ UNCHANGED vars
  <2>1. UNCHANGED <<records, built, prepared, generation, refs>> /\ stopped \subseteq stopped'
    BY <1>10 DEF FinishStop, StopNext, StopNextDone, vars, regVars, refVars, lifeVars
  <2>. QED  BY <1>6, <2>1
<1>11. CASE \E g \in Gens : Prepare(g)
  <2>. PICK g \in Gens : Prepare(g)
    BY <1>11
  <2>1. /\ UNCHANGED <<records, generation, refs, stopped>>
        /\ prepared.stage = "idle" /\ generation < IdOf[g]
        /\ built' = built \cup {g}
        /\ prepared'.stage = "prepared" /\ prepared'.cand = g /\ prepared'.old = activeId
        /\ ~prepared'.committed /\ ~prepared'.disposed
    BY <1>3 DEF Prepare, regVars, refVars, lifeVars
  <2>2. Recorded' = Recorded
    BY <2>1 DEF Recorded
  <2>3. IdsCounted' /\ \A h \in Recorded : IdOf[h] <= generation
    BY <1>2, <2>1, <2>2 DEF IdsCounted, SwappedIn
  <2>4. CandidateIsNew'
    BY <1>4, <2>1, <2>3 DEF CandidateIsNew
  <2>5. BothRecorded' /\ RollbackUncommits' /\ CandidateUnused' /\ FailedIsDisposed'
    BY <2>1 DEF BothRecorded, RollbackUncommits, CandidateUnused, SwappedIn, FailedIsDisposed
  <2>6. NoLeakedCandidate'
    BY <1>2, <1>3, <2>1, <2>2 DEF NoLeakedCandidate
  <2>. QED  BY <2>3, <2>4, <2>5, <2>6
<1>12. ASSUME prepared.stage = "prepared"
       PROVE  records[IdOf[prepared.cand]] = NoGen
  <2>1. SUFFICES ASSUME records[IdOf[prepared.cand]] # NoGen PROVE FALSE
    OBVIOUS
  <2>. DEFINE h == records[IdOf[prepared.cand]]
  <2>2. h \in Gens /\ IdOf[h] = IdOf[prepared.cand] /\ h \in Recorded
    BY <1>3, <2>1 DEF Keyed, TypeOK, Recorded
  <2>3. IdOf[h] <= generation /\ generation < IdOf[prepared.cand]
    BY <1>2, <1>12, <2>2 DEF IdsCounted, SwappedIn, CandidateIsNew
  <2>. HIDE DEF h
  <2>. QED  BY <1>3, <2>2, <2>3
<1>13. CASE Commit
  <2>. DEFINE g == prepared.cand
  <2>1. /\ records' = [records EXCEPT ![IdOf[g]] = g]
        /\ UNCHANGED <<generation, refs, stopped, built>>
        /\ prepared.stage = "prepared"
        /\ records[IdOf[g]] = NoGen
    BY <1>13 DEF Commit, CanSwitch, Available, refVars
  <2>2. /\ prepared'.stage = "commit-ok" /\ prepared'.cand = g /\ prepared'.old = prepared.old
        /\ prepared'.committed /\ prepared'.disposed = prepared.disposed
    BY <1>3, <1>13 DEF Commit, TypeOK
  <2>3. Recorded' = Recorded \cup {g}
    <3>1. \A h \in Gens : IdOf[h] \in Ids /\ h # NoGen
      OBVIOUS
    <3>2. \A h \in Gens : h \in Recorded' <=> h \in Recorded \/ h = g
      BY <1>3, <2>1, <3>1 DEF Recorded, TypeOK
    <3>. QED  BY <1>3, <3>2 DEF Recorded
  <2>4. activeId = prepared.old /\ ~prepared.disposed
    BY <1>1, <1>3, <2>1 DEF TxnInv
  <2>5. IdsCounted'
    BY <1>2, <2>1, <2>2, <2>3 DEF IdsCounted, SwappedIn
  <2>6. CandidateIsNew'
    BY <1>2, <2>1, <2>2 DEF CandidateIsNew
  <2>7. BothRecorded'
    <3>1. records'[IdOf[g]] = g
      BY <1>3, <2>1 DEF TypeOK
    <3>2. records'[prepared.old] # NoGen
      <4>1. records[prepared.old] # NoGen
        BY <1>1, <2>4 DEF Closed
      <4>2. prepared.old # IdOf[g]
        BY <2>1, <4>1
      <4>. QED  BY <1>3, <2>1, <4>1, <4>2 DEF TypeOK
    <3>. QED  BY <2>2, <3>1, <3>2 DEF BothRecorded, Available
  <2>8. RollbackUncommits' /\ FailedIsDisposed'
    BY <2>2, <2>4 DEF RollbackUncommits, FailedIsDisposed
  <2>9. CandidateUnused'
    <3>1. Fresh(g)
      BY <1>1, <1>3, <2>1 DEF IInv, FreshGens
    <3>. QED  BY <2>1, <2>2, <3>1 DEF Fresh, CandidateUnused
  <2>10. NoLeakedCandidate'
    BY <1>2, <1>3, <2>1, <2>2, <2>3 DEF NoLeakedCandidate
  <2>. QED  BY <2>5, <2>6, <2>7, <2>8, <2>9, <2>10
<1>14. CASE CommitRefused
  <2>1. ~CanSwitch(prepared.cand) /\ prepared.stage = "prepared"
    BY <1>14 DEF CommitRefused
  <2>2. FALSE
    BY <1>1, <1>12, <2>1 DEF CanSwitch, Available, Closed
  <2>. QED  BY <2>2
<1>15. CASE CommitThrows
  <2>. DEFINE g == prepared.cand
  <2>1. /\ UNCHANGED <<records, generation, refs, built>>
        /\ prepared.stage = "prepared"
        /\ stopped' = stopped \cup Outbounds(g)
    BY <1>15 DEF CommitThrows, refVars
  <2>2. /\ prepared'.stage = "commit-failed" /\ prepared'.cand = g /\ prepared'.old = prepared.old
        /\ prepared'.disposed
    BY <1>3, <1>15 DEF CommitThrows, TypeOK
  <2>3. Recorded' = Recorded
    BY <2>1 DEF Recorded
  <2>4. IdsCounted'
    BY <1>2, <2>1, <2>2, <2>3 DEF IdsCounted, SwappedIn
  <2>5. CandidateIsNew'
    BY <1>2, <2>1, <2>2 DEF CandidateIsNew
  <2>6. BothRecorded' /\ RollbackUncommits' /\ CandidateUnused'
    BY <2>2 DEF BothRecorded, RollbackUncommits, CandidateUnused, SwappedIn
  <2>7. FailedIsDisposed'
    BY <1>3, <2>1, <2>2 DEF FailedIsDisposed
  <2>8. NoLeakedCandidate'
    BY <1>2, <1>3, <2>1, <2>2, <2>3 DEF NoLeakedCandidate
  <2>. QED  BY <2>4, <2>5, <2>6, <2>7, <2>8
<1>16. ASSUME UNCHANGED <<records, built, generation, refs, stopped>>,
              prepared'.stage = "rolled-back", prepared'.cand = prepared.cand,
              prepared'.old = prepared.old, prepared.stage # "idle",
              ~prepared'.committed, ~prepared'.disposed
       PROVE  /\ IdsCounted' /\ CandidateIsNew' /\ BothRecorded' /\ RollbackUncommits'
              /\ FailedIsDisposed' /\ NoLeakedCandidate'
  <2>1. Recorded' = Recorded
    BY <1>16 DEF Recorded
  <2>2. IdsCounted' /\ CandidateIsNew' /\ BothRecorded' /\ RollbackUncommits' /\ FailedIsDisposed'
    BY <1>2, <1>16, <2>1 DEF IdsCounted, CandidateIsNew, BothRecorded, RollbackUncommits,
       SwappedIn, FailedIsDisposed
  <2>3. NoLeakedCandidate'
    BY <1>2, <1>3, <1>16, <2>1 DEF NoLeakedCandidate
  <2>. QED  BY <2>2, <2>3
<1>17. CASE RollbackSwitched
  <2>1. /\ UNCHANGED <<records, built, generation, refs, stopped>>
        /\ prepared.stage = "commit-ok"
    BY <1>17 DEF RollbackSwitched, refVars, lifeVars
  <2>2. /\ prepared'.stage = "rolled-back" /\ prepared'.cand = prepared.cand
        /\ prepared'.old = prepared.old /\ ~prepared'.committed
        /\ prepared'.disposed = prepared.disposed
    BY <1>3, <1>17 DEF RollbackSwitched, TypeOK
  <2>3. ~prepared'.disposed
    BY <1>3, <2>1, <2>2 DEF TxnInv
  <2>4. CandidateUnused'
    BY <1>2, <2>1, <2>2 DEF CandidateUnused, SwappedIn
  <2>. QED  BY <1>16, <2>1, <2>2, <2>3, <2>4
<1>18. CASE RollbackCommitted /\ ~CanRestore
  <2>1. prepared.stage = "commit-ok"
    BY <1>18 DEF RollbackCommitted, RollbackThrows
  <2>2. CanRestore
    <3>1. prepared.cand # NoGen
      BY <1>3
    <3>. QED  BY <1>2, <2>1, <3>1 DEF BothRecorded, CanRestore, Available
  <2>. QED  BY <1>18, <2>2
<1>19. CASE RollbackPrepared
  <2>1. /\ UNCHANGED <<records, built, generation, refs, stopped>>
        /\ prepared.stage = "prepared"
    BY <1>19 DEF RollbackPrepared, regVars, refVars, lifeVars
  <2>2. /\ prepared'.stage = "rolled-back" /\ prepared'.cand = prepared.cand
        /\ prepared'.old = prepared.old /\ prepared'.committed = prepared.committed
        /\ prepared'.disposed = prepared.disposed
    BY <1>3, <1>19 DEF RollbackPrepared, TypeOK
  <2>3. ~prepared'.committed /\ ~prepared'.disposed
    BY <1>3, <2>1, <2>2 DEF TxnInv
  <2>4. CandidateUnused'
    <3>1. Fresh(prepared.cand)
      BY <1>1, <1>3, <2>1 DEF IInv, FreshGens
    <3>. QED  BY <2>1, <2>2, <3>1 DEF Fresh, CandidateUnused
  <2>. QED  BY <1>16, <2>1, <2>2, <2>3, <2>4
\* A transaction ends with the Map and the counter in agreement.
<1>20. ASSUME prepared' = Idle, built' = built, stopped \subseteq stopped',
              \A h \in Recorded' : IdOf[h] <= generation',
              \A h \in Recorded \ Recorded' : Outbounds(h) \subseteq stopped',
              prepared.cand \in Recorded' \/ Outbounds(prepared.cand) \subseteq stopped'
       PROVE  /\ IdsCounted' /\ CandidateIsNew' /\ BothRecorded' /\ RollbackUncommits'
              /\ CandidateUnused' /\ FailedIsDisposed' /\ NoLeakedCandidate'
  <2>1. prepared'.stage = "idle" /\ ~prepared'.disposed
    BY <1>20 DEF Idle
  <2>2. /\ IdsCounted' /\ CandidateIsNew' /\ BothRecorded' /\ RollbackUncommits'
        /\ CandidateUnused' /\ FailedIsDisposed'
    BY <1>20, <2>1 DEF IdsCounted, CandidateIsNew, BothRecorded, RollbackUncommits,
       CandidateUnused, SwappedIn, FailedIsDisposed
  <2>3. NoLeakedCandidate'
    <3>. SUFFICES ASSUME NEW g \in built' \ Recorded'
                  PROVE  Outbounds(g) \subseteq stopped'
      BY <1>3 DEF NoLeakedCandidate
    <3>1. CASE g \in Recorded \/ g = prepared.cand
      BY <1>20, <3>1
    <3>2. CASE g \notin Recorded /\ g # prepared.cand
      BY <1>2, <1>20, <3>2
    <3>. QED  BY <3>1, <3>2
  <2>. QED  BY <2>2, <2>3
<1>21. CASE CleanupUnswitched
  <2>1. /\ UNCHANGED <<records, built, generation>> /\ prepared' = Idle
        /\ stopped' = stopped \cup Outbounds(prepared.cand)
        /\ records[IdOf[prepared.cand]] = NoGen
    BY <1>21 DEF CleanupUnswitched, regVars, Available
  <2>2. Recorded' = Recorded /\ prepared.cand \notin Recorded
    BY <1>3, <2>1 DEF Recorded
  <2>3. \A h \in Recorded : IdOf[h] <= generation
    BY <1>2, <2>2 DEF IdsCounted
  <2>. QED  BY <1>20, <2>1, <2>2, <2>3
<1>22. CASE CleanupNothing
  <2>1. /\ UNCHANGED <<records, built, generation, stopped>> /\ prepared' = Idle
        /\ prepared.disposed
    BY <1>1, <1>22 DEF CleanupNothing, regVars, lifeVars
  <2>2. Recorded' = Recorded /\ Outbounds(prepared.cand) \subseteq stopped
    BY <1>2, <2>1 DEF Recorded, FailedIsDisposed
  <2>3. prepared.cand \notin Recorded
    BY <1>1, <1>3, <2>1 DEF TxnInv, Recorded
  <2>4. \A h \in Recorded : IdOf[h] <= generation
    BY <1>2, <2>3 DEF IdsCounted
  <2>. QED  BY <1>20, <2>1, <2>2, <2>4
<1>23. CASE CleanupSwitched
  <2>. DEFINE id == IF prepared.committed THEN prepared.old ELSE IdOf[prepared.cand]
  <2>1. /\ RetireIfUnused(id, usage) /\ UNCHANGED <<built, refs>> /\ prepared' = Idle
        /\ prepared.stage # "idle" /\ ~prepared.disposed
        /\ prepared.switched \/ records[IdOf[prepared.cand]] # NoGen
        /\ generation' = IF prepared.stage = "commit-ok" THEN IdOf[prepared.cand] ELSE generation
    BY <1>23 DEF CleanupSwitched, refVars, Available
  <2>2. id \in Ids
    BY <1>3
  <2>3. /\ stopped \subseteq stopped' /\ Recorded' \subseteq Recorded
        /\ \A h \in Recorded \ Recorded' : IdOf[h] = id /\ Outbounds(h) \subseteq stopped'
    BY <1>3, <2>1, <2>2, RetireKeepsAccount
  <2>4. generation < IdOf[prepared.cand]
    BY <1>2, <2>1 DEF CandidateIsNew
  \* A success: the candidate is the active generation, the old one drains.
  <2>5. CASE prepared.committed
    <3>1. prepared.stage = "commit-ok"
      <4>1. prepared.stage \notin {"prepared", "commit-failed", "rolled-back"}
        BY <1>2, <1>3, <2>5 DEF TxnInv, RollbackUncommits
      <4>. QED  BY <1>3, <2>1, <4>1 DEF Stages
    <3>2. prepared.cand \in Recorded /\ prepared.old # IdOf[prepared.cand]
      BY <1>1, <1>2, <1>3, <2>5, <3>1 DEF BothRecorded, Recorded, TxnInv
    <3>3. prepared.cand \in Recorded'
      BY <2>3, <2>5, <3>2
    <3>4. \A h \in Recorded' : IdOf[h] <= generation'
      <4>. TAKE h \in Recorded'
      <4>1. h \in Recorded /\ h \in Gens /\ IdOf[h] \in Nat
        BY <1>3, <2>3 DEF Recorded
      <4>2. generation' = IdOf[prepared.cand] /\ IdOf[prepared.cand] \in Nat
        BY <1>3, <2>1, <3>1
      <4>3. IdOf[h] <= generation \/ h = prepared.cand
        BY <1>2, <4>1 DEF IdsCounted
      <4>. QED  BY <1>3, <2>4, <4>1, <4>2, <4>3
    <3>. HIDE DEF id
    <3>. QED  BY <1>20, <2>1, <2>3, <3>3, <3>4
  \* A rollback: nobody references the candidate, which is retired.
  <2>6. CASE ~prepared.committed
    <3>1. records[IdOf[prepared.cand]] # NoGen
      BY <1>3, <2>1, <2>6 DEF TxnInv
    <3>2. prepared.stage = "rolled-back"
      <4>1. prepared.stage \notin {"prepared", "commit-failed", "commit-ok"}
        BY <1>2, <1>3, <1>12, <2>1, <2>6, <3>1 DEF TxnInv, FailedIsDisposed
      <4>. QED  BY <1>3, <2>1, <4>1 DEF Stages
    <3>3. records[IdOf[prepared.cand]] = prepared.cand
      <4>. DEFINE h == records[IdOf[prepared.cand]]
      <4>1. h \in Gens /\ IdOf[h] = IdOf[prepared.cand] /\ h \in Recorded
        BY <1>3, <3>1 DEF Keyed, TypeOK, Recorded
      <4>2. IdOf[h] <= generation \/ h = prepared.cand
        BY <1>2, <4>1 DEF IdsCounted
      <4>. HIDE DEF h
      <4>3. h = prepared.cand
        BY <1>3, <2>4, <4>1, <4>2
      <4>. QED  BY <4>3 DEF h
    <3>4. usage[prepared.cand] = 0
      <4>1. RefsOf(prepared.cand) = {}
        BY <1>2, <3>2 DEF CandidateUnused, SwappedIn, RefsOf
      <4>. QED  BY <1>3, <4>1, FS_EmptySet DEF IInv, ReferenceCountsExact
    <3>5. activeId # IdOf[prepared.cand]
      <4>1. activeId = prepared.old /\ prepared.old <= generation
        BY <1>1, <1>2, <1>3, <2>1, <2>6 DEF TxnInv, CandidateIsNew
      <4>. QED  BY <1>3, <2>4, <4>1
    <3>6. Unused(id, usage)
      BY <2>6, <3>1, <3>3, <3>4, <3>5 DEF Unused, Available
    <3>7. Recorded' = Recorded \ {prepared.cand} /\ stopped' = stopped \cup Outbounds(prepared.cand)
      <4>1. records[id] = prepared.cand
        BY <2>6, <3>3
      <4>. HIDE DEF id
      <4>. QED  BY <1>3, <2>1, <2>2, <3>6, <4>1, RetireEffects
    <3>8. \A h \in Recorded' : IdOf[h] <= generation'
      BY <1>2, <2>1, <3>2, <3>7 DEF IdsCounted
    <3>. HIDE DEF id
    <3>. QED  BY <1>20, <2>1, <2>3, <3>7, <3>8
  <2>. QED  BY <2>5, <2>6
<1>. QED
  BY <1>7, <1>8, <1>9, <1>10, <1>11, <1>13, <1>14, <1>15, <1>17, <1>18, <1>19, <1>21, <1>22,
     <1>23 DEF Next, RollbackCommitted

-----------------------------------------------------------------------------
(* What a reload leaves behind: theorems.                                  *)

\* The lifecycle holds exactly the outbounds of recorded generations and those
\* whose stop() is due or awaited (onActivate, onRetire, stopAll), also when
\* the data plane runs between a commit and its cleanup.
THEOREM LifecycleFollowsRegistry == Spec => []LifecycleTracksRegistry
<1>1. Init => LifecycleInv
  <2>. SUFFICES ASSUME Init PROVE LifecycleInv
    OBVIOUS
  <2>1. Recorded = {InitialGen}
    <3>1. \A g \in Gens : g # NoGen
      BY RegistryAssumption
    <3>. QED  BY <3>1, RegistryAssumption DEF Init, Recorded
  <2>. QED  BY <2>1 DEF Init, LifecycleInv, LifecycleTracksRegistry, StopsApart
<1>2. IInv /\ LifecycleInv /\ [Next]_vars => LifecycleInv'
  BY LifecycleStep
<1>3. LifecycleInv => LifecycleTracksRegistry
  BY DEF LifecycleInv
<1>. QED  BY <1>1, <1>2, <1>3, Inductive, PTL DEF Spec

\* If the executor does not yield between a commit and its cleanup, every
\* reload accounts for all it built: lifecycle and Map agree, no candidate is
\* forgotten, and a rolled-back reload has put the old generation back
\* (commit, rollback and cleanup of outboundRuntimeAdapter.ts).
THEOREM ReloadsAccountForAll ==
  ASSUME ~YieldsDuringSwap
  PROVE  Spec => []ReloadAccountsForAll
<1>1. Init => CandidateInv
  <2>. SUFFICES ASSUME Init PROVE CandidateInv
    OBVIOUS
  <2>1. Recorded = {InitialGen}
    <3>1. \A g \in Gens : g # NoGen
      BY RegistryAssumption
    <3>. QED  BY <3>1, RegistryAssumption DEF Init, Recorded
  <2>2. prepared.stage = "idle" /\ ~prepared.disposed /\ built = {InitialGen}
    BY DEF Init, Idle
  <2>3. IdOf[InitialGen] <= generation
    BY RegistryAssumption DEF Init
  <2>. QED
    BY <2>1, <2>2, <2>3 DEF CandidateInv, IdsCounted, CandidateIsNew, BothRecorded,
       RollbackUncommits, CandidateUnused, SwappedIn, FailedIsDisposed, NoLeakedCandidate
<1>2. IInv /\ IInv' /\ CandidateInv /\ [Next]_vars => CandidateInv'
  BY CandidateStep
<1>3. IInv /\ CandidateInv => NoLeakedCandidate /\ RollbackRestoresOld
  BY DEF IInv, TxnInv, CandidateInv, RollbackUncommits, NoLeakedCandidate, RollbackRestoresOld
<1>4. LifecycleTracksRegistry /\ NoLeakedCandidate /\ RollbackRestoresOld => ReloadAccountsForAll
  BY DEF ReloadAccountsForAll
<1>. QED  BY <1>1, <1>2, <1>3, <1>4, Inductive, LifecycleFollowsRegistry, PTL DEF Spec
=============================================================================
