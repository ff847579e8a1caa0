--------------------------- MODULE LegacyReloadProofs ---------------------------
(***************************************************************************)
(* Safety of the sequential reload for any versions of the files, any      *)
(* number of reloads and of failures, and a stop at any moment: no edit of *)
(* a watched file is lost, a listener nobody will close has a cause, and   *)
(* between reloads the engine is what its configuration says.              *)
(***************************************************************************)
EXTENDS LegacyReload, FiniteSetTheorems, SequenceTheorems, WellFoundedInduction, TLAPS
-----------------------------------------------------------------------------
(* Types.                                                                  *)

Names == {"metrics", "dashboard"}
By == Reloads \cup {0}
InboundObjects ==
    UNION {{Build(Config[v].inbounds[i], r) : i \in DOMAIN Config[v].inbounds, r \in By} : v \in Versions}
OutboundObjects == UNION {BuiltAll(Config[v].outbounds, r) : v \in Versions, r \in By}
ServerObjects == {EndpointOf(e, v, r) : e \in Names, v \in Versions, r \in By} \cup {NoServer}
Steps == {"idle", "loading", "staging", "publish", "endpoints", "closing", "rebuild", "done",
          "rejected", "partial"}
Lives == {"off", "starting", "running", "stopping", "endpoints stopped", "outbounds stopped",
          "services stopping", "stopped", "failed"}
ReloadRecord ==
    [pc : Steps, caller : {"watcher", "dashboard"}, via : ServerObjects, loaded : Versions,
     previous : Versions, index : Nat \ {0}, next : SUBSET InboundObjects,
     staged : SUBSET InboundObjects, closing : ServerObjects, todo : Seq(Names)]

LegacyTypes ==
    /\ disk \in Versions /\ config \in Versions /\ life \in Lives
    /\ event \in BOOLEAN /\ timer \in BOOLEAN /\ missed \in BOOLEAN
    /\ inbounds \subseteq InboundObjects
    /\ outbounds \subseteq OutboundObjects
    /\ registry \subseteq OutboundObjects \cup {NoServer}
    /\ servers \in [Names -> ServerObjects]
    /\ reload \in [Reloads -> ReloadRecord]
    /\ \A r \in Reloads : reload[r].pc = "closing" => reload[r].todo # <<>>
    /\ overlapped \subseteq Reloads /\ overtaken \subseteq Reloads

-----------------------------------------------------------------------------
(* What the files hold and what the reloads have read.                     *)

Early == life \in {"off", "starting", "running"}

\* An edit of a watched file is on its way to a reload, or one has read it.
EditSeen ==
    (Early /\ ~event /\ ~timer /\ ~missed) =>
        disk = 1 \/ \E r \in Reloads : reload[r].pc # "idle" /\ reload[r].loaded = disk

\* Reloads begin in the order of their numbers and read newer and newer files.
ReadInOrder ==
    /\ config <= disk
    /\ \A r \in Reloads : reload[r].loaded <= disk
    /\ \A q, r \in Reloads : q < r /\ reload[r].pc # "idle" =>
          reload[q].pc # "idle" /\ reload[q].loaded <= reload[r].loaded

HasPublished(r) == reload[r].pc \in {"endpoints", "closing", "rebuild", "done", "partial"}

\* Reloads that neither overlapped nor overtook each other were applied in
\* that order too.
AppliedInOrder ==
    overlapped \cup overtaken = {} =>
        /\ \A r \in Reloads : HasPublished(r) => reload[r].loaded <= config
        /\ \A q, r \in Reloads : q > r /\ Applying(r) =>
              reload[q].pc \in {"idle", "loading", "rejected"}

DiskInv == LegacyTypes /\ EditSeen /\ ReadInOrder /\ AppliedInOrder

-----------------------------------------------------------------------------
(* Objects and types.                                                      *)

\* What is built from a section of a version is an object of its kind.
LEMMA Built ==
  ASSUME NEW v \in Versions, NEW r \in By
  PROVE  /\ \A i \in DOMAIN Config[v].inbounds : Build(Config[v].inbounds[i], r) \in InboundObjects
         /\ BuiltAll(Config[v].outbounds, r) \subseteq OutboundObjects
         /\ \A e \in Names : EndpointOf(e, v, r) \in ServerObjects
<1>1. \A i \in DOMAIN Config[v].inbounds : Build(Config[v].inbounds[i], r) \in InboundObjects
  BY DEF InboundObjects
<1>2. BuiltAll(Config[v].outbounds, r) \subseteq OutboundObjects
  BY DEF OutboundObjects
<1>3. \A e \in Names : EndpointOf(e, v, r) \in ServerObjects
  BY DEF ServerObjects
<1> QED BY <1>1, <1>2, <1>3

\* The list of a version's listeners is a sequence.
LEMMA SectionList ==
  ASSUME NEW v \in Versions
  PROVE  /\ Len(Config[v].inbounds) \in Nat
         /\ DOMAIN Config[v].inbounds = 1 .. Len(Config[v].inbounds)
BY LegacyAssumption

\* A nonempty set of natural numbers has a least element.
LEMMA LeastNatural ==
  ASSUME NEW T \in SUBSET Nat, T # {}
  PROVE  \E x \in T : \A y \in T : x <= y
<1>1. PICK x \in T : \A y \in T : ~ (<<y, x>> \in OpToRel(<, Nat))
  BY NatLessThanWellFounded, WFMin, Zenon
<1>2. \A y \in T : ~ (y < x)
  BY <1>1 DEF OpToRel
<1> QED BY <1>2

\* NextNew is the first section, from reload[r].index on, that needs a new
\* listener, or the end of the list.
LEMMA NextNewFacts ==
  ASSUME LegacyTypes, NEW r \in Reloads
  PROVE  LET n == Len(Config[reload[r].loaded].inbounds) IN
         /\ n \in Nat /\ NextNew(r) \in Nat \ {0}
         /\ NextNew(r) <= n => NextNew(r) \in DOMAIN Config[reload[r].loaded].inbounds
         /\ \A j \in reload[r].index .. (NextNew(r) - 1) : j <= n => Reusable(r, j)
         /\ NextNew(r) <= n => reload[r].index <= NextNew(r) /\ ~Reusable(r, NextNew(r))
         /\ NextNew(r) > n => NextNew(r) = n + 1
<1> DEFINE v == reload[r].loaded
           n == Len(Config[v].inbounds)
           changed == {i \in reload[r].index .. n : ~Reusable(r, i)}
<1>1. v \in Versions /\ reload[r].index \in Nat \ {0}
  BY DEF LegacyTypes, ReloadRecord
<1>2. n \in Nat /\ DOMAIN Config[v].inbounds = 1 .. n
  BY <1>1, SectionList
<1>3. CASE changed = {}
  <2>1. NextNew(r) = n + 1
    BY <1>3 DEF NextNew
  <2>2. \A j \in reload[r].index .. n : Reusable(r, j)
    BY <1>3
  <2> HIDE DEF n, v
  <2>3. n \in Nat /\ NextNew(r) \in Nat \ {0} /\ ~ (NextNew(r) <= n)
    BY <1>2, <2>1
  <2>4. ASSUME NEW j \in reload[r].index .. (NextNew(r) - 1), j <= n
        PROVE  Reusable(r, j)
    BY <1>1, <1>2, <2>1, <2>2, <2>4
  <2> QED BY <2>1, <2>3, <2>4 DEF v, n
<1>4. CASE changed # {}
  <2>1. changed \in SUBSET Nat
    BY <1>1, <1>2
  <2>2. PICK x \in changed : \A y \in changed : x <= y
    BY <1>4, <2>1, LeastNatural
  <2>3. NextNew(r) = CHOOSE i \in changed : \A j \in changed : i <= j
    BY <1>4 DEF NextNew
  <2>4. NextNew(r) \in changed /\ \A j \in changed : NextNew(r) <= j
    BY <2>2, <2>3
  <2>5. NextNew(r) \in reload[r].index .. n
    BY <2>4
  <2>6. \A j \in reload[r].index .. n : j < NextNew(r) => Reusable(r, j)
    BY <1>1, <1>2, <2>4, <2>5
  <2>9. ~Reusable(r, NextNew(r))
    BY <2>4
  <2> HIDE DEF n, v, changed
  <2>7. n \in Nat /\ NextNew(r) \in Nat \ {0} /\ NextNew(r) \in DOMAIN Config[v].inbounds
    BY <1>1, <1>2, <2>5
  <2>8. ASSUME NEW j \in reload[r].index .. (NextNew(r) - 1), j <= n
        PROVE  Reusable(r, j)
    BY <1>1, <1>2, <2>5, <2>6, <2>7, <2>8
  <2>10. NextNew(r) <= n /\ reload[r].index <= NextNew(r) /\ ~ (NextNew(r) > n)
    BY <1>1, <1>2, <2>5, <2>7
  <2> QED BY <2>7, <2>8, <2>9, <2>10 DEF v, n
<1> QED BY <1>3, <1>4


LEMMA InitTypes == Init => LegacyTypes
<1> SUFFICES ASSUME Init PROVE LegacyTypes
  OBVIOUS
<1>1. Range(Endpoints) = Names /\ ToSet(Endpoints) = Names
  BY DEF Endpoints, Names, ToSet, Range
<1>2. 1 \in Versions /\ 0 \in By
  BY LegacyAssumption DEF By
<1>3. servers \in [Names -> ServerObjects]
  BY <1>1, <1>2, Built DEF Init
<1>4. Idle \in ReloadRecord
  BY <1>2 DEF Idle, ReloadRecord, Steps, ServerObjects
<1> QED BY <1>2, <1>3, <1>4 DEF Init, LegacyTypes, Lives, NoRegistry, Idle

\* The fields of a reload's record.
LEMMA RecordFacts ==
  ASSUME LegacyTypes, NEW r \in Reloads
  PROVE  /\ reload[r] \in ReloadRecord
         /\ reload[r].pc \in Steps /\ reload[r].via \in ServerObjects
         /\ reload[r].loaded \in Versions /\ reload[r].previous \in Versions
         /\ reload[r].index \in Nat \ {0}
         /\ reload[r].next \subseteq InboundObjects /\ reload[r].staged \subseteq InboundObjects
         /\ reload[r].closing \in ServerObjects /\ reload[r].todo \in Seq(Names)
         /\ r \in By /\ r \in Nat \ {0}
BY LegacyAssumption DEF LegacyTypes, ReloadRecord, By

\* The steps of starting, stopping and watching keep the types.
LEMMA LifeTypes ==
  ASSUME LegacyTypes,
         StartStep \/ Edit \/ scheduleReload \/ Signal \/ StopStep \/ UNCHANGED vars
  PROVE  LegacyTypes'
<1> USE DEF LegacyTypes, hotVars, engineVars, lifeVars
<1>1. CASE buildComponents
  <2> DEFINE secs == Config[config].inbounds
             ins == [i \in DOMAIN secs |-> Build(secs[i], 0)]
  <2>1. 0 \in By /\ config \in Versions
    BY DEF By
  <2>2. BuiltAll(Config[config].outbounds, 0) \subseteq OutboundObjects
    BY <2>1, Built
  <2>3. \A i \in DOMAIN secs : ins[i] \in InboundObjects
    BY <2>1, Built
  <2>4. ToSet(ins) \subseteq InboundObjects
    BY <2>3 DEF ToSet
  <2> HIDE DEF ins, secs
  <2>5. inbounds' = ToSet(ins)
    BY <1>1 DEF buildComponents, ins, secs
  <2> QED BY <1>1, <2>2, <2>4, <2>5 DEF buildComponents, Lives
<1>2. CASE StartNext \/ StartRefused \/ Started
  BY <1>2 DEF StartNext, StartRefused, Started, Lives
<1>3. CASE Edit
  BY <1>3 DEF Edit
<1>4. CASE scheduleReload
  BY <1>4 DEF scheduleReload
<1>5. CASE Signal
  BY <1>5 DEF Signal, Lives
<1>6. CASE StopEndpoints \/ StopOutbounds \/ StopServices
  BY <1>6 DEF StopEndpoints, StopOutbounds, StopServices, Lives, NoRegistry
<1>7. CASE StopFinished \/ StopTimedOut
  BY <1>7 DEF StopFinished, StopTimedOut, Lives
<1>8. CASE UNCHANGED vars
  BY <1>8 DEF vars
<1> QED BY <1>1, <1>2, <1>3, <1>4, <1>5, <1>6, <1>7, <1>8 DEF StartStep, StopStep

\* So do the steps of reloads.
LEMMA ReloadTypes ==
  ASSUME LegacyTypes, NEW r \in Reloads,
         WatcherReload(r) \/ DashboardReload(r) \/ ReloadStep(r)
  PROVE  LegacyTypes'
<1> USE DEF LegacyTypes, hotVars, engineVars, lifeVars
<1> DEFINE sections == Config[reload[r].loaded].inbounds
           made == BuiltAll(Config[config].outbounds, r)
<1>0. reload[r] \in ReloadRecord
  BY RecordFacts
<1>1. CASE WatcherReload(r) \/ DashboardReload(r)
  <2>1. PICK c \in {"watcher", "dashboard"}, s \in ServerObjects : Begin(r, c, s)
    BY <1>1 DEF WatcherReload, DashboardReload, ServerObjects, Names
  <2>2. timer' \in BOOLEAN
    BY <1>1 DEF WatcherReload, DashboardReload
  <2>3. [Idle EXCEPT !.pc = "loading", !.caller = c, !.via = s, !.loaded = disk] \in ReloadRecord
    <3>1. 1 \in Versions /\ NoServer \in ServerObjects /\ disk \in Versions
      BY LegacyAssumption DEF ServerObjects
    <3>2. Idle \in ReloadRecord
      BY <3>1 DEF Idle, ReloadRecord, Steps
    <3> QED BY <3>1, <3>2 DEF ReloadRecord, Steps
  <2>4. reload' \in [Reloads -> ReloadRecord]
    BY <2>1, <2>3 DEF Begin
  <2>5. reload'[r].pc = "loading" /\ \A q \in Reloads \ {r} : reload'[q] = reload[q]
    BY <2>1 DEF Begin, Idle
  <2> QED BY <2>1, <2>2, <2>4, <2>5 DEF Begin
<1>2. CASE LoadFails(r) \/ Enter(r)
  <2>1. reload' \in [Reloads -> ReloadRecord]
    <3>1. CASE LoadFails(r)
      BY <1>0, <3>1 DEF LoadFails, ReloadRecord, Steps
    <3>2. CASE Enter(r)
      <4> DEFINE step == IF inboundConfigsChanged(config, reload[r].loaded) THEN "staging" ELSE "publish"
      <4>1. step \in Steps
        BY DEF Steps
      <4>2. reload' = [reload EXCEPT ![r].previous = config, ![r].pc = step]
        BY <3>2 DEF Enter
      <4> HIDE DEF step
      <4> QED BY <1>0, <4>1, <4>2 DEF ReloadRecord
    <3> QED BY <1>2, <3>1, <3>2
  <2>2. overlapped' \subseteq Reloads /\ overtaken' \subseteq Reloads
    BY <1>2 DEF LoadFails, Enter
  <2>3. reload'[r].pc # "closing" /\ \A q \in Reloads \ {r} : reload'[q] = reload[q]
    BY <1>0, <1>2 DEF LoadFails, Enter, ReloadRecord
  <2> QED BY <1>2, <2>1, <2>2, <2>3 DEF LoadFails, Enter
<1>3. CASE StageListener(r)
  <2> DEFINE i == NextNew(r)
             o == Build(sections[i], r)
  <2>1. i \in Nat \ {0} /\ i \in DOMAIN sections
    BY <1>3, NextNewFacts DEF StageListener
  <2>2. o \in InboundObjects
    BY <2>1, RecordFacts, Built
  <2>3. ReusedUpTo(r, i) \subseteq InboundObjects
    BY DEF ReusedUpTo
  <2>4. reload' = [reload EXCEPT ![r].index = i + 1,
            ![r].next = @ \union ReusedUpTo(r, i) \union {o}, ![r].staged = @ \union {o}]
    BY <1>3 DEF StageListener
  <2> HIDE DEF i, o
  <2>5. i + 1 \in Nat \ {0}
    BY <2>1
  <2>6. reload' \in [Reloads -> ReloadRecord]
    <3> DEFINE next == reload[r].next \union ReusedUpTo(r, i) \union {o}
               staged == reload[r].staged \union {o}
               k == i + 1
    <3>1. next \subseteq InboundObjects /\ staged \subseteq InboundObjects
      BY <2>2, <2>3, RecordFacts
    <3>2. reload' = [reload EXCEPT ![r].index = k, ![r].next = next, ![r].staged = staged]
      BY <2>4
    <3>3. k \in Nat \ {0}
      BY <2>5
    <3> HIDE DEF next, staged, k
    <3> QED BY <1>0, <3>1, <3>2, <3>3 DEF ReloadRecord
  <2>7. reload'[r].pc = "staging" /\ \A q \in Reloads \ {r} : reload'[q] = reload[q]
    BY <1>0, <1>3, <2>4 DEF StageListener, ReloadRecord
  <2> QED BY <1>3, <2>6, <2>7 DEF StageListener
<1>4. CASE StageFails(r)
  <2>1. reload' \in [Reloads -> ReloadRecord]
    BY <1>0, <1>4 DEF StageFails, ReloadRecord, Steps
  <2>2. reload'[r].pc = "rejected" /\ \A q \in Reloads \ {r} : reload'[q] = reload[q]
    BY <1>0, <1>4 DEF StageFails, ReloadRecord
  <2> QED BY <1>4, <2>1, <2>2 DEF StageFails
<1>5. CASE DrainOld(r)
  <2> DEFINE kept == reload[r].next \union ReusedUpTo(r, NextNew(r))
  <2>1. kept \subseteq InboundObjects
    BY RecordFacts DEF ReusedUpTo
  <2>2. reload' = [reload EXCEPT ![r].pc = "publish", ![r].next = kept]
    BY <1>5 DEF DrainOld
  <2> HIDE DEF kept
  <2>3. reload' \in [Reloads -> ReloadRecord]
    BY <1>0, <2>1, <2>2 DEF ReloadRecord, Steps
  <2>4. reload'[r].pc = "publish" /\ \A q \in Reloads \ {r} : reload'[q] = reload[q]
    BY <1>0, <2>2 DEF ReloadRecord
  <2> QED BY <1>5, <2>3, <2>4 DEF DrainOld
<1>6. CASE Publish(r)
  <2> DEFINE u == reload[r].previous
             v == reload[r].loaded
             todo == IfChanged("metrics", u, v) \o IfChanged("dashboard", u, v)
  <2>1. IfChanged("metrics", u, v) \in Seq(Names) /\ IfChanged("dashboard", u, v) \in Seq(Names)
    <3>1. <<>> \in Seq(Names) /\ <<"metrics">> \in Seq(Names) /\ <<"dashboard">> \in Seq(Names)
      BY DEF Names
    <3> QED BY <3>1 DEF IfChanged
  <2>2. todo \in Seq(Names)
    BY <2>1
  <2>3. reload' = [reload EXCEPT ![r].pc = "endpoints", ![r].todo = todo]
    BY <1>6 DEF Publish
  <2> HIDE DEF todo
  <2>4. reload' \in [Reloads -> ReloadRecord]
    BY <1>0, <2>2, <2>3 DEF ReloadRecord, Steps
  <2>5. reload'[r].pc = "endpoints" /\ \A q \in Reloads \ {r} : reload'[q] = reload[q]
    BY <1>0, <2>3 DEF ReloadRecord
  <2> QED BY <1>6, <2>4, <2>5, RecordFacts DEF Publish
<1>7. CASE EndpointStop(r)
  <2>1. Head(reload[r].todo) \in Names
    BY <1>7, RecordFacts DEF EndpointStop
  <2>2. servers[Head(reload[r].todo)] \in ServerObjects /\ NoServer \in ServerObjects
    BY <2>1 DEF ServerObjects
  <2>3. reload' \in [Reloads -> ReloadRecord]
    BY <1>0, <1>7, <2>2 DEF EndpointStop, ReloadRecord, Steps
  <2>4. reload'[r].todo # <<>> /\ \A q \in Reloads \ {r} : reload'[q] = reload[q]
    BY <1>0, <1>7 DEF EndpointStop, ReloadRecord
  <2> QED BY <1>7, <2>3, <2>4 DEF EndpointStop
<1>8. CASE EndpointStart(r)
  <2> DEFINE e == Head(reload[r].todo)
  <2>1. e \in Names /\ Tail(reload[r].todo) \in Seq(Names)
    BY <1>8, RecordFacts DEF EndpointStart
  <2>2. EndpointOf(e, reload[r].loaded, r) \in ServerObjects
    BY <2>1, RecordFacts, Built
  <2>3. servers' \in [Names -> ServerObjects]
    BY <1>8, <2>1, <2>2 DEF EndpointStart
  <2>4. \/ reload' = [reload EXCEPT ![r].pc = "endpoints", ![r].todo = Tail(@)]
        \/ reload' = [reload EXCEPT ![r].pc = "partial"]
    BY <1>8 DEF EndpointStart
  <2>5. reload' \in [Reloads -> ReloadRecord]
    <3>1. CASE reload' = [reload EXCEPT ![r].pc = "endpoints", ![r].todo = Tail(@)]
      <4>1. "endpoints" \in Steps
        BY DEF Steps
      <4> QED BY <1>0, <2>1, <3>1, <4>1 DEF ReloadRecord
    <3>2. CASE reload' = [reload EXCEPT ![r].pc = "partial"]
      <4>1. "partial" \in Steps
        BY DEF Steps
      <4> QED BY <1>0, <3>2, <4>1 DEF ReloadRecord
    <3> QED BY <2>4, <3>1, <3>2
  <2>6. reload'[r].pc # "closing" /\ \A q \in Reloads \ {r} : reload'[q] = reload[q]
    BY <1>0, <2>4 DEF ReloadRecord
  <2> QED BY <1>8, <2>3, <2>5, <2>6 DEF EndpointStart
<1>9. CASE PluginsFail(r) \/ RetireOutbounds(r)
  <2>1. PICK pc \in {"partial", "rebuild"} : reload' = [reload EXCEPT ![r].pc = pc]
    BY <1>9 DEF PluginsFail, RetireOutbounds
  <2>2. reload' \in [Reloads -> ReloadRecord]
    <3>1. pc \in Steps
      BY DEF Steps
    <3> QED BY <1>0, <2>1, <3>1 DEF ReloadRecord
  <2>3. reload'[r].pc # "closing" /\ \A q \in Reloads \ {r} : reload'[q] = reload[q]
    BY <1>0, <2>1 DEF ReloadRecord
  <2> QED BY <1>9, <2>2, <2>3 DEF PluginsFail, RetireOutbounds
<1>10. made \subseteq OutboundObjects
  BY RecordFacts, Built
<1>11. CASE RebuildFails(r)
  <2>1. reload' \in [Reloads -> ReloadRecord]
    BY <1>0, <1>11 DEF RebuildFails, ReloadRecord, Steps
  <2>2. outbounds' \subseteq OutboundObjects
    BY <1>10, <1>11 DEF RebuildFails
  <2>3. reload'[r].pc # "closing" /\ \A q \in Reloads \ {r} : reload'[q] = reload[q]
    BY <1>0, <1>11 DEF RebuildFails, ReloadRecord
  <2> QED BY <1>11, <2>1, <2>2, <2>3 DEF RebuildFails, NoRegistry
<1>12. CASE Rebuild(r)
  <2>1. reload' \in [Reloads -> ReloadRecord]
    BY <1>0, <1>12 DEF Rebuild, ReloadRecord, Steps
  <2>2. inbounds' \subseteq InboundObjects
    BY <1>12, RecordFacts DEF Rebuild
  <2>3. reload'[r].pc # "closing" /\ \A q \in Reloads \ {r} : reload'[q] = reload[q]
    BY <1>0, <1>12 DEF Rebuild, ReloadRecord
  <2> QED BY <1>10, <1>12, <2>1, <2>2, <2>3 DEF Rebuild
<1> QED BY <1>1, <1>2, <1>3, <1>4, <1>5, <1>6, <1>7, <1>8, <1>9, <1>11, <1>12 DEF ReloadStep

\* Every step keeps the types.
LEMMA TypesStep == LegacyTypes /\ [Next]_vars => LegacyTypes'
BY LifeTypes, ReloadTypes DEF Next

-----------------------------------------------------------------------------
(* No edit is lost.                                                        *)

\* A step of a reload is one of its own record, keeps what it has read, and
\* applies it only by Enter and Publish.
Moves(r) ==
  /\ disk' = disk /\ event' = event /\ timer' = timer /\ missed' = missed /\ life' = life
  /\ \A q \in Reloads \ {r} : reload'[q] = reload[q]
  /\ reload'[r].loaded = reload[r].loaded
  /\ reload[r].pc # "idle" /\ reload'[r].pc # "idle"

Applies(r) ==
  \/ /\ Enter(r) /\ config' = config
     /\ reload[r].pc = "loading" /\ reload'[r].pc \in {"staging", "publish"}
  \/ /\ overlapped' = overlapped /\ overtaken' = overtaken
     /\ config' = reload[r].loaded /\ reload[r].pc = "publish" /\ reload'[r].pc = "endpoints"
  \/ /\ overlapped' = overlapped /\ overtaken' = overtaken /\ config' = config
     /\ \/ reload[r].pc = "loading" /\ reload'[r].pc = "rejected"
        \/ reload[r].pc = "staging" /\ reload'[r].pc \in {"staging", "publish", "rejected"}
        \/ /\ reload[r].pc \in {"endpoints", "closing", "rebuild"}
           /\ reload'[r].pc \in {"endpoints", "closing", "rebuild", "done", "partial"}

LEMMA ReloadMoves ==
  ASSUME LegacyTypes, NEW r \in Reloads, ReloadStep(r)
  PROVE  Moves(r) /\ Applies(r)
<1> USE DEF Moves, Applies, hotVars, lifeVars, engineVars
<1>0. reload[r] \in ReloadRecord /\ reload \in [Reloads -> ReloadRecord]
  BY RecordFacts DEF LegacyTypes
<1>1. CASE LoadFails(r)
  BY <1>0, <1>1 DEF LoadFails, ReloadRecord
<1>2. CASE Enter(r)
  <2> DEFINE step == IF inboundConfigsChanged(config, reload[r].loaded) THEN "staging" ELSE "publish"
  <2>1. step \in {"staging", "publish"}
    OBVIOUS
  <2>2. reload' = [reload EXCEPT ![r].previous = config, ![r].pc = step]
    BY <1>2 DEF Enter
  <2> HIDE DEF step
  <2>3. /\ reload'[r].pc = step /\ reload'[r].loaded = reload[r].loaded
        /\ \A q \in Reloads \ {r} : reload'[q] = reload[q]
    BY <1>0, <2>2 DEF ReloadRecord
  <2> QED BY <1>2, <2>1, <2>3 DEF Enter
<1>3. CASE StageListener(r)
  BY <1>0, <1>3 DEF StageListener, ReloadRecord
<1>4. CASE StageFails(r)
  BY <1>0, <1>4 DEF StageFails, ReloadRecord
<1>5. CASE DrainOld(r)
  BY <1>0, <1>5 DEF DrainOld, ReloadRecord
<1>6. CASE Publish(r)
  BY <1>0, <1>6 DEF Publish, ReloadRecord
<1>7. CASE EndpointStop(r)
  BY <1>0, <1>7 DEF EndpointStop, ReloadRecord
<1>8. CASE EndpointStart(r)
  <2>1. \/ reload' = [reload EXCEPT ![r].pc = "endpoints", ![r].todo = Tail(@)]
        \/ reload' = [reload EXCEPT ![r].pc = "partial"]
    BY <1>8 DEF EndpointStart
  <2>2. /\ reload'[r].pc \in {"endpoints", "partial"} /\ reload'[r].loaded = reload[r].loaded
        /\ \A q \in Reloads \ {r} : reload'[q] = reload[q]
    BY <1>0, <2>1 DEF ReloadRecord
  <2> QED BY <1>8, <2>2 DEF EndpointStart
<1>9. CASE PluginsFail(r)
  BY <1>0, <1>9 DEF PluginsFail, ReloadRecord
<1>10. CASE RetireOutbounds(r)
  <2>1. reload' = [reload EXCEPT ![r].pc = "rebuild"]
    BY <1>10 DEF RetireOutbounds
  <2> QED BY <1>0, <1>10, <2>1 DEF RetireOutbounds, ReloadRecord
<1>11. CASE RebuildFails(r)
  BY <1>0, <1>11 DEF RebuildFails, ReloadRecord
<1>12. CASE Rebuild(r)
  <2>1. reload' = [reload EXCEPT ![r].pc = "done"]
    BY <1>12 DEF Rebuild
  <2> QED BY <1>0, <1>12, <2>1 DEF Rebuild, ReloadRecord
<1> QED BY <1>1, <1>2, <1>3, <1>4, <1>5, <1>6, <1>7, <1>8, <1>9, <1>10, <1>11, <1>12 DEF ReloadStep

LEMMA ReloadKeepsDisk ==
  ASSUME DiskInv, NEW r \in Reloads, ReloadStep(r)
  PROVE  DiskInv'
<1>0. LegacyTypes /\ LegacyTypes' /\ Moves(r) /\ Applies(r)
  BY ReloadMoves, ReloadTypes DEF DiskInv
<1>1. \A q \in Reloads : /\ q \in Nat /\ reload'[q].loaded = reload[q].loaded
                         /\ reload[q].loaded \in Nat
                         /\ reload[q].pc = "idle" <=> reload'[q].pc = "idle"
  <2>1. \A q \in Reloads : q \in Nat /\ reload[q].loaded \in Nat
    BY <1>0, RecordFacts, LegacyAssumption
  <2> QED BY <1>0, <2>1 DEF Moves
<1>2. config \in Nat /\ config' \in Nat /\ disk \in Nat /\ disk' = disk
  BY <1>0, LegacyAssumption DEF LegacyTypes, Moves
<1>3. EditSeen'
  BY <1>0, <1>1 DEF DiskInv, EditSeen, Moves, Early
<1>4. ReadInOrder'
  <2>1. config' <= disk'
    BY <1>0, <1>2 DEF Applies, Enter, engineVars, DiskInv, ReadInOrder
  <2> QED BY <1>1, <1>2, <2>1 DEF DiskInv, ReadInOrder
<1>5. AppliedInOrder'
  <2> SUFFICES ASSUME overlapped' \cup overtaken' = {}
               PROVE  /\ \A q \in Reloads : HasPublished(q)' => reload'[q].loaded <= config'
                      /\ \A q, p \in Reloads : q > p /\ Applying(p)' =>
                            reload'[q].pc \in {"idle", "loading", "rejected"}
    BY DEF AppliedInOrder
  <2>1. overlapped \cup overtaken = {}
    BY <1>0 DEF Applies, Enter
  <2>2. /\ \A q \in Reloads : HasPublished(q) => reload[q].loaded <= config
        /\ \A q, p \in Reloads : q > p /\ Applying(p) =>
              reload[q].pc \in {"idle", "loading", "rejected"}
    BY <2>1 DEF DiskInv, AppliedInOrder
  <2>3. ASSUME NEW q \in Reloads, HasPublished(q)'
        PROVE  reload'[q].loaded <= config'
    <3>1. CASE reload[r].pc = "publish" /\ reload'[r].pc = "endpoints"
      <4>1. config' = reload[r].loaded
        BY <1>0, <3>1 DEF Applies
      <4>2. Applying(r)
        BY <3>1 DEF Applying, InFlight, Ended
      <4>3. CASE q = r
        BY <1>1, <4>1, <4>3
      <4>4. CASE q # r
        <5>1. HasPublished(q)
          BY <1>0, <2>3, <4>4 DEF HasPublished, Moves
        <5>2. ~ (q > r)
          BY <2>2, <4>2, <5>1 DEF HasPublished
        <5>3. q < r
          BY <1>1, <4>4, <5>2
        <5>4. reload[q].loaded <= reload[r].loaded
          BY <3>1, <5>3 DEF DiskInv, ReadInOrder
        <5> QED BY <1>1, <4>1, <5>4
      <4> QED BY <4>3, <4>4
    <3>2. CASE ~ (reload[r].pc = "publish" /\ reload'[r].pc = "endpoints")
      <4>1. config' = config
        BY <1>0, <3>2 DEF Applies
      <4>2. HasPublished(q)
        BY <1>0, <2>3, <3>2 DEF HasPublished, Moves, Applies
      <4> QED BY <1>1, <2>2, <4>1, <4>2
    <3> QED BY <3>1, <3>2
  <2>4. ASSUME NEW q \in Reloads, NEW p \in Reloads, q > p, Applying(p)'
        PROVE  reload'[q].pc \in {"idle", "loading", "rejected"}
    <3>0. q # p
      BY <1>1, <2>4
    <3>1. CASE Enter(r) /\ p = r
      <4>1. reload[q].pc \in {"idle", "loading"}
        BY <2>4, <3>1 DEF Enter
      <4> QED BY <1>0, <3>0, <3>1, <4>1 DEF Moves
    <3>2. CASE Enter(r) /\ q = r
      <4>1. Applying(p)
        BY <1>0, <2>4, <3>0, <3>2 DEF Moves, Applying, InFlight, Ended
      <4> QED BY <3>0, <3>2, <4>1 DEF Enter
    <3>3. CASE ~ Enter(r) \/ r \notin {p, q}
      <4>1. Applying(p)
        BY <1>0, <2>4, <3>3 DEF Moves, Applies, Applying, InFlight, Ended
      <4>2. reload[q].pc \in {"idle", "loading", "rejected"}
        BY <2>2, <2>4, <4>1
      <4> QED BY <1>0, <3>3, <4>2 DEF Moves, Applies
    <3> QED BY <3>1, <3>2, <3>3
  <2> QED BY <2>3, <2>4
<1> QED BY <1>0, <1>3, <1>4, <1>5 DEF DiskInv

\* A reload that begins reads the files as they are.
LEMMA BeginKeepsDisk ==
  ASSUME DiskInv, NEW r \in Reloads, WatcherReload(r) \/ DashboardReload(r)
  PROVE  DiskInv'
<1>0. LegacyTypes /\ LegacyTypes'
  BY ReloadTypes DEF DiskInv
<1>1. /\ reload[r].pc = "idle" /\ \A q \in Reloads : q < r => reload[q].pc # "idle"
      /\ disk' = disk /\ event' = event /\ missed' = missed /\ life' = life /\ config' = config
      /\ overlapped' = overlapped /\ overtaken' = overtaken
  BY DEF WatcherReload, DashboardReload, Begin, lifeVars, engineVars
<1>2. /\ reload'[r].pc = "loading" /\ reload'[r].loaded = disk
      /\ \A q \in Reloads \ {r} : reload'[q] = reload[q]
  <2>1. PICK c, s : Begin(r, c, s)
    BY DEF WatcherReload, DashboardReload
  <2>2. reload' = [reload EXCEPT ![r] = [Idle EXCEPT !.pc = "loading", !.caller = c, !.via = s,
                                                    !.loaded = disk]]
    BY <2>1 DEF Begin
  <2> QED BY <1>0, <2>2 DEF Idle, LegacyTypes
<1>3. /\ \A q \in Reloads : q \in Nat /\ reload[q].loaded \in Nat
      /\ disk \in Nat /\ config \in Nat
  BY <1>0, RecordFacts, LegacyAssumption DEF LegacyTypes
<1>4. EditSeen'
  BY <1>1, <1>2 DEF EditSeen
<1>5. ReadInOrder'
  <2>1. config' <= disk' /\ \A q \in Reloads : reload'[q].loaded <= disk'
    BY <1>1, <1>2, <1>3 DEF DiskInv, ReadInOrder
  <2>2. ASSUME NEW q \in Reloads, NEW p \in Reloads, q < p, reload'[p].pc # "idle"
        PROVE  reload'[q].pc # "idle" /\ reload'[q].loaded <= reload'[p].loaded
    <3>1. CASE p = r
      BY <1>1, <1>2, <1>3, <2>1, <2>2, <3>1
    <3>2. CASE p # r
      BY <1>1, <1>2, <1>3, <2>2, <3>2 DEF DiskInv, ReadInOrder
    <3> QED BY <3>1, <3>2
  <2> QED BY <2>1, <2>2 DEF ReadInOrder
<1>6. AppliedInOrder'
  <2>1. \A q \in Reloads : /\ Applying(q)' => Applying(q)
                           /\ HasPublished(q)' => HasPublished(q) /\ reload'[q] = reload[q]
    BY <1>2 DEF Applying, InFlight, Ended, HasPublished
  <2>2. \A q \in Reloads : reload[q].pc \in {"idle", "loading", "rejected"} =>
                              reload'[q].pc \in {"idle", "loading", "rejected"}
    BY <1>2
  <2> QED BY <1>1, <2>1, <2>2 DEF DiskInv, AppliedInOrder
<1> QED BY <1>0, <1>4, <1>5, <1>6 DEF DiskInv

\* Starting, stopping, editing and the debounce leave the reloads alone.
LEMMA LifeKeepsDisk ==
  ASSUME DiskInv, StartStep \/ Edit \/ scheduleReload \/ Signal \/ StopStep \/ UNCHANGED vars
  PROVE  DiskInv'
<1> USE DEF hotVars, lifeVars, engineVars
<1>0. LegacyTypes /\ LegacyTypes'
  BY LifeTypes DEF DiskInv
<1>1. reload' = reload /\ config' = config /\ overlapped' = overlapped /\ overtaken' = overtaken
  BY DEF StartStep, buildComponents, StartNext, StartRefused, Started, Edit, scheduleReload, Signal,
         StopStep, StopEndpoints, StopOutbounds, StopServices, StopFinished, StopTimedOut, vars
<1>2. AppliedInOrder'
  BY <1>1 DEF DiskInv, AppliedInOrder, HasPublished, Applying, InFlight
<1>3. disk \in Nat /\ disk' \in Nat /\ (disk' = disk \/ disk' = disk + 1)
  <2>1. disk' = disk \/ disk' = disk + 1
    BY DEF StartStep, buildComponents, StartNext, StartRefused, Started, Edit, scheduleReload, Signal,
           StopStep, StopEndpoints, StopOutbounds, StopServices, StopFinished, StopTimedOut, vars
  <2> QED BY <1>0, <2>1, LegacyAssumption DEF LegacyTypes
<1>4. ReadInOrder'
  <2>1. config \in Nat /\ \A r \in Reloads : reload[r].loaded \in Nat
    BY <1>0, RecordFacts, LegacyAssumption DEF LegacyTypes
  <2> QED BY <1>1, <1>3, <2>1 DEF DiskInv, ReadInOrder
<1>5. EditSeen'
  <2>1. CASE Edit
    <3>1. event \in BOOLEAN /\ event' = (event \/ EditPath[disk + 1] \in watching)
          /\ missed' = (EditPath[disk + 1] \notin watching)
      BY <1>0, <2>1 DEF Edit, LegacyTypes
    <3>2. event' \/ missed'
      BY <3>1
    <3> QED BY <3>2 DEF EditSeen
  <2>2. CASE scheduleReload
    BY <2>2 DEF scheduleReload, EditSeen
  <2>3. CASE StartStep
    <3>1. disk' = disk /\ event' = event /\ timer' = timer /\ missed' = missed
          /\ (Early' => Early)
      BY <2>3 DEF StartStep, buildComponents, StartNext, StartRefused, Started, Early
    <3> QED BY <1>1, <3>1 DEF DiskInv, EditSeen
  <2>4. CASE Signal
    BY <2>4 DEF Signal, EditSeen, Early
  <2>5. CASE StopStep
    <3>1. ~Early'
      BY <2>5 DEF StopStep, StopEndpoints, StopOutbounds, StopServices, StopFinished, StopTimedOut, Early
    <3> QED BY <3>1 DEF EditSeen
  <2>6. CASE UNCHANGED vars
    BY <2>6 DEF vars, DiskInv, EditSeen, Early
  <2> QED BY <2>1, <2>2, <2>3, <2>4, <2>5, <2>6
<1> QED BY <1>0, <1>2, <1>4, <1>5 DEF DiskInv

\* At rest, when the file edited last was watched, some reload has read what
\* the files hold; if it ended well and no reloads overlapped or overtook each
\* other, that version is in force (HotReloadManager, Engine.reloadConfig).
THEOREM EditsAreFollowed == Spec => []RestFollowsDisk
<1>1. Init => DiskInv
  <2> SUFFICES ASSUME Init PROVE DiskInv
    OBVIOUS
  <2>1. LegacyTypes
    BY InitTypes
  <2>2. /\ disk = 1 /\ config = 1 /\ \A r \in Reloads : reload[r].pc = "idle" /\ reload[r].loaded = 1
    BY DEF Init, Idle
  <2>3. EditSeen /\ ReadInOrder
    BY <2>2 DEF EditSeen, ReadInOrder
  <2>4. AppliedInOrder
    BY <2>2 DEF AppliedInOrder, HasPublished, Applying, InFlight, Ended
  <2> QED BY <2>1, <2>3, <2>4 DEF DiskInv
<1>2. DiskInv /\ [Next]_vars => DiskInv'
  BY ReloadKeepsDisk, BeginKeepsDisk, LifeKeepsDisk DEF Next
<1>3. DiskInv => RestFollowsDisk
  <2> SUFFICES ASSUME DiskInv, life = "running", Quiet, ~event, ~timer, ~missed, disk # 1
               PROVE  \E r \in Reloads :
                        /\ reload[r].pc \in Ended \ {"idle"}
                        /\ reload[r].loaded = disk
                        /\ config = disk \/ reload[r].pc # "done" \/ overlapped \cup overtaken # {}
    BY DEF RestFollowsDisk
  <2>1. PICK r \in Reloads : reload[r].pc # "idle" /\ reload[r].loaded = disk
    BY DEF DiskInv, EditSeen, Early
  <2>2. reload[r].pc \in Ended \ {"idle"}
    BY <2>1 DEF Quiet, InFlight
  <2>3. ASSUME reload[r].pc = "done", overlapped \cup overtaken = {}
        PROVE  config = disk
    <3>1. disk <= config
      BY <2>1, <2>3 DEF DiskInv, AppliedInOrder, HasPublished
    <3>2. config <= disk
      BY DEF DiskInv, ReadInOrder
    <3>3. config \in Nat /\ disk \in Nat
      BY LegacyAssumption DEF DiskInv, LegacyTypes
    <3> QED BY <3>1, <3>2, <3>3
  <2> QED BY <2>1, <2>2, <2>3
<1> QED BY <1>1, <1>2, <1>3, PTL DEF Spec

-----------------------------------------------------------------------------
(* Who will release a bound address.                                       *)

Caused(o) ==
    \/ o.by \in overlapped \cup unfinished
    \/ o.by \in Reloads /\ Failed(o.by)

\* Nothing has been read and nothing is watched, so no reload will begin.
Dormant ==
    /\ ~event /\ ~timer /\ watching = {}
    /\ \A r \in Reloads : reload[r].pc = "idle"

\* A reload that moves after the signal had not finished when it came.
StopsMeetReloads ==
    /\ life = "off" => open = {}
    /\ life \in {"off", "starting"} => Dormant
    /\ Early => unfinished = {}
    /\ ~Early => Dormant \/ \A r \in Reloads : InFlight(r) \/ reload[r].pc = "idle" => r \in unfinished

ToStartOwned ==
    life = "starting" =>
        toStart \in Seq((inbounds \cap services) \cup {servers[e] : e \in Names})

\* Reloads that are applied together know of it.
OverlapKnown == \A q, r \in Reloads : q # r /\ Applying(q) /\ Applying(r) => q \in overlapped

\* What a reload has staged is its own; what it reuses and what the engine
\* has in inbounds is of a reload that is done, or of the start.
StagedIsOwn ==
    \A r \in Reloads :
        /\ \A o \in reload[r].staged : o.by = r /\ o \in reload[r].next
        /\ \A o \in reload[r].next \ reload[r].staged :
              o.by = 0 \/ (o.by \in Reloads /\ reload[o.by].pc = "done")
        /\ reload[r].pc \in {"idle", "loading"} => reload[r].next = {}
        /\ reload[r].pc = "staging" => Replaces(r)
        /\ InFlight(r) /\ ~Replaces(r) => reload[r].staged = {}

InboundsAreDone == \A o \in inbounds : o.by = 0 \/ (o.by \in Reloads /\ reload[o.by].pc = "done")

\* A listener in service that a reload will not take over has been closed by
\* it, unless a reload that overlapped it put the listener there.
DropsAreClosed ==
    \A r \in Reloads : \A o \in inbounds \cap open :
        o.by \in overlapped
          \/ /\ (reload[r].pc = "staging" /\ \E p \in reload[r].next \ reload[r].staged : p.tag = o.tag)
                   => o \in reload[r].next
             /\ (reload[r].pc \in {"publish", "endpoints", "closing", "rebuild"} /\ Replaces(r))
                   => o \in reload[r].next

\* What a reload reuses is still in service, or closed.
ReusedInService ==
    \A r \in Reloads : Applying(r) =>
        \A o \in (reload[r].next \ reload[r].staged) \cap open : o \in inbounds \/ o.by \in overlapped

\* The server a reload has stopped is not listening when it is replaced.
ReplacedIsClosed ==
    \A r \in Reloads : reload[r].pc = "closing" =>
        (servers[Head(reload[r].todo)] \in open => servers[Head(reload[r].todo)].by \in overlapped)

\* What Engine.stop has passed listens only for a cause.
StoppedIsClosed ==
    /\ ~Early /\ servers["dashboard"] \in open => Caused(servers["dashboard"])
    /\ ~Early /\ life # "stopping" /\ servers["metrics"] \in open => Caused(servers["metrics"])
    /\ life \in {"services stopping", "stopped", "failed"} => \A o \in open : Caused(o)

OpenInv ==
    /\ LegacyTypes /\ StopsMeetReloads /\ ToStartOwned /\ OverlapKnown /\ StagedIsOwn
    /\ InboundsAreDone /\ DropsAreClosed /\ ReusedInService /\ ReplacedIsClosed
    /\ StoppedIsClosed /\ StrayHasCause

\* No listener is an outbound or a disabled endpoint.
LEMMA ListenersApart ==
  ASSUME NEW o \in InboundObjects
  PROVE  o \notin OutboundObjects /\ o # NoServer /\ o.spec # Off
<1>0. PICK v \in Versions :
       o \in {Build(Config[v].inbounds[i], r) : i \in DOMAIN Config[v].inbounds, r \in By}
  BY DEF InboundObjects
<1>1. PICK i \in DOMAIN Config[v].inbounds, r \in By : o = Build(Config[v].inbounds[i], r)
  BY <1>0
<1>2. o.spec = Config[v].inbounds[i].spec
  BY <1>1 DEF Build
<1>3. o.spec # Off /\ \A u \in Versions : \A s \in Config[u].outbounds : o.spec # s.spec
  BY <1>2, LegacyAssumption
<1>4. o # NoServer
  BY <1>3 DEF NoServer
<1>5. ASSUME o \in OutboundObjects PROVE FALSE
  <2>1. PICK u \in Versions, q \in By : o \in BuiltAll(Config[u].outbounds, q)
    BY <1>5 DEF OutboundObjects
  <2>2. PICK s \in Config[u].outbounds : o = Build(s, q)
    BY <2>1 DEF BuiltAll
  <2> QED BY <1>3, <2>2 DEF Build
<1> QED BY <1>3, <1>4, <1>5

LEMMA EndpointNames == ToSet(Endpoints) = Names
BY DEF Endpoints, Names, ToSet

\* What a step of a reload does to the engine: what it binds is its own and
\* has an owner, it replaces one server or all listeners, and the listeners in
\* service stay registered.
Touches(r) ==
  /\ unfinished' = unfinished /\ toStart' = toStart
  /\ overlapped \subseteq overlapped'
  /\ \A o \in open' : o \in open \/ (o.by = r /\ reload[r].pc \in {"staging", "closing"})
  /\ \A o \in open' : \/ o \in open
                      \/ o \in reload'[r].staged /\ InFlight(r)'
                      \/ \E e \in Names : o = servers'[e]
  /\ \A e \in Names : \/ servers'[e] = servers[e]
                      \/ reload[r].pc = "closing" /\ e = Head(reload[r].todo) /\ servers'[e].by = r
  /\ \/ reload'[r].next = reload[r].next /\ reload'[r].staged = reload[r].staged
     \/ StageListener(r) \/ DrainOld(r)
  /\ reload'[r].previous = reload[r].previous \/ Enter(r)

Serves(r) ==
  \/ inbounds' = inbounds /\ inbounds \cap services \subseteq services'
  \/ Rebuild(r) /\ Replaces(r) /\ inbounds' = reload[r].next /\ inbounds' \subseteq services'

LEMMA ReloadTouches ==
  ASSUME LegacyTypes, NEW r \in Reloads, ReloadStep(r)
  PROVE  Touches(r)
<1>0. reload[r] \in ReloadRecord /\ reload \in [Reloads -> ReloadRecord]
  BY RecordFacts DEF LegacyTypes
<1> DEFINE Same == /\ reload'[r].next = reload[r].next /\ reload'[r].staged = reload[r].staged
                   /\ reload'[r].previous = reload[r].previous
           Frame == /\ unfinished' = unfinished /\ toStart' = toStart /\ servers' = servers
                    /\ overlapped \subseteq overlapped' /\ open' \subseteq open
<1>1. ASSUME Frame, Same \/ Enter(r) \/ DrainOld(r),
             DrainOld(r) => reload'[r].previous = reload[r].previous,
             Enter(r) => reload'[r].next = reload[r].next /\ reload'[r].staged = reload[r].staged
      PROVE  Touches(r)
  <2>1. \A o \in open' : o \in open
    BY <1>1
  <2>2. \A e \in Names : servers'[e] = servers[e]
    BY <1>1
  <2>3. \/ reload'[r].next = reload[r].next /\ reload'[r].staged = reload[r].staged
        \/ StageListener(r) \/ DrainOld(r)
    BY <1>1
  <2>4. reload'[r].previous = reload[r].previous \/ Enter(r)
    BY <1>1
  <2>5. unfinished' = unfinished /\ toStart' = toStart /\ overlapped \subseteq overlapped'
    BY <1>1
  <2> QED BY <2>1, <2>2, <2>3, <2>4, <2>5 DEF Touches
<1>2. CASE LoadFails(r) \/ StageFails(r) \/ Publish(r) \/ EndpointStop(r) \/ PluginsFail(r)
             \/ RetireOutbounds(r) \/ RebuildFails(r) \/ Rebuild(r)
  <2>1. Same
    <3>1. CASE LoadFails(r)
      BY <1>0, <3>1 DEF LoadFails, ReloadRecord
    <3>2. CASE StageFails(r)
      BY <1>0, <3>2 DEF StageFails, ReloadRecord
    <3>3. CASE Publish(r)
      BY <1>0, <3>3 DEF Publish, ReloadRecord
    <3>4. CASE EndpointStop(r)
      BY <1>0, <3>4 DEF EndpointStop, ReloadRecord
    <3>5. CASE PluginsFail(r)
      BY <1>0, <3>5 DEF PluginsFail, ReloadRecord
    <3>6. CASE RetireOutbounds(r)
      <4>1. reload' = [reload EXCEPT ![r].pc = "rebuild"]
        BY <3>6 DEF RetireOutbounds
      <4> QED BY <1>0, <4>1 DEF ReloadRecord
    <3>7. CASE RebuildFails(r)
      BY <1>0, <3>7 DEF RebuildFails, ReloadRecord
    <3>8. CASE Rebuild(r)
      <4>1. reload' = [reload EXCEPT ![r].pc = "done"]
        BY <3>8 DEF Rebuild
      <4> QED BY <1>0, <4>1 DEF ReloadRecord
    <3> QED BY <1>2, <3>1, <3>2, <3>3, <3>4, <3>5, <3>6, <3>7, <3>8
  <2>2. Frame
    BY <1>2 DEF LoadFails, StageFails, RolledBack, Publish, EndpointStop, PluginsFail,
         RetireOutbounds, RebuildFails, Rebuild, hotVars, lifeVars, engineVars
  <2>3. reload'[r].previous = reload[r].previous
    BY <2>1
  <2>4. reload'[r].next = reload[r].next /\ reload'[r].staged = reload[r].staged
    BY <2>1
  <2> HIDE DEF Same, Frame
  <2> QED BY <1>1, <2>1, <2>2, <2>3, <2>4
<1>3. CASE Enter(r) \/ DrainOld(r)
  <2>1. Frame
    BY <1>3 DEF Enter, DrainOld, hotVars, lifeVars, engineVars
  <2>2. Enter(r) => reload'[r].next = reload[r].next /\ reload'[r].staged = reload[r].staged
    BY <1>0 DEF Enter, ReloadRecord
  <2>3. DrainOld(r) => reload'[r].previous = reload[r].previous
    BY <1>0 DEF DrainOld, ReloadRecord
  <2> HIDE DEF Same, Frame
  <2> QED BY <1>1, <1>3, <2>1, <2>2, <2>3
<1> HIDE DEF Same, Frame
<1> USE DEF Touches, hotVars, lifeVars, engineVars
<1>4. CASE StageListener(r)
  <2> DEFINE o == Build(Config[reload[r].loaded].inbounds[NextNew(r)], r)
  <2>1. /\ open' = open \cup {o} /\ reload'[r].staged = reload[r].staged \cup {o}
        /\ reload'[r].pc = "staging" /\ reload'[r].previous = reload[r].previous
        /\ reload[r].pc = "staging" /\ servers' = servers
        /\ unfinished' = unfinished /\ toStart' = toStart /\ overlapped' = overlapped
    BY <1>0, <1>4 DEF StageListener, ReloadRecord
  <2>2. o.by = r
    BY DEF Build
  <2>3. InFlight(r)'
    BY <2>1 DEF InFlight, Ended
  <2> HIDE DEF o
  <2> QED BY <1>4, <2>1, <2>2, <2>3
<1>5. CASE EndpointStart(r)
  <2> DEFINE e == Head(reload[r].todo)
             o == EndpointOf(e, reload[r].loaded, r)
  <2>1. /\ servers' = [servers EXCEPT ![e] = o] /\ reload[r].pc = "closing"
        /\ open' \subseteq open \cup {o}
        /\ unfinished' = unfinished /\ toStart' = toStart /\ overlapped' = overlapped
    BY <1>5 DEF EndpointStart, Bound
  <2>2. \/ reload' = [reload EXCEPT ![r].pc = "endpoints", ![r].todo = Tail(@)]
        \/ reload' = [reload EXCEPT ![r].pc = "partial"]
    BY <1>5 DEF EndpointStart
  <2>3. /\ reload'[r].next = reload[r].next /\ reload'[r].staged = reload[r].staged
        /\ reload'[r].previous = reload[r].previous
    BY <1>0, <2>2 DEF ReloadRecord
  <2>4. o.by = r
    BY DEF EndpointOf
  <2>5. e \in Names /\ servers \in [Names -> ServerObjects]
    BY <2>1, RecordFacts DEF LegacyTypes
  <2> HIDE DEF o
  <2> QED BY <2>1, <2>3, <2>4, <2>5
<1> QED BY <1>2, <1>3, <1>4, <1>5 DEF ReloadStep

LEMMA ReloadServes ==
  ASSUME LegacyTypes, NEW r \in Reloads, ReloadStep(r)
  PROVE  Serves(r)
<1> USE DEF Serves, engineVars
<1>1. CASE RetireOutbounds(r)
  <2>1. \A o \in inbounds : o \notin registry /\ o \notin outbounds
    BY ListenersApart DEF LegacyTypes
  <2>2. inbounds' = inbounds
        /\ services' = services \ (IF registry = NoRegistry THEN outbounds ELSE registry)
    BY <1>1 DEF RetireOutbounds
  <2> QED BY <2>1, <2>2
<1>2. CASE RebuildFails(r)
  BY <1>2 DEF RebuildFails
<1>3. CASE Rebuild(r)
  BY <1>3 DEF Rebuild
<1>4. CASE LoadFails(r) \/ Enter(r) \/ Publish(r) \/ PluginsFail(r)
  BY <1>4 DEF LoadFails, Enter, Publish, PluginsFail
<1>5. CASE StageListener(r) \/ StageFails(r) \/ DrainOld(r)
  BY <1>5 DEF StageListener, StageFails, DrainOld
<1>6. CASE EndpointStop(r) \/ EndpointStart(r)
  BY <1>6 DEF EndpointStop, EndpointStart
<1> QED BY <1>1, <1>2, <1>3, <1>4, <1>5, <1>6 DEF ReloadStep

\* Steps of a reload: who will release what is bound.
LEMMA ReloadKeepsCause ==
  ASSUME OpenInv, NEW r \in Reloads, ReloadStep(r)
  PROVE  /\ \A o : Caused(o) => Caused(o)'
         /\ StopsMeetReloads' /\ ToStartOwned' /\ OverlapKnown'
         /\ ~Early => r \in unfinished
         /\ \A q \in Reloads \ {r} : Applying(q) /\ Applying(r) => r \in overlapped /\ q \in overlapped
<1>0. LegacyTypes /\ Moves(r) /\ Applies(r) /\ Touches(r)
  BY ReloadMoves, ReloadTouches DEF OpenInv
<1>1. \A o : Caused(o) => Caused(o)'
  <2> SUFFICES ASSUME NEW o, Caused(o) PROVE Caused(o)'
    OBVIOUS
  <2>1. CASE o.by \in overlapped \cup unfinished
    BY <1>0, <2>1 DEF Caused, Touches
  <2>2. CASE o.by \in Reloads /\ Failed(o.by)
    <3>1. Failed(o.by)'
      BY <1>0, <2>2 DEF Failed, Moves, Applies, Enter
    <3> QED BY <2>2, <3>1 DEF Caused
  <2> QED BY <2>1, <2>2 DEF Caused
<1>2. ~Dormant /\ life \notin {"off", "starting"}
  BY <1>0 DEF OpenInv, StopsMeetReloads, Dormant, Moves
<1>3. life' = life /\ (Early' <=> Early)
  BY <1>0 DEF Moves, Early
<1>4. InFlight(r)
  BY <1>0 DEF Applies, InFlight, Ended
<1>5. ~Early => r \in unfinished
  BY <1>2, <1>4 DEF OpenInv, StopsMeetReloads
<1>6. StopsMeetReloads'
  <2>1. \A q \in Reloads : (InFlight(q) \/ reload[q].pc = "idle")' => InFlight(q) \/ reload[q].pc = "idle"
    BY <1>0, <1>4 DEF Moves, InFlight
  <2>2. ~Early' => \A q \in Reloads : (InFlight(q) \/ reload[q].pc = "idle")' => q \in unfinished'
    BY <1>0, <1>2, <1>3, <2>1 DEF OpenInv, StopsMeetReloads, Touches
  <2>3. Early' => unfinished' = {}
    BY <1>0, <1>3 DEF OpenInv, StopsMeetReloads, Touches
  <2> QED BY <1>2, <1>3, <2>2, <2>3 DEF StopsMeetReloads
<1>7. ToStartOwned'
  BY <1>2, <1>3 DEF ToStartOwned
<1>8. OverlapKnown'
  <2> SUFFICES ASSUME NEW q \in Reloads, NEW p \in Reloads, q # p, Applying(q)', Applying(p)'
               PROVE  q \in overlapped'
    BY DEF OverlapKnown
  <2>1. CASE Enter(r) /\ r \in {p, q}
    <3> DEFINE others == {x \in Reloads \ {r} : Applying(x)}
    <3>1. PICK x \in {p, q} : x # r
      OBVIOUS
    <3>2. x \in others
      BY <1>0, <3>1 DEF Moves, Applying, InFlight
    <3>3. overlapped' = overlapped \cup (others \cup {r})
      BY <2>1, <3>2 DEF Enter
    <3>4. q = x \/ q = r
      BY <2>1, <3>1
    <3> HIDE DEF others
    <3>5. x \in overlapped' /\ r \in overlapped'
      BY <3>2, <3>3
    <3> QED BY <3>4, <3>5
  <2>2. CASE ~ (Enter(r) /\ r \in {p, q})
    <3>1. Applying(q) /\ Applying(p)
      BY <1>0, <1>4, <2>2 DEF Moves, Applies, Applying, InFlight, Ended
    <3> QED BY <1>0, <3>1 DEF OpenInv, OverlapKnown, Touches
  <2> QED BY <2>1, <2>2
<1>9. \A q \in Reloads \ {r} : Applying(q) /\ Applying(r) => r \in overlapped /\ q \in overlapped
  BY DEF OpenInv, OverlapKnown
<1> QED BY <1>1, <1>5, <1>6, <1>7, <1>8, <1>9

\* What a listener that is reused or in service was built by is no reload that
\* still runs.
LEMMA ReloadKeepsOrigin ==
  ASSUME OpenInv, NEW r \in Reloads, ReloadStep(r)
  PROVE  /\ StagedIsOwn' /\ InboundsAreDone'
         /\ \A o \in inbounds : o.by # r
         /\ \A q \in Reloads : \A o \in reload[q].next \ reload[q].staged : o.by # r
<1>0. LegacyTypes /\ Moves(r) /\ Applies(r) /\ Touches(r) /\ Serves(r)
  BY ReloadMoves, ReloadTouches, ReloadServes DEF OpenInv
<1>1. StagedIsOwn /\ InboundsAreDone
  BY DEF OpenInv
<1>2. r # 0 /\ reload[r].pc # "done"
  BY <1>0, RecordFacts DEF Applies, Enter
<1>3. \A o : (o.by = 0 \/ (o.by \in Reloads /\ reload[o.by].pc = "done")) =>
             (o.by = 0 \/ (o.by \in Reloads /\ reload[o.by].pc = "done"))'
  BY <1>0, <1>2 DEF Moves
<1>4. /\ \A o \in inbounds : o.by # r
      /\ \A q \in Reloads : \A o \in reload[q].next \ reload[q].staged : o.by # r
  BY <1>1, <1>2 DEF StagedIsOwn, InboundsAreDone
<1>5. InboundsAreDone'
  <2>1. CASE inbounds' = inbounds
    BY <1>1, <1>3, <2>1 DEF InboundsAreDone
  <2>2. CASE Rebuild(r) /\ inbounds' = reload[r].next
    <3>1. reload'[r].pc = "done"
      BY <2>2 DEF Rebuild, OpenInv, LegacyTypes
    <3> QED BY <1>1, <1>3, <2>2, <3>1 DEF StagedIsOwn, InboundsAreDone
  <2> QED BY <1>0, <2>1, <2>2 DEF Serves
<1>6. ASSUME NEW q \in Reloads \ {r}
      PROVE  /\ \A o \in reload'[q].staged : o.by = q /\ o \in reload'[q].next
             /\ \A o \in reload'[q].next \ reload'[q].staged :
                   (o.by = 0 \/ (o.by \in Reloads /\ reload[o.by].pc = "done"))'
             /\ reload'[q].pc \in {"idle", "loading"} => reload'[q].next = {}
             /\ reload'[q].pc = "staging" => Replaces(q)'
             /\ InFlight(q)' /\ ~Replaces(q)' => reload'[q].staged = {}
  <2>1. reload'[q] = reload[q]
    BY <1>0 DEF Moves
  <2>2. (Replaces(q)' <=> Replaces(q)) /\ (InFlight(q)' <=> InFlight(q))
    BY <2>1 DEF Replaces, InFlight
  <2> QED BY <1>1, <1>3, <2>1, <2>2 DEF StagedIsOwn
<1>7. /\ \A o \in reload'[r].staged : o.by = r /\ o \in reload'[r].next
      /\ \A o \in reload'[r].next \ reload'[r].staged :
            (o.by = 0 \/ (o.by \in Reloads /\ reload[o.by].pc = "done"))'
      /\ reload'[r].pc \in {"idle", "loading"} => reload'[r].next = {}
      /\ reload'[r].pc = "staging" => Replaces(r)'
      /\ InFlight(r)' /\ ~Replaces(r)' => reload'[r].staged = {}
  <2>0. reload[r] \in ReloadRecord /\ reload \in [Reloads -> ReloadRecord]
    BY <1>0, RecordFacts DEF LegacyTypes
  <2>1. CASE Enter(r)
    <3> DEFINE changes == inboundConfigsChanged(config, reload[r].loaded)
    <3>1. reload[r].next = {} /\ reload[r].staged = {}
      BY <1>1, <2>1 DEF StagedIsOwn, Enter
    <3>2. reload'[r].next = {} /\ reload'[r].staged = {}
      BY <2>0, <2>1, <3>1 DEF Enter, ReloadRecord
    <3>3. reload'[r].pc = (IF changes THEN "staging" ELSE "publish") /\ reload'[r].previous = config
          /\ reload'[r].loaded = reload[r].loaded
      BY <2>0, <2>1 DEF Enter, ReloadRecord
    <3>4. Replaces(r)' <=> changes
      BY <3>3 DEF Replaces, inboundConfigsChanged
    <3> HIDE DEF changes
    <3> QED BY <3>2, <3>3, <3>4
  <2>2. CASE StageListener(r)
    <3> DEFINE o == Build(Config[reload[r].loaded].inbounds[NextNew(r)], r)
               reused == ReusedUpTo(r, NextNew(r))
    <3>1. /\ reload'[r].next = reload[r].next \cup reused \cup {o}
          /\ reload'[r].staged = reload[r].staged \cup {o}
          /\ reload'[r].pc = "staging" /\ reload[r].pc = "staging"
          /\ reload'[r].previous = reload[r].previous /\ reload'[r].loaded = reload[r].loaded
      BY <2>0, <2>2 DEF StageListener, ReloadRecord
    <3>2. o.by = r
      BY DEF Build
    <3>3. reused \subseteq inbounds
      BY DEF ReusedUpTo
    <3>4. Replaces(r) /\ Replaces(r)'
      BY <1>1, <3>1 DEF StagedIsOwn, Replaces
    <3> HIDE DEF o, reused
    <3> QED BY <1>1, <1>3, <3>1, <3>2, <3>3, <3>4 DEF StagedIsOwn, InboundsAreDone
  <2>3. CASE DrainOld(r)
    <3> DEFINE reused == ReusedUpTo(r, NextNew(r))
    <3>1. /\ reload'[r].next = reload[r].next \cup reused /\ reload'[r].staged = reload[r].staged
          /\ reload'[r].pc = "publish" /\ reload[r].pc = "staging"
          /\ reload'[r].previous = reload[r].previous /\ reload'[r].loaded = reload[r].loaded
      BY <2>0, <2>3 DEF DrainOld, ReloadRecord
    <3>2. reused \subseteq inbounds
      BY DEF ReusedUpTo
    <3>3. Replaces(r) /\ Replaces(r)'
      BY <1>1, <3>1 DEF StagedIsOwn, Replaces
    <3> HIDE DEF reused
    <3> QED BY <1>1, <1>3, <3>1, <3>2, <3>3 DEF StagedIsOwn, InboundsAreDone
  <2>4. CASE ~Enter(r) /\ ~StageListener(r) /\ ~DrainOld(r)
    <3>1. /\ reload'[r].next = reload[r].next /\ reload'[r].staged = reload[r].staged
          /\ reload'[r].previous = reload[r].previous /\ reload'[r].loaded = reload[r].loaded
      BY <1>0, <2>4 DEF Touches, Moves
    <3>2. Replaces(r)' <=> Replaces(r)
      BY <3>1 DEF Replaces
    <3>3. /\ reload'[r].pc \notin {"idle", "loading"} /\ (InFlight(r)' => InFlight(r))
          /\ reload'[r].pc = "staging" => reload[r].pc = "staging"
      BY <1>0, <2>4 DEF Applies, InFlight, Ended
    <3> QED BY <1>1, <1>3, <3>1, <3>2, <3>3 DEF StagedIsOwn
  <2> QED BY <2>1, <2>2, <2>3, <2>4
<1>8. StagedIsOwn'
  BY <1>6, <1>7 DEF StagedIsOwn
<1> QED BY <1>4, <1>5, <1>8

\* Where a step of a reload leaves it.
Lands(r) ==
  /\ StageFails(r) \/ LoadFails(r) => reload'[r].pc = "rejected"
  /\ Rebuild(r) => reload'[r].pc = "done"
  /\ reload'[r].pc = "closing" => EndpointStop(r)
  /\ reload'[r].pc = "rejected" => LoadFails(r) \/ StageFails(r)
  /\ reload'[r].pc = "done" => Rebuild(r)
  /\ reload[r].pc = "staging" => StageListener(r) \/ StageFails(r) \/ DrainOld(r)

LEMMA ReloadLands ==
  ASSUME LegacyTypes, NEW r \in Reloads, ReloadStep(r)
  PROVE  Lands(r)
<1>0. reload[r] \in ReloadRecord /\ reload \in [Reloads -> ReloadRecord]
  BY RecordFacts DEF LegacyTypes
<1>1. LoadFails(r) => reload[r].pc = "loading" /\ reload'[r].pc = "rejected"
  BY <1>0 DEF LoadFails, ReloadRecord
<1>2. Enter(r) => reload[r].pc = "loading" /\ reload'[r].pc \in {"staging", "publish"}
  BY <1>0 DEF Enter, ReloadRecord
<1>3. StageListener(r) => reload'[r].pc = "staging"
  BY <1>0 DEF StageListener, ReloadRecord
<1>4. StageFails(r) => reload'[r].pc = "rejected"
  BY <1>0 DEF StageFails, ReloadRecord
<1>5. DrainOld(r) => reload'[r].pc = "publish"
  BY <1>0 DEF DrainOld, ReloadRecord
<1>6. Publish(r) => reload[r].pc = "publish" /\ reload'[r].pc = "endpoints"
  BY <1>0 DEF Publish, ReloadRecord
<1>7. EndpointStop(r) => reload[r].pc = "endpoints" /\ reload'[r].pc = "closing"
  BY <1>0 DEF EndpointStop, ReloadRecord
<1>8. EndpointStart(r) => reload[r].pc = "closing" /\ reload'[r].pc \in {"endpoints", "partial"}
  <2> SUFFICES ASSUME EndpointStart(r)
               PROVE  reload[r].pc = "closing" /\ reload'[r].pc \in {"endpoints", "partial"}
    OBVIOUS
  <2>1. \/ reload' = [reload EXCEPT ![r].pc = "endpoints", ![r].todo = Tail(@)]
        \/ reload' = [reload EXCEPT ![r].pc = "partial"]
    BY DEF EndpointStart
  <2>2. reload[r].pc = "closing"
    BY DEF EndpointStart
  <2> QED BY <1>0, <2>1, <2>2 DEF ReloadRecord
<1>9. PluginsFail(r) => reload[r].pc = "endpoints" /\ reload'[r].pc = "partial"
  BY <1>0 DEF PluginsFail, ReloadRecord
<1>10. RetireOutbounds(r) => reload[r].pc = "endpoints" /\ reload'[r].pc = "rebuild"
  BY <1>0 DEF RetireOutbounds, ReloadRecord
<1>11. RebuildFails(r) => reload[r].pc = "rebuild" /\ reload'[r].pc = "partial"
  BY <1>0 DEF RebuildFails, ReloadRecord
<1>12. Rebuild(r) => reload[r].pc = "rebuild" /\ reload'[r].pc = "done"
  <2> SUFFICES ASSUME Rebuild(r) PROVE reload[r].pc = "rebuild" /\ reload'[r].pc = "done"
    OBVIOUS
  <2>1. reload' = [reload EXCEPT ![r].pc = "done"]
    BY DEF Rebuild
  <2>2. reload[r].pc = "rebuild"
    BY DEF Rebuild
  <2> QED BY <1>0, <2>1, <2>2 DEF ReloadRecord
<1> QED BY <1>1, <1>2, <1>3, <1>4, <1>5, <1>6, <1>7, <1>8, <1>9, <1>10, <1>11, <1>12
        DEF Lands, ReloadStep

\* What a reload that is applied will not take over is closed, unless another
\* one was applied with it.
Taken(r, o) ==
  \/ o.by \in overlapped
  \/ /\ (reload[r].pc = "staging" /\ \E p \in reload[r].next \ reload[r].staged : p.tag = o.tag)
           => o \in reload[r].next
     /\ (reload[r].pc \in {"publish", "endpoints", "closing", "rebuild"} /\ Replaces(r))
           => o \in reload[r].next

LEMMA TakenMeaning == DropsAreClosed <=> \A r \in Reloads : \A o \in inbounds \cap open : Taken(r, o)
BY DEF DropsAreClosed, Taken

\* The listeners a reload has found reusable when it stages or drains.
LEMMA StagedTaken ==
  ASSUME OpenInv, NEW r \in Reloads, ReloadStep(r), NEW o \in inbounds \cap open, o \in open',
         Taken(r, o), inbounds' = inbounds
  PROVE  Taken(r, o)'
<1>0. LegacyTypes /\ Moves(r) /\ Applies(r) /\ Touches(r) /\ Lands(r)
  BY ReloadMoves, ReloadTouches, ReloadLands DEF OpenInv
<1>00. reload[r] \in ReloadRecord /\ reload \in [Reloads -> ReloadRecord]
  BY <1>0, RecordFacts DEF LegacyTypes
<1> DEFINE reused == ReusedUpTo(r, NextNew(r))
<1>1. \A p \in reused : p.tag = o.tag => o \in reused
  BY DEF ReusedUpTo
<1>2. CASE o.by \in overlapped
  BY <1>0, <1>2 DEF Taken, Touches
<1>3. CASE o.by \notin overlapped /\ Enter(r)
  <2> DEFINE changes == inboundConfigsChanged(config, reload[r].loaded)
  <2>1. reload[r].next = {}
    BY <1>3 DEF OpenInv, StagedIsOwn, Enter
  <2>2. reload'[r].next = {}
    BY <1>00, <1>3, <2>1 DEF Enter, ReloadRecord
  <2>3. reload'[r].pc = (IF changes THEN "staging" ELSE "publish") /\ reload'[r].previous = config
        /\ reload'[r].loaded = reload[r].loaded
    BY <1>00, <1>3 DEF Enter, ReloadRecord
  <2>4. Replaces(r)' <=> changes
    BY <2>3 DEF Replaces, inboundConfigsChanged
  <2> HIDE DEF changes
  <2> QED BY <2>2, <2>3, <2>4 DEF Taken
<1>4. CASE o.by \notin overlapped /\ StageListener(r)
  <2> DEFINE new == Build(Config[reload[r].loaded].inbounds[NextNew(r)], r)
  <2>1. /\ reload'[r].next = reload[r].next \cup reused \cup {new}
        /\ reload'[r].staged = reload[r].staged \cup {new}
        /\ reload'[r].pc = "staging" /\ reload[r].pc = "staging"
    BY <1>00, <1>4 DEF StageListener, ReloadRecord
  <2> HIDE DEF new, reused
  <2>2. ASSUME NEW p \in reload'[r].next \ reload'[r].staged, p.tag = o.tag
        PROVE  o \in reload'[r].next
    <3>1. CASE p \in reused
      BY <1>1, <2>1, <2>2, <3>1
    <3>2. CASE p \in reload[r].next \ reload[r].staged
      <4>1. o \in reload[r].next
        BY <1>4, <2>1, <2>2, <3>2 DEF Taken
      <4> QED BY <2>1, <4>1
    <3> QED BY <2>1, <2>2, <3>1, <3>2
  <2> QED BY <2>1, <2>2 DEF Taken
<1>5. CASE o.by \notin overlapped /\ DrainOld(r)
  <2>1. /\ reload'[r].next = reload[r].next \cup reused /\ reload'[r].pc = "publish"
        /\ reload[r].pc = "staging"
    BY <1>00, <1>5 DEF DrainOld, ReloadRecord
  <2>2. PICK p \in (reload[r].next \cup reused) \ reload[r].staged : p.tag = o.tag
    <3> DEFINE kept == reload[r].next \cup reused
               tags == {q.tag : q \in kept \ reload[r].staged}
    <3>1. open' = open \ {q \in inbounds : q.tag \notin tags}
      BY <1>5 DEF DrainOld
    <3>2. o.tag \in tags
      BY <3>1
    <3> QED BY <3>2
  <2> HIDE DEF reused
  <2>3. o \in reload'[r].next
    <3>1. CASE p \in reused
      BY <1>1, <2>1, <2>2, <3>1
    <3>2. CASE p \in reload[r].next \ reload[r].staged
      <4>1. o \in reload[r].next
        BY <1>5, <2>1, <2>2, <3>2 DEF Taken
      <4> QED BY <2>1, <4>1
    <3> QED BY <2>2, <3>1, <3>2
  <2> QED BY <2>1, <2>3 DEF Taken
<1>6. CASE o.by \notin overlapped /\ ~Enter(r) /\ ~StageListener(r) /\ ~DrainOld(r)
  <2>1. /\ reload'[r].next = reload[r].next /\ reload'[r].staged = reload[r].staged
        /\ reload'[r].previous = reload[r].previous /\ reload'[r].loaded = reload[r].loaded
    BY <1>0, <1>6 DEF Touches, Moves
  <2>2. Replaces(r)' <=> Replaces(r)
    BY <2>1 DEF Replaces
  <2>3. /\ reload'[r].pc # "staging"
        /\ reload'[r].pc \in {"publish", "endpoints", "closing", "rebuild"} =>
             reload[r].pc \in {"publish", "endpoints", "closing", "rebuild"}
    BY <1>0, <1>6 DEF Applies, Lands
  <2> QED BY <1>6, <2>1, <2>2, <2>3 DEF Taken
<1> QED BY <1>2, <1>3, <1>4, <1>5, <1>6

LEMMA ReloadKeepsService ==
  ASSUME OpenInv, NEW r \in Reloads, ReloadStep(r)
  PROVE  DropsAreClosed' /\ ReusedInService' /\ ReplacedIsClosed'
<1>0. LegacyTypes /\ Moves(r) /\ Applies(r) /\ Touches(r) /\ Serves(r) /\ Lands(r)
  BY ReloadMoves, ReloadTouches, ReloadServes, ReloadLands DEF OpenInv
<1>00. reload[r] \in ReloadRecord /\ reload \in [Reloads -> ReloadRecord]
  BY <1>0, RecordFacts DEF LegacyTypes
<1>1. /\ \A o \in inbounds : o.by # r
      /\ \A q \in Reloads : \A o \in reload[q].next \ reload[q].staged : o.by # r
      /\ \A q \in Reloads \ {r} : Applying(q) /\ Applying(r) => r \in overlapped /\ q \in overlapped
  BY ReloadKeepsOrigin, ReloadKeepsCause
<1>2. \A o \in open' : o.by # r => o \in open
  BY <1>0 DEF Touches
<1>3. overlapped \subseteq overlapped'
  BY <1>0 DEF Touches
<1>4. \A q \in Reloads : \A o \in inbounds \cap open : Taken(q, o)
  BY TakenMeaning DEF OpenInv
<1>5. \A q \in Reloads \ {r} : \A o : Taken(q, o) => Taken(q, o)'
  <2> TAKE q \in Reloads \ {r}
  <2>1. reload'[q] = reload[q]
    BY <1>0 DEF Moves
  <2>2. Replaces(q)' <=> Replaces(q)
    BY <2>1 DEF Replaces
  <2> QED BY <1>3, <2>1, <2>2 DEF Taken
<1>6. ASSUME Rebuild(r) PROVE Applying(r) /\ open' = open
  BY <1>6 DEF Rebuild, Applying, InFlight, Ended
<1>7. DropsAreClosed'
  <2> SUFFICES ASSUME NEW q \in Reloads, NEW o \in inbounds' \cap open' PROVE Taken(q, o)'
    BY TakenMeaning DEF DropsAreClosed, Taken
  <2>1. CASE inbounds' = inbounds
    <3>1. o \in inbounds \cap open
      BY <1>1, <1>2, <2>1
    <3>2. CASE q = r
      BY <1>4, <2>1, <3>1, <3>2, StagedTaken
    <3>3. CASE q # r
      BY <1>4, <1>5, <3>1, <3>3
    <3> QED BY <3>2, <3>3
  <2>2. CASE Rebuild(r) /\ Replaces(r) /\ inbounds' = reload[r].next
    <3>1. CASE q = r
      <4>1. reload'[r].pc = "done"
        BY <1>0, <2>2 DEF Lands
      <4> QED BY <3>1, <4>1 DEF Taken
    <3>2. CASE q # r /\ ~Applying(q)
      <4>1. reload'[q].pc = reload[q].pc
        BY <1>0, <3>2 DEF Moves
      <4> QED BY <3>2, <4>1 DEF Taken, Applying, InFlight, Ended
    <3>3. CASE q # r /\ Applying(q)
      <4>1. r \in overlapped
        BY <1>1, <1>6, <2>2, <3>3
      <4>2. CASE o \in reload[r].staged
        <5>1. o.by = r
          BY <4>2 DEF OpenInv, StagedIsOwn
        <5> QED BY <1>3, <4>1, <5>1 DEF Taken
      <4>3. CASE o \notin reload[r].staged
        <5>1. o \in inbounds \/ o.by \in overlapped
          BY <1>6, <2>2, <4>3 DEF OpenInv, ReusedInService
        <5>2. CASE o.by \in overlapped
          BY <1>3, <5>2 DEF Taken
        <5>3. CASE o \in inbounds
          BY <1>4, <1>5, <1>6, <2>2, <3>3, <5>3
        <5> QED BY <5>1, <5>2, <5>3
      <4> QED BY <4>2, <4>3
    <3> QED BY <3>1, <3>2, <3>3
  <2> QED BY <1>0, <2>1, <2>2 DEF Serves
<1>8. ReusedInService'
  <2> SUFFICES ASSUME NEW q \in Reloads, Applying(q)',
                      NEW o \in (reload'[q].next \ reload'[q].staged) \cap open'
               PROVE  o \in inbounds' \/ o.by \in overlapped'
    BY DEF ReusedInService
  <2>1. CASE q # r
    <3>1. reload'[q] = reload[q] /\ Applying(q)
      BY <1>0, <2>1 DEF Moves, Applying, InFlight
    <3>2. o \in open
      BY <1>1, <1>2, <3>1
    <3>3. o \in inbounds \/ o.by \in overlapped
      BY <3>1, <3>2 DEF OpenInv, ReusedInService
    <3>4. CASE inbounds' = inbounds
      BY <1>3, <3>3, <3>4
    <3>5. CASE Rebuild(r) /\ Replaces(r) /\ inbounds' = reload[r].next
      <4>1. o \in inbounds => o.by \in overlapped \/ o \in reload[r].next
        BY <1>4, <3>2, <3>5 DEF Taken, Rebuild
      <4> QED BY <1>3, <3>3, <3>5, <4>1
    <3> QED BY <1>0, <3>4, <3>5 DEF Serves
  <2>2. CASE q = r
    <3>1. inbounds' = inbounds
      BY <1>0, <2>2 DEF Serves, Lands, Applying, InFlight, Ended
    <3>2. CASE Enter(r)
      <4>1. reload[r].next = {}
        BY <3>2 DEF OpenInv, StagedIsOwn, Enter
      <4>2. reload'[r].next = {}
        BY <1>00, <3>2, <4>1 DEF Enter, ReloadRecord
      <4> QED BY <2>2, <4>2
    <3>3. CASE ~Enter(r)
      <4>1. Applying(r)
        BY <1>0, <2>2, <3>3 DEF Applies, Applying, InFlight, Ended
      <4>2. o \in reload[r].next \ reload[r].staged \/ o \in inbounds
        <5>1. CASE StageListener(r)
          <6> DEFINE new == Build(Config[reload[r].loaded].inbounds[NextNew(r)], r)
          <6>1. /\ reload'[r].next = reload[r].next \cup ReusedUpTo(r, NextNew(r)) \cup {new}
                /\ reload'[r].staged = reload[r].staged \cup {new}
            BY <1>00, <5>1 DEF StageListener, ReloadRecord
          <6> HIDE DEF new
          <6> QED BY <2>2, <6>1 DEF ReusedUpTo
        <5>2. CASE DrainOld(r)
          <6>1. /\ reload'[r].next = reload[r].next \cup ReusedUpTo(r, NextNew(r))
                /\ reload'[r].staged = reload[r].staged
            BY <1>00, <5>2 DEF DrainOld, ReloadRecord
          <6> QED BY <2>2, <6>1 DEF ReusedUpTo
        <5>3. CASE ~StageListener(r) /\ ~DrainOld(r)
          BY <1>0, <2>2, <5>3 DEF Touches
        <5> QED BY <5>1, <5>2, <5>3
      <4>3. CASE o \in inbounds
        BY <3>1, <4>3
      <4>4. CASE o \in reload[r].next \ reload[r].staged
        <5>1. o \in open
          BY <1>1, <1>2, <4>4
        <5> QED BY <1>3, <3>1, <4>1, <4>4, <5>1 DEF OpenInv, ReusedInService
      <4> QED BY <4>2, <4>3, <4>4
    <3> QED BY <3>2, <3>3
  <2> QED BY <2>1, <2>2
<1>9. ReplacedIsClosed'
  <2> SUFFICES ASSUME NEW q \in Reloads, reload'[q].pc = "closing",
                      servers'[Head(reload'[q].todo)] \in open'
               PROVE  servers'[Head(reload'[q].todo)].by \in overlapped'
    BY DEF ReplacedIsClosed
  <2>1. CASE q = r
    <3>1. EndpointStop(r)
      BY <1>0, <2>1 DEF Lands
    <3>2. reload'[r].todo = reload[r].todo
      BY <1>00, <3>1 DEF EndpointStop, ReloadRecord
    <3> QED BY <2>1, <3>1, <3>2 DEF EndpointStop, engineVars
  <2>2. CASE q # r
    <3> DEFINE e == Head(reload[q].todo)
    <3>1. reload'[q] = reload[q]
      BY <1>0, <2>2 DEF Moves
    <3>2. e \in Names
      BY <1>0, <3>1, RecordFacts DEF LegacyTypes
    <3>3. CASE servers'[e] = servers[e] /\ servers[e] \in open
      BY <1>3, <3>1, <3>3 DEF OpenInv, ReplacedIsClosed
    <3>4. CASE ~(servers'[e] = servers[e] /\ servers[e] \in open)
      <4>1. servers'[e].by = r /\ reload[r].pc \in {"staging", "closing"}
        BY <1>0, <3>1, <3>2, <3>4 DEF Touches
      <4>2. Applying(r) /\ Applying(q)
        BY <3>1, <4>1 DEF Applying, InFlight, Ended
      <4> QED BY <1>1, <1>3, <2>2, <3>1, <4>1, <4>2
    <3> QED BY <3>3, <3>4
  <2> QED BY <2>1, <2>2
<1> QED BY <1>7, <1>8, <1>9

LEMMA ReloadKeepsOwners ==
  ASSUME OpenInv, NEW r \in Reloads, ReloadStep(r)
  PROVE  StoppedIsClosed' /\ StrayHasCause'
<1>0. LegacyTypes /\ Moves(r) /\ Applies(r) /\ Touches(r) /\ Serves(r) /\ Lands(r)
  BY ReloadMoves, ReloadTouches, ReloadServes, ReloadLands DEF OpenInv
<1>00. reload[r] \in ReloadRecord /\ reload \in [Reloads -> ReloadRecord]
  BY <1>0, RecordFacts DEF LegacyTypes
<1>1. (\A o : Caused(o) => Caused(o)') /\ (~Early => r \in unfinished)
  BY ReloadKeepsCause
<1>2. life' = life /\ (Early' <=> Early)
  BY <1>0 DEF Moves, Early
<1>3. \A o : ~Early /\ o.by = r => Caused(o)'
  BY <1>0, <1>1 DEF Caused, Touches
<1>4. \A o \in open' : o \in open \/ o.by = r
  BY <1>0 DEF Touches
<1>5. StoppedIsClosed'
  <2>1. ASSUME NEW e \in Names, ~Early, servers'[e] \in open', servers[e] \in open => Caused(servers[e])
        PROVE  Caused(servers[e])'
    <3>1. CASE servers'[e] = servers[e] /\ servers[e] \in open
      <4>1. Caused(servers[e])
        BY <2>1, <3>1
      <4>2. \A o : Caused(o) /\ o = servers'[e] => Caused(servers[e])'
        BY <1>1 DEF Caused
      <4> QED BY <3>1, <4>1, <4>2
    <3>2. CASE ~(servers'[e] = servers[e] /\ servers[e] \in open)
      <4>1. servers'[e].by = r
        BY <1>0, <2>1, <3>2 DEF Touches
      <4>2. \A o : ~Early /\ o.by = r /\ o = servers'[e] => Caused(servers[e])'
        BY <1>3 DEF Caused
      <4> QED BY <2>1, <4>1, <4>2
    <3> QED BY <3>1, <3>2
  <2>2. ~Early' /\ servers'["dashboard"] \in open' => Caused(servers["dashboard"])'
    BY <1>2, <2>1 DEF OpenInv, StoppedIsClosed, Names
  <2>3. ~Early' /\ life' # "stopping" /\ servers'["metrics"] \in open' => Caused(servers["metrics"])'
    BY <1>2, <2>1 DEF OpenInv, StoppedIsClosed, Names
  <2>4. life' \in {"services stopping", "stopped", "failed"} => \A o \in open' : Caused(o)'
    BY <1>1, <1>2, <1>3, <1>4 DEF OpenInv, StoppedIsClosed, Early
  <2> QED BY <2>2, <2>3, <2>4 DEF StoppedIsClosed, Caused
<1>6. ASSUME NEW o \in open', ~Caused(o)'
      PROVE  life' \notin {"stopped", "failed"} /\ Owned(o)'
  <2>0. ~Caused(o)
    BY <1>1, <1>6
  <2>1. o.by \notin overlapped
    BY <2>0 DEF Caused
  <2>2. CASE o \notin open
    <3>1. o.by = r /\ Early
      BY <1>3, <1>4, <1>6, <2>2
    <3>2. (o \in reload'[r].staged /\ InFlight(r)') \/ \E e \in Names : o = servers'[e]
      BY <1>0, <2>2 DEF Touches
    <3>3. Owned(o)'
      BY <3>2, EndpointNames DEF Owned
    <3> QED BY <1>2, <3>1, <3>3 DEF Early
  <2>3. CASE o \in open
    <3>1. life \notin {"stopped", "failed"} /\ Owned(o)
      BY <2>0, <2>3 DEF OpenInv, StrayHasCause, Caused
    <3>2. ASSUME NEW q \in Reloads, InFlight(q), o \in reload[q].staged
          PROVE  Owned(o)'
      <4>1. CASE q # r
        <5>1. reload'[q] = reload[q]
          BY <1>0, <4>1 DEF Moves
        <5> QED BY <3>2, <5>1 DEF Owned, InFlight
      <4>2. CASE q = r /\ InFlight(r)'
        <5>1. reload[r].staged \subseteq reload'[r].staged
          <6>1. StageListener(r) => reload[r].staged \subseteq reload'[r].staged
            <7> DEFINE new == Build(Config[reload[r].loaded].inbounds[NextNew(r)], r)
            <7>1. StageListener(r) => reload'[r].staged = reload[r].staged \cup {new}
              BY <1>00 DEF StageListener, ReloadRecord
            <7> QED BY <7>1
          <6>2. DrainOld(r) => reload'[r].staged = reload[r].staged
            BY <1>00 DEF DrainOld, ReloadRecord
          <6> QED BY <1>0, <6>1, <6>2 DEF Touches
        <5> QED BY <3>2, <4>2, <5>1 DEF Owned
      <4>3. CASE q = r /\ ~InFlight(r)'
        <5>1. o.by = r /\ o \in reload[r].next
          BY <3>2, <4>3 DEF OpenInv, StagedIsOwn
        <5>2. reload'[r].pc \in {"rejected", "done", "partial"}
          BY <1>0, <4>3 DEF Applies, InFlight, Ended
        <5>3. CASE reload'[r].pc = "partial"
          BY <1>6, <5>1, <5>3 DEF Caused, Failed
        <5>4. CASE reload'[r].pc = "rejected"
          <6>1. CASE LoadFails(r)
            <7>1. reload[r].next = {}
              BY <6>1 DEF OpenInv, StagedIsOwn, LoadFails
            <7> QED BY <5>1, <7>1
          <6>2. CASE StageFails(r)
            BY <1>6, <3>2, <4>3, <6>2 DEF StageFails, RolledBack
          <6> QED BY <1>0, <5>4, <6>1, <6>2 DEF Lands
        <5>5. CASE reload'[r].pc = "done"
          <6>1. Rebuild(r)
            BY <1>0, <5>5 DEF Lands
          <6>2. Replaces(r)
            BY <3>2, <4>3 DEF OpenInv, StagedIsOwn
          <6>3. inbounds' = reload[r].next /\ reload[r].next \subseteq services'
            BY <6>1, <6>2 DEF Rebuild
          <6> QED BY <5>1, <6>3 DEF Owned
        <5> QED BY <5>2, <5>3, <5>4, <5>5
      <4> QED BY <4>1, <4>2, <4>3
    <3>3. ASSUME o \in inbounds, o \in services
          PROVE  Owned(o)'
      <4>1. CASE inbounds' = inbounds /\ inbounds \cap services \subseteq services'
        BY <3>3, <4>1 DEF Owned
      <4>2. CASE Rebuild(r) /\ Replaces(r) /\ inbounds' = reload[r].next /\ inbounds' \subseteq services'
        <5>1. o \in reload[r].next
          BY <2>1, <2>3, <3>3, <4>2 DEF OpenInv, DropsAreClosed, Rebuild
        <5> QED BY <4>2, <5>1 DEF Owned
      <4> QED BY <1>0, <4>1, <4>2 DEF Serves
    <3>4. ASSUME NEW e \in Names, o = servers[e]
          PROVE  Owned(o)'
      <4>1. CASE servers'[e] = servers[e]
        BY <3>4, <4>1, EndpointNames DEF Owned
      <4>2. CASE servers'[e] # servers[e]
        <5>1. reload[r].pc = "closing" /\ e = Head(reload[r].todo)
          BY <1>0, <4>2 DEF Touches
        <5> QED BY <2>1, <2>3, <3>4, <5>1 DEF OpenInv, ReplacedIsClosed
      <4> QED BY <4>1, <4>2
    <3> QED BY <1>2, <3>1, <3>2, <3>3, <3>4, EndpointNames DEF Owned
  <2> QED BY <2>2, <2>3
<1>7. StrayHasCause'
  BY <1>6 DEF StrayHasCause, Caused
<1> QED BY <1>5, <1>7

LEMMA ReloadKeepsOpen ==
  ASSUME OpenInv, NEW r \in Reloads, ReloadStep(r)
  PROVE  OpenInv'
<1>1. LegacyTypes'
  BY ReloadTypes DEF OpenInv
<1>2. StopsMeetReloads' /\ ToStartOwned' /\ OverlapKnown'
  BY ReloadKeepsCause
<1>3. StagedIsOwn' /\ InboundsAreDone'
  BY ReloadKeepsOrigin
<1>4. DropsAreClosed' /\ ReusedInService' /\ ReplacedIsClosed'
  BY ReloadKeepsService
<1>5. StoppedIsClosed' /\ StrayHasCause'
  BY ReloadKeepsOwners
<1> QED BY <1>1, <1>2, <1>3, <1>4, <1>5 DEF OpenInv

\* A reload that begins has nothing yet.
LEMMA BeginKeepsOpen ==
  ASSUME OpenInv, NEW r \in Reloads, WatcherReload(r) \/ DashboardReload(r)
  PROVE  OpenInv'
<1>0. LegacyTypes /\ LegacyTypes'
  BY ReloadTypes DEF OpenInv
<1>1. /\ reload[r].pc = "idle" /\ life' = life /\ unfinished' = unfinished /\ toStart' = toStart
      /\ inbounds' = inbounds /\ services' = services /\ servers' = servers /\ open' = open
      /\ overlapped' = overlapped
      /\ life = "running" \/ timer
  BY DEF WatcherReload, DashboardReload, Begin, lifeVars, engineVars
<1>2. /\ reload'[r].pc = "loading" /\ reload'[r].next = {} /\ reload'[r].staged = {}
      /\ \A q \in Reloads \ {r} : reload'[q] = reload[q]
  <2>1. PICK c, s : Begin(r, c, s)
    BY DEF WatcherReload, DashboardReload
  <2>2. reload' = [reload EXCEPT ![r] = [Idle EXCEPT !.pc = "loading", !.caller = c, !.via = s,
                                                    !.loaded = disk]]
    BY <2>1 DEF Begin
  <2> QED BY <1>0, <2>2 DEF Idle, LegacyTypes
<1>3. Early' <=> Early
  BY <1>1 DEF Early
<1>4. \A q \in Reloads : /\ Applying(q)' <=> Applying(q)
                         /\ Failed(q)' <=> Failed(q)
                         /\ reload'[q].pc = "done" <=> reload[q].pc = "done"
                         /\ (InFlight(q) \/ reload[q].pc = "idle")' <=> InFlight(q) \/ reload[q].pc = "idle"
  BY <1>1, <1>2 DEF Applying, InFlight, Ended, Failed
<1>5. \A o : Caused(o)' <=> Caused(o)
  BY <1>1, <1>4 DEF Caused
<1>6. \A q \in Reloads \ {r} : Replaces(q)' <=> Replaces(q)
  BY <1>2 DEF Replaces
<1>7. life \notin {"off", "starting"} /\ (~Early => ~Dormant)
  BY <1>1 DEF OpenInv, StopsMeetReloads, Dormant, Early
<1>8. StopsMeetReloads'
  BY <1>1, <1>3, <1>4, <1>7 DEF OpenInv, StopsMeetReloads
<1>9. ToStartOwned'
  BY <1>1, <1>7 DEF ToStartOwned
<1>10. OverlapKnown'
  BY <1>1, <1>4 DEF OpenInv, OverlapKnown
<1>11. StagedIsOwn'
  <2> SUFFICES ASSUME NEW q \in Reloads
               PROVE  /\ \A o \in reload'[q].staged : o.by = q /\ o \in reload'[q].next
                      /\ \A o \in reload'[q].next \ reload'[q].staged :
                            o.by = 0 \/ (o.by \in Reloads /\ reload'[o.by].pc = "done")
                      /\ reload'[q].pc \in {"idle", "loading"} => reload'[q].next = {}
                      /\ reload'[q].pc = "staging" => Replaces(q)'
                      /\ InFlight(q)' /\ ~Replaces(q)' => reload'[q].staged = {}
    BY DEF StagedIsOwn
  <2>1. CASE q = r
    BY <1>2, <2>1
  <2>2. CASE q # r
    BY <1>2, <1>4, <1>6, <2>2 DEF OpenInv, StagedIsOwn, InFlight
  <2> QED BY <2>1, <2>2
<1>12. InboundsAreDone'
  BY <1>1, <1>4 DEF OpenInv, InboundsAreDone
<1>13. DropsAreClosed'
  BY <1>1, <1>2, <1>6 DEF OpenInv, DropsAreClosed
<1>14. ReusedInService'
  BY <1>1, <1>2, <1>4 DEF OpenInv, ReusedInService
<1>15. ReplacedIsClosed'
  BY <1>1, <1>2 DEF OpenInv, ReplacedIsClosed
<1>16. StoppedIsClosed'
  BY <1>1, <1>3, <1>5 DEF OpenInv, StoppedIsClosed
<1>17. StrayHasCause'
  <2>1. \A o : Owned(o) => Owned(o)'
    BY <1>1, <1>2 DEF Owned, InFlight, Ended
  <2> QED BY <1>1, <1>5, <2>1 DEF OpenInv, StrayHasCause, Caused
<1> QED BY <1>0, <1>8, <1>9, <1>10, <1>11, <1>12, <1>13, <1>14, <1>15, <1>16, <1>17 DEF OpenInv

\* Starting, stopping, editing and the debounce.
LifeStep == StartStep \/ Edit \/ scheduleReload \/ Signal \/ StopStep \/ UNCHANGED vars

LEMMA LifeKeepsPlan ==
  ASSUME OpenInv, LifeStep
  PROVE  /\ reload' = reload /\ overlapped' = overlapped /\ servers' = servers
         /\ (inbounds' = inbounds /\ open' \subseteq open) \/ life \in {"off", "starting"}
         /\ StopsMeetReloads' /\ ToStartOwned'
         /\ \A o : Caused(o) => Caused(o)'
<1> USE DEF hotVars, lifeVars, engineVars
<1>1. reload' = reload /\ overlapped' = overlapped /\ servers' = servers
  BY DEF LifeStep, StartStep, buildComponents, StartNext, StartRefused, Started, Edit, scheduleReload,
         Signal, StopStep, StopEndpoints, StopOutbounds, StopServices, StopFinished, StopTimedOut, vars
<1>2. (inbounds' = inbounds /\ open' \subseteq open) \/ life \in {"off", "starting"}
  BY DEF LifeStep, StartStep, buildComponents, StartNext, StartRefused, Started, Edit, scheduleReload,
         Signal, StopStep, StopEndpoints, StopOutbounds, StopServices, StopFinished, StopTimedOut, vars
<1>3. StopsMeetReloads /\ LegacyTypes /\ ToStartOwned
  BY DEF OpenInv
<1>4. \A r \in Reloads : InFlight(r)' <=> InFlight(r)
  BY <1>1 DEF InFlight
<1>5. StopsMeetReloads'
  <2>1. CASE buildComponents \/ StartNext \/ StartRefused \/ Started
    <3>1. life \in {"off", "starting"} /\ life' \in {"starting", "stopping", "running"}
          /\ (life' # "running" => watching' = watching) /\ event' = event /\ timer' = timer
          /\ unfinished' = unfinished
      BY <2>1 DEF buildComponents, StartNext, StartRefused, Started
    <3>2. life' # "running" => Dormant'
      BY <1>1, <1>3, <3>1 DEF StopsMeetReloads, Dormant
    <3>3. unfinished' = {}
      BY <1>3, <3>1 DEF StopsMeetReloads, Early
    <3> QED BY <3>1, <3>2, <3>3 DEF StopsMeetReloads, Early
  <2>2. CASE Edit
    <3>1. life' = life /\ life # "off" /\ unfinished' = unfinished /\ timer' = timer
          /\ watching' = watching /\ event' = (event \/ EditPath[disk + 1] \in watching)
      BY <2>2 DEF Edit
    <3>2. Dormant => Dormant'
      BY <1>1, <3>1 DEF Dormant
    <3> QED BY <1>1, <1>3, <1>4, <3>1, <3>2 DEF StopsMeetReloads, Early
  <2>3. CASE scheduleReload
    <3>1. ~Dormant /\ life' = life /\ unfinished' = unfinished /\ open' = open
      BY <2>3 DEF scheduleReload, Dormant
    <3> QED BY <1>1, <1>3, <1>4, <3>1 DEF StopsMeetReloads, Early
  <2>4. CASE Signal
    <3>1. life' = "stopping" /\ unfinished' = {r \in Reloads : reload[r].pc \notin Ended \ {"idle"}}
      BY <2>4 DEF Signal
    <3>2. \A r \in Reloads : (InFlight(r) \/ reload[r].pc = "idle")' => r \in unfinished'
      BY <1>1, <1>4, <3>1 DEF InFlight
    <3> QED BY <3>1, <3>2 DEF StopsMeetReloads, Early
  <2>5. CASE StopStep
    <3>1. ~Early /\ ~Early' /\ life' \notin {"off", "starting"} /\ unfinished' = unfinished
          /\ event' = event /\ timer' = timer /\ watching' = watching
      BY <2>5 DEF StopStep, StopEndpoints, StopOutbounds, StopServices, StopFinished, StopTimedOut, Early
    <3>2. Dormant => Dormant'
      BY <1>1, <3>1 DEF Dormant
    <3> QED BY <1>1, <1>3, <1>4, <3>1, <3>2 DEF StopsMeetReloads, Early
  <2>6. CASE UNCHANGED vars
    BY <1>1, <1>3, <1>4, <2>6 DEF vars, StopsMeetReloads, Early, Dormant
  <2> QED BY <2>1, <2>2, <2>3, <2>4, <2>5, <2>6 DEF LifeStep, StartStep
<1>6. ToStartOwned'
  <2>1. CASE buildComponents
    <3> DEFINE secs == Config[config].inbounds
               ins == [i \in DOMAIN secs |-> Build(secs[i], 0)]
               S == (inbounds' \cap services') \cup {servers[e] : e \in Names}
    <3>1. /\ inbounds' = ToSet(ins) /\ inbounds' \subseteq services'
          /\ toStart' = ins \o <<servers["metrics"], servers["dashboard"]>>
      BY <2>1 DEF buildComponents
    <3>2. DOMAIN secs = 1 .. Len(secs) /\ Len(secs) \in Nat
      BY <1>3, SectionList DEF LegacyTypes
    <3>3. ASSUME NEW i \in 1 .. Len(secs) PROVE ins[i] \in S
      <4>1. i \in DOMAIN ins
        BY <3>2
      <4>2. ins[i] \in ToSet(ins)
        BY <4>1 DEF ToSet
      <4> HIDE DEF ins
      <4> QED BY <3>1, <4>2
    <3>4. ins \in Seq(S)
      <4> DEFINE n == Len(secs)
      <4>1. ins = [i \in 1 .. n |-> ins[i]] /\ n \in Nat
        BY <3>2
      <4> HIDE DEF ins, n, S
      <4>2. \A i \in 1 .. n : ins[i] \in S
        BY <3>3 DEF n
      <4>3. [i \in 1 .. n |-> ins[i]] \in Seq(S)
        BY <4>1, <4>2, IsASeq
      <4> QED BY <4>1, <4>3
    <3>5. <<servers["metrics"], servers["dashboard"]>> \in Seq(S)
      BY DEF Names
    <3> HIDE DEF ins, S
    <3>6. toStart' \in Seq(S)
      BY <3>1, <3>4, <3>5, ConcatProperties
    <3> QED BY <1>1, <3>6 DEF ToStartOwned, S
  <2>2. CASE StartNext
    <3> DEFINE S == (inbounds \cap services) \cup {servers[e] : e \in Names}
    <3>1. /\ toStart \in Seq(S) /\ toStart # <<>> /\ toStart' = Tail(toStart)
          /\ inbounds' = inbounds /\ services' = services
      BY <1>3, <2>2 DEF StartNext, ToStartOwned
    <3> HIDE DEF S
    <3>2. toStart' \in Seq(S)
      BY <3>1
    <3> QED BY <1>1, <3>1, <3>2 DEF ToStartOwned, S
  <2>3. CASE Edit \/ scheduleReload \/ UNCHANGED vars
    <3>1. life' = life /\ toStart' = toStart /\ inbounds' = inbounds /\ services' = services
      BY <2>3 DEF Edit, scheduleReload, vars
    <3> QED BY <1>1, <1>3, <3>1 DEF ToStartOwned
  <2>4. CASE StartRefused \/ Started \/ Signal \/ StopStep
    <3>1. life' # "starting"
      BY <2>4 DEF StartRefused, Started, Signal, StopStep, StopEndpoints, StopOutbounds, StopServices,
           StopFinished, StopTimedOut
    <3> QED BY <3>1 DEF ToStartOwned
  <2> QED BY <2>1, <2>2, <2>3, <2>4 DEF LifeStep, StartStep
<1>7. \A o : Caused(o) => Caused(o)'
  <2>1. unfinished \subseteq unfinished'
    <3>1. CASE Signal
      BY <1>3, <3>1 DEF Signal, StopsMeetReloads, Early
    <3>2. CASE ~Signal
      BY <3>2 DEF LifeStep, StartStep, buildComponents, StartNext, StartRefused, Started, Edit,
           scheduleReload, StopStep, StopEndpoints, StopOutbounds, StopServices, StopFinished,
           StopTimedOut, vars
    <3> QED BY <3>1, <3>2
  <2> QED BY <1>1, <2>1 DEF Caused, Failed
<1> QED BY <1>1, <1>2, <1>5, <1>6, <1>7

LEMMA LifeKeepsOpen ==
  ASSUME OpenInv, LifeStep
  PROVE  OpenInv'
<1> USE DEF hotVars, lifeVars, engineVars
<1>0. LegacyTypes /\ LegacyTypes'
  BY LifeTypes DEF OpenInv, LifeStep
<1>1. /\ reload' = reload /\ overlapped' = overlapped /\ servers' = servers
      /\ (inbounds' = inbounds /\ open' \subseteq open) \/ life \in {"off", "starting"}
      /\ StopsMeetReloads' /\ ToStartOwned'
      /\ \A o : Caused(o) => Caused(o)'
  BY LifeKeepsPlan
<1>2. life \in {"off", "starting"} => \A r \in Reloads : reload[r].pc = "idle"
  BY DEF OpenInv, StopsMeetReloads, Dormant
<1>3. \A r \in Reloads : /\ InFlight(r)' <=> InFlight(r)
                         /\ Applying(r)' <=> Applying(r)
                         /\ Replaces(r)' <=> Replaces(r)
  BY <1>1 DEF InFlight, Applying, Replaces
<1>4. \A r \in Reloads : reload[r].pc = "idle" => ~Applying(r) /\ ~InFlight(r)
  BY DEF Applying, InFlight, Ended
<1>5. OverlapKnown'
  BY <1>1, <1>3 DEF OpenInv, OverlapKnown
<1>6. StagedIsOwn'
  BY <1>1, <1>3 DEF OpenInv, StagedIsOwn
<1>7. InboundsAreDone'
  <2>1. CASE buildComponents
    <3> DEFINE secs == Config[config].inbounds
               ins == [i \in DOMAIN secs |-> Build(secs[i], 0)]
    <3>1. inbounds' = ToSet(ins)
      BY <2>1 DEF buildComponents
    <3>2. \A i \in DOMAIN ins : ins[i].by = 0
      BY DEF Build
    <3>3. \A o \in ToSet(ins) : \E i \in DOMAIN ins : o = ins[i]
      BY DEF ToSet
    <3> HIDE DEF ins
    <3> QED BY <3>1, <3>2, <3>3 DEF InboundsAreDone
  <2>2. CASE ~buildComponents
    <3>1. inbounds' = inbounds
      BY <2>2 DEF LifeStep, StartStep, StartNext, StartRefused, Started, Edit, scheduleReload,
           Signal, StopStep, StopEndpoints, StopOutbounds, StopServices, StopFinished, StopTimedOut, vars
    <3> QED BY <1>1, <3>1 DEF OpenInv, InboundsAreDone
  <2> QED BY <2>1, <2>2
<1>8. DropsAreClosed'
  <2>1. CASE life \in {"off", "starting"}
    BY <1>1, <1>2, <2>1 DEF DropsAreClosed
  <2>2. CASE inbounds' = inbounds /\ open' \subseteq open
    BY <1>1, <1>3, <2>2 DEF OpenInv, DropsAreClosed
  <2> QED BY <1>1, <2>1, <2>2
<1>9. ReusedInService'
  <2>1. CASE life \in {"off", "starting"}
    BY <1>2, <1>3, <1>4, <2>1 DEF ReusedInService
  <2>2. CASE inbounds' = inbounds /\ open' \subseteq open
    BY <1>1, <1>3, <2>2 DEF OpenInv, ReusedInService
  <2> QED BY <1>1, <2>1, <2>2
<1>10. ReplacedIsClosed'
  <2>1. CASE life \in {"off", "starting"}
    BY <1>1, <1>2, <2>1 DEF ReplacedIsClosed
  <2>2. CASE open' \subseteq open
    BY <1>1, <2>2 DEF OpenInv, ReplacedIsClosed
  <2> QED BY <1>1, <2>1, <2>2
<1>11. StopServices => \A o \in open' : Caused(o)
  <2> SUFFICES ASSUME StopServices, NEW o \in open', ~Caused(o) PROVE FALSE
    OBVIOUS
  <2>1. life = "outbounds stopped" /\ open' = open \ services /\ ~Early
    BY DEF StopServices, Early
  <2>2. Owned(o)
    BY <2>1 DEF OpenInv, StrayHasCause, Caused
  <2>3. CASE \E r \in Reloads : InFlight(r) /\ o \in reload[r].staged
    <3>1. PICK r \in Reloads : InFlight(r) /\ o \in reload[r].staged
      BY <2>3
    <3>2. o.by = r
      BY <3>1 DEF OpenInv, StagedIsOwn
    <3>3. r \in unfinished
      BY <1>4, <2>1, <3>1 DEF OpenInv, StopsMeetReloads, Dormant
    <3> QED BY <3>2, <3>3 DEF Caused
  <2>4. CASE o \in inbounds /\ o \in services
    BY <2>1, <2>4
  <2>5. CASE \E e \in Names : o = servers[e]
    BY <2>1, <2>5 DEF OpenInv, StoppedIsClosed, Names
  <2> QED BY <2>2, <2>3, <2>4, <2>5, EndpointNames DEF Owned
<1>12. StoppedIsClosed'
  <2>1. CASE buildComponents \/ StartNext \/ Started
    <3>1. Early' /\ life' \notin {"services stopping", "stopped", "failed"}
      BY <2>1 DEF buildComponents, StartNext, Started, Early
    <3> QED BY <3>1 DEF StoppedIsClosed
  <2>2. CASE StartRefused \/ Signal
    <3>1. life' = "stopping" /\ servers'["dashboard"] \notin open'
      BY <1>1, <2>2 DEF StartRefused, Signal
    <3> QED BY <3>1 DEF StoppedIsClosed
  <2>3. CASE Edit \/ scheduleReload \/ UNCHANGED vars
    <3>1. life' = life /\ open' = open
      BY <2>3 DEF Edit, scheduleReload, vars
    <3>2. (Early' <=> Early) /\ \A o : Caused(o) => Caused(o)'
      BY <1>1, <3>1 DEF Early
    <3> QED BY <1>1, <3>1, <3>2 DEF OpenInv, StoppedIsClosed, Caused
  <2>4. CASE StopStep
    <3>0. ~Early /\ ~Early' /\ open' \subseteq open
      BY <2>4 DEF StopStep, StopEndpoints, StopOutbounds, StopServices, StopFinished, StopTimedOut, Early
    <3>1. servers["dashboard"] \in open' => Caused(servers["dashboard"])
      BY <3>0 DEF OpenInv, StoppedIsClosed
    <3>2. servers["metrics"] \in open' => Caused(servers["metrics"])
      <4>1. CASE StopEndpoints
        BY <4>1 DEF StopEndpoints
      <4>2. CASE ~StopEndpoints
        <5>1. life # "stopping"
          BY <2>4, <4>2 DEF StopStep, StopOutbounds, StopServices, StopFinished, StopTimedOut
        <5> QED BY <3>0, <5>1 DEF OpenInv, StoppedIsClosed
      <4> QED BY <4>1, <4>2
    <3>3. life' \in {"services stopping", "stopped", "failed"} => \A o \in open' : Caused(o)
      <4>1. CASE StopServices
        BY <1>11, <4>1
      <4>2. CASE StopFinished \/ StopTimedOut
        <5>1. life = "services stopping"
          BY <4>2 DEF StopFinished, StopTimedOut
        <5> QED BY <3>0, <5>1 DEF OpenInv, StoppedIsClosed
      <4>3. CASE StopEndpoints \/ StopOutbounds
        BY <4>3 DEF StopEndpoints, StopOutbounds
      <4> QED BY <2>4, <4>1, <4>2, <4>3 DEF StopStep
    <3> QED BY <1>1, <3>0, <3>1, <3>2, <3>3 DEF StoppedIsClosed, Caused
  <2> QED BY <2>1, <2>2, <2>3, <2>4 DEF LifeStep, StartStep
<1>13. ASSUME NEW o \in open', ~Caused(o)'
       PROVE  life' \notin {"stopped", "failed"} /\ Owned(o)'
  <2>0. ~Caused(o)
    BY <1>1, <1>13
  <2>1. o \in open => life \notin {"stopped", "failed"} /\ Owned(o)
    BY <2>0 DEF OpenInv, StrayHasCause, Caused
  <2>2. CASE buildComponents
    BY <2>2 DEF buildComponents, OpenInv, StopsMeetReloads
  <2>3. CASE StartNext
    <3> DEFINE S == (inbounds \cap services) \cup {servers[e] : e \in Names}
    <3>1. /\ toStart \in Seq(S) /\ toStart # <<>> /\ life' = "starting"
          /\ open' \subseteq open \cup {Head(toStart)}
          /\ inbounds' = inbounds /\ services' = services
      BY <2>3 DEF StartNext, OpenInv, ToStartOwned, Bound
    <3>2. Head(toStart) \in S
      <4> HIDE DEF S
      <4> QED BY <3>1
    <3>3. o \in open \/ o \in S
      BY <3>1, <3>2
    <3>4. Owned(o)'
      BY <1>1, <1>3, <2>1, <3>1, <3>3, EndpointNames DEF Owned
    <3> QED BY <3>1, <3>4
  <2>4. CASE StartRefused \/ Started \/ Edit \/ scheduleReload \/ Signal \/ UNCHANGED vars
    <3>1. inbounds' = inbounds /\ services' = services /\ open' \subseteq open
          /\ (life' = life \/ life' \notin {"stopped", "failed"})
      BY <2>4 DEF StartRefused, Started, Edit, scheduleReload, Signal, vars
    <3> QED BY <1>1, <1>3, <2>1, <3>1 DEF Owned
  <2>5. CASE StopEndpoints \/ StopServices
    <3>1. inbounds' = inbounds /\ services' = services /\ open' \subseteq open
          /\ life' \notin {"stopped", "failed"}
      BY <2>5 DEF StopEndpoints, StopServices
    <3> QED BY <1>1, <1>3, <2>1, <3>1 DEF Owned
  <2>6. CASE StopOutbounds
    <3>1. inbounds' = inbounds /\ services' = services \ registry /\ open' = open
          /\ life' \notin {"stopped", "failed"}
      BY <2>6 DEF StopOutbounds
    <3>2. \A x \in inbounds : x \notin registry
      BY <1>0, ListenersApart DEF LegacyTypes
    <3> QED BY <1>1, <1>3, <2>1, <3>1, <3>2 DEF Owned
  <2>7. CASE StopFinished \/ StopTimedOut
    <3>1. life = "services stopping" /\ open' = open
      BY <2>7 DEF StopFinished, StopTimedOut
    <3> QED BY <2>0, <3>1 DEF OpenInv, StoppedIsClosed
  <2> QED BY <2>2, <2>3, <2>4, <2>5, <2>6, <2>7 DEF LifeStep, StartStep, StopStep
<1>14. StrayHasCause'
  BY <1>13 DEF StrayHasCause, Caused
<1> QED BY <1>0, <1>1, <1>5, <1>6, <1>7, <1>8, <1>9, <1>10, <1>12, <1>14 DEF OpenInv

\* What is bound has an owner or a cause, always.
LEMMA OpenAlways == Spec => []OpenInv
<1>1. Init => OpenInv
  <2> SUFFICES ASSUME Init PROVE OpenInv
    OBVIOUS
  <2>1. /\ life = "off" /\ open = {} /\ inbounds = {} /\ ~event /\ ~timer /\ watching = {}
        /\ unfinished = {} /\ overlapped = {}
        /\ \A r \in Reloads : /\ reload[r].pc = "idle" /\ reload[r].next = {}
                              /\ reload[r].staged = {}
    BY DEF Init, Idle
  <2>2. \A r \in Reloads : ~Applying(r) /\ ~InFlight(r)
    BY <2>1 DEF Applying, InFlight, Ended
  <2>3. StopsMeetReloads /\ ToStartOwned
    BY <2>1 DEF StopsMeetReloads, ToStartOwned, Dormant, Early
  <2>4. OverlapKnown /\ StagedIsOwn /\ InboundsAreDone
    BY <2>1, <2>2 DEF OverlapKnown, StagedIsOwn, InboundsAreDone
  <2>5. DropsAreClosed /\ ReusedInService /\ ReplacedIsClosed
    BY <2>1, <2>2 DEF DropsAreClosed, ReusedInService, ReplacedIsClosed
  <2>6. StoppedIsClosed /\ StrayHasCause
    BY <2>1 DEF StoppedIsClosed, StrayHasCause, Early
  <2> QED BY InitTypes, <2>3, <2>4, <2>5, <2>6 DEF OpenInv
<1>2. OpenInv /\ [Next]_vars => OpenInv'
  BY ReloadKeepsOpen, BeginKeepsOpen, LifeKeepsOpen DEF Next, LifeStep
<1> QED BY <1>1, <1>2, PTL DEF Spec

\* However reloads of the watcher and of the dashboard overlap, fail or meet
\* the shutdown, a bound address that nobody will release has one of the causes
\* StrayHasCause names: without them a stop that returns leaves nothing
\* listening (Engine.reloadConfig, applyReloadConfig, Engine.stop).
THEOREM StraysHaveCauses == Spec => []StrayHasCause
<1>1. OpenInv => StrayHasCause
  BY DEF OpenInv
<1> QED BY <1>1, OpenAlways, PTL

-----------------------------------------------------------------------------
(* What the engine consists of at rest.                                    *)

\* The objects are built from the sections, one from each.
Shape(objects, sections) ==
    /\ \A o \in objects : \E s \in sections : o.tag = s.tag /\ o.spec = s.spec
    /\ \A s \in sections : \E o \in objects : o.tag = s.tag /\ o.spec = s.spec
    /\ \A o, p \in objects : o.tag = p.tag => o = p

Listeners(v) == ToSet(Config[v].inbounds)

\* The addresses the endpoint servers of es hold.
Ports(es) == UNION {Bound(servers[e]) : e \in es}
ServersOf(v, es) == \A e \in es : servers[e].spec = Config[v].endpoints[e]

\* Everything is that of the engine's configuration; bound are the addresses.
AtRest(bound) ==
    /\ Shape(inbounds, Listeners(config)) /\ Shape(outbounds, Config[config].outbounds)
    /\ registry = outbounds /\ services = inbounds \cup outbounds
    /\ bound = inbounds \cup Ports(Names)
    /\ ServersOf(config, Names)

\* What a reload has taken over so far: the sections before its index, each
\* staged or, if it can be reused, found in service.
SectionOf(r, j) == Config[reload[r].loaded].inbounds[j]
Fresh(r, k) == {Build(SectionOf(r, j), r) : j \in {i \in 1 .. k : ~Reusable(r, i)}}
Reused(r, k) == {o \in inbounds : \E j \in 1 .. k : Reusable(r, j) /\ o.tag = SectionOf(r, j).tag}
StagedSoFar(r) ==
    LET k == reload[r].index - 1 IN
    /\ k <= Len(Config[reload[r].loaded].inbounds)
    /\ reload[r].staged = Fresh(r, k)
    /\ reload[r].next = Fresh(r, k) \cup Reused(r, k)

\* The listeners bound while the reload r is under way.
Serving(r) ==
    IF reload[r].pc = "staging" THEN inbounds \cup reload[r].staged
    ELSE IF Replaces(r) THEN reload[r].next ELSE inbounds

Closing(r) == IF reload[r].pc = "closing" THEN {Head(reload[r].todo)} ELSE {}

Before == {"staging", "publish"}

\* A reload that is applied alone, between its steps: what it has not replaced
\* yet is of the configuration it found.
Underway(r) ==
    LET u == reload[r].previous
        v == reload[r].loaded
    IN /\ Shape(inbounds, Listeners(u)) /\ Shape(outbounds, Config[u].outbounds)
       /\ reload[r].pc # "rebuild" => registry = outbounds /\ services = inbounds \cup outbounds
       /\ reload[r].pc = "rebuild" => services = inbounds
       /\ open = Serving(r) \cup Ports(Names \ Closing(r))
       /\ config = IF reload[r].pc \in Before THEN u ELSE v
       /\ reload[r].pc = "staging" => StagedSoFar(r)
       /\ reload[r].pc # "staging" /\ Replaces(r) => Shape(reload[r].next, Listeners(v))
       /\ reload[r].pc \in Before => ServersOf(u, Names)
       /\ reload[r].pc \notin Before =>
            /\ reload[r].todo \in {<<>>, <<"metrics">>, <<"dashboard">>, <<"metrics", "dashboard">>}
            /\ ServersOf(v, Names \ ToSet(reload[r].todo))
            /\ reload[r].pc = "rebuild" => reload[r].todo = <<>>

Coming == UNION {Bound(o) : o \in ToSet(toStart)}

QuietInv ==
    /\ \A e \in Names : servers[e].tag = e
    /\ \A r \in Reloads : reload[r].pc \in {"idle", "loading"} => reload[r].index = 1
    /\ life = "off" => ServersOf(config, Names)
    /\ life = "starting" => AtRest(open \cup Coming)
    /\ life = "running" => started
    /\ life = "running" /\ Untainted =>
          /\ (\A r \in Reloads : ~Applying(r)) => AtRest(open)
          /\ \A r \in Reloads : Applying(r) => Underway(r)

\* The listeners of a version have a tag each.
LEMMA ListenersOf ==
  ASSUME NEW v \in Versions
  PROVE  LET secs == Config[v].inbounds IN
         /\ Len(secs) \in Nat /\ DOMAIN secs = 1 .. Len(secs)
         /\ Listeners(v) = {secs[i] : i \in 1 .. Len(secs)}
         /\ \A i, j \in 1 .. Len(secs) : secs[i].tag = secs[j].tag => i = j
         /\ \A s, t \in Listeners(v) : s.tag = t.tag => s = t
         /\ IsFiniteSet(Listeners(v))
<1> DEFINE secs == Config[v].inbounds
           n == Len(secs)
<1>1. n \in Nat /\ DOMAIN secs = 1 .. n
  BY SectionList
<1>2. Listeners(v) = {secs[i] : i \in 1 .. n}
  BY <1>1 DEF Listeners, ToSet
<1>3. \A i, j \in 1 .. n : secs[i].tag = secs[j].tag => i = j
  BY <1>1, SectionsAssumption
<1>4. IsFiniteSet(Listeners(v))
  <2> HIDE DEF secs, n
  <2>1. IsFiniteSet(1 .. n)
    BY <1>1, FS_Interval
  <2> DEFINE f == [i \in 1 .. n |-> secs[i]]
  <2>2. f \in Surjection(1 .. n, Listeners(v))
    BY <1>2 DEF Surjection
  <2> QED BY <2>1, <2>2, FS_Surjection
<1> HIDE DEF secs, n
<1>5. \A s, t \in Listeners(v) : s.tag = t.tag => s = t
  BY <1>2, <1>3
<1> QED BY <1>1, <1>2, <1>3, <1>4, <1>5 DEF secs, n

\* Sections with a tag each have as many objects as there are sections.
LEMMA ShapeCounts ==
  ASSUME NEW objects, NEW sections, IsFiniteSet(sections),
         \A s, t \in sections : s.tag = t.tag => s = t, Shape(objects, sections)
  PROVE  HasSections(objects, sections)
<1> DEFINE f == [s \in sections |-> CHOOSE o \in objects : o.tag = s.tag /\ o.spec = s.spec]
<1>1. ASSUME NEW s \in sections
      PROVE  f[s] \in objects /\ f[s].tag = s.tag
  <2>1. \E o \in objects : o.tag = s.tag /\ o.spec = s.spec
    BY DEF Shape
  <2> DEFINE c == CHOOSE o \in objects : o.tag = s.tag /\ o.spec = s.spec
  <2>2. c \in objects /\ c.tag = s.tag
    BY <2>1
  <2>3. f[s] = c
    OBVIOUS
  <2> HIDE DEF f, c
  <2> QED BY <2>2, <2>3
<1>2. f \in [sections -> objects]
  BY <1>1
<1> HIDE DEF f
<1>6. \A s, t \in sections : f[s] = f[t] => s = t
  BY <1>1
<1>3. \A o \in objects : \E s \in sections : f[s] = o
  <2> SUFFICES ASSUME NEW o \in objects
               PROVE  \E s \in sections : f[s] = o
    OBVIOUS
  <2>1. PICK s \in sections : o.tag = s.tag
    BY DEF Shape
  <2>2. f[s] = o
    BY <1>1, <2>1 DEF Shape
  <2> QED BY <2>2
<1>4. f \in Bijection(sections, objects)
  BY <1>2, <1>3, <1>6 DEF Bijection, Injection, Surjection, IsInjective
<1>5. Cardinality(objects) = Cardinality(sections)
  BY <1>4, FS_Bijection DEF ExistsBijection
<1> QED BY <1>5 DEF HasSections, Shape

\* What is built from the outbounds of a version has their shape.
LEMMA BuiltShape ==
  ASSUME NEW v \in Versions, NEW r
  PROVE  Shape(BuiltAll(Config[v].outbounds, r), Config[v].outbounds)
<1> DEFINE sections == Config[v].outbounds
           made == {Build(s, r) : s \in sections}
<1>1. \A s, t \in sections : s.tag = t.tag => s = t
  BY SectionsAssumption
<1>2. \A s \in sections : Build(s, r).tag = s.tag /\ Build(s, r).spec = s.spec
  BY DEF Build
<1>3. BuiltAll(sections, r) = made
  BY DEF BuiltAll
<1> HIDE DEF sections
<1>4. \A o \in made : \E s \in sections : o = Build(s, r)
  OBVIOUS
<1>5. \A o \in made : \E s \in sections : o.tag = s.tag /\ o.spec = s.spec
  BY <1>2, <1>4
<1>6. \A s \in sections : \E o \in made : o.tag = s.tag /\ o.spec = s.spec
  BY <1>2
<1>7. \A o, p \in made : o.tag = p.tag => o = p
  BY <1>1, <1>2, <1>4
<1> HIDE DEF made
<1>8. Shape(made, sections)
  BY <1>5, <1>6, <1>7 DEF Shape
<1> QED BY <1>3, <1>8 DEF sections

\* The object of a tag is built from the section of that tag.
LEMMA SameTag ==
  ASSUME NEW v \in Versions, NEW objects, Shape(objects, Listeners(v)),
         NEW s \in Listeners(v), NEW o \in objects, o.tag = s.tag
  PROVE  o.spec = s.spec
BY ListenersOf DEF Shape

\* No endpoint server is a listener.
LEMMA ServersApart ==
  ASSUME NEW o \in InboundObjects, NEW x \in ServerObjects
  PROVE  o # x
<1>1. PICK v \in Versions :
       o \in {Build(Config[v].inbounds[i], r) : i \in DOMAIN Config[v].inbounds, r \in By}
  BY DEF InboundObjects
<1>2. PICK i \in DOMAIN Config[v].inbounds, r \in By : o = Build(Config[v].inbounds[i], r)
  BY <1>1
<1>3. o.spec = Config[v].inbounds[i].spec
  BY <1>2 DEF Build
<1>4. CASE x = NoServer
  BY <1>4, ListenersApart
<1>5. CASE x # NoServer
  <2>1. PICK e \in Names, u \in Versions, q \in By : x = EndpointOf(e, u, q)
    BY <1>5 DEF ServerObjects
  <2>2. x.spec = Config[u].endpoints[e]
    BY <2>1 DEF EndpointOf
  <2>3. i \in DOMAIN Config[v].inbounds /\ e \in ToSet(Endpoints)
    BY <2>1, EndpointNames
  <2> QED BY <1>3, <2>2, <2>3, SectionsAssumption
<1> QED BY <1>4, <1>5

\* So no port is a listener's.
LEMMA PortsApart ==
  ASSUME LegacyTypes, NEW es \in SUBSET Names
  PROVE  /\ \A o \in InboundObjects : o \notin Ports(es)
         /\ \A o \in Ports(es) : \E e \in es : o = servers[e]
BY ServersApart DEF LegacyTypes, Ports, Bound

\* QuietAgreement is what the invariant says when no reload is under way.
LEMMA QuietMeaning ==
  ASSUME LegacyTypes, QuietInv
  PROVE  QuietAgreement
<1> SUFFICES ASSUME life = "running", Quiet, Untainted
             PROVE  /\ HasSections(inbounds, ToSet(Config[config].inbounds))
                    /\ HasSections(outbounds, Config[config].outbounds)
                    /\ registry = outbounds
                    /\ services = inbounds \union outbounds
                    /\ Config[config].targets \subseteq {o.tag : o \in outbounds}
                    /\ open = inbounds \union UNION {Bound(servers[e]) : e \in ToSet(Endpoints)}
                    /\ \A e \in ToSet(Endpoints) : servers[e].spec = Config[config].endpoints[e]
  BY DEF QuietAgreement
<1>1. AtRest(open)
  BY DEF QuietInv, Quiet, Applying
<1>2. config \in Versions
  BY DEF LegacyTypes
<1>3. HasSections(inbounds, ToSet(Config[config].inbounds))
  BY <1>1, <1>2, ListenersOf, ShapeCounts DEF AtRest, Listeners
<1>4. HasSections(outbounds, Config[config].outbounds)
  BY <1>1, <1>2, SectionsAssumption, ShapeCounts DEF AtRest
<1>5. Config[config].targets \subseteq {o.tag : o \in outbounds}
  <2>1. Config[config].targets \subseteq {s.tag : s \in Config[config].outbounds}
    BY <1>2, SectionsAssumption
  <2>2. \A s \in Config[config].outbounds : \E o \in outbounds : o.tag = s.tag
    BY <1>1 DEF AtRest, Shape
  <2> QED BY <2>1, <2>2
<1> QED BY <1>1, <1>3, <1>4, <1>5, EndpointNames DEF AtRest, Ports, ServersOf

-----------------------------------------------------------------------------
(* The steps of a reload that is applied alone.                            *)

\* A reload that begins to be applied finds everything at rest.
LEMMA EnterQuiet ==
  ASSUME OpenInv, NEW r \in Reloads, Enter(r), AtRest(open), reload[r].index = 1
  PROVE  Underway(r)'
<1> DEFINE step == IF inboundConfigsChanged(config, reload[r].loaded) THEN "staging" ELSE "publish"
           v == reload[r].loaded
<1>1. reload[r] \in ReloadRecord /\ reload \in [Reloads -> ReloadRecord] /\ v \in Versions
  BY RecordFacts DEF OpenInv, LegacyTypes
<1>2. /\ inbounds' = inbounds /\ outbounds' = outbounds /\ registry' = registry /\ services' = services
      /\ servers' = servers /\ open' = open /\ config' = config /\ reload[r].pc = "loading"
  BY DEF Enter, engineVars
<1>3. reload' = [reload EXCEPT ![r].previous = config, ![r].pc = step]
  BY DEF Enter
<1>4. reload[r].next = {} /\ reload[r].staged = {}
  BY <1>2 DEF OpenInv, StagedIsOwn
<1>5. step \in {"staging", "publish"}
  OBVIOUS
<1>6. step = "staging" <=> inboundConfigsChanged(config, v)
  OBVIOUS
<1> HIDE DEF step
<1>7. /\ reload'[r].pc = step /\ reload'[r].previous = config /\ reload'[r].loaded = v
      /\ reload'[r].next = {} /\ reload'[r].staged = {} /\ reload'[r].index = 1
  BY <1>1, <1>3, <1>4 DEF ReloadRecord
<1>8. Replaces(r)' <=> step = "staging"
  BY <1>6, <1>7 DEF Replaces, inboundConfigsChanged
<1>9. Closing(r)' = {} /\ Serving(r)' = inbounds
  BY <1>2, <1>5, <1>7, <1>8 DEF Closing, Serving
<1>10. StagedSoFar(r)'
  <2>1. Len(Config[v].inbounds) \in Nat
    BY <1>1, SectionList
  <2>2. 1 .. 0 = {}
    OBVIOUS
  <2>3. Fresh(r, 0)' = {} /\ Reused(r, 0)' = {}
    BY <2>2 DEF Fresh, Reused
  <2>4. 1 - 1 = 0 /\ 0 <= Len(Config[v].inbounds)
    BY <2>1
  <2> QED BY <1>7, <2>3, <2>4 DEF StagedSoFar
<1>11. open' = inbounds' \cup Ports(Names)'
  BY <1>2 DEF AtRest, Ports
<1>12. Ports(Names \ Closing(r))' = Ports(Names)'
  BY <1>9
<1> QED BY <1>2, <1>5, <1>7, <1>8, <1>9, <1>10, <1>11, <1>12 DEF Underway, AtRest, Before, ServersOf

\* One more listener is staged, the sections before it are reused.
LEMMA StageQuiet ==
  ASSUME OpenInv, NEW r \in Reloads, StageListener(r), Underway(r)
  PROVE  Underway(r)'
<1>0. PICK i \in Nat \ {0} : i = NextNew(r)
  BY NextNewFacts DEF OpenInv
<1> DEFINE v == reload[r].loaded
           n == Len(Config[v].inbounds)
           k == reload[r].index - 1
           o == Build(SectionOf(r, i), r)
           new == reload[r].next \cup ReusedUpTo(r, i) \cup {o}
           put == reload[r].staged \cup {o}
           m == i + 1
<1>1. reload[r] \in ReloadRecord /\ reload \in [Reloads -> ReloadRecord] /\ v \in Versions
      /\ reload[r].index \in Nat \ {0}
  BY RecordFacts DEF OpenInv, LegacyTypes
<1>2. /\ inbounds' = inbounds /\ outbounds' = outbounds /\ registry' = registry /\ services' = services
      /\ servers' = servers /\ config' = config /\ reload[r].pc = "staging" /\ i <= n
      /\ open' = open \cup {o}
  BY <1>0 DEF StageListener, SectionOf
<1>3. reload' = [reload EXCEPT ![r].index = m, ![r].next = new, ![r].staged = put]
  BY <1>0 DEF StageListener, SectionOf
<1>4. /\ n \in Nat /\ i \in Nat \ {0}
      /\ \A j \in reload[r].index .. (i - 1) : j <= n => Reusable(r, j)
      /\ reload[r].index <= i /\ ~Reusable(r, i)
  BY <1>0, <1>2, NextNewFacts DEF OpenInv
<1>5. StagedSoFar(r)
  BY <1>2 DEF Underway
<1> HIDE DEF o, n, new, put, m
<1>6. /\ reload'[r].pc = "staging" /\ reload'[r].previous = reload[r].previous
      /\ reload'[r].loaded = v /\ reload'[r].index = m
      /\ reload'[r].next = new /\ reload'[r].staged = put
  BY <1>1, <1>2, <1>3 DEF ReloadRecord
<1>7. \A j : SectionOf(r, j)' = SectionOf(r, j) /\ Reusable(r, j)' = Reusable(r, j)
  BY <1>2, <1>6 DEF SectionOf, Reusable
<1>8. m - 1 = i /\ k \in Nat /\ 1 .. i = (1 .. k) \cup (reload[r].index .. (i - 1)) \cup {i}
  BY <1>1, <1>4 DEF m
<1>9. \A j \in reload[r].index .. (i - 1) : Reusable(r, j)
  BY <1>1, <1>2, <1>4
<1>10. Fresh(r, i)' = Fresh(r, k) \cup {o}
  <2>1. {j \in 1 .. i : ~Reusable(r, j)} = {j \in 1 .. k : ~Reusable(r, j)} \cup {i}
    BY <1>4, <1>8, <1>9
  <2>2. Fresh(r, i) = Fresh(r, k) \cup {o}
    BY <2>1 DEF Fresh, o
  <2> QED BY <1>7, <2>2 DEF Fresh
<1>11. Reused(r, i)' = Reused(r, k) \cup ReusedUpTo(r, i)
  <2>1. ReusedUpTo(r, i) = {x \in inbounds : \E j \in reload[r].index .. (i - 1) : x.tag = SectionOf(r, j).tag}
    BY DEF ReusedUpTo, SectionOf
  <2>2. Reused(r, i) = Reused(r, k) \cup ReusedUpTo(r, i)
    BY <1>4, <1>8, <1>9, <2>1 DEF Reused
  <2> QED BY <1>2, <1>7, <2>2 DEF Reused
<1>12. StagedSoFar(r)'
  <2>1. put = Fresh(r, k) \cup {o} /\ new = (Fresh(r, k) \cup {o}) \cup (Reused(r, k) \cup ReusedUpTo(r, i))
    BY <1>5 DEF StagedSoFar, put, new
  <2> QED BY <1>2, <1>6, <1>8, <1>10, <1>11, <2>1 DEF StagedSoFar, n
<1>13. Closing(r)' = {} /\ Closing(r) = {}
  BY <1>2, <1>6 DEF Closing
<1>14. open' = Serving(r)' \cup Ports(Names \ Closing(r))'
  <2>1. Serving(r)' = Serving(r) \cup {o}
    BY <1>2, <1>6 DEF Serving, put
  <2>2. Ports(Names)' = Ports(Names)
    BY <1>2 DEF Ports
  <2>3. Ports(Names \ Closing(r))' = Ports(Names) /\ Ports(Names \ Closing(r)) = Ports(Names)
    BY <1>13, <2>2
  <2> QED BY <1>2, <2>1, <2>3 DEF Underway
<1> QED BY <1>2, <1>6, <1>12, <1>14 DEF Underway, Before, ServersOf

\* A listener that cannot be bound: what was staged is closed again.
LEMMA StageFailsQuiet ==
  ASSUME OpenInv, NEW r \in Reloads, StageFails(r), Underway(r)
  PROVE  AtRest(open)'
<1>1. /\ inbounds' = inbounds /\ outbounds' = outbounds /\ registry' = registry /\ services' = services
      /\ servers' = servers /\ config' = config /\ reload[r].pc = "staging"
      /\ open' = open \ reload[r].staged
  BY DEF StageFails, RolledBack
<1>2. \A o \in reload[r].staged : o.by = r /\ o \in InboundObjects
  BY RecordFacts DEF OpenInv, StagedIsOwn
<1>3. \A o \in inbounds : o.by # r
  BY ReloadKeepsOrigin DEF ReloadStep
<1>4. \A o \in reload[r].staged : o \notin inbounds /\ o \notin Ports(Names)
  BY <1>2, <1>3, PortsApart DEF OpenInv
<1>5. Closing(r) = {} /\ Serving(r) = inbounds \cup reload[r].staged
  BY <1>1 DEF Closing, Serving
<1>6. open = inbounds \cup reload[r].staged \cup Ports(Names)
  BY <1>5 DEF Underway
<1>7. open' = inbounds \cup Ports(Names)
  BY <1>1, <1>4, <1>6
<1>8. Ports(Names)' = Ports(Names)
  BY <1>1 DEF Ports
<1> QED BY <1>1, <1>7, <1>8 DEF Underway, AtRest, Before, ServersOf

\* The listeners a reload has when every section is staged or reused.
LEMMA TakenShape ==
  ASSUME LegacyTypes, NEW r \in Reloads, NEW u \in Versions, u = reload[r].previous,
         Shape(inbounds, Listeners(u)), NEW n, n = Len(Config[reload[r].loaded].inbounds)
  PROVE  Shape(Fresh(r, n) \cup Reused(r, n), Listeners(reload[r].loaded))
<1> DEFINE v == reload[r].loaded
           sec(j) == SectionOf(r, j)
           kept == Fresh(r, n) \cup Reused(r, n)
<1>1. v \in Versions
  BY RecordFacts
<1>2. /\ n \in Nat /\ Listeners(v) = {sec(j) : j \in 1 .. n}
      /\ \A i, j \in 1 .. n : sec(i).tag = sec(j).tag => i = j
  BY <1>1, ListenersOf DEF SectionOf
<1>3. ASSUME NEW j \in 1 .. n, Reusable(r, j)
      PROVE  /\ sec(j) \in Listeners(u) /\ \E o \in inbounds : o.tag = sec(j).tag
             /\ \A o \in inbounds : o.tag = sec(j).tag => o.spec = sec(j).spec
  <2>1. sec(j) \in Listeners(u) /\ \E o \in inbounds : o.tag = sec(j).tag
    BY <1>3 DEF Reusable, SectionOf, Listeners
  <2>2. \A o \in inbounds : o.tag = sec(j).tag => o.spec = sec(j).spec
    BY <2>1, SameTag
  <2> QED BY <2>1, <2>2
<1>4. \A j : Build(sec(j), r).tag = sec(j).tag /\ Build(sec(j), r).spec = sec(j).spec
  BY DEF Build
<1> HIDE DEF sec, v
<1>5. \A o \in Fresh(r, n) : \E j \in 1 .. n : ~Reusable(r, j) /\ o = Build(sec(j), r)
  BY DEF Fresh, sec
<1>6. \A o \in Reused(r, n) : o \in inbounds /\ \E j \in 1 .. n : Reusable(r, j) /\ o.tag = sec(j).tag
  BY DEF Reused, sec
<1>7. ASSUME NEW o \in kept
      PROVE  \E j \in 1 .. n : /\ o.tag = sec(j).tag /\ o.spec = sec(j).spec
                               /\ (~Reusable(r, j) /\ o = Build(sec(j), r)) \/ (Reusable(r, j) /\ o \in inbounds)
  <2>1. CASE o \in Fresh(r, n)
    <3>1. PICK j \in 1 .. n : ~Reusable(r, j) /\ o = Build(sec(j), r)
      BY <1>5, <2>1
    <3>2. o.tag = sec(j).tag /\ o.spec = sec(j).spec
      BY <1>4, <3>1
    <3> QED BY <3>1, <3>2
  <2>2. CASE o \in Reused(r, n)
    BY <1>3, <1>6, <2>2
  <2> QED BY <2>1, <2>2
<1>8. ASSUME NEW j \in 1 .. n
      PROVE  \E o \in kept : o.tag = sec(j).tag /\ o.spec = sec(j).spec
  <2>1. CASE Reusable(r, j)
    <3>1. PICK o \in inbounds : o.tag = sec(j).tag
      BY <1>3, <2>1
    <3>2. o \in Reused(r, n)
      BY <2>1, <3>1 DEF Reused, sec
    <3> QED BY <1>3, <2>1, <3>1, <3>2
  <2>2. CASE ~Reusable(r, j)
    <3>1. Build(sec(j), r) \in Fresh(r, n)
      BY <2>2 DEF Fresh, sec
    <3> QED BY <1>4, <3>1
  <2> QED BY <2>1, <2>2
<1>9. ASSUME NEW o \in kept, NEW p \in kept, o.tag = p.tag
      PROVE  o = p
  <2>1. PICK i \in 1 .. n : /\ o.tag = sec(i).tag
                            /\ (~Reusable(r, i) /\ o = Build(sec(i), r)) \/ (Reusable(r, i) /\ o \in inbounds)
    BY <1>7
  <2>2. PICK j \in 1 .. n : /\ p.tag = sec(j).tag
                            /\ (~Reusable(r, j) /\ p = Build(sec(j), r)) \/ (Reusable(r, j) /\ p \in inbounds)
    BY <1>7
  <2>3. i = j
    BY <1>2, <1>9, <2>1, <2>2
  <2>4. \A x, y \in inbounds : x.tag = y.tag => x = y
    BY DEF Shape
  <2> QED BY <1>9, <2>1, <2>2, <2>3, <2>4
<1> HIDE DEF kept
<1>10. \A o \in kept : \E s \in Listeners(v) : o.tag = s.tag /\ o.spec = s.spec
  BY <1>2, <1>7
<1>11. \A s \in Listeners(v) : \E o \in kept : o.tag = s.tag /\ o.spec = s.spec
  BY <1>2, <1>8
<1>12. Shape(kept, Listeners(v))
  BY <1>9, <1>10, <1>11 DEF Shape
<1> QED BY <1>12 DEF kept, v

\* Every section is staged or reused: the other old listeners are drained.
LEMMA DrainQuiet ==
  ASSUME OpenInv, NEW r \in Reloads, DrainOld(r), Underway(r)
  PROVE  Underway(r)'
<1> DEFINE u == reload[r].previous
           v == reload[r].loaded
           n == Len(Config[v].inbounds)
           k == reload[r].index - 1
           i == NextNew(r)
           kept == reload[r].next \cup ReusedUpTo(r, i)
           tags == {o.tag : o \in kept \ reload[r].staged}
<1>1. /\ reload[r] \in ReloadRecord /\ reload \in [Reloads -> ReloadRecord]
      /\ u \in Versions /\ v \in Versions /\ reload[r].index \in Nat \ {0}
  BY RecordFacts DEF OpenInv, LegacyTypes
<1>2. /\ inbounds' = inbounds /\ outbounds' = outbounds /\ registry' = registry /\ services' = services
      /\ servers' = servers /\ config' = config /\ reload[r].pc = "staging" /\ i > n
      /\ open' = open \ {o \in inbounds : o.tag \notin tags}
  BY DEF DrainOld
<1>3. reload' = [reload EXCEPT ![r].pc = "publish", ![r].next = kept]
  BY DEF DrainOld
<1>4. /\ n \in Nat /\ i = n + 1
      /\ \A j \in reload[r].index .. (i - 1) : j <= n => Reusable(r, j)
  BY <1>2, NextNewFacts DEF OpenInv
<1>5. StagedSoFar(r) /\ k <= n /\ k \in Nat /\ Replaces(r)
  BY <1>1, <1>2 DEF Underway, StagedSoFar, OpenInv, StagedIsOwn
<1>6. kept = Fresh(r, n) \cup Reused(r, n) /\ reload[r].staged = Fresh(r, n)
  <2> HIDE DEF n, i
  <2>1. 1 .. n = (1 .. k) \cup (reload[r].index .. (i - 1))
    BY <1>1, <1>4, <1>5
  <2>2. \A j \in reload[r].index .. (i - 1) : Reusable(r, j)
    BY <1>1, <1>4
  <2>3. Fresh(r, n) = Fresh(r, k)
    <3>1. {j \in 1 .. n : ~Reusable(r, j)} = {j \in 1 .. k : ~Reusable(r, j)}
      BY <2>1, <2>2
    <3> QED BY <3>1 DEF Fresh
  <2>4. ReusedUpTo(r, i) = {x \in inbounds : \E j \in reload[r].index .. (i - 1) : x.tag = SectionOf(r, j).tag}
    BY DEF ReusedUpTo, SectionOf
  <2>5. Reused(r, n) = Reused(r, k) \cup ReusedUpTo(r, i)
    BY <2>1, <2>2, <2>4 DEF Reused
  <2>6. reload[r].staged = Fresh(r, k) /\ reload[r].next = Fresh(r, k) \cup Reused(r, k)
    BY <1>5 DEF StagedSoFar
  <2> QED BY <2>3, <2>5, <2>6
<1>7. Shape(inbounds, Listeners(u))
  BY DEF Underway
<1>8. Shape(kept, Listeners(v))
  BY <1>1, <1>6, <1>7, TakenShape DEF OpenInv
<1>9. \A o \in inbounds : o.tag \in tags <=> o \in Reused(r, n)
  <2>1. \A o \in inbounds : o.by # r
    BY ReloadKeepsOrigin DEF ReloadStep
  <2>2. \A o \in reload[r].staged : o.by = r
    BY DEF OpenInv, StagedIsOwn
  <2>3. Reused(r, n) \subseteq inbounds
    BY DEF Reused
  <2> HIDE DEF kept, n
  <2>4. kept \ reload[r].staged = Reused(r, n)
    BY <1>6, <2>1, <2>2, <2>3
  <2>5. \A x, y \in inbounds : x.tag = y.tag => x = y
    BY <1>7 DEF Shape
  <2> QED BY <2>3, <2>4, <2>5
<1>10. open' = kept \cup Ports(Names)
  <2>1. open = inbounds \cup reload[r].staged \cup Ports(Names)
    BY <1>2 DEF Underway, Closing, Serving
  <2>2. \A o \in Ports(Names) : o \notin inbounds
    BY PortsApart DEF OpenInv, LegacyTypes
  <2>3. \A o \in reload[r].staged : o \notin inbounds
    BY ReloadKeepsOrigin DEF OpenInv, StagedIsOwn, ReloadStep
  <2>4. Reused(r, n) \subseteq inbounds
    BY DEF Reused
  <2> HIDE DEF kept, tags, n
  <2> QED BY <1>2, <1>6, <1>9, <2>1, <2>2, <2>3, <2>4
<1> HIDE DEF kept, tags, n, i
<1>11. /\ reload'[r].pc = "publish" /\ reload'[r].previous = u /\ reload'[r].loaded = v
       /\ reload'[r].next = kept
  BY <1>1, <1>3 DEF ReloadRecord
<1>12. Replaces(r)' /\ Closing(r)' = {} /\ Serving(r)' = kept
  BY <1>5, <1>11 DEF Replaces, Closing, Serving
<1>13. Ports(Names \ Closing(r))' = Ports(Names)
  BY <1>2, <1>12 DEF Ports
<1> QED BY <1>2, <1>8, <1>10, <1>11, <1>12, <1>13 DEF Underway, Before, ServersOf

\* Two lists of one element make a list of two.
LEMMA Pair ==
  ASSUME NEW S, NEW a \in S, NEW b \in S
  PROVE  <<a>> \o <<b>> = <<a, b>>
<1> DEFINE m == <<a>>
           d == <<b>>
           md == <<a, b>>
<1>1. m \in Seq(S) /\ d \in Seq(S) /\ md \in Seq(S)
      /\ m[1] = a /\ d[1] = b /\ md[1] = a /\ md[2] = b
      /\ Len(m) = 1 /\ Len(d) = 1 /\ Len(md) = 2
  OBVIOUS
<1> HIDE DEF m, d, md
<1>2. Len(m \o d) = 2 /\ m \o d \in Seq(S) /\ (m \o d)[1] = a /\ (m \o d)[2] = b
  BY <1>1, ConcatProperties
<1>3. \A i \in 1 .. Len(m \o d) : (m \o d)[i] = md[i]
  <2>1. \A i \in 1 .. 2 : i = 1 \/ i = 2
    OBVIOUS
  <2> QED BY <1>1, <1>2, <2>1
<1>4. m \o d = md
  BY <1>1, <1>2, <1>3, SeqEqual
<1> QED BY <1>4 DEF m, d, md

\* The lists of endpoints that changed.
LEMMA ShortLists ==
  LET m == <<"metrics">>  d == <<"dashboard">>  md == <<"metrics", "dashboard">>
      none == <<>>
  IN /\ none \o none = none /\ none \o d = d /\ m \o none = m /\ m \o d = md
     /\ ToSet(none) = {} /\ ToSet(m) = {"metrics"} /\ ToSet(d) = {"dashboard"}
     /\ ToSet(md) = {"metrics", "dashboard"}
     /\ Head(m) = "metrics" /\ Tail(m) = none /\ Head(d) = "dashboard" /\ Tail(d) = none
     /\ Head(md) = "metrics" /\ Tail(md) = d
     /\ m # none /\ d # none /\ md # none
<1> DEFINE m == <<"metrics">>
           d == <<"dashboard">>
           md == <<"metrics", "dashboard">>
           none == <<>>
<1>1. none \o none = none /\ none \o d = d /\ m \o none = m
  OBVIOUS
<1>2. m \o d = md
  <2>1. "metrics" \in Names /\ "dashboard" \in Names
    BY DEF Names
  <2> QED BY ONLY <2>1, Pair, Zenon
<1>3. ToSet(none) = {} /\ ToSet(m) = {"metrics"} /\ ToSet(d) = {"dashboard"}
  BY DEF ToSet
<1>4. ToSet(md) = {"metrics", "dashboard"}
  BY DEF ToSet
<1>5. Head(m) = "metrics" /\ Tail(m) = none /\ Head(d) = "dashboard" /\ Tail(d) = none
  OBVIOUS
<1>6. Head(md) = "metrics" /\ Tail(md) = d
  OBVIOUS
<1>7. m # none /\ d # none /\ md # none
  OBVIOUS
<1> QED BY <1>1, <1>2, <1>3, <1>4, <1>5, <1>6, <1>7

\* The configuration is assigned; the endpoints that changed are to follow.
LEMMA PublishQuiet ==
  ASSUME OpenInv, NEW r \in Reloads, Publish(r), Underway(r)
  PROVE  Underway(r)'
<1> DEFINE u == reload[r].previous
           v == reload[r].loaded
           todo == IfChanged("metrics", u, v) \o IfChanged("dashboard", u, v)
<1>1. /\ reload[r] \in ReloadRecord /\ reload \in [Reloads -> ReloadRecord]
  BY RecordFacts DEF OpenInv, LegacyTypes
<1>2. /\ inbounds' = inbounds /\ outbounds' = outbounds /\ registry' = registry /\ services' = services
      /\ servers' = servers /\ config' = v /\ reload[r].pc = "publish" /\ open' = open
  BY DEF Publish
<1>3. reload' = [reload EXCEPT ![r].pc = "endpoints", ![r].todo = todo]
  BY DEF Publish
<1>4. todo \in {<<>>, <<"metrics">>, <<"dashboard">>, <<"metrics", "dashboard">>}
  BY ShortLists DEF IfChanged
<1>5. \A e \in Names \ ToSet(todo) : Config[u].endpoints[e] = Config[v].endpoints[e]
  <2>1. Config[u].endpoints["metrics"] # Config[v].endpoints["metrics"] => "metrics" \in ToSet(todo)
    <3> SUFFICES ASSUME Config[u].endpoints["metrics"] # Config[v].endpoints["metrics"]
                 PROVE  "metrics" \in ToSet(todo)
      OBVIOUS
    <3>1. todo \in {<<"metrics">>, <<"metrics", "dashboard">>}
      BY ShortLists DEF IfChanged
    <3> QED BY <3>1, ShortLists
  <2>2. Config[u].endpoints["dashboard"] # Config[v].endpoints["dashboard"] => "dashboard" \in ToSet(todo)
    <3> SUFFICES ASSUME Config[u].endpoints["dashboard"] # Config[v].endpoints["dashboard"]
                 PROVE  "dashboard" \in ToSet(todo)
      OBVIOUS
    <3>1. todo \in {<<"dashboard">>, <<"metrics", "dashboard">>}
      BY ShortLists DEF IfChanged
    <3> QED BY <3>1, ShortLists
  <2> QED BY <2>1, <2>2 DEF Names
<1> HIDE DEF todo
<1>6. /\ reload'[r].pc = "endpoints" /\ reload'[r].previous = u /\ reload'[r].loaded = v
      /\ reload'[r].next = reload[r].next /\ reload'[r].todo = todo
  BY <1>1, <1>3 DEF ReloadRecord
<1>7. Replaces(r)' = Replaces(r) /\ Closing(r)' = {} /\ Closing(r) = {} /\ Serving(r)' = Serving(r)
  BY <1>2, <1>6 DEF Replaces, Closing, Serving
<1>8. Ports(Names \ Closing(r))' = Ports(Names \ Closing(r))
  BY <1>2, <1>7 DEF Ports
<1>9. ServersOf(v, Names \ ToSet(todo))
  BY <1>2, <1>5 DEF Underway, Before, ServersOf
<1> QED BY <1>2, <1>4, <1>6, <1>7, <1>8, <1>9 DEF Underway, Before, ServersOf

\* What is left to do of a list that is not empty.
LEMMA TodoFacts ==
  ASSUME NEW todo \in {<<>>, <<"metrics">>, <<"dashboard">>, <<"metrics", "dashboard">>},
         todo # <<>>
  PROVE  /\ Head(todo) \in Names
         /\ Tail(todo) \in {<<>>, <<"metrics">>, <<"dashboard">>, <<"metrics", "dashboard">>}
         /\ ToSet(todo) = {Head(todo)} \cup ToSet(Tail(todo))
<1> USE DEF Names
<1>1. CASE todo = <<"metrics">>
  BY <1>1, ShortLists
<1>2. CASE todo = <<"dashboard">>
  BY <1>2, ShortLists
<1>3. CASE todo = <<"metrics", "dashboard">>
  BY <1>3, ShortLists
<1> QED BY <1>1, <1>2, <1>3

\* An endpoint server is told to stop.
LEMMA StopQuiet ==
  ASSUME OpenInv, NEW r \in Reloads, EndpointStop(r), Underway(r),
         \A e \in Names : servers[e].tag = e
  PROVE  Underway(r)'
<1>0. PICK e : e = Head(reload[r].todo)
  OBVIOUS
<1> DEFINE s == IF servers[e] \in open THEN servers[e] ELSE NoServer
<1>1. reload[r] \in ReloadRecord /\ reload \in [Reloads -> ReloadRecord]
  BY RecordFacts DEF OpenInv, LegacyTypes
<1>2. /\ inbounds' = inbounds /\ outbounds' = outbounds /\ registry' = registry /\ services' = services
      /\ servers' = servers /\ config' = config /\ reload[r].pc = "endpoints" /\ reload[r].todo # <<>>
      /\ open' = open \ {servers[e]}
  BY <1>0 DEF EndpointStop
<1>3. reload' = [reload EXCEPT ![r].pc = "closing", ![r].closing = s]
  BY <1>0 DEF EndpointStop
<1> HIDE DEF s
<1>4. /\ reload'[r].pc = "closing" /\ reload'[r].previous = reload[r].previous
      /\ reload'[r].loaded = reload[r].loaded
      /\ reload'[r].next = reload[r].next /\ reload'[r].todo = reload[r].todo
  BY <1>1, <1>3 DEF ReloadRecord
<1>5. e \in Names /\ reload[r].todo \in {<<>>, <<"metrics">>, <<"dashboard">>, <<"metrics", "dashboard">>}
  BY <1>0, <1>2, TodoFacts DEF Underway, Before
<1>6. Replaces(r)' = Replaces(r) /\ Serving(r)' = Serving(r)
  BY <1>2, <1>4 DEF Replaces, Serving
<1>7. Closing(r) = {} /\ Closing(r)' = {e}
  BY <1>0, <1>2, <1>4 DEF Closing
<1>8. Ports(Names \ {e}) = Ports(Names) \ {servers[e]}
  <2>1. \A d \in Names \ {e} : servers[d] # servers[e]
    BY <1>5
  <2>2. \A d \in Names : Bound(servers[d]) \subseteq {servers[d]}
    BY DEF Bound
  <2>3. Ports(Names) = Ports(Names \ {e}) \cup Bound(servers[e])
    BY <1>5 DEF Ports
  <2>4. servers[e] \notin Ports(Names \ {e})
    BY <2>1, <2>2 DEF Ports
  <2> QED BY <1>5, <2>2, <2>3, <2>4
<1>9. Serving(r) \subseteq InboundObjects
  BY <1>2, RecordFacts DEF OpenInv, LegacyTypes, Serving
<1>10. servers[e] \notin Serving(r)
  BY <1>5, <1>9, ServersApart DEF OpenInv, LegacyTypes
<1>11. open = Serving(r) \cup Ports(Names)
  BY <1>7 DEF Underway
<1>12. open' = Serving(r) \cup Ports(Names \ {e})
  BY <1>2, <1>8, <1>10, <1>11
<1>13. Ports(Names \ Closing(r))' = Ports(Names \ {e})
  BY <1>2, <1>7 DEF Ports
<1> QED BY <1>2, <1>4, <1>5, <1>6, <1>12, <1>13 DEF Underway, Before, ServersOf

\* Its successor is in its place.
LEMMA ReplaceQuiet ==
  ASSUME OpenInv, NEW r \in Reloads, EndpointStart(r), Underway(r), started,
         reload'[r].pc # "partial"
  PROVE  Underway(r)'
<1>0. PICK e : e = Head(reload[r].todo)
  OBVIOUS
<1> DEFINE o == EndpointOf(e, reload[r].loaded, r)
           rest == Tail(reload[r].todo)
<1>1. reload[r] \in ReloadRecord /\ reload \in [Reloads -> ReloadRecord]
      /\ servers \in [Names -> ServerObjects]
  BY RecordFacts DEF OpenInv, LegacyTypes
<1>2. /\ inbounds' = inbounds /\ outbounds' = outbounds /\ registry' = registry /\ services' = services
      /\ servers' = [servers EXCEPT ![e] = o] /\ config' = config /\ reload[r].pc = "closing"
  BY <1>0 DEF EndpointStart
<1>3. reload' = [reload EXCEPT ![r].pc = "endpoints", ![r].todo = rest] /\ open' = open \cup Bound(o)
  <2>1. \/ /\ open' = open \cup Bound(o)
           /\ reload' = [reload EXCEPT ![r].pc = "endpoints", ![r].todo = Tail(@)]
        \/ reload' = [reload EXCEPT ![r].pc = "partial"]
    BY <1>0 DEF EndpointStart
  <2>2. reload' # [reload EXCEPT ![r].pc = "partial"]
    BY <1>1 DEF ReloadRecord
  <2> QED BY <2>1, <2>2
<1>4. /\ reload[r].todo \in {<<>>, <<"metrics">>, <<"dashboard">>, <<"metrics", "dashboard">>}
      /\ reload[r].todo # <<>>
  BY <1>2 DEF Underway, Before, OpenInv, LegacyTypes
<1>5. /\ e \in Names /\ ToSet(reload[r].todo) = {e} \cup ToSet(rest)
      /\ rest \in {<<>>, <<"metrics">>, <<"dashboard">>, <<"metrics", "dashboard">>}
  BY <1>0, <1>4, TodoFacts
<1>6. o.spec = Config[reload[r].loaded].endpoints[e]
  BY DEF EndpointOf
<1> HIDE DEF o, rest
<1>7. /\ reload'[r].pc = "endpoints" /\ reload'[r].previous = reload[r].previous
      /\ reload'[r].loaded = reload[r].loaded
      /\ reload'[r].next = reload[r].next /\ reload'[r].todo = rest
  BY <1>1, <1>3 DEF ReloadRecord
<1>8. Replaces(r)' = Replaces(r) /\ Serving(r)' = Serving(r)
  BY <1>2, <1>7 DEF Replaces, Serving
<1>9. Closing(r) = {e} /\ Closing(r)' = {}
  BY <1>0, <1>2, <1>7 DEF Closing
<1>10. servers'[e] = o /\ \A d \in Names \ {e} : servers'[d] = servers[d]
  BY <1>1, <1>2, <1>5
<1>11. Ports(Names)' = Ports(Names \ {e}) \cup Bound(o)
  <2>1. UNION {Bound(servers'[d]) : d \in Names} =
          (UNION {Bound(servers[d]) : d \in Names \ {e}}) \cup Bound(o)
    BY <1>5, <1>10
  <2>2. Ports(Names)' = UNION {Bound(servers'[d]) : d \in Names}
    BY DEF Ports, Bound
  <2> QED BY <2>1, <2>2 DEF Ports
<1>12. Ports(Names \ Closing(r))' = Ports(Names)'
  BY <1>9
<1>13. open' = Serving(r)' \cup Ports(Names \ Closing(r))'
  BY <1>3, <1>8, <1>9, <1>11, <1>12 DEF Underway
<1>14. ServersOf(reload[r].loaded, Names \ ToSet(reload[r].todo))'
  <2>1. \A d \in Names \ ToSet(rest) : servers'[d].spec = Config[reload[r].loaded].endpoints[d]
    BY <1>2, <1>5, <1>6, <1>10 DEF Underway, Before, ServersOf
  <2> QED BY <1>7, <2>1 DEF ServersOf
<1> QED BY <1>2, <1>5, <1>7, <1>8, <1>13, <1>14 DEF Underway, Before, ServersOf

\* The outbounds are unregistered; the listeners stay.
LEMMA RetireQuiet ==
  ASSUME OpenInv, NEW r \in Reloads, RetireOutbounds(r), Underway(r)
  PROVE  Underway(r)'
<1>1. reload[r] \in ReloadRecord /\ reload \in [Reloads -> ReloadRecord]
  BY RecordFacts DEF OpenInv, LegacyTypes
<1>2. /\ inbounds' = inbounds /\ outbounds' = outbounds /\ servers' = servers /\ open' = open
      /\ config' = config /\ reload[r].pc = "endpoints" /\ reload[r].todo = <<>>
      /\ services' = services \ (IF registry = NoRegistry THEN outbounds ELSE registry)
  BY DEF RetireOutbounds
<1>3. reload' = [reload EXCEPT ![r].pc = "rebuild"]
  BY DEF RetireOutbounds
<1>4. services' = inbounds
  <2>1. registry = outbounds /\ services = inbounds \cup outbounds
    BY <1>2 DEF Underway
  <2>2. \A o \in inbounds : o \notin outbounds
    BY ListenersApart DEF OpenInv, LegacyTypes
  <2> QED BY <1>2, <2>1, <2>2
<1>5. /\ reload'[r].pc = "rebuild" /\ reload'[r].previous = reload[r].previous
      /\ reload'[r].loaded = reload[r].loaded
      /\ reload'[r].next = reload[r].next /\ reload'[r].todo = reload[r].todo
  BY <1>1, <1>3 DEF ReloadRecord
<1>6. Replaces(r)' = Replaces(r) /\ Serving(r)' = Serving(r) /\ Closing(r) = {} /\ Closing(r)' = {}
  BY <1>2, <1>5 DEF Replaces, Serving, Closing
<1>7. Ports(Names \ Closing(r))' = Ports(Names \ Closing(r))
  BY <1>2, <1>6 DEF Ports
<1> QED BY <1>2, <1>4, <1>5, <1>6, <1>7 DEF Underway, Before, ServersOf

\* The reload is done.
LEMMA RebuildQuiet ==
  ASSUME OpenInv, NEW r \in Reloads, Rebuild(r), Underway(r)
  PROVE  AtRest(open)'
<1> DEFINE made == BuiltAll(Config[config].outbounds, r)
           u == reload[r].previous
           v == reload[r].loaded
<1>1. /\ servers' = servers /\ open' = open /\ config' = config /\ reload[r].pc = "rebuild"
      /\ outbounds' = made /\ registry' = made
      /\ inbounds' = IF Replaces(r) THEN reload[r].next ELSE inbounds
      /\ services' = made \cup
           (IF Replaces(r) THEN (services \ inbounds) \cup reload[r].next ELSE services)
  BY DEF Rebuild
<1>2. config = v /\ v \in Versions /\ services = inbounds
  BY <1>1, RecordFacts DEF Underway, Before, OpenInv
<1>3. Shape(made, Config[config].outbounds)
  BY <1>2, BuiltShape
<1>4. inbounds' = Serving(r) /\ services' = inbounds' \cup made
  BY <1>1, <1>2 DEF Serving
<1>5. Shape(inbounds', Listeners(v))
  <2>1. CASE Replaces(r)
    BY <1>1, <2>1 DEF Underway
  <2>2. CASE ~Replaces(r)
    BY <1>1, <2>2 DEF Underway, Replaces, inboundConfigsChanged, Listeners
  <2> QED BY <2>1, <2>2
<1>6. open' = inbounds' \cup Ports(Names)'
  <2>1. Closing(r) = {}
    BY <1>1 DEF Closing
  <2>2. Ports(Names)' = Ports(Names)
    BY <1>1 DEF Ports
  <2> QED BY <1>1, <1>4, <2>1, <2>2 DEF Underway
<1>7. ServersOf(v, Names)
  <2>1. reload[r].todo = <<>> /\ ServersOf(v, Names \ ToSet(reload[r].todo))
    BY <1>1 DEF Underway, Before
  <2> QED BY <2>1, ShortLists DEF ServersOf
<1> HIDE DEF made
<1> QED BY <1>1, <1>2, <1>3, <1>4, <1>5, <1>6, <1>7 DEF AtRest, ServersOf

-----------------------------------------------------------------------------
(* Every step keeps the invariant.                                         *)

\* Reloads applied at the same time are known to have overlapped.
LEMMA AppliedAlone ==
  ASSUME OpenInv, overlapped = {}, NEW q \in Reloads, NEW r \in Reloads,
         Applying(q), Applying(r)
  PROVE  q = r
BY DEF OpenInv, OverlapKnown

\* A step of a reload when no other one is applied.
LEMMA ApplyQuiet ==
  ASSUME OpenInv, NEW r \in Reloads, ReloadStep(r), Underway(r), Applying(r), started,
         reload'[r].pc # "partial", \A e \in Names : servers[e].tag = e
  PROVE  IF Applying(r)' THEN Underway(r)' ELSE AtRest(open)'
<1>0. /\ reload[r] \in ReloadRecord /\ reload \in [Reloads -> ReloadRecord]
      /\ reload[r].pc # "loading" /\ Applies(r) /\ Lands(r)
  BY RecordFacts, ReloadMoves, ReloadLands DEF OpenInv, LegacyTypes, Applying
<1>1. Applying(r)' <=> reload'[r].pc \notin {"idle", "done", "rejected", "partial", "loading"}
  BY DEF Applying, InFlight, Ended
<1>2. CASE LoadFails(r) \/ Enter(r)
  BY <1>0, <1>2 DEF LoadFails, Enter
<1>3. CASE StageListener(r)
  <2>1. reload[r].pc = "staging" /\ reload'[r].pc = "staging"
    BY <1>0, <1>3 DEF StageListener, ReloadRecord
  <2> QED BY <1>1, <1>3, <2>1, StageQuiet
<1>4. CASE StageFails(r)
  <2>1. reload'[r].pc = "rejected"
    BY <1>0, <1>4 DEF Lands
  <2> QED BY <1>1, <1>4, <2>1, StageFailsQuiet
<1>5. CASE DrainOld(r)
  <2>1. Applying(r)'
    <3>1. reload'[r].pc = "publish"
      BY <1>0, <1>5 DEF DrainOld, ReloadRecord
    <3> QED BY <1>1, <3>1
  <2> QED BY <1>5, <2>1, DrainQuiet
<1>6. CASE Publish(r)
  <2>1. Applying(r)'
    <3>1. reload'[r].pc = "endpoints"
      BY <1>0, <1>6 DEF Publish, ReloadRecord
    <3> QED BY <1>1, <3>1
  <2> QED BY <1>6, <2>1, PublishQuiet
<1>7. CASE EndpointStop(r)
  <2>1. Applying(r)'
    <3>1. reload'[r].pc = "closing"
      BY <1>0, <1>7 DEF EndpointStop, ReloadRecord
    <3> QED BY <1>1, <3>1
  <2> QED BY <1>7, <2>1, StopQuiet
<1>8. CASE EndpointStart(r)
  <2>1. Applying(r)'
    <3>1. reload'[r].pc \in {"endpoints", "partial"}
      BY <1>0, <1>8 DEF EndpointStart, ReloadRecord
    <3> QED BY <1>1, <3>1
  <2> QED BY <1>8, <2>1, ReplaceQuiet
<1>9. CASE PluginsFail(r) \/ RebuildFails(r)
  <2>1. reload' = [reload EXCEPT ![r].pc = "partial"]
    BY <1>9 DEF PluginsFail, RebuildFails
  <2>2. reload'[r].pc = "partial"
    BY <1>0, <2>1 DEF ReloadRecord
  <2> QED BY <2>2
<1>10. CASE RetireOutbounds(r)
  <2>1. Applying(r)'
    <3>1. reload'[r].pc = "rebuild"
      <4>1. reload' = [reload EXCEPT ![r].pc = "rebuild"]
        BY <1>10 DEF RetireOutbounds
      <4> QED BY <1>0, <4>1 DEF ReloadRecord
    <3> QED BY <1>1, <3>1
  <2> QED BY <1>10, <2>1, RetireQuiet
<1>11. CASE Rebuild(r)
  <2>1. reload'[r].pc = "done"
    BY <1>0, <1>11 DEF Lands
  <2> QED BY <1>1, <1>11, <2>1, RebuildQuiet
<1> QED BY <1>2, <1>3, <1>4, <1>5, <1>6, <1>7, <1>8, <1>9, <1>10, <1>11 DEF ReloadStep

\* A reload that did not move is where it was, if the engine did not either.
LEMMA SameUnderway ==
  ASSUME NEW q \in Reloads, reload'[q] = reload[q], UNCHANGED engineVars
  PROVE  /\ Underway(q)' <=> Underway(q)
         /\ AtRest(open)' <=> AtRest(open)
<1>1. /\ inbounds' = inbounds /\ outbounds' = outbounds /\ registry' = registry /\ services' = services
      /\ servers' = servers /\ open' = open /\ config' = config
  BY DEF engineVars
<1>2. Replaces(q)' <=> Replaces(q)
  BY DEF Replaces
<1>3. Serving(q)' = Serving(q)
  BY <1>1, <1>2 DEF Serving
<1>4. Ports(Names \ Closing(q))' = Ports(Names \ Closing(q))
  BY <1>1 DEF Ports, Closing
<1>5. \A j : SectionOf(q, j)' = SectionOf(q, j) /\ Reusable(q, j)' = Reusable(q, j)
  BY <1>1 DEF SectionOf, Reusable
<1>6. StagedSoFar(q)' <=> StagedSoFar(q)
  <2>1. PICK k : k = reload[q].index - 1
    OBVIOUS
  <2>2. reload'[q].index - 1 = k
    BY <2>1
  <2>3. Fresh(q, k)' = Fresh(q, k)
    BY <1>5 DEF Fresh
  <2>4. Reused(q, k)' = Reused(q, k)
    BY <1>1, <1>5 DEF Reused
  <2> QED BY <2>1, <2>2, <2>3, <2>4 DEF StagedSoFar
<1>7. AtRest(open)' <=> AtRest(open)
  BY <1>1 DEF AtRest, Ports, ServersOf
<1>8. Underway(q)' <=> Underway(q)
  BY <1>1, <1>2, <1>3, <1>4, <1>6 DEF Underway, ServersOf
<1> QED BY <1>7, <1>8

\* A step of a reload, applied alone or not applied yet.
LEMMA ReloadKeepsQuiet ==
  ASSUME OpenInv, QuietInv, NEW r \in Reloads, ReloadStep(r)
  PROVE  QuietInv'
<1>0. /\ LegacyTypes /\ Moves(r) /\ Applies(r) /\ Touches(r)
      /\ reload[r] \in ReloadRecord /\ reload \in [Reloads -> ReloadRecord]
  BY ReloadMoves, ReloadTouches, RecordFacts DEF OpenInv, LegacyTypes
<1>1. life' = life /\ life \notin {"off", "starting"}
  BY <1>0 DEF Moves, OpenInv, StopsMeetReloads, Dormant
<1>2. started' = started
  BY DEF ReloadStep, LoadFails, Enter, StageListener, StageFails, DrainOld, Publish, EndpointStop,
         EndpointStart, PluginsFail, RetireOutbounds, RebuildFails, Rebuild, engineVars
<1>3. \A e \in Names : servers'[e].tag = e
  <2> SUFFICES ASSUME NEW e \in Names, servers'[e] # servers[e]
               PROVE  servers'[e].tag = e
    BY DEF QuietInv
  <2>1. EndpointStart(r)
    BY DEF ReloadStep, LoadFails, Enter, StageListener, StageFails, DrainOld, Publish, EndpointStop,
         PluginsFail, RetireOutbounds, RebuildFails, Rebuild, engineVars
  <2>2. PICK h : h = Head(reload[r].todo)
    OBVIOUS
  <2>3. servers' = [servers EXCEPT ![h] = EndpointOf(h, reload[r].loaded, r)]
    BY <2>1, <2>2 DEF EndpointStart
  <2>4. servers \in [Names -> ServerObjects]
    BY <1>0 DEF LegacyTypes
  <2>5. e = h /\ servers'[e] = EndpointOf(h, reload[r].loaded, r)
    BY <2>3, <2>4
  <2> QED BY <2>5 DEF EndpointOf
<1>4. \A q \in Reloads : reload'[q].pc \in {"idle", "loading"} => reload'[q].index = 1
  <2>1. reload'[r].pc \notin {"idle", "loading"}
    BY <1>0 DEF Moves, Applies
  <2> QED BY <1>0, <2>1 DEF Moves, QuietInv
<1>5. SUFFICES ASSUME life = "running", Untainted'
               PROVE  /\ (\A q \in Reloads : ~Applying(q)') => AtRest(open)'
                      /\ \A q \in Reloads : Applying(q)' => Underway(q)'
  BY <1>1, <1>2, <1>3, <1>4 DEF QuietInv
<1>6. overlapped = {} /\ overlapped' = {} /\ reload[r].pc # "partial" /\ reload'[r].pc # "partial"
  BY <1>0, <1>5 DEF Untainted, Failed, Touches, Applies
<1>7. Untainted /\ started
  <2>1. \A q \in Reloads : ~Failed(q)
    BY <1>0, <1>5, <1>6 DEF Untainted, Failed, Moves
  <2> QED BY <1>1, <1>5, <1>6, <2>1 DEF Untainted, QuietInv
<1>8. /\ (\A q \in Reloads : ~Applying(q)) => AtRest(open)
      /\ \A q \in Reloads : Applying(q) => Underway(q)
  BY <1>5, <1>7 DEF QuietInv
<1>9. \A q \in Reloads \ {r} : Applying(q)' <=> Applying(q)
  BY <1>0 DEF Moves, Applying, InFlight
<1>10. CASE LoadFails(r)
  <2>1. UNCHANGED engineVars /\ ~Applying(r) /\ ~Applying(r)'
    BY <1>0, <1>10 DEF LoadFails, Applying, InFlight, Ended, ReloadRecord
  <2>2. \A q \in Reloads \ {r} : Underway(q)' <=> Underway(q)
    BY <1>0, <2>1, SameUnderway DEF Moves
  <2>3. AtRest(open)' <=> AtRest(open)
    BY <2>1 DEF AtRest, Ports, ServersOf, Bound, engineVars
  <2> QED BY <1>8, <1>9, <2>1, <2>2, <2>3
<1>11. CASE Enter(r)
  <2>1. \A q \in Reloads \ {r} : ~Applying(q)
    BY <1>6, <1>11 DEF Enter
  <2>2. ~Applying(r) /\ reload[r].index = 1
    BY <1>11 DEF Enter, Applying, QuietInv
  <2>3. AtRest(open)
    BY <1>8, <2>1, <2>2
  <2>4. Underway(r)'
    BY <1>11, <2>2, <2>3, EnterQuiet
  <2>5. Applying(r)'
    BY <1>0, <1>11 DEF Applies, Enter, Applying, InFlight, Ended
  <2> QED BY <1>9, <2>1, <2>4, <2>5
<1>12. CASE ~LoadFails(r) /\ ~Enter(r)
  <2>1. Applying(r)
    BY <1>0, <1>12 DEF Applying, InFlight, Ended, ReloadStep, StageListener, StageFails, DrainOld,
         Publish, EndpointStop, EndpointStart, PluginsFail, RetireOutbounds, RebuildFails, Rebuild
  <2>2. \A q \in Reloads \ {r} : ~Applying(q)
    BY <1>6, <2>1, AppliedAlone
  <2>3. IF Applying(r)' THEN Underway(r)' ELSE AtRest(open)'
    BY <1>6, <1>7, <1>8, <2>1, ApplyQuiet DEF QuietInv
  <2> QED BY <1>9, <2>2, <2>3
<1> QED BY <1>10, <1>11, <1>12

\* A reload that begins has touched nothing.
LEMMA BeginKeepsQuiet ==
  ASSUME OpenInv, QuietInv, NEW r \in Reloads, WatcherReload(r) \/ DashboardReload(r)
  PROVE  QuietInv'
<1>0. /\ LegacyTypes /\ reload \in [Reloads -> ReloadRecord]
  BY DEF OpenInv, LegacyTypes
<1>1. PICK c, s : Begin(r, c, s)
  BY DEF WatcherReload, DashboardReload
<1>2. /\ UNCHANGED engineVars /\ UNCHANGED lifeVars /\ overlapped' = overlapped /\ reload[r].pc = "idle"
  BY <1>1 DEF Begin
<1>3. /\ reload'[r].pc = "loading" /\ reload'[r].index = 1
      /\ \A q \in Reloads \ {r} : reload'[q] = reload[q]
  BY <1>0, <1>1 DEF Begin, Idle
<1>4. \A q \in Reloads : Applying(q)' <=> Applying(q)
  BY <1>2, <1>3 DEF Applying, InFlight, Ended
<1>5. Untainted' <=> Untainted
  BY <1>2, <1>3 DEF Untainted, Failed
<1>6. \A q \in Reloads : Applying(q) => (Underway(q)' <=> Underway(q))
  <2>1. ~Applying(r)
    BY <1>2 DEF Applying, InFlight, Ended
  <2> QED BY <1>2, <1>3, <2>1, SameUnderway
<1>7. /\ AtRest(open)' <=> AtRest(open)
      /\ AtRest(open \cup Coming)' <=> AtRest(open \cup Coming)
      /\ ServersOf(config, Names)' <=> ServersOf(config, Names)
  BY <1>2 DEF AtRest, Coming, Ports, ServersOf, Bound, engineVars, lifeVars
<1>8. \A q \in Reloads : reload'[q].pc \in {"idle", "loading"} => reload'[q].index = 1
  BY <1>3 DEF QuietInv
<1> QED BY <1>2, <1>4, <1>5, <1>6, <1>7, <1>8 DEF QuietInv, engineVars, lifeVars

\* The elements of a list and of its parts.
LEMMA HeadAndTail ==
  ASSUME NEW S, NEW s \in Seq(S), s # <<>>
  PROVE  ToSet(s) = {Head(s)} \cup ToSet(Tail(s))
<1>1. Len(s) \in Nat \ {0} /\ DOMAIN s = 1 .. Len(s) /\ Head(s) = s[1]
  OBVIOUS
<1>2. /\ Tail(s) \in Seq(S) /\ Len(Tail(s)) = Len(s) - 1
      /\ \A i \in 1 .. Len(s) - 1 : Tail(s)[i] = s[i + 1]
  BY HeadTailProperties
<1>3. DOMAIN Tail(s) = 1 .. Len(s) - 1
  BY <1>2
<1>4. \A x \in ToSet(s) : x = Head(s) \/ x \in ToSet(Tail(s))
  <2> SUFFICES ASSUME NEW i \in 1 .. Len(s), i # 1
               PROVE  s[i] \in ToSet(Tail(s))
    BY <1>1 DEF ToSet
  <2>1. i - 1 \in 1 .. Len(s) - 1 /\ (i - 1) + 1 = i
    BY <1>1
  <2> QED BY <1>2, <1>3, <2>1 DEF ToSet
<1>5. ToSet(Tail(s)) \subseteq ToSet(s)
  <2> SUFFICES ASSUME NEW i \in 1 .. Len(s) - 1
               PROVE  s[i + 1] \in ToSet(s)
    BY <1>2, <1>3 DEF ToSet
  <2>1. i + 1 \in 1 .. Len(s)
    BY <1>1
  <2> QED BY <1>1, <2>1 DEF ToSet
<1>6. Head(s) \in ToSet(s)
  BY <1>1 DEF ToSet
<1> QED BY <1>4, <1>5, <1>6

\* The elements of two lists put together.
LEMMA JoinedSet ==
  ASSUME NEW S, NEW s \in Seq(S), NEW t \in Seq(S)
  PROVE  ToSet(s \o t) = ToSet(s) \cup ToSet(t)
<1>1. /\ s \o t \in Seq(S) /\ Len(s \o t) = Len(s) + Len(t)
      /\ \A i \in 1 .. Len(s) + Len(t) : (s \o t)[i] = IF i <= Len(s) THEN s[i] ELSE t[i - Len(s)]
  BY ConcatProperties
<1>2. /\ DOMAIN s = 1 .. Len(s) /\ DOMAIN t = 1 .. Len(t) /\ DOMAIN (s \o t) = 1 .. Len(s) + Len(t)
      /\ Len(s) \in Nat /\ Len(t) \in Nat
  BY <1>1
<1>3. \A x \in ToSet(s \o t) : x \in ToSet(s) \/ x \in ToSet(t)
  <2> SUFFICES ASSUME NEW i \in 1 .. Len(s) + Len(t)
               PROVE  (s \o t)[i] \in ToSet(s) \/ (s \o t)[i] \in ToSet(t)
    BY <1>2 DEF ToSet
  <2>1. CASE i <= Len(s)
    <3>1. i \in 1 .. Len(s) /\ (s \o t)[i] = s[i]
      BY <1>1, <1>2, <2>1
    <3> QED BY <1>2, <3>1 DEF ToSet
  <2>2. CASE ~ (i <= Len(s))
    <3>1. i - Len(s) \in 1 .. Len(t) /\ (s \o t)[i] = t[i - Len(s)]
      BY <1>1, <1>2, <2>2
    <3> QED BY <1>2, <3>1 DEF ToSet
  <2> QED BY <2>1, <2>2
<1>4. ToSet(s) \subseteq ToSet(s \o t)
  <2> SUFFICES ASSUME NEW i \in 1 .. Len(s)
               PROVE  s[i] \in ToSet(s \o t)
    BY <1>2 DEF ToSet
  <2>1. i \in 1 .. Len(s) + Len(t) /\ (s \o t)[i] = s[i]
    BY <1>1, <1>2
  <2> QED BY <1>2, <2>1 DEF ToSet
<1>5. ToSet(t) \subseteq ToSet(s \o t)
  <2> SUFFICES ASSUME NEW i \in 1 .. Len(t)
               PROVE  t[i] \in ToSet(s \o t)
    BY <1>2 DEF ToSet
  <2>1. PICK j : j = i + Len(s)
    OBVIOUS
  <2>2. j \in 1 .. Len(s) + Len(t) /\ ~ (j <= Len(s)) /\ j - Len(s) = i
    BY <1>2, <2>1
  <2>3. (s \o t)[j] = t[i]
    BY <1>1, <2>2
  <2> QED BY <1>2, <2>2, <2>3 DEF ToSet
<1> QED BY <1>3, <1>4, <1>5

\* Engine.start builds everything before it starts anything.
LEMMA BuildQuiet ==
  ASSUME OpenInv, buildComponents, ServersOf(config, Names)
  PROVE  AtRest(open \cup Coming)'
<1> DEFINE secs == Config[config].inbounds
           ins == [i \in DOMAIN secs |-> Build(secs[i], 0)]
           made == BuiltAll(Config[config].outbounds, 0)
           pair == <<servers["metrics"], servers["dashboard"]>>
           n == Len(secs)
<1>1. /\ LegacyTypes /\ config \in Versions /\ 0 \in By /\ open = {}
      /\ life = "off" /\ servers \in [Names -> ServerObjects]
  BY DEF OpenInv, LegacyTypes, StopsMeetReloads, By, buildComponents
<1>2. /\ outbounds' = made /\ registry' = made /\ inbounds' = ToSet(ins)
      /\ services' = outbounds' \cup inbounds' /\ toStart' = ins \o pair
      /\ config' = config /\ servers' = servers /\ open' = open
  BY DEF buildComponents
<1>3. /\ n \in Nat /\ DOMAIN secs = 1 .. n
      /\ Listeners(config) = {secs[i] : i \in 1 .. n}
      /\ \A i, j \in 1 .. n : secs[i].tag = secs[j].tag => i = j
  BY <1>1, ListenersOf
<1>4. \A i \in 1 .. n : Build(secs[i], 0) \in InboundObjects
  BY <1>1, <1>3, Built
<1>5. Shape(made, Config[config].outbounds)
  BY <1>1, BuiltShape
<1> HIDE DEF secs, n, made
<1>6. \A i \in 1 .. n : /\ ins[i] = Build(secs[i], 0) /\ ins[i] \in InboundObjects
                        /\ ins[i].tag = secs[i].tag /\ ins[i].spec = secs[i].spec
  BY <1>3, <1>4 DEF Build
<1>7. DOMAIN ins = 1 .. n /\ ins \in Seq(InboundObjects)
  BY <1>3, <1>4
<1> HIDE DEF ins
<1>8. ToSet(ins) = {ins[i] : i \in 1 .. n}
  BY <1>7 DEF ToSet
<1>9. Shape(ToSet(ins), Listeners(config))
  BY <1>3, <1>6, <1>8 DEF Shape
<1>10. ToSet(toStart') = ToSet(ins) \cup {servers["metrics"], servers["dashboard"]}
  <2>1. pair \in Seq(ServerObjects) /\ ToSet(pair) = {servers["metrics"], servers["dashboard"]}
    BY <1>1 DEF ToSet, Names
  <2> HIDE DEF pair
  <2>2. ins \in Seq(InboundObjects \cup ServerObjects) /\ pair \in Seq(InboundObjects \cup ServerObjects)
    BY <1>7, <2>1
  <2> QED BY <1>2, <2>1, <2>2, JoinedSet
<1>11. \A o \in ToSet(ins) : Bound(o) = {o}
  BY <1>6, <1>8, ListenersApart DEF Bound
<1>12. Coming' = ToSet(ins) \cup Ports(Names)
  <2>1. Coming' = UNION {Bound(o) : o \in ToSet(toStart')}
    BY DEF Coming, Bound
  <2>2. Ports(Names) = Bound(servers["metrics"]) \cup Bound(servers["dashboard"])
    BY DEF Ports, Names
  <2>3. UNION {Bound(o) : o \in ToSet(ins) \cup {servers["metrics"], servers["dashboard"]}} =
          (UNION {Bound(o) : o \in ToSet(ins)}) \cup Bound(servers["metrics"]) \cup Bound(servers["dashboard"])
    OBVIOUS
  <2>4. UNION {Bound(o) : o \in ToSet(ins)} = ToSet(ins)
    BY <1>11
  <2> QED BY <1>10, <2>1, <2>2, <2>3, <2>4
<1>13. Ports(Names)' = Ports(Names)
  BY <1>2 DEF Ports
<1> QED BY <1>1, <1>2, <1>5, <1>9, <1>12, <1>13 DEF AtRest, ServersOf

\* It starts them one after the other.
LEMMA StartQuiet ==
  ASSUME OpenInv, StartNext, AtRest(open \cup Coming)
  PROVE  AtRest(open \cup Coming)'
<1>1. /\ toStart # <<>> /\ open' = open \cup Bound(Head(toStart)) /\ toStart' = Tail(toStart)
      /\ inbounds' = inbounds /\ outbounds' = outbounds /\ registry' = registry /\ services' = services
      /\ servers' = servers /\ config' = config /\ life = "starting"
  BY DEF StartNext
<1>2. toStart \in Seq((inbounds \cap services) \cup {servers[e] : e \in Names})
  BY <1>1 DEF OpenInv, ToStartOwned
<1>3. ToSet(toStart) = {Head(toStart)} \cup ToSet(Tail(toStart))
  BY <1>1, <1>2, HeadAndTail
<1>4. Coming = Bound(Head(toStart)) \cup UNION {Bound(o) : o \in ToSet(Tail(toStart))}
  BY <1>3 DEF Coming
<1>5. Coming' = UNION {Bound(o) : o \in ToSet(Tail(toStart))}
  BY <1>1 DEF Coming, Bound
<1>6. (open \cup Coming)' = open \cup Coming
  BY <1>1, <1>4, <1>5
<1> QED BY <1>1, <1>6 DEF AtRest, Ports, ServersOf

\* Start, edits and stop.
LEMMA LifeKeepsQuiet ==
  ASSUME OpenInv, QuietInv, LifeStep
  PROVE  QuietInv'
<1>1. reload' = reload /\ overlapped' = overlapped /\ servers' = servers
  BY LifeKeepsPlan
<1>2. /\ \A e \in Names : servers'[e].tag = e
      /\ \A r \in Reloads : reload'[r].pc \in {"idle", "loading"} => reload'[r].index = 1
      /\ Untainted' <=> Untainted
  BY <1>1 DEF QuietInv, Untainted, Failed
<1>3. ASSUME UNCHANGED engineVars, UNCHANGED lifeVars
      PROVE  QuietInv'
  <2>1. \A q \in Reloads : (Underway(q)' <=> Underway(q)) /\ (Applying(q)' <=> Applying(q))
    BY <1>1, <1>3, SameUnderway DEF Applying, InFlight
  <2>2. /\ AtRest(open)' <=> AtRest(open)
        /\ AtRest(open \cup Coming)' <=> AtRest(open \cup Coming)
        /\ ServersOf(config, Names)' <=> ServersOf(config, Names)
    BY <1>3 DEF AtRest, Coming, Ports, ServersOf, Bound, engineVars, lifeVars
  <2> QED BY <1>2, <1>3, <2>1, <2>2 DEF QuietInv, engineVars, lifeVars
<1>4. CASE Edit \/ scheduleReload \/ UNCHANGED vars
  BY <1>3, <1>4 DEF Edit, scheduleReload, vars
<1>5. CASE buildComponents
  <2>1. life = "off" /\ life' = "starting"
    BY <1>5 DEF buildComponents
  <2>2. AtRest(open \cup Coming)'
    BY <1>5, <2>1, BuildQuiet DEF QuietInv
  <2> QED BY <1>2, <2>1, <2>2 DEF QuietInv
<1>6. CASE StartNext
  <2>1. life = "starting" /\ life' = "starting"
    BY <1>6 DEF StartNext
  <2>2. AtRest(open \cup Coming)'
    BY <1>6, <2>1, StartQuiet DEF QuietInv
  <2> QED BY <1>2, <2>1, <2>2 DEF QuietInv
<1>7. CASE Started
  <2>1. /\ life = "starting" /\ life' = "running" /\ started' = TRUE /\ toStart = <<>>
        /\ config' = config /\ inbounds' = inbounds /\ outbounds' = outbounds
        /\ registry' = registry /\ services' = services /\ open' = open
    BY <1>7 DEF Started
  <2>2. Coming = {}
    BY <2>1, ShortLists DEF Coming
  <2>3. AtRest(open)
    <3>1. open \cup Coming = open
      BY <2>2
    <3> QED BY <2>1, <3>1 DEF QuietInv
  <2>4. AtRest(open)'
    BY <1>1, <2>1, <2>3 DEF AtRest, Ports, ServersOf, Bound
  <2>5. \A q \in Reloads : ~Applying(q)'
    BY <1>1, <2>1 DEF OpenInv, StopsMeetReloads, Dormant, Applying, InFlight, Ended
  <2> QED BY <1>2, <2>1, <2>4, <2>5 DEF QuietInv
<1>8. CASE StartRefused \/ Signal \/ StopStep
  <2>1. life' \notin {"off", "starting", "running"}
    BY <1>8 DEF StartRefused, Signal, StopStep, StopEndpoints, StopOutbounds, StopServices,
         StopFinished, StopTimedOut
  <2> QED BY <1>2, <2>1 DEF QuietInv
<1> QED BY <1>4, <1>5, <1>6, <1>7, <1>8 DEF LifeStep, StartStep

\* While no reload runs, and none was applied together with another one or
\* failed after it had published, listeners, outbounds, registry, endpoints,
\* route targets and services are all those of the engine's configuration,
\* whatever was rejected before (Engine.start, applyReloadConfig).
THEOREM QuietMeansAgreed == Spec => []QuietAgreement
<1>1. Init => QuietInv
  <2> SUFFICES ASSUME Init PROVE QuietInv
    OBVIOUS
  <2>1. /\ life = "off" /\ config = 1 /\ servers = [e \in Names |-> EndpointOf(e, 1, 0)]
        /\ \A r \in Reloads : reload[r] = Idle
    BY EndpointNames DEF Init
  <2> QED BY <2>1 DEF QuietInv, ServersOf, EndpointOf, Idle
<1>2. OpenInv /\ QuietInv /\ [Next]_vars => QuietInv'
  BY ReloadKeepsQuiet, BeginKeepsQuiet, LifeKeepsQuiet DEF Next, LifeStep
<1>3. OpenInv /\ QuietInv => QuietAgreement
  BY QuietMeaning DEF OpenInv
<1> QED BY <1>1, <1>2, <1>3, OpenAlways, PTL DEF Spec

=============================================================================
