----------------------------- MODULE RoutedReload -----------------------------
(***************************************************************************)
(* Transactional reload of routing and outbounds under live traffic:       *)
(* RoutingGenerationRuntime (src/router/generation.ts), its router and     *)
(* policy adapters, the publication step of the outbound adapter, the      *)
(* component list of src/reload/runtimeIntegration.ts and Engine.openTcp.  *)
(*                                                                         *)
(* A transaction stages a router and a policy generation; commit() of the  *)
(* last expected component publishes the pair, so that with changed        *)
(* outbounds it appears in the step that switches the registry.  openTcp   *)
(* keeps the pair it acquired across the awaits of its failover loop and   *)
(* looks each candidate up in the registry of the moment.                  *)
(*                                                                         *)
(* Reference counting inside the registry is the business of               *)
(* OutboundRegistry; here a generation of outbounds is its set of tags.    *)
(* The commits and the rollbacks of these components run without yielding  *)
(* to the event loop; new traffic runs before, between and after them.     *)
(***************************************************************************)
EXTENDS Integers, Sequences, FiniteSets, SequencesExt

CONSTANTS
    Tags,        \* outbound tags
    PolicyTag,   \* the tag of the policy
    Conns,       \* connections, reused when closed
    MaxGen       \* bound: number of successful reloads

ASSUME RoutedAssumption == PolicyTag \notin Tags /\ IsFiniteSet(Conns) /\ MaxGen \in Nat

Order == <<"router", "policy", "outbound", "dns">>
Component == Range(Order)

\* A configuration that passes validation: the rules (with the default) and
\* the members of the policy name what exists.
Configs ==
    {c \in [tags : SUBSET Tags, rules : SUBSET (Tags \cup {PolicyTag}) \ {{}},
            policy : SUBSET Tags \ {{}}] :
        c.rules \subseteq c.tags \cup {PolicyTag} /\ c.policy \subseteq c.tags}

Ids == 0 .. MaxGen
Keys == Ids \X Ids
Pairs == [rid : Ids, rules : SUBSET (Tags \cup {PolicyTag}), pid : Ids, policy : SUBSET Tags]

VARIABLES
    config,      \* Engine.config
    generation,  \* RuntimeReloadIntegration.generation
    active,      \* activeGeneration: router and policy, each with its id
    usage,       \* pairKey -> handles in use
    draining,    \* keys of the pairs that drain
    registry,    \* tags of the registry's active generation
    initial,     \* keys of Engine.outbounds, filled at start
    txn,         \* the reload in progress
    conns        \* connection -> where openTcp is with it

routing == <<active, usage, draining>>
vars == <<config, generation, routing, registry, initial, txn, conns>>

PairKey(p) == <<p.rid, p.pid>>

NoTxn == [phase |-> "idle"]
Idle == [st |-> "idle"]

TypeOK ==
    /\ config \in Configs
    /\ generation \in 0 .. MaxGen
    /\ active \in Pairs
    /\ usage \in [Keys -> 0 .. Cardinality(Conns)]
    /\ draining \in SUBSET Keys
    /\ registry \in SUBSET Tags /\ initial \in SUBSET Tags
    /\ txn.phase \in {"idle", "prepared", "commit", "rollback", "rolled_back", "cleanup"}
    /\ \A c \in Conns : conns[c].st \in {"idle", "connecting", "open"}

Init ==
    /\ config \in Configs
    /\ generation = 0
    /\ active = [rid |-> 0, rules |-> config.rules, pid |-> 0, policy |-> config.policy]
    /\ usage = [k \in Keys |-> 0]
    /\ draining = {}
    /\ registry = config.tags /\ initial = config.tags
    /\ txn = NoTxn
    /\ conns = [c \in Conns |-> Idle]

-----------------------------------------------------------------------------
(* The reload transaction.                                                 *)

\* changedRuntimeComponents; "dns" stands for what changes besides.
Changed(cand, dns) ==
    (IF cand.rules # config.rules THEN {"router"} ELSE {})
    \cup (IF cand.policy # config.policy THEN {"policy"} ELSE {})
    \cup (IF cand.tags # config.tags THEN {"outbound"} ELSE {})
    \cup (IF dns THEN {"dns"} ELSE {})

\* Mutant of Expected: the outbound component is never waited for.
ExpectedWithoutOutbound(changed) == changed \cap {"router", "policy"}

\* expectedRoutingComponents
Expected(changed) ==
    IF changed \cap {"router", "policy"} = {} THEN {}
    ELSE changed \cap {"router", "policy", "outbound"}

\* prepare of every changed component: begin() and the staged candidates.
Begin(cand, dns) ==
    /\ txn.phase = "idle" /\ generation < MaxGen
    /\ Changed(cand, dns) # {}
    /\ LET changed == Changed(cand, dns)
           next == generation + 1
       IN txn' = [phase |-> "prepared", cand |-> cand, changed |-> changed,
                  expected |-> Expected(changed), committed |-> {}, published |-> FALSE,
                  old |-> active, oldTags |-> registry, done |-> {},
                  staged |->
                     [rid |-> IF "router" \in changed THEN next ELSE active.rid,
                      rules |-> IF "router" \in changed THEN cand.rules ELSE active.rules,
                      pid |-> IF "policy" \in changed THEN next ELSE active.pid,
                      policy |-> IF "policy" \in changed THEN cand.policy ELSE active.policy]]
    /\ UNCHANGED <<config, generation, routing, registry, initial, conns>>

\* The next component, in the order of createRuntimeComponents.
Rank(m) == CHOOSE i \in DOMAIN Order : Order[i] = m
IsNext(m) ==
    /\ m \in txn.changed \ txn.done
    /\ \A n \in txn.changed \ txn.done : Rank(m) <= Rank(n)
IsLast(m) == m \in txn.done /\ \A n \in txn.done : Rank(n) <= Rank(m)

\* RoutingGenerationRuntime.commit: publish when the last one has committed.
RoutingCommit(m, t) ==
    LET u == [t EXCEPT !.committed = @ \cup {m}] IN
    IF u.expected \subseteq u.committed
    THEN /\ active' = u.staged
         /\ draining' = draining \cup {PairKey(active)}
         /\ txn' = [u EXCEPT !.published = TRUE]
    ELSE txn' = u /\ UNCHANGED <<active, draining>>

Commit(m) ==
    /\ txn.phase \in {"prepared", "commit"} /\ IsNext(m)
    /\ LET t == [txn EXCEPT !.phase = "commit", !.done = @ \cup {m}] IN
       /\ IF m \in txn.expected THEN RoutingCommit(m, t)
          ELSE txn' = t /\ UNCHANGED <<active, draining>>
       /\ registry' = IF m = "outbound" THEN txn.cand.tags ELSE registry
    /\ UNCHANGED <<config, generation, usage, initial, conns>>

\* A commit throws, or is refused because the deadline has passed.
CommitFails ==
    /\ txn.phase \in {"prepared", "commit"} /\ txn.done # txn.changed
    /\ txn' = [txn EXCEPT !.phase = "rollback"]
    /\ UNCHANGED <<config, generation, routing, registry, initial, conns>>

\* RoutingGenerationRuntime.rollback
RoutingRollback(t) ==
    IF t.published
    THEN /\ active' = t.old
         /\ draining' = draining \ {PairKey(t.old), PairKey(active)}
         /\ txn' = [t EXCEPT !.published = FALSE]
    ELSE txn' = t /\ UNCHANGED <<active, draining>>

\* Mutant of Rollback: the outbound adapter leaves the routing pair to the
\* others, which have already been rolled back in vain.
RollbackRegistryOnly(m) ==
    /\ txn.phase = "rollback" /\ IsLast(m)
    /\ txn' = [txn EXCEPT !.done = @ \ {m}]
    /\ registry' = IF m = "outbound" THEN txn.oldTags ELSE registry
    /\ UNCHANGED <<config, generation, active, draining, usage, initial, conns>>

\* Rollback of the components that have committed, in reverse order.
Rollback(m) ==
    /\ txn.phase = "rollback" /\ IsLast(m)
    /\ LET t == [txn EXCEPT !.done = @ \ {m}] IN
       IF m \in txn.expected THEN RoutingRollback(t)
       ELSE txn' = t /\ UNCHANGED <<active, draining>>
    /\ registry' = IF m = "outbound" THEN txn.oldTags ELSE registry
    /\ UNCHANGED <<config, generation, usage, initial, conns>>

RollbackDone ==
    /\ txn.phase = "rollback" /\ txn.done = {}
    /\ txn' = [txn EXCEPT !.phase = "rolled_back"]
    /\ UNCHANGED <<config, generation, routing, registry, initial, conns>>

\* Mutant of Cleanup: the old pair is left to the handles, used or not.
CleanupKeepsDraining(success) ==
    /\ txn' = NoTxn
    /\ IF success THEN config' = txn.cand /\ generation' = generation + 1
       ELSE UNCHANGED <<config, generation>>
    /\ UNCHANGED <<active, usage, draining, registry, initial, conns>>

\* RoutingGenerationRuntime.cleanup, and what reload() does with the result.
Cleanup(success) ==
    /\ txn' = NoTxn
    /\ draining' = IF txn.published /\ usage[PairKey(txn.old)] = 0
                   THEN draining \ {PairKey(txn.old)} ELSE draining
    /\ IF success THEN config' = txn.cand /\ generation' = generation + 1
       ELSE UNCHANGED <<config, generation>>
    /\ UNCHANGED <<active, usage, registry, initial, conns>>

CleanupCommitted == txn.phase = "commit" /\ txn.done = txn.changed /\ Cleanup(TRUE)
CleanupRolledBack == txn.phase = "rolled_back" /\ Cleanup(FALSE)

-----------------------------------------------------------------------------
(* Engine.openTcp.                                                         *)

\* The event loop turns: no block of commits or rollbacks is running.
Yielded == txn.phase \in {"idle", "prepared", "rolled_back"}

\* policyManager.select for the target of the rule that matches: the tag
\* itself, or the members of the policy in an order that health decides.
Candidates(p, target) == IF target = PolicyTag THEN SetToSeqs(p.policy) ELSE {<<target>>}

\* The rest of a candidate list from the first outbound that can be found.
Usable(t) == t \in registry \cup initial
SkipMissing(s) ==
    LET first == SelectInSeq(s, Usable) IN
    IF first = 0 THEN <<>> ELSE SubSeq(s, first, Len(s))

\* RoutingGenerationHandle.release
Release(key, u) ==
    /\ usage' = [u EXCEPT ![key] = @ - 1]
    /\ draining' = IF usage'[key] = 0 THEN draining \ {key} ELSE draining

\* connect() is called for the first candidate that exists, by reference or
\* from the engine's own map; without one the request fails.
Try(c, key, list, u) ==
    LET rest == SkipMissing(list) IN
    IF rest = <<>>
    THEN conns' = [conns EXCEPT ![c] = Idle] /\ Release(key, u)
    ELSE /\ conns' = [conns EXCEPT ![c] =
                        [st |-> "connecting", key |-> key, tag |-> Head(rest),
                         rest |-> Tail(rest), ref |-> Head(rest) \in registry]]
         /\ usage' = u /\ UNCHANGED draining

Open(c) ==
    /\ Yielded /\ conns[c].st = "idle"
    /\ \E target \in active.rules : \E list \in Candidates(active, target) :
          Try(c, PairKey(active), list, [usage EXCEPT ![PairKey(active)] = @ + 1])
    /\ UNCHANGED <<config, generation, active, registry, initial, txn>>

ConnectFails(c) ==
    /\ Yielded /\ conns[c].st = "connecting"
    /\ Try(c, conns[c].key, conns[c].rest, usage)
    /\ UNCHANGED <<config, generation, active, registry, initial, txn>>

Connected(c) ==
    /\ Yielded /\ conns[c].st = "connecting"
    /\ conns' = [conns EXCEPT ![c] = [st |-> "open"]]
    /\ Release(conns[c].key, usage)
    /\ UNCHANGED <<config, generation, active, registry, initial, txn>>

Close(c) ==
    /\ Yielded /\ conns[c].st = "open"
    /\ conns' = [conns EXCEPT ![c] = Idle]
    /\ UNCHANGED <<config, generation, routing, registry, initial, txn>>

-----------------------------------------------------------------------------
Next ==
    \/ \E cand \in Configs, dns \in BOOLEAN : Begin(cand, dns)
    \/ \E m \in Component : Commit(m)
    \/ CommitFails
    \/ \E m \in Component : Rollback(m)
    \/ RollbackDone
    \/ CleanupCommitted
    \/ CleanupRolledBack
    \/ \E c \in Conns : Open(c)
    \/ \E c \in Conns : ConnectFails(c)
    \/ \E c \in Conns : Connected(c)
    \/ \E c \in Conns : Close(c)

Spec == Init /\ [][Next]_vars

-----------------------------------------------------------------------------
(* Properties.                                                             *)

\* At every step of a reload, each outbound the routing pair may choose is in
\* the published registry, even where no request can be routed yet.
RouteTargetsExist ==
    \A target \in active.rules :
        IF target = PolicyTag THEN active.policy \subseteq registry ELSE target \in registry

\* Between reloads the published router, policy and registry are those of the
\* engine's configuration, after failed reloads as after successful ones.
PublishedMatchesConfig ==
    txn.phase = "idle" =>
        /\ active.rules = config.rules
        /\ active.policy = config.policy
        /\ registry = config.tags

\* What is published can be routed at every step, and is what the configuration
\* says whenever no reload is running.
PublishedSound == TypeOK /\ RouteTargetsExist /\ PublishedMatchesConfig

\* Between reloads the draining table holds exactly the pairs that are in use
\* and no longer active, and the usage counts are those of the requests.
DrainingInUse ==
    /\ txn.phase = "idle" =>
          draining = {k \in Keys \ {PairKey(active)} : usage[k] > 0}
    /\ \A k \in Keys :
          usage[k] = Cardinality({c \in Conns : conns[c].st = "connecting" /\ conns[c].key = k})

\* Every connect() runs under a reference to a generation of outbounds.
SetupHoldsReference == \A c \in Conns : conns[c].st = "connecting" => conns[c].ref
=============================================================================
