------------------------- MODULE RuntimeReloadProofs -------------------------
(***************************************************************************)
(* Safety of the two runtimes a transactional reload replaces as a whole:  *)
(* the routing runtime, for any outbounds, connections and number of       *)
(* reloads, and an HTTP endpoint, for any addresses and settings. The two  *)
(* specifications share no variable.                                       *)
(***************************************************************************)
EXTENDS RoutedReload, EndpointReload, FiniteSetTheorems, TLAPS

-----------------------------------------------------------------------------
(* The routing reload: its inductive invariant.                            *)

\* The connections being set up under the pair k.
On(cs, k) == {c \in Conns : cs[c].st = "connecting" /\ cs[c].key = k}

\* The pairs with a handle in use.
InUse == {k \in Keys : usage[k] > 0}

\* The usage counts are those of the requests, and no request holds a pair of a
\* generation still to come.
Setups ==
  /\ conns = [c \in Conns |-> conns[c]]
  /\ \A c \in Conns : conns[c].st = "connecting" => conns[c].key \in Keys
  /\ \A k \in Keys : usage[k] = Cardinality(On(conns, k))
  /\ \A k \in InUse : k[1] <= generation /\ k[2] <= generation

\* The pair p and the tags are those of the engine's configuration.
Of(p, tags) ==
  /\ p.rules = config.rules /\ p.policy = config.policy /\ tags = config.tags
  /\ p.rid <= generation /\ p.pid <= generation

\* A reload in progress.
Txns == [phase : {"prepared", "commit", "rollback", "rolled_back"}, cand : Configs,
         changed : SUBSET Component, expected : SUBSET Component, committed : SUBSET Component,
         published : BOOLEAN, old : Pairs, oldTags : SUBSET Tags, done : SUBSET Component,
         staged : Pairs]

\* What prepare has fixed: the old pair and tags are those of the
\* configuration, and the staged pair is the candidate's, under the next id
\* where it differs.
Planned ==
  /\ txn \in Txns /\ generation < MaxGen
  /\ Of(txn.old, txn.oldTags)
  /\ txn.expected = Expected(txn.changed)
  /\ "router" \notin txn.changed => txn.cand.rules = config.rules
  /\ "policy" \notin txn.changed => txn.cand.policy = config.policy
  /\ "outbound" \notin txn.changed => txn.cand.tags = config.tags
  /\ txn.staged.rules = txn.cand.rules /\ txn.staged.policy = txn.cand.policy
  /\ txn.staged.rid <= generation + 1 /\ txn.staged.pid <= generation + 1
  /\ "router" \in txn.changed => txn.staged.rid = generation + 1
  /\ "policy" \in txn.changed => txn.staged.pid = generation + 1

\* How far the commits or rollbacks have come: the pair is published exactly
\* when all expected components have committed, the registry is switched with
\* the outbound component, and the outbound component is the last of the
\* expected ones to commit and the first to be rolled back.
Progress ==
  /\ txn.done \subseteq txn.changed
  /\ active = IF txn.published THEN txn.staged ELSE txn.old
  /\ registry = IF "outbound" \in txn.done THEN txn.cand.tags ELSE txn.oldTags
  /\ txn.published => txn.expected # {} /\ txn.expected \subseteq txn.done
  /\ "outbound" \in txn.done /\ txn.expected # {} => txn.published
  /\ txn.phase \in {"prepared", "rolled_back"} => txn.done = {}
  /\ txn.phase \in {"prepared", "commit"} =>
       /\ txn.committed = txn.done \cap txn.expected
       /\ txn.expected # {} /\ txn.expected \subseteq txn.done => txn.published

\* The candidate's pair is the active one and its reload is still open.
Published == txn.phase # "idle" /\ txn.published = TRUE

\* The draining table, within and between reloads.
Drains ==
  draining = IF Published THEN InUse \cup {PairKey(txn.old)} ELSE InUse \ {PairKey(active)}

\* The inductive invariant.
RInv ==
  /\ TypeOK
  /\ Setups
  /\ txn.phase = "idle" => txn = NoTxn /\ Of(active, registry)
  /\ txn.phase # "idle" => Planned /\ Progress
  /\ Drains

-----------------------------------------------------------------------------
(* Facts about the model, and what the invariant says.                     *)

\* The order of createRuntimeComponents.
LEMMA Components ==
  /\ Component = {"router", "policy", "outbound", "dns"}
  /\ Rank("router") = 1 /\ Rank("policy") = 2 /\ Rank("outbound") = 3 /\ Rank("dns") = 4
<1>1. DOMAIN Order = 1 .. 4 /\ Order[1] = "router" /\ Order[2] = "policy"
      /\ Order[3] = "outbound" /\ Order[4] = "dns"
  BY DEF Order
<1>2. Component = {"router", "policy", "outbound", "dns"}
  BY <1>1 DEF Component, Range
<1>3. \A i, j \in DOMAIN Order : Order[i] = Order[j] => i = j
  BY <1>1
<1>4. ASSUME NEW i \in DOMAIN Order
      PROVE  Rank(Order[i]) = i
  <2>1. Rank(Order[i]) \in DOMAIN Order /\ Order[Rank(Order[i])] = Order[i]
    BY DEF Rank
  <2> QED BY <1>3, <2>1
<1>5. Rank(Order[1]) = 1 /\ Rank(Order[2]) = 2 /\ Rank(Order[3]) = 3 /\ Rank(Order[4]) = 4
  BY <1>1, <1>4
<1> QED BY <1>1, <1>2, <1>5

\* The fields of a reload.
LEMMA TxnFields ==
  ASSUME NEW t \in Txns
  PROVE  /\ t.phase \in {"prepared", "commit", "rollback", "rolled_back"}
         /\ t.cand \in Configs /\ t.changed \in SUBSET Component /\ t.expected \in SUBSET Component
         /\ t.committed \in SUBSET Component /\ t.published \in BOOLEAN /\ t.old \in Pairs
         /\ t.oldTags \in SUBSET Tags /\ t.done \in SUBSET Component /\ t.staged \in Pairs
BY DEF Txns

\* The numbers and keys of a well-typed state.
LEMMA Numbers ==
  ASSUME TypeOK
  PROVE  /\ MaxGen \in Nat /\ generation \in Nat /\ generation <= MaxGen
         /\ active.rid \in Ids /\ active.pid \in Ids
         /\ PairKey(active) \in Keys
         /\ \A k \in Keys : usage[k] \in Nat
<1>1. MaxGen \in Nat /\ generation \in Nat /\ generation <= MaxGen
  BY RoutedAssumption DEF TypeOK
<1>2. active.rid \in Ids /\ active.pid \in Ids
  BY DEF TypeOK, Pairs
<1>3. PairKey(active) \in Keys
  BY <1>2 DEF PairKey, Keys
<1>4. Cardinality(Conns) \in Nat
  BY RoutedAssumption, FS_CardinalityType
<1>5. \A k \in Keys : usage[k] \in Nat
  BY <1>4 DEF TypeOK
<1> QED BY <1>1, <1>2, <1>3, <1>5

\* The pair a reload may publish has a key that no request and no old pair has.
LEMMA StagedIsNew ==
  ASSUME TypeOK, Setups, Planned, txn.expected # {}
  PROVE  /\ PairKey(txn.staged) \in Keys /\ PairKey(txn.staged) \notin InUse
         /\ PairKey(txn.old) \in Keys /\ PairKey(txn.staged) # PairKey(txn.old)
<1>1. txn.staged \in Pairs /\ txn.old \in Pairs
  BY TxnFields DEF Planned
<1>2. /\ txn.staged.rid \in Ids /\ txn.staged.pid \in Ids /\ txn.old.rid \in Ids /\ txn.old.pid \in Ids
  BY <1>1 DEF Pairs
<1>3. "router" \in txn.changed \/ "policy" \in txn.changed
  BY DEF Planned, Expected
<1>4. txn.staged.rid = generation + 1 \/ txn.staged.pid = generation + 1
  BY <1>3 DEF Planned
<1>5. txn.old.rid <= generation /\ txn.old.pid <= generation
  BY DEF Planned, Of
<1>6. generation \in Nat
  BY Numbers
<1>7. PairKey(txn.staged) \in Keys /\ PairKey(txn.old) \in Keys
  BY <1>2 DEF PairKey, Keys
<1>8. PairKey(txn.staged) # PairKey(txn.old)
  <2>1. ~(txn.staged.rid = txn.old.rid /\ txn.staged.pid = txn.old.pid)
    BY <1>4, <1>5, <1>6
  <2> QED BY <2>1 DEF PairKey
<1>9. PairKey(txn.staged) \notin InUse
  <2> SUFFICES ASSUME PairKey(txn.staged) \in InUse
               PROVE  FALSE
    OBVIOUS
  <2>1. PairKey(txn.staged)[1] <= generation /\ PairKey(txn.staged)[2] <= generation
    BY DEF Setups
  <2>2. txn.staged.rid <= generation /\ txn.staged.pid <= generation
    BY <2>1 DEF PairKey
  <2>3. txn.staged.rid \in Int /\ txn.staged.pid \in Int
    BY <1>2 DEF Ids
  <2> QED BY <1>4, <1>6, <2>2
<1> QED BY <1>7, <1>8, <1>9

\* A valid configuration's routes lead to its own outbounds.
LEMMA Routable ==
  ASSUME NEW c \in Configs, active.rules = c.rules, active.policy = c.policy, registry = c.tags
  PROVE  RouteTargetsExist
<1>1. c.rules \subseteq c.tags \cup {PolicyTag} /\ c.policy \subseteq c.tags
  BY DEF Configs
<1> QED BY <1>1 DEF RouteTargetsExist

\* Also in the middle of a reload: the pair that is published matches the
\* registry, because the two change in one step or the routes do not change.
LEMMA PublishedMeaning ==
  ASSUME RInv
  PROVE  PublishedSound
<1>1. TypeOK
  BY DEF RInv
<1>2. PublishedMatchesConfig
  BY DEF RInv, Of, PublishedMatchesConfig
<1>3. CASE txn.phase = "idle"
  BY <1>1, <1>2, <1>3, Routable DEF PublishedMatchesConfig, TypeOK, PublishedSound
<1>4. CASE txn.phase # "idle"
  <2>1. Planned /\ Progress
    BY <1>4 DEF RInv
  <2>2. txn.cand \in Configs /\ config \in Configs /\ txn.published \in BOOLEAN
    BY <1>1, <2>1, TxnFields DEF TypeOK, Planned
  <2>3. CASE txn.published
    <3>1. active.rules = txn.cand.rules /\ active.policy = txn.cand.policy
      BY <2>1, <2>3 DEF Planned, Progress
    <3>2. registry = txn.cand.tags
      <4>1. "outbound" \in txn.changed => "outbound" \in txn.done
        BY <2>1, <2>3 DEF Planned, Progress, Expected
      <4> QED BY <2>1, <4>1 DEF Planned, Progress, Of
    <3> QED BY <1>1, <1>2, <2>2, <3>1, <3>2, Routable DEF PublishedSound
  <2>4. CASE ~txn.published
    <3>1. active.rules = config.rules /\ active.policy = config.policy
      BY <2>1, <2>4 DEF Planned, Progress, Of
    <3>2. CASE "outbound" \notin txn.done
      <4>1. registry = config.tags
        BY <2>1, <3>2 DEF Planned, Progress, Of
      <4> QED BY <1>1, <1>2, <2>2, <3>1, <4>1, Routable DEF PublishedSound
    <3>3. CASE "outbound" \in txn.done
      <4>1. txn.expected = {} /\ registry = txn.cand.tags
        BY <2>1, <2>4, <3>3 DEF Progress
      <4>2. "router" \notin txn.changed /\ "policy" \notin txn.changed
        BY <2>1, <4>1 DEF Planned, Expected
      <4>3. active.rules = txn.cand.rules /\ active.policy = txn.cand.policy
        BY <2>1, <3>1, <4>2 DEF Planned
      <4> QED BY <1>1, <1>2, <2>2, <4>1, <4>3, Routable DEF PublishedSound
    <3> QED BY <3>2, <3>3
  <2> QED BY <2>2, <2>3, <2>4
<1> QED BY <1>3, <1>4

\* Between reloads the draining table is exact.
LEMMA DrainingMeaning ==
  ASSUME RInv
  PROVE  DrainingInUse
BY DEF RInv, Drains, InUse, Published, Setups, On, DrainingInUse

\* The engine as it starts.
LEMMA RoutedInit ==
  ASSUME Init
  PROVE  RInv
<1>1. TypeOK
  <2>1. config.rules \in SUBSET (Tags \cup {PolicyTag}) /\ config.policy \in SUBSET Tags
        /\ config.tags \in SUBSET Tags
    BY DEF Init, Configs
  <2>2. 0 \in Ids /\ 0 \in 0 .. MaxGen /\ 0 \in 0 .. Cardinality(Conns)
    BY RoutedAssumption, FS_CardinalityType DEF Ids
  <2>3. active \in Pairs
    BY <2>1, <2>2 DEF Init, Pairs
  <2>4. usage \in [Keys -> 0 .. Cardinality(Conns)]
    BY <2>2 DEF Init
  <2> QED BY <2>1, <2>2, <2>3, <2>4 DEF Init, TypeOK, NoTxn, Idle
<1>2. Setups
  <2>1. \A k : On(conns, k) = {}
    BY DEF Init, On, Idle
  <2>2. \A k \in Keys : usage[k] = Cardinality(On(conns, k)) /\ ~(usage[k] > 0)
    BY <2>1, FS_EmptySet DEF Init
  <2>3. conns = [c \in Conns |-> conns[c]] /\ \A c \in Conns : conns[c].st = "idle"
    BY DEF Init, Idle
  <2> QED BY <2>2, <2>3 DEF Setups, InUse
<1>3. txn.phase = "idle" /\ txn = NoTxn /\ Of(active, registry)
  BY DEF Init, NoTxn, Of
<1>4. Drains
  <2>1. InUse = {}
    BY DEF Init, InUse
  <2> QED BY <1>3, <2>1 DEF Init, Drains, Published
<1> QED BY <1>1, <1>2, <1>3, <1>4 DEF RInv

-----------------------------------------------------------------------------
(* The reload.                                                             *)

\* A step of the reload that leaves requests alone.
LEMMA SetupsKept ==
  ASSUME Setups, UNCHANGED <<conns, usage, generation>>
  PROVE  Setups' /\ InUse' = InUse
BY DEF Setups, InUse, On

\* prepare: nothing is published.
LEMMA BeginStep ==
  ASSUME RInv, NEW cand \in Configs, NEW dns \in BOOLEAN, Begin(cand, dns)
  PROVE  RInv'
<1> DEFINE changed == Changed(cand, dns)
           next == generation + 1
           staged == [rid |-> IF "router" \in changed THEN next ELSE active.rid,
                      rules |-> IF "router" \in changed THEN cand.rules ELSE active.rules,
                      pid |-> IF "policy" \in changed THEN next ELSE active.pid,
                      policy |-> IF "policy" \in changed THEN cand.policy ELSE active.policy]
<1>1. /\ txn.phase = "idle" /\ generation < MaxGen
      /\ txn' = [phase |-> "prepared", cand |-> cand, changed |-> changed,
                 expected |-> Expected(changed), committed |-> {}, published |-> FALSE,
                 old |-> active, oldTags |-> registry, done |-> {}, staged |-> staged]
      /\ UNCHANGED <<config, generation, active, usage, draining, registry, initial, conns>>
  BY DEF Begin, routing
<1>2. TypeOK /\ Setups /\ Drains /\ Of(active, registry)
  BY <1>1 DEF RInv
<1>3. /\ "router" \in changed <=> cand.rules # config.rules
      /\ "policy" \in changed <=> cand.policy # config.policy
      /\ "outbound" \in changed <=> cand.tags # config.tags
      /\ changed \in SUBSET Component /\ Expected(changed) \in SUBSET Component
  BY Components DEF Changed, Expected
<1> HIDE DEF changed
<1>4. staged \in Pairs /\ staged.rules = cand.rules /\ staged.policy = cand.policy
      /\ ("router" \in changed => staged.rid = next) /\ ("policy" \in changed => staged.pid = next)
      /\ staged.rid <= next /\ staged.pid <= next
  <2>1. next \in Ids /\ active.rid \in Ids /\ active.pid \in Ids
    BY <1>1, <1>2, Numbers DEF Ids
  <2>2. /\ cand.rules \in SUBSET (Tags \cup {PolicyTag}) /\ cand.policy \in SUBSET Tags
        /\ active.rules \in SUBSET (Tags \cup {PolicyTag}) /\ active.policy \in SUBSET Tags
    BY <1>2 DEF Configs, TypeOK, Pairs
  <2>0. next <= next /\ active.rid <= next /\ active.pid <= next
    BY <1>2, <2>1, Numbers DEF Of, Ids
  <2> HIDE DEF next
  <2>3. staged.rules = cand.rules /\ staged.policy = cand.policy
    BY <1>2, <1>3 DEF Of
  <2>4. staged \in Pairs
    BY <2>1, <2>2 DEF Pairs
  <2> QED BY <2>0, <2>3, <2>4
<1> HIDE DEF staged
<1>5. active \in Pairs /\ registry \in SUBSET Tags
  BY <1>2 DEF TypeOK
<1>6. txn' \in Txns
  BY <1>1, <1>3, <1>4, <1>5 DEF Txns
<1>7. Planned'
  BY <1>1, <1>2, <1>3, <1>4, <1>6 DEF Planned, Of, Expected
<1>8. Progress'
  BY <1>1 DEF Progress
<1>9. TypeOK'
  BY <1>1, <1>2 DEF TypeOK
<1>10. Setups' /\ InUse' = InUse
  BY <1>1, <1>2, SetupsKept
<1>11. Drains'
  BY <1>1, <1>2, <1>10 DEF Drains, Published, PairKey
<1> QED BY <1>1, <1>7, <1>8, <1>9, <1>10, <1>11 DEF RInv

\* A component commits, and the last expected one publishes the pair.
LEMMA CommitStep ==
  ASSUME RInv, NEW m \in Component, Commit(m)
  PROVE  RInv'
<1> DEFINE t == [txn EXCEPT !.phase = "commit", !.done = @ \cup {m}]
           u == [t EXCEPT !.committed = @ \cup {m}]
<1>1. /\ txn.phase \in {"prepared", "commit"} /\ IsNext(m)
      /\ registry' = IF m = "outbound" THEN txn.cand.tags ELSE registry
      /\ UNCHANGED <<config, generation, usage, initial, conns>>
  BY DEF Commit
<1>2. TypeOK /\ Setups /\ Drains /\ Planned /\ Progress
  BY <1>1 DEF RInv
<1>3. txn \in Txns
  BY <1>2 DEF Planned
<1>4. /\ t \in Txns /\ t.phase = "commit" /\ t.done = txn.done \cup {m} /\ t.cand = txn.cand
      /\ t.changed = txn.changed /\ t.expected = txn.expected /\ t.committed = txn.committed
      /\ t.published = txn.published /\ t.old = txn.old /\ t.oldTags = txn.oldTags
      /\ t.staged = txn.staged
  BY <1>3, TxnFields DEF Txns
<1> DEFINE publish == m \in txn.expected /\ txn.expected \subseteq txn.committed \cup {m}
<1>5. /\ u \in Txns /\ u.phase = "commit" /\ u.done = txn.done \cup {m} /\ u.cand = txn.cand
      /\ u.changed = txn.changed /\ u.expected = txn.expected
      /\ u.committed = txn.committed \cup {m}
      /\ u.published = txn.published /\ u.old = txn.old /\ u.oldTags = txn.oldTags
      /\ u.staged = txn.staged
  BY <1>4, TxnFields DEF Txns
<1>6. \/ m \in txn.expected /\ RoutingCommit(m, t)
      \/ m \notin txn.expected /\ txn' = t /\ UNCHANGED <<active, draining>>
  BY DEF Commit
<1> HIDE DEF t
<1>7. m \in txn.expected /\ ~publish => txn' = u /\ UNCHANGED <<active, draining>>
  BY <1>5, <1>6 DEF RoutingCommit
<1>8. publish => /\ active' = txn.staged /\ draining' = draining \cup {PairKey(active)}
                 /\ txn' = [u EXCEPT !.published = TRUE]
  BY <1>5, <1>6 DEF RoutingCommit
<1> HIDE DEF u
<1>9. /\ txn' \in Txns /\ txn'.phase = "commit" /\ txn'.done = txn.done \cup {m}
      /\ txn'.cand = txn.cand /\ txn'.changed = txn.changed /\ txn'.expected = txn.expected
      /\ txn'.committed = IF m \in txn.expected THEN txn.committed \cup {m} ELSE txn.committed
      /\ txn'.old = txn.old /\ txn'.oldTags = txn.oldTags /\ txn'.staged = txn.staged
      /\ IF publish
         THEN /\ txn'.published = TRUE /\ active' = txn.staged
              /\ draining' = draining \cup {PairKey(active)}
         ELSE txn'.published = txn.published /\ UNCHANGED <<active, draining>>
  <2>1. CASE publish
    <3>1. txn' = [u EXCEPT !.published = TRUE] /\ m \in txn.expected
      BY <1>8, <2>1
    <3>2. txn' \in Txns
      BY <1>5, <3>1 DEF Txns
    <3> QED BY <1>5, <1>8, <2>1, <3>1, <3>2 DEF Txns
  <2>2. CASE m \in txn.expected /\ ~publish
    BY <1>5, <1>7, <2>2
  <2>3. CASE m \notin txn.expected
    BY <1>4, <1>6, <2>3
  <2> QED BY <2>1, <2>2, <2>3
<1>10. /\ m \in txn.changed /\ m \notin txn.done
       /\ m = "outbound" => \A n \in {"router", "policy"} : n \in txn.changed => n \in txn.done
  <2>1. m \in txn.changed \ txn.done /\ \A n \in txn.changed \ txn.done : Rank(m) <= Rank(n)
    BY <1>1 DEF IsNext
  <2> QED BY <2>1, Components
<1>11. /\ txn.expected = Expected(txn.changed) /\ txn.done \subseteq txn.changed
       /\ txn.committed = txn.done \cap txn.expected /\ txn.published \in BOOLEAN
  BY <1>1, <1>2, <1>3, TxnFields DEF Planned, Progress
<1>12. publish => ~txn.published /\ active = txn.old /\ txn.expected # {}
  BY <1>2, <1>10 DEF Progress
<1>13. m = "outbound" /\ txn.expected # {} => publish
  BY <1>10, <1>11 DEF Expected
<1>14. m \notin txn.expected \/ ~publish =>
        ~(txn.expected \subseteq txn.done \cup {m}) \/ txn.expected = {} \/ txn.published
  BY <1>1, <1>2, <1>11 DEF Progress
<1>15. publish => txn.expected \subseteq txn.done \cup {m}
  BY <1>11
<1> HIDE DEF publish
<1>16. Planned'
  BY <1>1, <1>2, <1>9 DEF Planned, Of
<1>17. Progress'
  <2>1. txn'.done \subseteq txn'.changed
    BY <1>9, <1>10, <1>11
  <2>2. active' = IF txn'.published THEN txn'.staged ELSE txn'.old
    BY <1>2, <1>9 DEF Progress
  <2>3. registry' = IF "outbound" \in txn'.done THEN txn'.cand.tags ELSE txn'.oldTags
    BY <1>1, <1>2, <1>9 DEF Progress
  <2>4. txn'.published => txn'.expected # {} /\ txn'.expected \subseteq txn'.done
    BY <1>2, <1>9, <1>12, <1>15 DEF Progress
  <2>5. "outbound" \in txn'.done /\ txn'.expected # {} => txn'.published
    BY <1>2, <1>9, <1>13 DEF Progress
  <2>6. txn'.committed = txn'.done \cap txn'.expected
    BY <1>9, <1>11
  <2>7. txn'.expected # {} /\ txn'.expected \subseteq txn'.done => txn'.published
    BY <1>9, <1>14
  <2> QED BY <1>9, <2>1, <2>2, <2>3, <2>4, <2>5, <2>6, <2>7 DEF Progress
<1>18. TypeOK'
  <2>1. active' \in Pairs
    BY <1>2, <1>3, <1>9, TxnFields DEF TypeOK
  <2>2. registry' \in SUBSET Tags
    <3>1. txn.cand.tags \in SUBSET Tags
      BY <1>3, TxnFields DEF Configs
    <3> QED BY <1>1, <1>2, <3>1 DEF TypeOK
  <2>3. draining' \in SUBSET Keys
    BY <1>2, <1>9, Numbers DEF TypeOK
  <2> QED BY <1>1, <1>2, <1>9, <2>1, <2>2, <2>3 DEF TypeOK
<1>19. Setups' /\ InUse' = InUse
  BY <1>1, <1>2, SetupsKept
<1>20. Drains'
  <2>1. CASE publish
    <3>1. draining = InUse \ {PairKey(txn.old)}
      BY <1>2, <1>12, <2>1 DEF Drains, Published
    <3>2. draining' = InUse \cup {PairKey(txn.old)}
      BY <1>9, <1>12, <2>1, <3>1
    <3> QED BY <1>9, <1>19, <2>1, <3>2 DEF Drains, Published
  <2>2. CASE ~publish
    <3>1. Published' = Published /\ PairKey(active') = PairKey(active)
      BY <1>1, <1>9, <2>2 DEF Published
    <3> QED BY <1>2, <1>9, <1>19, <2>2, <3>1 DEF Drains
  <2> QED BY <2>1, <2>2
<1> QED BY <1>9, <1>16, <1>17, <1>18, <1>19, <1>20 DEF RInv

\* A commit fails, and the rollback has finished.
LEMMA TurnStep ==
  ASSUME RInv, CommitFails \/ RollbackDone
  PROVE  RInv'
<1> DEFINE p == IF txn.phase = "rollback" THEN "rolled_back" ELSE "rollback"
<1>1. /\ txn.phase \in {"prepared", "commit", "rollback"} /\ txn' = [txn EXCEPT !.phase = p]
      /\ UNCHANGED <<config, generation, active, usage, draining, registry, initial, conns>>
      /\ p = "rolled_back" => txn.done = {}
  BY DEF CommitFails, RollbackDone, routing
<1>2. TypeOK /\ Setups /\ Drains /\ Planned /\ Progress /\ txn \in Txns
  BY <1>1 DEF RInv, Planned
<1>3. p \in {"rollback", "rolled_back"}
  OBVIOUS
<1> HIDE DEF p
<1>4. /\ txn' \in Txns /\ txn'.phase = p /\ txn'.cand = txn.cand
      /\ txn'.changed = txn.changed /\ txn'.expected = txn.expected
      /\ txn'.committed = txn.committed /\ txn'.published = txn.published
      /\ txn'.old = txn.old /\ txn'.oldTags = txn.oldTags /\ txn'.done = txn.done
      /\ txn'.staged = txn.staged
  BY <1>1, <1>2, <1>3 DEF Txns
<1>5. Planned'
  BY <1>1, <1>2, <1>4 DEF Planned, Of
<1>6. Progress'
  BY <1>1, <1>2, <1>3, <1>4 DEF Progress
<1>7. TypeOK'
  BY <1>1, <1>2, <1>3, <1>4 DEF TypeOK
<1>8. Setups' /\ InUse' = InUse
  BY <1>1, <1>2, SetupsKept
<1>9. Drains'
  <2>1. Published' = Published
    BY <1>1, <1>3, <1>4 DEF Published
  <2> QED BY <1>1, <1>2, <1>4, <1>8, <2>1 DEF Drains
<1> QED BY <1>3, <1>4, <1>5, <1>6, <1>7, <1>8, <1>9 DEF RInv

\* A component is rolled back; the first expected one withdraws the pair.
LEMMA RollbackStep ==
  ASSUME RInv, NEW m \in Component, Rollback(m)
  PROVE  RInv'
<1> DEFINE t == [txn EXCEPT !.done = @ \ {m}]
           withdraw == m \in txn.expected /\ txn.published = TRUE
<1>1. /\ txn.phase = "rollback" /\ IsLast(m)
      /\ registry' = IF m = "outbound" THEN txn.oldTags ELSE registry
      /\ UNCHANGED <<config, generation, usage, initial, conns>>
      /\ IF m \in txn.expected THEN RoutingRollback(t)
         ELSE txn' = t /\ UNCHANGED <<active, draining>>
  BY DEF Rollback
<1>2. TypeOK /\ Setups /\ Drains /\ Planned /\ Progress /\ txn \in Txns
  BY <1>1 DEF RInv, Planned
<1>3. /\ t \in Txns /\ t.phase = "rollback" /\ t.done = txn.done \ {m} /\ t.cand = txn.cand
      /\ t.changed = txn.changed /\ t.expected = txn.expected /\ t.committed = txn.committed
      /\ t.published = txn.published /\ t.old = txn.old /\ t.oldTags = txn.oldTags
      /\ t.staged = txn.staged
  BY <1>1, <1>2, TxnFields DEF Txns
<1> HIDE DEF t
<1>4. withdraw => /\ active' = txn.old /\ draining' = draining \ {PairKey(txn.old), PairKey(active)}
                  /\ txn' = [t EXCEPT !.published = FALSE]
  BY <1>1, <1>3 DEF RoutingRollback
<1>5. ~withdraw => txn' = t /\ UNCHANGED <<active, draining>>
  <2>1. txn.published \in BOOLEAN
    BY <1>2, TxnFields
  <2> QED BY <1>1, <1>3, <2>1 DEF RoutingRollback
<1>6. /\ txn' \in Txns /\ txn'.phase = "rollback" /\ txn'.done = txn.done \ {m}
      /\ txn'.cand = txn.cand /\ txn'.changed = txn.changed /\ txn'.expected = txn.expected
      /\ txn'.committed = txn.committed /\ txn'.old = txn.old /\ txn'.oldTags = txn.oldTags
      /\ txn'.staged = txn.staged
      /\ IF withdraw
         THEN /\ txn'.published = FALSE /\ active' = txn.old
              /\ draining' = draining \ {PairKey(txn.old), PairKey(active)}
         ELSE txn'.published = txn.published /\ UNCHANGED <<active, draining>>
  <2>1. CASE withdraw
    <3>1. txn' = [t EXCEPT !.published = FALSE]
      BY <1>4, <2>1
    <3>2. txn' \in Txns
      BY <1>3, <3>1 DEF Txns
    <3> QED BY <1>3, <1>4, <2>1, <3>1, <3>2 DEF Txns
  <2>2. CASE ~withdraw
    BY <1>3, <1>5, <2>2
  <2> QED BY <2>1, <2>2
<1>7. m \in txn.done /\ (m \in {"router", "policy"} => "outbound" \notin txn.done)
  <2>1. m \in txn.done /\ \A n \in txn.done : Rank(n) <= Rank(m)
    BY <1>1 DEF IsLast
  <2> QED BY <2>1, Components
<1>8. txn.expected \subseteq {"router", "policy", "outbound"} /\ txn.published \in BOOLEAN
      /\ (withdraw => txn.expected # {})
  BY <1>2, TxnFields DEF Planned, Expected
<1>9. withdraw => "outbound" \notin txn.done \ {m}
  BY <1>7, <1>8
<1>10. ~withdraw /\ txn.published => m \notin txn.expected
  BY <1>8
<1>11. withdraw => active = txn.staged /\ Published
  BY <1>1, <1>2 DEF Progress, Published
<1> HIDE DEF withdraw
<1>12. Planned'
  BY <1>1, <1>2, <1>6 DEF Planned, Of
<1>13. Progress'
  <2>1. txn'.done \subseteq txn'.changed
    BY <1>2, <1>6 DEF Progress
  <2>2. active' = IF txn'.published THEN txn'.staged ELSE txn'.old
    BY <1>2, <1>6 DEF Progress
  <2>3. registry' = IF "outbound" \in txn'.done THEN txn'.cand.tags ELSE txn'.oldTags
    BY <1>1, <1>2, <1>6 DEF Progress
  <2>4. txn'.published => txn'.expected # {} /\ txn'.expected \subseteq txn'.done
    BY <1>2, <1>6, <1>8, <1>10 DEF Progress
  <2>5. "outbound" \in txn'.done /\ txn'.expected # {} => txn'.published
    BY <1>2, <1>6, <1>9 DEF Progress
  <2> QED BY <1>6, <2>1, <2>2, <2>3, <2>4, <2>5 DEF Progress
<1>14. TypeOK'
  <2>1. active' \in Pairs /\ registry' \in SUBSET Tags
    BY <1>1, <1>2, <1>6, TxnFields DEF TypeOK
  <2>2. draining' \in SUBSET Keys
    BY <1>2, <1>6 DEF TypeOK
  <2> QED BY <1>1, <1>2, <1>6, <2>1, <2>2 DEF TypeOK
<1>15. Setups' /\ InUse' = InUse
  BY <1>1, <1>2, SetupsKept
<1>16. Drains'
  <2>1. CASE withdraw
    <3>1. PairKey(txn.staged) \notin InUse
      BY <1>2, <1>8, <2>1, StagedIsNew
    <3>2. draining = InUse \cup {PairKey(txn.old)}
      BY <1>2, <1>11, <2>1 DEF Drains
    <3>3. draining' = InUse \ {PairKey(txn.old)}
      BY <1>6, <1>11, <2>1, <3>1, <3>2
    <3> QED BY <1>6, <1>15, <2>1, <3>3 DEF Drains, Published
  <2>2. CASE ~withdraw
    <3>1. Published' = Published /\ PairKey(active') = PairKey(active)
      BY <1>1, <1>6, <2>2 DEF Published
    <3> QED BY <1>2, <1>6, <1>15, <2>2, <3>1 DEF Drains
  <2> QED BY <2>1, <2>2
<1> QED BY <1>6, <1>12, <1>13, <1>14, <1>15, <1>16 DEF RInv

\* cleanup, after success and after a rollback.
LEMMA CleanupStep ==
  ASSUME RInv, CleanupCommitted \/ CleanupRolledBack
  PROVE  RInv'
<1>1. /\ txn' = NoTxn /\ txn.phase # "idle"
      /\ draining' = IF txn.published /\ usage[PairKey(txn.old)] = 0
                     THEN draining \ {PairKey(txn.old)} ELSE draining
      /\ UNCHANGED <<active, usage, registry, initial, conns>>
  BY DEF CleanupCommitted, CleanupRolledBack, Cleanup
<1>2. TypeOK /\ Setups /\ Drains /\ Planned /\ Progress /\ txn \in Txns
  BY <1>1 DEF RInv, Planned
<1>3. /\ generation \in Nat /\ MaxGen \in Nat /\ generation < MaxGen
      /\ txn.cand \in Configs /\ config \in Configs /\ txn.published \in BOOLEAN
      /\ txn.old \in Pairs /\ active.rid \in Ids /\ active.pid \in Ids
  BY <1>2, Numbers, TxnFields DEF Planned, TypeOK
<1>4. /\ config' \in Configs /\ generation' \in 0 .. MaxGen /\ generation <= generation'
      /\ active.rules = config'.rules /\ active.policy = config'.policy /\ registry = config'.tags
      /\ active.rid <= generation' /\ active.pid <= generation'
  <2>1. CASE CleanupCommitted
    <3>1. config' = txn.cand /\ generation' = generation + 1 /\ txn.done = txn.changed
          /\ txn.phase = "commit"
      BY <2>1 DEF CleanupCommitted, Cleanup
    <3>2. txn.expected # {} => txn.published
      BY <1>2, <3>1 DEF Planned, Progress, Expected
    <3>3. active.rules = txn.cand.rules /\ active.policy = txn.cand.policy
      BY <1>2, <3>2 DEF Planned, Progress, Expected, Of
    <3>4. registry = txn.cand.tags
      BY <1>2, <3>1 DEF Planned, Progress, Of
    <3>5. active.rid <= generation + 1 /\ active.pid <= generation + 1
      <4>1. CASE txn.published
        BY <1>2, <4>1 DEF Planned, Progress
      <4>2. CASE ~txn.published
        <5>1. active.rid <= generation /\ active.pid <= generation
          BY <1>2, <4>2 DEF Planned, Progress, Of
        <5> QED BY <1>3, <5>1 DEF Ids
      <4> QED BY <4>1, <4>2
    <3> QED BY <1>3, <3>1, <3>3, <3>4, <3>5
  <2>2. CASE CleanupRolledBack
    <3>1. config' = config /\ generation' = generation /\ txn.done = {}
      BY <1>2, <2>2 DEF CleanupRolledBack, Cleanup, Progress
    <3>2. ~txn.published /\ "outbound" \notin txn.done
      BY <1>2, <3>1 DEF Progress
    <3> QED BY <1>2, <1>3, <3>1, <3>2 DEF Planned, Progress, Of
  <2> QED BY <2>1, <2>2
<1>5. Of(active, registry)'
  BY <1>1, <1>4 DEF Of
<1>6. TypeOK'
  <2>1. draining' \in SUBSET Keys
    BY <1>1, <1>2 DEF TypeOK
  <2> QED BY <1>1, <1>2, <1>4, <2>1 DEF TypeOK, NoTxn
<1>7. Setups' /\ InUse' = InUse
  <2>1. InUse' = InUse
    BY <1>1 DEF InUse
  <2>2. \A k \in InUse : k[1] <= generation' /\ k[2] <= generation'
    <3> SUFFICES ASSUME NEW k \in InUse
                 PROVE  k[1] <= generation' /\ k[2] <= generation'
      OBVIOUS
    <3>1. k[1] <= generation /\ k[2] <= generation
      BY <1>2 DEF Setups
    <3>2. k[1] \in Int /\ k[2] \in Int
      BY DEF InUse, Keys, Ids
    <3> QED BY <1>3, <1>4, <3>1, <3>2
  <2> QED BY <1>1, <1>2, <2>1, <2>2 DEF Setups, On
<1>8. Drains'
  <2>0. ~Published' /\ PairKey(active') = PairKey(active)
    BY <1>1 DEF Published, NoTxn
  <2>1. CASE txn.published
    <3>1. /\ active = txn.staged /\ PairKey(txn.staged) \notin InUse /\ PairKey(txn.old) \in Keys
      BY <1>2, <2>1, StagedIsNew DEF Progress
    <3>2. draining = InUse \cup {PairKey(txn.old)}
      BY <1>1, <1>2, <1>3, <2>1 DEF Drains, Published
    <3>3. usage[PairKey(txn.old)] = 0 <=> PairKey(txn.old) \notin InUse
      BY <1>2, <3>1, Numbers DEF InUse
    <3>4. draining' = InUse
      BY <1>1, <2>1, <3>2, <3>3
    <3> QED BY <1>7, <2>0, <3>1, <3>4 DEF Drains
  <2>2. CASE ~txn.published
    <3>1. ~Published
      BY <2>2 DEF Published
    <3> QED BY <1>1, <1>2, <1>7, <2>0, <2>2, <3>1 DEF Drains
  <2> QED BY <2>1, <2>2
<1>9. txn'.phase = "idle"
  BY <1>1 DEF NoTxn
<1> QED BY <1>1, <1>5, <1>6, <1>7, <1>8, <1>9 DEF RInv

-----------------------------------------------------------------------------
(* The traffic.                                                            *)

\* One if the connection is being set up under k.
In(r, k) == IF r.st = "connecting" /\ r.key = k THEN 1 ELSE 0

\* The counts stay exact when one connection moves on.
LEMMA OneSetup ==
  ASSUME TypeOK, Setups, NEW c \in Conns, NEW r, conns' = [conns EXCEPT ![c] = r],
         r.st = "connecting" => r.key \in Keys /\ r.key[1] <= generation /\ r.key[2] <= generation,
         usage' = [k \in Keys |-> usage[k] + In(r, k) - In(conns[c], k)],
         UNCHANGED generation
  PROVE  Setups' /\ usage' \in [Keys -> 0 .. Cardinality(Conns)]
<1>1. /\ conns = [d \in Conns |-> conns[d]]
      /\ \A d \in Conns : conns[d].st = "connecting" => conns[d].key \in Keys
      /\ \A k \in Keys : usage[k] = Cardinality(On(conns, k)) /\ usage[k] \in Nat
  BY Numbers DEF Setups
<1>2. conns' = [d \in Conns |-> conns'[d]] /\ \A d \in Conns : conns'[d] = IF d = c THEN r ELSE conns[d]
  BY <1>1
<1>3. ASSUME NEW k \in Keys
      PROVE  /\ usage'[k] = Cardinality(On(conns', k)) /\ usage'[k] \in 0 .. Cardinality(Conns)
             /\ usage'[k] > 0 => usage[k] > 0 \/ (r.st = "connecting" /\ r.key = k)
  <2> DEFINE A == On(conns, k)
             B == On(conns', k)
  <2>1. A \in SUBSET Conns /\ B \in SUBSET Conns /\ IsFiniteSet(A) /\ IsFiniteSet(B)
        /\ Cardinality(B) <= Cardinality(Conns) /\ Cardinality(B) \in Nat /\ Cardinality(Conns) \in Nat
        /\ Cardinality(A) \in Nat
    <3>1. A \in SUBSET Conns /\ B \in SUBSET Conns
      BY DEF On
    <3> HIDE DEF A, B
    <3> QED BY <3>1, RoutedAssumption, FS_Subset, FS_CardinalityType
  <2>2. usage'[k] = usage[k] + In(r, k) - In(conns[c], k) /\ usage[k] = Cardinality(A)
    BY <1>1
  <2>3. /\ c \in A <=> In(conns[c], k) = 1
        /\ c \in B <=> In(r, k) = 1
        /\ A \ {c} = B \ {c}
        /\ In(conns[c], k) \in {0, 1} /\ In(r, k) \in {0, 1}
    BY <1>2 DEF On, In
  <2>4. In(r, k) = 1 => r.st = "connecting" /\ r.key = k
    BY DEF In
  <2> HIDE DEF A, B
  <2> DEFINE D == A \ {c}
  <2>5. /\ c \in A => Cardinality(D) = Cardinality(A) - 1
        /\ c \notin A => D = A
        /\ c \in B => Cardinality(D) = Cardinality(B) - 1
        /\ c \notin B => D = B
    <3>1. c \in A => Cardinality(D) = Cardinality(A) - 1
      BY <2>1, FS_RemoveElement
    <3>2. c \in B => Cardinality(B \ {c}) = Cardinality(B) - 1
      BY <2>1, FS_RemoveElement
    <3>3. (c \notin A => D = A) /\ (c \notin B => D = B) /\ D = B \ {c}
      BY <2>3
    <3> QED BY <3>1, <3>2, <3>3
  <2> HIDE DEF D
  <2>7. usage'[k] = Cardinality(B)
    BY <2>1, <2>2, <2>3, <2>5
  <2>8. usage'[k] > 0 => usage[k] > 0 \/ In(r, k) = 1
    BY <2>1, <2>2, <2>3
  <2> QED BY <2>1, <2>4, <2>7, <2>8 DEF B
<1>4. \A d \in Conns : conns'[d].st = "connecting" => conns'[d].key \in Keys
  BY <1>1, <1>2
<1>5. \A k \in InUse' : k[1] <= generation' /\ k[2] <= generation'
  <2> SUFFICES ASSUME NEW k \in InUse'
               PROVE  k[1] <= generation /\ k[2] <= generation
    OBVIOUS
  <2>1. k \in Keys /\ usage'[k] > 0
    BY DEF InUse
  <2>2. k \in InUse \/ (r.st = "connecting" /\ r.key = k)
    BY <1>3, <2>1 DEF InUse
  <2> QED BY <2>2 DEF Setups
<1>6. usage' \in [Keys -> 0 .. Cardinality(Conns)]
  BY <1>3
<1> QED BY <1>2, <1>3, <1>4, <1>5, <1>6 DEF Setups

\* While the event loop turns, the published pair is the one between reloads.
LEMMA YieldedUnpublished ==
  ASSUME RInv, Yielded
  PROVE  /\ ~Published /\ draining = InUse \ {PairKey(active)}
         /\ active.rid <= generation /\ active.pid <= generation
<1>1. CASE txn.phase = "idle"
  BY <1>1 DEF RInv, Published, Drains, Of
<1>2. CASE txn.phase # "idle"
  <2>1. Planned /\ Progress /\ Drains /\ txn.published \in BOOLEAN
    BY <1>2, TxnFields DEF RInv, Planned
  <2>2. txn.published = FALSE
    BY <1>2, <2>1 DEF Yielded, Progress
  <2>3. active = txn.old
    BY <2>1, <2>2 DEF Progress
  <2> QED BY <2>1, <2>2, <2>3 DEF Planned, Of, Drains, Published
<1> QED BY <1>1, <1>2

\* What all steps of openTcp share.
LEMMA TrafficStep ==
  ASSUME RInv, Yielded, UNCHANGED <<config, generation, active, registry, initial, txn>>,
         Setups', usage' \in [Keys -> 0 .. Cardinality(Conns)],
         draining' = InUse' \ {PairKey(active)},
         \A c \in Conns : conns'[c].st \in {"idle", "connecting", "open"}
  PROVE  RInv'
<1>1. ~Published /\ TypeOK
  BY YieldedUnpublished DEF RInv
<1>2. TypeOK'
  <2>1. draining' \in SUBSET Keys
    BY DEF InUse
  <2> QED BY <1>1, <2>1 DEF TypeOK
<1>3. Drains'
  BY <1>1 DEF Drains, Published, PairKey
<1>4. txn.phase = "idle" => Of(active, registry)'
  BY DEF RInv, Of
<1>5. txn.phase # "idle" => Planned' /\ Progress'
  BY DEF RInv, Planned, Progress, Of
<1> QED BY <1>2, <1>3, <1>4, <1>5 DEF RInv

\* The failover loop goes on to the next candidate or gives up.
LEMMA TryStep ==
  ASSUME RInv, Yielded, UNCHANGED <<config, generation, active, registry, initial, txn>>,
         NEW c \in Conns, NEW key \in Keys, key[1] <= generation, key[2] <= generation,
         NEW list, NEW u \in [Keys -> Int], Try(c, key, list, u),
         \A k \in Keys : u[k] = usage[k] + (IF k = key THEN 1 ELSE 0) - In(conns[c], k),
         \/ conns[c].st = "connecting" /\ conns[c].key = key
         \/ conns[c].st = "idle" /\ key = PairKey(active)
  PROVE  RInv'
<1> DEFINE rest == SkipMissing(list)
<1>0. /\ TypeOK /\ Setups /\ draining = InUse \ {PairKey(active)}
      /\ conns = [d \in Conns |-> conns[d]]
      /\ \A d \in Conns : conns[d].st \in {"idle", "connecting", "open"}
      /\ \A k \in Keys : usage[k] \in Nat /\ In(conns[c], k) \in {0, 1}
  BY YieldedUnpublished, Numbers DEF RInv, TypeOK, Setups, In
<1>3. /\ \A k \in Keys : k # key => In(conns[c], k) = 0
      /\ In(conns[c], key) = 1 \/ (key = PairKey(active) /\ In(conns[c], key) = 0)
  BY DEF In
<1>1. CASE rest = <<>>
  <2>1. /\ conns' = [conns EXCEPT ![c] = Idle] /\ usage' = [u EXCEPT ![key] = u[key] - 1]
        /\ draining' = IF usage'[key] = 0 THEN draining \ {key} ELSE draining
    BY <1>1 DEF Try, Release
  <2>2. \A k \in Keys : In(Idle, k) = 0
    BY DEF In, Idle
  <2>3. \A k \in Keys : usage'[k] = usage[k] + In(Idle, k) - In(conns[c], k)
    BY <1>0, <2>1, <2>2
  <2>4. usage' = [k \in Keys |-> usage[k] + In(Idle, k) - In(conns[c], k)]
    BY <2>1, <2>3
  <2>5. Setups' /\ usage' \in [Keys -> 0 .. Cardinality(Conns)]
    <3>1. Idle.st # "connecting"
      BY DEF Idle
    <3> QED BY <1>0, <2>1, <2>4, <3>1, OneSetup, ZenonT(60)
  <2>6. draining' = InUse' \ {PairKey(active)}
    <3>1. \A k \in Keys : k # key => usage'[k] = usage[k]
      BY <1>0, <1>3, <2>2, <2>3
    <3>2. CASE In(conns[c], key) = 1
      <4>1. usage[key] > 0 /\ (usage'[key] = 0 \/ usage'[key] > 0)
        BY <1>0, <2>2, <2>3, <2>5, <3>2
      <4>2. InUse' = IF usage'[key] = 0 THEN InUse \ {key} ELSE InUse
        BY <3>1, <4>1 DEF InUse
      <4> QED BY <1>0, <2>1, <4>2
    <3>3. CASE key = PairKey(active) /\ In(conns[c], key) = 0
      <4>1. usage'[key] = usage[key]
        BY <1>0, <2>2, <2>3, <3>3
      <4>2. InUse' = InUse
        BY <3>1, <4>1 DEF InUse
      <4> QED BY <1>0, <2>1, <3>3, <4>2
    <3> QED BY <1>3, <3>2, <3>3
  <2>7. \A d \in Conns : conns'[d].st \in {"idle", "connecting", "open"}
    BY <1>0, <2>1 DEF Idle
  <2> QED BY <2>5, <2>6, <2>7, TrafficStep
<1>2. CASE rest # <<>>
  <2> DEFINE r == [st |-> "connecting", key |-> key, tag |-> Head(rest),
                   rest |-> Tail(rest), ref |-> Head(rest) \in registry]
  <2>1. conns' = [conns EXCEPT ![c] = r] /\ usage' = u /\ UNCHANGED draining
    BY <1>2 DEF Try
  <2>2. r.st = "connecting" /\ r.key = key
    OBVIOUS
  <2> HIDE DEF r
  <2>3. \A k \in Keys : In(r, k) = IF k = key THEN 1 ELSE 0
    BY <2>2 DEF In
  <2>4. \A k \in Keys : usage'[k] = usage[k] + In(r, k) - In(conns[c], k)
    BY <2>1, <2>3
  <2>5. usage' = [k \in Keys |-> usage[k] + In(r, k) - In(conns[c], k)]
    BY <2>1, <2>4
  <2>6. Setups' /\ usage' \in [Keys -> 0 .. Cardinality(Conns)]
    BY <1>0, <2>1, <2>2, <2>5, OneSetup
  <2>7. draining' = InUse' \ {PairKey(active)}
    <3>1. \A k \in Keys : k # key => usage'[k] = usage[k]
      BY <1>0, <1>3, <2>3, <2>4
    <3>2. CASE In(conns[c], key) = 1
      <4>1. usage'[key] = usage[key]
        BY <1>0, <2>3, <2>4, <3>2
      <4>2. InUse' = InUse
        BY <3>1, <4>1 DEF InUse
      <4> QED BY <1>0, <2>1, <4>2
    <3>3. CASE key = PairKey(active)
      <4>1. InUse' \ {key} = InUse \ {key}
        BY <3>1 DEF InUse
      <4> QED BY <1>0, <2>1, <3>3, <4>1
    <3> QED BY <1>3, <3>2, <3>3
  <2>8. \A d \in Conns : conns'[d].st \in {"idle", "connecting", "open"}
    BY <1>0, <2>1, <2>2
  <2> QED BY <2>6, <2>7, <2>8, TrafficStep
<1> QED BY <1>1, <1>2

\* A connection being set up is counted, so its pair is not one to come.
LEMMA SetupCounts ==
  ASSUME RInv, NEW c \in Conns, conns[c].st = "connecting"
  PROVE  /\ conns[c].key \in Keys /\ usage[conns[c].key] > 0
         /\ conns[c].key[1] <= generation /\ conns[c].key[2] <= generation
<1> DEFINE key == conns[c].key
           A == On(conns, key)
<1>1. Setups /\ TypeOK /\ key \in Keys
  BY DEF RInv, Setups
<1>2. c \in A /\ A \in SUBSET Conns
  BY DEF On
<1>3. usage[key] = Cardinality(A) /\ usage[key] \in Nat
  BY <1>1, Numbers DEF Setups
<1> HIDE DEF A
<1>4. IsFiniteSet(A)
  BY <1>2, RoutedAssumption, FS_Subset
<1>5. Cardinality(A) # 0
  BY <1>2, <1>4, FS_EmptySet
<1>6. usage[key] > 0
  BY <1>3, <1>5
<1>7. key \in InUse
  BY <1>1, <1>6 DEF InUse
<1> QED BY <1>1, <1>6, <1>7 DEF Setups

\* A request acquires the active pair.
LEMMA OpenStep ==
  ASSUME RInv, NEW c \in Conns, Open(c)
  PROVE  RInv'
<1> DEFINE key == PairKey(active)
           u == [usage EXCEPT ![key] = usage[key] + 1]
<1>1. /\ Yielded /\ conns[c].st = "idle"
      /\ UNCHANGED <<config, generation, active, registry, initial, txn>>
      /\ \E list : Try(c, key, list, u)
  BY DEF Open
<1>2. PICK list : Try(c, key, list, u)
  BY <1>1
<1>3. /\ usage \in [Keys -> 0 .. Cardinality(Conns)] /\ key \in Keys
      /\ \A k \in Keys : usage[k] \in Nat
  BY Numbers DEF RInv, TypeOK
<1>4. key[1] <= generation /\ key[2] <= generation
  BY <1>1, YieldedUnpublished DEF PairKey
<1>5. \A k \in Keys : In(conns[c], k) = 0
  BY <1>1 DEF In
<1> HIDE DEF key
<1>6. /\ u \in [Keys -> Int]
      /\ \A k \in Keys : u[k] = usage[k] + (IF k = key THEN 1 ELSE 0) - In(conns[c], k)
  BY <1>3, <1>5
<1> HIDE DEF u
<1>7. key = PairKey(active)
  BY DEF key
<1> QED BY <1>1, <1>2, <1>3, <1>4, <1>6, <1>7, TryStep

\* The next candidate is tried.
LEMMA ConnectFailsStep ==
  ASSUME RInv, NEW c \in Conns, ConnectFails(c)
  PROVE  RInv'
<1> DEFINE key == conns[c].key
           list == conns[c].rest
<1>1. /\ Yielded /\ conns[c].st = "connecting"
      /\ UNCHANGED <<config, generation, active, registry, initial, txn>>
      /\ Try(c, key, list, usage)
  BY DEF ConnectFails
<1>2. key \in Keys /\ key[1] <= generation /\ key[2] <= generation
  BY <1>1, SetupCounts
<1>3. /\ usage \in [Keys -> Int]
      /\ \A k \in Keys : usage[k] = usage[k] + (IF k = key THEN 1 ELSE 0) - In(conns[c], k)
  <2>1. usage \in [Keys -> 0 .. Cardinality(Conns)] /\ \A k \in Keys : usage[k] \in Nat
    BY Numbers DEF RInv, TypeOK
  <2>2. \A k \in Keys : In(conns[c], k) = IF k = key THEN 1 ELSE 0
    BY <1>1 DEF In
  <2> HIDE DEF key
  <2> QED BY <2>1, <2>2
<1> HIDE DEF list
<1> QED BY <1>1, <1>2, <1>3, TryStep

\* The handle is released, and the last one out removes a draining pair.
LEMMA ConnectedStep ==
  ASSUME RInv, NEW c \in Conns, Connected(c)
  PROVE  RInv'
<1> DEFINE key == conns[c].key
           r == [st |-> "open"]
<1>1. /\ Yielded /\ conns[c].st = "connecting" /\ conns' = [conns EXCEPT ![c] = r]
      /\ usage' = [usage EXCEPT ![key] = usage[key] - 1]
      /\ draining' = IF usage'[key] = 0 THEN draining \ {key} ELSE draining
      /\ UNCHANGED <<config, generation, active, registry, initial, txn>>
  BY DEF Connected, Release
<1>2. key \in Keys /\ usage[key] > 0
  BY <1>1, SetupCounts
<1>3. /\ TypeOK /\ Setups /\ usage \in [Keys -> 0 .. Cardinality(Conns)]
      /\ \A k \in Keys : usage[k] \in Nat
      /\ conns = [d \in Conns |-> conns[d]]
      /\ \A d \in Conns : conns[d].st \in {"idle", "connecting", "open"}
      /\ draining = InUse \ {PairKey(active)}
  BY <1>1, Numbers, YieldedUnpublished DEF RInv, TypeOK, Setups
<1>4. \A k \in Keys : In(r, k) = 0 /\ In(conns[c], k) = IF k = key THEN 1 ELSE 0
  BY <1>1 DEF In
<1> HIDE DEF key
<1>5. \A k \in Keys : usage'[k] = usage[k] + In(r, k) - In(conns[c], k)
  BY <1>1, <1>2, <1>3, <1>4
<1>6. usage' = [k \in Keys |-> usage[k] + In(r, k) - In(conns[c], k)]
  BY <1>1, <1>3, <1>5
<1>7. Setups' /\ usage' \in [Keys -> 0 .. Cardinality(Conns)]
  <2>1. r.st # "connecting"
    OBVIOUS
  <2> QED BY <1>1, <1>3, <1>6, <2>1, OneSetup, ZenonT(60)
<1>8. draining' = InUse' \ {PairKey(active)}
  <2>1. \A k \in Keys : k # key => usage'[k] = usage[k]
    BY <1>3, <1>4, <1>5
  <2>2. usage'[key] = 0 \/ usage'[key] > 0
    BY <1>1, <1>2, <1>3
  <2>3. InUse' = IF usage'[key] = 0 THEN InUse \ {key} ELSE InUse
    BY <1>2, <2>1, <2>2 DEF InUse
  <2> QED BY <1>1, <1>3, <2>3
<1>9. \A d \in Conns : conns'[d].st \in {"idle", "connecting", "open"}
  BY <1>1, <1>3
<1> QED BY <1>1, <1>7, <1>8, <1>9, TrafficStep

\* A connection closes.
LEMMA CloseStep ==
  ASSUME RInv, NEW c \in Conns, Close(c)
  PROVE  RInv'
<1>1. /\ Yielded /\ conns[c].st = "open" /\ conns' = [conns EXCEPT ![c] = Idle]
      /\ UNCHANGED <<config, generation, active, usage, draining, registry, initial, txn>>
  BY DEF Close, routing
<1>2. /\ TypeOK /\ Setups /\ usage \in [Keys -> 0 .. Cardinality(Conns)]
      /\ \A k \in Keys : usage[k] \in Nat
      /\ conns = [d \in Conns |-> conns[d]]
      /\ \A d \in Conns : conns[d].st \in {"idle", "connecting", "open"}
      /\ draining = InUse \ {PairKey(active)}
  BY <1>1, Numbers, YieldedUnpublished DEF RInv, TypeOK, Setups
<1>3. Idle.st = "idle"
  BY DEF Idle
<1>4. \A k \in Keys : usage[k] = usage[k] + In(Idle, k) - In(conns[c], k)
  BY <1>1, <1>2, <1>3 DEF In
<1>5. usage' = [k \in Keys |-> usage[k] + In(Idle, k) - In(conns[c], k)]
  BY <1>1, <1>2, <1>4
<1>6. Setups' /\ usage' \in [Keys -> 0 .. Cardinality(Conns)]
  BY <1>1, <1>2, <1>3, <1>5, OneSetup
<1>7. InUse' = InUse
  BY <1>1 DEF InUse
<1>8. \A d \in Conns : conns'[d].st \in {"idle", "connecting", "open"}
  BY <1>1, <1>2, <1>3
<1> QED BY <1>1, <1>2, <1>6, <1>7, <1>8, TrafficStep

-----------------------------------------------------------------------------
(* The results.                                                            *)

\* Every step keeps the invariant.
LEMMA RoutedStep ==
  ASSUME RInv, [Next]_vars
  PROVE  RInv'
<1>1. CASE UNCHANGED vars
  BY <1>1 DEF RInv, vars, routing, TypeOK, Setups, On, InUse, Of, Planned, Progress, Drains, Published,
             PairKey
<1>2. CASE \E cand \in Configs, dns \in BOOLEAN : Begin(cand, dns)
  BY <1>2, BeginStep
<1>3. CASE \E m \in Component : Commit(m)
  BY <1>3, CommitStep
<1>4. CASE \E m \in Component : Rollback(m)
  BY <1>4, RollbackStep
<1>5. CASE \E c \in Conns : Open(c)
  BY <1>5, OpenStep
<1>6. CASE \E c \in Conns : ConnectFails(c)
  BY <1>6, ConnectFailsStep
<1>7. CASE \E c \in Conns : Connected(c)
  BY <1>7, ConnectedStep
<1>8. CASE \E c \in Conns : Close(c)
  BY <1>8, CloseStep
<1>9. CASE CommitFails \/ RollbackDone
  BY <1>9, TurnStep
<1>10. CASE CleanupCommitted \/ CleanupRolledBack
  BY <1>10, CleanupStep
<1> QED BY <1>1, <1>2, <1>3, <1>4, <1>5, <1>6, <1>7, <1>8, <1>9, <1>10 DEF Next

\* The invariant holds in every reachable state.
LEMMA RoutedAlways ==
  Spec => []RInv
<1>1. Init => RInv
  BY RoutedInit
<1>2. RInv /\ [Next]_vars => RInv'
  BY RoutedStep
<1> QED BY <1>1, <1>2, PTL DEF Spec

\* For any outbounds, configurations and traffic and any sequence of reloads,
\* failing at any component: at every step each outbound the published pair may
\* choose is in the registry, and between reloads router, policy and registry
\* are those of the engine's configuration.
THEOREM PublishedIsSound ==
  Spec => []PublishedSound
<1>1. RInv => PublishedSound
  BY PublishedMeaning
<1> QED BY <1>1, RoutedAlways, PTL

\* The usage counts are exactly those of the requests, and between reloads the
\* draining table holds exactly the pairs that are in use and no longer active.
THEOREM DrainingIsInUse ==
  Spec => []DrainingInUse
<1>1. RInv => DrainingInUse
  BY DrainingMeaning
<1> QED BY <1>1, RoutedAlways, PTL

-----------------------------------------------------------------------------
(* The endpoint: its inductive invariant.                                  *)

\* What the executor's phase says about the operations and the outcome.
Phased ==
  /\ phase \in {"prepare", "prepared"} => pc["commit"] = "idle"
  /\ phase = "commit" => pc["commit"] # "idle"
  /\ phase = "later" => pc["commit"] = "returned"
  /\ phase = "rollback" => pc["commit"] \in {"idle", "returned"}
  /\ phase \in {"prepare", "prepared", "commit", "later"} => outcome = "running" /\ pc["rollback"] = "idle"
  /\ phase = "rollback" => outcome = "rolled_back"
  /\ phase \in {"cleanup", "done"} => outcome # "running"
  /\ phase \notin {"cleanup", "done"} => pc["cleanup"] = "idle"
  /\ phase = "done" => pc["cleanup"] # "idle" \/ pc["commit"] = "idle"

\* Where each operation can be, whether or not the executor still waits for it:
\* rollback runs only for a commit that returned, or that was never called.
Waiting ==
  /\ pc["commit"] \in {"idle", "start_cand", "stop_old", "returned", "threw"}
  /\ pc["rollback"] \in {"idle", "stop_cand", "start_old", "returned", "threw"}
  /\ pc["cleanup"] \in {"idle", "stop_cand", "returned"}
  /\ pc["rollback"] # "idle" => outcome = "rolled_back" /\ pc["commit"] \in {"idle", "returned"}
  /\ outcome = "committed" => pc["commit"] = "returned" /\ pc["rollback"] = "idle"
  /\ pc["commit"] = "start_cand" => phase = "commit"
  /\ pc["commit"] \in {"start_cand", "threw"} => Strategy = "replace" /\ started
  /\ pc["commit"] = "stop_old" => Strategy # "in-place" /\ started
  /\ pc["rollback"] = "stop_cand" => Strategy # "in-place"
  /\ pc["rollback"] = "start_old" => "oldStopped" \in flags

\* The adapter's flags and the host's reference follow from where the
\* operations are.
FlagsExact ==
  /\ "committed" \in flags <=> pc["commit"] = "returned" /\ pc["rollback"] # "returned"
  /\ "rolledBack" \in flags <=> pc["rollback"] = "returned"
  /\ "hostSwapped" \in flags <=>
       Strategy # "in-place" /\ pc["commit"] = "returned" /\ pc["rollback"] = "idle"
  /\ "oldStopped" \in flags <=>
       Strategy # "in-place" /\ started /\ pc["commit"] = "returned" /\ pc["rollback"] # "returned"
  /\ current = IF "hostSwapped" \in flags THEN Replacement ELSE "old"

\* Which servers listen. The candidate of a commit that was cut off may listen
\* until cleanup or for good; in every other case it is known to the flags.
Listening ==
  /\ "disabled" \notin open
  /\ "old" \in open <=>
       /\ started /\ oldCfg.enabled
       /\ \/ Strategy = "in-place"
          \/ pc["commit"] \in {"idle", "start_cand", "threw"}
          \/ pc["rollback"] = "returned"
  /\ "cand" \in open => /\ Strategy = "replace" /\ started
                        /\ pc["commit"] \in {"stop_old", "returned"}
                        /\ pc["rollback"] = "idle" /\ pc["cleanup"] # "stop_cand"
  /\ /\ Strategy = "replace" /\ started
     /\ pc["commit"] \in {"stop_old", "returned"} /\ pc["rollback"] = "idle"
     /\ outcome # "rolled_back" \/ phase = "rollback"
     => "cand" \in open /\ "candidateStarted" \in flags

\* The configurations of the servers.
Configured ==
  /\ cfg["cand"] = nextCfg /\ cfg["disabled"] = nextCfg
  /\ cfg["old"] = IF Strategy = "in-place" /\ "committed" \in flags THEN nextCfg ELSE oldCfg

\* The inductive invariant.
EInv == EndpointTypeOK /\ Phased /\ Waiting /\ FlagsExact /\ Listening /\ Configured

\* What the strategy says about the configurations.
Known ==
  /\ Strategy \in {"disable", "in-place", "replace"}
  /\ Strategy = "disable" <=> ~nextCfg.enabled
  /\ Strategy = "in-place" => oldCfg.enabled
  /\ Replacement = IF Strategy = "disable" THEN "disabled" ELSE "cand"

\* The strategy is chosen once: nothing it depends on changes.
LEMMA StrategyFacts ==
  ASSUME EndpointTypeOK
  PROVE  /\ Known
         /\ UNCHANGED fixed => UNCHANGED <<Strategy, Replacement>>
BY DEF EndpointTypeOK, EndpointConfigs, Strategy, fixed, Replacement, Known

-----------------------------------------------------------------------------
(* The steps.                                                              *)

\* The executor moves on, and prepare with its probe: only the phase and the
\* outcome change.
LEMMA PhaseMove ==
  ASSUME EInv, \/ Prepare \/ PrepareFails
               \/ CommitReturns \/ CommitThrew \/ CommitTimesOut \/ OtherFails \/ OthersCommit
               \/ RollbackEnds \/ CleanupEnds
  PROVE  EInv'
<1> USE DEF Prepare, PrepareFails, CommitReturns, CommitThrew, CommitTimesOut, OtherFails, OthersCommit,
            RollbackEnds, CleanupEnds, Move
<1>1. /\ UNCHANGED <<hostVars, pc, envVars, fixed>>
      /\ Known /\ UNCHANGED <<Strategy, Replacement>>
  <2>1. UNCHANGED <<hostVars, pc, envVars, fixed>>
    OBVIOUS
  <2> QED BY <2>1, StrategyFacts DEF EInv
<1>2. EndpointTypeOK'
  BY <1>1 DEF EInv, EndpointTypeOK, Phases, hostVars, envVars, fixed
<1>3. Phased'
  BY <1>1 DEF EInv, EndpointTypeOK, Phased, Waiting
<1>4. Waiting'
  BY <1>1 DEF EInv, EndpointTypeOK, Phased, Waiting, hostVars, fixed
<1>5. FlagsExact' /\ Configured'
  BY <1>1 DEF EInv, FlagsExact, Configured, hostVars, fixed
<1>6. Listening'
  BY <1>1 DEF EInv, Phased, Waiting, Listening, hostVars, fixed
<1> QED BY <1>2, <1>3, <1>4, <1>5, <1>6 DEF EInv

\* A change that needs no new listener.
LEMMA CommitInPlaceStep ==
  ASSUME EInv, CommitInPlace
  PROVE  EInv'
<1> USE DEF CommitInPlace, envVars, fixed
<1>1. Known /\ UNCHANGED <<Strategy, Replacement>>
  BY StrategyFacts DEF EInv
<1> USE DEF Known
<1>2. EndpointTypeOK'
  BY <1>1 DEF EInv, EndpointTypeOK, Flags, Phases, Waits, Servers
<1>3. Phased'
  BY <1>1 DEF EInv, EndpointTypeOK, Phased, Waiting
<1>4. Waiting'
  BY <1>1 DEF EInv, EndpointTypeOK, Phased, Waiting, FlagsExact
<1>5. FlagsExact'
  BY <1>1 DEF EInv, EndpointTypeOK, Phased, Waiting, FlagsExact, Listening
<1>6. Listening'
  BY <1>1 DEF EInv, EndpointTypeOK, Phased, Waiting, FlagsExact, Listening
<1>7. Configured'
  BY <1>1 DEF EInv, EndpointTypeOK, Phased, Waiting, FlagsExact, Configured, Servers
<1> QED BY <1>2, <1>3, <1>4, <1>5, <1>6, <1>7 DEF EInv

\* An engine that is not running exchanges the reference alone.
LEMMA CommitNotStartedStep ==
  ASSUME EInv, CommitNotStarted
  PROVE  EInv'
<1> USE DEF CommitNotStarted, Swap, envVars, fixed
<1>1. Known /\ UNCHANGED <<Strategy, Replacement>>
  BY StrategyFacts DEF EInv
<1> USE DEF Known
<1>2. EndpointTypeOK'
  BY <1>1 DEF EInv, EndpointTypeOK, Flags, Phases, Waits, Servers
<1>3. Phased'
  BY <1>1 DEF EInv, EndpointTypeOK, Phased, Waiting
<1>4. Waiting'
  BY <1>1 DEF EInv, EndpointTypeOK, Phased, Waiting, FlagsExact
<1>5. FlagsExact'
  BY <1>1 DEF EInv, EndpointTypeOK, Phased, Waiting, FlagsExact, Listening
<1>6. Listening'
  BY <1>1 DEF EInv, EndpointTypeOK, Phased, Waiting, FlagsExact, Listening
<1>7. Configured'
  BY <1>1 DEF EInv, EndpointTypeOK, Phased, Waiting, FlagsExact, Configured, Servers
<1> QED BY <1>2, <1>3, <1>4, <1>5, <1>6, <1>7 DEF EInv

\* The old server is told to stop.
LEMMA CommitDisableStep ==
  ASSUME EInv, CommitDisable
  PROVE  EInv'
<1> USE DEF CommitDisable, envVars, fixed
<1>1. Known /\ UNCHANGED <<Strategy, Replacement>>
  BY StrategyFacts DEF EInv
<1> USE DEF Known
<1>2. EndpointTypeOK'
  BY <1>1 DEF EInv, EndpointTypeOK, Flags, Phases, Waits, Servers
<1>3. Phased'
  BY <1>1 DEF EInv, EndpointTypeOK, Phased, Waiting
<1>4. Waiting'
  BY <1>1 DEF EInv, EndpointTypeOK, Phased, Waiting, FlagsExact
<1>5. FlagsExact'
  BY <1>1 DEF EInv, EndpointTypeOK, Phased, Waiting, FlagsExact, Listening
<1>6. Listening'
  BY <1>1 DEF EInv, EndpointTypeOK, Phased, Waiting, FlagsExact, Listening
<1>7. Configured'
  BY <1>1 DEF EInv, EndpointTypeOK, Phased, Waiting, FlagsExact, Configured, Servers
<1> QED BY <1>2, <1>3, <1>4, <1>5, <1>6, <1>7 DEF EInv

\* The candidate is told to start.
LEMMA CommitReplaceStep ==
  ASSUME EInv, CommitReplace
  PROVE  EInv'
<1> USE DEF CommitReplace, hostVars, envVars, fixed
<1>1. Known /\ UNCHANGED <<Strategy, Replacement>>
  BY StrategyFacts DEF EInv
<1> USE DEF Known
<1>2. EndpointTypeOK'
  BY <1>1 DEF EInv, EndpointTypeOK, Flags, Phases, Waits, Servers
<1>3. Phased'
  BY <1>1 DEF EInv, EndpointTypeOK, Phased, Waiting
<1>4. Waiting'
  BY <1>1 DEF EInv, EndpointTypeOK, Phased, Waiting, FlagsExact
<1>5. FlagsExact'
  BY <1>1 DEF EInv, EndpointTypeOK, Phased, Waiting, FlagsExact, Listening
<1>6. Listening'
  BY <1>1 DEF EInv, EndpointTypeOK, Phased, Waiting, FlagsExact, Listening
<1>7. Configured'
  BY <1>1 DEF EInv, EndpointTypeOK, Phased, Waiting, FlagsExact, Configured, Servers
<1> QED BY <1>2, <1>3, <1>4, <1>5, <1>6, <1>7 DEF EInv

\* The candidate listens before the old server is told to stop.
LEMMA CandidateStartsStep ==
  ASSUME EInv, CandidateStarts
  PROVE  EInv'
<1> USE DEF CandidateStarts, envVars, fixed
<1>1. Known /\ UNCHANGED <<Strategy, Replacement>>
  BY StrategyFacts DEF EInv
<1> USE DEF Known
<1>2. EndpointTypeOK'
  BY <1>1 DEF EInv, EndpointTypeOK, Flags, Phases, Waits, Servers
<1>3. Phased'
  BY <1>1 DEF EInv, EndpointTypeOK, Phased, Waiting
<1>4. Waiting'
  BY <1>1 DEF EInv, EndpointTypeOK, Phased, Waiting, FlagsExact
<1>5. FlagsExact'
  BY <1>1 DEF EInv, EndpointTypeOK, Phased, Waiting, FlagsExact, Listening
<1>6. Listening'
  BY <1>1 DEF EInv, EndpointTypeOK, Phased, Waiting, FlagsExact, Listening
<1>7. Configured'
  BY <1>1 DEF EInv, EndpointTypeOK, Phased, Waiting, FlagsExact, Configured, Servers
<1> QED BY <1>2, <1>3, <1>4, <1>5, <1>6, <1>7 DEF EInv

\* Without the candidate the old server is left alone.
LEMMA CandidateFailsStep ==
  ASSUME EInv, CandidateFails
  PROVE  EInv'
<1> USE DEF CandidateFails, hostVars, envVars, fixed
<1>1. Known /\ UNCHANGED <<Strategy, Replacement>>
  BY StrategyFacts DEF EInv
<1> USE DEF Known
<1>2. EndpointTypeOK'
  BY <1>1 DEF EInv, EndpointTypeOK, Flags, Phases, Waits, Servers
<1>3. Phased'
  BY <1>1 DEF EInv, EndpointTypeOK, Phased, Waiting
<1>4. Waiting'
  BY <1>1 DEF EInv, EndpointTypeOK, Phased, Waiting, FlagsExact
<1>5. FlagsExact'
  BY <1>1 DEF EInv, EndpointTypeOK, Phased, Waiting, FlagsExact, Listening
<1>6. Listening'
  BY <1>1 DEF EInv, EndpointTypeOK, Phased, Waiting, FlagsExact, Listening
<1>7. Configured'
  BY <1>1 DEF EInv, EndpointTypeOK, Phased, Waiting, FlagsExact, Configured, Servers
<1> QED BY <1>2, <1>3, <1>4, <1>5, <1>6, <1>7 DEF EInv

\* The old server has closed, in time or after the executor gave up.
LEMMA OldStoppedStep ==
  ASSUME EInv, OldStopped
  PROVE  EInv'
<1> USE DEF OldStopped, Swap, envVars, fixed
<1>1. Known /\ UNCHANGED <<Strategy, Replacement>>
  BY StrategyFacts DEF EInv
<1> USE DEF Known
<1>2. EndpointTypeOK'
  BY <1>1 DEF EInv, EndpointTypeOK, Flags, Phases, Waits, Servers
<1>3. Phased'
  BY <1>1 DEF EInv, EndpointTypeOK, Phased, Waiting
<1>4. Waiting'
  BY <1>1 DEF EInv, EndpointTypeOK, Phased, Waiting, FlagsExact
<1>5. FlagsExact'
  BY <1>1 DEF EInv, EndpointTypeOK, Phased, Waiting, FlagsExact, Listening
<1>6. Listening'
  BY <1>1 DEF EInv, EndpointTypeOK, Phased, Waiting, FlagsExact, Listening
<1>7. Configured'
  BY <1>1 DEF EInv, EndpointTypeOK, Phased, Waiting, FlagsExact, Configured, Servers
<1> QED BY <1>2, <1>3, <1>4, <1>5, <1>6, <1>7 DEF EInv

\* The old configuration is put back.
LEMMA RollbackInPlaceStep ==
  ASSUME EInv, RollbackInPlace
  PROVE  EInv'
<1> USE DEF RollbackInPlace, RolledBack, envVars, fixed
<1>1. Known /\ UNCHANGED <<Strategy, Replacement>>
  BY StrategyFacts DEF EInv
<1> USE DEF Known
<1>2. EndpointTypeOK'
  BY <1>1 DEF EInv, EndpointTypeOK, Flags, Phases, Waits, Servers
<1>3. Phased'
  BY <1>1 DEF EInv, EndpointTypeOK, Phased, Waiting
<1>4. Waiting'
  BY <1>1 DEF EInv, EndpointTypeOK, Phased, Waiting, FlagsExact
<1>5. FlagsExact'
  BY <1>1 DEF EInv, EndpointTypeOK, Phased, Waiting, FlagsExact, Listening
<1>6. Listening'
  BY <1>1 DEF EInv, EndpointTypeOK, Phased, Waiting, FlagsExact, Listening
<1>7. Configured'
  BY <1>1 DEF EInv, EndpointTypeOK, Phased, Waiting, FlagsExact, Configured, Servers
<1> QED BY <1>2, <1>3, <1>4, <1>5, <1>6, <1>7 DEF EInv

\* The host has its old server again, and the candidate stops.
LEMMA RollbackReplacedStep ==
  ASSUME EInv, RollbackReplaced
  PROVE  EInv'
<1> USE DEF RollbackReplaced, RolledBack, envVars, fixed
<1>1. Known /\ UNCHANGED <<Strategy, Replacement>>
  BY StrategyFacts DEF EInv
<1> USE DEF Known
<1>2. EndpointTypeOK'
  BY <1>1 DEF EInv, EndpointTypeOK, Flags, Phases, Waits, Servers
<1>3. Phased'
  BY <1>1 DEF EInv, EndpointTypeOK, Phased, Waiting
<1>4. Waiting'
  BY <1>1 DEF EInv, EndpointTypeOK, Phased, Waiting, FlagsExact
<1>5. FlagsExact'
  BY <1>1 DEF EInv, EndpointTypeOK, Phased, Waiting, FlagsExact, Listening
<1>6. Listening'
  BY <1>1 DEF EInv, EndpointTypeOK, Phased, Waiting, FlagsExact, Listening
<1>7. Configured'
  BY <1>1 DEF EInv, EndpointTypeOK, Phased, Waiting, FlagsExact, Configured, Servers
<1> QED BY <1>2, <1>3, <1>4, <1>5, <1>6, <1>7 DEF EInv

\* The candidate's stop() resolves, perhaps after the rollback was cut off.
LEMMA RollbackCandidateStoppedStep ==
  ASSUME EInv, RollbackCandidateStopped
  PROVE  EInv'
<1> USE DEF RollbackCandidateStopped, RolledBack, envVars, fixed
<1>1. Known /\ UNCHANGED <<Strategy, Replacement>>
  BY StrategyFacts DEF EInv
<1> USE DEF Known
<1>2. EndpointTypeOK'
  BY <1>1, ZenonT(60) DEF EInv, EndpointTypeOK, Flags, Phases, Waits, Servers
<1>3. Phased'
  BY <1>1 DEF EInv, EndpointTypeOK, Phased, Waiting
<1>4. Waiting'
  BY <1>1 DEF EInv, EndpointTypeOK, Phased, Waiting, FlagsExact
<1>5. FlagsExact'
  BY <1>1 DEF EInv, EndpointTypeOK, Phased, Waiting, FlagsExact, Listening
<1>6. Listening'
  BY <1>1 DEF EInv, EndpointTypeOK, Phased, Waiting, FlagsExact, Listening
<1>7. Configured'
  BY <1>1 DEF EInv, EndpointTypeOK, Phased, Waiting, FlagsExact, Configured, Servers
<1> QED BY <1>2, <1>3, <1>4, <1>5, <1>6, <1>7 DEF EInv

\* The old server listens again.
LEMMA OldRestartsStep ==
  ASSUME EInv, OldRestarts
  PROVE  EInv'
<1> USE DEF OldRestarts, RolledBack, envVars, fixed
<1>1. Known /\ UNCHANGED <<Strategy, Replacement>>
  BY StrategyFacts DEF EInv
<1> USE DEF Known
<1>2. EndpointTypeOK'
  BY <1>1 DEF EInv, EndpointTypeOK, Flags, Phases, Waits, Servers
<1>3. Phased'
  BY <1>1 DEF EInv, EndpointTypeOK, Phased, Waiting
<1>4. Waiting'
  BY <1>1 DEF EInv, EndpointTypeOK, Phased, Waiting, FlagsExact
<1>5. FlagsExact'
  BY <1>1 DEF EInv, EndpointTypeOK, Phased, Waiting, FlagsExact, Listening
<1>6. Listening'
  BY <1>1 DEF EInv, EndpointTypeOK, Phased, Waiting, FlagsExact, Listening
<1>7. Configured'
  BY <1>1 DEF EInv, EndpointTypeOK, Phased, Waiting, FlagsExact, Configured, Servers
<1> QED BY <1>2, <1>3, <1>4, <1>5, <1>6, <1>7 DEF EInv

\* Its address has been taken: the rollback throws.
LEMMA OldRestartFailsStep ==
  ASSUME EInv, OldRestartFails
  PROVE  EInv'
<1> USE DEF OldRestartFails, hostVars, envVars, fixed
<1>1. Known /\ UNCHANGED <<Strategy, Replacement>>
  BY StrategyFacts DEF EInv
<1> USE DEF Known
<1>2. EndpointTypeOK'
  BY <1>1 DEF EInv, EndpointTypeOK, Flags, Phases, Waits, Servers
<1>3. Phased'
  BY <1>1 DEF EInv, EndpointTypeOK, Phased, Waiting
<1>4. Waiting'
  BY <1>1 DEF EInv, EndpointTypeOK, Phased, Waiting, FlagsExact
<1>5. FlagsExact'
  BY <1>1 DEF EInv, EndpointTypeOK, Phased, Waiting, FlagsExact, Listening
<1>6. Listening'
  BY <1>1 DEF EInv, EndpointTypeOK, Phased, Waiting, FlagsExact, Listening
<1>7. Configured'
  BY <1>1 DEF EInv, EndpointTypeOK, Phased, Waiting, FlagsExact, Configured, Servers
<1> QED BY <1>2, <1>3, <1>4, <1>5, <1>6, <1>7 DEF EInv

\* cleanup stops a candidate the engine does not refer to.
LEMMA EndpointCleanupStep ==
  ASSUME EInv, EndpointCleanup
  PROVE  EInv'
<1> USE DEF EndpointCleanup, NothingToClean, envVars, fixed
<1>1. Known /\ UNCHANGED <<Strategy, Replacement>>
  BY StrategyFacts DEF EInv
<1> USE DEF Known
<1>2. EndpointTypeOK'
  BY <1>1 DEF EInv, EndpointTypeOK, Flags, Phases, Waits, Servers
<1>3. Phased'
  BY <1>1 DEF EInv, EndpointTypeOK, Phased, Waiting
<1>4. Waiting'
  BY <1>1 DEF EInv, EndpointTypeOK, Phased, Waiting, FlagsExact
<1>5. FlagsExact'
  BY <1>1 DEF EInv, EndpointTypeOK, Phased, Waiting, FlagsExact, Listening
<1>6. Listening'
  BY <1>1 DEF EInv, EndpointTypeOK, Phased, Waiting, FlagsExact, Listening
<1>7. Configured'
  BY <1>1 DEF EInv, EndpointTypeOK, Phased, Waiting, FlagsExact, Configured, Servers
<1> QED BY <1>2, <1>3, <1>4, <1>5, <1>6, <1>7 DEF EInv

\* That stop() resolves.
LEMMA CleanupCandidateStoppedStep ==
  ASSUME EInv, CleanupCandidateStopped
  PROVE  EInv'
<1> USE DEF CleanupCandidateStopped, envVars, fixed
<1>1. Known /\ UNCHANGED <<Strategy, Replacement>>
  BY StrategyFacts DEF EInv
<1> USE DEF Known
<1>2. EndpointTypeOK'
  BY <1>1 DEF EInv, EndpointTypeOK, Flags, Phases, Waits, Servers
<1>3. Phased'
  BY <1>1 DEF EInv, EndpointTypeOK, Phased, Waiting
<1>4. Waiting'
  BY <1>1 DEF EInv, EndpointTypeOK, Phased, Waiting, FlagsExact
<1>5. FlagsExact'
  BY <1>1 DEF EInv, EndpointTypeOK, Phased, Waiting, FlagsExact, Listening
<1>6. Listening'
  BY <1>1 DEF EInv, EndpointTypeOK, Phased, Waiting, FlagsExact, Listening
<1>7. Configured'
  BY <1>1 DEF EInv, EndpointTypeOK, Phased, Waiting, FlagsExact, Configured, Servers
<1> QED BY <1>2, <1>3, <1>4, <1>5, <1>6, <1>7 DEF EInv

\* Clients come and go, and other processes take and free ports.
LEMMA EndpointEnvironmentStep ==
  ASSUME EInv, \/ \E s \in Servers : Connect(s) \/ Leave(s)
               \/ \E a \in Addrs : TakePort(a) \/ FreePort(a)
  PROVE  EInv'
<1>1. UNCHANGED <<hostVars, runVars, fixed>> /\ clients' \in SUBSET {"old", "cand"} /\ taken' \in SUBSET Addrs
  BY DEF EInv, EndpointTypeOK, Listening, Servers, Connect, Leave, TakePort, FreePort, hostVars, runVars
<1> QED BY <1>1 DEF EInv, EndpointTypeOK, Phased, Waiting, FlagsExact, Listening, Configured, hostVars, runVars,
            fixed, Strategy, Replacement

\* An engine, running or not, with its endpoint as configured.
LEMMA EndpointInitInv ==
  ASSUME EndpointInit
  PROVE  EInv
BY DEF EndpointInit, EInv, EndpointTypeOK, Phased, Waiting, FlagsExact, Listening, Configured, Servers, Phases, Waits,
       Flags, Strategy, EndpointConfigs

\* Every step keeps the invariant.
LEMMA EndpointStep ==
  ASSUME EInv, [EndpointNext]_endpointVars
  PROVE  EInv'
<1>1. CASE AdapterStep
  BY <1>1, PhaseMove, CommitInPlaceStep, CommitNotStartedStep, CommitDisableStep, CommitReplaceStep,
     CandidateStartsStep, CandidateFailsStep, OldStoppedStep, RollbackInPlaceStep, RollbackReplacedStep,
     RollbackCandidateStoppedStep, OldRestartsStep, OldRestartFailsStep, EndpointCleanupStep,
     CleanupCandidateStoppedStep DEF AdapterStep
<1>2. CASE ExecutorStep
  BY <1>2, PhaseMove DEF ExecutorStep
<1>3. CASE UNCHANGED endpointVars
  BY <1>3 DEF EInv, EndpointTypeOK, Phased, Waiting, FlagsExact, Listening, Configured, endpointVars, hostVars, runVars,
            envVars, fixed, Strategy, Replacement
<1> QED BY <1>1, <1>2, <1>3, EndpointEnvironmentStep DEF EndpointNext

-----------------------------------------------------------------------------
(* The results.                                                            *)

\* The invariant holds in every reachable state.
LEMMA EndpointAlways ==
  EndpointSpec => []EInv
<1>1. EndpointInit => EInv
  BY EndpointInitInv
<1>2. EInv /\ [EndpointNext]_endpointVars => EInv'
  BY EndpointStep
<1> QED BY <1>1, <1>2, PTL DEF EndpointSpec

\* Whatever addresses and settings the endpoint has and whenever clients keep
\* close() waiting, an operation outlives its deadline or a port is lost: when
\* all is over the endpoint is what the outcome says, and nothing listens that
\* the engine does not refer to.
THEOREM EndpointAlwaysSettles ==
  EndpointSpec => []EndpointSettles
<1>1. ASSUME EInv
      PROVE  EndpointSettles
  <2>0. /\ EndpointTypeOK /\ Phased /\ Waiting /\ FlagsExact /\ Listening /\ Configured
    BY <1>1 DEF EInv
  <2>1. Known
    BY <2>0, StrategyFacts
  <2> SUFFICES ASSUME Quiet
               PROVE  /\ outcome = "committed" => Serves(current, nextCfg)
                      /\ outcome = "rolled_back" /\ ~CommitAbandoned => OldServesAgain
                      /\ open \subseteq {current}
    BY <2>0 DEF EndpointSettles
  <2>2. phase = "done" /\ pc["commit"] \in {"idle", "returned", "threw"}
        /\ pc["rollback"] \in {"idle", "returned", "threw"} /\ pc["cleanup"] \in {"idle", "returned"}
    BY <2>0 DEF Quiet, EndpointTypeOK, Waiting
  <2>3. outcome = "committed" => Serves(current, nextCfg)
    BY <2>0, <2>1, <2>2 DEF Known, Serves, Waiting, FlagsExact, Listening, Configured
  <2>4. outcome = "rolled_back" /\ ~CommitAbandoned => OldServesAgain
    BY <2>0, <2>1, <2>2 DEF Known, CommitAbandoned, OldServesAgain, Serves, Waiting, FlagsExact,
                             Listening, Configured
  <2>5. open \subseteq {current}
    BY <2>0, <2>1, <2>2 DEF Known, EndpointTypeOK, Servers, Waiting, FlagsExact, Listening
  <2> QED BY <2>3, <2>4, <2>5
<1> QED BY <1>1, EndpointAlways, PTL

\* Replacing an endpoint never leaves a moment without a listener, until a
\* failure calls for recovery.
THEOREM ReplaceAlwaysServes ==
  EndpointSpec => []ReplaceKeepsServing
<1>1. ASSUME EInv
      PROVE  ReplaceKeepsServing
  <2>1. Strategy \in {"in-place", "replace"} \/ ~nextCfg.enabled
    BY <1>1, StrategyFacts DEF EInv, Known
  <2> QED BY <1>1, <2>1 DEF EInv, Waiting, Listening, ReplaceKeepsServing
<1> QED BY <1>1, EndpointAlways, PTL
==============================================================================
