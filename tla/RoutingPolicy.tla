---------------------------- MODULE RoutingPolicy ----------------------------
(***************************************************************************)
(* router/policy.ts, health.ts and prober.ts, with the UDP path of         *)
(* core/engine.ts that uses them: packets choose an order of outbounds from*)
(* the health known when they are routed, try them one after another and   *)
(* record each result; the prober records its own; a reload takes a copy of*)
(* the health, and packets of the old generation go on recording in the old*)
(* manager.  The prober keeps the manager it was made with, the first.     *)
(***************************************************************************)
EXTENDS Naturals, Sequences, SequencesExt, FiniteSets, Lists

CONSTANTS
    Policies,                \* per policy tag: type, strategy and outbounds
    SupportsUdp,             \* outbounds that exist and have sendUdp
    unhealthyAfterFailures,
    recoverAfterMs,
    Latencies,               \* measured latencies, positive
    Packets,                 \* a bound on the calls of sendUdp, 1..n
    Generations,             \* a bound on the policy managers, 1..n
    MaxTime,                 \* a bound on time, which starts at 1
    ProbeTargets,            \* the prober's targets, in their order
    maxConcurrency, budgetPerInterval, backoffBaseMs, backoffMaxMs, maxSamples,
    MaxProbeRuns             \* a bound on the runs of the prober

\* parseRoutingPolicy refuses a policy without outbounds; it lets one list an
\* outbound twice.
ASSUME PoliciesAssumption ==
    /\ \A p \in DOMAIN Policies :
          /\ Policies[p].outbounds \in Seq(ToSet(Policies[p].outbounds)) \ {<<>>}
          /\ Policies[p].strategy \in {"roundRobin", "leastLatency", "random"}
    /\ Latencies \subseteq Nat \ {0} /\ unhealthyAfterFailures \in Nat /\ recoverAfterMs \in Nat
    /\ Packets \subseteq Nat /\ Generations \subseteq Nat /\ 1 \in Generations

Tags == UNION {ToSet(Policies[p].outbounds) : p \in DOMAIN Policies}

\* parseProbing; the caller in prober.test.ts gives one target for each tag.
ASSUME ProbingAssumption ==
    /\ ProbeTargets \in Seq(Tags) /\ IsInjective(ProbeTargets)
    /\ {maxConcurrency, budgetPerInterval, backoffBaseMs, backoffMaxMs, maxSamples} \subseteq Nat \ {0}

VARIABLES
    health,     \* per manager and outbound: failures, lastFailureAt, latencyEwmaMs; 0 is undefined
    rotation,   \* per manager and policy: roundRobinIndex
    active,     \* the manager of the active routing generation
    snapshot,   \* the health copied for the staged policy generation, <<>> if none
    packet,     \* per packet: where its loop over the candidates stands
    now,
    interval,   \* the prober's timer is set
    probing,    \* tags whose probe is awaited
    runnable,   \* tags of this run not yet taken by a worker
    attempted,  \* tags probed since the run began
    backoff,    \* per tag: the prober's state
    samples,    \* per tag: the health store's last results
    probeRuns

policyVars == <<health, rotation, active, snapshot, packet, now>>
proberVars == <<interval, probing, runnable, attempted, backoff, samples, probeRuns>>
routingVars == <<policyVars, proberVars>>

Fresh == [t \in Tags |-> [failures |-> 0, lastFailureAt |-> 0, latencyEwmaMs |-> 0]]
Least(a, b) == IF a <= b THEN a ELSE b

RoutingInit ==
    /\ health = [g \in Generations |-> Fresh]
    /\ rotation = [g \in Generations |-> [p \in DOMAIN Policies |-> 0]]
    /\ active = 1 /\ snapshot = <<>> /\ now = 1
    /\ packet = [k \in Packets |-> [state |-> "idle"]]
    /\ interval = FALSE /\ probing = {} /\ runnable = <<>> /\ attempted = <<>>
    /\ backoff = [t \in Tags |-> [failures |-> 0, nextAllowedAt |-> 0]]
    /\ samples = [t \in Tags |-> <<>>] /\ probeRuns = 0
-----------------------------------------------------------------------------
(* RoutingPolicyManager.  Failures are counted up to the threshold.        *)
isHealthy(g, t) ==
    \/ health[g][t].failures < unhealthyAfterFailures
    \/ health[g][t].lastFailureAt = 0
    \/ now - health[g][t].lastFailureAt >= recoverAfterMs

Healthy(g, p) == Those(Policies[p].outbounds, {t \in Tags : isHealthy(g, t)})
Without(s, set) == Those(s, ToSet(s) \ set)

selectFailover(g, p) ==
    Healthy(g, p) \o Without(Policies[p].outbounds, ToSet(Healthy(g, p)))

\* By latencyScore, which is infinite without a measurement.
Faster(g, t, u) ==
    LET ms(x) == health[g][x].latencyEwmaMs
    IN ms(t) # 0 /\ (ms(u) = 0 \/ ms(t) < ms(u))

\* The first of the pool; the earliest of those with the least latency.
pickLoadBalanceFirst(g, p, pool) ==
    CASE Policies[p].strategy = "leastLatency" ->
            {pool[CHOOSE i \in DOMAIN pool : \A j \in DOMAIN pool :
                \/ Faster(g, pool[i], pool[j])
                \/ ~Faster(g, pool[j], pool[i]) /\ i <= j]}
      [] Policies[p].strategy = "random" -> ToSet(pool)
      [] Policies[p].strategy = "roundRobin" -> {pool[(rotation[g][p] % Len(pool)) + 1]}

\* Mutant of selectLoadBalance: outbounds that are not healthy are left out.
selectLoadBalanceHealthyOnly(g, p) ==
    LET pool == IF Healthy(g, p) # <<>> THEN Healthy(g, p) ELSE Policies[p].outbounds
    IN {<<first>> \o Without(pool, {first}) : first \in pickLoadBalanceFirst(g, p, pool)}

\* The orders it may return.
selectLoadBalance(g, p) ==
    LET pool == IF Healthy(g, p) # <<>> THEN Healthy(g, p) ELSE Policies[p].outbounds
    IN {<<first>> \o Without(pool, {first}) \o Without(Policies[p].outbounds, ToSet(pool)) :
            first \in pickLoadBalanceFirst(g, p, pool)}

select(g, p) == IF Policies[p].type = "failover" THEN {selectFailover(g, p)} ELSE selectLoadBalance(g, p)

Rotates(p) == Policies[p].type # "failover" /\ Policies[p].strategy = "roundRobin"

\* A moving average lies between its old value and the sample.
recordSuccess(h, t, ms) ==
    LET old == h[t].latencyEwmaMs
        between == IF old = 0 THEN {ms} ELSE {m \in Latencies : (old <= m /\ m <= ms) \/ (ms <= m /\ m <= old)}
    IN {[h EXCEPT ![t] = [failures |-> 0, lastFailureAt |-> 0, latencyEwmaMs |-> m]] : m \in between}

\* One call for each member of the sequence.
recordFailure(h, failed) ==
    [t \in Tags |-> IF t \in ToSet(failed)
        THEN [h[t] EXCEPT !.lastFailureAt = now,
                          !.failures = Least(@ + Cardinality({i \in DOMAIN failed : failed[i] = t}),
                                             unhealthyAfterFailures)]
        ELSE h[t]]
-----------------------------------------------------------------------------
(* Engine.sendUdp *)
\* Candidates that are missing or have no sendUdp fail without an await.
Skipped(s) == Cardinality({j \in DOMAIN s : \A n \in 1..j : s[n] \notin SupportsUdp})

\* The loop goes on with the candidates s after those in failed have failed.
GoesOn(k, g, record, s, failed) ==
    LET gone == failed \o SubSeq(s, 1, Skipped(s))
        rest == SubSeq(s, Skipped(s) + 1, Len(s))
    IN /\ health' = [health EXCEPT ![g] = recordFailure(@, gone)]
       /\ packet' = [packet EXCEPT ![k] =
            [record EXCEPT !.tried = @ \union ToSet(gone), !.rest = rest,
                           !.state = IF rest = <<>> THEN "failed" ELSE "sending"]]

sendUdp(k, p) ==
    /\ packet[k].state = "idle" /\ \A j \in Packets : j < k => packet[j].state # "idle"
    /\ rotation' = IF Rotates(p) THEN [rotation EXCEPT ![active][p] = @ + 1] ELSE rotation
    /\ \E order \in select(active, p) :
          GoesOn(k, active, [state |-> "sending", manager |-> active, policy |-> p, order |-> order, tried |-> {},
                             rest |-> order, healthy |-> ToSet(Healthy(active, p))], order, <<>>)
    /\ UNCHANGED <<active, snapshot, now, proberVars>>

UdpAnswered(k) ==
    /\ packet[k].state = "sending"
    /\ \E ms \in Latencies : \E h \in recordSuccess(health[packet[k].manager], Head(packet[k].rest), ms) :
          health' = [health EXCEPT ![packet[k].manager] = h]
    /\ packet' = [packet EXCEPT ![k].state = "answered"]
    /\ UNCHANGED <<rotation, active, snapshot, now, proberVars>>

UdpFailed(k) ==
    /\ packet[k].state = "sending"
    /\ GoesOn(k, packet[k].manager, packet[k], Tail(packet[k].rest), <<Head(packet[k].rest)>>)
    /\ UNCHANGED <<rotation, active, snapshot, now, proberVars>>
-----------------------------------------------------------------------------
(* A reload: the health is copied when the policy generation is prepared.  *)
PreparePolicy ==
    /\ snapshot = <<>> /\ active + 1 \in Generations
    /\ snapshot' = <<health[active]>>
    /\ UNCHANGED <<health, rotation, active, packet, now, proberVars>>

PublishPolicy ==
    /\ snapshot # <<>>
    /\ active' = active + 1
    /\ health' = [health EXCEPT ![active + 1] = snapshot[1]]
    /\ snapshot' = <<>>
    /\ UNCHANGED <<rotation, packet, now, proberVars>>

DropPolicy ==
    /\ snapshot # <<>>
    /\ snapshot' = <<>>
    /\ UNCHANGED <<health, rotation, active, packet, now, proberVars>>
-----------------------------------------------------------------------------
(* ActiveProber *)
startProber ==
    /\ ~interval
    /\ interval' = TRUE
    /\ UNCHANGED <<policyVars, probing, runnable, attempted, backoff, samples, probeRuns>>

stopProber ==
    /\ interval
    /\ interval' = FALSE
    /\ UNCHANGED <<policyVars, probing, runnable, attempted, backoff, samples, probeRuns>>

canProbe(t) == backoff[t].nextAllowedAt <= now

\* The targets of a run: those not backing off, as many as the budget allows.
Runnable ==
    LET allowed == Those(ProbeTargets, {t \in Tags : canProbe(t)})
    IN SubSeq(allowed, 1, Least(budgetPerInterval, Len(allowed)))

\* Mutant of runOnce: a run starts while another one is going on.
runOnceAgain ==
    LET taken == Least(maxConcurrency, Len(Runnable)) IN
    /\ interval
    /\ probeRuns < MaxProbeRuns /\ Runnable # <<>>
    /\ probeRuns' = probeRuns + 1
    /\ attempted' = attempted \o SubSeq(Runnable, 1, taken)
    /\ probing' = probing \union ToSet(SubSeq(Runnable, 1, taken))
    /\ runnable' = SubSeq(Runnable, taken + 1, Len(Runnable))
    /\ UNCHANGED <<policyVars, interval, backoff, samples>>

\* The timer fires while no run is going on; each worker takes a target.
runOnce ==
    LET taken == Least(maxConcurrency, Len(Runnable)) IN
    /\ interval /\ probing = {}
    /\ probeRuns < MaxProbeRuns /\ Runnable # <<>>
    /\ probeRuns' = probeRuns + 1
    /\ attempted' = attempted \o SubSeq(Runnable, 1, taken)
    /\ probing' = ToSet(SubSeq(Runnable, 1, taken))
    /\ runnable' = SubSeq(Runnable, taken + 1, Len(Runnable))
    /\ UNCHANGED <<policyVars, interval, backoff, samples>>

\* The worker takes the next target; the run ends with the last of them.
NextTarget(t) ==
    LET next == IF runnable = <<>> THEN <<>> ELSE <<Head(runnable)>>
        left == (probing \ {t}) \union ToSet(next)
    IN /\ t \in probing
       /\ probing' = left
       /\ runnable' = SubSeq(runnable, Len(next) + 1, Len(runnable))
       /\ attempted' = IF left = {} THEN <<>> ELSE attempted \o next

Kept(s) == SubSeq(s, 1 + (IF Len(s) > maxSamples THEN Len(s) - maxSamples ELSE 0), Len(s))
Sample(t, ok) == samples' = [samples EXCEPT ![t] = Kept(Append(@, ok))]

ProbeSucceeds(t) ==
    /\ NextTarget(t)
    /\ backoff' = [backoff EXCEPT ![t] = [failures |-> 0, nextAllowedAt |-> 0]]
    /\ Sample(t, TRUE)
    /\ \E ms \in Latencies : \E h \in recordSuccess(health[1], t, ms) : health' = [health EXCEPT ![1] = h]
    /\ UNCHANGED <<rotation, active, snapshot, packet, now, interval, probeRuns>>

\* min(backoffMaxMs, backoffBaseMs * 2 ** min(failures - 1, 16))
BackoffMs(failures) == Least(backoffMaxMs, backoffBaseMs * 2^Least(failures - 1, 16))

\* The probe fails, or is given up by withTimeout.
ProbeFails(t) ==
    LET failures == backoff[t].failures + 1 IN
    /\ NextTarget(t)
    /\ backoff' = [backoff EXCEPT ![t] = [failures |-> failures, nextAllowedAt |-> now + BackoffMs(failures)]]
    /\ Sample(t, FALSE)
    /\ health' = [health EXCEPT ![1] = recordFailure(@, <<t>>)]
    /\ UNCHANGED <<rotation, active, snapshot, packet, now, interval, probeRuns>>
-----------------------------------------------------------------------------
TimePasses ==
    /\ now < MaxTime
    /\ now' = now + 1
    /\ UNCHANGED <<health, rotation, active, snapshot, packet, proberVars>>

\* Traffic and reloads, and the prober: they share health[1] and the time.
PacketStep ==
    \/ \E k \in Packets : (\E p \in DOMAIN Policies : sendUdp(k, p)) \/ UdpAnswered(k) \/ UdpFailed(k)
    \/ PreparePolicy \/ PublishPolicy \/ DropPolicy

ProberStep ==
    \/ startProber \/ stopProber \/ runOnce
    \/ \E t \in Tags : ProbeSucceeds(t) \/ ProbeFails(t)
-----------------------------------------------------------------------------
(* Properties *)
Routed == {k \in Packets : packet[k].state # "idle"}

\* A packet's candidates are all outbounds of its policy, those healthy when it
\* was routed before the others, and each once if the policy lists it once; it
\* is given up only after every one of them has failed; and two packets that
\* follow each other under such a round robin policy, with all its outbounds
\* healthy both times, start with different ones.
SelectionSound ==
    /\ \A k \in Routed :
          LET q == packet[k] IN
          /\ ToSet(q.order) = ToSet(Policies[q.policy].outbounds)
          /\ IsInjective(Policies[q.policy].outbounds) => IsInjective(q.order)
          /\ \A i, j \in DOMAIN q.order : (i < j /\ q.order[j] \in q.healthy) => q.order[i] \in q.healthy
          /\ q.state = "failed" => q.tried = ToSet(Policies[q.policy].outbounds)
    /\ \A j, k \in Routed :
          LET same(n) == packet[n].policy = packet[k].policy /\ packet[n].manager = packet[k].manager
              whole(n) == packet[n].healthy = ToSet(packet[n].order) /\ Len(packet[n].order) > 1
          IN (j < k /\ same(j) /\ Rotates(packet[k].policy) /\ whole(j) /\ whole(k)
                /\ IsInjective(Policies[packet[k].policy].outbounds)
                /\ \A n \in Routed : ~(j < n /\ n < k /\ same(n)))
             => Head(packet[j].order) # Head(packet[k].order)

\* However the timer, slow probes and stop() interleave, no more probes are
\* awaited than allowed, a run probes no tag twice and no more tags than its
\* budget, and no tag before its backoff is over, which never exceeds the
\* maximum; the failures a tag is backed off for are the failed samples at
\* the end of its window in the health store.
ProberBounded ==
    /\ Cardinality(probing) <= maxConcurrency
    /\ IsInjective(attempted) /\ Len(attempted) + Len(runnable) <= budgetPerInterval
    /\ \A t \in probing : canProbe(t)
    /\ \A t \in Tags :
          LET s == samples[t]
              trailing == {n \in 0..Len(s) : \A i \in (Len(s) - n + 1)..Len(s) : ~s[i]}
          IN /\ backoff[t].nextAllowedAt <= now + backoffMaxMs
             /\ Least(backoff[t].failures, Len(s)) \in trailing
             /\ \A n \in trailing : n <= backoff[t].failures
=============================================================================
