------------------------------ MODULE ReloadPlan ------------------------------
(***************************************************************************)
(* What the code computes from a running and a candidate configuration     *)
(* before it touches the runtime: the outbound diff and its validation     *)
(* (src/outbound/generationBuilder.ts, generationValidator.ts,             *)
(* generation.ts), the outbound dry run and shadow (outbound/dryRun.ts,    *)
(* shadow.ts), the component plan (reload/dryRun.ts), and, to compare      *)
(* with, what the runtime reload decides by itself                         *)
(* (reload/runtimeIntegration.ts, adapters/outboundRuntimeAdapter.ts).     *)
(* stableJson sorts keys, so two values with the same JSON are equal here. *)
(***************************************************************************)
EXTENDS ConfigLoader

CONSTANT CurrentFiles   \* configuration files the running engine may have been started with

\* The engine runs what it has loaded.
ASSUME CurrentAssumption == \A f \in CurrentFiles : Parsed(f) /\ ~IsBad(parseConfig(Migrated(f)))

VARIABLES current,   \* the configuration that runs
          report     \* what the tools and the runtime make of the candidate

planVars == <<loaderVars, current, report>>

Tag(x) == x.o.tag.s
Type(x) == TypeKey(x)
TagSeq(list) == [i \in DOMAIN list |-> Tag(list[i])]
ByTag(list, tag) == CHOOSE x \in ToSet(list) : Tag(x) = tag
-------------------------------------------------------------------------------
(***************************************************************************)
(* diffOutboundConfigs                                                     *)
(***************************************************************************)
withoutTag(x) == [k \in DOMAIN x.o \ {"tag"} |-> x.o[k]]

Missing(list, other) == Those(list, {x \in ToSet(list) : Tag(x) \notin ToSet(TagSeq(other))})

\* Mutant of PairUp: an added outbound is paired again and again.
PairUpAgain(added, pairs, old) ==
    LET fits == {i \in DOMAIN added : withoutTag(added[i]) = withoutTag(old)}
    IN  IF fits = {} THEN pairs
        ELSE Append(pairs, [from |-> Tag(old),
                            to |-> Tag(added[CHOOSE i \in fits : \A j \in fits : i <= j])])

\* A removed outbound is paired with the first added one that is equal but for
\* its tag and not paired yet.
PairUp(added, pairs, old) ==
    LET fits == {i \in DOMAIN added : /\ withoutTag(added[i]) = withoutTag(old)
                                      /\ \A p \in ToSet(pairs) : p.to # Tag(added[i])}
    IN  IF fits = {} THEN pairs
        ELSE Append(pairs, [from |-> Tag(old),
                            to |-> Tag(added[CHOOSE i \in fits : \A j \in fits : i <= j])])

Renamed(removed, added) ==
    LET pairs[n \in 0..Len(removed)] ==
            IF n = 0 THEN <<>> ELSE PairUp(added, pairs[n - 1], removed[n])
    IN  pairs[Len(removed)]

SecretKeys == {"password", "privateKey"}

\* The keys that differ; the value of a secret one is never shown.
changedFields(x, y) ==
    {[key |-> k, redacted |-> k \in SecretKeys] :
        k \in {key \in DOMAIN x.o \cup DOMAIN y.o : Get(x.o, key) # Get(y.o, key)}}

ServerKeys(x) == CASE Type(x) = "tcpRelay" -> {"type", "targetHost", "targetPort"}
                   [] Type(x) \in {"shadowsocks", "trojan"} -> {"type", "serverHost", "serverPort"}
                   [] OTHER -> {"type"}
targetIdentity(x) == [k \in ServerKeys(x) |-> x.o[k]]

IdentityKeys(x) == CASE Type(x) = "shadowsocks" -> {"method", "password"}
                     [] Type(x) = "trojan"      -> {"password", "tls"}
                     [] Type(x) = "wireguard"   -> {"privateKey"}
                     [] OTHER                   -> {}
secretIdentity(x) ==
    Joined([k \in IdentityKeys(x) |-> x.o[k]],
           IF Type(x) = "wireguard" THEN [peer |-> x.o.peer.o.publicKey] ELSE <<>>)

\* Who refers to which tag: default, rule tags, policies.
policyReferences(c) ==
    LET r == c.o.route.o
    IN  {[tag |-> r.defaultOutbound.s, by |-> "default"]}
        \cup {[tag |-> x.o.outboundTag.s, by |-> "rule"] : x \in ToSet(r.rules.a)}
        \cup UNION {{[tag |-> m.s, by |-> "policy"] : m \in ToSet(p.o.outbounds.a)} :
                       p \in ToSet(r.policies.a)}

diffOutboundConfigs(old, new, c) ==
    LET removed == Missing(old, new)
        added   == Missing(new, old)
        renamed == Renamed(removed, added)
        changed == {y \in ToSet(new) : Tag(y) \in ToSet(TagSeq(old)) /\ ByTag(old, Tag(y)) # y}
        Was(y)  == ByTag(old, Tag(y))
    IN  [renamed       |-> renamed,
         added         |-> ToSet(TagSeq(added)) \ {p.to : p \in ToSet(renamed)},
         removed       |-> ToSet(TagSeq(removed)) \ {p.from : p \in ToSet(renamed)},
         modified      |-> {[tag |-> Tag(y), fields |-> changedFields(Was(y), y)] : y \in changed},
         typeChanged   |-> {Tag(y) : y \in {z \in changed : Was(z).o.type # z.o.type}},
         targetChanged |-> {Tag(y) : y \in {z \in changed : targetIdentity(Was(z)) # targetIdentity(z)}},
         secretChanged |-> {Tag(y) : y \in {z \in changed : secretIdentity(Was(z)) # secretIdentity(z)}},
         references    |-> policyReferences(c),
         missing       |-> {r.tag : r \in policyReferences(c)} \ ToSet(TagSeq(new))]
-------------------------------------------------------------------------------
(***************************************************************************)
(* validateOutboundGeneration                                              *)
(***************************************************************************)
riskLevelFor(type) == CASE type \in {"direct", "block", "tcpRelay"} -> "low"
                        [] type \in {"shadowsocks", "trojan"}       -> "medium"
                        [] OTHER                                    -> "high"
isExperimentalType(type) == riskLevelFor(type) = "high"
SUPPORTED_TYPES == {"direct", "block", "tcpRelay", "shadowsocks", "trojan", "wireguard"}

Issue(code, x) == [code |-> code, tag |-> Tag(x)]
IssueIf(test, code, x) == IF test THEN {Issue(code, x)} ELSE {}

validateTag(list, i) ==
    IssueIf(Blank(Tag(list[i])), "empty-tag", list[i])
    \cup IssueIf(\E j \in 1..(i - 1) : Tag(list[j]) = Tag(list[i]), "duplicate-tag", list[i])

\* No caller sets allowExperimental.
validateType(x) ==
    IF Type(x) \notin SUPPORTED_TYPES THEN {Issue("unsupported-type", x)}
    ELSE IssueIf(isExperimentalType(Type(x)), "experimental-not-enabled", x)

\* The keys of a parsed object that are present.
KeysOf(x) == {k \in DOMAIN x.o : ~IsUndef(x.o[k])}
CommonKeys == {"type", "tag", "connectTimeoutMs", "idleTimeoutMs"}
Extra(x, allowed) == IssueIf(~(KeysOf(x) \subseteq allowed), "dangerous-extra-fields", x)

\* The host contains a blank: the schema has not trimmed it.
validateHostPort(x, host, port) ==
    IssueIf(Blank(x.o[host].s) \/ x.o[host].s.pad, "invalid-target-host", x)
    \cup IssueIf(~IsIntIn(x.o[port], 1, 65535), "invalid-target-port", x)

validateFields(x) ==
    CASE Type(x) = "direct"      -> Extra(x, CommonKeys)
      [] Type(x) = "block"       -> Extra(x, CommonKeys \cup {"reason"})
      [] Type(x) = "tcpRelay"    -> validateHostPort(x, "targetHost", "targetPort")
      [] Type(x) = "shadowsocks" -> validateHostPort(x, "serverHost", "serverPort")
                                    \cup IssueIf(x.o.method.s \notin WordsOf(Method.words),
                                                 "unsupported-shadowsocks-cipher", x)
      [] Type(x) = "trojan"      -> validateHostPort(x, "serverHost", "serverPort")
                                    \cup IssueIf(~IsUndef(x.o.tls.o.serverName) /\ Blank(x.o.tls.o.serverName.s),
                                                 "invalid-trojan-server-name", x)
      [] OTHER                   -> {}

\* References of a whole configuration that the validator checks again.
ReferenceIssues(c) ==
    LET tags == TagsOf(c.o.outbounds)
    IN  {[code |-> "missing-default-outbound", tag |-> t] :
            t \in {c.o.route.o.defaultOutbound.s} \ (tags \cup TagsOf(c.o.route.o.policies))}
        \cup {[code |-> "missing-policy-outbound", tag |-> t] :
                 t \in (UNION {{m.s : m \in ToSet(p.o.outbounds.a)} : p \in ToSet(c.o.route.o.policies.a)}) \ tags}

Errors(c) ==
    LET outs == c.o.outbounds.a
    IN  (UNION {validateTag(outs, i) \cup validateType(outs[i]) \cup validateFields(outs[i]) : i \in DOMAIN outs})
        \cup ReferenceIssues(c)

\* Removed outbounds that the active policies, or open connections, still use.
Warnings(diff, policies, inUse) ==
    {[code |-> "removed-active-policy-reference", tag |-> m.s] :
        m \in {x \in UNION {ToSet(p.o.outbounds.a) : p \in ToSet(policies.a)} : x.s \in diff.removed}}
    \cup {[code |-> "removed-active-connection-reference", tag |-> t] : t \in inUse \cap diff.removed}
    \cup {[code |-> "secret-identity-changed", tag |-> t] : t \in diff.secretChanged}

Unsupported(c, diff) ==
    {Tag(x) : x \in {y \in ToSet(c.o.outbounds.a) : isExperimentalType(Type(y))}} \cup diff.typeChanged

Risks(c) == {riskLevelFor(Type(x)) : x \in ToSet(c.o.outbounds.a)}
HighestRisk(c) == IF "high" \in Risks(c) THEN "high"
                  ELSE IF "medium" \in Risks(c) THEN "medium"
                  ELSE IF "low" \in Risks(c) THEN "low" ELSE "none"

buildOutboundGeneration(old, c, inUse) ==
    LET diff == diffOutboundConfigs(old.o.outbounds.a, c.o.outbounds.a, c)
    IN  [diff        |-> diff,
         errors      |-> Errors(c),
         warnings    |-> Warnings(diff, old.o.route.o.policies, inUse),
         unsupported |-> Unsupported(c, diff),
         highest     |-> HighestRisk(c)]

\* The generation's constructor throws on a repeated tag only.
assertUniqueTags(list) == checkUniqueTags(list)
-------------------------------------------------------------------------------
(***************************************************************************)
(* The outbound dry run and shadow.                                        *)
(***************************************************************************)
m11Allowed(built, c) ==
    /\ built.errors = {} /\ built.unsupported = {}
    /\ \A x \in ToSet(c.o.outbounds.a) : riskLevelFor(Type(x)) = "low"

\* The policy the default names, or the default itself.
firstSelectedOutbound(c) ==
    LET r    == c.o.route.o
        hits == {p \in ToSet(r.policies.a) : p.o.tag = r.defaultOutbound}
    IN  IF hits = {} THEN r.defaultOutbound.s ELSE (CHOOSE p \in hits : TRUE).o.outbounds.a[1].s

\* One reference on the old generation, one on the candidate if its selection exists.
createOutboundShadowReport(old, c) ==
    LET oldTag   == firstSelectedOutbound(old)
        built    == buildOutboundGeneration(old, c, {oldTag})
        accepted == built.errors = {}
        newTag   == firstSelectedOutbound(c)
    IN  [built |-> built, allowed |-> m11Allowed(built, c), accepted |-> accepted,
         oldTag |-> oldTag, newTag |-> newTag,
         wouldUseCandidate |-> accepted /\ newTag \in TagsOf(c.o.outbounds)]
-------------------------------------------------------------------------------
(***************************************************************************)
(* The components of reload/dryRun.ts: what each looks at, and what a      *)
(* change of it means.  Maps compare without regard to the order of keys.  *)
(***************************************************************************)
Only(x, keys) == [k \in keys |-> x.o[k]]
AsMap(x) == ToSet(x.o)
DnsView(dns) == <<Only(dns, DOMAIN DnsFields \ {"fakeIp", "hosts", "fallbackHosts"}),
                  AsMap(dns.o.hosts), AsMap(dns.o.fallbackHosts)>>
GeoView(geo) == <<AsMap(geo.o.geoip), AsMap(geo.o.geosite)>>
RouterView(route) == Only(route, {"defaultOutbound", "rules", "ruleSetFiles"})

ViewOf(c, name) ==
    CASE name = "dns"                 -> DnsView(c.o.dns)
      [] name = "fake-ip-store"       -> c.o.dns.o.fakeIp
      [] name = "router"              -> <<RouterView(c.o.route), GeoView(c.o.geo)>>
      [] name = "policy-prober"       -> <<c.o.route.o.policies, c.o.probing>>
      [] name = "outbound-registry"   -> <<c.o.outbounds, c.o.connectionPool>>
      [] name = "inbound-listeners"   -> <<c.o.inbounds, Only(c.o.limits, {"connectTimeoutMs", "handshakeTimeoutMs",
                                                                         "idleTimeoutMs", "maxHeaderBytes"})>>
      [] name = "dashboard-server"    -> c.o.dashboard
      [] name = "metrics-server"      -> c.o.observability.o.metrics
      [] name = "plugin-manager"      -> c.o.plugins
      [] name = "connection-manager"  -> Only(c.o.limits, {"maxConnections", "handshakeTimeoutMs", "idleTimeoutMs"})
      [] name = "udp-session-manager" -> Only(c.o.limits, {"maxUdpSessions", "udpIdleTimeoutMs"})

ComponentNames == {"dns", "fake-ip-store", "router", "policy-prober", "outbound-registry",
                   "inbound-listeners", "dashboard-server", "metrics-server", "plugin-manager",
                   "connection-manager", "udp-session-manager"}

componentDefinitions == [name \in ComponentNames |-> [
    action   |-> CASE name \in {"dns", "policy-prober", "outbound-registry"}      -> "stage-and-swap"
                   [] name = "fake-ip-store"                                      -> "migrate-or-replace"
                   [] name = "router"                                             -> "atomic-snapshot"
                   [] name = "inbound-listeners"                                  -> "drain-and-rebind"
                   [] name \in {"dashboard-server", "metrics-server"}             -> "restart-listener"
                   [] name = "plugin-manager"                                     -> "best-effort-stage"
                   [] name \in {"connection-manager", "udp-session-manager"}      -> "restart-required",
    rollback |-> CASE name \in {"dns", "router", "policy-prober"}                 -> "supported"
                   [] name \in {"connection-manager", "udp-session-manager"}      -> "restart-required"
                   [] OTHER                                                       -> "best-effort"]]

Reuse == [action |-> "reuse", rollback |-> "supported"]

createDryRunReloadPlan(old, c) ==
    [name \in DOMAIN componentDefinitions |->
        IF ViewOf(old, name) # ViewOf(c, name) THEN componentDefinitions[name] ELSE Reuse]

changedComponents(plan) == {name \in DOMAIN plan : plan[name] # Reuse}
-------------------------------------------------------------------------------
(***************************************************************************)
(* RuntimeReloadIntegration.reload and OutboundRuntimeAdapter.prepare, as  *)
(* far as they decide on the two configurations alone.                     *)
(***************************************************************************)
M11Sections == {"observability", "dashboard", "reload", "route", "dns", "outbounds"}
\* Mutant of withoutM11Components: the geo lists are left out too.
withoutM11ComponentsAndGeo(c) == Only(c, DOMAIN c.o \ (M11Sections \cup {"geo"}))

withoutM11Components(c) ==
    <<Only(c, DOMAIN c.o \ (M11Sections \cup {"geo"})), GeoView(c.o.geo)>>

assertM11SupportedChange(old, c) ==
    /\ old.o.dns.o.fakeIp = c.o.dns.o.fakeIp
    /\ withoutM11Components(old) = withoutM11Components(c)

changedRuntimeComponents(old, c) ==
    {k \in TransactionalComponents :
        CASE k = "metrics"   -> old.o.observability.o.metrics # c.o.observability.o.metrics
          [] k = "dashboard" -> old.o.dashboard # c.o.dashboard
          [] k = "router"    -> RouterView(old.o.route) # RouterView(c.o.route)
          [] k = "policy"    -> old.o.route.o.policies # c.o.route.o.policies
          [] k = "outbound"  -> old.o.outbounds # c.o.outbounds
          [] k = "dns"       -> DnsView(old.o.dns) # DnsView(c.o.dns)}

EnabledComponents(c) == {x.s.w : x \in ToSet(c.o.reload.o.transactional.o.enabledComponents.a)}

ALLOWED_TYPES == {"direct", "block", "tcpRelay"}
OutboundPrepares(built, c) ==
    /\ \A x \in ToSet(c.o.outbounds.a) : Type(x) \in ALLOWED_TYPES
    /\ built.errors = {}
    /\ built.unsupported = {} /\ built.highest = "low"

\* The verdict on a reload: why it is refused before any component commits, or "runs".
RuntimeVerdict(old, c, changed, built) ==
    IF c.o.reload.o.mode # Str("transactional-experimental") THEN "legacy"
    ELSE IF ~assertM11SupportedChange(old, c) THEN "unsupported-change"
    ELSE IF ~(changed \subseteq EnabledComponents(c)) THEN "not-enabled"
    ELSE IF "outbound" \in changed /\ ~OutboundPrepares(built, c) THEN "outbound-refused"
    ELSE "runs"

RuntimeReport(old, c, shadow, changed) ==
    [shadow  |-> shadow,
     plan    |-> createDryRunReloadPlan(old, c),
     changed |-> changed,
     verdict |-> RuntimeVerdict(old, c, changed, shadow.built)]

\* The tools and the runtime look at the same pair of configurations.
NoReport == [plan |-> <<>>]

Compare ==
    /\ step = "loaded" /\ report = NoReport
    /\ \E file \in CurrentFiles :
         /\ current' = parseConfig(Migrated(file))
         /\ report' = RuntimeReport(current', result, createOutboundShadowReport(current', result),
                                    changedRuntimeComponents(current', result))
    /\ UNCHANGED loaderVars

PlanInit == LoaderInit /\ current = Undef /\ report = NoReport
PlanNext == (LoaderNext /\ UNCHANGED <<current, report>>) \/ Compare
PlanSpec == PlanInit /\ [][PlanNext]_planVars
-------------------------------------------------------------------------------
(***************************************************************************)
(* Building the runtime of an accepted configuration: PolicyGeneration,    *)
(* RouterGeneration and OutboundGeneration throw unless these hold.        *)
(***************************************************************************)
validatePolicies(c) ==
    LET pols == c.o.route.o.policies.a
        tags == TagsOf(c.o.outbounds)
    IN  /\ checkUniqueTags(c.o.route.o.policies)
        /\ \A p \in ToSet(pols) :
              /\ p.o.type.s \in WordsOf({"loadBalance", "failover"})
              /\ p.o.strategy.s \in WordsOf({"roundRobin", "leastLatency", "random"})
              /\ Tag(p) \notin tags
              /\ p.o.outbounds.a # <<>>
              /\ \A m \in ToSet(p.o.outbounds.a) : m.s \in tags

validateTargets(c) ==
    {c.o.route.o.defaultOutbound.s} \cup TargetsOf(c.o.route.o.rules) \subseteq RouteTargets(c.o)

\* new Router: a CidrMatcher is made of every block.
RouterCompiles(c) ==
    \A x \in ToSet(c.o.route.o.rules.a) : \A b \in ToSet(Texts(x.o.ipCidr)) : isValidCidr(b)
-------------------------------------------------------------------------------
(***************************************************************************)
(* Properties.                                                             *)
(***************************************************************************)
\* The variables of the loader and of the comparison have their types.
PlanTypeOK ==
    /\ LoaderTypeOK
    /\ report = NoReport \/ (step = "loaded" /\ current.t = "obj")
    /\ DOMAIN report.plan \subseteq DOMAIN componentDefinitions

\* Whatever loadConfig returns, rules of rule-set files included, can be built:
\* no constructor of a routing or outbound generation throws on it
\* (policyGeneration.ts, routerGeneration.ts, generation.ts, rules.ts), and the
\* outbound validator objects only to what the schema does not look at.
LoadedIsBuildable ==
    /\ PlanTypeOK
    /\ step = "loaded" =>
          /\ validatePolicies(result) /\ validateTargets(result) /\ RouterCompiles(result)
          /\ assertUniqueTags(result.o.outbounds)
          /\ \A e \in Errors(result) :
                e.code \in {"unsupported-type", "experimental-not-enabled", "invalid-target-host"}

\* generationBuilder.ts: every outbound of the two configurations is in exactly
\* one class of the diff, no outbound is renamed twice, a rename changes nothing
\* but the tag, and no rename is overlooked.  A tag it calls missing is that of
\* a policy.
DiffAccountsForAll ==
    report # NoReport =>
        LET old  == current.o.outbounds.a
            new  == result.o.outbounds.a
            d    == report.shadow.built.diff
            from == {p.from : p \in ToSet(d.renamed)}
            to   == {p.to : p \in ToSet(d.renamed)}
            same == {Tag(x) : x \in ToSet(old) \cap ToSet(new)}
            kept == same \cup {m.tag : m \in d.modified}
        IN  /\ kept = ToSet(TagSeq(old)) \cap ToSet(TagSeq(new))
            /\ same \cap {m.tag : m \in d.modified} = {}
            /\ ToSet(TagSeq(old)) \ kept = d.removed \cup from /\ d.removed \cap from = {}
            /\ ToSet(TagSeq(new)) \ kept = d.added \cup to /\ d.added \cap to = {}
            /\ Cardinality(from) = Len(d.renamed) /\ Cardinality(to) = Len(d.renamed)
            /\ \A p \in ToSet(d.renamed) : withoutTag(ByTag(old, p.from)) = withoutTag(ByTag(new, p.to))
            /\ \A s \in d.removed, t \in d.added : withoutTag(ByTag(old, s)) # withoutTag(ByTag(new, t))
            /\ d.typeChanged \cup d.targetChanged \cup d.secretChanged \subseteq {m.tag : m \in d.modified}
            /\ d.missing \subseteq TagsOf(result.o.route.o.policies)

PlanName(k) == CASE k = "dns"     -> "dns"
                 [] k = "router"  -> "router"
                 [] k = "policy"  -> "policy-prober"
                 [] k = "outbound" -> "outbound-registry"
                 [] k = "dashboard" -> "dashboard-server"
                 [] k = "metrics" -> "metrics-server"

\* The previews tell the truth about the runtime: a reload that the runtime lets
\* through changes exactly the components the dry run announces, the outbound
\* dry run allows exactly the candidates the adapter prepares, and a candidate
\* the shadow accepts has the outbound that a new connection would select.
PreviewMatchesRuntime ==
    report # NoReport =>
        /\ report.verdict \in {"runs", "not-enabled", "outbound-refused"} =>
              changedComponents(report.plan) = {PlanName(k) : k \in report.changed}
        /\ report.verdict = "runs" =>
              \A name \in DOMAIN report.plan : report.plan[name].action # "restart-required"
        /\ report.shadow.allowed <=> OutboundPrepares(report.shadow.built, result)
        /\ report.verdict = "runs" /\ "outbound" \in report.changed =>
              report.shadow.allowed /\ report.shadow.wouldUseCandidate
        /\ report.shadow.accepted => report.shadow.wouldUseCandidate
===============================================================================
