----------------------------- MODULE ConfigSchema -----------------------------
(***************************************************************************)
(* src/config/schema.ts: parseConfig turns an untyped JSON or YAML value   *)
(* into a SepigsConfig or throws.  Every reader pushes its complaints on   *)
(* one list and parseConfig throws when the list is not empty, so a reader *)
(* that complains is modelled by the value Bad: what it returns beside a   *)
(* complaint is never seen.  A reader that returns undefined without a     *)
(* complaint returns Undef.                                                *)
(*                                                                         *)
(* The sections are tables of fields with the bounds and defaults of the   *)
(* code.  A parsed configuration is again a JSON value, as the loader      *)
(* parses the result of one parse a second time.                           *)
(***************************************************************************)
EXTENDS RouteMatching, Lists

\* JSON values.  An absent key reads as Undef.
Undef == [t |-> "undef"]
Bad == [t |-> "bad"]
Null == [t |-> "null"]
Fraction == [t |-> "float"]
Num(n) == [t |-> "num", n |-> n]
Bool(b) == [t |-> "bool", b |-> b]
Str(w) == [t |-> "str", s |-> Text(w)]
Arr(a) == [t |-> "arr", a |-> a]
Obj(o) == [t |-> "obj", o |-> o]   \* a record of fields, or a sequence of [key, val]

IsUndef(x) == x.t = "undef"
IsBad(x) == x.t = "bad"
isRecord(x) == x.t = "obj"
Get(o, k) == IF k \in DOMAIN o THEN o[k] ELSE Undef
ItemsOf(x) == IF x.t = "arr" THEN x.a ELSE <<>>
EmptyList == Arr(<<>>)

\* The fields of f, and those of g that f does not have.
Joined(f, g) == [k \in DOMAIN f \cup DOMAIN g |-> IF k \in DOMAIN f THEN f[k] ELSE g[k]]

(***************************************************************************)
(* What JSON.parse and the YAML parser return, to the depth at which the   *)
(* schema looks into a file.                                               *)
(***************************************************************************)
IsSequence(a) == a \in Seq(ToSet(a))
Words == [w : STRING, pad : BOOLEAN, up : BOOLEAN]

IsScalar(x) ==
    CASE x.t = "num"  -> x = Num(x.n) /\ x.n \in Int
      [] x.t = "bool" -> x = Bool(x.b) /\ x.b \in BOOLEAN
      [] x.t = "str"  -> x = [t |-> "str", s |-> x.s] /\ x.s \in Words
      [] OTHER        -> x \in {Undef, Null, Fraction}

\* Objects whose keys are data are lists of entries; they are found under
\* these keys.  Any other object is a record of its fields.
MapKeys == {"hosts", "fallbackHosts", "geoip", "geosite"}
IsMap(x, Inner(_)) ==
    /\ x = Obj(x.o) /\ IsSequence(x.o)
    /\ \A e \in ToSet(x.o) : e = [key |-> e.key, val |-> e.val] /\ e.key \in Words /\ Inner(e.val)

IsValue(x, Inner(_)) ==
    CASE x.t = "arr" -> x = Arr(x.a) /\ IsSequence(x.a) /\ \A y \in ToSet(x.a) : Inner(y)
      [] x.t = "obj" -> /\ x = Obj(x.o) /\ x.o = [k \in DOMAIN x.o |-> x.o[k]]
                        /\ \A k \in DOMAIN x.o :
                              IF k \in MapKeys /\ isRecord(x.o[k]) THEN IsMap(x.o[k], Inner)
                              ELSE Inner(x.o[k])
      [] OTHER       -> IsScalar(x)

Anything(x) == TRUE
Value1(x) == IsValue(x, Anything)
Value2(x) == IsValue(x, Value1)
Value3(x) == IsValue(x, Value2)
Value4(x) == IsValue(x, Value3)
Value5(x) == IsValue(x, Value4)
Value6(x) == IsValue(x, Value5)
Parsed(x) == IsValue(x, Value6)

ExtensionWords == {"plugin.echo"}
isExtensionType(s) == ~s.pad /\ s.w \in ExtensionWords

SlashWords == {"/metrics", "/stats"}
-------------------------------------------------------------------------------
(***************************************************************************)
(* Fields.  must: an absent field is a complaint.  needed: an object       *)
(* without the field is dropped.  alias: the key read in its absence.      *)
(***************************************************************************)
Field(kind, def) == [kind |-> kind, lo |-> 0, hi |-> 0, words |-> {}, def |-> def, table |-> <<>>,
                     must |-> FALSE, needed |-> FALSE, alias |-> ""]
Required(f) == [f EXCEPT !.must = TRUE, !.needed = TRUE]
Needed(f) == [f EXCEPT !.needed = TRUE]

OptInt(lo, hi) == [Field("int", Undef) EXCEPT !.lo = lo, !.hi = hi]
IntField(lo, hi, n) == [OptInt(lo, hi) EXCEPT !.def = Num(n)]
OptFlag == Field("flag", Undef)
Flag(b) == Field("flag", Bool(b))
OptText == Field("text", Undef)
TextField(w) == Field("text", Str(w))
OptWord(words) == [Field("word", Undef) EXCEPT !.words = words]
Word(words, w) == [OptWord(words) EXCEPT !.def = Str(w)]
OptTexts == Field("texts", Undef)
Defaults(T) == Obj([k \in DOMAIN T |-> T[k].def])
Section(T) == [Field("section", Defaults(T)) EXCEPT !.table = T]
Item(T) == [Field("item", Undef) EXCEPT !.table = T]
ListOf(T) == [Field("list", EmptyList) EXCEPT !.table = T]

IsText(x) == x.t = "str" /\ ~Blank(x.s)
IsIntIn(x, lo, hi) == x.t = "num" /\ lo <= x.n /\ x.n <= hi
AllTexts(items) == \A i \in DOMAIN items : IsText(items[i])
AllIntsIn(items, lo, hi) == \A i \in DOMAIN items : IsIntIn(items[i], lo, hi)
WordsOf(ws) == {Text(w) : w \in ws}
TrimmedTexts(items) == [i \in DOMAIN items |-> Trim(items[i].s)]

\* The check a reader makes of a value that is there.
Accepts(f, x) ==
    CASE f.kind = "int"   -> IsIntIn(x, f.lo, f.hi)
      [] f.kind = "flag"  -> x.t = "bool"
      [] f.kind = "text"  -> IsText(x)
      [] f.kind = "word"  -> IsText(x) /\ x.s \in WordsOf(f.words)
      [] f.kind = "path"  -> IsText(x) /\ ~x.s.pad /\ x.s.w \in SlashWords
      [] f.kind = "texts" -> x.t = "arr" /\ AllTexts(x.a)
      [] f.kind = "some"  -> x.t = "arr" /\ AllTexts(x.a) /\ x.a # <<>>
      [] f.kind = "parts" -> /\ x.t = "arr" /\ AllTexts(x.a)
                             /\ IsInjective(TrimmedTexts(x.a))
                             /\ ToSet(TrimmedTexts(x.a)) \subseteq WordsOf(f.words)
      [] f.kind = "ports" -> AllIntsIn(IF x.t = "arr" THEN x.a ELSE <<x>>, 1, 65535)
      [] f.kind = "bytes" -> x.t = "arr" /\ AllIntsIn(x.a, 0, 255)
      [] f.kind = "map"   -> isRecord(x) /\ AllTexts([i \in DOMAIN x.o |-> x.o[i].val])
      [] f.kind = "lists" -> isRecord(x) /\ \A i \in DOMAIN x.o :
                                 x.o[i].val.t = "arr" /\ AllTexts(x.o[i].val.a)
      [] f.kind = "options" -> isRecord(x)

TrimItem(x) == [x EXCEPT !.s = Trim(@)]
TrimItems(x) == [x EXCEPT !.a = [i \in DOMAIN @ |-> TrimItem(@[i])]]

\* output[entryKey.toLowerCase()] = value: keys that differ in case only meet,
\* and the value of the last of them stays.
LastOfKey(entries, i) == \A j \in DOMAIN entries : entries[j].key = entries[i].key => j <= i
LowerKeys(entries) ==
    LET trimmed(x) == IF x.t = "arr" THEN TrimItems(x) ELSE TrimItem(x)
        lowered == [i \in DOMAIN entries |-> [key |-> Lower(entries[i].key), val |-> trimmed(entries[i].val)]]
        last    == Those([i \in DOMAIN lowered |-> i], {i \in DOMAIN lowered : LastOfKey(lowered, i)})
    IN  Obj([n \in DOMAIN last |-> lowered[last[n]]])

\* What the reader returns for a value it accepts.
Converted(f, x) ==
    CASE f.kind \in {"texts", "some", "parts"} -> TrimItems(x)
      [] f.kind = "ports" -> IF x.t = "arr" THEN x ELSE Arr(<<x>>)
      [] f.kind \in {"map", "lists"} -> LowerKeys(x.o)
      [] OTHER            -> x

ReadValue(f, x) ==
    CASE IsUndef(x) -> IF f.must THEN Bad ELSE f.def
      [] OTHER      -> IF Accepts(f, x) THEN Converted(f, x) ELSE Bad

\* The alias stands in for an absent key; most fields have none.
ReadLeaf(o, k, f) == ReadValue(f, IF IsUndef(Get(o, k)) /\ f.alias # "" THEN Get(o, f.alias) ELSE Get(o, k))

\* Bad after a complaint, Undef when a needed field is missing.
Assembled(T, r) ==
    IF \E k \in DOMAIN T : IsBad(r[k]) THEN Bad
    ELSE IF \E k \in DOMAIN T : T[k].needed /\ IsUndef(r[k]) THEN Undef
    ELSE Obj(r)

ParseObject(x, T) ==
    IF isRecord(x) THEN Assembled(T, [k \in DOMAIN T |-> ReadLeaf(x.o, k, T[k])]) ELSE Bad

\* rawItems.map(parse).filter(item => item !== undefined)
Collected(rs) == IF \E i \in DOMAIN rs : IsBad(rs[i]) THEN Bad
                 ELSE Arr(Those(rs, {r \in ToSet(rs) : ~IsUndef(r)}))

ParseNested(f, x) ==
    CASE IsUndef(x)       -> IF f.must THEN Bad ELSE f.def
      [] f.kind = "list" /\ ~IsUndef(x) ->
             IF x.t = "arr" THEN Collected([i \in DOMAIN x.a |-> ParseObject(x.a[i], f.table)]) ELSE Bad
      [] OTHER            -> ParseObject(x, f.table)

ReadField(o, k, f) == IF f.kind \in {"section", "item", "list"} THEN ParseNested(f, Get(o, k))
                      ELSE ReadLeaf(o, k, f)

\* An object whose fields are leaves, objects of leaves or lists of them.
ParseNode(x, T) ==
    IF isRecord(x) THEN Assembled(T, [k \in DOMAIN T |-> ReadField(x.o, k, T[k])]) ELSE Bad
-------------------------------------------------------------------------------
(***************************************************************************)
(* The sections.                                                           *)
(***************************************************************************)
LogFields == [level |-> Word({"debug", "info", "warn", "error", "silent"}, "info")]

LimitFields == [
    connectTimeoutMs     |-> IntField(1, 300000, 10000),
    handshakeTimeoutMs   |-> IntField(1, 300000, 10000),
    idleTimeoutMs        |-> IntField(1, 3600000, 120000),
    shutdownTimeoutMs    |-> IntField(1, 300000, 5000),
    maxHeaderBytes       |-> IntField(1024, 1024 * 1024, 64 * 1024),
    maxConnections       |-> IntField(1, 1000000, 10000),
    leakReportIntervalMs |-> IntField(1000, 3600000, 60000),
    maxUdpSessions       |-> IntField(1, 1000000, 4096),
    udpIdleTimeoutMs     |-> IntField(100, 3600000, 60000)]

WorkerFields == [enabled |-> Flag(FALSE), size |-> IntField(1, 128, 1),
                 taskTimeoutMs |-> IntField(1, 3600000, 30000)]

QuicFields == [enabled |-> Flag(FALSE), handshakeTimeoutMs |-> IntField(1, 300000, 10000)]

PoolFields == [enabled |-> Flag(FALSE), maxIdlePerEndpoint |-> IntField(0, 10000, 8),
               idleTimeoutMs |-> IntField(1, 3600000, 30000)]

HotReloadFields == [enabled |-> Flag(FALSE), debounceMs |-> IntField(10, 60000, 250)]

\* Mutant of ProbingFields: a default below its own bound.
ProbingFieldsLow == [
    enabled           |-> Flag(FALSE),
    intervalMs        |-> IntField(100, 3600000, 30),
    timeoutMs         |-> IntField(1, 300000, 1000),
    maxConcurrency    |-> IntField(1, 1000, 4),
    budgetPerInterval |-> IntField(1, 1000000, 16),
    backoffBaseMs     |-> IntField(1, 3600000, 1000),
    backoffMaxMs      |-> IntField(1, 24 * 3600000, 60000)]

ProbingFields == [
    enabled           |-> Flag(FALSE),
    intervalMs        |-> IntField(100, 3600000, 30000),
    timeoutMs         |-> IntField(1, 300000, 1000),
    maxConcurrency    |-> IntField(1, 1000, 4),
    budgetPerInterval |-> IntField(1, 1000000, 16),
    backoffBaseMs     |-> IntField(1, 3600000, 1000),
    backoffMaxMs      |-> IntField(1, 24 * 3600000, 60000)]

MetricsFields == [enabled |-> Flag(FALSE), listen |-> TextField("127.0.0.1"),
                  port |-> IntField(0, 65535, 19090), path |-> Field("path", Str("/metrics"))]

DashboardFields == [
    enabled |-> Flag(FALSE), listen |-> TextField("127.0.0.1"), port |-> IntField(0, 65535, 19091),
    token |-> TextField("change-me"), rateLimitPerMinute |-> IntField(1, 100000, 120),
    cors |-> Flag(FALSE)]

TunFields == [enabled |-> Flag(FALSE), experimental |-> Flag(TRUE), name |-> TextField("sepigs0"),
              mtu |-> IntField(576, 65535, 1500)]

IsolationFields == [
    mode             |-> Word({"in-process", "worker-thread", "child-process"}, "in-process"),
    timeoutMs        |-> IntField(1, 300000, 3000),
    memoryLimitMb    |-> IntField(16, 4096, 64),
    stdoutLimitBytes |-> IntField(1024, 10 * 1024 * 1024, 64 * 1024)]

PluginModuleFields == [tag |-> Required(OptText), path |-> Required(OptText),
                       manifest |-> OptText, enabled |-> Flag(TRUE)]

WasmFields == [tag |-> Required(OptText), path |-> Required(OptText), enabled |-> Flag(TRUE)]

TransactionalComponents == {"metrics", "dashboard", "router", "policy", "dns", "outbound"}

TransactionalFields == [
    enabledComponents  |-> [Field("parts", EmptyList) EXCEPT !.words = TransactionalComponents],
    timeoutMs          |-> IntField(100, 60000, 5000),
    shadowBeforeCommit |-> Flag(TRUE),
    rollbackOnFailure  |-> Flag(TRUE)]

ReloadFields == [mode |-> Word({"legacy", "transactional-experimental"}, "legacy"),
                 transactional |-> Section(TransactionalFields)]

GeoFields == [geoip |-> Field("lists", Obj(<<>>)), geosite |-> Field("lists", Obj(<<>>))]

PluginFields == [modules |-> ListOf(PluginModuleFields), wasm |-> ListOf(WasmFields),
                 isolation |-> Section(IsolationFields)]

TransportFields == [quic |-> Section(QuicFields)]

ObservabilityFields == [metrics |-> Section(MetricsFields)]

UdpServerFields == [tag |-> Required(OptText), address |-> Required(OptText),
                    port |-> IntField(1, 65535, 53), timeoutMs |-> IntField(1, 30000, 1000)]

\* A DNS rule without domainSuffix is dropped without a complaint.
DnsRuleFields == [domainSuffix |-> Needed(OptTexts), serverTag |-> Required(OptText)]

\* range ?? cidr ?? the default: cidr is looked at only without a range.
FakeIpFields == [enabled |-> Flag(FALSE),
                 range |-> [TextField("198.18.0.0/15") EXCEPT !.alias = "cidr"],
                 size |-> IntField(1, 131070, 65536), ttlSeconds |-> IntField(1, 86400, 600),
                 persistPath |-> OptText]

DohFields == [enabled |-> Flag(FALSE), endpoints |-> Field("texts", EmptyList),
              timeoutMs |-> IntField(1, 30000, 1000)]

DnsFields == [
    strategy        |-> Word({"system", "prefer-ipv4", "prefer-ipv6"}, "system"),
    cacheTtlMs      |-> IntField(1, 3600000, 60000),
    cacheMaxEntries |-> IntField(1, 1000000, 4096),
    negativeTtlMs   |-> IntField(0, 300000, 5000),
    hosts           |-> Field("map", Obj(<<>>)),
    fallbackHosts   |-> Field("map", Obj(<<>>)),
    udpServers      |-> ListOf(UdpServerFields),
    rules           |-> ListOf(DnsRuleFields),
    fakeIp          |-> Section(FakeIpFields),
    doh             |-> Section(DohFields)]
-------------------------------------------------------------------------------
(***************************************************************************)
(* Inbounds and outbounds: common fields, then those of the type.          *)
(***************************************************************************)
Method == Required(OptWord({"aes-128-gcm", "aes-256-gcm", "chacha20-ietf-poly1305"}))
OptionsField == Field("options", Obj(<<>>))
PortField == Required(OptInt(1, 65535))
\* The key of an extension's type in the tables below.
Plugin == "plugin"

InboundFields == [
    type |-> Required(OptText), tag |-> Required(OptText), listen |-> Required(OptText),
    port |-> Required(OptInt(0, 65535)), connectTimeoutMs |-> OptInt(1, 300000),
    idleTimeoutMs |-> OptInt(1, 3600000), maxHeaderBytes |-> OptInt(1024, 1024 * 1024)]

AuthFields == [enabled |-> Flag(TRUE), username |-> Required(OptText),
               password |-> Required(OptText)]

InboundTlsFields == [enabled |-> Flag(FALSE), certPath |-> OptText, keyPath |-> OptText]

InboundTypes ==
    [http        |-> [auth |-> Item(AuthFields)],
     socks5      |-> [auth |-> Item(AuthFields), udpAssociate |-> OptFlag],
     shadowsocks |-> [method |-> Method, password |-> Required(OptText), udp |-> Flag(FALSE)],
     trojan      |-> [password |-> Required(OptText), tls |-> Section(InboundTlsFields)],
     plugin      |-> [options |-> OptionsField]]

OutboundFields == [type |-> Required(OptText), tag |-> Required(OptText),
                   connectTimeoutMs |-> OptInt(1, 300000), idleTimeoutMs |-> OptInt(1, 3600000)]

OutboundTlsFields == [enabled |-> Flag(TRUE), rejectUnauthorized |-> Flag(TRUE),
                      serverName |-> OptText]

ServerFields == [serverHost |-> Required(OptText), serverPort |-> PortField,
                 password |-> Required(OptText)]

\* A WireGuard outbound without address or peer.allowedIps is dropped without
\* a complaint; a peer that is no object is a complaint.
PeerFields == [publicKey |-> Required(OptText), endpointHost |-> Required(OptText),
               endpointPort |-> PortField, allowedIps |-> Needed(OptTexts)]
WireGuardFields == [privateKey |-> Required(OptText), address |-> Needed(OptTexts),
                    reserved |-> Field("bytes", Undef), peer |-> Required(Item(PeerFields))]

OutboundTypes ==
    [direct      |-> <<>>,
     block       |-> [reason |-> OptText],
     tcpRelay    |-> [targetHost |-> Required(OptText), targetPort |-> PortField],
     shadowsocks |-> Joined(ServerFields, [method |-> Method]),
     trojan      |-> Joined(ServerFields, [tls |-> Section(OutboundTlsFields)]),
     wireguard   |-> WireGuardFields,
     plugin      |-> [options |-> OptionsField]]

TypeKey(x) == LET s == Get(x.o, "type").s IN IF isExtensionType(s) THEN Plugin ELSE s.w
KnownType(x, types) ==
    /\ isRecord(x) /\ IsText(Get(x.o, "type"))
    /\ \/ isExtensionType(Get(x.o, "type").s)
       \/ Get(x.o, "type").s \in WordsOf(DOMAIN types \ {Plugin})

ParseTyped(x, common, types) ==
    IF KnownType(x, types) THEN ParseNode(x, Joined(common, types[TypeKey(x)])) ELSE Bad

\* A Trojan listener with TLS needs a certificate and a key.
TlsComplete(x) == Get(x.o, "tls").t = "obj" /\ x.o.tls.o.enabled.b
                      => ~IsUndef(x.o.tls.o.certPath) /\ ~IsUndef(x.o.tls.o.keyPath)

parseInbound(x) == ParseTyped(x, InboundFields, InboundTypes)
parseOutbound(x) == ParseTyped(x, OutboundFields, OutboundTypes)

ParseNonEmpty(x, parse(_)) ==
    IF ItemsOf(x) = <<>> THEN Bad ELSE Collected([i \in DOMAIN x.a |-> parse(x.a[i])])
-------------------------------------------------------------------------------
(***************************************************************************)
(* Routes.  Geo tags are replaced by their lists and stay in the rule, so  *)
(* a second parse appends the lists a second time.                         *)
(***************************************************************************)
RuleFields == [outboundTag |-> Required(OptText), tag |-> OptText, domain |-> OptTexts,
               domainSuffix |-> OptTexts, ipCidr |-> OptTexts, geoIp |-> OptTexts,
               geoSite |-> OptTexts, port |-> Field("ports", Undef)]

GeoEntry(lists, tag) == Those(lists.o, {e \in ToSet(lists.o) : e.key = Lower(tag.s)})

GeoKnown(tags, lists) == \A tag \in ToSet(ItemsOf(tags)) : GeoEntry(lists, tag) # <<>>

\* expandGeoIp and expandGeoSite
ExpandGeo(tags, lists) ==
    FlattenSeq([i \in DOMAIN ItemsOf(tags) |->
                   FlattenSeq([j \in DOMAIN GeoEntry(lists, ItemsOf(tags)[i]) |->
                                  GeoEntry(lists, ItemsOf(tags)[i])[j].val.a])])

\* An empty merged list is left out of the rule.
ListUnlessEmpty(a) == IF a = <<>> THEN Undef ELSE Arr(a)

Expanded(o, geo) ==
    [o EXCEPT !.ipCidr = ListUnlessEmpty(ItemsOf(@) \o ExpandGeo(o.geoIp, geo.o.geoip)),
              !.domainSuffix = ListUnlessEmpty(ItemsOf(@) \o ExpandGeo(o.geoSite, geo.o.geosite))]

RuleSound(rule, geo) ==
    /\ GeoKnown(rule.o.geoIp, geo.o.geoip) /\ GeoKnown(rule.o.geoSite, geo.o.geosite)
    /\ \A c \in ToSet(ItemsOf(rule.o.ipCidr)) : isValidCidr(c.s)

ParsedRule(r, geo) ==
    IF IsBad(r) \/ IsBad(geo) THEN Bad
    ELSE LET rule == Obj(Expanded(r.o, geo)) IN IF RuleSound(rule, geo) THEN rule ELSE Bad

parseRouteRule(x, geo) == ParsedRule(ParseObject(x, RuleFields), geo)

\* Mutant of RuleSetFileFields: an entry without a path is dropped in silence.
RuleSetFileFieldsSilent == [tag |-> Required(OptText), path |-> Needed(OptText),
                            outboundTag |-> Required(OptText)]

RuleSetFileFields == [tag |-> Required(OptText), path |-> Required(OptText),
                      outboundTag |-> Required(OptText)]

\* A policy without outbounds is dropped without a complaint, one with an
\* empty list is a complaint.
PolicyFields == [
    tag |-> Required(OptText), type |-> Required(OptWord({"loadBalance", "failover"})),
    outbounds |-> Needed(Field("some", Undef)),
    strategy |-> Word({"roundRobin", "leastLatency", "random"}, "roundRobin"),
    unhealthyAfterFailures |-> IntField(1, 1000, 3), recoverAfterMs |-> IntField(1, 3600000, 30000)]

RouteFields == [defaultOutbound |-> Required(OptText), ruleSetFiles |-> ListOf(RuleSetFileFields),
                policies |-> ListOf(PolicyFields)]

WithRules(route, rules) ==
    IF IsBad(route) \/ IsBad(rules) THEN Bad ELSE Obj(Joined([rules |-> rules], route.o))

RawRules(x, geo) ==
    IF isRecord(x) /\ Get(x.o, "rules").t = "arr"
    THEN Collected([i \in DOMAIN x.o["rules"].a |-> parseRouteRule(x.o["rules"].a[i], geo)]) ELSE Bad

parseRouter(x, geo) == WithRules(ParseNode(x, RouteFields), RawRules(x, geo))
-------------------------------------------------------------------------------
(***************************************************************************)
(* The checks across sections, on a configuration whose sections parsed.   *)
(***************************************************************************)
TagsOf(list) == {list.a[i].o.tag.s : i \in DOMAIN list.a}

checkUniqueTags(list) ==
    \A i, j \in DOMAIN list.a : i # j => list.a[i].o.tag.s # list.a[j].o.tag.s

RouteTargets(c) == TagsOf(c.outbounds) \cup TagsOf(c.route.o.policies)
TargetsOf(list) == {list.a[i].o.outboundTag.s : i \in DOMAIN list.a}

checkOutboundReferences(c) ==
    LET r == c.route.o
    IN  /\ TagsOf(r.policies) \cap TagsOf(c.outbounds) = {}
        /\ {r.defaultOutbound.s} \cup TargetsOf(r.rules) \cup TargetsOf(r.ruleSetFiles)
               \subseteq RouteTargets(c)
        /\ \A p \in ToSet(r.policies.a) : \A m \in ToSet(p.o.outbounds.a) :
               m.s \in TagsOf(c.outbounds)

checkDnsReferences(c) ==
    \A r \in ToSet(c.dns.o.rules.a) : r.o.serverTag.s \in TagsOf(c.dns.o.udpServers)

PUBLIC_LISTEN_ADDRESSES == {"0.0.0.0", "::", "[::]"}
IsPublic(x) == x.s \in WordsOf(PUBLIC_LISTEN_ADDRESSES)
MinTokenLength == 16

checkPublicExposure(c) ==
    /\ \A x \in ToSet(c.inbounds.a) :
          IsPublic(x.o.listen) => /\ x.o.type.s \in WordsOf({"http", "socks5"})
                                  /\ ~IsUndef(x.o.auth) /\ x.o.auth.o.enabled.b
    /\ ~(c.observability.o.metrics.o.enabled.b /\ IsPublic(c.observability.o.metrics.o.listen))
    /\ c.dashboard.o.enabled.b =>
          /\ ~IsPublic(c.dashboard.o.listen)
          /\ c.dashboard.o.token # Str("change-me")
          /\ Len(c.dashboard.o.token.s.w) >= MinTokenLength

\* Transactional mode insists on rollback.
RollbackKept(c) == c.reload.o.mode = Str("transactional-experimental")
                       => c.reload.o.transactional.o.rollbackOnFailure.b

SectionFields == [
    log |-> LogFields, limits |-> LimitFields, dns |-> DnsFields, geo |-> GeoFields,
    plugins |-> PluginFields, workers |-> WorkerFields, transport |-> TransportFields,
    connectionPool |-> PoolFields, hotReload |-> HotReloadFields, reload |-> ReloadFields,
    probing |-> ProbingFields, observability |-> ObservabilityFields,
    dashboard |-> DashboardFields, tun |-> TunFields]

parseConfigVersion(x) == IF IsUndef(x) \/ x = Num(1) THEN Num(1) ELSE Bad

ParseSection(root, k) ==
    IF IsUndef(Get(root, k)) THEN Defaults(SectionFields[k]) ELSE ParseNode(root[k], SectionFields[k])

WithRoute(parsed, root) ==
    Joined([route |-> parseRouter(Get(root, "route"), parsed.geo)], parsed)

Sections(root) ==
    WithRoute(Joined([k \in DOMAIN SectionFields |-> ParseSection(root, k)],
                     [configVersion |-> parseConfigVersion(Get(root, "configVersion")),
                      inbounds      |-> ParseNonEmpty(Get(root, "inbounds"), parseInbound),
                      outbounds     |-> ParseNonEmpty(Get(root, "outbounds"), parseOutbound)]), root)

CrossChecks(c) ==
    /\ \A list \in {c.inbounds, c.outbounds, c.plugins.o.modules, c.plugins.o.wasm,
                     c.dns.o.udpServers, c.route.o.policies} : checkUniqueTags(list)
    /\ \A x \in ToSet(c.inbounds.a) : TlsComplete(x)
    /\ RollbackKept(c)
    /\ checkDnsReferences(c)
    /\ checkPublicExposure(c)
    /\ checkOutboundReferences(c)

Checked(c) == IF (\A k \in DOMAIN c : ~IsBad(c[k])) /\ CrossChecks(c) THEN Obj(c) ELSE Bad

\* The configuration, or Bad for the ConfigError parseConfig throws.
parseConfig(input) == IF isRecord(input) THEN Checked(Sections(input.o)) ELSE Bad
===============================================================================
