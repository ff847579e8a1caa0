----------------------------- MODULE ConfigLoader -----------------------------
(***************************************************************************)
(* src/config/loader.ts and migrate.ts: read the file, migrate its         *)
(* version, parse it, read the rule-set files one after the other and, if  *)
(* there were any, parse the expanded configuration again.  Every read is  *)
(* an await: what a rule-set file holds is chosen when it is read.         *)
(***************************************************************************)
EXTENDS ConfigSchema

CONSTANTS ConfigFiles,    \* what the configuration file may hold (JSON values, Unreadable)
          RuleSetFiles,   \* what a rule-set file may hold when it is read
          Requests        \* [host, port] of the connections routed afterwards

VARIABLES step,      \* where loadConfig stands
          source,     \* the content of the configuration file
          config,     \* the result of the first parse
          expanded,   \* the rules read from rule-set files so far
          filesRead,  \* how many of them have been read
          result      \* what loadConfig returned

loaderVars == <<step, source, config, expanded, filesRead, result>>

\* A file that cannot be read or is no JSON or YAML.
Unreadable == [t |-> "unreadable"]

ASSUME RequestsAssumption ==
    \A req \in Requests : req.host \in Words /\ req.host.w \in DOMAIN HostOf

ASSUME FilesAssumption == \A f \in ConfigFiles \cup RuleSetFiles : f = Unreadable \/ Parsed(f)

LoaderInit == /\ step = "start" /\ source \in ConfigFiles
        /\ config = Undef /\ expanded = <<>> /\ filesRead = 0 /\ result = Undef

Fail == /\ step' = "failed"
        /\ UNCHANGED <<source, config, expanded, filesRead, result>>

\* migrateConfig: no version and version 0 become version 1, a newer one throws.
Migrated(input) ==
    IF isRecord(input) /\ Get(input.o, "configVersion") \in {Undef, Num(0), Num(1)}
    THEN Obj(Joined([configVersion |-> Num(1)], input.o)) ELSE Bad

ReadConfig ==
    /\ step = "start"
    /\ IF source = Unreadable THEN Fail
       ELSE /\ step' = "read"
            /\ UNCHANGED <<source, config, expanded, filesRead, result>>

ParseFirst ==
    /\ step = "read"
    /\ config' = parseConfig(Migrated(source))
    /\ step' = IF IsBad(config') THEN "failed" ELSE "parsed"
    /\ UNCHANGED <<source, expanded, filesRead, result>>

RuleSets == config.o.route.o.ruleSetFiles.a

extractRuleSetRules(input) ==
    CASE input.t = "arr"  -> input
      [] isRecord(input) /\ Get(input.o, "rules").t = "arr" -> input.o["rules"]
      [] OTHER            -> Undef

\* {...rawRule, tag, outboundTag}: a rule may name an outbound of its own.
NonEmptyText(x) == x.t = "str" /\ (x.s.w # "" \/ x.s.pad)
RuleOfSet(set, index, x) ==
    LET own == Get(x.o, "tag")
    IN  Obj(Joined([tag |-> Str(set.o.tag.s.w \o ":" \o
                               (IF NonEmptyText(own) THEN own.s.w ELSE ToString(index - 1))),
                    outboundTag |-> IF NonEmptyText(Get(x.o, "outboundTag")) THEN x.o.outboundTag
                                    ELSE set.o.outboundTag], x.o))

LoadRuleSetFile ==
    /\ step = "parsed" /\ filesRead < Len(RuleSets)
    /\ \E input \in RuleSetFiles :
         LET set   == RuleSets[filesRead + 1]
             rules == IF input = Unreadable THEN Undef ELSE extractRuleSetRules(input)
         IN  IF IsUndef(rules) \/ (\E i \in DOMAIN rules.a : ~isRecord(rules.a[i])) THEN Fail
             ELSE /\ expanded' = expanded \o [i \in DOMAIN rules.a |-> RuleOfSet(set, i, rules.a[i])]
                  /\ filesRead' = filesRead + 1
                  /\ UNCHANGED <<step, source, config, result>>

\* The rules of the files come before those of the configuration.
ExpandedConfig ==
    [config EXCEPT !.o.route.o.rules.a = expanded \o @]

\* Mutant of FinishExpansion: the expanded configuration is not parsed again.
FinishExpansionUnchecked ==
    /\ step = "parsed" /\ filesRead = Len(RuleSets)
    /\ result' = ExpandedConfig /\ step' = "loaded"
    /\ UNCHANGED <<source, config, expanded, filesRead>>

FinishExpansion ==
    /\ step = "parsed" /\ filesRead = Len(RuleSets)
    /\ result' = IF RuleSets = <<>> THEN config ELSE parseConfig(ExpandedConfig)
    /\ step' = IF IsBad(result') THEN "failed" ELSE "loaded"
    /\ UNCHANGED <<source, config, expanded, filesRead>>

Settled == step \in {"loaded", "failed"} /\ UNCHANGED loaderVars

LoaderNext == ReadConfig \/ ParseFirst \/ LoadRuleSetFile \/ FinishExpansion \/ Settled

LoaderSpec == LoaderInit /\ [][LoaderNext]_loaderVars
-------------------------------------------------------------------------------
(***************************************************************************)
(* new Router(config.route): the rules as the router compiles them.        *)
(***************************************************************************)
Texts(x) == [i \in DOMAIN ItemsOf(x) |-> ItemsOf(x)[i].s]
Numbers(x) == [i \in DOMAIN ItemsOf(x) |-> ItemsOf(x)[i].n]

CompiledRouteRule(x) ==
    [domain       |-> [given |-> ~IsUndef(x.o.domain), list |-> Texts(x.o.domain)],
     domainSuffix |-> Texts(x.o.domainSuffix),
     ipCidr       |-> Texts(x.o.ipCidr),
     port         |-> [given |-> ~IsUndef(x.o.port), list |-> Numbers(x.o.port)]]

CompiledRules(c) == LET rules == c.o.route.o.rules.a
                    IN  [i \in DOMAIN rules |-> CompiledRouteRule(rules[i])]
-------------------------------------------------------------------------------
(***************************************************************************)
(* Properties.                                                             *)
(***************************************************************************)
LoaderTypeOK ==
    /\ step \in {"start", "read", "parsed", "loaded", "failed"}
    /\ source = Unreadable \/ Parsed(source)
    /\ config.t \in {"undef", "obj", "bad"} /\ result.t \in {"undef", "obj", "bad"}
    /\ filesRead \in Nat /\ (filesRead = 0 => expanded = <<>>)

\* Equal but for list entries that a second geo expansion repeated.
SameRule(x, y) ==
    /\ \A k \in DOMAIN RuleFields \ {"ipCidr", "domainSuffix"} : x.o[k] = y.o[k]
    /\ \A k \in {"ipCidr", "domainSuffix"} : ToSet(ItemsOf(x.o[k])) = ToSet(ItemsOf(y.o[k]))
SameConfig(c, d) ==
    LET r == c.o.route.o
        s == d.o.route.o
    IN  /\ ~IsBad(d)
        /\ \A k \in DOMAIN c.o \ {"route"} : c.o[k] = d.o[k]
        /\ \A k \in DOMAIN r \ {"rules"} : r[k] = s[k]
        /\ Len(r.rules.a) = Len(s.rules.a)
        /\ \A i \in DOMAIN r.rules.a : SameRule(r.rules.a[i], s.rules.a[i])

\* loader.ts parses the parsed configuration again when there are rule-set
\* files: what the schema accepted and normalised it accepts again unchanged,
\* so having rule-set files changes no other part of the configuration.
ReparseStable ==
    step = "parsed" /\ filesRead = 0 =>
        SameConfig(config, parseConfig(config))

\* The lists an accepted configuration keeps entry by entry.
RawList(section, name) ==
    LET outer == IF section = "" THEN source ELSE Get(source.o, section)
    IN  IF isRecord(outer) THEN ItemsOf(Get(outer.o, name)) ELSE <<>>
KeptList(section, name) ==
    IF section = "" THEN config.o[name].a ELSE config.o[section].o[name].a
\* The parser drops these without a complaint: a required list is missing.
SilentlyDropped(section, name, x) ==
    \/ section = "dns" /\ name = "rules" /\ IsUndef(Get(x.o, "domainSuffix"))
    \/ section = "route" /\ name = "policies" /\ IsUndef(Get(x.o, "outbounds"))
    \/ name = "outbounds" /\ Get(x.o, "type") = Str("wireguard")
       /\ (IsUndef(Get(x.o, "address")) \/ IsUndef(Get(x.o["peer"].o, "allowedIps")))

\* An accepted configuration has, in order, every inbound, outbound, rule,
\* policy, rule-set file, DNS server and rule and plugin of the file, but for
\* the three kinds of entry that schema.ts drops in silence (lines 474, 1165, 1331).
ItemsKept ==
    step = "parsed" =>
        \A e \in {<<"", "inbounds">>, <<"", "outbounds">>, <<"route", "rules">>,
                  <<"route", "policies">>, <<"route", "ruleSetFiles">>, <<"dns", "udpServers">>,
                  <<"dns", "rules">>, <<"plugins", "modules">>, <<"plugins", "wasm">>} :
            LET raw   == RawList(e[1], e[2])
                given == Those(raw, {x \in ToSet(raw) : ~SilentlyDropped(e[1], e[2], x)})
                kept  == KeptList(e[1], e[2])
            IN  /\ Len(kept) = Len(given)
                /\ \A i \in DOMAIN kept :
                      \A k \in {"tag", "outboundTag"} \cap DOMAIN kept[i].o :
                          kept[i].o[k] = Get(given[i].o, k)

\* What a CIDR and a rule mean, apart from how the code computes it: the host is
\* an address and agrees with the block on the first prefix bits.
IsAddress(h) == LET given == Len(h.head) + Len(h.tail)
                IN  h.version # 0 /\ IF h.gap THEN given < GroupCount(h.version)
                                            ELSE given = GroupCount(h.version)
Address(h) ==
    LET n == GroupCount(h.version)
    IN  [i \in 1..n |-> CASE i <= Len(h.head) -> h.head[i]
                          [] i > n - Len(h.tail) -> h.tail[i - (n - Len(h.tail))]
                          [] OTHER -> 0]
\* Bits are counted from zero at the front of the address.
Bit(h, b) == (Address(h)[b \div GroupBits + 1] \div PowerOfTwo[GroupBits - 1 - (b % GroupBits)]) % 2
InBlock(c, host) ==
    LET block == HostOf[CidrOf[c.w].address]
        h     == HostOf[host.w]
    IN  /\ ~host.pad /\ IsAddress(h) /\ h.version = block.version
        /\ \A b \in 0..(NumberOf(CidrOf[c.w].prefix) - 1) : Bit(h, b) = Bit(block, b)
InDomain(d, host) == IsSuffix(HostOf[d.w].labels, HostOf[host.w].labels)

GeoMembers(c, list, tags) ==
    UNION {ToSet(Texts(e.val)) : e \in {f \in ToSet(c.o.geo.o[list].o) :
                                             f.key \in {Lower(t) : t \in ToSet(Texts(tags))}}}

\* Every criterion of the rule holds; a criterion whose lists are all empty is
\* no restriction, even where the rule names a geo tag (rules.ts:31, 35).
RuleMeans(c, x, req) ==
    LET cidrs    == ToSet(Texts(x.o.ipCidr)) \cup GeoMembers(c, "geoip", x.o.geoIp)
        suffixes == ToSet(Texts(x.o.domainSuffix)) \cup GeoMembers(c, "geosite", x.o.geoSite)
    IN  /\ IsUndef(x.o.domain) \/ \E d \in ToSet(Texts(x.o.domain)) : d.w = req.host.w
        /\ suffixes = {} \/ \E d \in suffixes : InDomain(d, req.host)
        /\ cidrs = {} \/ \E b \in cidrs : InBlock(b, req.host)
        /\ IsUndef(x.o.port) \/ req.port \in ToSet(Numbers(x.o.port))

\* A request takes the first rule whose criteria it meets, the rules of the
\* rule-set files first; when none of those applies, the decision is the one
\* the configuration without rule-set files would have made, although the
\* second parse has expanded its geo tags twice.
RoutesAsWritten ==
    step = "loaded" =>
        \A req \in Requests :
            LET n     == Len(expanded)
                rules == result.o.route.o.rules.a
                taken == RouteMatch(CompiledRules(result), req)
                met   == {i \in DOMAIN rules : RuleMeans(result, rules[i], req)}
                alone == RouteMatch(CompiledRules(config), req)
            IN  /\ taken = (IF met = {} THEN 0 ELSE CHOOSE i \in met : \A j \in met : i <= j)
                /\ taken = 0 \/ taken > n => taken = (IF alone = 0 THEN 0 ELSE alone + n)
===============================================================================
