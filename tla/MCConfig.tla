------------------------------- MODULE MCConfig -------------------------------
(***************************************************************************)
(* Instances of ConfigLoader: a small valid configuration, and around it   *)
(* every field of every section at and just outside its bounds, of a wrong *)
(* type and absent, one field at a time (sections do not read each other), *)
(* and combinations of the parts that do refer to each other.              *)
(***************************************************************************)
EXTENDS ReloadPlan

Name(labels) == [version |-> 0, labels |-> labels, head |-> <<>>, gap |-> FALSE, tail |-> <<>>]
Ip4(parts) == [version |-> 4, labels |-> <<"ip4">>, head |-> parts, gap |-> FALSE, tail |-> <<>>]
Ip6(head, tail) == [version |-> 6, labels |-> <<"ip6">>, head |-> head, gap |-> TRUE, tail |-> tail]

MCHostOf == [w \in {"cn", ".cn", "a.cn", "xcn", "x", "4a", "4b", "6a", "6b", "6bad"} |->
    CASE w \in {"cn", ".cn"} -> Name(<<"cn">>)
      [] w = "a.cn" -> Name(<<"a", "cn">>)
      [] w \in {"x", "xcn"} -> Name(<<w>>)
      [] w = "4a"   -> Ip4(<<1, 0, 2, 0>>)
      [] w = "4b"   -> Ip4(<<1, 2, 2, 0>>)
      [] w = "6a"   -> Ip6(<<1>>, <<0, 1>>)
      [] w = "6b"   -> Ip6(<<1, 0, 0, 0, 0, 0>>, <<0>>)
      [] w = "6bad" -> Ip6(<<1, 0, 0, 0>>, <<1, 0, 0, 0>>)]

Cidr(address, prefix) == [parts |-> 2, address |-> address, prefix |-> prefix]
Digits(n) == [t |-> "digits", n |-> n]
MCCidrOf == [w \in {"4a/1", "4a/3", "4a/8", "4a/9", "4a/", "4a", "4a/x", "6a/15", "6a/16", "6bad/1", "cn/1"} |->
    CASE w = "4a/1" -> Cidr("4a", Digits(1))
      [] w = "4a/3" -> Cidr("4a", Digits(3))
      [] w = "4a/8" -> Cidr("4a", Digits(8))
      [] w = "4a/9" -> Cidr("4a", Digits(9))
      [] w = "4a/"  -> Cidr("4a", [t |-> "blank"])
      [] w = "4a"   -> [parts |-> 1, address |-> "4a", prefix |-> [t |-> "other"]]
      [] w = "4a/x" -> Cidr("4a", [t |-> "other"])
      [] w = "6a/15" -> Cidr("6a", Digits(15))
      [] w = "6a/16" -> Cidr("6a", Digits(16))
      [] w = "6bad/1" -> Cidr("6bad", Digits(1))
      [] w = "cn/1" -> Cidr("cn", Digits(1))]

Up(w) == [Text(w) EXCEPT !.up = TRUE]
Padded(w) == [t |-> "str", s |-> [Text(w) EXCEPT !.pad = TRUE]]
UpStr(w) == [t |-> "str", s |-> Up(w)]

MCRequests == [host : {Text(w) : w \in {"a.cn", "xcn", "4a", "4b", "6a", "6b"}} \cup {Up("cn")},
               port : {53, 80}]
-------------------------------------------------------------------------------
With(o, k, x) == [z \in {k} |-> x] @@ o

Http(tag) == [type |-> Str("http"), tag |-> Str(tag), listen |-> Str("127.0.0.1"), port |-> Num(8080)]
Direct(tag) == [type |-> Str("direct"), tag |-> Str(tag)]
Route(def, rules) == [defaultOutbound |-> Str(def), rules |-> Arr(rules)]
Base == [inbounds |-> Arr(<<Obj(Http("in"))>>), outbounds |-> Arr(<<Obj(Direct("direct"))>>),
         route |-> Obj(Route("direct", <<>>))]

\* Values at, inside and outside what a field accepts.
Probes(f) ==
    {Undef, Null} \cup
    CASE f.kind = "int"  -> {Num(f.lo - 1), Num(f.lo), Num(f.hi), Num(f.hi + 1), Fraction}
      [] f.kind = "flag" -> {Bool(TRUE), Bool(FALSE), Num(1)}
      [] f.kind = "text" -> {Padded("x"), Padded(""), Str("x"), Num(1)}
      [] f.kind = "word" -> {Str(w) : w \in f.words} \cup {Padded(CHOOSE w \in f.words : TRUE), Str("x")}
      [] f.kind = "path" -> {Str("/stats"), Str("stats"), Padded("/stats")}
      [] f.kind = "texts" -> {EmptyList, Arr(<<Padded("x")>>), Arr(<<Str("x"), Str("")>>), Str("x")}
      [] f.kind = "some" -> {EmptyList, Arr(<<Padded("direct")>>), Arr(<<Str("direct"), Str("")>>)}
      [] f.kind = "parts" -> {Arr(<<Padded("dns"), Str("router")>>), Arr(<<Str("dns"), Padded("dns")>>),
                              Arr(<<Str("x")>>)}
      [] f.kind = "ports" -> {Num(53), EmptyList, Arr(<<Num(1), Num(65535)>>), Num(0), Arr(<<Num(65536)>>)}
      [] f.kind = "bytes" -> {Arr(<<Num(0), Num(255)>>), Arr(<<Num(256)>>), EmptyList, Num(1)}
      [] f.kind = "map"  -> {Obj(<<[key |-> Up("a.cn"), val |-> Padded("4a")]>>),
                             Obj(<<[key |-> Text("cn"), val |-> Str("4a")], [key |-> Up("cn"), val |-> Str("4b")]>>),
                             Obj(<<[key |-> Text("cn"), val |-> Num(1)]>>)}
      [] f.kind = "lists" -> {Obj(<<[key |-> Up("cn"), val |-> Arr(<<Padded("cn")>>)]>>),
                              Obj(<<[key |-> Text("cn"), val |-> Str("cn")]>>)}
      [] f.kind = "options" -> {Obj([x |-> Num(1)]), Arr(<<>>)}

\* Every object that differs from o in one field of T.
Varied(o, T) == {Obj(With(o, k, p)) : <<k, p>> \in
                    UNION {{<<k, p>> : p \in Probes(T[k])} : k \in DOMAIN T}}

Varied1(name, T) == {Obj(With(Base, name, x)) : x \in Varied(<<>>, T) \cup {Null, Arr(<<>>)}}
Varied2(outer, name, T) ==
    {Obj(With(Base, outer, Obj([z \in {name} |-> x]))) : x \in Varied(<<>>, T) \cup {Null}}
VariedItems(outer, name, o, T) ==
    {Obj(With(Base, outer, Obj([z \in {name} |-> Arr(<<x>>)]))) : x \in Varied(o, T) \cup {Null}}
    \cup {Obj(With(Base, outer, Obj([z \in {name} |-> Str("x")])))}

Tagged(o) == [tag |-> Str("t")] @@ o
Dns == [udpServers |-> Arr(<<Obj(Tagged([address |-> Str("4a")]))>>)]

SectionFiles ==
    UNION {Varied1("log", LogFields), Varied1("limits", LimitFields), Varied1("dns", [k \in {"strategy", "cacheTtlMs", "cacheMaxEntries", "negativeTtlMs", "hosts", "fallbackHosts"} |-> DnsFields[k]]),
           Varied1("geo", GeoFields), Varied1("workers", WorkerFields), Varied1("connectionPool", PoolFields),
           Varied1("hotReload", HotReloadFields), Varied1("reload", [mode |-> ReloadFields.mode]),
           Varied1("probing", ProbingFields), Varied1("dashboard", DashboardFields), Varied1("tun", TunFields),
           Varied2("dns", "fakeIp", FakeIpFields @@ [cidr |-> OptText]), Varied2("dns", "doh", DohFields),
           Varied2("plugins", "isolation", IsolationFields), Varied2("transport", "quic", QuicFields),
           Varied2("observability", "metrics", MetricsFields),
           Varied2("reload", "transactional", TransactionalFields),
           VariedItems("plugins", "modules", Tagged([path |-> Str("x")]), PluginModuleFields),
           VariedItems("plugins", "wasm", Tagged([path |-> Str("x")]), WasmFields),
           VariedItems("dns", "udpServers", Tagged([address |-> Str("4a")]), UdpServerFields)}

\* Rules across sections.
Exposed(section, o) == Obj(With(Base, section, Obj(o)))
LongToken == Str("a-token-of-21-letters")
Repeated == Arr(<<Obj(Tagged([path |-> Str("x"), address |-> Str("4a")])),
                  Obj(Tagged([path |-> Str("y"), address |-> Str("4b")]))>>)
CrossFiles ==
    {Exposed("dashboard", [enabled |-> Bool(TRUE), listen |-> Str(l), token |-> t]) :
         l \in {"127.0.0.1", "::"}, t \in {Undef, Str("short"), LongToken}}
    \cup {Exposed("observability", [metrics |-> Obj([enabled |-> Bool(b), listen |-> Str("0.0.0.0")])]) :
             b \in BOOLEAN}
    \cup {Exposed("reload", [mode |-> m, transactional |-> Obj([rollbackOnFailure |-> Bool(b)])]) :
             m \in {Str("legacy"), Str("transactional-experimental"), Str("x")}, b \in BOOLEAN}
    \cup {Exposed("dns", [udpServers |-> Repeated]), Exposed("plugins", [modules |-> Repeated]),
          Exposed("plugins", [wasm |-> Repeated])}
    \cup {Obj(With(Base, "dns", Obj(With(Dns, "rules", Arr(<<x>>))))) :
             x \in Varied([domainSuffix |-> Arr(<<Str("cn")>>), serverTag |-> Str("t")], DnsRuleFields)}
    \cup {Obj(With(Base, "configVersion", v)) : v \in {Num(0), Num(1), Num(2), Fraction, Str("1"), Null}}
    \cup {Unreadable, Arr(<<>>), Null}
    \cup {Obj(With(Base, k, x)) : k \in {"inbounds", "outbounds", "route"}, x \in {Undef, Null, EmptyList, Obj(<<>>)}}

Auth(b) == Obj([enabled |-> Bool(b), username |-> Str("u"), password |-> Str("p")])
Tls(T, o) == Varied(o, T) \cup {Null}
InboundItems ==
    UNION {Varied(Http("in"), InboundFields @@ [options |-> OptText]),
           {Obj(With(With(Http("in"), "listen", Str("::")), "type", Str(t)) @@ [auth |-> a]) :
               t \in {"http", "socks5", "plugin.echo"}, a \in {Undef, Auth(TRUE), Auth(FALSE)}},
           {Obj(With(Http("in"), "auth", a)) :
               a \in Varied([username |-> Str("u"), password |-> Str("p")], AuthFields) \cup {Null}},
           Varied(With(Http("in"), "type", Str("socks5")), [udpAssociate |-> OptFlag]),
           Varied([type |-> Str("shadowsocks"), method |-> Str("aes-128-gcm"), password |-> Str("p")] @@ Http("in"),
                  [method |-> Method, password |-> OptText, udp |-> OptFlag]),
           {Obj([type |-> Str("trojan"), password |-> Str("p"), tls |-> x] @@ Http("in")) :
               x \in UNION {Tls(InboundTlsFields, [enabled |-> Bool(b), keyPath |-> Str("k")]) : b \in BOOLEAN}},
           Varied([type |-> Str("plugin.echo")] @@ Http("in"), [options |-> OptionsField]),
           {Obj(With(Http("in"), "type", Str("plugin.")))}, {Null}}

Server(type) == [type |-> Str(type), serverHost |-> Str("4a"), serverPort |-> Num(443),
                 password |-> Str("p"), method |-> Str("aes-256-gcm")] @@ Direct("direct")
Peer == [publicKey |-> Str("k"), endpointHost |-> Str("4a"), endpointPort |-> Num(1), allowedIps |-> Arr(<<Str("x")>>)]
WireGuard == [type |-> Str("wireguard"), tag |-> Str("wg"), privateKey |-> Str("k"),
              address |-> Arr(<<Str("x")>>), peer |-> Obj(Peer)]
OutboundItems ==
    UNION {Varied(Direct("direct"), OutboundFields),
           Varied([type |-> Str("block")] @@ Direct("direct"), [reason |-> OptText]),
           Varied([type |-> Str("tcpRelay"), targetHost |-> Str("4a"), targetPort |-> Num(1)] @@ Direct("direct"),
                  [targetHost |-> OptText, targetPort |-> PortField]),
           Varied(Server("shadowsocks"), ServerFields @@ [method |-> Method]),
           Varied(Server("trojan"), ServerFields),
           {Obj(With(Server("trojan"), "tls", x)) : x \in Tls(OutboundTlsFields, <<>>)},
           Varied([type |-> Str("plugin.echo")] @@ Direct("direct"), [options |-> OptionsField]), {Null}}
WireGuardItems ==
    Varied(WireGuard, [privateKey |-> OptText, address |-> OptTexts, reserved |-> Field("bytes", Undef), peer |-> OptText])
    \cup {Obj(With(WireGuard, "peer", x)) : x \in Varied(Peer, PeerFields)}

ItemFiles ==
    {Obj(With(Base, "inbounds", Arr(<<x>>))) : x \in InboundItems}
    \cup {Obj(With(Base, "outbounds", Arr(<<x>>))) : x \in OutboundItems}
    \cup {Obj(With(Base, "outbounds", Arr(<<Obj(Direct("direct")), x>>))) : x \in WireGuardItems}
    \cup {Obj(With(Base, "inbounds", Arr(<<Obj(Http("in")), Obj(Http(t))>>))) : t \in {"in", "in2"}}

\* Routes: targets, policies, rules with and without geo tags, rule-set files.
Policy(tag, members) == [tag |-> tag, type |-> Str("failover"), outbounds |-> members]
RuleTo(target, o) == Obj([outboundTag |-> target] @@ o)
Geo == Obj([geoip |-> Obj(<<[key |-> Up("cn"), val |-> Arr(<<Str("4a/3"), Str("6a/15")>>)],
                            [key |-> Text("bad"), val |-> Arr(<<Str("4a/9")>>)]>>),
            geosite |-> Obj(<<[key |-> Text("cn"), val |-> Arr(<<Padded(".cn")>>)],
                              [key |-> Text("none"), val |-> EmptyList]>>)])
OneList(k, items) == [z \in {k} |-> Arr(items)]
Rules == {<<>>,
          <<RuleTo(Str("p"), OneList("domainSuffix", <<Padded("cn")>>)), RuleTo(Str("direct"), <<>>)>>,
          <<RuleTo(Str("proxy"), OneList("geoIp", <<UpStr("cn")>>) @@ [port |-> Num(80)]),
            RuleTo(Str("direct"), OneList("geoSite", <<Str("cn")>>))>>,
          <<RuleTo(Str("proxy"), OneList("geoSite", <<Str("none")>>)),
            RuleTo(Str("direct"), OneList("domain", <<UpStr("a.cn")>>))>>,
          <<RuleTo(Str("proxy"), OneList("geoIp", <<Str("x")>>))>>,
          <<RuleTo(Str("direct"), OneList("geoIp", <<Str("bad")>>))>>}
SingleRules == Varied([outboundTag |-> Str("direct")], RuleFields)
               \cup {RuleTo(Str("direct"), OneList("ipCidr", <<Str(w)>>)) : w \in DOMAIN MCCidrOf}
RuleSet(tag, target) == Obj([tag |-> Str(tag), path |-> Str("x"), outboundTag |-> target])
RouteFiles ==
    {Obj([outbounds |-> Arr(outs), geo |-> geo,
          route |-> Obj([policies |-> Arr(pols), ruleSetFiles |-> Arr(sets)] @@ Route(def, rules))] @@ Base) :
        outs \in {<<Obj(Direct("direct"))>>, <<Obj(Direct("proxy")), Obj(Direct("direct"))>>,
                  <<Obj(Direct("direct")), Obj(Direct("direct"))>>},
        geo \in {Undef, Geo},
        pols \in {<<>>, <<Obj(Policy(Str("p"), Arr(<<Padded("direct")>>)))>>, <<Obj(Policy(Str("p"), Undef))>>,
                  <<Obj(Policy(Str("direct"), Arr(<<Str("direct")>>)))>>},
        sets \in {<<>>, <<RuleSet("s", Str("p"))>>, <<RuleSet("s", Str("proxy")), RuleSet("r", Str("direct"))>>},
        def \in {"direct", "p"}, rules \in Rules}
    \cup {Obj(With(Base, "route", Obj(Route("direct", <<x>>)))) : x \in SingleRules}
    \cup {Obj(With(Base, "route", Obj(With(Route("direct", <<>>), "policies", Arr(<<x>>))))) :
             x \in Varied(Policy(Str("p"), Arr(<<Str("direct")>>)), PolicyFields) \cup {Null}}
    \cup {Obj(With(Base, "route", Obj(With(Route("direct", <<>>), "ruleSetFiles", Arr(<<x>>))))) :
             x \in Varied([tag |-> Str("s"), path |-> Str("x"), outboundTag |-> Str("direct")], RuleSetFileFields)}

\* Pairs of outbounds under changing tags, and a transactional reload section.
Relay(host, tag) == [type |-> Str("tcpRelay"), targetHost |-> host, targetPort |-> Num(1)] @@ Direct(tag)
Kinds(tag) == {Direct(tag), Relay(Str("4a"), tag), Relay(Padded("4a"), tag),
               With(Server("trojan"), "tag", Str(tag)), With(WireGuard, "tag", Str(tag)),
               [type |-> Str("plugin.echo")] @@ Direct(tag)}
OutboundLists == UNION {{<<Obj(x), Obj(y)>> : x \in Kinds(s), y \in Kinds(t)} :
                           <<s, t>> \in {<<"a", "b">>, <<"b", "a">>, <<"c", "d">>}}
Transactional(parts) == Obj([mode |-> Str("transactional-experimental"),
                             transactional |-> Obj([enabledComponents |-> Arr(parts)])])
AllParts == <<Str("metrics"), Str("dashboard"), Str("router"), Str("policy"), Str("dns"), Str("outbound")>>
ConfigOf(outs, reload, route) ==
    Obj([outbounds |-> Arr(outs), reload |-> reload, route |-> Obj(route)] @@ Base)
PolicyRoute(def) == With(Route("p", <<>>), "policies", Arr(<<Obj(Policy(Str("p"), Arr(<<Str(def)>>)))>>))
PlanFiles ==
    {ConfigOf(outs, Transactional(AllParts), Route(outs[1].o.tag.s.w, <<>>)) : outs \in OutboundLists}
    \cup {ConfigOf(<<Obj(Direct("a")), Obj(Relay(Str("4a"), "b"))>>, Transactional(parts), route) :
             parts \in {AllParts, <<Str("outbound"), Str("dns")>>}, route \in {PolicyRoute("a"), PolicyRoute("b"), Route("b", <<>>)}}
    \cup {Obj(With(ConfigOf(<<Obj(Direct("a")), Obj(Relay(Str("4a"), "b"))>>, Transactional(AllParts), Route("a", <<>>)).o, k, x)) :
             <<k, x>> \in {<<"dns", Obj([cacheTtlMs |-> Num(9)])>>, <<"dns", Obj([fakeIp |-> Obj([size |-> Num(9)])])>>,
                          <<"dns", Obj([hosts |-> Obj(<<[key |-> Text("cn"), val |-> Str("4a")]>>)])>>,
                          <<"geo", Geo>>, <<"probing", Obj([timeoutMs |-> Num(9)])>>, <<"limits", Obj([maxConnections |-> Num(9)])>>,
                          <<"dashboard", Obj([cors |-> Bool(TRUE)])>>, <<"log", Obj([level |-> Str("warn")])>>,
                          <<"connectionPool", Obj([enabled |-> Bool(TRUE)])>>,
                          <<"observability", Obj([metrics |-> Obj([port |-> Num(9)])])>>}}

MCCurrentFiles ==
    {Obj(Base), ConfigOf(<<Obj(Direct("a")), Obj(Relay(Str("4a"), "b"))>>, Transactional(AllParts), PolicyRoute("a")),
     ConfigOf(<<Obj(Relay(Str("4a"), "a")), Obj(Relay(Str("4a"), "b"))>>, Transactional(<<>>), Route("b", <<>>)),
     ConfigOf(<<Obj(With(Server("trojan"), "tag", Str("a"))), Obj(With(WireGuard, "tag", Str("d")))>>,
              Transactional(AllParts), Route("a", <<>>)),
     ConfigOf(<<Obj(Direct("a")), Obj(Relay(Str("4a"), "b"))>>, Transactional(AllParts), Route("a", <<>>))}

MCConfigFiles == SectionFiles \cup CrossFiles \cup ItemFiles \cup RouteFiles \cup PlanFiles

MCRuleSetFiles ==
    {Unreadable, Null, Arr(<<Null>>), EmptyList,
     Arr(<<Obj(OneList("domainSuffix", <<Str("cn")>>)), Obj(OneList("geoIp", <<Str("cn")>>))>>),
     Obj([rules |-> Arr(<<RuleTo(Str("direct"), OneList("ipCidr", <<Str("6a/16")>>) @@ [tag |-> Str("x")])>>)]),
     Arr(<<RuleTo(Padded(""), <<>>)>>),
     Arr(<<RuleTo(Str("nowhere"), <<>>)>>)}
===============================================================================
