----------------------------- MODULE LegacyReload -----------------------------
(***************************************************************************)
(* The life of a sepigs process in the sequential reload mode: index.ts    *)
(* starts the engine and the hot reload manager; edits of the watched      *)
(* files and POST /api/reload of the dashboard start reloads that nothing  *)
(* serialises; a signal stops the process at any moment.                   *)
(*                                                                         *)
(* An object (listener, endpoint server, outbound) is [tag, spec, by]: the *)
(* tag it has in the configuration, the section it was built from and the  *)
(* reload that built it (0: buildComponents).  spec.addr is the address a  *)
(* listener binds; the specification Off is a disabled endpoint.  A step   *)
(* runs from one await to the next.  The resolver, the pool, the QUIC      *)
(* transport and the routing generation are replaced in the statement      *)
(* sequence that assigns this.config (engine.ts 376-397), so `config'      *)
(* stands for all of them.  udpSessionManager, registered once and for all *)
(* by the constructor, is left out of the services.                        *)
(***************************************************************************)
EXTENDS Naturals, Sequences, SequencesExt, FiniteSets

CONSTANTS
    Versions,    \* the successive contents of the files, 1 the first
    Config,      \* Config[v]: what loadConfig returns for version v
    EditPath,    \* EditPath[v]: the file whose edit produced version v
    MainPath,    \* configPath
    Reloads,     \* a bound on the calls of reload(), 1..n
    MaxFaults,   \* a bound on loads, binds, factories and plugins that fail
    Off          \* the section of a disabled endpoint

Endpoints == <<"metrics", "dashboard">>

\* A listener is never built from the section of an outbound.
ASSUME LegacyAssumption ==
    /\ Reloads \subseteq Nat \ {0}
    /\ Versions \subseteq Nat /\ 1 \in Versions
    /\ \A v \in Versions : Config[v].inbounds \in Seq(ToSet(Config[v].inbounds))
    /\ \A u, v \in Versions : \A i \in DOMAIN Config[u].inbounds :
          /\ Config[u].inbounds[i].spec # Off
          /\ \A s \in Config[v].outbounds : Config[u].inbounds[i].spec # s.spec

\* checkUniqueTags and checkOutboundReferences of loadConfig; a listener is
\* never built from the section of an endpoint either.
ASSUME SectionsAssumption == \A v \in Versions :
    /\ \A i, j \in DOMAIN Config[v].inbounds :
          Config[v].inbounds[i].tag = Config[v].inbounds[j].tag => i = j
    /\ IsFiniteSet(Config[v].outbounds)
    /\ \A s, t \in Config[v].outbounds : s.tag = t.tag => s = t
    /\ Config[v].targets \subseteq {s.tag : s \in Config[v].outbounds}
    /\ \A u \in Versions : \A i \in DOMAIN Config[u].inbounds : \A e \in ToSet(Endpoints) :
          Config[u].inbounds[i].spec # Config[v].endpoints[e]

VARIABLES
    disk,        \* the version the files hold
    event,       \* a change event of fs.watch is on its way
    timer,       \* HotReloadManager.timer is set
    watching,    \* the keys of HotReloadManager.watchers
    missed,      \* history: the last edit was of a file nobody watched
    life,        \* how far index.ts's start and stop have come
    toStart,     \* the objects Engine.start has still to start
    config,      \* Engine.config, as a version
    inbounds,    \* Engine.inbounds
    outbounds,   \* Engine.outbounds
    registry,    \* the outbounds of outboundRegistry, NoRegistry if undefined
    servers,     \* metricsServer and dashboardServer
    services,    \* LifecycleManager.services
    open,        \* the objects that hold a bound address
    started,     \* Engine.started
    reload,      \* every call of reload()
    faults,      \* failures so far
    overlapped,  \* history: reloads that were applied while another one was
    overtaken,   \* history: reloads applied after one that had begun later
    unfinished   \* history: reloads not finished when the stop began

hotVars == <<disk, event, timer, watching, missed>>
engineVars == <<config, inbounds, outbounds, registry, servers, services, open, started>>
lifeVars == <<life, toStart, unfinished>>
vars == <<hotVars, lifeVars, engineVars, reload, faults, overlapped, overtaken>>

NoServer == [tag |-> "none", spec |-> Off, by |-> 0]
NoRegistry == {NoServer}

Build(section, r) == [tag |-> section.tag, spec |-> section.spec, by |-> r]
EndpointOf(e, v, r) == [tag |-> e, spec |-> Config[v].endpoints[e], by |-> r]
BuiltAll(sections, r) == {Build(s, r) : s \in sections}

Idle == [pc |-> "idle", caller |-> "watcher", via |-> NoServer, loaded |-> 1, previous |-> 1,
         index |-> 1, next |-> {}, staged |-> {}, closing |-> NoServer, todo |-> <<>>]

Ended == {"idle", "done", "rejected", "partial"}
InFlight(r) == reload[r].pc \notin Ended
Applying(r) == InFlight(r) /\ reload[r].pc # "loading"

\* A server whose address another one holds fails to start; so may any other.
Binds(o) == o.spec # Off /\ \A p \in open : p.spec.addr # o.spec.addr
Faulty == faults < MaxFaults /\ faults' = faults + 1
Refused(o) == o.spec # Off /\ (IF Binds(o) THEN Faulty ELSE UNCHANGED faults)
Bound(o) == IF o.spec = Off THEN {} ELSE {o}
-----------------------------------------------------------------------------
Init ==
    /\ disk = 1 /\ event = FALSE /\ timer = FALSE /\ watching = {} /\ missed = FALSE
    /\ life = "off" /\ toStart = <<>> /\ unfinished = {}
    /\ config = 1
    /\ inbounds = {} /\ outbounds = {} /\ registry = NoRegistry
    /\ servers = [e \in ToSet(Endpoints) |-> EndpointOf(e, 1, 0)]
    /\ services = {} /\ open = {} /\ started = FALSE
    /\ reload = [r \in Reloads |-> Idle]
    /\ faults = 0 /\ overlapped = {} /\ overtaken = {}

(* Engine.start *)
buildComponents ==
    LET cfg == Config[config]
        ins == [i \in DOMAIN cfg.inbounds |-> Build(cfg.inbounds[i], 0)]
    IN /\ life = "off"
       /\ life' = "starting"
       /\ outbounds' = BuiltAll(cfg.outbounds, 0)
       /\ registry' = BuiltAll(cfg.outbounds, 0)
       /\ inbounds' = ToSet(ins)
       /\ services' = outbounds' \union inbounds'
       /\ toStart' = ins \o <<servers["metrics"], servers["dashboard"]>>
       /\ UNCHANGED <<hotVars, unfinished, config, servers, open, started, reload, faults, overlapped, overtaken>>

StartNext ==
    /\ life = "starting" /\ toStart # <<>>
    /\ Head(toStart).spec = Off \/ Binds(Head(toStart))
    /\ open' = open \union Bound(Head(toStart))
    /\ toStart' = Tail(toStart)
    /\ UNCHANGED <<hotVars, life, unfinished, config, inbounds, outbounds, registry, servers, services,
                   started, reload, faults, overlapped, overtaken>>

StartRefused ==
    /\ life = "starting" /\ toStart # <<>>
    /\ Refused(Head(toStart))
    /\ life' = "stopping"
    /\ toStart' = <<>>
    /\ open' = open \ {servers["dashboard"]}
    /\ UNCHANGED <<hotVars, unfinished, config, inbounds, outbounds, registry, servers, services, started,
                   reload, overlapped, overtaken>>

WatchedPaths(v) == {MainPath} \union Config[v].files

\* The end of Engine.start, and hotReload.start() of index.ts with it.
Started ==
    /\ life = "starting" /\ toStart = <<>>
    /\ life' = "running"
    /\ started' = TRUE
    /\ watching' = WatchedPaths(1)
    /\ UNCHANGED <<disk, event, timer, missed, toStart, unfinished, config, inbounds, outbounds, registry,
                   servers, services, open, reload, faults, overlapped, overtaken>>
-----------------------------------------------------------------------------
(* HotReloadManager *)
Edit ==
    LET v == disk + 1 IN
    /\ v \in Versions
    /\ life # "off"
    /\ disk' = v
    /\ event' = (event \/ EditPath[v] \in watching)
    /\ missed' = (EditPath[v] \notin watching)
    /\ UNCHANGED <<timer, watching, lifeVars, engineVars, reload, faults, overlapped, overtaken>>

\* Mutant of scheduleReload: a change seen during a reload is dropped.
scheduleReloadWhenIdle ==
    /\ event
    /\ event' = FALSE
    /\ timer' = (\A r \in Reloads : ~InFlight(r))
    /\ UNCHANGED <<disk, watching, missed, lifeVars, engineVars, reload, faults, overlapped, overtaken>>

\* hotReload.stop() closes the watchers: no event is delivered after it.
scheduleReload ==
    /\ event
    /\ event' = FALSE
    /\ timer' = TRUE
    /\ UNCHANGED <<disk, watching, missed, lifeVars, engineVars, reload, faults, overlapped, overtaken>>

Begin(r, caller, via) ==
    /\ reload[r].pc = "idle"
    /\ \A q \in Reloads : q < r => reload[q].pc # "idle"
    /\ reload' = [reload EXCEPT ![r] = [Idle EXCEPT !.pc = "loading", !.caller = caller,
                                                    !.via = via, !.loaded = disk]]
    /\ UNCHANGED <<disk, event, watching, missed, lifeVars, engineVars, faults, overlapped, overtaken>>

WatcherReload(r) == timer /\ timer' = FALSE /\ Begin(r, "watcher", NoServer)

\* POST /api/reload, answered by the dashboard server that is listening.
DashboardReload(r) ==
    /\ life = "running"
    /\ servers["dashboard"] \in open
    /\ UNCHANGED timer
    /\ Begin(r, "dashboard", servers["dashboard"])
-----------------------------------------------------------------------------
(* applyReloadConfig: the listeners *)
inboundConfigsChanged(u, v) == ToSet(Config[u].inbounds) # ToSet(Config[v].inbounds)

\* A file is missing, not valid, or was read while it was written.
LoadFails(r) ==
    /\ reload[r].pc = "loading"
    /\ Faulty
    /\ reload' = [reload EXCEPT ![r].pc = "rejected"]
    /\ UNCHANGED <<hotVars, lifeVars, engineVars, overlapped, overtaken>>

Enter(r) ==
    LET v == reload[r].loaded
        others == {q \in Reloads \ {r} : Applying(q)}
    IN /\ reload[r].pc = "loading"
       /\ reload' = [reload EXCEPT ![r].previous = config,
            ![r].pc = IF inboundConfigsChanged(config, v) THEN "staging" ELSE "publish"]
       /\ overlapped' = overlapped \union (IF others = {} THEN {} ELSE others \union {r})
       /\ overtaken' = overtaken \union
            {p \in {r} : \E q \in Reloads : q > p /\ reload[q].pc \notin {"idle", "loading"}}
       /\ UNCHANGED <<hotVars, lifeVars, engineVars, faults>>

\* Mutant of Reusable: a listener is kept for its tag alone.
ReusableByTag(r, i) == \E o \in inbounds : o.tag = Config[reload[r].loaded].inbounds[i].tag

\* The current listener of a tag is kept if the tag's section is the one of
\* the configuration this reload found when it began.
Reusable(r, i) ==
    LET section == Config[reload[r].loaded].inbounds[i] IN
    /\ section \in ToSet(Config[reload[r].previous].inbounds)
    /\ \E o \in inbounds : o.tag = section.tag

\* The sections from reload[r].index on, up to the next that needs a new listener.
NextNew(r) ==
    LET n == Len(Config[reload[r].loaded].inbounds)
        changed == {i \in reload[r].index..n : ~Reusable(r, i)}
    IN IF changed = {} THEN n + 1 ELSE CHOOSE i \in changed : \A j \in changed : i <= j

ReusedUpTo(r, i) ==
    {o \in inbounds : \E j \in reload[r].index..(i - 1) :
        o.tag = Config[reload[r].loaded].inbounds[j].tag}

StageListener(r) ==
    LET i == NextNew(r)
        sections == Config[reload[r].loaded].inbounds
        o == Build(sections[i], r)
    IN /\ reload[r].pc = "staging" /\ i <= Len(sections)
       /\ Binds(o)
       /\ open' = open \union {o}
       /\ reload' = [reload EXCEPT ![r].index = i + 1,
            ![r].next = @ \union ReusedUpTo(r, i) \union {o}, ![r].staged = @ \union {o}]
       /\ UNCHANGED <<hotVars, lifeVars, config, inbounds, outbounds, registry, servers, services, started,
                      faults, overlapped, overtaken>>

RolledBack(r) == open \ reload[r].staged

StageFails(r) ==
    LET i == NextNew(r)
        sections == Config[reload[r].loaded].inbounds
    IN /\ reload[r].pc = "staging" /\ i <= Len(sections)
       /\ Refused(Build(sections[i], r))
       /\ open' = RolledBack(r)
       /\ reload' = [reload EXCEPT ![r].pc = "rejected"]
       /\ UNCHANGED <<hotVars, lifeVars, config, inbounds, outbounds, registry, servers, services, started,
                      overlapped, overtaken>>

\* Every listener of this.inbounds, read now, whose tag was not reused.
DrainOld(r) ==
    LET i == NextNew(r)
        kept == reload[r].next \union ReusedUpTo(r, i)
        reusedTags == {o.tag : o \in kept \ reload[r].staged}
    IN /\ reload[r].pc = "staging" /\ i > Len(Config[reload[r].loaded].inbounds)
       /\ open' = open \ {o \in inbounds : o.tag \notin reusedTags}
       /\ reload' = [reload EXCEPT ![r].pc = "publish", ![r].next = kept]
       /\ UNCHANGED <<hotVars, lifeVars, config, inbounds, outbounds, registry, servers, services, started,
                      faults, overlapped, overtaken>>
-----------------------------------------------------------------------------
(* applyReloadConfig: the rest *)
IfChanged(e, u, v) == IF Config[u].endpoints[e] # Config[v].endpoints[e] THEN <<e>> ELSE <<>>

Publish(r) ==
    LET u == reload[r].previous
        v == reload[r].loaded
    IN /\ reload[r].pc = "publish"
       /\ config' = v
       /\ reload' = [reload EXCEPT ![r].pc = "endpoints",
                                   ![r].todo = IfChanged("metrics", u, v) \o IfChanged("dashboard", u, v)]
       /\ UNCHANGED <<hotVars, lifeVars, inbounds, outbounds, registry, servers, services, open, started,
                      faults, overlapped, overtaken>>

\* Mutant of EndpointStop: stop() waits for a server that is already closing.
EndpointStopAgain(r) ==
    LET e == Head(reload[r].todo) IN
    /\ reload[r].pc = "endpoints" /\ reload[r].todo # <<>>
    /\ open' = open \ {servers[e]}
    /\ reload' = [reload EXCEPT ![r].pc = "closing", ![r].closing = servers[e]]
    /\ UNCHANGED <<hotVars, lifeVars, config, inbounds, outbounds, registry, servers, services, started,
                   faults, overlapped, overtaken>>

\* server.close(): waits for the requests in progress, if it was listening.
EndpointStop(r) ==
    LET e == Head(reload[r].todo) IN
    /\ reload[r].pc = "endpoints" /\ reload[r].todo # <<>>
    /\ open' = open \ {servers[e]}
    /\ reload' = [reload EXCEPT ![r].pc = "closing",
                                ![r].closing = IF servers[e] \in open THEN servers[e] ELSE NoServer]
    /\ UNCHANGED <<hotVars, lifeVars, config, inbounds, outbounds, registry, servers, services, started,
                   faults, overlapped, overtaken>>

\* No call of reload() is the request in progress on a server that closes.
Closed(o) == o = NoServer \/ \A q \in Reloads : InFlight(q) => reload[q].via # o

EndpointStart(r) ==
    LET e == Head(reload[r].todo)
        o == EndpointOf(e, reload[r].loaded, r)
    IN /\ reload[r].pc = "closing" /\ Closed(reload[r].closing)
       /\ servers' = [servers EXCEPT ![e] = o]
       /\ \/ /\ ~started \/ o.spec = Off \/ Binds(o)
             /\ open' = IF started THEN open \union Bound(o) ELSE open
             /\ reload' = [reload EXCEPT ![r].pc = "endpoints", ![r].todo = Tail(@)]
             /\ UNCHANGED faults
          \/ /\ started /\ Refused(o)
             /\ reload' = [reload EXCEPT ![r].pc = "partial"]
             /\ UNCHANGED open
       /\ UNCHANGED <<hotVars, lifeVars, config, inbounds, outbounds, registry, services, started, overlapped, overtaken>>

PluginsFail(r) ==
    /\ reload[r].pc = "endpoints" /\ reload[r].todo = <<>>
    /\ Faulty
    /\ reload' = [reload EXCEPT ![r].pc = "partial"]
    /\ UNCHANGED <<hotVars, lifeVars, engineVars, overlapped, overtaken>>

\* The plugins are loaded; the outbounds are stopped and unregistered.
RetireOutbounds(r) ==
    /\ reload[r].pc = "endpoints" /\ reload[r].todo = <<>>
    /\ services' = services \ (IF registry = NoRegistry THEN outbounds ELSE registry)
    /\ registry' = IF registry = NoRegistry THEN registry ELSE {}
    /\ reload' = [reload EXCEPT ![r].pc = "rebuild"]
    /\ UNCHANGED <<hotVars, lifeVars, config, inbounds, outbounds, servers, open, started, faults, overlapped, overtaken>>

\* The sections are those of this.config, read now.
RebuildFails(r) ==
    /\ reload[r].pc = "rebuild"
    /\ Faulty
    /\ \E made \in SUBSET BuiltAll(Config[config].outbounds, r) :
          /\ made # BuiltAll(Config[config].outbounds, r)
          /\ outbounds' = made
          /\ services' = services \union made
    /\ registry' = NoRegistry
    /\ reload' = [reload EXCEPT ![r].pc = "partial"]
    /\ UNCHANGED <<hotVars, lifeVars, config, inbounds, servers, open, started, overlapped, overtaken>>

refreshWatchers(r) == IF reload[r].caller = "watcher" THEN WatchedPaths(reload[r].loaded) ELSE watching

\* The listeners are replaced by those staged and reused, if any changed.
Replaces(r) == inboundConfigsChanged(reload[r].previous, reload[r].loaded)

Rebuild(r) ==
    LET made == BuiltAll(Config[config].outbounds, r)
    IN /\ reload[r].pc = "rebuild"
       /\ outbounds' = made
       /\ registry' = made
       /\ inbounds' = IF Replaces(r) THEN reload[r].next ELSE inbounds
       /\ services' = made \union
            (IF Replaces(r) THEN (services \ inbounds) \union reload[r].next ELSE services)
       /\ reload' = [reload EXCEPT ![r].pc = "done"]
       /\ watching' = refreshWatchers(r)
       /\ UNCHANGED <<disk, event, timer, missed, lifeVars, config, servers, open, started, faults, overlapped, overtaken>>
-----------------------------------------------------------------------------
(* The signal handler of index.ts and Engine.stop *)
Signal ==
    /\ life = "running"
    /\ life' = "stopping"
    /\ timer' = FALSE /\ watching' = {} /\ event' = FALSE
    /\ open' = open \ {servers["dashboard"]}
    /\ unfinished' = {r \in Reloads : reload[r].pc \notin Ended \ {"idle"}}
    /\ toStart' = IF servers["dashboard"] \in open THEN <<servers["dashboard"]>> ELSE <<>>
    /\ UNCHANGED <<disk, missed, config, inbounds, outbounds, registry, servers, services, started, reload,
                   faults, overlapped, overtaken>>

\* dashboardServer.stop() has waited for its requests; metricsServer.stop().
StopEndpoints ==
    /\ life = "stopping" /\ (toStart # <<>> => Closed(Head(toStart)))
    /\ life' = "endpoints stopped"
    /\ toStart' = <<>>
    /\ open' = open \ {servers["metrics"]}
    /\ UNCHANGED <<hotVars, unfinished, config, inbounds, outbounds, registry, servers, services, started,
                   reload, faults, overlapped, overtaken>>

StopOutbounds ==
    /\ life = "endpoints stopped"
    /\ life' = "outbounds stopped"
    /\ services' = services \ registry
    /\ registry' = NoRegistry
    /\ UNCHANGED <<hotVars, toStart, unfinished, config, inbounds, outbounds, servers, open, started, reload,
                   faults, overlapped, overtaken>>

\* Mutant of StopServices: only the services registered at the start are stopped.
StopServicesOfStart ==
    /\ life = "outbounds stopped"
    /\ life' = "services stopping"
    /\ open' = open \ {o \in services : o.by = 0}
    /\ UNCHANGED <<hotVars, toStart, unfinished, config, inbounds, outbounds, registry, servers, services,
                   started, reload, faults, overlapped, overtaken>>

\* LifecycleManager.stopAll calls stop() of every service registered now.
StopServices ==
    /\ life = "outbounds stopped"
    /\ life' = "services stopping"
    /\ open' = open \ services
    /\ UNCHANGED <<hotVars, toStart, unfinished, config, inbounds, outbounds, registry, servers, services,
                   started, reload, faults, overlapped, overtaken>>

\* allSettled won the race: the list is cleared, whatever was added since.
StopFinished ==
    /\ life = "services stopping"
    /\ life' = "stopped"
    /\ services' = {}
    /\ started' = FALSE
    /\ UNCHANGED <<hotVars, toStart, unfinished, config, inbounds, outbounds, registry, servers, open,
                   reload, faults, overlapped, overtaken>>

\* The timer won: stop() rejects, the list is kept, started stays TRUE.
StopTimedOut ==
    /\ life = "services stopping"
    /\ Faulty
    /\ life' = "failed"
    /\ UNCHANGED <<hotVars, toStart, unfinished, engineVars, reload, overlapped, overtaken>>
-----------------------------------------------------------------------------
ReloadStep(r) ==
    \/ LoadFails(r) \/ Enter(r)
    \/ StageListener(r) \/ StageFails(r) \/ DrainOld(r)
    \/ Publish(r)
    \/ EndpointStop(r) \/ EndpointStart(r)
    \/ PluginsFail(r) \/ RetireOutbounds(r)
    \/ RebuildFails(r) \/ Rebuild(r)

StopStep == StopEndpoints \/ StopOutbounds \/ StopServices \/ StopFinished \/ StopTimedOut

StartStep == buildComponents \/ StartNext \/ StartRefused \/ Started

Next ==
    \/ StartStep
    \/ Edit
    \/ scheduleReload
    \/ \E r \in Reloads : WatcherReload(r) \/ DashboardReload(r) \/ ReloadStep(r)
    \/ Signal
    \/ StopStep

\* The event loop runs every ready continuation; nobody is obliged to edit a
\* file, call the dashboard or send a signal.
Fairness ==
    /\ \A r \in Reloads : WF_vars(ReloadStep(r))
    /\ WF_vars(StopStep)

Spec == Init /\ [][Next]_vars /\ Fairness
-----------------------------------------------------------------------------
(* Properties *)
Failed(r) == reload[r].pc = "partial"
Untainted == overlapped = {} /\ \A r \in Reloads : ~Failed(r)
Quiet == \A r \in Reloads : ~InFlight(r)
HasSections(objects, sections) ==
    /\ Cardinality(objects) = Cardinality(sections)
    /\ \A s \in sections : \E o \in objects : o.tag = s.tag /\ o.spec = s.spec

\* While no reload runs, and if none was applied together with another one
\* or failed after it had published, the listeners, the outbounds, the
\* registry, the endpoints, the route targets and the list of services are
\* all those of the published configuration, whatever reloads were rejected.
QuietAgreement ==
    (life = "running" /\ Quiet /\ Untainted) =>
        /\ HasSections(inbounds, ToSet(Config[config].inbounds))
        /\ HasSections(outbounds, Config[config].outbounds)
        /\ registry = outbounds
        /\ services = inbounds \union outbounds
        /\ Config[config].targets \subseteq {o.tag : o \in outbounds}
        /\ open = inbounds \union UNION {Bound(servers[e]) : e \in ToSet(Endpoints)}
        /\ \A e \in ToSet(Endpoints) : servers[e].spec = Config[config].endpoints[e]

\* A bound address nobody will release has one of three causes: the reload
\* that bound it was applied together with another one, failed after it had
\* published, or had not finished when the process was told to stop.  Without
\* them a stop that returns leaves nothing listening.
Owned(o) ==
    \/ \E r \in Reloads : InFlight(r) /\ o \in reload[r].staged
    \/ o \in inbounds /\ o \in services
    \/ \E e \in ToSet(Endpoints) : o = servers[e]

StrayHasCause ==
    \A o \in open :
        \/ o.by \in overlapped \union unfinished
        \/ o.by \in Reloads /\ Failed(o.by)
        \/ life \notin {"stopped", "failed"} /\ Owned(o)

\* At rest, when the file edited last was watched, some reload has read what
\* the files hold; if no reload overlapped it and it was not rejected, that
\* version is the one in force.
RestFollowsDisk ==
    (life = "running" /\ Quiet /\ ~event /\ ~timer /\ ~missed) =>
        \/ disk = 1
        \/ \E r \in Reloads :
              /\ reload[r].pc \in Ended \ {"idle"}
              /\ reload[r].loaded = disk
              /\ config = disk \/ reload[r].pc # "done" \/ overlapped \union overtaken # {}

\* A dashboard request that changes the dashboard's own section waits for
\* the server that waits for the request; every other reload ends, and the
\* shutdown always does, whatever reloads it meets.
WaitsForItself(r) == reload[r].pc = "closing" /\ reload[r].closing = reload[r].via /\ reload[r].via # NoServer

EndsOrWaitsForItself ==
    /\ \A r \in Reloads : InFlight(r) ~> (~InFlight(r) \/ WaitsForItself(r))
    /\ (life = "stopping") ~> (life \in {"stopped", "failed"})
=============================================================================
