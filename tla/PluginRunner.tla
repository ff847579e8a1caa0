----------------------------- MODULE PluginRunner -----------------------------
(***************************************************************************)
(* One isolated plugin: the runner (childProcessRunner.ts or, with Kind    *)
(* "worker", workerThreadRunner.ts) with its table of pending calls, the   *)
(* hosts it spawns, and the part of PluginManager that loads, starts and   *)
(* stops it and registers its outbound factory.  Outbounds built from the  *)
(* factory call invoke() at any time, also after the plugin was stopped.   *)
(* Hosts are numbered in the order they are spawned, calls in the order    *)
(* they are made.  The messages of a host arrive before its exit event.    *)
(***************************************************************************)
EXTENDS Naturals, FiniteSets

CONSTANTS
    Hosts,    \* a bound on the processes or threads spawned, 1..n
    Calls,    \* a bound on the calls made, 1..n
    Kinds     \* the isolation modes considered, a subset of {"child", "worker"}

ASSUME RunnerAssumption ==
    /\ Hosts \subseteq Nat \ {0}
    /\ Calls \subseteq Nat \ {0}
    /\ Kinds \subseteq {"child", "worker"}

VARIABLES
    mode,        \* isolation.mode
    host,        \* per host: "none", "running", "killed", "quit", "exited"
    ready,       \* hosts that have loaded the plugin module
    child,       \* this.child or this.worker, 0 if undefined
    call,        \* per call: method, host it was sent to, state
    answers,     \* answers on their way: <<call, ok>>
    announced,   \* hosts whose registerOutboundFactory event is on its way
    registered,  \* the plugin's type in factories and remoteOutboundTypes: "never", "now", "before"
    plugin,      \* where PluginManager stands with this plugin
    waitsFor     \* the call loadOne, start or stop awaits, 0 if none

runnerVars == <<mode, host, ready, child, call, answers, announced, registered, plugin, waitsFor>>

NoCall == [method |-> "none", to |-> 0, state |-> "idle"]
Pending(c) == call[c].state = "pending"
Settled(c) == call[c].state \notin {"idle", "pending"}
Running == {h \in Hosts : host[h] = "running"}
MadeCalls == {c \in Calls : call[c].state # "idle"}
Spawned == {h \in Hosts : host[h] # "none"}
Unregistered == IF registered = "never" THEN "never" ELSE "before"

RunnerInit ==
    /\ mode \in Kinds
    /\ host = [h \in Hosts |-> "none"] /\ ready = {} /\ child = 0
    /\ call = [c \in Calls |-> NoCall]
    /\ answers = {} /\ announced = {} /\ registered = "never"
    /\ plugin = "absent" /\ waitsFor = 0
-----------------------------------------------------------------------------
(* The runner *)
\* ensureChild: the host a call is sent to, spawned if there is none.
Target == IF child # 0 THEN child ELSE Cardinality(Spawned) + 1

Send(c, method) ==
    /\ c = Cardinality(MadeCalls) + 1 /\ Target \in Hosts
    /\ host' = IF child # 0 THEN host ELSE [host EXCEPT ![Target] = "running"]
    /\ child' = Target
    /\ call' = [call EXCEPT ![c] = [method |-> method, to |-> Target, state |-> "pending"]]

Kill(h) == IF h # 0 /\ host[h] = "running" THEN [host EXCEPT ![h] = "killed"] ELSE host

Rejected(why) == [c \in Calls |-> IF Pending(c) THEN [call[c] EXCEPT !.state = why] ELSE call[c]]

\* An outbound made by the factory connects.
invoke(c) ==
    /\ registered # "never" /\ plugin \notin {"absent", "setup"}
    /\ Send(c, "invoke")
    /\ UNCHANGED <<mode, ready, answers, announced, registered, plugin, waitsFor>>

\* Mutant of CallTimesOut: only a call to the current host times out.
CallTimesOutIfCurrent(c) ==
    /\ Pending(c) /\ call[c].to = child
    /\ host' = Kill(call[c].to)
    /\ child' = 0
    /\ call' = [call EXCEPT ![c].state = "timed out"]
    /\ UNCHANGED <<mode, ready, answers, announced, registered, plugin, waitsFor>>

\* The timer kills the host the call was sent to and forgets the current one.
CallTimesOut(c) ==
    /\ Pending(c)
    /\ host' = Kill(call[c].to)
    /\ child' = 0
    /\ call' = [call EXCEPT ![c].state = "timed out"]
    /\ UNCHANGED <<mode, ready, answers, announced, registered, plugin, waitsFor>>

\* Messages of a host arrive in order: its event before its answer to setup.
onMessage(m) ==
    /\ m \in answers /\ call[m[1]].to \notin announced
    /\ answers' = answers \ {m}
    /\ call' = IF Pending(m[1]) THEN [call EXCEPT ![m[1]].state = IF m[2] THEN "ok" ELSE "error"] ELSE call
    /\ UNCHANGED <<mode, host, ready, child, announced, registered, plugin, waitsFor>>

\* registerRemoteOutboundFactory
onRegister(h) ==
    /\ h \in announced
    /\ announced' = announced \ {h}
    /\ registered' = "now"
    /\ UNCHANGED <<mode, host, ready, child, call, answers, plugin, waitsFor>>

\* attachOutput: whichever host wrote too much, the current one is killed.
OutputLimit ==
    /\ child # 0 /\ Running # {}
    /\ host' = Kill(child)
    /\ child' = 0
    /\ call' = Rejected("error")
    /\ UNCHANGED <<mode, ready, answers, announced, registered, plugin, waitsFor>>

\* Whether the exit of a host rejects the pending calls, whichever host they
\* were sent to.  A host that was killed has a code other than 0.
ChildExitRejects(h) == child # 0 /\ host[h] # "quit"
WorkerExitRejects(h) == host[h] # "quit"
ExitRejects(h) == IF mode = "child" THEN ChildExitRejects(h) ELSE WorkerExitRejects(h)

\* Mutant of onExit: the factories stay until the plugin is stopped.
onExitKeepsFactories(h) ==
    /\ host[h] \in {"killed", "quit"}
    /\ \A m \in answers : call[m[1]].to # h
    /\ h \notin announced
    /\ host' = [host EXCEPT ![h] = "exited"]
    /\ child' = IF child = h THEN 0 ELSE child
    /\ call' = IF ExitRejects(h) THEN Rejected("exited") ELSE call
    /\ UNCHANGED <<mode, ready, answers, announced, registered, plugin, waitsFor>>

onExit(h) ==
    /\ host[h] \in {"killed", "quit"}
    /\ \A m \in answers : call[m[1]].to # h
    /\ h \notin announced
    /\ host' = [host EXCEPT ![h] = "exited"]
    /\ child' = IF child = h THEN 0 ELSE child
    /\ registered' = Unregistered
    /\ call' = IF ExitRejects(h) THEN Rejected("exited") ELSE call
    /\ UNCHANGED <<mode, ready, answers, announced, plugin, waitsFor>>
-----------------------------------------------------------------------------
(* A host: childProcessHost.ts, workerThreadHost.ts *)
\* An answer may come too late; one to a call that is no longer pending is
\* ignored by onMessage, so hosts are not made to send it.
Answer(c, ok) ==
    /\ Pending(c)
    /\ call[c].to \in Running
    /\ \A m \in answers : m[1] # c
    /\ answers' = answers \union {<<c, ok>>}

\* registerOutboundFactory throws without the permission or for another type;
\* a plugin that catches that goes on without a factory.
Announcements(h) == SUBSET {h}

\* loadPlugin and plugin.setup, which may call registerOutboundFactory.
HostSetsUp(c) ==
    /\ call[c].method = "setup"
    /\ Answer(c, TRUE)
    /\ ready' = ready \union {call[c].to}
    /\ \E sent \in Announcements(call[c].to) : announced' = announced \union sent
    /\ UNCHANGED <<mode, host, child, call, registered, plugin, waitsFor>>

\* Hooks of a module that was not loaded are empty, but handle is missing.
\* That start or handle throws changes nothing for the runner.
HostAnswers(c) ==
    /\ \/ call[c].method \in {"setup", "stop"} /\ Answer(c, FALSE)
       \/ call[c].method \in {"start", "stop"} /\ Answer(c, TRUE)
       \/ call[c].method = "invoke" /\ Answer(c, call[c].to \in ready)
    /\ UNCHANGED <<mode, host, ready, child, call, announced, registered, plugin, waitsFor>>

\* It crashes or is killed by its memory limit, or calls process.exit(0).
HostEnds(h) ==
    /\ h \in Running
    /\ \E how \in {"killed", "quit"} : host' = [host EXCEPT ![h] = how]
    /\ UNCHANGED <<mode, ready, child, call, answers, announced, registered, plugin, waitsFor>>
-----------------------------------------------------------------------------
(* PluginManager *)
loadOne(c) ==
    /\ plugin = "absent"
    /\ Send(c, "setup")
    /\ plugin' = "setup" /\ waitsFor' = c
    /\ UNCHANGED <<mode, ready, answers, announced, registered>>

SetupDone ==
    /\ plugin = "setup" /\ call[waitsFor].state = "ok"
    /\ plugin' = "loaded" /\ waitsFor' = 0
    /\ UNCHANGED <<mode, host, ready, child, call, answers, announced, registered>>

start(c) ==
    /\ plugin = "loaded"
    /\ Send(c, "start")
    /\ plugin' = "starting" /\ waitsFor' = c
    /\ UNCHANGED <<mode, ready, answers, announced, registered>>

\* A start that fails leaves the plugin in the list of loaded ones.
StartDone ==
    /\ plugin = "starting" /\ Settled(waitsFor)
    /\ plugin' = "started" /\ waitsFor' = 0
    /\ UNCHANGED <<mode, host, ready, child, call, answers, announced, registered>>

SetupFailed == plugin = "setup" /\ Settled(waitsFor) /\ call[waitsFor].state # "ok"
StopWanted == plugin \in {"loaded", "started"} \/ SetupFailed

\* runner.stop(), from loadAll, stop() or the catch of loadOne.
stop(c) ==
    /\ StopWanted /\ child # 0
    /\ Send(c, "stop")
    /\ plugin' = IF plugin = "setup" THEN "cleaning" ELSE "stopping"
    /\ waitsFor' = c
    /\ UNCHANGED <<mode, ready, answers, announced, registered>>

\* The manager unregisters the factories itself unless loadOne is failing.
stopWithoutHost ==
    /\ StopWanted /\ child = 0
    /\ registered' = IF plugin = "setup" THEN registered ELSE Unregistered
    /\ plugin' = "removed" /\ waitsFor' = 0
    /\ UNCHANGED <<mode, host, ready, child, call, answers, announced>>

\* The finally block of a process runner kills the host it had when stop()
\* was called.  A stop that failed leaves the plugin in the list of loaded
\* ones, unless loadOne was failing.
AfterStop == IF call[waitsFor].state = "ok" \/ plugin = "cleaning" THEN "removed" ELSE "started"
StopAnswered == plugin \in {"stopping", "cleaning"} /\ Settled(waitsFor)

StopDone ==
    /\ StopAnswered /\ mode = "child"
    /\ host' = Kill(call[waitsFor].to)
    /\ child' = 0
    /\ registered' = Unregistered
    /\ plugin' = AfterStop /\ waitsFor' = 0
    /\ UNCHANGED <<mode, ready, call, answers, announced>>

\* The finally block of a thread runner throws if the thread is gone, ...
StopThrows ==
    /\ StopAnswered /\ mode = "worker" /\ child = 0
    /\ plugin' = IF plugin = "cleaning" THEN "removed" ELSE "started"
    /\ waitsFor' = 0
    /\ UNCHANGED <<mode, host, ready, child, call, answers, announced, registered>>

\* ... and otherwise terminates the current one and waits for its exit.
StopTerminates ==
    /\ StopAnswered /\ mode = "worker" /\ child # 0
    /\ host' = Kill(child)
    /\ plugin' = IF AfterStop = "removed" THEN "terminating" ELSE "terminating, failed"
    /\ waitsFor' = child
    /\ UNCHANGED <<mode, ready, child, call, answers, announced, registered>>

StopTerminated ==
    /\ plugin \in {"terminating", "terminating, failed"} /\ host[waitsFor] = "exited"
    /\ child' = 0
    /\ registered' = Unregistered
    /\ plugin' = IF plugin = "terminating" THEN "removed" ELSE "started"
    /\ waitsFor' = 0
    /\ UNCHANGED <<mode, host, ready, call, answers, announced>>
-----------------------------------------------------------------------------
ManagerStep ==
    \/ \E c \in Calls : loadOne(c) \/ start(c) \/ stop(c)
    \/ SetupDone \/ StartDone \/ stopWithoutHost
    \/ StopDone \/ StopThrows \/ StopTerminates \/ StopTerminated

RunnerNext ==
    \/ \E c \in Calls : invoke(c) \/ CallTimesOut(c) \/ HostSetsUp(c) \/ HostAnswers(c)
    \/ \E m \in answers : onMessage(m)
    \/ \E h \in Hosts : onRegister(h) \/ HostEnds(h) \/ onExit(h)
    \/ OutputLimit
    \/ ManagerStep

\* Timers fire; a host need not answer, and nobody need call or stop.
RunnerFairness == \A c \in Calls : WF_runnerVars(CallTimesOut(c))
-----------------------------------------------------------------------------
(* Properties *)
\* A host lives on that the runner no longer knows only if an older host of
\* the plugin was killed for a call that timed out or for its stop; a call to
\* the current host is rejected by an exit while that host runs only if an
\* older host exited; and the plugin's outbound factory is registered only
\* while a host of the plugin lives or its exit is still to be handled.
RunnerAccounted ==
    /\ \A h \in Running \ {child} : \E c \in Calls :
          call[c].to < h /\ (call[c].state = "timed out" \/ call[c].method = "stop")
    /\ \A c \in Calls : (call[c].state = "exited" /\ call[c].to \in Running \cap {child}) =>
          \E h \in Hosts : h < call[c].to /\ host[h] = "exited"
    /\ registered = "now" => \E h \in Hosts : host[h] \notin {"none", "exited"}
=============================================================================
