--------------------------- MODULE EndpointReload ---------------------------
(***************************************************************************)
(* A transactional reload of one HTTP endpoint: the metrics server or the  *)
(* dashboard (src/reload/adapters/metricsRuntimeAdapter.ts and its twin    *)
(* dashboardRuntimeAdapter.ts, src/observability/prometheus.ts,            *)
(* src/dashboard/server.ts), driven by one run of the reload executor.     *)
(*                                                                         *)
(* stop() unbinds at once but resolves only when the last client has gone, *)
(* so it can outlive the deadline of the operation that awaits it; the     *)
(* operation then runs on, next to the executor's rollback and cleanup.    *)
(* listen() settles in one turn of the event loop and is one step here.    *)
(***************************************************************************)
EXTENDS FiniteSets

CONSTANTS
    Addrs,             \* listener addresses
    Opts               \* settings that need no new listener (path, token, ...)

Servers == {"old", "cand", "disabled"}
EndpointConfigs == [enabled : BOOLEAN, addr : Addrs, opts : Opts]

VARIABLES
    started,     \* host.runtimeStarted()
    selfReload,  \* the reload was requested over this very endpoint
    oldCfg,      \* prepared.oldConfig
    nextCfg,     \* prepared.nextConfig
    cfg,         \* server -> its configuration
    open,        \* servers that are listening
    clients,     \* servers with a connection that close() waits for
    taken,       \* addresses bound by other processes
    current,     \* the server the engine refers to
    flags,       \* candidateStarted, oldStopped, hostSwapped, committed, rolledBack
    phase,       \* where the executor is with this component
    outcome,     \* state of the transaction
    pc           \* operation -> where it waits

hostVars == <<cfg, open, current, flags>>
runVars == <<phase, outcome, pc>>
envVars == <<clients, taken>>
fixed == <<started, selfReload, oldCfg, nextCfg>>
endpointVars == <<hostVars, runVars, envVars, fixed>>

Flags == {"candidateStarted", "oldStopped", "hostSwapped", "committed", "rolledBack"}
Phases == {"prepare", "prepared", "commit", "later", "rollback", "cleanup", "done"}
Waits == {"idle", "start_cand", "stop_old", "stop_cand", "start_old", "returned", "threw"}

EndpointTypeOK ==
    /\ started \in BOOLEAN /\ selfReload \in BOOLEAN
    /\ oldCfg \in EndpointConfigs /\ nextCfg \in EndpointConfigs
    /\ cfg \in [Servers -> EndpointConfigs]
    /\ open \in SUBSET Servers
    /\ clients \in SUBSET {"old", "cand"}
    /\ taken \in SUBSET Addrs
    /\ current \in Servers
    /\ flags \in SUBSET Flags
    /\ phase \in Phases
    /\ outcome \in {"running", "committed", "rolled_back"}
    /\ pc \in [{"commit", "rollback", "cleanup"} -> Waits]

-----------------------------------------------------------------------------
\* selectMetricsStrategy
Strategy ==
    IF ~nextCfg.enabled THEN "disable"
    ELSE IF oldCfg.enabled /\ oldCfg.addr = nextCfg.addr THEN "in-place"
    ELSE "replace"

\* The address can be bound, by the probe or by a server that starts.
Free(a) == a \notin taken /\ \A s \in open : cfg[s].addr # a

\* An engine that runs, or not, with its endpoint as configured.  The reload
\* changes the endpoint, or it would not visit this component.
EndpointInit ==
    /\ started \in BOOLEAN /\ selfReload \in BOOLEAN
    /\ oldCfg \in EndpointConfigs /\ nextCfg \in EndpointConfigs \ {oldCfg}
    /\ cfg = [s \in Servers |-> IF s = "old" THEN oldCfg ELSE nextCfg]
    /\ open = IF started /\ oldCfg.enabled THEN {"old"} ELSE {}
    /\ clients = IF selfReload THEN open ELSE {}
    /\ taken \in SUBSET Addrs /\ (open = {} \/ oldCfg.addr \notin taken)
    /\ current = "old"
    /\ flags = {}
    /\ phase = "prepare" /\ outcome = "running"
    /\ pc = [op \in {"commit", "rollback", "cleanup"} |-> "idle"]

-----------------------------------------------------------------------------
(* prepare                                                                 *)

MustProbe == Strategy = "replace" /\ started

Prepare ==
    /\ phase = "prepare"
    /\ MustProbe => Free(nextCfg.addr)
    /\ phase' = "prepared"
    /\ UNCHANGED <<hostVars, outcome, pc, envVars, fixed>>

\* The probe finds the port in use: the component is not in preparedEntries
\* and sees neither rollback nor cleanup.
PrepareFails ==
    /\ phase = "prepare" /\ MustProbe /\ ~Free(nextCfg.addr)
    /\ phase' = "done" /\ outcome' = "rolled_back"
    /\ UNCHANGED <<hostVars, pc, envVars, fixed>>

-----------------------------------------------------------------------------
(* commit                                                                  *)

\* replaceMetricsServer and the flags that go with it.
Swap(server) ==
    /\ current' = server
    /\ flags' = flags \cup {"hostSwapped", "committed"}
                      \cup (IF started THEN {"oldStopped"} ELSE {})

Replacement == IF Strategy = "disable" THEN "disabled" ELSE "cand"

CommitInPlace ==
    /\ phase = "prepared" /\ Strategy = "in-place"
    /\ cfg' = [cfg EXCEPT !["old"] = nextCfg]
    /\ flags' = flags \cup {"committed"}
    /\ phase' = "commit" /\ pc' = [pc EXCEPT !["commit"] = "returned"]
    /\ UNCHANGED <<open, current, outcome, envVars, fixed>>

\* The engine is not running: only the reference is exchanged.
CommitNotStarted ==
    /\ phase = "prepared" /\ Strategy # "in-place" /\ ~started
    /\ Swap(Replacement)
    /\ phase' = "commit" /\ pc' = [pc EXCEPT !["commit"] = "returned"]
    /\ UNCHANGED <<cfg, open, outcome, envVars, fixed>>

CommitDisable ==
    /\ phase = "prepared" /\ Strategy = "disable" /\ started
    /\ open' = open \ {"old"}
    /\ phase' = "commit" /\ pc' = [pc EXCEPT !["commit"] = "stop_old"]
    /\ UNCHANGED <<cfg, current, flags, outcome, envVars, fixed>>

CommitReplace ==
    /\ phase = "prepared" /\ Strategy = "replace" /\ started
    /\ phase' = "commit" /\ pc' = [pc EXCEPT !["commit"] = "start_cand"]
    /\ UNCHANGED <<hostVars, outcome, envVars, fixed>>

\* Mutant of CandidateStarts: the old server is stopped first.
CandidateStartsLate ==
    /\ pc["commit"] = "start_cand"
    /\ "old" \in open \/ Free(nextCfg.addr)
    /\ IF "old" \in open
       THEN open' = open \ {"old"} /\ UNCHANGED <<flags, pc>>
       ELSE /\ open' = open \cup {"cand"}
            /\ flags' = flags \cup {"candidateStarted"}
            /\ pc' = [pc EXCEPT !["commit"] = "stop_old"]
    /\ UNCHANGED <<cfg, current, phase, outcome, envVars, fixed>>

\* candidate.start() resolves and oldServer.stop() is called.
CandidateStarts ==
    /\ pc["commit"] = "start_cand" /\ Free(nextCfg.addr)
    /\ open' = (open \cup {"cand"}) \ {"old"}
    /\ flags' = flags \cup {"candidateStarted"}
    /\ pc' = [pc EXCEPT !["commit"] = "stop_old"]
    /\ UNCHANGED <<cfg, current, phase, outcome, envVars, fixed>>

\* Somebody took the port since the probe.  restoreMetricsState has nothing
\* to undo yet; the error is thrown on.
CandidateFails ==
    /\ pc["commit"] = "start_cand" /\ ~Free(nextCfg.addr)
    /\ pc' = [pc EXCEPT !["commit"] = "threw"]
    /\ UNCHANGED <<hostVars, phase, outcome, envVars, fixed>>

\* oldServer.stop() resolves, possibly after the executor has given up.
OldStopped ==
    /\ pc["commit"] = "stop_old" /\ "old" \notin clients
    /\ Swap(Replacement)
    /\ pc' = [pc EXCEPT !["commit"] = "returned"]
    /\ UNCHANGED <<cfg, open, phase, outcome, envVars, fixed>>

-----------------------------------------------------------------------------
(* rollback: restoreMetricsState                                           *)

RolledBack(f) == (f \cup {"rolledBack"}) \ {"committed"}

RollbackInPlace ==
    /\ phase = "rollback" /\ pc["rollback"] = "idle" /\ Strategy = "in-place"
    /\ cfg' = [cfg EXCEPT !["old"] = oldCfg]
    /\ flags' = RolledBack(flags)
    /\ pc' = [pc EXCEPT !["rollback"] = "returned"]
    /\ UNCHANGED <<open, current, phase, outcome, envVars, fixed>>

\* The host gets its old server back; the candidate, then the old server, are
\* dealt with if they need to be.
RollbackReplaced ==
    /\ phase = "rollback" /\ pc["rollback"] = "idle" /\ Strategy # "in-place"
    /\ current' = IF "hostSwapped" \in flags THEN "old" ELSE current
    /\ open' = IF "candidateStarted" \in flags THEN open \ {"cand"} ELSE open
    /\ pc' = [pc EXCEPT !["rollback"] =
                 CASE "candidateStarted" \in flags -> "stop_cand"
                   [] "candidateStarted" \notin flags /\ "oldStopped" \in flags -> "start_old"
                   [] OTHER -> "returned"]
    /\ flags' = IF pc'["rollback"] = "returned"
                THEN RolledBack(flags \ {"hostSwapped"}) ELSE flags \ {"hostSwapped"}
    /\ UNCHANGED <<cfg, phase, outcome, envVars, fixed>>

RollbackCandidateStopped ==
    /\ pc["rollback"] = "stop_cand" /\ "cand" \notin clients
    /\ IF "oldStopped" \in flags
       THEN /\ pc' = [pc EXCEPT !["rollback"] = "start_old"]
            /\ flags' = flags \ {"candidateStarted"}
       ELSE /\ pc' = [pc EXCEPT !["rollback"] = "returned"]
            /\ flags' = RolledBack(flags \ {"candidateStarted"})
    /\ UNCHANGED <<cfg, open, current, phase, outcome, envVars, fixed>>

\* Mutant of OldRestarts: the old server is marked as restored, not started.
OldRestartsUnbound ==
    /\ pc["rollback"] = "start_old" /\ Free(oldCfg.addr)
    /\ flags' = RolledBack(flags \ {"oldStopped"})
    /\ pc' = [pc EXCEPT !["rollback"] = "returned"]
    /\ UNCHANGED <<cfg, open, current, phase, outcome, envVars, fixed>>

\* start() does nothing when the configuration is disabled.
OldRestarts ==
    /\ pc["rollback"] = "start_old" /\ (oldCfg.enabled => Free(oldCfg.addr))
    /\ open' = IF oldCfg.enabled THEN open \cup {"old"} ELSE open
    /\ flags' = RolledBack(flags \ {"oldStopped"})
    /\ pc' = [pc EXCEPT !["rollback"] = "returned"]
    /\ UNCHANGED <<cfg, current, phase, outcome, envVars, fixed>>

OldRestartFails ==
    /\ pc["rollback"] = "start_old" /\ oldCfg.enabled /\ ~Free(oldCfg.addr)
    /\ pc' = [pc EXCEPT !["rollback"] = "threw"]
    /\ UNCHANGED <<hostVars, phase, outcome, envVars, fixed>>

-----------------------------------------------------------------------------
(* cleanup                                                                 *)

NothingToClean ==
    Strategy # "replace" \/ ("committed" \in flags /\ "rolledBack" \notin flags)

EndpointCleanup ==
    /\ phase = "cleanup" /\ pc["cleanup"] = "idle"
    /\ IF NothingToClean \/ "cand" \notin open
       THEN /\ pc' = [pc EXCEPT !["cleanup"] = "returned"]
            /\ flags' = IF NothingToClean THEN flags ELSE flags \ {"candidateStarted"}
            /\ UNCHANGED open
       ELSE /\ open' = open \ {"cand"}
            /\ pc' = [pc EXCEPT !["cleanup"] = "stop_cand"]
            /\ UNCHANGED flags
    /\ UNCHANGED <<cfg, current, phase, outcome, envVars, fixed>>

CleanupCandidateStopped ==
    /\ pc["cleanup"] = "stop_cand" /\ "cand" \notin clients
    /\ pc' = [pc EXCEPT !["cleanup"] = "returned"]
    /\ flags' = flags \ {"candidateStarted"}
    /\ UNCHANGED <<cfg, open, current, phase, outcome, envVars, fixed>>

-----------------------------------------------------------------------------
(* The executor, as this component sees it.                                *)

Move(p, o) == phase' = p /\ outcome' = o /\ UNCHANGED <<hostVars, pc, envVars, fixed>>

CommitReturns == phase = "commit" /\ pc["commit"] = "returned" /\ Move("later", outcome)
\* A commit that failed is not in committedEntries: no rollback for it.
CommitThrew == phase = "commit" /\ pc["commit"] = "threw" /\ Move("cleanup", "rolled_back")
\* The deadline passes while close() waits for a client.
CommitTimesOut ==
    /\ phase = "commit" /\ pc["commit"] = "stop_old" /\ "old" \in clients
    /\ Move("cleanup", "rolled_back")
\* Another component fails to prepare or a health check fails, or, once this
\* component has committed, another one fails to commit.
OtherFails == phase \in {"prepared", "later"} /\ Move("rollback", "rolled_back")
OthersCommit == phase = "later" /\ Move("cleanup", "committed")
\* Mutant of RollbackEnds: cleanup does not follow a failed rollback.
RollbackEndsWaiting ==
    /\ phase = "rollback" /\ pc["rollback"] = "returned" /\ Move("cleanup", outcome)

\* The rollback returns, throws or is cut off.
RollbackEnds ==
    /\ phase = "rollback" /\ pc["rollback"] \in {"stop_cand", "returned", "threw"}
    /\ Move("cleanup", outcome)
CleanupEnds ==
    /\ phase = "cleanup" /\ pc["cleanup"] \in {"stop_cand", "returned"}
    /\ Move("done", outcome)

-----------------------------------------------------------------------------
(* The environment.                                                        *)

Connect(s) ==
    /\ s \in open \ clients
    /\ clients' = clients \cup {s}
    /\ UNCHANGED <<hostVars, runVars, taken, fixed>>

\* A client goes.  The one that asked for the reload waits for its answer.
Leave(s) ==
    /\ s \in clients /\ (selfReload /\ s = "old" => phase = "done")
    /\ clients' = clients \ {s}
    /\ UNCHANGED <<hostVars, runVars, taken, fixed>>

TakePort(a) ==
    /\ phase # "done" /\ Free(a)
    /\ taken' = taken \cup {a}
    /\ UNCHANGED <<hostVars, runVars, clients, fixed>>

FreePort(a) ==
    /\ phase # "done" /\ a \in taken
    /\ taken' = taken \ {a}
    /\ UNCHANGED <<hostVars, runVars, clients, fixed>>

AdapterStep ==
    \/ Prepare \/ PrepareFails
    \/ CommitInPlace \/ CommitNotStarted \/ CommitDisable \/ CommitReplace
    \/ CandidateStarts \/ CandidateFails \/ OldStopped
    \/ RollbackInPlace \/ RollbackReplaced \/ RollbackCandidateStopped
    \/ OldRestarts \/ OldRestartFails
    \/ EndpointCleanup \/ CleanupCandidateStopped

ExecutorStep ==
    \/ CommitReturns \/ CommitThrew \/ CommitTimesOut
    \/ OtherFails \/ OthersCommit \/ RollbackEnds \/ CleanupEnds

EndpointNext ==
    \/ AdapterStep
    \/ ExecutorStep
    \/ \E s \in Servers : Connect(s) \/ Leave(s)
    \/ \E a \in Addrs : TakePort(a) \/ FreePort(a)

EndpointSpec == EndpointInit /\ [][EndpointNext]_endpointVars

\* The event loop runs what is ready and its timers fire.
EndpointFairSpec == EndpointSpec /\ WF_endpointVars(AdapterStep) /\ WF_endpointVars(ExecutorStep)

-----------------------------------------------------------------------------
(* Properties.                                                             *)

\* The reload is over, and so is every operation it has left behind.
Quiet == phase = "done" /\ \A op \in DOMAIN pc : pc[op] \in {"idle", "returned", "threw"}

Serves(s, c) == cfg[s] = c /\ (s \in open <=> started /\ c.enabled)

\* The deadline cut commit off while it waited for the old server: the
\* component is not in committedEntries and nobody calls its rollback.
CommitAbandoned ==
    /\ outcome = "rolled_back" /\ pc["rollback"] = "idle"
    /\ pc["commit"] \in {"stop_old", "returned"}

OldServesAgain == current = "old" /\ (Serves("old", oldCfg) \/ pc["rollback"] = "threw")

\* After a reload that failed, the endpoint is the old one with its old
\* configuration and it listens as before, unless its own restart failed
\* because another process has taken the address meanwhile.
OldEndpointRestored == Quiet /\ outcome = "rolled_back" => OldServesAgain

\* The variables keep their types, and once the reload and every operation it
\* left behind are over, the endpoint is
\* what the outcome says: the new configuration's after a success, the old one
\* after a failure (a commit cut off by its deadline excepted, which
\* OldEndpointRestored is about), and no listener is left that the engine does
\* not know of and so could not stop.
EndpointSettles ==
    /\ EndpointTypeOK
    /\ Quiet =>
          /\ outcome = "committed" => Serves(current, nextCfg)
          /\ outcome = "rolled_back" /\ ~CommitAbandoned => OldServesAgain
          /\ open \subseteq {current}

\* Replacing an endpoint by another never leaves a moment without one, until
\* some failure calls for recovery.
ReplaceKeepsServing ==
    /\ started /\ oldCfg.enabled /\ nextCfg.enabled
    /\ outcome = "running"
    => open # {}

\* The transaction ends although a client keeps its connection, and although
\* the client may be the one waiting for the reload to answer.
ReloadEnds == <>(phase = "done")
=============================================================================
