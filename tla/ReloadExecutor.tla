--------------------------- MODULE ReloadExecutor ---------------------------
(***************************************************************************)
(* One run of ReloadExecutor.execute() (src/reload/executor.ts) over an    *)
(* ordered list of components 1..N, each operation going through           *)
(* executeReloadOperation (src/reload/contract.ts).                        *)
(*                                                                         *)
(* executeReloadOperation races the operation against a timer and an abort *)
(* signal.  When it loses, the operation is not stopped: it runs on and    *)
(* takes effect later ("late" below).  Only components that wait for real  *)
(* I/O (Slow) can lose the race; the others finish in the microtasks of    *)
(* the step that called them.                                              *)
(*                                                                         *)
(* A component is what the ReloadableComponent contract makes of it: a     *)
(* live generation, switched by commit and switched back by rollback, and  *)
(* the resources of the candidate, held from prepare to cleanup.           *)
(***************************************************************************)
EXTENDS Integers, FiniteSets

CONSTANTS
    N,             \* number of changed components
    Slow           \* the components that wait for I/O (metrics, dashboard)

ASSUME ExecutorAssumption == N \in Nat /\ Slow \subseteq 1 .. N

Components == 1 .. N

VARIABLES
    state,         \* ReloadTransactionModel.state
    phase,         \* the run... method the executor is in
    todo,          \* entries the current phase has still to visit
    running,       \* an operation on the next entry is in flight
    expired,       \* the transaction's deadline has passed or it was aborted
    prepared,      \* preparedEntries
    committed,     \* committedEntries
    failureStage,  \* primaryFailureStage
    errors,        \* componentErrors, as pairs of stage and component
    live,          \* component -> the generation it runs
    resource,      \* component -> the candidate's resources
    late           \* operations that lost their race and are still running

txnVars == <<state, phase, todo, prepared, committed, failureStage, errors>>
compVars == <<live, resource>>
vars == <<txnVars, compVars, running, expired, late>>

Forward == {"prepare", "health", "commit"}
Recovery == {"rollback", "cleanup"}
Operations == Forward \cup Recovery
States == {"idle", "parsing", "validating", "preparing", "prepared", "committing",
           "committed", "rolling_back", "rolled_back", "failed"}
Phases == Operations \cup {"start", "parse", "validate", "done"}

TypeOK ==
    /\ state \in States
    /\ phase \in Phases
    /\ todo \in SUBSET Components
    /\ running \in BOOLEAN
    /\ expired \in BOOLEAN
    /\ prepared \in SUBSET Components
    /\ committed \in SUBSET Components
    /\ failureStage \in Forward \cup {"none", "parse", "validate"}
    /\ errors \in SUBSET (Operations \X Components)
    /\ live \in [Components -> {"old", "new"}]
    /\ resource \in [Components -> {"none", "held", "released"}]
    /\ late \in SUBSET (Operations \X Slow)

Init ==
    /\ state = "idle" /\ phase = "start"
    /\ todo = {} /\ prepared = {} /\ committed = {}
    /\ running = FALSE /\ expired = FALSE
    /\ failureStage = "none" /\ errors = {}
    /\ live = [c \in Components |-> "old"]
    /\ resource = [c \in Components |-> "none"]
    /\ late = {}

-----------------------------------------------------------------------------
(* Components.                                                             *)

\* Mutant of Effect: the health check closes the candidate it has probed.
EffectReleasesEarly(op, c) ==
    /\ live' = CASE op = "commit" -> [live EXCEPT ![c] = "new"]
                 [] op = "rollback" -> [live EXCEPT ![c] = "old"]
                 [] OTHER -> live
    /\ resource' = CASE op = "prepare" -> [resource EXCEPT ![c] = "held"]
                     [] op \in {"health", "cleanup"} -> [resource EXCEPT ![c] = "released"]
                     [] OTHER -> resource

\* What a completed operation does to its component.
Effect(op, c) ==
    /\ live' = CASE op = "commit" -> [live EXCEPT ![c] = "new"]
                 [] op = "rollback" -> [live EXCEPT ![c] = "old"]
                 [] OTHER -> live
    /\ resource' = CASE op = "prepare" -> [resource EXCEPT ![c] = "held"]
                     [] op = "cleanup" -> [resource EXCEPT ![c] = "released"]
                     [] OTHER -> resource

\* An abandoned operation runs to its end, in effect or in an error nobody
\* sees.
LateEffect(op, c) ==
    /\ <<op, c>> \in late
    /\ late' = late \ {<<op, c>>}
    /\ Effect(op, c)
    /\ UNCHANGED <<txnVars, running, expired>>

LateReject(op, c) ==
    /\ <<op, c>> \in late
    /\ late' = late \ {<<op, c>>}
    /\ UNCHANGED <<txnVars, compVars, running, expired>>

-----------------------------------------------------------------------------
(* Phases.                                                                 *)

\* The entry the phase visits next: in order, or in reverse for recovery.
IsCurrent(c) ==
    /\ c \in todo
    /\ \A d \in todo : IF phase \in Forward THEN c <= d ELSE c >= d

\* Mutant of Enter: phase and state are mixed up.
EnterSwapped(p, s, entries) == phase' = s /\ state' = p /\ todo' = entries

Enter(p, s, entries) == phase' = p /\ state' = s /\ todo' = entries

\* execute() up to the first await.
Start ==
    /\ phase = "start"
    /\ Enter("parse", "parsing", {})
    /\ UNCHANGED <<prepared, committed, failureStage, errors, compVars, running,
                   expired, late>>

\* runSimplePhase succeeds.
SimplePhaseDone ==
    /\ phase \in {"parse", "validate"} /\ ~expired
    /\ IF phase = "parse" THEN Enter("validate", "validating", {})
       ELSE Enter("prepare", "preparing", Components)
    /\ UNCHANGED <<prepared, committed, failureStage, errors, compVars, running,
                   expired, late>>

\* Mutant of SimplePhaseFails: a rollback is reported although nothing ran.
SimplePhaseRollsBack ==
    /\ phase \in {"parse", "validate"}
    /\ failureStage' = phase
    /\ Enter("cleanup", "rolled_back", prepared)
    /\ UNCHANGED <<prepared, committed, errors, compVars, running, expired, late>>

\* runSimplePhase throws: no component has run, straight to cleanup.
SimplePhaseFails ==
    /\ phase \in {"parse", "validate"}
    /\ failureStage' = phase
    /\ Enter("cleanup", "failed", prepared)
    /\ UNCHANGED <<prepared, committed, errors, compVars, running, expired, late>>

\* Mutant of PhaseDone: cleanup visits the committed entries only.
PhaseDoneCleansCommitted ==
    /\ todo = {} /\ ~running
    /\ \/ phase = "prepare"  /\ Enter("health", "prepared", prepared)
       \/ phase = "health"   /\ Enter("commit", "committing", prepared)
       \/ phase = "commit"   /\ Enter("cleanup", "committed", committed)
       \/ phase = "rollback" /\ Enter("cleanup", "rolled_back", committed)
       \/ phase = "cleanup"  /\ Enter("done", state, {})
    /\ UNCHANGED <<prepared, committed, failureStage, errors, compVars, running,
                   expired, late>>

\* The loop of a phase is over; execute() moves the transaction on.
PhaseDone ==
    /\ todo = {} /\ ~running
    /\ \/ phase = "prepare"  /\ Enter("health", "prepared", prepared)
       \/ phase = "health"   /\ Enter("commit", "committing", prepared)
       \/ phase = "commit"   /\ Enter("cleanup", "committed", prepared)
       \/ phase = "rollback" /\ Enter("cleanup", "rolled_back", prepared)
       \/ phase = "cleanup"  /\ Enter("done", state, {})
    /\ UNCHANGED <<prepared, committed, failureStage, errors, compVars, running,
                   expired, late>>

\* Mutant of Failed: recovery tries the same entry again.
FailedRetries(c) ==
    /\ errors' = errors \cup {<<phase, c>>}
    /\ IF phase \in Forward
       THEN /\ failureStage' = phase
            /\ Enter("rollback", "rolling_back",
                     IF phase = "commit" THEN committed ELSE prepared)
       ELSE UNCHANGED <<state, phase, failureStage, todo>>

\* The operation on c failed.  A forward phase gives up: fail() and
\* runRollback over the committed entries after a commit failure, over the
\* prepared ones otherwise.  A recovery phase notes the error and goes on.
Failed(c) ==
    /\ errors' = errors \cup {<<phase, c>>}
    /\ IF phase \in Forward
       THEN /\ failureStage' = phase
            /\ Enter("rollback", "rolling_back",
                     IF phase = "commit" THEN committed ELSE prepared)
       ELSE /\ todo' = todo \ {c}
            /\ UNCHANGED <<state, phase, failureStage>>

-----------------------------------------------------------------------------
(* executeReloadOperation.                                                 *)

\* The deadline passes, or the caller aborts, between two operations.
Expire ==
    /\ phase \in Forward \cup {"parse", "validate"} /\ ~running /\ ~expired
    /\ expired' = TRUE
    /\ UNCHANGED <<txnVars, compVars, running, late>>

\* A forward operation is refused before it starts.
Refuse(c) ==
    /\ phase \in Forward /\ expired /\ ~running /\ IsCurrent(c)
    /\ Failed(c)
    /\ UNCHANGED <<prepared, committed, compVars, running, expired, late>>

\* The operation is called.  Recovery has a fresh deadline and signal.
Run(c) ==
    /\ phase \in Operations /\ ~running /\ IsCurrent(c)
    /\ phase \in Forward => ~expired
    /\ running' = TRUE
    /\ UNCHANGED <<txnVars, compVars, expired, late>>

\* Mutant of Complete: the component is not entered in committedEntries.
CompleteForgetsCommit(c) ==
    /\ running /\ IsCurrent(c)
    /\ Effect(phase, c)
    /\ prepared' = IF phase = "prepare" THEN prepared \cup {c} ELSE prepared
    /\ todo' = todo \ {c}
    /\ running' = FALSE
    /\ UNCHANGED <<state, phase, committed, failureStage, errors, expired, late>>

\* The operation resolves in time.
Complete(c) ==
    /\ running /\ IsCurrent(c)
    /\ Effect(phase, c)
    /\ prepared' = IF phase = "prepare" THEN prepared \cup {c} ELSE prepared
    /\ committed' = IF phase = "commit" THEN committed \cup {c} ELSE committed
    /\ todo' = todo \ {c}
    /\ running' = FALSE
    /\ UNCHANGED <<state, phase, failureStage, errors, expired, late>>

\* The operation rejects in time; a commit that rejects has restored itself.
Reject(c) ==
    /\ running /\ IsCurrent(c)
    /\ Failed(c)
    /\ running' = FALSE
    /\ UNCHANGED <<prepared, committed, compVars, expired, late>>

\* The timer or the abort signal wins the race; the operation runs on.
Timeout(c) ==
    /\ running /\ IsCurrent(c) /\ c \in Slow
    /\ Failed(c)
    /\ running' = FALSE
    /\ expired' = (expired \/ phase \in Forward)
    /\ late' = late \cup {<<phase, c>>}
    /\ UNCHANGED <<prepared, committed, compVars>>

-----------------------------------------------------------------------------
Done == phase = "done" /\ UNCHANGED vars

\* The executor's own code, which never waits for a component ...
ExecutorStep ==
    \/ Start
    \/ SimplePhaseDone
    \/ SimplePhaseFails
    \/ PhaseDone
    \/ \E c \in Components : Refuse(c) \/ Run(c)
\* ... what ends an operation without I/O ...
Settle == \E c \in Components \ Slow : Complete(c) \/ Reject(c)
\* ... and the timer of one with I/O.
TimerFires == \E c \in Components : Timeout(c)

Next ==
    \/ Start
    \/ SimplePhaseDone
    \/ SimplePhaseFails
    \/ PhaseDone
    \/ Expire
    \/ \E c \in Components : Refuse(c)
    \/ \E c \in Components : Run(c)
    \/ \E c \in Components : Complete(c)
    \/ \E c \in Components : Reject(c)
    \/ \E c \in Components : Timeout(c)
    \/ \E op \in Operations, c \in Slow : LateEffect(op, c)
    \/ \E op \in Operations, c \in Slow : LateReject(op, c)
    \/ Done

Spec == Init /\ [][Next]_vars

\* An operation that waits for I/O may hang for ever: no fairness for it.
FairSpec == Spec /\ WF_vars(ExecutorStep) /\ WF_vars(Settle) /\ WF_vars(TimerFires)

-----------------------------------------------------------------------------
(* Properties.                                                             *)

Finished == phase = "done"

\* All or nothing, up to what the result reports: a committed reload has
\* switched every component, and after a failed one a component still runs
\* the candidate only if the result blames that component, for a commit that
\* was abandoned or for a rollback that failed.
AtomicOutcome ==
    Finished =>
        IF state = "committed"
        THEN \A c \in Components : live[c] = "new"
        ELSE \A c \in Components : live[c] = "new" =>
                 \/ <<"rollback", c>> \in errors
                 \/ <<"commit", c>> \in errors /\ c \in Slow

\* No component is switched before every component has been prepared and has
\* passed its health check.
PreparedBeforeCommit ==
    (\E c \in Components : live[c] = "new") =>
        /\ prepared = Components
        /\ \A c \in Components : <<"prepare", c>> \notin errors /\ <<"health", c>> \notin errors

\* All or nothing: no component switches before all are ready, and in the end
\* all have switched or none has, except where the result blames one
\* (ReloadExecutor.execute).
AtomicSwitch == AtomicOutcome /\ PreparedBeforeCommit

\* Nothing the candidate acquired is kept after the transaction without an
\* error in the result: every prepared component has been cleaned up, and a
\* resource outside preparedEntries belongs to an abandoned prepare.
ResourcesReleased ==
    Finished => \A c \in Components : resource[c] = "held" =>
                    \/ <<"cleanup", c>> \in errors
                    \/ <<"prepare", c>> \in errors /\ c \in Slow

\* Once its candidate has been released, a component that does no I/O never
\* changes generation again: cleanup is the last thing that happens to it.
NoSwitchAfterRelease ==
    [][\A c \in Components \ Slow :
          resource[c] = "released" => live'[c] = live[c]]_vars

\* The executor only moves the transaction along the table of generation.ts,
\* so transition() never throws inside execute().
Txn == INSTANCE ReloadTransaction WITH state <- state
FollowsTransitionTable == Txn!Spec

\* execute() returns whatever the components' I/O does: operations that hang
\* are cut off by their timer.
ExecuteReturns == <>Finished
=============================================================================
