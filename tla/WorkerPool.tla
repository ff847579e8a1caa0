------------------------------ MODULE WorkerPool ------------------------------
(***************************************************************************)
(* workers/workerPool.ts and workerEntry.ts: tasks sent round robin to     *)
(* threads that may crash.  A crashed thread stays in the list and goes on *)
(* being picked; its tasks end by their timers.                            *)
(***************************************************************************)
EXTENDS Naturals, Sequences, FiniteSets

CONSTANTS
    Threads,    \* a bound on the threads created, 1..n
    PoolSize,   \* config.size
    Tasks       \* a bound on the calls of run(), 1..n

VARIABLES
    workers,    \* the list of threads
    thread,     \* per thread: "none", "running", "crashed", "terminated"
    task,       \* per task: the thread it was posted to and its state
    results,    \* tasks whose response is on its way
    nextWorkerIndex,
    poolStarted,
    stopping    \* the threads stop() waits for

poolVars == <<workers, thread, task, results, nextWorkerIndex, poolStarted, stopping>>

PendingTask(t) == task[t].state = "pending"
NextTask == Cardinality({t \in Tasks : task[t].state # "idle"}) + 1

PoolInit ==
    /\ workers = <<>> /\ thread = [w \in Threads |-> "none"]
    /\ task = [t \in Tasks |-> [to |-> 0, state |-> "idle"]]
    /\ results = {} /\ nextWorkerIndex = 0 /\ poolStarted = FALSE /\ stopping = {}

\* The threads start() creates, after those there were before.
Created ==
    LET old == Cardinality({w \in Threads : thread[w] # "none"})
    IN [i \in 1..PoolSize |-> old + i]

CanCreate == \A i \in 1..PoolSize : Created[i] \in Threads

WithCreated == [w \in Threads |-> IF \E i \in 1..PoolSize : Created[i] = w THEN "running" ELSE thread[w]]

startPool ==
    /\ ~poolStarted /\ CanCreate
    /\ workers' = workers \o Created
    /\ thread' = WithCreated
    /\ poolStarted' = TRUE
    /\ UNCHANGED <<task, results, nextWorkerIndex, stopping>>

\* run() of a pool that was never started, or was stopped, starts it.
runTask(t) ==
    LET list == IF poolStarted THEN workers ELSE workers \o Created
        w == list[(nextWorkerIndex % Len(list)) + 1]
    IN /\ t = NextTask
       /\ ~poolStarted => CanCreate
       /\ list # <<>>
       /\ workers' = list
       /\ thread' = IF poolStarted THEN thread ELSE WithCreated
       /\ poolStarted' = TRUE
       /\ nextWorkerIndex' = nextWorkerIndex + 1
       /\ task' = [task EXCEPT ![t] = [to |-> w, state |-> "pending"]]
       /\ UNCHANGED <<results, stopping>>

\* pickWorker throws while stop() waits for the threads it took out.
runRejected(t) ==
    /\ t = NextTask /\ t \in Tasks
    /\ poolStarted /\ workers = <<>>
    /\ task' = [task EXCEPT ![t].state = "rejected"]
    /\ UNCHANGED <<workers, thread, results, nextWorkerIndex, poolStarted, stopping>>

\* workerEntry.ts
ThreadResponds(t) ==
    /\ PendingTask(t) /\ thread[task[t].to] = "running" /\ t \notin results
    /\ results' = results \union {t}
    /\ UNCHANGED <<workers, thread, task, nextWorkerIndex, poolStarted, stopping>>

ThreadCrashes(w) ==
    /\ thread[w] = "running"
    /\ thread' = [thread EXCEPT ![w] = "crashed"]
    /\ UNCHANGED <<workers, task, results, nextWorkerIndex, poolStarted, stopping>>

handleMessage(t) ==
    /\ t \in results
    /\ results' = results \ {t}
    /\ task' = IF PendingTask(t) THEN [task EXCEPT ![t].state = "done"] ELSE task
    /\ UNCHANGED <<workers, thread, nextWorkerIndex, poolStarted, stopping>>

TaskTimesOut(t) ==
    /\ PendingTask(t)
    /\ task' = [task EXCEPT ![t].state = "rejected"]
    /\ UNCHANGED <<workers, thread, results, nextWorkerIndex, poolStarted, stopping>>

stopPool ==
    /\ stopping = {} /\ workers # <<>>
    /\ task' = [t \in Tasks |-> IF PendingTask(t) THEN [task[t] EXCEPT !.state = "rejected"] ELSE task[t]]
    /\ stopping' = {workers[i] : i \in DOMAIN workers}
    /\ workers' = <<>>
    /\ UNCHANGED <<thread, results, nextWorkerIndex, poolStarted>>

stopPoolDone ==
    /\ stopping # {}
    /\ thread' = [w \in Threads |-> IF w \in stopping /\ thread[w] = "running" THEN "terminated" ELSE thread[w]]
    /\ stopping' = {}
    /\ poolStarted' = FALSE
    /\ UNCHANGED <<workers, task, results, nextWorkerIndex>>

PoolNext ==
    \/ startPool \/ stopPool \/ stopPoolDone
    \/ \E t \in Tasks : runTask(t) \/ runRejected(t) \/ ThreadResponds(t) \/ handleMessage(t) \/ TaskTimesOut(t)
    \/ \E w \in Threads : ThreadCrashes(w)

\* Timers fire and terminate() is answered; a thread need not respond.
PoolFairness == \A t \in Tasks : WF_poolVars(TaskTimesOut(t))
=============================================================================
