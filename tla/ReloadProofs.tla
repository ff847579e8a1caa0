---------------------------- MODULE ReloadProofs ----------------------------
(***************************************************************************)
(* The safety of a reload from file to commit: a transaction of any number *)
(* of components, and the loading, parsing, comparing and planning of any  *)
(* files the schema can be given.                                          *)
(***************************************************************************)
EXTENDS ReloadExecutor, ReloadPlan, SequenceTheorems, FiniteSetTheorems,
        WellFoundedInduction, TLAPS

-----------------------------------------------------------------------------
(* The transaction.                                                        *)
Early == {"start", "parse", "validate"}
Ending == {"cleanup", "done"}

\* The transaction state belongs to the executor's phase.
StateOfPhase ==
    /\ phase = "start" => state = "idle"
    /\ phase = "parse" => state = "parsing"
    /\ phase = "validate" => state = "validating"
    /\ phase = "prepare" => state = "preparing"
    /\ phase = "health" => state = "prepared"
    /\ phase = "commit" => state = "committing"
    /\ phase = "rollback" => state = "rolling_back"
    /\ phase \in Ending => state \in {"committed", "rolled_back", "failed"}

\* What preparedEntries and committedEntries hold in each phase.
Entries ==
    /\ phase \notin Operations => todo = {}
    /\ phase \in Early \/ state = "failed" => prepared = {} /\ errors = {}
    /\ phase = "prepare" => prepared = Components \ todo
    /\ phase \in {"health", "commit"} \/ state = "committed" => prepared = Components
    /\ phase \in Early \cup {"prepare", "health"} => committed = {}
    /\ phase = "commit" => committed = Components \ todo
    /\ state = "committed" => committed = Components
    /\ committed \subseteq prepared
    /\ phase \in Recovery => todo \subseteq prepared
    /\ \A c \in committed : prepared = Components

\* Where an error of each stage can be on record, and what it rules out.
ErrorsOnRecord ==
    /\ \A op \in Forward, c \in Components :
          <<op, c>> \in errors => state \in {"rolling_back", "rolled_back"}
    /\ \A c \in Components :
          /\ <<"rollback", c>> \in errors => state \in {"rolling_back", "rolled_back"}
          /\ <<"cleanup", c>> \in errors => phase \in Ending
          /\ <<"commit", c>> \in errors => prepared = Components
    /\ \A op \in {"prepare", "health"}, c \in Components :
          <<op, c>> \in errors =>
              committed = {} /\ \A d \in Components : <<"commit", d>> \notin errors

\* An abandoned operation has been reported.
LateReported == late \subseteq errors

\* Who runs the candidate.
LiveInv ==
    /\ \A c \in Components : live[c] = "new" =>
          c \in committed \/ (<<"commit", c>> \in errors /\ c \in Slow)
    /\ \A c \in Components :
          live[c] = "new" /\ state \in {"rolling_back", "rolled_back"} =>
              \/ <<"commit", c>> \in errors /\ c \in Slow
              \/ <<"rollback", c>> \in errors
              \/ phase = "rollback" /\ c \in todo
    /\ phase = "commit" \/ state = "committed" =>
          \A c \in committed : live[c] = "new"

\* Who holds resources.
ResourceInv ==
    /\ \A c \in Components : resource[c] = "held" =>
          c \in prepared \/ (<<"prepare", c>> \in errors /\ c \in Slow)
    /\ \A c \in Components : phase \in Ending /\ resource[c] = "held" /\ c \notin todo =>
          \/ <<"cleanup", c>> \in errors
          \/ <<"prepare", c>> \in errors /\ c \in Slow
    /\ \A c \in Components : resource[c] = "released" => phase \in Ending

IInv ==
    /\ TypeOK
    /\ StateOfPhase
    /\ Entries
    /\ ErrorsOnRecord
    /\ LateReported
    /\ LiveInv
    /\ ResourceInv

-----------------------------------------------------------------------------
(* The invariant.                                                          *)

LEMMA InitInv == Init => IInv
BY ExecutorAssumption, Zenon DEF Init, IInv, TypeOK, StateOfPhase, Entries, ErrorsOnRecord, LateReported,
   LiveInv, ResourceInv, Early, Ending, States, Phases, Operations, Forward, Recovery,
   Components

(* A failed operation, whether it was refused, rejected or cut off.        *)
LEMMA FailedInv ==
    ASSUME IInv, NEW c \in Components, phase \in Operations, IsCurrent(c), Failed(c),
           UNCHANGED <<prepared, committed, live, resource>>,
           running' \in BOOLEAN, expired' \in BOOLEAN,
           late' = late \/ (late' = late \cup {<<phase, c>>} /\ c \in Slow)
    PROVE  IInv'
<1> USE ExecutorAssumption DEF IInv, Early, Ending, Operations, Forward, Recovery, Components
<1>0. c \in todo
  BY DEF IsCurrent
<1>1. TypeOK'
  <2>1. errors' \in SUBSET (Operations \X Components)
    BY <1>0 DEF TypeOK, Failed
  <2>2. late' \in SUBSET (Operations \X Slow)
    BY DEF TypeOK
  <2>3. state' \in States /\ phase' \in Phases /\ todo' \in SUBSET Components
        /\ failureStage' \in Forward \cup {"none", "parse", "validate"}
    BY <1>0, Zenon DEF TypeOK, Failed, Enter, States, Phases
  <2> QED BY <2>1, <2>2, <2>3 DEF TypeOK
<1>2. LateReported'
  BY DEF LateReported, Failed
<1>3. CASE phase \in Forward
  <2>1. /\ errors' = errors \cup {<<phase, c>>} /\ phase' = "rollback"
        /\ state' = "rolling_back"
        /\ todo' = IF phase = "commit" THEN committed ELSE prepared
    BY <1>3 DEF Failed, Enter
  <2>2. StateOfPhase' /\ Entries'
    BY <1>3, <2>1 DEF StateOfPhase, Entries, TypeOK
  <2>3. ErrorsOnRecord'
    BY <1>0, <1>3, <2>1, Zenon DEF ErrorsOnRecord, Entries, StateOfPhase, TypeOK
  <2>4. LiveInv'
    BY <1>0, <1>3, <2>1 DEF ErrorsOnRecord, LiveInv, Entries, StateOfPhase, TypeOK
  <2>5. ResourceInv'
    BY <1>0, <1>3, <2>1 DEF ResourceInv, Entries, StateOfPhase, TypeOK
  <2> QED BY <1>1, <1>2, <2>2, <2>3, <2>4, <2>5
<1>4. CASE phase \in Recovery
  <2>1. /\ errors' = errors \cup {<<phase, c>>} /\ phase' = phase /\ state' = state
        /\ todo' = todo \ {c}
    BY <1>4 DEF Failed
  <2>2. StateOfPhase' /\ Entries'
    BY <1>0, <1>4, <2>1 DEF StateOfPhase, Entries, TypeOK
  <2>3. ErrorsOnRecord'
    BY <1>0, <1>4, <2>1 DEF ErrorsOnRecord, Entries, StateOfPhase, TypeOK
  <2>4. LiveInv'
    BY <1>0, <1>4, <2>1 DEF ErrorsOnRecord, LiveInv, Entries, StateOfPhase, TypeOK
  <2>5. ResourceInv'
    BY <1>0, <1>4, <2>1 DEF ResourceInv, Entries, StateOfPhase, TypeOK
  <2> QED BY <1>1, <1>2, <2>2, <2>3, <2>4, <2>5
<1> QED BY <1>3, <1>4

(* An operation that succeeds in time.                                     *)
LEMMA CompleteInv ==
    ASSUME IInv, NEW c \in Components, Complete(c)
    PROVE  IInv'
<1> USE ExecutorAssumption DEF IInv, Early, Ending, Operations, Forward, Recovery, Components
<1>0. c \in todo /\ phase \in Operations
  BY DEF Complete, IsCurrent, Entries
<1>1. TypeOK'
  BY <1>0, Zenon DEF TypeOK, Complete, Effect, States, Phases
<1>2. StateOfPhase' /\ Entries'
  BY <1>0 DEF StateOfPhase, Entries, Complete, TypeOK
<1>3. ErrorsOnRecord' /\ LateReported'
  BY <1>0 DEF ErrorsOnRecord, LateReported, Complete, StateOfPhase, Entries, TypeOK
<1>4. LiveInv'
  <2>1. CASE phase = "commit"
    <3>1. live' = [live EXCEPT ![c] = "new"] /\ committed' = committed \cup {c}
      BY <2>1 DEF Complete, Effect
    <3> QED BY <2>1, <3>1 DEF Complete, LiveInv, StateOfPhase, TypeOK
  <2>2. CASE phase = "rollback"
    <3>1. live' = [live EXCEPT ![c] = "old"] /\ committed' = committed
      BY <2>2 DEF Complete, Effect
    <3> QED BY <2>2, <3>1 DEF Complete, LiveInv, StateOfPhase, TypeOK
  <2>3. CASE phase \notin {"commit", "rollback"}
    <3>1. live' = live /\ committed' = committed
      BY <2>3, <1>0 DEF Complete, Effect
    <3> QED BY <1>0, <2>3, <3>1 DEF Complete, LiveInv, StateOfPhase, TypeOK
  <2> QED BY <2>1, <2>2, <2>3
<1>5. ResourceInv'
  <2>1. CASE phase = "prepare"
    <3>1. resource' = [resource EXCEPT ![c] = "held"] /\ prepared' = prepared \cup {c}
      BY <2>1 DEF Complete, Effect
    <3> QED BY <2>1, <3>1 DEF Complete, ResourceInv, TypeOK
  <2>2. CASE phase = "cleanup"
    <3>1. resource' = [resource EXCEPT ![c] = "released"] /\ prepared' = prepared
      BY <2>2 DEF Complete, Effect
    <3> QED BY <2>2, <3>1 DEF Complete, ResourceInv, TypeOK
  <2>3. CASE phase \notin {"prepare", "cleanup"}
    <3>1. resource' = resource /\ prepared' = prepared
      BY <2>3, <1>0 DEF Complete, Effect
    <3> QED BY <1>0, <2>3, <3>1 DEF Complete, ResourceInv, TypeOK
  <2> QED BY <2>1, <2>2, <2>3
<1> QED BY <1>1, <1>2, <1>3, <1>4, <1>5

(* An operation that ends after the executor gave up on it.                *)
LEMMA LateInv ==
    ASSUME IInv, NEW op \in Operations, NEW c \in Slow,
           LateEffect(op, c) \/ LateReject(op, c)
    PROVE  IInv'
<1> USE ExecutorAssumption DEF IInv, Early, Ending, Operations, Forward, Recovery, Components
<1>0. /\ <<op, c>> \in errors /\ c \in Components /\ late' \subseteq late
      /\ UNCHANGED <<state, phase, todo, prepared, committed, failureStage, errors, running,
                     expired>>
  BY DEF LateEffect, LateReject, LateReported, txnVars
<1>1. TypeOK'
  <2>1. live' \in [Components -> {"old", "new"}]
    BY <1>0 DEF TypeOK, LateEffect, LateReject, Effect, compVars
  <2>2. resource' \in [Components -> {"none", "held", "released"}]
    BY <1>0 DEF TypeOK, LateEffect, LateReject, Effect, compVars
  <2> QED BY <1>0, <2>1, <2>2 DEF TypeOK
<1>2. StateOfPhase' /\ Entries' /\ ErrorsOnRecord' /\ LateReported'
  BY <1>0 DEF StateOfPhase, Entries, ErrorsOnRecord, LateReported
<1>3. CASE LateReject(op, c)
  BY <1>0, <1>1, <1>2, <1>3 DEF LateReject, compVars, LiveInv, ResourceInv
<1>4. CASE LateEffect(op, c)
  <2>1. LiveInv'
    <3>1. CASE op = "commit"
      <4>1. live' = [live EXCEPT ![c] = "new"]
        BY <1>4, <3>1 DEF LateEffect, Effect
      <4> QED BY <1>0, <3>1, <4>1 DEF LiveInv, ErrorsOnRecord, StateOfPhase, TypeOK
    <3>2. CASE op = "rollback"
      <4>1. live' = [live EXCEPT ![c] = "old"]
        BY <1>4, <3>2 DEF LateEffect, Effect
      <4> QED BY <1>0, <3>2, <4>1, Zenon DEF LiveInv, ErrorsOnRecord, StateOfPhase, TypeOK
    <3>3. CASE op \notin {"commit", "rollback"}
      <4>1. live' = live
        BY <1>4, <3>3 DEF LateEffect, Effect
      <4> QED BY <1>0, <4>1 DEF LiveInv
    <3> QED BY <3>1, <3>2, <3>3
  <2>2. ResourceInv'
    <3>1. CASE op = "prepare"
      <4>1. resource' = [resource EXCEPT ![c] = "held"]
        BY <1>4, <3>1 DEF LateEffect, Effect
      <4> QED BY <1>0, <3>1, <4>1, Zenon DEF ResourceInv, TypeOK
    <3>2. CASE op = "cleanup"
      <4>1. resource' = [resource EXCEPT ![c] = "released"]
        BY <1>4, <3>2 DEF LateEffect, Effect
      <4> QED BY <1>0, <3>2, <4>1, Zenon DEF ResourceInv, ErrorsOnRecord, TypeOK
    <3>3. CASE op \notin {"prepare", "cleanup"}
      <4>1. resource' = resource
        BY <1>4, <3>3 DEF LateEffect, Effect
      <4> QED BY <1>0, <4>1 DEF ResourceInv
    <3> QED BY <3>1, <3>2, <3>3
  <2> QED BY <1>1, <1>2, <2>1, <2>2
<1> QED BY <1>3, <1>4

LEMMA StepInv == IInv /\ [Next]_vars => IInv'
<1> SUFFICES ASSUME IInv, [Next]_vars
             PROVE  IInv'
    OBVIOUS
<1> USE ExecutorAssumption DEF Early, Ending, Operations, Forward, Recovery, Components
<1> USE DEF IInv
<1>1. CASE Start
  BY <1>1 DEF Start, Enter, compVars, TypeOK, StateOfPhase, Entries, ErrorsOnRecord,
     LateReported, LiveInv, ResourceInv, States, Phases
<1>2. CASE SimplePhaseDone
  BY <1>2, Zenon DEF SimplePhaseDone, Enter, compVars, TypeOK, StateOfPhase, Entries,
     ErrorsOnRecord, LateReported, LiveInv, ResourceInv, States, Phases
<1>3. CASE SimplePhaseFails
  BY <1>3 DEF SimplePhaseFails, Enter, compVars, TypeOK, StateOfPhase, Entries,
     ErrorsOnRecord, LateReported, LiveInv, ResourceInv, States, Phases
<1>4. CASE PhaseDone
  BY <1>4, ZenonT(60) DEF PhaseDone, Enter, compVars, TypeOK, StateOfPhase, Entries,
     ErrorsOnRecord, LateReported, LiveInv, ResourceInv, States, Phases
<1>5. CASE Expire
  BY <1>5 DEF Expire, txnVars, compVars, TypeOK, StateOfPhase, Entries,
     ErrorsOnRecord, LateReported, LiveInv, ResourceInv, States, Phases
<1>6. ASSUME NEW c \in Components, Run(c) PROVE IInv'
  BY <1>6, SMTT(30) DEF Run, txnVars, compVars, TypeOK, StateOfPhase, Entries,
     ErrorsOnRecord, LateReported, LiveInv, ResourceInv, States, Phases
<1>7. ASSUME NEW c \in Components, Refuse(c) PROVE IInv'
  BY <1>7, FailedInv DEF Refuse, compVars, TypeOK
<1>8. ASSUME NEW c \in Components, Complete(c) PROVE IInv'
  BY <1>8, CompleteInv
<1>9. ASSUME NEW c \in Components, Reject(c) PROVE IInv'
  <2>1. phase \in Operations
    BY <1>9 DEF Reject, IsCurrent, Entries
  <2> QED BY <1>9, <2>1, FailedInv, Zenon DEF Reject, compVars, TypeOK
<1>10. ASSUME NEW c \in Components, Timeout(c) PROVE IInv'
  <2>1. phase \in Operations
    BY <1>10 DEF Timeout, IsCurrent, Entries
  <2>2. expired' \in BOOLEAN
    BY <1>10 DEF Timeout, TypeOK
  <2> QED BY <1>10, <2>1, <2>2, FailedInv, Zenon DEF Timeout, compVars
<1>11. ASSUME NEW op \in Operations, NEW c \in Slow, LateEffect(op, c) \/ LateReject(op, c)
       PROVE  IInv'
  BY <1>11, LateInv
<1>12. CASE UNCHANGED vars
  BY <1>12 DEF vars, txnVars, compVars, TypeOK, StateOfPhase, Entries,
     ErrorsOnRecord, LateReported, LiveInv, ResourceInv, States, Phases
<1>13. CASE Done
  BY <1>12, <1>13 DEF Done
<1> HIDE DEF IInv
<1> QED
  BY <1>1, <1>2, <1>3, <1>4, <1>5, <1>6, <1>7, <1>8, <1>9, <1>10, <1>11, <1>12, <1>13 DEF Next

THEOREM Inductive == Spec => []IInv
BY InitInv, StepInv, PTL DEF Spec

-----------------------------------------------------------------------------
(* What the transaction guarantees.                                        *)

\* Every variable keeps its type: in particular no operation is reported
\* under a phase that is not one.
THEOREM TypeCorrect == Spec => []TypeOK
<1>1. IInv => TypeOK
  BY DEF IInv
<1> QED BY <1>1, Inductive, PTL

\* execute() is all or nothing up to the errors it reports: runRollback visits
\* every committed entry, and only an abandoned commit or a failed rollback
\* leaves a component on the candidate.
THEOREM AllOrNothing == Spec => []AtomicOutcome
<1>1. IInv => AtomicOutcome
  BY DEF IInv, TypeOK, AtomicOutcome, Finished, StateOfPhase, Entries, ErrorsOnRecord, LiveInv,
     Early, Ending, Forward, States
<1> QED BY <1>1, Inductive, PTL

\* runCommit starts only after runPrepare and runHealthChecks have succeeded
\* for every component.
THEOREM CommitsLast == Spec => []PreparedBeforeCommit
<1>1. IInv => PreparedBeforeCommit
  BY Zenon DEF IInv, PreparedBeforeCommit, Entries, ErrorsOnRecord, LiveInv, TypeOK, Forward
<1> QED BY <1>1, Inductive, PTL

\* All or nothing: no switch before all are ready, and a result that says what
\* is left switched (execute, runCommit, runRollback).
THEOREM SwitchIsAtomic == Spec => []AtomicSwitch
<1>1. AtomicOutcome /\ PreparedBeforeCommit => AtomicSwitch
  BY DEF AtomicSwitch
<1> QED BY <1>1, AllOrNothing, CommitsLast, PTL

\* runCleanup releases what every prepared entry holds, or reports it.
THEOREM NothingKept == Spec => []ResourcesReleased
<1>1. IInv => ResourcesReleased
  BY DEF IInv, ResourcesReleased, Finished, Entries, ResourceInv, Ending, Operations, Forward,
     Recovery
<1> QED BY <1>1, Inductive, PTL

\* Cleanup is the last thing that happens to a component without I/O.
THEOREM CleanupIsLast == Spec => NoSwitchAfterRelease
<1> DEFINE Stays == \A c \in Components \ Slow :
                        resource[c] = "released" => live'[c] = live[c]
<1>1. ASSUME IInv, Next PROVE [Stays]_vars
  <2> SUFFICES ASSUME NEW c \in Components \ Slow, resource[c] = "released"
               PROVE  live'[c] = live[c]
    OBVIOUS
  <2>1. phase \in Ending
    BY <1>1 DEF IInv, ResourceInv
  <2>2. ASSUME NEW d \in Components, Complete(d) PROVE live' = live
    BY <2>1, <2>2 DEF Complete, Effect, Ending
  <2>3. ASSUME NEW op \in Operations, NEW d \in Slow, LateEffect(op, d)
        PROVE  live'[c] = live[c]
    BY <1>1, <2>3 DEF LateEffect, Effect, IInv, TypeOK
  <2> QED
    BY <1>1, <2>2, <2>3, Zenon DEF Next, Start, SimplePhaseDone, SimplePhaseFails, PhaseDone, Expire,
       Refuse, Run, Reject, Timeout, LateReject, Done, vars, compVars
<1>2. IInv /\ [Next]_vars => [Stays]_vars
  BY <1>1 DEF vars, compVars
<1> QED BY <1>2, Inductive, PTL DEF Spec, NoSwitchAfterRelease

\* The executor implements the transaction state machine of generation.ts:
\* every state it sets is one transition() or fail() allows.
THEOREM ImplementsTransaction == Spec => FollowsTransitionTable
<1>1. Init => Txn!Init
  BY DEF Init, Txn!Init
<1>2. IInv /\ [Next]_vars => [Txn!Next]_state
  <2> SUFFICES ASSUME IInv, Next, state' # state
               PROVE  Txn!Next
    BY DEF vars, txnVars
  <2> USE DEF IInv, StateOfPhase
  <2> USE DEF Txn!Next, Txn!Fail, Txn!Transition, Txn!Transitions, Txn!States, Txn!Terminal
  <2>1. CASE Start
    BY <2>1 DEF Start, Enter
  <2>2. CASE SimplePhaseDone
    BY <2>2 DEF SimplePhaseDone, Enter
  <2>3. CASE SimplePhaseFails
    BY <2>3 DEF SimplePhaseFails, Enter
  <2>4. CASE PhaseDone
    BY <2>4 DEF PhaseDone, Enter
  <2>5. ASSUME NEW c \in Components, Failed(c) PROVE Txn!Next
    BY <2>5 DEF Failed, Enter, Forward
  <2> QED
    BY <2>1, <2>2, <2>3, <2>4, <2>5, Zenon DEF Next, Expire, Refuse, Run, Complete, Reject, Timeout,
       LateEffect, LateReject, Done, vars, txnVars
<1> QED BY <1>1, <1>2, Inductive, PTL DEF Spec, FollowsTransitionTable, Txn!Spec

-----------------------------------------------------------------------------
(* Lists.                                                                  *)

\* A nonempty set of natural numbers has a least element.
LEMMA LeastNatural ==
  ASSUME NEW T \in SUBSET Nat, T # {}
  PROVE  \E x \in T : \A y \in T : x <= y
<1>1. PICK x \in T : \A y \in T : ~ (<<y, x>> \in OpToRel(<, Nat))
  BY NatLessThanWellFounded, WFMin, Zenon
<1>2. \A y \in T : ~ (y < x)
  BY <1>1, Zenon DEF OpToRel
<1> QED BY <1>2

\* Counting up from zero reaches every natural number.
LEMMA Upwards ==
  ASSUME NEW T, 0 \in T, \A n \in Nat : n \in T => n + 1 \in T
  PROVE  Nat \subseteq T
<1> SUFFICES ASSUME Nat \ T # {} PROVE FALSE
  OBVIOUS
<1>1. PICK n \in Nat \ T : \A m \in Nat \ T : n <= m
  BY LeastNatural, Zenon
<1>2. n # 0 /\ n - 1 \in Nat /\ ~(n <= n - 1)
  BY <1>1
<1> QED BY <1>1, <1>2

\* A sequence, by its places.
LEMMA SequenceIs ==
  ASSUME NEW a
  PROVE  IsSequence(a) <=> \E n \in Nat : a = [i \in 1 .. n |-> a[i]]
<1>1. ASSUME IsSequence(a) PROVE \E n \in Nat : a = [i \in 1 .. n |-> a[i]]
  <2>1. a \in Seq(ToSet(a))
    BY <1>1 DEF IsSequence
  <2>2. Len(a) \in Nat /\ a \in [1 .. Len(a) -> ToSet(a)]
    BY <2>1
  <2> QED BY <2>2
<1>2. ASSUME NEW n \in Nat, a = [i \in 1 .. n |-> a[i]] PROVE IsSequence(a)
  <2>1. DOMAIN a = 1 .. n
    BY <1>2
  <2>2. \A i \in 1 .. n : a[i] \in ToSet(a)
    BY <2>1 DEF ToSet
  <2>3. a \in [1 .. n -> ToSet(a)]
    BY <1>2, <2>2
  <2> HIDE <1>2
  <2> QED BY <2>3 DEF IsSequence
<1> QED BY <1>1, <1>2

\* What every sequence has.
LEMMA SequenceHas ==
  ASSUME NEW a, IsSequence(a)
  PROVE  /\ Len(a) \in Nat /\ DOMAIN a = 1 .. Len(a)
         /\ a = [i \in 1 .. Len(a) |-> a[i]]
         /\ \A i \in 1 .. Len(a) : a[i] \in ToSet(a)
         /\ \A x \in ToSet(a) : \E i \in 1 .. Len(a) : x = a[i]
<1>1. a \in Seq(ToSet(a))
  BY DEF IsSequence
<1>2. Len(a) \in Nat /\ a \in [1 .. Len(a) -> ToSet(a)]
  BY <1>1
<1>3. DOMAIN a = 1 .. Len(a)
  BY <1>2
<1> QED BY <1>2, <1>3 DEF ToSet

\* A list computed from another, place by place, is a sequence.
LEMMA MappedSequence ==
  ASSUME NEW n \in Nat, NEW a, a = [i \in 1 .. n |-> a[i]]
  PROVE  IsSequence(a) /\ Len(a) = n
<1>1. IsSequence(a)
  BY SequenceIs
<1>2. DOMAIN a = 1 .. n
  OBVIOUS
<1>3. DOMAIN a = 1 .. Len(a) /\ Len(a) \in Nat
  BY <1>1, SequenceHas
<1> HIDE DEF IsSequence
<1> QED BY <1>1, <1>2, <1>3

\* Lists of equal length with equal members are equal.
LEMMA SameLists ==
  ASSUME NEW a, NEW b, IsSequence(a), IsSequence(b), Len(a) = Len(b),
         \A i \in 1 .. Len(a) : a[i] = b[i]
  PROVE  a = b
<1>1. a = [i \in 1 .. Len(a) |-> a[i]]
  BY SequenceHas
<1>2. b = [i \in 1 .. Len(b) |-> b[i]]
  BY SequenceHas
<1> QED BY <1>1, <1>2

\* The first n steps of the filter.
KeptStep(list, wanted, g, n) ==
  IF n = 0 THEN <<>> ELSE IF list[n] \in wanted THEN Append(g[n - 1], list[n]) ELSE g[n - 1]
\* One that has them.
KeptUpTo(list, wanted, m) == CHOOSE g : g = [n \in 0 .. m |-> KeptStep(list, wanted, g, n)]

\* The filter's recursion has a solution.
LEMMA KeptExists ==
  ASSUME NEW list, NEW wanted, NEW m \in Nat
  PROVE  \E g : g = [n \in 0 .. m |-> KeptStep(list, wanted, g, n)]
<1> DEFINE T == {k \in Nat : \E g : g = [n \in 0 .. k |-> KeptStep(list, wanted, g, n)]}
<1>1. 0 \in T
  <2> DEFINE g == [n \in 0 .. 0 |-> <<>>]
  <2>1. g = [n \in 0 .. 0 |-> KeptStep(list, wanted, g, n)]
    BY DEF KeptStep
  <2> QED BY <2>1
<1>2. ASSUME NEW k \in Nat, k \in T PROVE k + 1 \in T
  <2>1. PICK g : g = [n \in 0 .. k |-> KeptStep(list, wanted, g, n)]
    BY <1>2
  <2> DEFINE h == [n \in 0 .. (k + 1) |-> IF n = k + 1 THEN KeptStep(list, wanted, g, n) ELSE g[n]]
  <2>2. \A n \in 0 .. (k + 1) : n # 0 => n - 1 \in 0 .. k /\ h[n - 1] = g[n - 1]
    OBVIOUS
  <2>3. \A n \in 0 .. (k + 1) : h[n] = KeptStep(list, wanted, g, n)
    BY <2>1
  <2>4. \A n \in 0 .. (k + 1) : KeptStep(list, wanted, h, n) = KeptStep(list, wanted, g, n)
    BY <2>2 DEF KeptStep
  <2> HIDE DEF h
  <2>5. h = [n \in 0 .. (k + 1) |-> KeptStep(list, wanted, h, n)]
    <3>1. h = [n \in 0 .. (k + 1) |-> h[n]]
      BY DEF h
    <3> QED BY <2>3, <2>4, <3>1
  <2> QED BY <2>5
<1>3. Nat \subseteq T
  <2> HIDE DEF T
  <2> QED BY <1>1, <1>2, Upwards
<1> QED BY <1>3

\* The filter is the last step of that recursion.
LEMMA ThoseIs ==
  ASSUME NEW list, NEW wanted
  PROVE  Those(list, wanted) = KeptUpTo(list, wanted, Len(list))[Len(list)]
BY DEF Those, KeptUpTo, KeptStep

\* Two lists of equal length, filtered in step: a and b are what is kept of the
\* first m members of f and of g.
InStep(a, b, f, g, W, m) ==
  /\ IsSequence(a) /\ IsSequence(b) /\ Len(a) = Len(b)
  /\ \E at \in [1 .. Len(a) -> 1 .. m] :
        /\ \A i, j \in 1 .. Len(a) : i # j => at[i] # at[j]
        /\ \A i \in 1 .. Len(a) : a[i] = f[at[i]] /\ b[i] = g[at[i]] /\ f[at[i]] \in W
  /\ \A j \in 1 .. m : f[j] \in W => \E i \in 1 .. Len(a) : a[i] = f[j]
  /\ (\A j \in 1 .. m : f[j] \in W) => Len(a) = m /\ \A i \in 1 .. m : a[i] = f[i]

\* What Append does.
LEMMA Appended ==
  ASSUME NEW a, IsSequence(a), NEW x
  PROVE  /\ IsSequence(Append(a, x)) /\ Len(Append(a, x)) = Len(a) + 1
         /\ Append(a, x)[Len(a) + 1] = x
         /\ \A i \in 1 .. Len(a) : Append(a, x)[i] = a[i]
<1> DEFINE S == ToSet(a) \cup {x}
<1>1. a \in Seq(S) /\ x \in S
  BY DEF IsSequence
<1>2. /\ Append(a, x) \in Seq(S) /\ Len(Append(a, x)) = Len(a) + 1 /\ Len(a) \in Nat
      /\ Append(a, x)[Len(a) + 1] = x
      /\ \A i \in 1 .. Len(a) : Append(a, x)[i] = a[i]
  <2> HIDE DEF S
  <2> QED BY <1>1
<1>3. \E n \in Nat : Append(a, x) = [i \in 1 .. n |-> Append(a, x)[i]]
  <2> DEFINE k == Append(a, x)
  <2>1. k \in Seq(S)
    BY <1>2
  <2> HIDE DEF k, S
  <2>2. Len(k) \in Nat /\ k \in [1 .. Len(k) -> S]
    BY <2>1
  <2>3. k = [i \in 1 .. Len(k) |-> k[i]]
    BY <2>2
  <2> QED BY <2>2, <2>3 DEF k
<1> QED BY <1>2, <1>3, SequenceIs

\* The empty list.
LEMMA EmptyIsSequence == IsSequence(<<>>) /\ Len(<<>>) = 0
BY DEF IsSequence

\* One step of the two filters.
LEMMA InStepNext ==
  ASSUME NEW f, NEW g, NEW W, NEW m \in Nat, NEW a, NEW b, InStep(a, b, f, g, W, m)
  PROVE  InStep(IF f[m + 1] \in W THEN Append(a, f[m + 1]) ELSE a,
                IF f[m + 1] \in W THEN Append(b, g[m + 1]) ELSE b, f, g, W, m + 1)
<1> DEFINE x == f[m + 1]
           y == g[m + 1]
<1>1. PICK at \in [1 .. Len(a) -> 1 .. m] :
         /\ \A i, j \in 1 .. Len(a) : i # j => at[i] # at[j]
         /\ \A i \in 1 .. Len(a) : a[i] = f[at[i]] /\ b[i] = g[at[i]] /\ f[at[i]] \in W
  BY DEF InStep
<1>2. /\ IsSequence(a) /\ IsSequence(b) /\ Len(a) = Len(b)
      /\ \A j \in 1 .. m : f[j] \in W => \E i \in 1 .. Len(a) : a[i] = f[j]
      /\ (\A j \in 1 .. m : f[j] \in W) => Len(a) = m /\ \A i \in 1 .. m : a[i] = f[i]
  BY Zenon DEF InStep
<1>3. Len(a) \in Nat
  BY <1>2, SequenceHas
<1>4. 1 .. (m + 1) = (1 .. m) \cup {m + 1} /\ m + 1 \notin 1 .. m
  OBVIOUS
<1>5. CASE x \in W
  <2> DEFINE k == Append(a, x)
             l == Append(b, y)
             to == [i \in 1 .. (Len(a) + 1) |-> IF i = Len(a) + 1 THEN m + 1 ELSE at[i]]
  <2>1. /\ IsSequence(k) /\ Len(k) = Len(a) + 1 /\ k[Len(a) + 1] = x
        /\ \A i \in 1 .. Len(a) : k[i] = a[i]
    BY <1>2, Appended
  <2>2. /\ IsSequence(l) /\ Len(l) = Len(a) + 1 /\ l[Len(a) + 1] = y
        /\ \A i \in 1 .. Len(a) : l[i] = b[i]
    BY <1>2, Appended
  <2>3. 1 .. Len(k) = (1 .. Len(a)) \cup {Len(a) + 1} /\ Len(a) + 1 \notin 1 .. Len(a)
    BY <1>3, <2>1
  <2>4. /\ to[Len(a) + 1] = m + 1
        /\ \A i \in 1 .. Len(a) : to[i] = at[i] /\ at[i] \in 1 .. m
    BY <1>3
  <2>5. to \in [1 .. Len(k) -> 1 .. (m + 1)]
    BY <1>4, <2>1, <2>4
  <2> HIDE DEF k, l, to, x, y
  <2>6. \A i, j \in 1 .. Len(k) : i # j => to[i] # to[j]
    BY <1>1, <1>4, <2>3, <2>4
  <2>7. \A i \in 1 .. Len(k) : k[i] = f[to[i]] /\ l[i] = g[to[i]] /\ f[to[i]] \in W
    BY <1>1, <1>5, <2>1, <2>2, <2>3, <2>4 DEF x, y
  <2>8. \A j \in 1 .. (m + 1) : f[j] \in W => \E i \in 1 .. Len(k) : k[i] = f[j]
    BY <1>2, <1>4, <2>1, <2>3, Zenon DEF x
  <2>9. (\A j \in 1 .. (m + 1) : f[j] \in W) => Len(k) = m + 1 /\ \A i \in 1 .. (m + 1) : k[i] = f[i]
    BY <1>2, <1>4, <2>1, <2>3 DEF x
  <2>10. InStep(k, l, f, g, W, m + 1)
    BY <2>1, <2>2, <2>5, <2>6, <2>7, <2>8, <2>9, Zenon DEF InStep
  <2> QED BY <1>5, <2>10 DEF k, l, x, y
<1>6. CASE x \notin W
  <2>1. at \in [1 .. Len(a) -> 1 .. (m + 1)]
    BY <1>4
  <2>2. \A j \in 1 .. (m + 1) : f[j] \in W => \E i \in 1 .. Len(a) : a[i] = f[j]
    BY <1>2, <1>4, <1>6
  <2>3. ~ \A j \in 1 .. (m + 1) : f[j] \in W
    BY <1>4, <1>6
  <2>4. InStep(a, b, f, g, W, m + 1)
    BY <1>1, <1>2, <2>1, <2>2, <2>3, Zenon DEF InStep
  <2> QED BY <1>6, <2>4
<1> QED BY <1>5, <1>6

\* Filtering two lists in step.
LEMMA FilteredInStep ==
  ASSUME NEW f, NEW g, IsSequence(f), IsSequence(g), Len(f) = Len(g), NEW W, NEW V,
         \A i \in 1 .. Len(f) : f[i] \in W <=> g[i] \in V
  PROVE  InStep(Those(f, W), Those(g, V), f, g, W, Len(f))
<1> DEFINE n == Len(f)
           F == KeptUpTo(f, W, n)
           G == KeptUpTo(g, V, n)
<1>1. n \in Nat /\ Len(g) = n
  BY SequenceHas
<1>2. F = [j \in 0 .. n |-> KeptStep(f, W, F, j)]
  BY <1>1, KeptExists DEF KeptUpTo
<1>3. G = [j \in 0 .. n |-> KeptStep(g, V, G, j)]
  BY <1>1, KeptExists DEF KeptUpTo
<1>4. Those(f, W) = F[n] /\ Those(g, V) = G[n]
  BY <1>1, ThoseIs
<1> HIDE DEF F, G, n
<1>5. F[0] = <<>> /\ G[0] = <<>>
  BY <1>1, <1>2, <1>3 DEF KeptStep
<1>6. ASSUME NEW m \in Nat, m < n
      PROVE  /\ F[m + 1] = (IF f[m + 1] \in W THEN Append(F[m], f[m + 1]) ELSE F[m])
             /\ G[m + 1] = (IF f[m + 1] \in W THEN Append(G[m], g[m + 1]) ELSE G[m])
  <2>1. m + 1 \in 0 .. n /\ m + 1 \in 1 .. n /\ m + 1 # 0 /\ (m + 1) - 1 = m
    BY <1>1, <1>6
  <2>2. f[m + 1] \in W <=> g[m + 1] \in V
    BY <2>1 DEF n
  <2>3. F[m + 1] = KeptStep(f, W, F, m + 1) /\ G[m + 1] = KeptStep(g, V, G, m + 1)
    BY <1>2, <1>3, <2>1, Zenon
  <2> QED BY <2>1, <2>2, <2>3 DEF KeptStep
<1> DEFINE T == {m \in Nat : m <= n => InStep(F[m], G[m], f, g, W, m)}
<1>7. 0 \in T
  <2> DEFINE at == [i \in 1 .. 0 |-> 0]
  <2>1. InStep(<<>>, <<>>, f, g, W, 0)
    <3>1. at \in [1 .. Len(<<>>) -> 1 .. 0]
      BY EmptyIsSequence
    <3>2. 1 .. Len(<<>>) = {} /\ 1 .. 0 = {}
      BY EmptyIsSequence
    <3> QED BY <3>1, <3>2, EmptyIsSequence, Zenon DEF InStep
  <2> QED BY <1>5, <2>1
<1>8. ASSUME NEW m \in Nat, m \in T PROVE m + 1 \in T
  <2> SUFFICES ASSUME m + 1 <= n PROVE InStep(F[m + 1], G[m + 1], f, g, W, m + 1)
    OBVIOUS
  <2>1. InStep(F[m], G[m], f, g, W, m) /\ m < n
    BY <1>1, <1>8
  <2>2. InStep(IF f[m + 1] \in W THEN Append(F[m], f[m + 1]) ELSE F[m],
               IF f[m + 1] \in W THEN Append(G[m], g[m + 1]) ELSE G[m], f, g, W, m + 1)
    BY <2>1, InStepNext, Zenon
  <2> QED BY <1>6, <2>1, <2>2
<1>9. n \in T
  <2> HIDE DEF T
  <2> QED BY <1>1, <1>7, <1>8, Upwards
<1>10. InStep(F[n], G[n], f, g, W, n)
  BY <1>1, <1>9
<1> QED BY <1>4, <1>10 DEF n

\* What a filter keeps, and in which case it keeps everything.
LEMMA Filtered ==
  ASSUME NEW f, IsSequence(f), NEW W
  PROVE  /\ IsSequence(Those(f, W))
         /\ ToSet(Those(f, W)) = ToSet(f) \cap W
         /\ IsInjective(f) => IsInjective(Those(f, W))
         /\ ToSet(f) \subseteq W => Those(f, W) = f
<1> DEFINE a == Those(f, W)
<1>1. InStep(a, a, f, f, W, Len(f))
  BY FilteredInStep
<1> HIDE DEF a
<1>2. PICK at \in [1 .. Len(a) -> 1 .. Len(f)] :
         /\ \A i, j \in 1 .. Len(a) : i # j => at[i] # at[j]
         /\ \A i \in 1 .. Len(a) : a[i] = f[at[i]] /\ f[at[i]] \in W
  BY <1>1 DEF InStep
<1>3. IsSequence(a)
  BY <1>1 DEF InStep
<1>4. /\ Len(a) \in Nat /\ DOMAIN a = 1 .. Len(a)
      /\ Len(f) \in Nat /\ DOMAIN f = 1 .. Len(f)
  BY <1>3, SequenceHas
<1>5. ToSet(a) = ToSet(f) \cap W
  <2>1. ASSUME NEW i \in 1 .. Len(a) PROVE a[i] \in ToSet(f) \cap W
    <3>1. at[i] \in DOMAIN f
      BY <1>4
    <3> QED BY <1>2, <3>1 DEF ToSet
  <2>2. ASSUME NEW j \in 1 .. Len(f), f[j] \in W PROVE f[j] \in ToSet(a)
    <3>1. PICK i \in 1 .. Len(a) : a[i] = f[j]
      BY <1>1, <2>2 DEF InStep
    <3> QED BY <1>4, <3>1 DEF ToSet
  <2> QED BY <1>4, <2>1, <2>2 DEF ToSet
<1>6. IsInjective(f) => IsInjective(a)
  BY <1>2, <1>4 DEF IsInjective
<1>7. ASSUME ToSet(f) \subseteq W PROVE a = f
  <2>1. \A j \in 1 .. Len(f) : f[j] \in W
    BY <1>4, <1>7 DEF ToSet
  <2>2. Len(a) = Len(f) /\ \A i \in 1 .. Len(f) : a[i] = f[i]
    BY <1>1, <2>1 DEF InStep
  <2> QED BY <1>3, <2>2, SameLists
<1> QED BY <1>3, <1>5, <1>6, <1>7 DEF a

-----------------------------------------------------------------------------
(* The readers of the schema.                                              *)

\* An object and its fields.
LEMMA ObjIs == \A o : Obj(o).t = "obj" /\ Obj(o).o = o
BY DEF Obj

\* A list and its items.
LEMMA ArrIs == \A a : Arr(a).t = "arr" /\ Arr(a).a = a
BY DEF Arr

\* What a reader returns without a complaint.
LEMMA LeafRead ==
  ASSUME NEW f, NEW x, ~IsBad(ReadValue(f, x))
  PROVE  \/ IsUndef(x) /\ ~f.must /\ ReadValue(f, x) = f.def
         \/ ~IsUndef(x) /\ Accepts(f, x) /\ ReadValue(f, x) = Converted(f, x)
BY DEF ReadValue, IsBad, Bad

\* The object a table of leaves reads, and when there is one.
Leaves(x, T) == [k \in DOMAIN T |-> ReadLeaf(x.o, k, T[k])]
\* The same for a table with nested fields.
Nodes(x, T) == [k \in DOMAIN T |-> ReadField(x.o, k, T[k])]

\* An object is made of its fields, or dropped for want of one.
LEMMA AssembledIs ==
  ASSUME NEW T, NEW r, ~IsBad(Assembled(T, r))
  PROVE  /\ \A k \in DOMAIN T : ~IsBad(r[k])
         /\ \/ /\ Assembled(T, r) = Undef
               /\ \E k \in DOMAIN T : T[k].needed /\ IsUndef(r[k])
            \/ /\ Assembled(T, r) = Obj(r)
               /\ \A k \in DOMAIN T : T[k].needed => ~IsUndef(r[k])
BY DEF Assembled, IsBad, Bad

\* An object that is read without a complaint.
LEMMA ObjectRead ==
  ASSUME NEW x, NEW T, ~IsBad(ParseObject(x, T))
  PROVE  /\ isRecord(x)
         /\ \A k \in DOMAIN T : ~IsBad(Leaves(x, T)[k])
         /\ \/ /\ ParseObject(x, T) = Undef
               /\ \E k \in DOMAIN T : T[k].needed /\ IsUndef(Leaves(x, T)[k])
            \/ /\ ParseObject(x, T) = Obj(Leaves(x, T))
               /\ \A k \in DOMAIN T : T[k].needed => ~IsUndef(Leaves(x, T)[k])
<1>1. isRecord(x) /\ ParseObject(x, T) = Assembled(T, Leaves(x, T))
  BY DEF ParseObject, Leaves, IsBad, Bad
<1> QED BY <1>1, AssembledIs

\* The same for an object with nested fields.
LEMMA NodeRead ==
  ASSUME NEW x, NEW T, ~IsBad(ParseNode(x, T))
  PROVE  /\ isRecord(x)
         /\ \A k \in DOMAIN T : ~IsBad(Nodes(x, T)[k])
         /\ \/ /\ ParseNode(x, T) = Undef
               /\ \E k \in DOMAIN T : T[k].needed /\ IsUndef(Nodes(x, T)[k])
            \/ /\ ParseNode(x, T) = Obj(Nodes(x, T))
               /\ \A k \in DOMAIN T : T[k].needed => ~IsUndef(Nodes(x, T)[k])
<1>1. isRecord(x) /\ ParseNode(x, T) = Assembled(T, Nodes(x, T))
  BY DEF ParseNode, Nodes, IsBad, Bad
<1> QED BY <1>1, AssembledIs

\* The members of a list that has been read.
LEMMA CollectedIs ==
  ASSUME NEW rs, IsSequence(rs), ~IsBad(Collected(rs))
  PROVE  /\ \A i \in 1 .. Len(rs) : ~IsBad(rs[i])
         /\ Collected(rs) = Arr(Those(rs, {r \in ToSet(rs) : ~IsUndef(r)}))
         /\ IsSequence(Collected(rs).a)
         /\ Collected(rs).t = "arr"
         /\ \A y \in ToSet(Collected(rs).a) :
               ~IsUndef(y) /\ \E i \in 1 .. Len(rs) : y = rs[i]
         /\ \A i \in 1 .. Len(rs) : IsUndef(rs[i]) \/ rs[i] \in ToSet(Collected(rs).a)
<1>1. DOMAIN rs = 1 .. Len(rs)
  BY SequenceHas
<1>2. /\ \A i \in 1 .. Len(rs) : ~IsBad(rs[i])
      /\ Collected(rs) = Arr(Those(rs, {r \in ToSet(rs) : ~IsUndef(r)}))
  BY <1>1 DEF Collected, IsBad, Bad
<1> DEFINE W == {r \in ToSet(rs) : ~IsUndef(r)}
<1>3. IsSequence(Those(rs, W)) /\ ToSet(Those(rs, W)) = ToSet(rs) \cap W
  BY Filtered
<1>4. Collected(rs).a = Those(rs, W)
  BY <1>2 DEF Arr
<1>5. ToSet(Collected(rs).a) = {r \in ToSet(rs) : ~IsUndef(r)}
  BY <1>3, <1>4
<1>6. \A y \in ToSet(rs) : \E i \in 1 .. Len(rs) : y = rs[i]
  BY SequenceHas
<1>7. \A i \in 1 .. Len(rs) : rs[i] \in ToSet(rs)
  BY SequenceHas
<1> QED BY <1>2, <1>3, <1>4, <1>5, <1>6, <1>7 DEF Arr

-----------------------------------------------------------------------------
(* The sections of a configuration.                                        *)

\* Fields set over those of a record.
LEMMA JoinedIs ==
  ASSUME NEW f, NEW g
  PROVE  /\ \A k : k \in DOMAIN Joined(f, g) <=> k \in DOMAIN f \/ k \in DOMAIN g
         /\ \A k \in DOMAIN f : Joined(f, g)[k] = f[k]
         /\ \A k \in DOMAIN g : k \notin DOMAIN f => Joined(f, g)[k] = g[k]
BY DEF Joined

\* The sections a table describes.
SectionKeys == {"log", "limits", "dns", "geo", "plugins", "workers", "transport", "connectionPool",
                "hotReload", "reload", "probing", "observability", "dashboard", "tun"}

\* They are those of SectionFields.
LEMMA SectionKeysAre == DOMAIN SectionFields = SectionKeys
BY DEF SectionFields, SectionKeys

\* The fields of a configuration, each from its own reader.
LEMMA SectionsAre ==
  ASSUME NEW root
  PROVE  /\ DOMAIN Sections(root) = SectionKeys \cup {"configVersion", "inbounds", "outbounds", "route"}
         /\ \A k \in SectionKeys : Sections(root)[k] = ParseSection(root, k)
         /\ Sections(root).configVersion = parseConfigVersion(Get(root, "configVersion"))
         /\ Sections(root).inbounds = ParseNonEmpty(Get(root, "inbounds"), parseInbound)
         /\ Sections(root).outbounds = ParseNonEmpty(Get(root, "outbounds"), parseOutbound)
         /\ Sections(root).route = parseRouter(Get(root, "route"), ParseSection(root, "geo"))
<1> DEFINE S == [k \in DOMAIN SectionFields |-> ParseSection(root, k)]
           L == [configVersion |-> parseConfigVersion(Get(root, "configVersion")),
                 inbounds      |-> ParseNonEmpty(Get(root, "inbounds"), parseInbound),
                 outbounds     |-> ParseNonEmpty(Get(root, "outbounds"), parseOutbound)]
           J == Joined(S, L)
           R == [route |-> parseRouter(Get(root, "route"), J.geo)]
<1>1. Sections(root) = Joined(R, J)
  BY DEF Sections, WithRoute
<1>2. DOMAIN S = SectionKeys /\ \A k \in SectionKeys : S[k] = ParseSection(root, k)
  <2> HIDE DEF SectionKeys
  <2> QED BY SectionKeysAre
<1>3. /\ DOMAIN L = {"configVersion", "inbounds", "outbounds"}
      /\ L.configVersion = parseConfigVersion(Get(root, "configVersion"))
      /\ L.inbounds = ParseNonEmpty(Get(root, "inbounds"), parseInbound)
      /\ L.outbounds = ParseNonEmpty(Get(root, "outbounds"), parseOutbound)
  OBVIOUS
<1> HIDE DEF S, L
<1>4. /\ DOMAIN J = SectionKeys \cup {"configVersion", "inbounds", "outbounds"}
      /\ \A k \in SectionKeys : J[k] = ParseSection(root, k)
      /\ \A k \in {"configVersion", "inbounds", "outbounds"} : J[k] = L[k]
  <2>1. /\ \A k : k \in DOMAIN J <=> k \in DOMAIN S \/ k \in DOMAIN L
        /\ \A k \in DOMAIN S : J[k] = S[k]
        /\ \A k \in DOMAIN L : k \notin DOMAIN S => J[k] = L[k]
    BY JoinedIs
  <2>2. \A k \in {"configVersion", "inbounds", "outbounds"} : k \notin SectionKeys
    BY DEF SectionKeys
  <2> HIDE DEF J
  <2> QED BY <1>2, <1>3, <2>1, <2>2
<1> HIDE DEF J
<1>5. J.geo = ParseSection(root, "geo")
  BY <1>4 DEF SectionKeys
<1>6. DOMAIN R = {"route"} /\ R.route = parseRouter(Get(root, "route"), J.geo)
  OBVIOUS
<1> HIDE DEF R
<1>7. /\ DOMAIN Joined(R, J) = {"route"} \cup DOMAIN J
      /\ Joined(R, J).route = R.route
      /\ \A k \in DOMAIN J : k # "route" => Joined(R, J)[k] = J[k]
  <2>1. \A k : k \in DOMAIN Joined(R, J) <=> k \in DOMAIN R \/ k \in DOMAIN J
    BY JoinedIs
  <2> QED BY <1>6, <2>1, JoinedIs
<1>8. \A k \in SectionKeys : k # "route" /\ k \in DOMAIN J
  BY <1>4 DEF SectionKeys
<1>9. /\ "configVersion" \in DOMAIN J /\ "inbounds" \in DOMAIN J /\ "outbounds" \in DOMAIN J
  BY <1>4
<1> QED BY <1>1, <1>3, <1>4, <1>5, <1>6, <1>7, <1>8, <1>9

\* A configuration that parseConfig returns.
LEMMA ConfigIs ==
  ASSUME NEW x, ~IsBad(parseConfig(x))
  PROVE  /\ isRecord(x)
         /\ parseConfig(x) = Obj(Sections(x.o))
         /\ \A k \in DOMAIN Sections(x.o) : ~IsBad(Sections(x.o)[k])
         /\ CrossChecks(Sections(x.o))
BY DEF parseConfig, Checked, IsBad, Bad

-----------------------------------------------------------------------------
(* Which lists of a configuration have to be lists for the parser to read  *)
(* them: those of a file are, as it is JSON, and those of a configuration  *)
(* that has been parsed are.                                               *)

\* A value the loader can hold: a list has items, a text and undefined are what they look like.
Proper(x) ==
  /\ x.t = "arr" => x = Arr(x.a) /\ IsSequence(x.a)
  /\ x.t = "str" => x = [t |-> "str", s |-> x.s]
  /\ x.t = "undef" => x = Undef

\* A document whose lists are lists.
Listed(root) ==
  /\ Proper(Get(root, "outbounds"))
  /\ isRecord(Get(root, "route")) =>
        /\ \A k \in {"rules", "policies", "ruleSetFiles", "defaultOutbound"} :
              Proper(Get(Get(root, "route").o, k))
        /\ \A p \in ToSet(ItemsOf(Get(Get(root, "route").o, "policies"))) :
              isRecord(p) => Proper(Get(p.o, "outbounds")) /\ Proper(Get(p.o, "tag"))

\* What a field of a JSON object is.
LEMMA FieldOf ==
  ASSUME NEW x, NEW k, k \notin MapKeys, isRecord(x)
  PROVE  /\ Value1(x) => Anything(Get(x.o, k)) \/ Get(x.o, k) = Undef
         /\ Value2(x) => Value1(Get(x.o, k)) \/ Get(x.o, k) = Undef
         /\ Value3(x) => Value2(Get(x.o, k)) \/ Get(x.o, k) = Undef
         /\ Value4(x) => Value3(Get(x.o, k)) \/ Get(x.o, k) = Undef
         /\ Value5(x) => Value4(Get(x.o, k)) \/ Get(x.o, k) = Undef
         /\ Value6(x) => Value5(Get(x.o, k)) \/ Get(x.o, k) = Undef
         /\ Parsed(x) => Value6(Get(x.o, k)) \/ Get(x.o, k) = Undef
<1> USE DEF isRecord, Get
<1>1. Value1(x) => Anything(Get(x.o, k)) \/ Get(x.o, k) = Undef
  BY DEF Anything
<1>2. Value2(x) => Value1(Get(x.o, k)) \/ Get(x.o, k) = Undef
  BY Zenon DEF Value2, IsValue
<1>3. Value3(x) => Value2(Get(x.o, k)) \/ Get(x.o, k) = Undef
  BY Zenon DEF Value3, IsValue
<1>4. Value4(x) => Value3(Get(x.o, k)) \/ Get(x.o, k) = Undef
  BY Zenon DEF Value4, IsValue
<1>5. Value5(x) => Value4(Get(x.o, k)) \/ Get(x.o, k) = Undef
  BY Zenon DEF Value5, IsValue
<1>6. Value6(x) => Value5(Get(x.o, k)) \/ Get(x.o, k) = Undef
  BY Zenon DEF Value6, IsValue
<1>7. Parsed(x) => Value6(Get(x.o, k)) \/ Get(x.o, k) = Undef
  BY Zenon DEF Parsed, IsValue
<1> QED BY <1>1, <1>2, <1>3, <1>4, <1>5, <1>6, <1>7

\* A scalar is no list, and is what its type says.
LEMMA ProperScalar ==
  ASSUME NEW x, IsScalar(x), x.t # "arr"
  PROVE  Proper(x)
<1>1. x.t = "str" => x = [t |-> "str", s |-> x.s]
  BY DEF IsScalar
<1>2. x.t = "undef" => x = Undef
  <2>1. ASSUME x.t = "undef" PROVE x \in {Undef, Null, Fraction}
    BY <2>1 DEF IsScalar
  <2> QED BY <2>1 DEF Null, Fraction
<1> QED BY <1>1, <1>2 DEF Proper

\* What a file has, and what is in it, at the depths the schema looks.
LEMMA ProperValue ==
  ASSUME NEW x
  PROVE  /\ Value2(x) => Proper(x) /\ (x.t = "arr" => \A y \in ToSet(x.a) : Value1(y))
         /\ Value3(x) => Proper(x) /\ (x.t = "arr" => \A y \in ToSet(x.a) : Value2(y))
         /\ Value4(x) => Proper(x) /\ (x.t = "arr" => \A y \in ToSet(x.a) : Value3(y))
         /\ Value5(x) => Proper(x) /\ (x.t = "arr" => \A y \in ToSet(x.a) : Value4(y))
         /\ Value6(x) => Proper(x) /\ (x.t = "arr" => \A y \in ToSet(x.a) : Value5(y))
         /\ Parsed(x) => Proper(x) /\ (x.t = "arr" => \A y \in ToSet(x.a) : Value6(y))
         /\ Proper(Undef)
<1> USE DEF Proper
<1>1. Value2(x) => Proper(x) /\ (x.t = "arr" => \A y \in ToSet(x.a) : Value1(y))
  BY ProperScalar, Zenon DEF Value2, IsValue
<1>2. Value3(x) => Proper(x) /\ (x.t = "arr" => \A y \in ToSet(x.a) : Value2(y))
  BY ProperScalar, Zenon DEF Value3, IsValue
<1>3. Value4(x) => Proper(x) /\ (x.t = "arr" => \A y \in ToSet(x.a) : Value3(y))
  BY ProperScalar, Zenon DEF Value4, IsValue
<1>4. Value5(x) => Proper(x) /\ (x.t = "arr" => \A y \in ToSet(x.a) : Value4(y))
  BY ProperScalar, Zenon DEF Value5, IsValue
<1>5. Value6(x) => Proper(x) /\ (x.t = "arr" => \A y \in ToSet(x.a) : Value5(y))
  BY ProperScalar, Zenon DEF Value6, IsValue
<1>6. Parsed(x) => Proper(x) /\ (x.t = "arr" => \A y \in ToSet(x.a) : Value6(y))
  BY ProperScalar, Zenon DEF Parsed, IsValue
<1>7. Proper(Undef)
  BY DEF Undef
<1> HIDE DEF Proper
<1> QED BY <1>1, <1>2, <1>3, <1>4, <1>5, <1>6, <1>7

\* The files are such documents.
LEMMA ListedFile ==
  ASSUME NEW x, Parsed(x), isRecord(x)
  PROVE  Listed(x.o)
<1> DEFINE r == Get(x.o, "route")
<1>1. \A k : k \notin MapKeys => Value6(Get(x.o, k)) \/ Get(x.o, k) = Undef
  BY FieldOf
<1>2. /\ "outbounds" \notin MapKeys /\ "route" \notin MapKeys
      /\ "rules" \notin MapKeys /\ "policies" \notin MapKeys /\ "ruleSetFiles" \notin MapKeys
      /\ "defaultOutbound" \notin MapKeys /\ "tag" \notin MapKeys
  BY DEF MapKeys
<1>3. Proper(Get(x.o, "outbounds"))
  BY <1>1, <1>2, ProperValue
<1>4. ASSUME isRecord(r)
      PROVE  /\ \A k \in {"rules", "policies", "ruleSetFiles", "defaultOutbound"} : Proper(Get(r.o, k))
             /\ \A p \in ToSet(ItemsOf(Get(r.o, "policies"))) : isRecord(p) =>
                   Proper(Get(p.o, "outbounds")) /\ Proper(Get(p.o, "tag"))
  <2>1. Value6(r)
    BY <1>1, <1>2, <1>4 DEF isRecord, Undef
  <2> HIDE DEF r
  <2>2. \A k : k \notin MapKeys => Value5(Get(r.o, k)) \/ Get(r.o, k) = Undef
    BY <1>4, <2>1, FieldOf
  <2>3. \A k \in {"rules", "policies", "ruleSetFiles", "defaultOutbound"} : Proper(Get(r.o, k))
    BY <1>2, <2>2, ProperValue
  <2>4. ASSUME NEW p \in ToSet(ItemsOf(Get(r.o, "policies"))), isRecord(p)
        PROVE  Proper(Get(p.o, "outbounds")) /\ Proper(Get(p.o, "tag"))
    <3>1. Get(r.o, "policies").t = "arr" /\ p \in ToSet(Get(r.o, "policies").a)
      BY <2>4 DEF ItemsOf, ToSet
    <3>2. Value4(p)
      BY <1>2, <2>2, <3>1, ProperValue DEF Undef
    <3>3. /\ Value3(Get(p.o, "outbounds")) \/ Get(p.o, "outbounds") = Undef
          /\ Value3(Get(p.o, "tag")) \/ Get(p.o, "tag") = Undef
      BY <1>2, <2>4, <3>2, FieldOf
    <3> QED BY <3>3, ProperValue
  <2> QED BY <2>3, <2>4
<1> QED BY <1>3, <1>4 DEF Listed

\* Migration adds the version and touches nothing else.
LEMMA MigratedIs ==
  ASSUME NEW x, ~IsBad(parseConfig(Migrated(x)))
  PROVE  /\ isRecord(x) /\ Migrated(x).t = "obj"
         /\ \A k : k # "configVersion" => Get(Migrated(x).o, k) = Get(x.o, k)
<1>1. isRecord(Migrated(x))
  BY ConfigIs
<1>2. isRecord(x) /\ Migrated(x) = Obj(Joined([configVersion |-> Num(1)], x.o))
  BY <1>1 DEF Migrated, Bad, isRecord
<1>3. Migrated(x).o = Joined([configVersion |-> Num(1)], x.o)
  BY <1>2 DEF Obj
<1>4. \A k : k # "configVersion" => Get(Migrated(x).o, k) = Get(x.o, k)
  BY <1>3 DEF Get, Joined
<1> QED BY <1>2, <1>4 DEF Obj

\* A configuration that was parsed, from lists that are lists.
Sound(c) ==
  \E root : /\ Listed(root) /\ c = Obj(Sections(root))
            /\ \A k \in DOMAIN Sections(root) : ~IsBad(Sections(root)[k])
            /\ CrossChecks(Sections(root))

\* A migrated file is what the parser expects.
LEMMA FileIsSound ==
  ASSUME NEW x, Parsed(x), ~IsBad(parseConfig(Migrated(x)))
  PROVE  Sound(parseConfig(Migrated(x)))
<1>1. isRecord(x) /\ \A k : k # "configVersion" => Get(Migrated(x).o, k) = Get(x.o, k)
  BY MigratedIs
<1>2. Listed(x.o)
  BY <1>1, ListedFile
<1>3. Listed(Migrated(x).o)
  BY <1>1, <1>2 DEF Listed
<1> QED BY <1>3, ConfigIs DEF Sound

-----------------------------------------------------------------------------
(* Single fields.                                                          *)

\* The kinds of field that rewrite what they read.
Converting == {"texts", "some", "parts", "ports", "map", "lists"}
\* The kinds of field that hold other objects.
Nested == {"section", "item", "list"}

\* What a reader of each kind accepts.
LEMMA AcceptsInt ==
  ASSUME NEW f, f.kind = "int", NEW x
  PROVE  Accepts(f, x) <=> IsIntIn(x, f.lo, f.hi)
BY DEF Accepts

\* A flag is a Boolean.
LEMMA AcceptsFlag ==
  ASSUME NEW f, f.kind = "flag", NEW x
  PROVE  Accepts(f, x) <=> x.t = "bool"
BY DEF Accepts

\* A text is one.
LEMMA AcceptsText ==
  ASSUME NEW f, f.kind = "text", NEW x
  PROVE  Accepts(f, x) <=> IsText(x)
BY DEF Accepts

\* A word is one of those listed.
LEMMA AcceptsWord ==
  ASSUME NEW f, f.kind = "word", NEW x
  PROVE  Accepts(f, x) <=> IsText(x) /\ x.s \in WordsOf(f.words)
BY DEF Accepts

\* A list of texts is a list.
LEMMA AcceptsTexts ==
  ASSUME NEW f, f.kind = "texts", NEW x
  PROVE  Accepts(f, x) <=> x.t = "arr" /\ AllTexts(x.a)
BY DEF Accepts

\* So is one that may not be empty.
LEMMA AcceptsSome ==
  ASSUME NEW f, f.kind = "some", NEW x
  PROVE  Accepts(f, x) <=> x.t = "arr" /\ AllTexts(x.a) /\ x.a # <<>>
BY DEF Accepts

\* A field without an alias.
LEMMA LeafOf ==
  ASSUME NEW o, NEW k, NEW f, f.alias = "", ~IsBad(ReadLeaf(o, k, f))
  PROVE  \/ IsUndef(Get(o, k)) /\ ~f.must /\ ReadLeaf(o, k, f) = f.def
         \/ /\ ~IsUndef(Get(o, k)) /\ Accepts(f, Get(o, k))
            /\ ReadLeaf(o, k, f) = Converted(f, Get(o, k))
<1>1. ReadLeaf(o, k, f) = ReadValue(f, Get(o, k))
  BY Zenon DEF ReadLeaf
<1> QED BY <1>1, LeafRead, Zenon

\* One that is not converted.
LEMMA PlainLeaf ==
  ASSUME NEW o, NEW k, NEW f, f.alias = "", f.kind \notin Converting, ~IsBad(ReadLeaf(o, k, f))
  PROVE  \/ IsUndef(Get(o, k)) /\ ~f.must /\ ReadLeaf(o, k, f) = f.def
         \/ /\ ~IsUndef(Get(o, k)) /\ Accepts(f, Get(o, k))
            /\ ReadLeaf(o, k, f) = Get(o, k)
<1>1. \A x : Converted(f, x) = x
  BY Zenon DEF Converted, Converting
<1> QED BY <1>1, LeafOf, Zenon

\* A field of an object, nested or not.
LEMMA FieldRead ==
  ASSUME NEW o, NEW k, NEW f, f.kind \notin Nested
  PROVE  ReadField(o, k, f) = ReadLeaf(o, k, f)
BY DEF ReadField, Nested

\* A required text is the text of the file.
LEMMA RequiredText ==
  ASSUME NEW o, NEW k, ~IsBad(ReadLeaf(o, k, Required(OptText)))
  PROVE  ReadLeaf(o, k, Required(OptText)) = Get(o, k) /\ IsText(Get(o, k))
<1> DEFINE f == Required(OptText)
<1>1. f.alias = "" /\ f.kind = "text" /\ f.must
  BY DEF Required, OptText, Field
<1> HIDE DEF f
<1>2. ~IsUndef(Get(o, k)) /\ Accepts(f, Get(o, k)) /\ ReadLeaf(o, k, f) = Get(o, k)
  BY <1>1, PlainLeaf, Zenon DEF f, Converting
<1>3. Accepts(f, Get(o, k)) <=> IsText(Get(o, k))
  BY <1>1, AcceptsText, Zenon
<1> QED BY <1>2, <1>3 DEF f

\* A required word is one of those listed.
LEMMA RequiredWord ==
  ASSUME NEW o, NEW k, NEW words, ~IsBad(ReadLeaf(o, k, Required(OptWord(words))))
  PROVE  /\ ReadLeaf(o, k, Required(OptWord(words))) = Get(o, k)
         /\ IsText(Get(o, k)) /\ Get(o, k).s \in WordsOf(words)
<1> DEFINE f == Required(OptWord(words))
<1>1. f.alias = "" /\ f.kind = "word" /\ f.must /\ f.words = words
  BY DEF Required, OptWord, Field
<1> HIDE DEF f
<1>2. ~IsUndef(Get(o, k)) /\ Accepts(f, Get(o, k)) /\ ReadLeaf(o, k, f) = Get(o, k)
  BY <1>1, PlainLeaf, Zenon DEF f, Converting
<1>3. Accepts(f, Get(o, k)) <=> (IsText(Get(o, k)) /\ Get(o, k).s \in WordsOf(f.words))
  BY <1>1, AcceptsWord, Zenon
<1> QED BY <1>1, <1>2, <1>3, Zenon DEF f

\* A required number is within its range.
LEMMA RequiredInt ==
  ASSUME NEW o, NEW k, NEW lo, NEW hi, ~IsBad(ReadLeaf(o, k, Required(OptInt(lo, hi))))
  PROVE  /\ ReadLeaf(o, k, Required(OptInt(lo, hi))) = Get(o, k)
         /\ IsIntIn(Get(o, k), lo, hi)
<1> DEFINE f == Required(OptInt(lo, hi))
<1>1. f.alias = "" /\ f.kind = "int" /\ f.must /\ f.lo = lo /\ f.hi = hi
  BY DEF Required, OptInt, Field
<1> HIDE DEF f
<1>2. ~IsUndef(Get(o, k)) /\ Accepts(f, Get(o, k)) /\ ReadLeaf(o, k, f) = Get(o, k)
  BY <1>1, PlainLeaf, Zenon DEF f, Converting
<1>3. Accepts(f, Get(o, k)) <=> IsIntIn(Get(o, k), f.lo, f.hi)
  BY <1>1, AcceptsInt, Zenon
<1> QED BY <1>1, <1>2, <1>3, Zenon DEF f

\* An optional text is absent or the text of the file.
LEMMA OptionalText ==
  ASSUME NEW o, NEW k, ~IsBad(ReadLeaf(o, k, OptText))
  PROVE  \/ IsUndef(Get(o, k)) /\ ReadLeaf(o, k, OptText) = Undef
         \/ ReadLeaf(o, k, OptText) = Get(o, k) /\ IsText(Get(o, k))
<1> DEFINE f == OptText
<1>1. f.alias = "" /\ f.kind = "text" /\ f.def = Undef
  BY Zenon DEF OptText, Field
<1> HIDE DEF f
<1>2. \A x : Accepts(f, x) <=> IsText(x)
  BY <1>1, AcceptsText, Zenon
<1>3. \/ IsUndef(Get(o, k)) /\ ReadLeaf(o, k, f) = f.def
      \/ Accepts(f, Get(o, k)) /\ ReadLeaf(o, k, f) = Get(o, k)
  BY <1>1, PlainLeaf, Zenon DEF f, Converting
<1> QED BY <1>1, <1>2, <1>3, Zenon DEF f

\* A word with a default is one of the words.
LEMMA WordRead ==
  ASSUME NEW o, NEW k, NEW words, NEW w \in words, ~IsBad(ReadLeaf(o, k, Word(words, w)))
  PROVE  ReadLeaf(o, k, Word(words, w)).s \in WordsOf(words)
<1> DEFINE f == Word(words, w)
<1>1. f.alias = "" /\ f.kind = "word" /\ f.def = Str(w) /\ f.words = words
  BY DEF Word, OptWord, Field
<1> HIDE DEF f
<1>2. \A x : Accepts(f, x) <=> (IsText(x) /\ x.s \in WordsOf(f.words))
  BY <1>1, AcceptsWord, Zenon
<1>3. ReadLeaf(o, k, f) = Str(w) \/ ReadLeaf(o, k, f).s \in WordsOf(words)
  BY <1>1, <1>2, PlainLeaf, Zenon DEF f, Converting
<1>4. Str(w).s \in WordsOf(words)
  BY DEF Str, WordsOf
<1> QED BY <1>3, <1>4 DEF f

-----------------------------------------------------------------------------
(* Outbounds.                                                              *)

\* What parsing an item of a list gives when it is neither dropped nor refused.
ReadItem(y) == ~IsUndef(y) /\ ~IsBad(y)

\* A typed item: the fields common to all and those of its type.
LEMMA TypedItem ==
  ASSUME NEW x, NEW common, NEW types, ReadItem(ParseTyped(x, common, types))
  PROVE  /\ KnownType(x, types)
         /\ ParseTyped(x, common, types) = Obj(Nodes(x, Joined(common, types[TypeKey(x)])))
         /\ \A k \in DOMAIN common \cup DOMAIN types[TypeKey(x)] :
               ~IsBad(Nodes(x, Joined(common, types[TypeKey(x)]))[k])
<1> DEFINE T == Joined(common, types[TypeKey(x)])
<1>1. KnownType(x, types) /\ ParseTyped(x, common, types) = ParseNode(x, T)
  BY DEF ParseTyped, ReadItem, IsBad, Bad
<1>2. ~IsBad(ParseNode(x, T)) /\ ParseNode(x, T) # Undef
  BY <1>1 DEF ReadItem, IsUndef, Undef
<1>3. /\ ParseNode(x, T) = Obj(Nodes(x, T))
      /\ \A k \in DOMAIN T : ~IsBad(Nodes(x, T)[k])
  BY <1>2, NodeRead
<1>4. \A k : k \in DOMAIN T <=> k \in DOMAIN common \/ k \in DOMAIN types[TypeKey(x)]
  BY JoinedIs
<1> QED BY <1>1, <1>3, <1>4

\* The two parts of its table.
LEMMA TypedField ==
  ASSUME NEW x, NEW f, NEW g
  PROVE  /\ \A k \in DOMAIN f : Nodes(x, Joined(f, g))[k] = ReadField(x.o, k, f[k])
         /\ \A k \in DOMAIN g : k \notin DOMAIN f =>
               Nodes(x, Joined(f, g))[k] = ReadField(x.o, k, g[k])
         /\ \A k : k \in DOMAIN Nodes(x, Joined(f, g)) <=> k \in DOMAIN f \/ k \in DOMAIN g
<1>1. /\ \A k : k \in DOMAIN Joined(f, g) <=> k \in DOMAIN f \/ k \in DOMAIN g
      /\ \A k \in DOMAIN f : Joined(f, g)[k] = f[k]
      /\ \A k \in DOMAIN g : k \notin DOMAIN f => Joined(f, g)[k] = g[k]
  BY JoinedIs
<1>2. /\ DOMAIN Nodes(x, Joined(f, g)) = DOMAIN Joined(f, g)
      /\ \A k \in DOMAIN Joined(f, g) : Nodes(x, Joined(f, g))[k] = ReadField(x.o, k, Joined(f, g)[k])
  BY DEF Nodes
<1> QED BY <1>1, <1>2

\* A required text of a node, by the kind of its field.
LEMMA NodeText ==
  ASSUME NEW o, NEW k, ~IsBad(ReadField(o, k, Required(OptText)))
  PROVE  ReadField(o, k, Required(OptText)) = Get(o, k) /\ IsText(Get(o, k))
<1>1. Required(OptText).kind = "text"
  BY DEF Required, OptText, Field
<1>2. ReadField(o, k, Required(OptText)) = ReadLeaf(o, k, Required(OptText))
  BY <1>1, FieldRead DEF Nested
<1> QED BY <1>2, RequiredText

\* The same for a required word.
LEMMA NodeWord ==
  ASSUME NEW o, NEW k, NEW words, ~IsBad(ReadField(o, k, Required(OptWord(words))))
  PROVE  /\ ReadField(o, k, Required(OptWord(words))) = Get(o, k)
         /\ IsText(Get(o, k)) /\ Get(o, k).s \in WordsOf(words)
<1>1. Required(OptWord(words)).kind = "word"
  BY DEF Required, OptWord, Field
<1>2. ReadField(o, k, Required(OptWord(words))) = ReadLeaf(o, k, Required(OptWord(words)))
  BY <1>1, FieldRead DEF Nested
<1> QED BY <1>2, RequiredWord

\* The same for a port.
LEMMA NodePort ==
  ASSUME NEW o, NEW k, ~IsBad(ReadField(o, k, PortField))
  PROVE  ReadField(o, k, PortField) = Get(o, k) /\ IsIntIn(Get(o, k), 1, 65535)
<1>1. PortField.kind = "int"
  BY DEF PortField, Required, OptInt, Field
<1>2. ReadField(o, k, PortField) = ReadLeaf(o, k, PortField)
  BY <1>1, FieldRead DEF Nested
<1> QED BY <1>2, RequiredInt DEF PortField

\* An outbound that the parser returns.
IsOutbound(y) == \E x : y = parseOutbound(x) /\ ReadItem(y)

\* The fields that every outbound has.
LEMMA CommonOutboundFields ==
  /\ DOMAIN OutboundFields = {"type", "tag", "connectTimeoutMs", "idleTimeoutMs"}
  /\ OutboundFields.type = Required(OptText) /\ OutboundFields.tag = Required(OptText)
BY DEF OutboundFields

\* The kinds of outbound.
LEMMA OutboundTypesAre ==
  /\ DOMAIN OutboundTypes = SUPPORTED_TYPES \cup {"plugin"}
  /\ DOMAIN OutboundTypes["direct"] = {}
  /\ DOMAIN OutboundTypes["block"] = {"reason"}
  /\ DOMAIN OutboundTypes["tcpRelay"] = {"targetHost", "targetPort"}
  /\ OutboundTypes["tcpRelay"]["targetPort"] = PortField
  /\ OutboundTypes["tcpRelay"]["targetHost"] = Required(OptText)
  /\ DOMAIN OutboundTypes["shadowsocks"] = {"serverHost", "serverPort", "password", "method"}
  /\ OutboundTypes["shadowsocks"]["serverHost"] = Required(OptText)
  /\ OutboundTypes["shadowsocks"]["serverPort"] = PortField
  /\ OutboundTypes["shadowsocks"]["method"] = Method
  /\ DOMAIN OutboundTypes["trojan"] = {"serverHost", "serverPort", "password", "tls"}
  /\ OutboundTypes["trojan"]["serverHost"] = Required(OptText)
  /\ OutboundTypes["trojan"]["serverPort"] = PortField
  /\ OutboundTypes["trojan"]["tls"] = Section(OutboundTlsFields)
<1>1. /\ DOMAIN OutboundTypes = SUPPORTED_TYPES \cup {"plugin"}
      /\ OutboundTypes["direct"] = <<>>
      /\ OutboundTypes["block"] = [reason |-> OptText]
      /\ OutboundTypes["tcpRelay"] = [targetHost |-> Required(OptText), targetPort |-> PortField]
      /\ OutboundTypes["shadowsocks"] = Joined(ServerFields, [method |-> Method])
      /\ OutboundTypes["trojan"] = Joined(ServerFields, [tls |-> Section(OutboundTlsFields)])
  BY DEF OutboundTypes, SUPPORTED_TYPES
<1>2. /\ DOMAIN ServerFields = {"serverHost", "serverPort", "password"}
      /\ ServerFields.serverHost = Required(OptText) /\ ServerFields.serverPort = PortField
  BY DEF ServerFields
<1>3. /\ DOMAIN Joined(ServerFields, [method |-> Method]) = {"serverHost", "serverPort", "password", "method"}
      /\ Joined(ServerFields, [method |-> Method])["serverHost"] = Required(OptText)
      /\ Joined(ServerFields, [method |-> Method])["serverPort"] = PortField
      /\ Joined(ServerFields, [method |-> Method])["method"] = Method
  BY <1>2 DEF Joined
<1>4. \A v : /\ DOMAIN Joined(ServerFields, [tls |-> v]) = {"serverHost", "serverPort", "password", "tls"}
             /\ Joined(ServerFields, [tls |-> v])["serverHost"] = Required(OptText)
             /\ Joined(ServerFields, [tls |-> v])["serverPort"] = PortField
             /\ Joined(ServerFields, [tls |-> v])["tls"] = v
  BY <1>2 DEF Joined
<1>5. DOMAIN <<>> = {}
  OBVIOUS
<1>6. DOMAIN [reason |-> OptText] = {"reason"}
  OBVIOUS
<1>7. LET T == [targetHost |-> Required(OptText), targetPort |-> PortField]
      IN  DOMAIN T = {"targetHost", "targetPort"} /\ T["targetPort"] = PortField
          /\ T["targetHost"] = Required(OptText)
  OBVIOUS
<1> QED BY <1>1, <1>3, <1>4, <1>5, <1>6, <1>7

\* Its type and tag are those of the file, and its table is the one of its type.
LEMMA OutboundIs ==
  ASSUME NEW x, ReadItem(parseOutbound(x))
  PROVE  LET y == parseOutbound(x)
             T == OutboundTypes[Type(y)]
         IN  /\ y = Obj(Nodes(x, Joined(OutboundFields, T))) /\ isRecord(x)
             /\ Type(y) \in DOMAIN OutboundTypes /\ Type(y) = TypeKey(x)
             /\ y.o.tag = Get(x.o, "tag") /\ IsText(y.o.tag)
             /\ y.o.type = Get(x.o, "type") /\ IsText(y.o.type)
             /\ DOMAIN y.o = DOMAIN OutboundFields \cup DOMAIN T
             /\ \A k \in DOMAIN T \ DOMAIN OutboundFields :
                   y.o[k] = ReadField(x.o, k, T[k]) /\ ~IsBad(ReadField(x.o, k, T[k]))
<1> DEFINE y == parseOutbound(x)
           G == OutboundTypes[TypeKey(x)]
           R == Nodes(x, Joined(OutboundFields, G))
<1>1. /\ KnownType(x, OutboundTypes) /\ y = Obj(R)
      /\ \A k \in DOMAIN OutboundFields \cup DOMAIN G : ~IsBad(R[k])
  BY TypedItem DEF parseOutbound
<1>2. /\ \A k \in DOMAIN OutboundFields : R[k] = ReadField(x.o, k, OutboundFields[k])
      /\ \A k \in DOMAIN G : k \notin DOMAIN OutboundFields => R[k] = ReadField(x.o, k, G[k])
      /\ DOMAIN R = DOMAIN OutboundFields \cup DOMAIN G
  <2> HIDE DEF G
  <2>1. \A k : k \in DOMAIN R <=> k \in DOMAIN OutboundFields \/ k \in DOMAIN G
    BY TypedField
  <2>2. \A k \in DOMAIN OutboundFields : R[k] = ReadField(x.o, k, OutboundFields[k])
    BY TypedField
  <2>3. \A k \in DOMAIN G : k \notin DOMAIN OutboundFields => R[k] = ReadField(x.o, k, G[k])
    BY TypedField
  <2> HIDE DEF R
  <2> QED BY <2>1, <2>2, <2>3
<1> HIDE DEF R, G, y
<1>3. /\ R["type"] = ReadField(x.o, "type", Required(OptText)) /\ ~IsBad(R["type"])
      /\ R["tag"] = ReadField(x.o, "tag", Required(OptText)) /\ ~IsBad(R["tag"])
  BY <1>1, <1>2, CommonOutboundFields
<1>4. /\ R["type"] = Get(x.o, "type") /\ IsText(R["type"])
      /\ R["tag"] = Get(x.o, "tag") /\ IsText(R["tag"])
  BY <1>3, NodeText
<1>5. y.o = R
  BY <1>1 DEF Obj
<1>6. Type(y) = TypeKey(x)
  <2>1. Get(R, "type") = R["type"]
    BY <1>2, CommonOutboundFields DEF Get
  <2> QED BY <1>4, <1>5, <2>1 DEF Type, TypeKey
<1>7. TypeKey(x) \in DOMAIN OutboundTypes /\ isRecord(x)
  <2>1. isRecord(x) /\ \/ isExtensionType(Get(x.o, "type").s)
                       \/ Get(x.o, "type").s \in WordsOf(DOMAIN OutboundTypes \ {Plugin})
    BY <1>1 DEF KnownType
  <2>2. Plugin \in DOMAIN OutboundTypes
    BY OutboundTypesAre DEF Plugin
  <2>3. TypeKey(x) = IF isExtensionType(Get(x.o, "type").s) THEN Plugin ELSE Get(x.o, "type").s.w
    BY DEF TypeKey
  <2>4. \A s : s \in WordsOf(DOMAIN OutboundTypes \ {Plugin}) => s.w \in DOMAIN OutboundTypes
    BY DEF WordsOf, Text
  <2> QED BY <2>1, <2>2, <2>3, <2>4
<1> QED BY <1>1, <1>2, <1>4, <1>5, <1>6, <1>7 DEF y, R, G

\* A section within a node: its defaults, or what it reads of the object.
LEMMA SectionRead ==
  ASSUME NEW o, NEW k, NEW T, ~IsBad(ReadField(o, k, Section(T)))
  PROVE  \/ IsUndef(Get(o, k)) /\ ReadField(o, k, Section(T)) = Defaults(T)
         \/ /\ ~IsUndef(Get(o, k)) /\ ReadField(o, k, Section(T)) = ParseObject(Get(o, k), T)
            /\ ~IsBad(ParseObject(Get(o, k), T))
<1> DEFINE f == Section(T)
<1>1. f.kind = "section" /\ ~f.must /\ f.def = Defaults(T) /\ f.table = T
  BY Zenon DEF Section, Field
<1> HIDE DEF f
<1>2. ReadField(o, k, f) = ParseNested(f, Get(o, k))
  BY <1>1 DEF ReadField
<1>3. ParseNested(f, Get(o, k)) = IF IsUndef(Get(o, k)) THEN f.def ELSE ParseObject(Get(o, k), f.table)
  BY <1>1 DEF ParseNested
<1> QED BY <1>1, <1>2, <1>3 DEF f

\* A table without needed fields never drops its object.
LEMMA NothingDropped ==
  ASSUME NEW x, NEW T, ~IsBad(ParseObject(x, T)),
         \A k \in DOMAIN T : T[k].needed => T[k].must /\ T[k].alias = "" /\ T[k].kind \notin Converting
  PROVE  ParseObject(x, T) = Obj(Leaves(x, T)) /\ \A k \in DOMAIN T : ~IsBad(Leaves(x, T)[k])
<1>1. /\ \A k \in DOMAIN T : ~IsBad(Leaves(x, T)[k])
      /\ \/ \E k \in DOMAIN T : T[k].needed /\ IsUndef(Leaves(x, T)[k])
         \/ ParseObject(x, T) = Obj(Leaves(x, T))
  BY ObjectRead, Zenon
<1>2. ASSUME NEW k \in DOMAIN T, T[k].needed, IsUndef(Leaves(x, T)[k]) PROVE FALSE
  <2>1. Leaves(x, T)[k] = ReadLeaf(x.o, k, T[k])
    BY Zenon DEF Leaves
  <2>2. T[k].must /\ T[k].alias = "" /\ T[k].kind \notin Converting
    BY <1>2, Zenon
  <2>3. ~IsUndef(ReadLeaf(x.o, k, T[k]))
    <3> DEFINE f == T[k]
    <3>1. f.must /\ f.alias = "" /\ f.kind \notin Converting /\ ~IsBad(ReadLeaf(x.o, k, f))
      BY <1>1, <2>1, <2>2, Zenon
    <3> HIDE DEF f
    <3>2. ~IsUndef(ReadLeaf(x.o, k, f))
      BY <3>1, PlainLeaf, Zenon
    <3> QED BY <3>2, Zenon DEF f
  <2> QED BY <1>2, <2>1, <2>3, Zenon
<1> QED BY <1>1, <1>2, Zenon

\* The server name of a Trojan outbound is absent or not blank.
LEMMA ServerName ==
  ASSUME NEW o, ~IsBad(ReadField(o, "tls", Section(OutboundTlsFields)))
  PROVE  LET tls == ReadField(o, "tls", Section(OutboundTlsFields))
         IN  IsUndef(tls.o.serverName) \/ ~Blank(tls.o.serverName.s)
<1> DEFINE T == OutboundTlsFields
           g == Get(o, "tls")
           tls == ReadField(o, "tls", Section(T))
<1>1. /\ DOMAIN T = {"enabled", "rejectUnauthorized", "serverName"}
      /\ T["enabled"] = Flag(TRUE) /\ T["rejectUnauthorized"] = Flag(TRUE) /\ T["serverName"] = OptText
  BY DEF OutboundTlsFields
<1>2. OptText.def = Undef /\ ~OptText.needed /\ ~Flag(TRUE).needed
  BY DEF OptText, Flag, Field
<1>3. tls = Defaults(T) \/ (tls = ParseObject(g, T) /\ ~IsBad(ParseObject(g, T)))
  BY SectionRead
<1> HIDE DEF T, g, tls
<1>4. CASE tls = Defaults(T)
  <2>1. tls.o.serverName = T["serverName"].def
    BY <1>1, <1>4 DEF Defaults, Obj
  <2> QED BY <1>1, <1>2, <2>1 DEF tls, T, IsUndef, Undef
<1>5. CASE tls = ParseObject(g, T) /\ ~IsBad(ParseObject(g, T))
  <2>1. \A k \in DOMAIN T : ~T[k].needed
    BY <1>1, <1>2, Zenon
  <2>2. ParseObject(g, T) = Obj(Leaves(g, T)) /\ \A k \in DOMAIN T : ~IsBad(Leaves(g, T)[k])
    BY <1>5, <2>1, NothingDropped, Zenon
  <2>3. tls.o.serverName = ReadLeaf(g.o, "serverName", OptText) /\ ~IsBad(ReadLeaf(g.o, "serverName", OptText))
    BY <1>1, <1>5, <2>2 DEF Obj, Leaves
  <2>4. IsUndef(tls.o.serverName) \/ IsText(tls.o.serverName)
    BY <2>3, OptionalText DEF IsUndef, Undef
  <2> QED BY <2>4 DEF tls, T, IsText
<1> QED BY <1>3, <1>4, <1>5

\* What the validator finds wrong in an outbound that the schema let through.
LEMMA OutboundIssues ==
  ASSUME NEW y, IsOutbound(y)
  PROVE  /\ \A e \in validateType(y) : e.code \in {"unsupported-type", "experimental-not-enabled"}
         /\ \A e \in validateFields(y) : e.code = "invalid-target-host"
<1> DEFINE T == OutboundTypes[Type(y)]
<1>1. PICK x : y = parseOutbound(x) /\ ReadItem(parseOutbound(x))
  BY DEF IsOutbound
<1>2. /\ Type(y) \in DOMAIN OutboundTypes
      /\ DOMAIN y.o = DOMAIN OutboundFields \cup DOMAIN T
      /\ \A k \in DOMAIN T \ DOMAIN OutboundFields :
            y.o[k] = ReadField(x.o, k, T[k]) /\ ~IsBad(ReadField(x.o, k, T[k]))
  <2>1. ReadItem(parseOutbound(x))
    BY <1>1
  <2> HIDE <1>1
  <2>2. LET z == parseOutbound(x)
             G == OutboundTypes[Type(z)]
         IN  /\ Type(z) \in DOMAIN OutboundTypes
             /\ DOMAIN z.o = DOMAIN OutboundFields \cup DOMAIN G
             /\ \A k \in DOMAIN G \ DOMAIN OutboundFields :
                   z.o[k] = ReadField(x.o, k, G[k]) /\ ~IsBad(ReadField(x.o, k, G[k]))
    BY <2>1, OutboundIs
  <2> QED BY <1>1, <2>2
<1> HIDE DEF T
<1>3. \A e \in validateType(y) : e.code \in {"unsupported-type", "experimental-not-enabled"}
  BY DEF validateType, IssueIf, Issue
<1>4. KeysOf(y) \subseteq DOMAIN y.o
  BY DEF KeysOf
<1>5. ASSUME NEW host, NEW port, IsIntIn(y.o[port], 1, 65535),
             NEW e \in validateHostPort(y, host, port)
      PROVE  e.code = "invalid-target-host"
  <2>1. \/ e \in IssueIf(Blank(y.o[host].s) \/ y.o[host].s.pad, "invalid-target-host", y)
        \/ e \in IssueIf(~IsIntIn(y.o[port], 1, 65535), "invalid-target-port", y)
    BY <1>5 DEF validateHostPort
  <2> QED BY <1>5, <2>1 DEF IssueIf, Issue
<1>6. Type(y) \in SUPPORTED_TYPES \/ Type(y) = "plugin"
  BY <1>2, OutboundTypesAre
<1>7. CASE Type(y) = "direct"
  <2>1. DOMAIN y.o = CommonKeys
    BY <1>2, <1>7, OutboundTypesAre, CommonOutboundFields DEF T, CommonKeys
  <2>2. validateFields(y) = Extra(y, CommonKeys)
    BY <1>7 DEF validateFields
  <2>3. KeysOf(y) \subseteq CommonKeys
    BY <1>4, <2>1
  <2>4. \A e \in Extra(y, CommonKeys) : FALSE
    BY <2>3 DEF Extra, IssueIf
  <2> QED BY <1>3, <2>2, <2>4
<1>8. CASE Type(y) = "block"
  <2>1. DOMAIN y.o = CommonKeys \cup {"reason"}
    BY <1>2, <1>8, OutboundTypesAre, CommonOutboundFields DEF T, CommonKeys
  <2>2. validateFields(y) = Extra(y, CommonKeys \cup {"reason"})
    BY <1>8 DEF validateFields
  <2>3. KeysOf(y) \subseteq CommonKeys \cup {"reason"}
    BY <1>4, <2>1
  <2>4. \A e \in Extra(y, CommonKeys \cup {"reason"}) : FALSE
    BY <2>3 DEF Extra, IssueIf
  <2> QED BY <1>3, <2>2, <2>4
<1>9. CASE Type(y) = "tcpRelay"
  <2>1. "targetPort" \in DOMAIN T \ DOMAIN OutboundFields /\ T["targetPort"] = PortField
    BY <1>9, OutboundTypesAre, CommonOutboundFields DEF T
  <2>2. IsIntIn(y.o["targetPort"], 1, 65535)
    BY <1>2, <2>1, NodePort
  <2>3. validateFields(y) = validateHostPort(y, "targetHost", "targetPort")
    BY <1>9 DEF validateFields
  <2> QED BY <1>3, <1>5, <2>2, <2>3
<1>10. CASE Type(y) = "shadowsocks"
  <2>1. /\ "serverPort" \in DOMAIN T \ DOMAIN OutboundFields /\ T["serverPort"] = PortField
        /\ "method" \in DOMAIN T \ DOMAIN OutboundFields /\ T["method"] = Method
    BY <1>10, OutboundTypesAre, CommonOutboundFields DEF T
  <2>2. IsIntIn(y.o["serverPort"], 1, 65535)
    BY <1>2, <2>1, NodePort
  <2>3. y.o.method.s \in WordsOf(Method.words)
    <3> DEFINE words == {"aes-128-gcm", "aes-256-gcm", "chacha20-ietf-poly1305"}
    <3>1. Method = Required(OptWord(words)) /\ Method.words = words
      BY DEF Method, Required, OptWord, Field
    <3>2. y.o["method"] = ReadField(x.o, "method", Method) /\ ~IsBad(ReadField(x.o, "method", Method))
      BY <1>2, <2>1
    <3> HIDE DEF words
    <3> QED BY <3>1, <3>2, NodeWord
  <2>4. validateFields(y) = validateHostPort(y, "serverHost", "serverPort")
            \cup IssueIf(y.o.method.s \notin WordsOf(Method.words), "unsupported-shadowsocks-cipher", y)
    BY <1>10 DEF validateFields
  <2> QED BY <1>3, <1>5, <2>2, <2>3, <2>4 DEF IssueIf
<1>11. CASE Type(y) = "trojan"
  <2>1. /\ "serverPort" \in DOMAIN T \ DOMAIN OutboundFields /\ T["serverPort"] = PortField
        /\ "tls" \in DOMAIN T \ DOMAIN OutboundFields /\ T["tls"] = Section(OutboundTlsFields)
    BY <1>11, OutboundTypesAre, CommonOutboundFields DEF T
  <2>2. IsIntIn(y.o["serverPort"], 1, 65535)
    BY <1>2, <2>1, NodePort
  <2>3. IsUndef(y.o.tls.o.serverName) \/ ~Blank(y.o.tls.o.serverName.s)
    <3>1. /\ y.o["tls"] = ReadField(x.o, "tls", Section(OutboundTlsFields))
          /\ ~IsBad(ReadField(x.o, "tls", Section(OutboundTlsFields)))
      BY <1>2, <2>1
    <3> QED BY <3>1, ServerName
  <2>4. validateFields(y) = validateHostPort(y, "serverHost", "serverPort")
            \cup IssueIf(~IsUndef(y.o.tls.o.serverName) /\ Blank(y.o.tls.o.serverName.s),
                         "invalid-trojan-server-name", y)
    BY <1>11 DEF validateFields
  <2> QED BY <1>3, <1>5, <2>2, <2>3, <2>4 DEF IssueIf
<1>12. CASE Type(y) = "wireguard" \/ Type(y) = "plugin"
  <2>1. validateFields(y) = {}
    BY <1>12 DEF validateFields
  <2> QED BY <1>3, <2>1
<1> QED BY <1>6, <1>7, <1>8, <1>9, <1>10, <1>11, <1>12 DEF SUPPORTED_TYPES

-----------------------------------------------------------------------------
(* The route.                                                              *)

\* A list within a node.
LEMMA ListRead ==
  ASSUME NEW o, NEW k, NEW T, ~IsBad(ReadField(o, k, ListOf(T))), Proper(Get(o, k))
  PROVE  LET v == ReadField(o, k, ListOf(T))
         IN  /\ v = Arr(v.a) /\ IsSequence(v.a)
             /\ \A y \in ToSet(v.a) :
                   ReadItem(y) /\ \E x \in ToSet(ItemsOf(Get(o, k))) : y = ParseObject(x, T)
<1> DEFINE f == ListOf(T)
           g == Get(o, k)
           v == ReadField(o, k, ListOf(T))
           rs == [i \in DOMAIN g.a |-> ParseObject(g.a[i], T)]
<1>1. f.kind = "list" /\ ~f.must /\ f.def = EmptyList /\ f.table = T
  BY Zenon DEF ListOf, Field
<1>2. v = ParseNested(f, g)
  BY <1>1 DEF ReadField
<1>3. ParseNested(f, g) = IF IsUndef(g) THEN f.def ELSE IF g.t = "arr" THEN Collected(rs) ELSE Bad
  <2> HIDE DEF f, g
  <2>1. CASE IsUndef(g)
    BY <1>1, <2>1 DEF ParseNested
  <2>2. CASE ~IsUndef(g)
    BY <1>1, <2>2 DEF ParseNested
  <2> QED BY <2>1, <2>2
<1> HIDE DEF f, v, rs
<1>4. CASE IsUndef(g)
  <2>1. v = EmptyList
    BY <1>1, <1>2, <1>3, <1>4
  <2>2. v = Arr(v.a) /\ v.a = <<>>
    BY <2>1 DEF EmptyList, Arr
  <2>3. ToSet(<<>>) = {}
    BY DEF ToSet
  <2> QED BY <2>2, <2>3, EmptyIsSequence DEF v
<1>5. CASE ~IsUndef(g)
  <2>1. g.t = "arr" /\ v = Collected(rs) /\ ~IsBad(v)
    BY <1>2, <1>3, <1>5 DEF v, IsBad, Bad
  <2>2. IsSequence(g.a) /\ ItemsOf(g) = g.a
    BY <2>1 DEF Proper, ItemsOf
  <2>3. Len(g.a) \in Nat /\ DOMAIN g.a = 1 .. Len(g.a)
    BY <2>2, SequenceHas
  <2>4. rs = [i \in 1 .. Len(g.a) |-> ParseObject(g.a[i], T)]
    BY <2>3 DEF rs
  <2>5. rs = [i \in 1 .. Len(g.a) |-> rs[i]]
    BY <2>4
  <2>6. IsSequence(rs) /\ Len(rs) = Len(g.a)
    BY <2>3, <2>5, MappedSequence
  <2>7. /\ \A i \in 1 .. Len(rs) : ~IsBad(rs[i])
        /\ v = Arr(Those(rs, {r \in ToSet(rs) : ~IsUndef(r)}))
        /\ IsSequence(v.a)
        /\ \A y \in ToSet(v.a) : ~IsUndef(y) /\ \E i \in 1 .. Len(rs) : y = rs[i]
    BY <2>1, <2>6, CollectedIs, Zenon
  <2>8. v = Arr(v.a)
    BY <2>7 DEF Arr
  <2>9. ASSUME NEW y \in ToSet(v.a)
        PROVE  ReadItem(y) /\ \E x \in ToSet(ItemsOf(g)) : y = ParseObject(x, T)
    <3>1. PICK i \in 1 .. Len(rs) : y = rs[i]
      BY <2>7
    <3>2. ReadItem(y)
      BY <2>7, <3>1 DEF ReadItem
    <3>3. i \in 1 .. Len(g.a) /\ y = ParseObject(g.a[i], T)
      BY <2>4, <2>6, <3>1
    <3>4. g.a[i] \in ToSet(g.a)
      BY <2>2, <3>3, SequenceHas
    <3> QED BY <2>2, <3>2, <3>3, <3>4
  <2> QED BY <2>7, <2>8, <2>9 DEF v
<1> QED BY <1>4, <1>5

\* An object the parser returns.
LEMMA ItemIs ==
  ASSUME NEW x, NEW T, ReadItem(ParseObject(x, T))
  PROVE  /\ ParseObject(x, T) = Obj(Leaves(x, T)) /\ isRecord(x)
         /\ \A k \in DOMAIN T : /\ ParseObject(x, T).o[k] = ReadLeaf(x.o, k, T[k])
                                /\ ~IsBad(ReadLeaf(x.o, k, T[k]))
                                /\ T[k].needed => ~IsUndef(ReadLeaf(x.o, k, T[k]))
<1>1. ~IsBad(ParseObject(x, T)) /\ ParseObject(x, T) # Undef
  BY DEF ReadItem, IsUndef, Undef
<1>2. /\ ParseObject(x, T) = Obj(Leaves(x, T)) /\ isRecord(x)
      /\ \A k \in DOMAIN T : ~IsBad(Leaves(x, T)[k])
      /\ \A k \in DOMAIN T : T[k].needed => ~IsUndef(Leaves(x, T)[k])
  BY <1>1, ObjectRead
<1>3. \A k \in DOMAIN T : Leaves(x, T)[k] = ReadLeaf(x.o, k, T[k])
  BY DEF Leaves
<1>4. ParseObject(x, T).o = Leaves(x, T)
  BY <1>2 DEF Obj
<1> QED BY <1>2, <1>3, <1>4

\* Texts are trimmed in place.
LEMMA Trimmed ==
  ASSUME NEW x, Proper(x), x.t = "arr"
  PROVE  /\ TrimItems(x) = Arr([i \in DOMAIN x.a |-> TrimItem(x.a[i])])
         /\ IsSequence(TrimItems(x).a) /\ Len(TrimItems(x).a) = Len(x.a)
<1>1. x = Arr(x.a) /\ IsSequence(x.a)
  BY DEF Proper
<1>2. TrimItems(x) = Arr([i \in DOMAIN x.a |-> TrimItem(x.a[i])])
  BY <1>1 DEF TrimItems, Arr
<1> DEFINE a == [i \in DOMAIN x.a |-> TrimItem(x.a[i])]
<1>3. Len(x.a) \in Nat /\ DOMAIN x.a = 1 .. Len(x.a)
  BY <1>1, SequenceHas
<1>4. a = [i \in 1 .. Len(x.a) |-> a[i]]
  BY <1>3
<1>5. IsSequence(a) /\ Len(a) = Len(x.a)
  <2> HIDE DEF a
  <2> QED BY <1>3, <1>4, MappedSequence
<1> QED BY <1>2, <1>5 DEF Arr

\* A policy that the parser returns.
IsPolicy(p) ==
  \E x : p = ParseObject(x, PolicyFields) /\ ReadItem(p) /\ (isRecord(x) => Proper(Get(x.o, "outbounds")) /\ Proper(Get(x.o, "tag")))

\* What a parsed policy is.
LEMMA PolicyIs ==
  ASSUME NEW p, IsPolicy(p)
  PROVE  /\ p = Obj(p.o) /\ DOMAIN p.o = DOMAIN PolicyFields /\ IsText(p.o.tag) /\ Proper(p.o.tag)
         /\ p.o.type.s \in WordsOf({"loadBalance", "failover"})
         /\ p.o.strategy.s \in WordsOf({"roundRobin", "leastLatency", "random"})
         /\ p.o.outbounds = Arr(p.o.outbounds.a) /\ IsSequence(p.o.outbounds.a)
         /\ Len(p.o.outbounds.a) > 0
<1> DEFINE T == PolicyFields
           types == {"loadBalance", "failover"}
           strategies == {"roundRobin", "leastLatency", "random"}
           f == Needed(Field("some", Undef))
<1>1. PICK x : p = ParseObject(x, T) /\ ReadItem(p) /\ (isRecord(x) => Proper(Get(x.o, "outbounds")) /\ Proper(Get(x.o, "tag")))
  BY DEF IsPolicy
<1>2. /\ T["tag"] = Required(OptText) /\ T["type"] = Required(OptWord(types))
      /\ T["strategy"] = Word(strategies, "roundRobin") /\ T["outbounds"] = f
      /\ {"tag", "type", "strategy", "outbounds"} \subseteq DOMAIN T
  BY DEF PolicyFields
<1>3. f.kind = "some" /\ f.alias = "" /\ f.def = Undef
  BY DEF Needed, Field
<1>n. f.needed
  BY DEF Needed, Field
<1> HIDE DEF T, f, types, strategies
<1>4. /\ p = Obj(Leaves(x, T)) /\ isRecord(x)
      /\ \A k \in DOMAIN T : /\ p.o[k] = ReadLeaf(x.o, k, T[k]) /\ ~IsBad(ReadLeaf(x.o, k, T[k]))
                             /\ T[k].needed => ~IsUndef(ReadLeaf(x.o, k, T[k]))
  <2>1. ReadItem(ParseObject(x, T))
    BY <1>1
  <2> QED BY <1>1, <2>1, ItemIs
<1>5. p = Obj(p.o) /\ DOMAIN p.o = DOMAIN T
  BY <1>4 DEF Obj, Leaves
<1>6. /\ p.o.tag = ReadLeaf(x.o, "tag", Required(OptText)) /\ ~IsBad(ReadLeaf(x.o, "tag", Required(OptText)))
      /\ p.o.type = ReadLeaf(x.o, "type", Required(OptWord(types)))
      /\ ~IsBad(ReadLeaf(x.o, "type", Required(OptWord(types))))
      /\ p.o.strategy = ReadLeaf(x.o, "strategy", Word(strategies, "roundRobin"))
      /\ ~IsBad(ReadLeaf(x.o, "strategy", Word(strategies, "roundRobin")))
      /\ p.o.outbounds = ReadLeaf(x.o, "outbounds", f)
      /\ ~IsBad(ReadLeaf(x.o, "outbounds", f)) /\ ~IsUndef(ReadLeaf(x.o, "outbounds", f))
  BY <1>2, <1>n, <1>4
<1>7. IsText(p.o.tag) /\ Proper(p.o.tag)
  BY <1>1, <1>4, <1>6, RequiredText
<1>8. p.o.type.s \in WordsOf(types)
  BY <1>6, RequiredWord
<1>9. p.o.strategy.s \in WordsOf(strategies)
  <2>1. "roundRobin" \in strategies
    BY DEF strategies
  <2> QED BY <1>6, <2>1, WordRead
<1>10. /\ p.o.outbounds = Arr(p.o.outbounds.a) /\ IsSequence(p.o.outbounds.a)
       /\ Len(p.o.outbounds.a) > 0
  <2> DEFINE g == Get(x.o, "outbounds")
  <2>1. Accepts(f, g) /\ p.o.outbounds = Converted(f, g)
    <3>1. \/ ReadLeaf(x.o, "outbounds", f) = f.def
          \/ Accepts(f, g) /\ ReadLeaf(x.o, "outbounds", f) = Converted(f, g)
      BY <1>3, <1>6, LeafOf, Zenon
    <3>2. IsUndef(Undef)
      BY DEF IsUndef, Undef
    <3> QED BY <1>3, <1>6, <3>1, <3>2, Zenon
  <2>2. g.t = "arr" /\ g.a # <<>>
    BY <1>3, <2>1, AcceptsSome, Zenon
  <2>3. Converted(f, g) = TrimItems(g)
    BY <1>3, Zenon DEF Converted
  <2>4. Proper(g)
    BY <1>1, <1>4
  <2> HIDE DEF g
  <2>5. /\ p.o.outbounds = Arr(p.o.outbounds.a) /\ IsSequence(p.o.outbounds.a)
        /\ Len(p.o.outbounds.a) = Len(g.a)
    BY <2>1, <2>2, <2>3, <2>4, Trimmed DEF Arr
  <2>6. IsSequence(g.a)
    BY <2>2, <2>4 DEF Proper
  <2>7. Len(g.a) # 0
    <3>1. CASE Len(g.a) = 0
      BY <2>2, <2>6, <3>1, SameLists, EmptyIsSequence
    <3> QED BY <3>1
  <2>8. Len(g.a) \in Nat
    BY <2>6, SequenceHas
  <2> QED BY <2>5, <2>7, <2>8
<1> QED BY <1>5, <1>7, <1>8, <1>9, <1>10 DEF T, types, strategies

\* A node whose needed fields are complaints when absent is never dropped.
LEMMA NodeKept ==
  ASSUME NEW x, NEW T, ~IsBad(ParseNode(x, T)),
         \A k \in DOMAIN T : T[k].needed =>
            T[k].must /\ T[k].alias = "" /\ T[k].kind \notin Converting /\ T[k].kind \notin Nested
  PROVE  /\ ParseNode(x, T) = Obj(Nodes(x, T)) /\ isRecord(x)
         /\ \A k \in DOMAIN T : /\ ParseNode(x, T).o[k] = ReadField(x.o, k, T[k])
                                /\ ~IsBad(ReadField(x.o, k, T[k]))
<1>1. /\ isRecord(x)
      /\ \A k \in DOMAIN T : ~IsBad(Nodes(x, T)[k])
      /\ \/ \E k \in DOMAIN T : T[k].needed /\ IsUndef(Nodes(x, T)[k])
         \/ ParseNode(x, T) = Obj(Nodes(x, T))
  BY NodeRead, Zenon
<1>2. \A k \in DOMAIN T : Nodes(x, T)[k] = ReadField(x.o, k, T[k])
  BY Zenon DEF Nodes
<1>3. ASSUME NEW k \in DOMAIN T, T[k].needed, IsUndef(Nodes(x, T)[k]) PROVE FALSE
  <2> DEFINE f == T[k]
  <2>1. f.must /\ f.alias = "" /\ f.kind \notin Converting /\ f.kind \notin Nested
    BY <1>3, Zenon
  <2>2. Nodes(x, T)[k] = ReadField(x.o, k, f) /\ ~IsBad(ReadField(x.o, k, f))
    BY <1>1, <1>2, Zenon
  <2> HIDE DEF f
  <2>3. ReadField(x.o, k, f) = ReadLeaf(x.o, k, f)
    BY <2>1, FieldRead, Zenon
  <2>4. ~IsUndef(ReadLeaf(x.o, k, f))
    BY <2>1, <2>2, <2>3, PlainLeaf, Zenon
  <2> QED BY <1>3, <2>2, <2>3, <2>4, Zenon
<1>4. ParseNode(x, T) = Obj(Nodes(x, T))
  BY <1>1, <1>3, Zenon
<1>5. ParseNode(x, T).o = Nodes(x, T)
  BY <1>4, ObjIs, Zenon
<1> QED BY <1>1, <1>2, <1>4, <1>5, Zenon

\* The fields of the route section.
LEMMA RouteFieldsAre ==
  /\ DOMAIN RouteFields = {"defaultOutbound", "ruleSetFiles", "policies"}
  /\ RouteFields["defaultOutbound"] = Required(OptText)
  /\ RouteFields["ruleSetFiles"] = ListOf(RuleSetFileFields)
  /\ RouteFields["policies"] = ListOf(PolicyFields)
BY DEF RouteFields

\* The route that the parser returns.
LEMMA RouteIs ==
  ASSUME NEW x, NEW geo, ~IsBad(parseRouter(x, geo))
  PROVE  LET r == parseRouter(x, geo)
         IN  /\ isRecord(x) /\ r = Obj(r.o)
             /\ DOMAIN r.o = {"rules", "defaultOutbound", "ruleSetFiles", "policies"}
             /\ r.o.rules = RawRules(x, geo) /\ ~IsBad(RawRules(x, geo))
             /\ r.o.defaultOutbound = Get(x.o, "defaultOutbound") /\ IsText(r.o.defaultOutbound)
             /\ r.o.ruleSetFiles = ReadField(x.o, "ruleSetFiles", ListOf(RuleSetFileFields))
             /\ ~IsBad(r.o.ruleSetFiles)
             /\ r.o.policies = ReadField(x.o, "policies", ListOf(PolicyFields))
             /\ ~IsBad(r.o.policies)
<1> DEFINE r == parseRouter(x, geo)
           n == ParseNode(x, RouteFields)
           J == Joined([rules |-> RawRules(x, geo)], n.o)
<1>1. ~IsBad(n) /\ ~IsBad(RawRules(x, geo)) /\ r = Obj(J)
  BY DEF parseRouter, WithRules, IsBad, Bad
<1>2. \A T : ~ListOf(T).needed
  BY DEF ListOf, Field
<1>3. /\ Required(OptText).must /\ Required(OptText).alias = ""
      /\ Required(OptText).kind \notin Converting /\ Required(OptText).kind \notin Nested
  BY DEF Required, OptText, Field, Converting, Nested
<1>4. \A k \in DOMAIN RouteFields : RouteFields[k].needed =>
         /\ RouteFields[k].must /\ RouteFields[k].alias = ""
         /\ RouteFields[k].kind \notin Converting /\ RouteFields[k].kind \notin Nested
  BY <1>2, <1>3, RouteFieldsAre, Zenon
<1>5. /\ n = Obj(Nodes(x, RouteFields)) /\ isRecord(x)
      /\ \A k \in DOMAIN RouteFields : n.o[k] = ReadField(x.o, k, RouteFields[k])
                                       /\ ~IsBad(ReadField(x.o, k, RouteFields[k]))
  <2> HIDE DEF n
  <2> QED BY <1>1, <1>4, NodeKept, Zenon DEF n
<1>6. DOMAIN n.o = DOMAIN RouteFields
  BY <1>5 DEF Obj, Nodes
<1> HIDE DEF n
<1>7. /\ \A k : k \in DOMAIN J <=> k = "rules" \/ k \in DOMAIN n.o
      /\ J["rules"] = RawRules(x, geo)
      /\ \A k \in DOMAIN n.o : k # "rules" => J[k] = n.o[k]
  BY DEF Joined
<1>8. DOMAIN J = {"rules", "defaultOutbound", "ruleSetFiles", "policies"}
  BY <1>6, <1>7, RouteFieldsAre
<1> HIDE DEF J
<1>9. r.o = J
  BY <1>1 DEF Obj
<1> HIDE DEF r
<1>10. /\ r.o["defaultOutbound"] = ReadField(x.o, "defaultOutbound", Required(OptText))
       /\ ~IsBad(ReadField(x.o, "defaultOutbound", Required(OptText)))
       /\ r.o["ruleSetFiles"] = ReadField(x.o, "ruleSetFiles", ListOf(RuleSetFileFields))
       /\ ~IsBad(ReadField(x.o, "ruleSetFiles", ListOf(RuleSetFileFields)))
       /\ r.o["policies"] = ReadField(x.o, "policies", ListOf(PolicyFields))
       /\ ~IsBad(ReadField(x.o, "policies", ListOf(PolicyFields)))
  BY <1>5, <1>6, <1>7, <1>9, RouteFieldsAre
<1>11. r.o.defaultOutbound = Get(x.o, "defaultOutbound") /\ IsText(r.o.defaultOutbound)
  BY <1>10, NodeText
<1>12. r = Obj(r.o)
  BY <1>1, <1>9
<1> QED BY <1>1, <1>5, <1>7, <1>8, <1>9, <1>10, <1>11, <1>12 DEF r

\* A rule that the parser returns.
LEMMA RuleIs ==
  ASSUME NEW x, NEW geo, ReadItem(parseRouteRule(x, geo))
  PROVE  /\ ~IsBad(geo) /\ ~IsBad(ParseObject(x, RuleFields))
         /\ parseRouteRule(x, geo) = Obj(Expanded(ParseObject(x, RuleFields).o, geo))
         /\ RuleSound(parseRouteRule(x, geo), geo)
BY DEF parseRouteRule, ParsedRule, ReadItem, IsBad, Bad

\* The rules of a parsed route.
LEMMA RulesRead ==
  ASSUME NEW x, NEW geo, ~IsBad(RawRules(x, geo)), Proper(Get(x.o, "rules"))
  PROVE  LET v == RawRules(x, geo)
         IN  /\ v = Arr(v.a) /\ IsSequence(v.a) /\ Get(x.o, "rules").t = "arr"
             /\ \A y \in ToSet(v.a) :
                   ReadItem(y) /\ \E z \in ToSet(Get(x.o, "rules").a) : y = parseRouteRule(z, geo)
<1> DEFINE g == Get(x.o, "rules")
           v == RawRules(x, geo)
           rs == [i \in DOMAIN g.a |-> parseRouteRule(g.a[i], geo)]
<1>1. g.t = "arr" /\ v = Collected(rs) /\ ~IsBad(v)
  <2>1. isRecord(x) /\ g.t = "arr"
    BY DEF RawRules, IsBad, Bad
  <2>2. x.o["rules"] = g
    BY <2>1 DEF Get, Undef
  <2> QED BY <2>1, <2>2 DEF RawRules
<1> HIDE DEF v, rs
<1>2. IsSequence(g.a)
  BY <1>1 DEF Proper
<1>3. Len(g.a) \in Nat /\ DOMAIN g.a = 1 .. Len(g.a)
  BY <1>2, SequenceHas
<1>4. rs = [i \in 1 .. Len(g.a) |-> parseRouteRule(g.a[i], geo)]
  BY <1>3 DEF rs
<1>5. rs = [i \in 1 .. Len(g.a) |-> rs[i]]
  BY <1>4
<1>6. IsSequence(rs) /\ Len(rs) = Len(g.a)
  BY <1>3, <1>5, MappedSequence
<1>7. /\ \A i \in 1 .. Len(rs) : ~IsBad(rs[i])
      /\ v = Arr(Those(rs, {r \in ToSet(rs) : ~IsUndef(r)}))
      /\ IsSequence(v.a)
      /\ \A y \in ToSet(v.a) : ~IsUndef(y) /\ \E i \in 1 .. Len(rs) : y = rs[i]
  BY <1>1, <1>6, CollectedIs, Zenon
<1>8. v = Arr(v.a)
  BY <1>7 DEF Arr
<1>9. ASSUME NEW y \in ToSet(v.a)
      PROVE  ReadItem(y) /\ \E z \in ToSet(g.a) : y = parseRouteRule(z, geo)
  <2>1. PICK i \in 1 .. Len(rs) : y = rs[i]
    BY <1>7, Zenon
  <2>2. ReadItem(y)
    BY <1>7, <2>1 DEF ReadItem
  <2>3. i \in 1 .. Len(g.a) /\ y = parseRouteRule(g.a[i], geo)
    BY <1>4, <1>6, <2>1
  <2>4. g.a[i] \in ToSet(g.a)
    BY <1>2, <2>3, SequenceHas
  <2> QED BY <2>2, <2>3, <2>4
<1> QED BY <1>1, <1>7, <1>8, <1>9 DEF v

\* The list of outbounds that the parser returns.
LEMMA OutboundsRead ==
  ASSUME NEW g, Proper(g), ~IsBad(ParseNonEmpty(g, parseOutbound))
  PROVE  LET v == ParseNonEmpty(g, parseOutbound)
         IN  /\ v = Arr(v.a) /\ IsSequence(v.a) /\ g.t = "arr"
             /\ \A y \in ToSet(v.a) : IsOutbound(y)
<1> DEFINE v == ParseNonEmpty(g, parseOutbound)
           rs == [i \in DOMAIN g.a |-> parseOutbound(g.a[i])]
<1>1. g.t = "arr" /\ v = Collected(rs) /\ ~IsBad(v)
  BY DEF ParseNonEmpty, ItemsOf, IsBad, Bad
<1> HIDE DEF v, rs
<1>2. IsSequence(g.a)
  BY <1>1 DEF Proper
<1>3. Len(g.a) \in Nat /\ DOMAIN g.a = 1 .. Len(g.a)
  BY <1>2, SequenceHas
<1>4. rs = [i \in 1 .. Len(g.a) |-> parseOutbound(g.a[i])]
  BY <1>3 DEF rs
<1>5. rs = [i \in 1 .. Len(g.a) |-> rs[i]]
  BY <1>4
<1>6. IsSequence(rs) /\ Len(rs) = Len(g.a)
  BY <1>3, <1>5, MappedSequence
<1>7. /\ \A i \in 1 .. Len(rs) : ~IsBad(rs[i])
      /\ v = Arr(Those(rs, {r \in ToSet(rs) : ~IsUndef(r)}))
      /\ IsSequence(v.a)
      /\ \A y \in ToSet(v.a) : ~IsUndef(y) /\ \E i \in 1 .. Len(rs) : y = rs[i]
  BY <1>1, <1>6, CollectedIs, Zenon
<1>8. v = Arr(v.a)
  BY <1>7 DEF Arr
<1>9. ASSUME NEW y \in ToSet(v.a) PROVE IsOutbound(y)
  <2>1. PICK i \in 1 .. Len(rs) : y = rs[i]
    BY <1>7, Zenon
  <2>2. ReadItem(y) /\ y = parseOutbound(g.a[i])
    BY <1>4, <1>6, <1>7, <2>1 DEF ReadItem
  <2> QED BY <2>2 DEF IsOutbound
<1> QED BY <1>1, <1>7, <1>8, <1>9 DEF v

\* A list of a document is proper.
LEMMA ProperList ==
  ASSUME NEW x, x = Arr(x.a), IsSequence(x.a)
  PROVE  Proper(x)
<1>1. x.t = "arr"
  BY ArrIs
<1> QED BY <1>1 DEF Proper

\* Two lists, one after the other.
LEMMA Concatenated ==
  ASSUME NEW a, NEW b, IsSequence(a), IsSequence(b)
  PROVE  /\ IsSequence(a \o b) /\ Len(a \o b) = Len(a) + Len(b)
         /\ \A i \in 1 .. Len(a) : (a \o b)[i] = a[i]
         /\ \A i \in 1 .. Len(b) : (a \o b)[Len(a) + i] = b[i]
<1> DEFINE S == ToSet(a) \cup ToSet(b)
           c == a \o b
<1>1. a \in Seq(S) /\ b \in Seq(S)
  BY DEF IsSequence
<1> HIDE DEF S
<1>2. /\ c \in Seq(S) /\ Len(c) = Len(a) + Len(b) /\ Len(a) \in Nat /\ Len(b) \in Nat
      /\ \A i \in 1 .. Len(a) : c[i] = a[i]
      /\ \A i \in 1 .. Len(b) : c[Len(a) + i] = b[i]
  BY <1>1
<1> HIDE DEF c
<1>3. IsSequence(c)
  <2>1. Len(c) \in Nat /\ c \in [1 .. Len(c) -> S]
    BY <1>2
  <2>2. c = [i \in 1 .. Len(c) |-> c[i]]
    BY <2>1
  <2> QED BY <2>1, <2>2, SequenceIs
<1> QED BY <1>2, <1>3 DEF c

\* What a configuration has that was parsed.
LEMMA SoundShape ==
  ASSUME NEW c, Sound(c)
  PROVE  /\ c.t = "obj" /\ c = Obj(c.o) /\ CrossChecks(c.o) /\ ~IsBad(c)
         /\ DOMAIN c.o = SectionKeys \cup {"configVersion", "inbounds", "outbounds", "route"}
         /\ \A k \in DOMAIN c.o : ~IsBad(c.o[k])
<1>1. PICK root : /\ c = Obj(Sections(root))
                  /\ \A k \in DOMAIN Sections(root) : ~IsBad(Sections(root)[k])
                  /\ CrossChecks(Sections(root))
  BY DEF Sound
<1>2. c.o = Sections(root) /\ c.t = "obj"
  BY <1>1, ObjIs
<1>3. ~IsBad(c)
  BY <1>2 DEF IsBad
<1> QED BY <1>1, <1>2, <1>3, SectionsAre

\* The outbounds of a sound configuration.
LEMMA SoundOutbounds ==
  ASSUME NEW c, Sound(c)
  PROVE  /\ c.o.outbounds = Arr(c.o.outbounds.a) /\ IsSequence(c.o.outbounds.a)
         /\ \A y \in ToSet(c.o.outbounds.a) : IsOutbound(y)
<1>1. PICK root : /\ Listed(root) /\ c = Obj(Sections(root))
                  /\ \A k \in DOMAIN Sections(root) : ~IsBad(Sections(root)[k])
  BY DEF Sound
<1>2. c.o = Sections(root)
  BY <1>1, ObjIs
<1> DEFINE g == Get(root, "outbounds")
<1>3. c.o.outbounds = ParseNonEmpty(g, parseOutbound) /\ ~IsBad(ParseNonEmpty(g, parseOutbound))
  BY <1>1, <1>2, SectionsAre
<1>4. Proper(g)
  BY <1>1 DEF Listed
<1> HIDE DEF g
<1> QED BY <1>3, <1>4, OutboundsRead

\* Its route.
LEMMA SoundRoute ==
  ASSUME NEW c, Sound(c)
  PROVE  /\ c.o.route = Obj(c.o.route.o)
         /\ DOMAIN c.o.route.o = {"rules", "defaultOutbound", "ruleSetFiles", "policies"}
         /\ IsText(c.o.route.o.defaultOutbound) /\ Proper(c.o.route.o.defaultOutbound)
         /\ c.o.route.o.rules = Arr(c.o.route.o.rules.a) /\ IsSequence(c.o.route.o.rules.a)
         /\ \A y \in ToSet(c.o.route.o.rules.a) : RuleSound(y, c.o.geo)
         /\ c.o.route.o.policies = Arr(c.o.route.o.policies.a) /\ IsSequence(c.o.route.o.policies.a)
         /\ \A p \in ToSet(c.o.route.o.policies.a) : IsPolicy(p)
         /\ c.o.route.o.ruleSetFiles = Arr(c.o.route.o.ruleSetFiles.a)
         /\ IsSequence(c.o.route.o.ruleSetFiles.a)
<1>1. PICK root : /\ Listed(root) /\ c = Obj(Sections(root))
                  /\ \A k \in DOMAIN Sections(root) : ~IsBad(Sections(root)[k])
  BY DEF Sound
<1> DEFINE x == Get(root, "route")
           geo == c.o.geo
           r == c.o.route
<1>2. c.o = Sections(root)
  BY <1>1, ObjIs
<1>3. r = parseRouter(x, geo) /\ ~IsBad(parseRouter(x, geo))
  <2>1. "geo" \in SectionKeys
    BY DEF SectionKeys
  <2> QED BY <1>1, <1>2, <2>1, SectionsAre
<1>4. isRecord(x) => /\ Proper(Get(x.o, "rules")) /\ Proper(Get(x.o, "policies"))
                     /\ Proper(Get(x.o, "ruleSetFiles")) /\ Proper(Get(x.o, "defaultOutbound"))
                     /\ \A p \in ToSet(ItemsOf(Get(x.o, "policies"))) :
                           isRecord(p) => Proper(Get(p.o, "outbounds")) /\ Proper(Get(p.o, "tag"))
  BY <1>1 DEF Listed
<1> HIDE DEF x, geo, r
<1>5. /\ isRecord(x) /\ r = Obj(r.o)
      /\ DOMAIN r.o = {"rules", "defaultOutbound", "ruleSetFiles", "policies"}
      /\ r.o.rules = RawRules(x, geo) /\ ~IsBad(RawRules(x, geo))
      /\ IsText(r.o.defaultOutbound) /\ Proper(r.o.defaultOutbound)
      /\ r.o.ruleSetFiles = ReadField(x.o, "ruleSetFiles", ListOf(RuleSetFileFields))
      /\ ~IsBad(r.o.ruleSetFiles)
      /\ r.o.policies = ReadField(x.o, "policies", ListOf(PolicyFields))
      /\ ~IsBad(r.o.policies)
  BY <1>3, <1>4, RouteIs
<1>6. /\ r.o.rules = Arr(r.o.rules.a) /\ IsSequence(r.o.rules.a)
      /\ \A y \in ToSet(r.o.rules.a) : RuleSound(y, geo)
  <2>1. /\ r.o.rules = Arr(r.o.rules.a) /\ IsSequence(r.o.rules.a)
        /\ \A y \in ToSet(r.o.rules.a) :
              ReadItem(y) /\ \E z \in ToSet(Get(x.o, "rules").a) : y = parseRouteRule(z, geo)
    BY <1>4, <1>5, RulesRead
  <2>2. ASSUME NEW y \in ToSet(r.o.rules.a) PROVE RuleSound(y, geo)
    <3>1. PICK z : y = parseRouteRule(z, geo) /\ ReadItem(parseRouteRule(z, geo))
      BY <2>1
    <3> QED BY <3>1, RuleIs
  <2> QED BY <2>1, <2>2
<1>7. /\ r.o.policies = Arr(r.o.policies.a) /\ IsSequence(r.o.policies.a)
      /\ \A p \in ToSet(r.o.policies.a) : IsPolicy(p)
  <2>1. /\ r.o.policies = Arr(r.o.policies.a) /\ IsSequence(r.o.policies.a)
        /\ \A y \in ToSet(r.o.policies.a) :
              ReadItem(y) /\ \E z \in ToSet(ItemsOf(Get(x.o, "policies"))) : y = ParseObject(z, PolicyFields)
    BY <1>4, <1>5, ListRead
  <2>2. ASSUME NEW p \in ToSet(r.o.policies.a) PROVE IsPolicy(p)
    <3>1. PICK z \in ToSet(ItemsOf(Get(x.o, "policies"))) : ReadItem(p) /\ p = ParseObject(z, PolicyFields)
      BY <2>1
    <3>2. isRecord(z) => Proper(Get(z.o, "outbounds")) /\ Proper(Get(z.o, "tag"))
      BY <1>4, <1>5
    <3> QED BY <3>1, <3>2 DEF IsPolicy
  <2> QED BY <2>1, <2>2
<1>8. /\ r.o.ruleSetFiles = Arr(r.o.ruleSetFiles.a) /\ IsSequence(r.o.ruleSetFiles.a)
  BY <1>4, <1>5, ListRead
<1> QED BY <1>5, <1>6, <1>7, <1>8 DEF r, geo

\* What adding rules to a configuration does.
LEMMA ExpandedIs ==
  ASSUME Sound(config)
  PROVE  /\ ExpandedConfig = Obj(ExpandedConfig.o) /\ DOMAIN ExpandedConfig.o = DOMAIN config.o
         /\ \A k \in DOMAIN config.o : k # "route" => ExpandedConfig.o[k] = config.o[k]
         /\ ExpandedConfig.o.route = Obj(ExpandedConfig.o.route.o)
         /\ DOMAIN ExpandedConfig.o.route.o = DOMAIN config.o.route.o
         /\ \A k \in DOMAIN config.o.route.o :
               k # "rules" => ExpandedConfig.o.route.o[k] = config.o.route.o[k]
         /\ ExpandedConfig.o.route.o.rules = Arr(expanded \o config.o.route.o.rules.a)
<1> DEFINE c == config.o
           r == c.route.o
           new == expanded \o r.rules.a
           rules == [c.route.o.rules EXCEPT !.a = expanded \o @]
           ro == [r EXCEPT !.rules.a = expanded \o @]
           route == [c.route EXCEPT !.o.rules.a = expanded \o @]
           co == [c EXCEPT !.route.o.rules.a = expanded \o @]
<1>1. config = Obj(c) /\ "route" \in DOMAIN c
  BY SoundShape
<1>2. c.route = Obj(r) /\ "rules" \in DOMAIN r /\ r.rules = Arr(r.rules.a)
  BY SoundRoute
<1>3. ExpandedConfig = Obj(co)
  <2>1. ExpandedConfig = [config EXCEPT !.o.route.o.rules.a = expanded \o @]
    BY DEF ExpandedConfig
  <2>2. DOMAIN config = {"t", "o"} /\ config.t = "obj" /\ config = [k \in {"t", "o"} |-> config[k]]
    BY <1>1 DEF Obj
  <2> QED BY <2>1, <2>2 DEF Obj
<1>4. /\ DOMAIN co = DOMAIN c /\ co.route = route
      /\ \A k \in DOMAIN c : k # "route" => co[k] = c[k]
  BY <1>1
<1>5. route = Obj(ro)
  <2> DEFINE x == c.route
  <2>1. DOMAIN x = {"t", "o"} /\ x.t = "obj" /\ x.o = r
    BY <1>2 DEF Obj
  <2>2. route = [x EXCEPT !.o.rules.a = expanded \o x.o.rules.a]
    OBVIOUS
  <2>3. ro = [x.o EXCEPT !.rules.a = expanded \o x.o.rules.a]
    OBVIOUS
  <2> HIDE DEF x, route, ro
  <2> QED BY <2>1, <2>2, <2>3, Zenon DEF Obj
<1>6. /\ DOMAIN ro = DOMAIN r /\ ro.rules = rules
      /\ \A k \in DOMAIN r : k # "rules" => ro[k] = r[k]
  BY <1>2
<1>7. rules = Arr(new)
  <2> DEFINE x == r.rules
  <2>1. DOMAIN x = {"t", "a"} /\ x.t = "arr"
    BY <1>2 DEF Arr
  <2>2. rules = [x EXCEPT !.a = new]
    OBVIOUS
  <2> HIDE DEF x, rules, new
  <2> QED BY <2>1, <2>2 DEF Arr
<1> HIDE DEF co, route, ro, rules
<1>8. ExpandedConfig.o = co /\ co.route.o = ro
  BY <1>3, <1>4, <1>5, ObjIs
<1> QED BY <1>3, <1>4, <1>5, <1>6, <1>7, <1>8

\* The second parse reads lists that are lists.
LEMMA ReparsedIsSound ==
  ASSUME Sound(config), IsSequence(expanded), ~IsBad(parseConfig(ExpandedConfig))
  PROVE  Sound(parseConfig(ExpandedConfig))
<1> DEFINE e == ExpandedConfig.o
           r == e.route.o
<1>1. /\ DOMAIN e = DOMAIN config.o /\ e.outbounds = config.o.outbounds
      /\ "route" \in DOMAIN e /\ "outbounds" \in DOMAIN e
  BY ExpandedIs, SoundShape DEF SectionKeys
<1>2. /\ DOMAIN r = {"rules", "defaultOutbound", "ruleSetFiles", "policies"}
      /\ r.policies = config.o.route.o.policies /\ r.ruleSetFiles = config.o.route.o.ruleSetFiles
      /\ r.rules = Arr(expanded \o config.o.route.o.rules.a)
      /\ r.defaultOutbound = config.o.route.o.defaultOutbound
  BY ExpandedIs, SoundRoute
<1> HIDE DEF r
<1>3. Proper(e.outbounds)
  BY <1>1, SoundOutbounds, ProperList
<1>4. Proper(r.policies) /\ Proper(r.ruleSetFiles) /\ Proper(r.defaultOutbound)
  BY <1>2, SoundRoute, ProperList
<1>5. Proper(r.rules)
  <2>1. IsSequence(expanded \o config.o.route.o.rules.a)
    BY SoundRoute, Concatenated
  <2> QED BY <1>2, <2>1, ArrIs DEF Proper
<1>6. ASSUME NEW p \in ToSet(ItemsOf(r.policies)) 
      PROVE  isRecord(p) /\ Proper(Get(p.o, "outbounds")) /\ Proper(Get(p.o, "tag"))
  <2>1. ItemsOf(r.policies) = r.policies.a
    BY <1>2, SoundRoute, ArrIs DEF ItemsOf
  <2>2. IsPolicy(p)
    BY <1>2, <1>6, <2>1, SoundRoute
  <2>3. /\ p = Obj(p.o) /\ "outbounds" \in DOMAIN p.o
        /\ p.o.outbounds = Arr(p.o.outbounds.a) /\ IsSequence(p.o.outbounds.a)
        /\ "tag" \in DOMAIN p.o /\ Proper(p.o.tag)
    BY <2>2, PolicyIs DEF PolicyFields
  <2> QED BY <2>3, ObjIs, ProperList DEF Get, isRecord
<1>7. Listed(e)
  <2>1. Get(e, "route") = e.route /\ Get(e, "outbounds") = e.outbounds
    BY <1>1 DEF Get
  <2>2. Get(e, "route").o = r
    BY <2>1 DEF r
  <2>3. /\ Get(r, "rules") = r.rules /\ Get(r, "policies") = r.policies
        /\ Get(r, "ruleSetFiles") = r.ruleSetFiles /\ Get(r, "defaultOutbound") = r.defaultOutbound
    BY <1>2 DEF Get
  <2> QED BY <1>3, <1>4, <1>5, <1>6, <2>1, <2>2, <2>3 DEF Listed
<1> QED BY <1>7, ConfigIs DEF Sound

-----------------------------------------------------------------------------
(* The inductive invariant of loading and comparing.                       *)

\* What the loader keeps: the source is a file, and a configuration it loaded is sound.
LoadInv ==
  /\ step \in {"start", "read", "parsed", "loaded", "failed"}
  /\ source \in ConfigFiles
  /\ config.t \in {"undef", "obj", "bad"} /\ result.t \in {"undef", "obj", "bad"}
  /\ filesRead \in Nat /\ (filesRead = 0 => expanded = <<>>)
  /\ IsSequence(expanded)
  /\ step \in {"read", "parsed"} => source # Unreadable
  /\ step = "parsed" => config = parseConfig(Migrated(source)) /\ ~IsBad(config)
  /\ step = "loaded" => Sound(result)

\* The report belongs to the configurations it was made of.
Reported ==
  /\ step = "loaded" /\ Sound(current)
  /\ report = RuntimeReport(current, result, createOutboundShadowReport(current, result),
                            changedRuntimeComponents(current, result))

\* The inductive invariant of loading and planning.
PlanInv == LoadInv /\ (report = NoReport \/ Reported)

\* What parsing a document gives.
LEMMA ParseResult ==
  ASSUME NEW x
  PROVE  parseConfig(x).t \in {"obj", "bad"} /\ (parseConfig(x).t = "bad" <=> IsBad(parseConfig(x)))
BY DEF parseConfig, Checked, Obj, Bad, IsBad

\* The first parse of a file gives a sound configuration.
LEMMA ParsedIsSound ==
  ASSUME LoadInv, step = "parsed"
  PROVE  Parsed(source) /\ Sound(config)
<1>1. source \in ConfigFiles /\ source # Unreadable
  BY DEF LoadInv
<1>2. Parsed(source)
  BY <1>1, FilesAssumption
<1>3. config = parseConfig(Migrated(source)) /\ ~IsBad(parseConfig(Migrated(source)))
  BY DEF LoadInv
<1> QED BY <1>2, <1>3, FileIsSound

\* At first nothing is loaded.
LEMMA LoadInitInv == LoaderInit => LoadInv
<1> SUFFICES ASSUME LoaderInit PROVE LoadInv
  OBVIOUS
<1>1. /\ step = "start" /\ source \in ConfigFiles
      /\ config = Undef /\ expanded = <<>> /\ filesRead = 0 /\ result = Undef
  BY DEF LoaderInit
<1>2. Undef.t = "undef"
  BY DEF Undef
<1> QED BY <1>1, <1>2, EmptyIsSequence DEF LoadInv

\* Every file of rules adds a list of rules.
LEMMA FilesAddLists ==
  ASSUME LoadInv, LoadRuleSetFile
  PROVE  LoadInv'
<1>1. step = "parsed" /\ filesRead \in Nat /\ IsSequence(expanded)
  BY DEF LoadRuleSetFile, LoadInv
<1>2. PICK input \in RuleSetFiles :
         LET set   == RuleSets[filesRead + 1]
             rules == IF input = Unreadable THEN Undef ELSE extractRuleSetRules(input)
         IN  IF IsUndef(rules) \/ (\E i \in DOMAIN rules.a : ~isRecord(rules.a[i])) THEN Fail
             ELSE /\ expanded' = expanded \o [i \in DOMAIN rules.a |-> RuleOfSet(set, i, rules.a[i])]
                  /\ filesRead' = filesRead + 1
                  /\ UNCHANGED <<step, source, config, result>>
  BY DEF LoadRuleSetFile
<1> DEFINE set == RuleSets[filesRead + 1]
           rules == IF input = Unreadable THEN Undef ELSE extractRuleSetRules(input)
           more == [i \in DOMAIN rules.a |-> RuleOfSet(set, i, rules.a[i])]
<1>3. CASE Fail
  BY <1>3 DEF Fail, LoadInv
<1>4. CASE ~Fail
  <2>1. /\ ~IsUndef(rules) /\ expanded' = expanded \o more /\ filesRead' = filesRead + 1
        /\ UNCHANGED <<step, source, config, result>>
    BY <1>2, <1>4
  <2>2. Proper(rules) /\ rules.t = "arr"
    <3>1. IsUndef(Undef)
      BY DEF IsUndef, Undef
    <3>2. input # Unreadable /\ rules = extractRuleSetRules(input) /\ rules # Undef
      BY <2>1, <3>1
    <3>3. Parsed(input)
      BY <3>2, FilesAssumption
    <3>4. CASE input.t = "arr"
      <4>1. rules = input
        BY <3>2, <3>4 DEF extractRuleSetRules, isRecord
      <4> QED BY <3>3, <3>4, <4>1, ProperValue
    <3>5. CASE input.t # "arr"
      <4>1. isRecord(input) /\ Get(input.o, "rules").t = "arr" /\ rules = input.o["rules"]
        BY <3>2, <3>5 DEF extractRuleSetRules
      <4>2. Get(input.o, "rules") = input.o["rules"]
        BY <4>1 DEF Get, Undef
      <4>3. "rules" \notin MapKeys
        BY DEF MapKeys
      <4>4. Value6(Get(input.o, "rules")) \/ Get(input.o, "rules") = Undef
        BY <3>3, <4>1, <4>3, FieldOf
      <4> QED BY <4>1, <4>2, <4>4, ProperValue
    <3> QED BY <3>4, <3>5
  <2> HIDE DEF rules, set
  <2>3. IsSequence(rules.a)
    BY <2>2 DEF Proper
  <2>4. Len(rules.a) \in Nat /\ DOMAIN rules.a = 1 .. Len(rules.a)
    BY <2>3, SequenceHas
  <2>5. more = [i \in 1 .. Len(rules.a) |-> more[i]]
    BY <2>4
  <2>6. IsSequence(more)
    <3> HIDE DEF more
    <3> QED BY <2>4, <2>5, MappedSequence
  <2> HIDE DEF more
  <2>7. IsSequence(expanded')
    <3>1. IsSequence(expanded \o more)
      BY <1>1, <2>6, Concatenated
    <3> QED BY <2>1, <3>1
  <2>8. filesRead' \in Nat /\ filesRead' # 0
    BY <1>1, <2>1
  <2> QED BY <2>1, <2>7, <2>8 DEF LoadInv
<1> QED BY <1>3, <1>4

\* A step of the loader keeps it.
LEMMA LoadNextInv ==
  ASSUME LoadInv, [LoaderNext]_loaderVars
  PROVE  LoadInv'
<1>1. CASE ReadConfig
  BY <1>1 DEF ReadConfig, Fail, LoadInv
<1>2. CASE ParseFirst
  <2>1. /\ step = "read" /\ config' = parseConfig(Migrated(source))
        /\ step' = (IF IsBad(config') THEN "failed" ELSE "parsed")
        /\ UNCHANGED <<source, expanded, filesRead, result>>
    BY <1>2 DEF ParseFirst
  <2>2. config'.t \in {"obj", "bad"}
    BY <2>1, ParseResult
  <2> QED BY <2>1, <2>2 DEF LoadInv
<1>3. CASE LoadRuleSetFile
  BY <1>3, FilesAddLists
<1>4. CASE FinishExpansion
  <2>1. /\ step = "parsed"
        /\ result' = (IF RuleSets = <<>> THEN config ELSE parseConfig(ExpandedConfig))
        /\ step' = (IF IsBad(result') THEN "failed" ELSE "loaded")
        /\ UNCHANGED <<source, config, expanded, filesRead>>
    BY <1>4 DEF FinishExpansion
  <2>2. Sound(config)
    BY <2>1, ParsedIsSound
  <2>3. result'.t \in {"obj", "bad"}
    BY <2>1, <2>2, ParseResult, SoundShape
  <2>4. ASSUME step' = "loaded" PROVE Sound(result')
    <3>1. ~IsBad(result')
      BY <2>1, <2>4
    <3>2. CASE RuleSets = <<>>
      BY <2>1, <2>2, <3>2
    <3>3. CASE RuleSets # <<>>
      <4>1. result' = parseConfig(ExpandedConfig)
        BY <2>1, <3>3
      <4>2. IsSequence(expanded)
        BY DEF LoadInv
      <4> QED BY <2>2, <3>1, <4>1, <4>2, ReparsedIsSound
    <3> QED BY <3>2, <3>3
  <2> QED BY <2>1, <2>3, <2>4 DEF LoadInv
<1>5. CASE Settled \/ UNCHANGED loaderVars
  BY <1>5 DEF Settled, loaderVars, LoadInv
<1> QED BY <1>1, <1>2, <1>3, <1>4, <1>5 DEF LoaderNext

\* Every step of the loader and of the planner keeps the invariant: whatever
\* files are read, merged, expanded and parsed again, loadConfig (config/loader.ts)
\* returns a sound configuration or a complaint, and a report is made of two of them.
THEOREM PlanInvariant == PlanSpec => []PlanInv
<1>1. PlanInit => PlanInv
  BY LoadInitInv DEF PlanInit, PlanInv
<1>2. PlanInv /\ [PlanNext]_planVars => PlanInv'
  <2> SUFFICES ASSUME PlanInv, [PlanNext]_planVars PROVE PlanInv'
    OBVIOUS
  <2>1. CASE LoaderNext /\ UNCHANGED <<current, report>>
    <3>1. LoadInv'
      BY <2>1, LoadNextInv DEF PlanInv
    <3>2. ASSUME report # NoReport PROVE Reported'
      <4>1. Reported /\ step = "loaded"
        BY <3>2 DEF PlanInv, Reported
      <4>2. UNCHANGED <<step, result, current, report>>
        BY <2>1, <4>1 DEF LoaderNext, ReadConfig, ParseFirst, LoadRuleSetFile, FinishExpansion,
                          Settled, loaderVars
      <4> QED BY <4>1, <4>2 DEF Reported
    <3> QED BY <2>1, <3>1, <3>2 DEF PlanInv
  <2>2. CASE Compare
    <3>1. PICK file \in CurrentFiles :
             /\ current' = parseConfig(Migrated(file))
             /\ report' = RuntimeReport(current', result, createOutboundShadowReport(current', result),
                                        changedRuntimeComponents(current', result))
      BY <2>2 DEF Compare
    <3>2. Parsed(file) /\ ~IsBad(parseConfig(Migrated(file)))
      BY CurrentAssumption
    <3>3. Sound(current')
      BY <3>1, <3>2, FileIsSound
    <3>4. step = "loaded" /\ UNCHANGED loaderVars
      BY <2>2 DEF Compare
    <3>5. step' = step /\ result' = result /\ LoadInv'
      BY <3>4 DEF loaderVars, PlanInv, LoadInv
    <3> QED BY <3>1, <3>3, <3>4, <3>5 DEF PlanInv, Reported
  <2>3. CASE UNCHANGED planVars
    BY <2>3 DEF planVars, loaderVars, PlanInv, LoadInv, Reported
  <2> QED BY <2>1, <2>2, <2>3 DEF PlanNext
<1> QED BY <1>1, <1>2, PTL DEF PlanSpec

\* The types.
LEMMA PlanTypes == PlanInv => PlanTypeOK
<1> SUFFICES ASSUME PlanInv PROVE PlanTypeOK
  OBVIOUS
<1>1. LoaderTypeOK
  <2>1. source = Unreadable \/ Parsed(source)
    BY FilesAssumption DEF PlanInv, LoadInv
  <2> QED BY <2>1 DEF PlanInv, LoadInv, LoaderTypeOK
<1>2. report = NoReport \/ (step = "loaded" /\ current.t = "obj")
  BY SoundShape DEF PlanInv, Reported
<1>3. DOMAIN report.plan \subseteq DOMAIN componentDefinitions
  <2>1. CASE report = NoReport
    BY <2>1 DEF NoReport
  <2>2. CASE Reported
    <3>1. report.plan = createDryRunReloadPlan(current, result)
      BY <2>2 DEF Reported, RuntimeReport
    <3> QED BY <3>1 DEF createDryRunReloadPlan
  <2> QED BY <2>1, <2>2 DEF PlanInv
<1> QED BY <1>1, <1>2, <1>3 DEF PlanTypeOK

\* The type invariant of the loader and of the planner.
THEOREM PlanTyped == PlanSpec => []PlanTypeOK
BY PlanInvariant, PlanTypes, PTL

-----------------------------------------------------------------------------
(* Whatever is loaded can be built.                                        *)

\* The tag of a list's member is among the tags of the list.
LEMMA TagListed ==
  ASSUME NEW list, NEW x \in ToSet(list.a)
  PROVE  Tag(x) \in TagsOf(list)
BY DEF ToSet, TagsOf, Tag

\* The checks across sections that concern outbounds and policies.
LEMMA SoundReferences ==
  ASSUME NEW c, Sound(c)
  PROVE  /\ checkUniqueTags(c.o.outbounds) /\ checkUniqueTags(c.o.route.o.policies)
         /\ TagsOf(c.o.route.o.policies) \cap TagsOf(c.o.outbounds) = {}
         /\ {c.o.route.o.defaultOutbound.s} \cup TargetsOf(c.o.route.o.rules) \subseteq RouteTargets(c.o)
         /\ \A p \in ToSet(c.o.route.o.policies.a) : \A m \in ToSet(p.o.outbounds.a) :
               m.s \in TagsOf(c.o.outbounds)
<1>1. CrossChecks(c.o)
  BY SoundShape
<1> QED BY <1>1 DEF CrossChecks, checkOutboundReferences

\* The same for the policies.
LEMMA SoundPolicies ==
  ASSUME NEW c, Sound(c)
  PROVE  validatePolicies(c)
<1> DEFINE pols == c.o.route.o.policies
           tags == TagsOf(c.o.outbounds)
<1>1. /\ checkUniqueTags(pols) /\ TagsOf(pols) \cap tags = {}
      /\ \A p \in ToSet(pols.a) : \A m \in ToSet(p.o.outbounds.a) : m.s \in tags
  BY SoundReferences
<1>2. \A p \in ToSet(pols.a) : IsPolicy(p)
  BY SoundRoute
<1> HIDE DEF pols, tags
<1>3. ASSUME NEW p \in ToSet(pols.a)
      PROVE  /\ p.o.type.s \in WordsOf({"loadBalance", "failover"})
             /\ p.o.strategy.s \in WordsOf({"roundRobin", "leastLatency", "random"})
             /\ Tag(p) \notin tags
             /\ p.o.outbounds.a # <<>>
  <2>1. IsPolicy(p)
    BY <1>2
  <2>2. Tag(p) \in TagsOf(pols)
    BY TagListed
  <2>3. Tag(p) \notin tags
    BY <1>1, <2>2
  <2>4. p.o.outbounds.a # <<>>
    BY <2>1, PolicyIs, EmptyIsSequence
  <2> QED BY <2>1, <2>3, <2>4, PolicyIs
<1> QED BY <1>1, <1>3 DEF validatePolicies, pols, tags

\* The same for the rules.
LEMMA SoundRules ==
  ASSUME NEW c, Sound(c)
  PROVE  RouterCompiles(c)
<1> SUFFICES ASSUME NEW x \in ToSet(c.o.route.o.rules.a), NEW b \in ToSet(Texts(x.o.ipCidr))
             PROVE  isValidCidr(b)
  BY DEF RouterCompiles
<1>1. RuleSound(x, c.o.geo)
  BY SoundRoute
<1>2. PICK i \in DOMAIN ItemsOf(x.o.ipCidr) : b = ItemsOf(x.o.ipCidr)[i].s
  BY DEF Texts, ToSet
<1>3. ItemsOf(x.o.ipCidr)[i] \in ToSet(ItemsOf(x.o.ipCidr))
  BY DEF ToSet
<1> QED BY <1>1, <1>2, <1>3 DEF RuleSound

\* The validator's complaints about a configuration that was parsed.
LEMMA SoundErrors ==
  ASSUME NEW c, Sound(c), NEW e \in Errors(c)
  PROVE  e.code \in {"unsupported-type", "experimental-not-enabled", "invalid-target-host"}
<1> DEFINE outs == c.o.outbounds.a
           pols == c.o.route.o.policies
           codes == {"unsupported-type", "experimental-not-enabled", "invalid-target-host"}
<1>1. IsSequence(outs) /\ \A y \in ToSet(outs) : IsOutbound(y)
  BY SoundOutbounds
<1>2. checkUniqueTags(c.o.outbounds)
  BY SoundReferences
<1>3. DOMAIN outs = 1 .. Len(outs) /\ Len(outs) \in Nat
  BY <1>1, SequenceHas
<1>4. ReferenceIssues(c) = {}
  <2>1. {c.o.route.o.defaultOutbound.s} \ (TagsOf(c.o.outbounds) \cup TagsOf(pols)) = {}
    BY SoundReferences DEF RouteTargets
  <2> DEFINE M == UNION {{m.s : m \in ToSet(p.o.outbounds.a)} : p \in ToSet(pols.a)}
  <2>2. \A t \in M : t \in TagsOf(c.o.outbounds)
    <3>1. \A p \in ToSet(pols.a) : \A m \in ToSet(p.o.outbounds.a) : m.s \in TagsOf(c.o.outbounds)
      BY SoundReferences
    <3> HIDE DEF pols
    <3> QED BY <3>1
  <2>3. ReferenceIssues(c) =
            {[code |-> "missing-default-outbound", tag |-> t] :
                t \in {c.o.route.o.defaultOutbound.s} \ (TagsOf(c.o.outbounds) \cup TagsOf(pols))}
            \cup {[code |-> "missing-policy-outbound", tag |-> t] : t \in M \ TagsOf(c.o.outbounds)}
    BY DEF ReferenceIssues
  <2> HIDE DEF pols, M
  <2> QED BY <2>1, <2>2, <2>3
<1>5. PICK i \in DOMAIN outs : e \in validateTag(outs, i) \cup validateType(outs[i]) \cup validateFields(outs[i])
  BY <1>4 DEF Errors
<1>6. outs[i] \in ToSet(outs)
  BY DEF ToSet
<1>7. IsOutbound(outs[i])
  BY <1>1, <1>6
<1>8. e \notin validateTag(outs, i)
  <2>1. ~Blank(Tag(outs[i]))
    <3>1. PICK x : outs[i] = parseOutbound(x) /\ ReadItem(parseOutbound(x))
      BY <1>7 DEF IsOutbound
    <3>2. IsText(outs[i].o.tag)
      BY <3>1, OutboundIs
    <3> QED BY <3>2 DEF IsText, Tag
  <2>2. ~ \E j \in 1 .. (i - 1) : Tag(outs[j]) = Tag(outs[i])
    <3>1. \A j \in 1 .. (i - 1) : j \in DOMAIN outs /\ j # i
      BY <1>3
    <3> QED BY <1>2, <3>1 DEF checkUniqueTags, Tag
  <2> HIDE DEF outs
  <2> QED BY <2>1, <2>2 DEF validateTag, IssueIf
<1> HIDE DEF outs
<1> QED BY <1>5, <1>7, <1>8, OutboundIssues

\* A sound configuration can be built.
LEMMA SoundIsBuildable ==
  ASSUME NEW c, Sound(c)
  PROVE  /\ validatePolicies(c) /\ validateTargets(c) /\ RouterCompiles(c)
         /\ assertUniqueTags(c.o.outbounds)
         /\ \A e \in Errors(c) :
               e.code \in {"unsupported-type", "experimental-not-enabled", "invalid-target-host"}
<1>1. validateTargets(c)
  BY SoundReferences DEF validateTargets
<1>2. assertUniqueTags(c.o.outbounds)
  BY SoundReferences DEF assertUniqueTags
<1> QED BY <1>1, <1>2, SoundPolicies, SoundRules, SoundErrors

\* Whatever loadConfig (config/loader.ts) returns, rules of rule-set files
\* included, can be built: no constructor of a routing or outbound generation
\* throws on it (policyGeneration.ts, routerGeneration.ts, generation.ts, rules.ts),
\* and the outbound validator objects only to what the schema does not look at.
THEOREM Buildable == PlanSpec => []LoadedIsBuildable
<1>1. PlanInv => LoadedIsBuildable
  BY PlanTypes, SoundIsBuildable DEF PlanInv, LoadInv, LoadedIsBuildable
<1> QED BY <1>1, PlanInvariant, PTL

-----------------------------------------------------------------------------
(* The diff of two lists of outbounds.                                     *)

\* Lists of items with tags that differ.
Tagged(list) ==
  /\ IsSequence(list)
  /\ \A i, j \in 1 .. Len(list) : i # j => Tag(list[i]) # Tag(list[j])

\* The outbounds of a sound configuration have texts for tags.
LEMMA OutboundsTagged ==
  ASSUME NEW c, Sound(c)
  PROVE  Tagged(c.o.outbounds.a)
<1>1. IsSequence(c.o.outbounds.a)
  BY SoundOutbounds
<1>2. DOMAIN c.o.outbounds.a = 1 .. Len(c.o.outbounds.a)
  BY <1>1, SequenceHas
<1>3. checkUniqueTags(c.o.outbounds)
  BY SoundReferences
<1> QED BY <1>1, <1>2, <1>3 DEF Tagged, checkUniqueTags, Tag

\* A tag names one member.
LEMMA TaggedIs ==
  ASSUME NEW list, Tagged(list)
  PROVE  /\ \A x, y \in ToSet(list) : Tag(x) = Tag(y) => x = y
         /\ \A x \in ToSet(list) : ByTag(list, Tag(x)) = x
         /\ \A t : t \in ToSet(TagSeq(list)) <=> \E x \in ToSet(list) : t = Tag(x)
<1>1. /\ DOMAIN list = 1 .. Len(list)
      /\ \A x \in ToSet(list) : \E i \in 1 .. Len(list) : x = list[i]
  BY SequenceHas DEF Tagged
<1>2. \A x, y \in ToSet(list) : Tag(x) = Tag(y) => x = y
  <2>1. ASSUME NEW x \in ToSet(list), NEW y \in ToSet(list), Tag(x) = Tag(y) PROVE x = y
    <3>1. PICK i \in 1 .. Len(list) : x = list[i]
      BY <1>1
    <3>2. PICK j \in 1 .. Len(list) : y = list[j]
      BY <1>1
    <3> QED BY <2>1, <3>1, <3>2 DEF Tagged
  <2> QED BY <2>1
<1>3. ASSUME NEW x \in ToSet(list) PROVE ByTag(list, Tag(x)) = x
  BY <1>2 DEF ByTag
<1>4. \A t : t \in ToSet(TagSeq(list)) <=> \E x \in ToSet(list) : t = Tag(x)
  BY DEF ToSet, TagSeq
<1> QED BY <1>2, <1>3, <1>4

\* The members of one list whose tags another does not have.
LEMMA MissingIs ==
  ASSUME NEW list, NEW other, Tagged(list)
  PROVE  /\ Tagged(Missing(list, other))
         /\ \A x : x \in ToSet(Missing(list, other))
                      <=> x \in ToSet(list) /\ Tag(x) \notin ToSet(TagSeq(other))
<1> DEFINE W == {x \in ToSet(list) : Tag(x) \notin ToSet(TagSeq(other))}
           m == Those(list, W)
<1>1. IsSequence(list) /\ \A x, y \in ToSet(list) : Tag(x) = Tag(y) => x = y
  BY TaggedIs DEF Tagged
<1>2. DOMAIN list = 1 .. Len(list)
  BY <1>1, SequenceHas
<1>3. IsInjective(list)
  <2>1. ASSUME NEW i \in DOMAIN list, NEW j \in DOMAIN list, list[i] = list[j] PROVE i = j
    BY <1>2, <2>1 DEF Tagged
  <2> QED BY <2>1 DEF IsInjective
<1>4. IsSequence(m) /\ ToSet(m) = ToSet(list) \cap W /\ IsInjective(m)
  BY <1>1, <1>3, Filtered
<1>5. Missing(list, other) = m
  BY DEF Missing
<1> HIDE DEF m
<1>6. DOMAIN m = 1 .. Len(m) /\ \A i \in 1 .. Len(m) : m[i] \in ToSet(m)
  BY <1>4, SequenceHas
<1>7. ASSUME NEW i \in 1 .. Len(m), NEW j \in 1 .. Len(m), i # j PROVE Tag(m[i]) # Tag(m[j])
  <2>1. m[i] # m[j]
    BY <1>4, <1>6, <1>7 DEF IsInjective
  <2>2. m[i] \in ToSet(list) /\ m[j] \in ToSet(list)
    BY <1>4, <1>6
  <2> QED BY <1>1, <2>1, <2>2
<1>8. Tagged(m)
  BY <1>4, <1>7 DEF Tagged
<1> QED BY <1>4, <1>5, <1>8

-----------------------------------------------------------------------------
(* Pairing the removed outbounds with the added ones.                      *)

\* What is true of the pairs made of the first n removed outbounds.
PairsOf(pairs, removed, added, n) ==
  /\ IsSequence(pairs)
  /\ \A k \in 1 .. Len(pairs) : \E i \in 1 .. n : \E x \in ToSet(added) :
        pairs[k].from = Tag(removed[i]) /\ pairs[k].to = Tag(x) /\ withoutTag(removed[i]) = withoutTag(x)
  /\ \A k, l \in 1 .. Len(pairs) : k # l => pairs[k].from # pairs[l].from /\ pairs[k].to # pairs[l].to
  /\ \A i \in 1 .. n : \A x \in ToSet(added) : withoutTag(removed[i]) = withoutTag(x) =>
        \E k \in 1 .. Len(pairs) : pairs[k].from = Tag(removed[i]) \/ pairs[k].to = Tag(x)

\* One more removed outbound.
LEMMA OnePair ==
  ASSUME NEW removed, NEW added, Tagged(removed), Tagged(added),
         NEW n \in Nat, n < Len(removed), NEW pairs, PairsOf(pairs, removed, added, n)
  PROVE  PairsOf(PairUp(added, pairs, removed[n + 1]), removed, added, n + 1)
<1> DEFINE old == removed[n + 1]
           fits == {i \in DOMAIN added : /\ withoutTag(added[i]) = withoutTag(old)
                                         /\ \A p \in ToSet(pairs) : p.to # Tag(added[i])}
           first == CHOOSE i \in fits : \A j \in fits : i <= j
           pair == [from |-> Tag(old), to |-> Tag(added[first])]
           next == Append(pairs, pair)
<1>1. PairUp(added, pairs, old) = IF fits = {} THEN pairs ELSE next
  BY DEF PairUp
<1>2. /\ IsSequence(pairs) /\ Len(pairs) \in Nat
      /\ \A k \in 1 .. Len(pairs) : pairs[k] \in ToSet(pairs)
      /\ \A p \in ToSet(pairs) : \E k \in 1 .. Len(pairs) : p = pairs[k]
  BY SequenceHas DEF PairsOf
<1>3. /\ DOMAIN added = 1 .. Len(added) /\ Len(added) \in Nat
      /\ \A x \in ToSet(added) : \E i \in 1 .. Len(added) : x = added[i]
      /\ \A i \in 1 .. Len(added) : added[i] \in ToSet(added)
  BY SequenceHas DEF Tagged
<1>4. Len(removed) \in Nat
  BY SequenceHas DEF Tagged
<1>5. 1 .. (n + 1) = (1 .. n) \cup {n + 1} /\ n + 1 \in 1 .. Len(removed)
      /\ \A i \in 1 .. n : i # n + 1 /\ i \in 1 .. Len(removed)
  BY <1>4
<1>8. \A k \in 1 .. Len(pairs) : \E i \in 1 .. n : \E x \in ToSet(added) :
         pairs[k].from = Tag(removed[i]) /\ pairs[k].to = Tag(x) /\ withoutTag(removed[i]) = withoutTag(x)
  BY DEF PairsOf
<1>6. CASE fits = {}
  <2>1. ASSUME NEW x \in ToSet(added), withoutTag(old) = withoutTag(x)
        PROVE  \E k \in 1 .. Len(pairs) : pairs[k].to = Tag(x)
    <3>1. PICK i \in 1 .. Len(added) : x = added[i]
      BY <1>3
    <3>2. i \notin fits
      BY <1>6
    <3>3. \E p \in ToSet(pairs) : p.to = Tag(x)
      BY <1>3, <2>1, <3>1, <3>2
    <3> QED BY <1>2, <3>3
  <2> HIDE DEF fits
  <2>2. \A i \in 1 .. (n + 1) : \A x \in ToSet(added) : withoutTag(removed[i]) = withoutTag(x) =>
           \E k \in 1 .. Len(pairs) : pairs[k].from = Tag(removed[i]) \/ pairs[k].to = Tag(x)
    BY <1>5, <2>1 DEF PairsOf
  <2>3. \A k \in 1 .. Len(pairs) : \E i \in 1 .. (n + 1) : \E x \in ToSet(added) :
           pairs[k].from = Tag(removed[i]) /\ pairs[k].to = Tag(x) /\ withoutTag(removed[i]) = withoutTag(x)
    BY <1>5, <1>8, Zenon
  <2>4. PairsOf(pairs, removed, added, n + 1)
    BY <2>2, <2>3 DEF PairsOf
  <2> QED BY <1>1, <1>6, <2>4
<1>7. CASE fits # {}
  <2>1. first \in fits
    <3>1. fits \in SUBSET Nat
      BY <1>3
    <3> HIDE DEF fits
    <3> QED BY <1>7, <3>1, LeastNatural, Zenon
  <2>2. /\ first \in 1 .. Len(added) /\ withoutTag(added[first]) = withoutTag(old)
        /\ \A k \in 1 .. Len(pairs) : pairs[k].to # Tag(added[first])
    BY <1>2, <1>3, <2>1, Zenon
  <2> HIDE DEF first, fits
  <2>3. /\ IsSequence(next) /\ Len(next) = Len(pairs) + 1
        /\ next[Len(pairs) + 1] = pair
        /\ \A k \in 1 .. Len(pairs) : next[k] = pairs[k]
    <3> HIDE DEF pair
    <3> QED BY <1>2, Appended
  <2>4. pair.from = Tag(old) /\ pair.to = Tag(added[first])
    OBVIOUS
  <2> HIDE DEF next, pair
  <2>5. 1 .. Len(next) = (1 .. Len(pairs)) \cup {Len(pairs) + 1} /\ Len(pairs) + 1 \notin 1 .. Len(pairs)
    BY <1>2, <2>3
  <2>6. \A k \in 1 .. Len(next) : \E i \in 1 .. (n + 1) : \E x \in ToSet(added) :
           next[k].from = Tag(removed[i]) /\ next[k].to = Tag(x) /\ withoutTag(removed[i]) = withoutTag(x)
    <3>1. ASSUME NEW k \in 1 .. Len(pairs)
          PROVE  \E i \in 1 .. (n + 1) : \E x \in ToSet(added) :
                    next[k].from = Tag(removed[i]) /\ next[k].to = Tag(x) /\ withoutTag(removed[i]) = withoutTag(x)
      BY <1>5, <1>8, <2>3
    <3>2. added[first] \in ToSet(added)
      BY <1>3, <2>2
    <3> QED BY <1>5, <2>2, <2>3, <2>4, <2>5, <3>1, <3>2
  <2>7. \A k \in 1 .. Len(pairs) : pairs[k].from # Tag(old) /\ pairs[k].to # Tag(added[first])
    <3>1. ASSUME NEW k \in 1 .. Len(pairs) PROVE pairs[k].from # Tag(old)
      <4>1. PICK i \in 1 .. n : pairs[k].from = Tag(removed[i])
        BY DEF PairsOf
      <4> QED BY <1>5, <4>1 DEF Tagged
    <3> QED BY <2>2, <3>1
  <2>8. \A k, l \in 1 .. Len(next) : k # l => next[k].from # next[l].from /\ next[k].to # next[l].to
    <3>1. \A k, l \in 1 .. Len(pairs) : k # l => pairs[k].from # pairs[l].from /\ pairs[k].to # pairs[l].to
      BY DEF PairsOf
    <3> QED BY <2>3, <2>4, <2>5, <2>7, <3>1
  <2>9. \A i \in 1 .. (n + 1) : \A x \in ToSet(added) : withoutTag(removed[i]) = withoutTag(x) =>
           \E k \in 1 .. Len(next) : next[k].from = Tag(removed[i]) \/ next[k].to = Tag(x)
    <3>1. ASSUME NEW i \in 1 .. n, NEW x \in ToSet(added), withoutTag(removed[i]) = withoutTag(x)
          PROVE  \E k \in 1 .. Len(next) : next[k].from = Tag(removed[i]) \/ next[k].to = Tag(x)
      <4>1. PICK k \in 1 .. Len(pairs) : pairs[k].from = Tag(removed[i]) \/ pairs[k].to = Tag(x)
        BY <3>1 DEF PairsOf
      <4> QED BY <2>3, <2>5, <4>1
    <3>2. next[Len(pairs) + 1].from = Tag(removed[n + 1]) /\ Len(pairs) + 1 \in 1 .. Len(next)
      BY <2>3, <2>4, <2>5
    <3> QED BY <1>5, <3>1, <3>2
  <2>10. PairsOf(next, removed, added, n + 1)
    BY <2>3, <2>6, <2>8, <2>9 DEF PairsOf
  <2> QED BY <1>1, <1>7, <2>10
<1> QED BY <1>6, <1>7

\* The pairs made of the first n removed outbounds, as the code makes them.
PairStep(removed, added, g, n) == IF n = 0 THEN <<>> ELSE PairUp(added, g[n - 1], removed[n])
\* One that has them.
PairsUpTo(removed, added, m) == CHOOSE g : g = [n \in 0 .. m |-> PairStep(removed, added, g, n)]

\* This recursion has a solution.
LEMMA PairsExist ==
  ASSUME NEW removed, NEW added, NEW m \in Nat
  PROVE  \E g : g = [n \in 0 .. m |-> PairStep(removed, added, g, n)]
<1> DEFINE T == {k \in Nat : \E g : g = [n \in 0 .. k |-> PairStep(removed, added, g, n)]}
<1>1. 0 \in T
  <2> DEFINE g == [n \in 0 .. 0 |-> <<>>]
  <2>1. g = [n \in 0 .. 0 |-> PairStep(removed, added, g, n)]
    BY DEF PairStep
  <2> QED BY <2>1
<1>2. ASSUME NEW k \in Nat, k \in T PROVE k + 1 \in T
  <2>1. PICK g : g = [n \in 0 .. k |-> PairStep(removed, added, g, n)]
    BY <1>2
  <2> DEFINE h == [n \in 0 .. (k + 1) |-> IF n = k + 1 THEN PairStep(removed, added, g, n) ELSE g[n]]
  <2>2. \A n \in 0 .. (k + 1) : n # 0 => n - 1 \in 0 .. k /\ h[n - 1] = g[n - 1]
    OBVIOUS
  <2>3. \A n \in 0 .. (k + 1) : h[n] = PairStep(removed, added, g, n)
    BY <2>1
  <2>4. \A n \in 0 .. (k + 1) : PairStep(removed, added, h, n) = PairStep(removed, added, g, n)
    BY <2>2 DEF PairStep
  <2> HIDE DEF h
  <2>5. h = [n \in 0 .. (k + 1) |-> PairStep(removed, added, h, n)]
    <3>1. h = [n \in 0 .. (k + 1) |-> h[n]]
      BY DEF h
    <3> QED BY <2>3, <2>4, <3>1
  <2> QED BY <2>5
<1>3. Nat \subseteq T
  <2> HIDE DEF T
  <2> QED BY <1>1, <1>2, Upwards
<1> QED BY <1>3

\* What Renamed computes.
LEMMA RenamedIs ==
  ASSUME NEW removed, NEW added, Tagged(removed), Tagged(added)
  PROVE  PairsOf(Renamed(removed, added), removed, added, Len(removed))
<1> DEFINE n == Len(removed)
           P == PairsUpTo(removed, added, n)
<1>1. n \in Nat
  BY SequenceHas DEF Tagged
<1>2. P = [j \in 0 .. n |-> PairStep(removed, added, P, j)]
  BY <1>1, PairsExist DEF PairsUpTo
<1>3. Renamed(removed, added) = P[n]
  BY DEF Renamed, PairsUpTo, PairStep
<1> HIDE DEF P, n
<1>4. P[0] = <<>>
  BY <1>1, <1>2 DEF PairStep
<1>5. ASSUME NEW m \in Nat, m < n PROVE P[m + 1] = PairUp(added, P[m], removed[m + 1])
  <2>1. m + 1 \in 0 .. n /\ m + 1 # 0 /\ (m + 1) - 1 = m
    BY <1>1, <1>5
  <2>2. P[m + 1] = PairStep(removed, added, P, m + 1)
    BY <1>2, <2>1, Zenon
  <2> QED BY <2>1, <2>2 DEF PairStep
<1> DEFINE T == {m \in Nat : m <= n => PairsOf(P[m], removed, added, m)}
<1>6. 0 \in T
  <2>1. PairsOf(<<>>, removed, added, 0)
    <3>1. 1 .. Len(<<>>) = {} /\ 1 .. 0 = {}
      BY EmptyIsSequence
    <3> QED BY <3>1, EmptyIsSequence DEF PairsOf
  <2> QED BY <1>4, <2>1
<1>7. ASSUME NEW m \in Nat, m \in T PROVE m + 1 \in T
  <2> SUFFICES ASSUME m + 1 <= n PROVE PairsOf(P[m + 1], removed, added, m + 1)
    OBVIOUS
  <2>1. PairsOf(P[m], removed, added, m) /\ m < Len(removed)
    BY <1>1, <1>7 DEF n
  <2>2. PairsOf(PairUp(added, P[m], removed[m + 1]), removed, added, m + 1)
    BY <2>1, OnePair
  <2>3. P[m + 1] = PairUp(added, P[m], removed[m + 1])
    BY <1>5, <2>1 DEF n
  <2> QED BY <2>2, <2>3
<1>8. n \in T
  <2> HIDE DEF T
  <2> QED BY <1>1, <1>6, <1>7, Upwards
<1> QED BY <1>1, <1>3, <1>8 DEF n

\* As many members as places: every place has a member of its own.
LEMMA CountedPlaces ==
  ASSUME NEW n \in Nat, NEW f, f = [i \in 1 .. n |-> f[i]],
         \A i, j \in 1 .. n : i # j => f[i] # f[j],
         NEW S, \A x : x \in S <=> \E i \in 1 .. n : x = f[i]
  PROVE  Cardinality(S) = n
<1>1. f \in Bijection(1 .. n, S)
  <2>1. f \in [1 .. n -> S]
    OBVIOUS
  <2>2. \A x \in S : \E i \in 1 .. n : f[i] = x
    OBVIOUS
  <2>3. \A i, j \in 1 .. n : f[i] = f[j] => i = j
    OBVIOUS
  <2> QED BY <2>1, <2>2, <2>3 DEF Bijection, Injection, Surjection, IsInjective
<1>2. ExistsBijection(1 .. n, S)
  BY <1>1 DEF ExistsBijection
<1>3. IsFiniteSet(1 .. n) /\ Cardinality(1 .. n) = n
  <2>1. 1 \in Int /\ n \in Int
    OBVIOUS
  <2>2. IsFiniteSet(1 .. n) /\ Cardinality(1 .. n) = IF 1 > n THEN 0 ELSE n - 1 + 1
    BY <2>1, FS_Interval, Zenon
  <2> QED BY <2>2
<1> QED BY <1>2, <1>3, FS_Bijection

\* Names that the diff gives to renamed outbounds.
LEMMA RenamesAre ==
  ASSUME NEW removed, NEW added, Tagged(removed), Tagged(added)
  PROVE  LET pairs == Renamed(removed, added)
             from  == {p.from : p \in ToSet(pairs)}
             to    == {p.to : p \in ToSet(pairs)}
         IN  /\ Cardinality(from) = Len(pairs) /\ Cardinality(to) = Len(pairs)
             /\ \A p \in ToSet(pairs) : \E x \in ToSet(removed) : \E y \in ToSet(added) :
                   p.from = Tag(x) /\ p.to = Tag(y) /\ withoutTag(x) = withoutTag(y)
             /\ \A x \in ToSet(removed) : \A y \in ToSet(added) :
                   withoutTag(x) = withoutTag(y) => Tag(x) \in from \/ Tag(y) \in to
<1> DEFINE pairs == Renamed(removed, added)
           from == {p.from : p \in ToSet(pairs)}
           to == {p.to : p \in ToSet(pairs)}
           f == [k \in 1 .. Len(pairs) |-> pairs[k].from]
           t == [k \in 1 .. Len(pairs) |-> pairs[k].to]
<1>1. PairsOf(pairs, removed, added, Len(removed))
  BY RenamedIs
<1> HIDE DEF pairs
<1>2. /\ Len(pairs) \in Nat
      /\ \A k \in 1 .. Len(pairs) : pairs[k] \in ToSet(pairs)
      /\ \A p \in ToSet(pairs) : \E k \in 1 .. Len(pairs) : p = pairs[k]
  BY <1>1, SequenceHas DEF PairsOf
<1>3. /\ \A i \in 1 .. Len(removed) : removed[i] \in ToSet(removed)
      /\ \A x \in ToSet(removed) : \E i \in 1 .. Len(removed) : x = removed[i]
  BY SequenceHas DEF Tagged
<1>4. Cardinality(from) = Len(pairs)
  <2>1. \A x : x \in from <=> \E k \in 1 .. Len(pairs) : x = f[k]
    BY <1>2
  <2>2. \A k, l \in 1 .. Len(pairs) : k # l => f[k] # f[l]
    BY <1>1 DEF PairsOf
  <2>3. f = [k \in 1 .. Len(pairs) |-> f[k]]
    OBVIOUS
  <2> HIDE DEF f, from
  <2> QED BY <1>2, <2>1, <2>2, <2>3, CountedPlaces
<1>5. Cardinality(to) = Len(pairs)
  <2>1. \A x : x \in to <=> \E k \in 1 .. Len(pairs) : x = t[k]
    BY <1>2
  <2>2. \A k, l \in 1 .. Len(pairs) : k # l => t[k] # t[l]
    BY <1>1 DEF PairsOf
  <2>3. t = [k \in 1 .. Len(pairs) |-> t[k]]
    OBVIOUS
  <2> HIDE DEF t, to
  <2> QED BY <1>2, <2>1, <2>2, <2>3, CountedPlaces
<1>6. ASSUME NEW p \in ToSet(pairs)
      PROVE  \E x \in ToSet(removed) : \E y \in ToSet(added) :
                p.from = Tag(x) /\ p.to = Tag(y) /\ withoutTag(x) = withoutTag(y)
  <2>1. PICK k \in 1 .. Len(pairs) : p = pairs[k]
    BY <1>2
  <2>2. PICK i \in 1 .. Len(removed), y \in ToSet(added) :
           pairs[k].from = Tag(removed[i]) /\ pairs[k].to = Tag(y) /\ withoutTag(removed[i]) = withoutTag(y)
    BY <1>1 DEF PairsOf
  <2> QED BY <1>3, <2>1, <2>2
<1>7. ASSUME NEW x \in ToSet(removed), NEW y \in ToSet(added), withoutTag(x) = withoutTag(y)
      PROVE  Tag(x) \in from \/ Tag(y) \in to
  <2>1. PICK i \in 1 .. Len(removed) : x = removed[i]
    BY <1>3
  <2>2. PICK k \in 1 .. Len(pairs) : pairs[k].from = Tag(x) \/ pairs[k].to = Tag(y)
    BY <1>1, <1>7, <2>1 DEF PairsOf
  <2> QED BY <1>2, <2>2
<1> QED BY <1>4, <1>5, <1>6, <1>7 DEF pairs

\* The report's diff is that of the two lists of outbounds.
LEMMA ReportedDiff ==
  ASSUME Reported
  PROVE  /\ report.shadow = createOutboundShadowReport(current, result)
         /\ report.shadow.built = buildOutboundGeneration(current, result, {firstSelectedOutbound(current)})
         /\ report.shadow.built.diff = diffOutboundConfigs(current.o.outbounds.a, result.o.outbounds.a, result)
<1>1. report.shadow = createOutboundShadowReport(current, result)
  BY DEF Reported, RuntimeReport
<1>2. createOutboundShadowReport(current, result).built
          = buildOutboundGeneration(current, result, {firstSelectedOutbound(current)})
  BY Zenon DEF createOutboundShadowReport
<1>3. \A inUse : buildOutboundGeneration(current, result, inUse).diff
                    = diffOutboundConfigs(current.o.outbounds.a, result.o.outbounds.a, result)
  BY Zenon DEF buildOutboundGeneration
<1> QED BY <1>1, <1>2, <1>3

\* What the diff of two lists of tagged items says.
LEMMA DiffIs ==
  ASSUME NEW old, NEW new, NEW c
  PROVE  LET d       == diffOutboundConfigs(old, new, c)
             removed == Missing(old, new)
             added   == Missing(new, old)
             pairs   == Renamed(removed, added)
             changed == {y \in ToSet(new) : Tag(y) \in ToSet(TagSeq(old)) /\ ByTag(old, Tag(y)) # y}
         IN  /\ d.renamed = pairs
             /\ d.added = ToSet(TagSeq(added)) \ {p.to : p \in ToSet(pairs)}
             /\ d.removed = ToSet(TagSeq(removed)) \ {p.from : p \in ToSet(pairs)}
             /\ \A t : t \in {m.tag : m \in d.modified} <=> \E y \in changed : t = Tag(y)
             /\ \A t \in d.typeChanged \cup d.targetChanged \cup d.secretChanged :
                   \E y \in changed : t = Tag(y)
             /\ d.missing = {r.tag : r \in policyReferences(c)} \ ToSet(TagSeq(new))
<1> DEFINE d       == diffOutboundConfigs(old, new, c)
           removed == Missing(old, new)
           added   == Missing(new, old)
           pairs   == Renamed(removed, added)
           changed == {y \in ToSet(new) : Tag(y) \in ToSet(TagSeq(old)) /\ ByTag(old, Tag(y)) # y}
           Was(y)  == ByTag(old, Tag(y))
<1>1. /\ d.renamed = pairs
      /\ d.added = ToSet(TagSeq(added)) \ {p.to : p \in ToSet(pairs)}
      /\ d.removed = ToSet(TagSeq(removed)) \ {p.from : p \in ToSet(pairs)}
      /\ d.missing = {r.tag : r \in policyReferences(c)} \ ToSet(TagSeq(new))
  BY DEF diffOutboundConfigs
<1>2. /\ d.modified = {[tag |-> Tag(y), fields |-> changedFields(Was(y), y)] : y \in changed}
      /\ d.typeChanged = {Tag(y) : y \in {z \in changed : Was(z).o.type # z.o.type}}
      /\ d.targetChanged = {Tag(y) : y \in {z \in changed : targetIdentity(Was(z)) # targetIdentity(z)}}
      /\ d.secretChanged = {Tag(y) : y \in {z \in changed : secretIdentity(Was(z)) # secretIdentity(z)}}
  BY DEF diffOutboundConfigs
<1> HIDE DEF d, changed, Was, pairs, removed, added
<1>3. \A t : t \in {m.tag : m \in d.modified} <=> \E y \in changed : t = Tag(y)
  <2>1. ASSUME NEW m \in d.modified PROVE \E y \in changed : m.tag = Tag(y)
    <3>1. PICK y \in changed : m = [tag |-> Tag(y), fields |-> changedFields(Was(y), y)]
      BY <1>2
    <3>2. m.tag = Tag(y)
      BY <3>1
    <3> QED BY <3>2
  <2>2. ASSUME NEW y \in changed PROVE \E m \in d.modified : m.tag = Tag(y)
    <3> DEFINE m == [tag |-> Tag(y), fields |-> changedFields(Was(y), y)]
    <3>1. m \in d.modified
      BY <1>2
    <3>2. m.tag = Tag(y)
      OBVIOUS
    <3> QED BY <3>1, <3>2
  <2> QED BY <2>1, <2>2
<1>4. \A t \in d.typeChanged \cup d.targetChanged \cup d.secretChanged : \E y \in changed : t = Tag(y)
  <2>1. /\ \A t \in d.typeChanged : \E y \in changed : t = Tag(y)
        /\ \A t \in d.targetChanged : \E y \in changed : t = Tag(y)
        /\ \A t \in d.secretChanged : \E y \in changed : t = Tag(y)
    BY <1>2
  <2> QED BY <2>1
<1> QED BY <1>1, <1>3, <1>4 DEF d, changed, pairs, removed, added

\* A tag that nothing carries is that of a policy.
LEMMA MissingTags ==
  ASSUME NEW c, Sound(c)
  PROVE  {r.tag : r \in policyReferences(c)} \ ToSet(TagSeq(c.o.outbounds.a))
             \subseteq TagsOf(c.o.route.o.policies)
<1> DEFINE r == c.o.route.o
           outs == c.o.outbounds
           pols == r.policies
<1>1. /\ {r.defaultOutbound.s} \cup TargetsOf(r.rules) \subseteq TagsOf(outs) \cup TagsOf(pols)
      /\ \A p \in ToSet(pols.a) : \A m \in ToSet(p.o.outbounds.a) : m.s \in TagsOf(outs)
  BY SoundReferences DEF RouteTargets
<1>2. \A t : t \in TagsOf(outs) <=> t \in ToSet(TagSeq(outs.a))
  BY Zenon DEF TagsOf, ToSet, TagSeq, Tag
<1>3. \A x \in ToSet(r.rules.a) : x.o.outboundTag.s \in TargetsOf(r.rules)
  BY Zenon DEF TargetsOf, ToSet
<1>4. ASSUME NEW e \in policyReferences(c) PROVE e.tag \in TagsOf(outs) \cup TagsOf(pols)
  <2>1. \/ e \in {[tag |-> r.defaultOutbound.s, by |-> "default"]}
        \/ e \in {[tag |-> x.o.outboundTag.s, by |-> "rule"] : x \in ToSet(r.rules.a)}
        \/ \E p \in ToSet(pols.a) : e \in {[tag |-> m.s, by |-> "policy"] : m \in ToSet(p.o.outbounds.a)}
    BY DEF policyReferences
  <2> HIDE DEF r, outs, pols
  <2>2. CASE e \in {[tag |-> r.defaultOutbound.s, by |-> "default"]}
    BY <1>1, <2>2
  <2>3. CASE e \in {[tag |-> x.o.outboundTag.s, by |-> "rule"] : x \in ToSet(r.rules.a)}
    BY <1>1, <1>3, <2>3
  <2>4. CASE \E p \in ToSet(pols.a) : e \in {[tag |-> m.s, by |-> "policy"] : m \in ToSet(p.o.outbounds.a)}
    <3>1. PICK p \in ToSet(pols.a) : e \in {[tag |-> m.s, by |-> "policy"] : m \in ToSet(p.o.outbounds.a)}
      BY <2>4
    <3>2. PICK m \in ToSet(p.o.outbounds.a) : e = [tag |-> m.s, by |-> "policy"]
      BY <3>1
    <3> QED BY <1>1, <3>2
  <2> QED BY <2>1, <2>2, <2>3, <2>4
<1> HIDE DEF r, outs, pols
<1>5. \A t \in {e.tag : e \in policyReferences(c)} : t \in TagsOf(outs) \cup TagsOf(pols)
  BY <1>4
<1>6. \A t \in {e.tag : e \in policyReferences(c)} \ ToSet(TagSeq(outs.a)) : t \in TagsOf(pols)
  BY <1>2, <1>5
<1> QED BY <1>6 DEF outs, pols, r

\* The classes of the diff, for two lists whose tags differ.
LEMMA Classes ==
  ASSUME NEW old, NEW new, NEW c, Tagged(old), Tagged(new)
  PROVE  LET d    == diffOutboundConfigs(old, new, c)
             from == {p.from : p \in ToSet(d.renamed)}
             to   == {p.to : p \in ToSet(d.renamed)}
             same == {Tag(x) : x \in ToSet(old) \cap ToSet(new)}
             mod  == {m.tag : m \in d.modified}
             kept == same \cup mod
         IN  /\ kept = ToSet(TagSeq(old)) \cap ToSet(TagSeq(new))
             /\ same \cap mod = {}
             /\ ToSet(TagSeq(old)) \ kept = d.removed \cup from /\ d.removed \cap from = {}
             /\ ToSet(TagSeq(new)) \ kept = d.added \cup to /\ d.added \cap to = {}
             /\ Cardinality(from) = Len(d.renamed) /\ Cardinality(to) = Len(d.renamed)
             /\ \A p \in ToSet(d.renamed) : withoutTag(ByTag(old, p.from)) = withoutTag(ByTag(new, p.to))
             /\ \A s \in d.removed, t \in d.added : withoutTag(ByTag(old, s)) # withoutTag(ByTag(new, t))
             /\ d.typeChanged \cup d.targetChanged \cup d.secretChanged \subseteq mod
<1> DEFINE d       == diffOutboundConfigs(old, new, c)
           removed == Missing(old, new)
           added   == Missing(new, old)
           pairs   == Renamed(removed, added)
           changed == {y \in ToSet(new) : Tag(y) \in ToSet(TagSeq(old)) /\ ByTag(old, Tag(y)) # y}
           from    == {p.from : p \in ToSet(pairs)}
           to      == {p.to : p \in ToSet(pairs)}
           same    == {Tag(x) : x \in ToSet(old) \cap ToSet(new)}
           mod     == {m.tag : m \in d.modified}
           olds    == ToSet(TagSeq(old))
           news    == ToSet(TagSeq(new))
           gone    == ToSet(TagSeq(removed))
           come    == ToSet(TagSeq(added))
<1>1. /\ d.renamed = pairs
      /\ d.added = come \ to
      /\ d.removed = gone \ from
      /\ \A t : t \in mod <=> \E y \in changed : t = Tag(y)
      /\ \A t \in d.typeChanged \cup d.targetChanged \cup d.secretChanged :
            \E y \in changed : t = Tag(y)
  BY DiffIs
<1>2. /\ Tagged(removed) /\ Tagged(added)
      /\ \A x : x \in ToSet(removed) <=> x \in ToSet(old) /\ Tag(x) \notin news
      /\ \A x : x \in ToSet(added) <=> x \in ToSet(new) /\ Tag(x) \notin olds
  BY MissingIs
<1>3. /\ Cardinality(from) = Len(pairs) /\ Cardinality(to) = Len(pairs)
      /\ \A p \in ToSet(pairs) : \E x \in ToSet(removed) : \E y \in ToSet(added) :
            p.from = Tag(x) /\ p.to = Tag(y) /\ withoutTag(x) = withoutTag(y)
      /\ \A x \in ToSet(removed) : \A y \in ToSet(added) :
            withoutTag(x) = withoutTag(y) => Tag(x) \in from \/ Tag(y) \in to
  <2> HIDE DEF removed, added
  <2> QED BY <1>2, RenamesAre, Zenon
<1>4. /\ \A x \in ToSet(old) : ByTag(old, Tag(x)) = x
      /\ \A t : t \in olds <=> \E x \in ToSet(old) : t = Tag(x)
      /\ \A x \in ToSet(new) : ByTag(new, Tag(x)) = x
      /\ \A x, y \in ToSet(new) : Tag(x) = Tag(y) => x = y
      /\ \A t : t \in news <=> \E x \in ToSet(new) : t = Tag(x)
  BY TaggedIs
<1>5. /\ \A t : t \in gone <=> \E x \in ToSet(removed) : t = Tag(x)
      /\ \A t : t \in come <=> \E x \in ToSet(added) : t = Tag(x)
  <2> HIDE DEF removed, added
  <2> QED BY <1>2, TaggedIs
<1>6. \A y : y \in changed <=> y \in ToSet(new) /\ Tag(y) \in olds /\ ByTag(old, Tag(y)) # y
  OBVIOUS
<1>7. \A t : t \in same <=> \E x \in ToSet(old) \cap ToSet(new) : t = Tag(x)
  OBVIOUS
<1>8. /\ \A p \in ToSet(pairs) : p.from \in from /\ p.to \in to
      /\ \A t \in from : \E p \in ToSet(pairs) : t = p.from
      /\ \A t \in to : \E p \in ToSet(pairs) : t = p.to
  OBVIOUS
<1> HIDE DEF d, removed, added, pairs, changed, from, to, same, mod, olds, news, gone, come
<1>9. \A t : t \in same \cup mod <=> t \in olds /\ t \in news
  <2>1. ASSUME NEW t \in same \cup mod PROVE t \in olds /\ t \in news
    BY <1>1, <1>4, <1>6, <1>7
  <2>2. ASSUME NEW t, t \in olds, t \in news PROVE t \in same \cup mod
    <3>1. PICK x \in ToSet(old) : t = Tag(x)
      BY <1>4, <2>2
    <3>2. PICK y \in ToSet(new) : t = Tag(y)
      BY <1>4, <2>2
    <3>3. ByTag(old, Tag(y)) = x
      BY <1>4, <3>1, <3>2, Zenon
    <3>4. CASE x = y
      BY <1>7, <3>1, <3>4
    <3>5. CASE x # y
      BY <1>1, <1>6, <2>2, <3>2, <3>3, <3>5
    <3> QED BY <3>4, <3>5
  <2> QED BY <2>1, <2>2
<1>10. same \cap mod = {}
  <2>1. ASSUME NEW t, t \in same, t \in mod PROVE FALSE
    <3>1. PICK x \in ToSet(old) \cap ToSet(new) : t = Tag(x)
      BY <1>7, <2>1
    <3>2. PICK y \in changed : t = Tag(y)
      BY <1>1, <2>1
    <3>3. y \in ToSet(new) /\ ByTag(old, Tag(y)) # y
      BY <1>6
    <3>4. x = y
      BY <1>4, <3>1, <3>2, <3>3, Zenon
    <3> QED BY <1>4, <3>1, <3>3, <3>4
  <2> QED BY <2>1
<1>11. \A t : t \in gone <=> t \in olds /\ t \notin news
  BY <1>2, <1>4, <1>5
<1>12. \A t : t \in come <=> t \in news /\ t \notin olds
  BY <1>2, <1>4, <1>5
<1>13. \A t \in from : t \in gone
  BY <1>3, <1>5, <1>8
<1>14. \A t \in to : t \in come
  BY <1>3, <1>5, <1>8
<1>15. \A p \in ToSet(pairs) : withoutTag(ByTag(old, p.from)) = withoutTag(ByTag(new, p.to))
  <2>1. ASSUME NEW p \in ToSet(pairs)
        PROVE  withoutTag(ByTag(old, p.from)) = withoutTag(ByTag(new, p.to))
    <3>1. PICK x \in ToSet(removed), y \in ToSet(added) :
             p.from = Tag(x) /\ p.to = Tag(y) /\ withoutTag(x) = withoutTag(y)
      BY <1>3
    <3>2. ByTag(old, Tag(x)) = x /\ ByTag(new, Tag(y)) = y
      BY <1>2, <1>4
    <3> QED BY <3>1, <3>2
  <2> QED BY <2>1
<1>16. \A s \in gone \ from, t \in come \ to : withoutTag(ByTag(old, s)) # withoutTag(ByTag(new, t))
  <2>1. ASSUME NEW s \in gone \ from, NEW t \in come \ to
        PROVE  withoutTag(ByTag(old, s)) # withoutTag(ByTag(new, t))
    <3>1. PICK x \in ToSet(removed) : s = Tag(x)
      BY <1>5
    <3>2. PICK y \in ToSet(added) : t = Tag(y)
      BY <1>5
    <3>3. ByTag(old, s) = x /\ ByTag(new, t) = y
      BY <1>2, <1>4, <3>1, <3>2
    <3> QED BY <1>3, <3>1, <3>2, <3>3
  <2> QED BY <2>1
<1>17. \A t \in d.typeChanged \cup d.targetChanged \cup d.secretChanged : t \in mod
  BY <1>1
<1>18. same \cup mod = olds \cap news
  BY <1>9
<1>19. olds \ (same \cup mod) = (gone \ from) \cup from
  BY <1>11, <1>13, <1>18
<1>20. news \ (same \cup mod) = (come \ to) \cup to
  BY <1>12, <1>14, <1>18
<1>21. (gone \ from) \cap from = {} /\ (come \ to) \cap to = {}
  OBVIOUS
<1>22. d.typeChanged \cup d.targetChanged \cup d.secretChanged \subseteq mod
  BY <1>17
<1> QED BY <1>1, <1>3, <1>10, <1>15, <1>16, <1>18, <1>19, <1>20, <1>21, <1>22
        DEF d, from, to, same, mod, olds, news

\* Every outbound of the two configurations is in exactly one class of the diff
\* (generationBuilder.ts), no outbound is renamed twice, a rename changes nothing
\* but the tag, and none is overlooked; a tag it calls missing is a policy's.
THEOREM DiffComplete == PlanSpec => []DiffAccountsForAll
<1>1. PlanInv => DiffAccountsForAll
  <2> SUFFICES ASSUME PlanInv, report # NoReport PROVE DiffAccountsForAll
    BY DEF DiffAccountsForAll
  <2>1. Reported /\ Sound(current) /\ Sound(result)
    BY DEF PlanInv, Reported, LoadInv
  <2> DEFINE old == current.o.outbounds.a
             new == result.o.outbounds.a
             d == diffOutboundConfigs(old, new, result)
  <2>2. report.shadow.built.diff = d
    BY <2>1, ReportedDiff
  <2>3. Tagged(old) /\ Tagged(new)
    BY <2>1, OutboundsTagged
  <2>4. d.missing \subseteq TagsOf(result.o.route.o.policies)
    BY <2>1, DiffIs, MissingTags
  <2> HIDE DEF old, new
  <2>5. LET from == {p.from : p \in ToSet(d.renamed)}
            to   == {p.to : p \in ToSet(d.renamed)}
            same == {Tag(x) : x \in ToSet(old) \cap ToSet(new)}
            mod  == {m.tag : m \in d.modified}
            kept == same \cup mod
        IN  /\ kept = ToSet(TagSeq(old)) \cap ToSet(TagSeq(new))
            /\ same \cap mod = {}
            /\ ToSet(TagSeq(old)) \ kept = d.removed \cup from /\ d.removed \cap from = {}
            /\ ToSet(TagSeq(new)) \ kept = d.added \cup to /\ d.added \cap to = {}
            /\ Cardinality(from) = Len(d.renamed) /\ Cardinality(to) = Len(d.renamed)
            /\ \A p \in ToSet(d.renamed) : withoutTag(ByTag(old, p.from)) = withoutTag(ByTag(new, p.to))
            /\ \A s \in d.removed, t \in d.added : withoutTag(ByTag(old, s)) # withoutTag(ByTag(new, t))
            /\ d.typeChanged \cup d.targetChanged \cup d.secretChanged \subseteq mod
    BY <2>3, Classes, Zenon
  <2> HIDE DEF d
  <2> QED BY <2>2, <2>4, <2>5, Zenon DEF DiffAccountsForAll, old, new
<1> QED BY <1>1, PlanInvariant, PTL

-----------------------------------------------------------------------------
(* The previews.                                                           *)

\* The components that a plan can name.
LEMMA ComponentNamesAre == DOMAIN componentDefinitions = ComponentNames
BY DEF componentDefinitions

\* Which actions the dry run announces.
LEMMA DefinedActions ==
  ASSUME NEW name \in ComponentNames
  PROVE  /\ componentDefinitions[name].action # "reuse"
         /\ componentDefinitions[name].action = "restart-required"
               => name \in {"connection-manager", "udp-session-manager"}
<1>1. name \in ComponentNames => componentDefinitions[name].action =
        CASE name \in {"dns", "policy-prober", "outbound-registry"}      -> "stage-and-swap"
          [] name = "fake-ip-store"                                      -> "migrate-or-replace"
          [] name = "router"                                             -> "atomic-snapshot"
          [] name = "inbound-listeners"                                  -> "drain-and-rebind"
          [] name \in {"dashboard-server", "metrics-server"}             -> "restart-listener"
          [] name = "plugin-manager"                                     -> "best-effort-stage"
          [] name \in {"connection-manager", "udp-session-manager"}      -> "restart-required"
  <2> HIDE DEF ComponentNames
  <2> QED BY Zenon DEF componentDefinitions
<1>2. CASE name \in {"dns", "policy-prober", "outbound-registry"}
  BY <1>1, <1>2
<1>3. CASE name \in {"fake-ip-store", "router", "inbound-listeners"}
  BY <1>1, <1>3
<1>4. CASE name \in {"dashboard-server", "metrics-server", "plugin-manager"}
  BY <1>1, <1>4
<1>5. CASE name \in {"connection-manager", "udp-session-manager"}
  BY <1>1, <1>5
<1> QED BY <1>2, <1>3, <1>4, <1>5 DEF ComponentNames

\* The plan changes what looks different.
LEMMA PlanIs ==
  ASSUME NEW old, NEW c
  PROVE  LET plan == createDryRunReloadPlan(old, c)
         IN  /\ DOMAIN plan = ComponentNames
             /\ \A name : name \in changedComponents(plan)
                             <=> name \in ComponentNames /\ ViewOf(old, name) # ViewOf(c, name)
             /\ \A name \in ComponentNames :
                   plan[name].action = "restart-required" =>
                      /\ ViewOf(old, name) # ViewOf(c, name)
                      /\ name \in {"connection-manager", "udp-session-manager"}
<1> DEFINE plan == createDryRunReloadPlan(old, c)
<1>1. /\ DOMAIN plan = ComponentNames
      /\ \A name \in ComponentNames :
            plan[name] = IF ViewOf(old, name) # ViewOf(c, name) THEN componentDefinitions[name] ELSE Reuse
  BY ComponentNamesAre DEF createDryRunReloadPlan
<1> HIDE DEF plan
<1>2. Reuse.action = "reuse"
  BY DEF Reuse
<1>3. \A name \in ComponentNames :
         /\ componentDefinitions[name] # Reuse
         /\ componentDefinitions[name].action = "restart-required"
               => name \in {"connection-manager", "udp-session-manager"}
  <2> HIDE DEF ComponentNames
  <2> QED BY <1>2, DefinedActions
<1>4. \A name : name \in changedComponents(plan)
                   <=> name \in ComponentNames /\ ViewOf(old, name) # ViewOf(c, name)
  <2> HIDE DEF ComponentNames
  <2> QED BY <1>1, <1>3 DEF changedComponents
<1>5. \A name \in ComponentNames :
         plan[name].action = "restart-required" =>
            /\ ViewOf(old, name) # ViewOf(c, name)
            /\ name \in {"connection-manager", "udp-session-manager"}
  <2> HIDE DEF ComponentNames
  <2> QED BY <1>1, <1>2, <1>3
<1> QED BY <1>1, <1>4, <1>5 DEF plan

\* What a change that the runtime supports leaves alone.
LEMMA SupportedChange ==
  ASSUME NEW old, NEW c, Sound(old), Sound(c), assertM11SupportedChange(old, c)
  PROVE  /\ old.o.dns.o.fakeIp = c.o.dns.o.fakeIp
         /\ GeoView(old.o.geo) = GeoView(c.o.geo)
         /\ \A k \in {"log", "limits", "plugins", "workers", "transport", "connectionPool",
                      "hotReload", "probing", "tun", "inbounds"} : old.o[k] = c.o[k]
<1> DEFINE D == SectionKeys \cup {"configVersion", "inbounds", "outbounds", "route"}
           K == D \ (M11Sections \cup {"geo"})
<1>1. DOMAIN old.o = D /\ DOMAIN c.o = D
  BY SoundShape
<1>2. /\ old.o.dns.o.fakeIp = c.o.dns.o.fakeIp
      /\ <<Only(old, K), GeoView(old.o.geo)>> = <<Only(c, K), GeoView(c.o.geo)>>
  BY <1>1, Zenon DEF assertM11SupportedChange, withoutM11Components
<1>3. \A k \in {"log", "limits", "plugins", "workers", "transport", "connectionPool",
                "hotReload", "probing", "tun", "inbounds"} : k \in K
  BY DEF SectionKeys, M11Sections
<1> HIDE DEF K, D
<1>4. Only(old, K) = Only(c, K) /\ GeoView(old.o.geo) = GeoView(c.o.geo)
  BY <1>2
<1>5. \A k \in K : old.o[k] = c.o[k]
  <2>1. \A k \in K : Only(old, K)[k] = old.o[k] /\ Only(c, K)[k] = c.o[k]
    BY DEF Only
  <2> QED BY <1>4, <2>1
<1> QED BY <1>2, <1>3, <1>4, <1>5

\* The views of a component are different when its part of the configuration is.
LEMMA ViewsAre ==
  ASSUME NEW c
  PROVE  /\ ViewOf(c, "dns") = DnsView(c.o.dns)
         /\ ViewOf(c, "fake-ip-store") = c.o.dns.o.fakeIp
         /\ ViewOf(c, "router") = <<RouterView(c.o.route), GeoView(c.o.geo)>>
         /\ ViewOf(c, "policy-prober") = <<c.o.route.o.policies, c.o.probing>>
         /\ ViewOf(c, "outbound-registry") = <<c.o.outbounds, c.o.connectionPool>>
         /\ ViewOf(c, "inbound-listeners") =
               <<c.o.inbounds, Only(c.o.limits, {"connectTimeoutMs", "handshakeTimeoutMs",
                                                 "idleTimeoutMs", "maxHeaderBytes"})>>
         /\ ViewOf(c, "dashboard-server") = c.o.dashboard
         /\ ViewOf(c, "metrics-server") = c.o.observability.o.metrics
         /\ ViewOf(c, "plugin-manager") = c.o.plugins
         /\ ViewOf(c, "connection-manager") =
               Only(c.o.limits, {"maxConnections", "handshakeTimeoutMs", "idleTimeoutMs"})
         /\ ViewOf(c, "udp-session-manager") = Only(c.o.limits, {"maxUdpSessions", "udpIdleTimeoutMs"})
BY DEF ViewOf

\* Which runtime components change.
LEMMA ChangedAre ==
  ASSUME NEW old, NEW c
  PROVE  LET changed == changedRuntimeComponents(old, c)
         IN  /\ changed \subseteq {"metrics", "dashboard", "router", "policy", "dns", "outbound"}
             /\ "metrics" \in changed <=> old.o.observability.o.metrics # c.o.observability.o.metrics
             /\ "dashboard" \in changed <=> old.o.dashboard # c.o.dashboard
             /\ "router" \in changed <=> RouterView(old.o.route) # RouterView(c.o.route)
             /\ "policy" \in changed <=> old.o.route.o.policies # c.o.route.o.policies
             /\ "outbound" \in changed <=> old.o.outbounds # c.o.outbounds
             /\ "dns" \in changed <=> DnsView(old.o.dns) # DnsView(c.o.dns)
BY Zenon DEF changedRuntimeComponents, TransactionalComponents

\* What the dry run announces is what the runtime changes.
LEMMA SameComponents ==
  ASSUME NEW old, NEW c, Sound(old), Sound(c), assertM11SupportedChange(old, c)
  PROVE  /\ changedComponents(createDryRunReloadPlan(old, c))
                = {PlanName(k) : k \in changedRuntimeComponents(old, c)}
         /\ \A name \in DOMAIN createDryRunReloadPlan(old, c) :
               createDryRunReloadPlan(old, c)[name].action # "restart-required"
<1> DEFINE plan == createDryRunReloadPlan(old, c)
           changed == changedRuntimeComponents(old, c)
           Differ(name) == ViewOf(old, name) # ViewOf(c, name)
<1>1. /\ DOMAIN plan = ComponentNames
      /\ \A name : name \in changedComponents(plan) <=> name \in ComponentNames /\ Differ(name)
      /\ \A name \in ComponentNames :
            plan[name].action = "restart-required" =>
               Differ(name) /\ name \in {"connection-manager", "udp-session-manager"}
  BY PlanIs
<1>2. /\ old.o.dns.o.fakeIp = c.o.dns.o.fakeIp
      /\ GeoView(old.o.geo) = GeoView(c.o.geo)
      /\ \A k \in {"log", "limits", "plugins", "workers", "transport", "connectionPool",
                   "hotReload", "probing", "tun", "inbounds"} : old.o[k] = c.o[k]
  BY SupportedChange
<1>3. old.o.limits = c.o.limits /\ old.o.plugins = c.o.plugins /\ old.o.connectionPool = c.o.connectionPool
      /\ old.o.probing = c.o.probing /\ old.o.inbounds = c.o.inbounds
  BY <1>2
<1>4. /\ ~Differ("fake-ip-store") /\ ~Differ("inbound-listeners") /\ ~Differ("plugin-manager")
      /\ ~Differ("connection-manager") /\ ~Differ("udp-session-manager")
  BY <1>2, <1>3, ViewsAre
<1>5. /\ Differ("dns") <=> "dns" \in changed
      /\ Differ("router") <=> "router" \in changed
      /\ Differ("policy-prober") <=> "policy" \in changed
      /\ Differ("outbound-registry") <=> "outbound" \in changed
      /\ Differ("dashboard-server") <=> "dashboard" \in changed
      /\ Differ("metrics-server") <=> "metrics" \in changed
  <2> HIDE DEF changed
  <2>1. Differ("dns") <=> "dns" \in changed
    BY ViewsAre, ChangedAre DEF changed
  <2>2. Differ("router") <=> "router" \in changed
    BY <1>2, ViewsAre, ChangedAre DEF changed
  <2>3. Differ("policy-prober") <=> "policy" \in changed
    BY <1>3, ViewsAre, ChangedAre DEF changed
  <2>4. Differ("outbound-registry") <=> "outbound" \in changed
    BY <1>3, ViewsAre, ChangedAre DEF changed
  <2>5. Differ("dashboard-server") <=> "dashboard" \in changed
    BY ViewsAre, ChangedAre DEF changed
  <2>6. Differ("metrics-server") <=> "metrics" \in changed
    BY ViewsAre, ChangedAre DEF changed
  <2> QED BY <2>1, <2>2, <2>3, <2>4, <2>5, <2>6, Zenon
<1>6. changed \subseteq {"metrics", "dashboard", "router", "policy", "dns", "outbound"}
  BY ChangedAre
<1>7. /\ PlanName("dns") = "dns" /\ PlanName("router") = "router" /\ PlanName("policy") = "policy-prober"
      /\ PlanName("outbound") = "outbound-registry" /\ PlanName("dashboard") = "dashboard-server"
      /\ PlanName("metrics") = "metrics-server"
  BY DEF PlanName
<1>8. \A name : name \in ComponentNames <=>
         name \in {"dns", "fake-ip-store", "router", "policy-prober", "outbound-registry",
                   "inbound-listeners", "dashboard-server", "metrics-server", "plugin-manager",
                   "connection-manager", "udp-session-manager"}
  BY DEF ComponentNames
<1> HIDE DEF plan, changed, Differ
<1>9. \A name \in changedComponents(plan) : \E k \in changed : name = PlanName(k)
  BY <1>1, <1>4, <1>5, <1>7, <1>8
<1>10. \A k \in changed : PlanName(k) \in changedComponents(plan)
  BY <1>1, <1>5, <1>6, <1>7, <1>8
<1>11. changedComponents(plan) = {PlanName(k) : k \in changed}
  BY <1>9, <1>10
<1>12. \A name \in DOMAIN plan : plan[name].action # "restart-required"
  BY <1>1, <1>4
<1> QED BY <1>11, <1>12 DEF plan, changed

-----------------------------------------------------------------------------
(* The outbound previews.                                                  *)

\* A policy's first outbound is one of the configuration's.
LEMMA FirstOfPolicy ==
  ASSUME NEW c, Sound(c), NEW p \in ToSet(c.o.route.o.policies.a)
  PROVE  p.o.outbounds.a[1].s \in TagsOf(c.o.outbounds)
<1>1. IsPolicy(p)
  BY SoundRoute
<1>2. IsSequence(p.o.outbounds.a) /\ Len(p.o.outbounds.a) > 0
  BY <1>1, PolicyIs
<1>3. p.o.outbounds.a[1] \in ToSet(p.o.outbounds.a)
  BY <1>2, SequenceHas
<1> QED BY <1>3, SoundReferences

\* The outbound that the shadow selects is one of the configuration's.
LEMMA SelectionExists ==
  ASSUME NEW c, Sound(c)
  PROVE  firstSelectedOutbound(c) \in TagsOf(c.o.outbounds)
<1> DEFINE r == c.o.route.o
           hits == {p \in ToSet(r.policies.a) : p.o.tag = r.defaultOutbound}
<1>1. firstSelectedOutbound(c) = IF hits = {} THEN r.defaultOutbound.s
                                 ELSE (CHOOSE p \in hits : TRUE).o.outbounds.a[1].s
  BY DEF firstSelectedOutbound
<1>2. CASE hits # {}
  <2>1. (CHOOSE p \in hits : TRUE) \in hits
    <3> HIDE DEF hits
    <3> QED BY <1>2, Zenon
  <2>2. (CHOOSE p \in hits : TRUE) \in ToSet(r.policies.a)
    BY <2>1
  <2> HIDE DEF hits
  <2>3. (CHOOSE p \in hits : TRUE).o.outbounds.a[1].s \in TagsOf(c.o.outbounds)
    BY <2>2, FirstOfPolicy
  <2> QED BY <1>1, <1>2, <2>3
<1>3. CASE hits = {}
  <2>1. r.defaultOutbound.s \in TagsOf(c.o.outbounds) \cup TagsOf(r.policies)
    BY SoundReferences, Zenon DEF RouteTargets
  <2>2. r.defaultOutbound.s \notin TagsOf(r.policies)
    <3> SUFFICES ASSUME r.defaultOutbound.s \in TagsOf(r.policies) PROVE FALSE
      OBVIOUS
    <3>1. PICK i \in DOMAIN r.policies.a : r.defaultOutbound.s = r.policies.a[i].o.tag.s
      BY Zenon DEF TagsOf
    <3> DEFINE p == r.policies.a[i]
    <3>2. p \in ToSet(r.policies.a)
      BY DEF ToSet
    <3>3. IsPolicy(p)
      BY <3>2, SoundRoute
    <3>4. p.o.tag = [t |-> "str", s |-> p.o.tag.s]
      BY <3>3, PolicyIs, Zenon DEF Proper, IsText
    <3>5. r.defaultOutbound = [t |-> "str", s |-> r.defaultOutbound.s]
      BY SoundRoute DEF Proper, IsText
    <3>6. p.o.tag = r.defaultOutbound
      BY <3>1, <3>4, <3>5
    <3> QED BY <1>3, <3>2, <3>6
  <2> HIDE DEF hits
  <2> QED BY <1>1, <1>3, <2>1, <2>2
<1> QED BY <1>2, <1>3

\* A type's risk.
LEMMA RiskIs ==
  ASSUME NEW type
  PROVE  riskLevelFor(type) = "low" <=> type \in ALLOWED_TYPES
BY DEF riskLevelFor, ALLOWED_TYPES

\* The dry run allows what the adapter prepares.
LEMMA SameAllowed ==
  ASSUME NEW c, Sound(c), NEW built, built.highest = HighestRisk(c)
  PROVE  m11Allowed(built, c) <=> OutboundPrepares(built, c)
<1> DEFINE outs == c.o.outbounds.a
<1>1. \E x \in ToSet(outs) : TRUE
  <2>1. firstSelectedOutbound(c) \in TagsOf(c.o.outbounds)
    BY SelectionExists
  <2> QED BY <2>1, Zenon DEF TagsOf, ToSet
<1>2. \A k : k \in Risks(c) <=> \E x \in ToSet(outs) : k = riskLevelFor(Type(x))
  BY DEF Risks
<1>3. (\A x \in ToSet(outs) : riskLevelFor(Type(x)) = "low")
         <=> (\A x \in ToSet(outs) : Type(x) \in ALLOWED_TYPES)
  BY RiskIs
<1>4. (\A x \in ToSet(outs) : riskLevelFor(Type(x)) = "low") => HighestRisk(c) = "low"
  BY <1>1, <1>2 DEF HighestRisk
<1>5. m11Allowed(built, c) <=> /\ built.errors = {} /\ built.unsupported = {}
                               /\ \A x \in ToSet(outs) : riskLevelFor(Type(x)) = "low"
  BY DEF m11Allowed
<1>6. OutboundPrepares(built, c) <=> /\ \A x \in ToSet(outs) : Type(x) \in ALLOWED_TYPES
                                     /\ built.errors = {}
                                     /\ built.unsupported = {} /\ built.highest = "low"
  BY DEF OutboundPrepares
<1> QED BY <1>3, <1>4, <1>5, <1>6

\* The previews tell the truth about the runtime (plan.ts, shadow.ts,
\* runtimeReload.ts): a reload that is let through changes the components the dry
\* run announces, the outbound dry run allows exactly what the adapter prepares,
\* and an accepted candidate has the outbound a new connection would select.
THEOREM PreviewsTrue == PlanSpec => []PreviewMatchesRuntime
<1>1. PlanInv => PreviewMatchesRuntime
  <2> SUFFICES ASSUME PlanInv, report # NoReport PROVE PreviewMatchesRuntime
    BY DEF PreviewMatchesRuntime
  <2>1. Reported /\ Sound(current) /\ Sound(result)
    BY DEF PlanInv, Reported, LoadInv
  <2> DEFINE shadow == createOutboundShadowReport(current, result)
             built == report.shadow.built
             changed == changedRuntimeComponents(current, result)
  <2>2. /\ report.shadow = shadow
        /\ report.plan = createDryRunReloadPlan(current, result)
        /\ report.changed = changed
        /\ report.verdict = RuntimeVerdict(current, result, changed, shadow.built)
    <3> HIDE DEF shadow, changed
    <3> QED BY <2>1 DEF Reported, RuntimeReport, shadow, changed
  <2>3. /\ built = buildOutboundGeneration(current, result, {firstSelectedOutbound(current)})
        /\ built.highest = HighestRisk(result)
    <3>1. built = buildOutboundGeneration(current, result, {firstSelectedOutbound(current)})
      BY <2>1, ReportedDiff
    <3>2. \A inUse : buildOutboundGeneration(current, result, inUse).highest = HighestRisk(result)
      BY Zenon DEF buildOutboundGeneration
    <3> QED BY <3>1, <3>2
  <2>4. report.verdict \in {"runs", "not-enabled", "outbound-refused"}
           => assertM11SupportedChange(current, result)
    BY <2>2 DEF RuntimeVerdict
  <2>5. report.verdict = "runs" /\ "outbound" \in changed => OutboundPrepares(built, result)
    BY <2>2 DEF RuntimeVerdict
  <2>6. report.shadow.allowed <=> m11Allowed(built, result)
    <3>1. shadow.allowed = m11Allowed(shadow.built, result)
      BY Zenon DEF createOutboundShadowReport
    <3> QED BY <2>2, <3>1, Zenon
  <2>7. report.shadow.accepted <=> built.errors = {}
    <3>1. shadow.accepted = (shadow.built.errors = {})
      BY Zenon DEF createOutboundShadowReport
    <3> QED BY <2>2, <3>1, Zenon
  <2>8. report.shadow.wouldUseCandidate <=>
           (built.errors = {} /\ firstSelectedOutbound(result) \in TagsOf(result.o.outbounds))
    <3>1. shadow.wouldUseCandidate =
             (shadow.built.errors = {} /\ firstSelectedOutbound(result) \in TagsOf(result.o.outbounds))
      BY Zenon DEF createOutboundShadowReport
    <3> QED BY <2>2, <3>1, Zenon
  <2> HIDE DEF shadow, built, changed
  <2>9. firstSelectedOutbound(result) \in TagsOf(result.o.outbounds)
    BY <2>1, SelectionExists
  <2>10. m11Allowed(built, result) <=> OutboundPrepares(built, result)
    BY <2>1, <2>3, SameAllowed
  <2>11. OutboundPrepares(built, result) => built.errors = {}
    BY DEF OutboundPrepares
  <2>12. report.verdict \in {"runs", "not-enabled", "outbound-refused"} =>
            /\ changedComponents(report.plan) = {PlanName(k) : k \in report.changed}
            /\ \A name \in DOMAIN report.plan : report.plan[name].action # "restart-required"
    BY <2>1, <2>2, <2>4, SameComponents DEF changed
  <2>13. report.shadow.allowed <=> OutboundPrepares(report.shadow.built, result)
    BY <2>6, <2>10 DEF built
  <2>14. report.verdict = "runs" /\ "outbound" \in report.changed =>
            report.shadow.allowed /\ report.shadow.wouldUseCandidate
    BY <2>2, <2>5, <2>6, <2>8, <2>9, <2>10, <2>11, Zenon
  <2>15. report.shadow.accepted => report.shadow.wouldUseCandidate
    BY <2>7, <2>8, <2>9, Zenon
  <2> QED BY <2>12, <2>13, <2>14, <2>15, Zenon DEF PreviewMatchesRuntime
<1> QED BY <1>1, PlanInvariant, PTL

-----------------------------------------------------------------------------
(* The items of a list that the parser keeps.                              *)

\* An item carries the tags of the entry it was made of.
SameTags(y, x) == \A k \in {"tag", "outboundTag"} \cap DOMAIN y.o : y.o[k] = Get(x.o, k)

\* What is kept of a list, item by item.
KeptWell(raw, W, kept) ==
  /\ Len(kept) = Len(Those(raw, W))
  /\ \A i \in DOMAIN kept : SameTags(kept[i], Those(raw, W)[i])

\* Items parsed in step with their entries.
LEMMA KeptInStep ==
  ASSUME NEW f, NEW rs, IsSequence(f), IsSequence(rs), Len(f) = Len(rs), NEW W,
         \A i \in 1 .. Len(f) : f[i] \in W <=> ~IsUndef(rs[i]),
         \A i \in 1 .. Len(f) : ~IsUndef(rs[i]) => SameTags(rs[i], f[i])
  PROVE  KeptWell(f, W, Those(rs, {r \in ToSet(rs) : ~IsUndef(r)}))
<1> DEFINE V == {r \in ToSet(rs) : ~IsUndef(r)}
           a == Those(f, W)
           b == Those(rs, V)
<1>1. \A i \in 1 .. Len(f) : f[i] \in W <=> rs[i] \in V
  BY SequenceHas
<1>2. InStep(a, b, f, rs, W, Len(f))
  <2> HIDE DEF V
  <2> QED BY <1>1, FilteredInStep
<1> HIDE DEF a, b
<1>3. PICK at \in [1 .. Len(a) -> 1 .. Len(f)] :
         \A i \in 1 .. Len(a) : a[i] = f[at[i]] /\ b[i] = rs[at[i]] /\ f[at[i]] \in W
  BY <1>2 DEF InStep
<1>4. IsSequence(b) /\ Len(a) = Len(b)
  BY <1>2 DEF InStep
<1>5. DOMAIN b = 1 .. Len(a)
  BY <1>4, SequenceHas
<1>6. \A i \in 1 .. Len(a) : SameTags(b[i], a[i])
  <2>1. ASSUME NEW i \in 1 .. Len(a) PROVE SameTags(b[i], a[i])
    <3>1. at[i] \in 1 .. Len(f) /\ a[i] = f[at[i]] /\ b[i] = rs[at[i]] /\ f[at[i]] \in W
      BY <1>3
    <3> QED BY <3>1
  <2> QED BY <2>1
<1> QED BY <1>4, <1>5, <1>6 DEF KeptWell, a, b

\* Which objects are dropped.
LEMMA ItemDropped ==
  ASSUME NEW x, NEW T, ~IsBad(ParseObject(x, T))
  PROVE  IsUndef(ParseObject(x, T)) <=> \E k \in DOMAIN T : T[k].needed /\ IsUndef(ReadLeaf(x.o, k, T[k]))
<1>1. /\ \/ /\ ParseObject(x, T) = Undef
            /\ \E k \in DOMAIN T : T[k].needed /\ IsUndef(Leaves(x, T)[k])
         \/ /\ ParseObject(x, T) = Obj(Leaves(x, T))
            /\ \A k \in DOMAIN T : T[k].needed => ~IsUndef(Leaves(x, T)[k])
  BY ObjectRead
<1>2. \A k \in DOMAIN T : Leaves(x, T)[k] = ReadLeaf(x.o, k, T[k])
  BY DEF Leaves
<1>3. IsUndef(Undef) /\ \A o : ~IsUndef(Obj(o))
  BY DEF IsUndef, Undef, Obj
<1> QED BY <1>1, <1>2, <1>3, Zenon

\* An object whose absent fields, if needed, are complaints.
LEMMA ItemNotDropped ==
  ASSUME NEW x, NEW T, ~IsBad(ParseObject(x, T)),
         \A k \in DOMAIN T : T[k].needed => T[k].must /\ T[k].alias = "" /\ T[k].kind \notin Converting
  PROVE  ~IsUndef(ParseObject(x, T))
<1>1. ParseObject(x, T) = Obj(Leaves(x, T))
  BY NothingDropped, Zenon
<1> QED BY <1>1, ObjIs, Zenon DEF IsUndef

\* The entries of a list in a file: the schema looks at their fields.
Plain(x) == isRecord(x) => \A k : k \notin MapKeys => Proper(Get(x.o, k))

\* Lists of a file hold such entries.
LEMMA PlainItems ==
  ASSUME NEW g, Value5(g) \/ Value6(g) \/ g = Undef
  PROVE  Proper(g) /\ \A x \in ToSet(ItemsOf(g)) : Plain(x)
<1>1. Proper(g)
  BY ProperValue
<1>2. ASSUME NEW x \in ToSet(ItemsOf(g)) PROVE Plain(x)
  <2>1. g.t = "arr" /\ ItemsOf(g) = g.a
    BY <1>2 DEF ItemsOf, ToSet
  <2>2. g # Undef
    BY <2>1 DEF Undef
  <2>3. Value4(x) \/ Value5(x)
    BY <1>2, <2>1, <2>2, ProperValue
  <2>4. ASSUME isRecord(x), NEW k, k \notin MapKeys PROVE Proper(Get(x.o, k))
    <3>1. Value3(Get(x.o, k)) \/ Value4(Get(x.o, k)) \/ Get(x.o, k) = Undef
      BY <2>3, <2>4, FieldOf
    <3> QED BY <3>1, ProperValue
  <2> QED BY <2>4 DEF Plain
<1> QED BY <1>1, <1>2

\* A needed list of texts.
LEMMA NeededTexts ==
  ASSUME NEW o, NEW k, NEW f, f.alias = "", f.kind \in {"texts", "some"}, f.def = Undef,
         Proper(Get(o, k)), ~IsBad(ReadLeaf(o, k, f))
  PROVE  IsUndef(ReadLeaf(o, k, f)) <=> IsUndef(Get(o, k))
<1> DEFINE g == Get(o, k)
<1>1. \/ IsUndef(g) /\ ReadLeaf(o, k, f) = f.def
      \/ ~IsUndef(g) /\ Accepts(f, g) /\ ReadLeaf(o, k, f) = Converted(f, g)
  BY LeafOf, Zenon
<1>2. IsUndef(Undef)
  BY Zenon DEF IsUndef, Undef
<1>3. Accepts(f, g) => g.t = "arr"
  BY AcceptsTexts, AcceptsSome, Zenon
<1>4. Converted(f, g) = TrimItems(g)
  BY Zenon DEF Converted
<1> HIDE DEF g
<1>5. g.t = "arr" /\ Proper(g) => ~IsUndef(TrimItems(g))
  BY Trimmed, ArrIs, Zenon DEF IsUndef
<1> QED BY <1>1, <1>2, <1>3, <1>4, <1>5, Zenon DEF g

\* The tags of an object are those of the file.
LEMMA TagsKept ==
  ASSUME NEW x, NEW T, ReadItem(ParseObject(x, T)), Plain(x),
         \A k \in {"tag", "outboundTag"} \cap DOMAIN T : T[k] = Required(OptText) \/ T[k] = OptText
  PROVE  SameTags(ParseObject(x, T), x)
<1>1. /\ ParseObject(x, T) = Obj(Leaves(x, T)) /\ isRecord(x)
      /\ \A k \in DOMAIN T : /\ ParseObject(x, T).o[k] = ReadLeaf(x.o, k, T[k])
                             /\ ~IsBad(ReadLeaf(x.o, k, T[k]))
  BY ItemIs
<1>2. DOMAIN ParseObject(x, T).o = DOMAIN T
  BY <1>1 DEF Obj, Leaves
<1>3. \A k \in {"tag", "outboundTag"} : Proper(Get(x.o, k))
  <2>1. "tag" \notin MapKeys /\ "outboundTag" \notin MapKeys
    BY DEF MapKeys
  <2> QED BY <1>1, <2>1 DEF Plain
<1>4. ASSUME NEW k \in {"tag", "outboundTag"} \cap DOMAIN T
      PROVE  ReadLeaf(x.o, k, T[k]) = Get(x.o, k)
  <2>1. CASE T[k] = Required(OptText)
    BY <1>1, <2>1, RequiredText
  <2>2. CASE T[k] = OptText
    <3>1. \/ IsUndef(Get(x.o, k)) /\ ReadLeaf(x.o, k, OptText) = Undef
          \/ ReadLeaf(x.o, k, OptText) = Get(x.o, k)
      BY <1>1, <2>2, OptionalText
    <3>2. IsUndef(Get(x.o, k)) => Get(x.o, k) = Undef
      BY <1>3 DEF Proper, IsUndef
    <3> QED BY <2>2, <3>1, <3>2
  <2> QED BY <2>1, <2>2
<1> QED BY <1>1, <1>2, <1>4 DEF SameTags

\* A list within a node, entry by entry.
LEMMA ListKept ==
  ASSUME NEW o, NEW k, NEW T, ~IsBad(ReadField(o, k, ListOf(T))), Proper(Get(o, k)), NEW W,
         \A x \in ToSet(ItemsOf(Get(o, k))) : ~IsBad(ParseObject(x, T)) =>
            /\ x \in W <=> ~IsUndef(ParseObject(x, T))
            /\ ~IsUndef(ParseObject(x, T)) => SameTags(ParseObject(x, T), x)
  PROVE  KeptWell(ItemsOf(Get(o, k)), W, ReadField(o, k, ListOf(T)).a)
<1> DEFINE f == ListOf(T)
           g == Get(o, k)
           v == ReadField(o, k, ListOf(T))
           rs == [i \in DOMAIN g.a |-> ParseObject(g.a[i], T)]
<1>1. f.kind = "list" /\ ~f.must /\ f.def = EmptyList /\ f.table = T
  BY Zenon DEF ListOf, Field
<1>2. v = ParseNested(f, g)
  BY <1>1 DEF ReadField
<1>3. ParseNested(f, g) = IF IsUndef(g) THEN f.def ELSE IF g.t = "arr" THEN Collected(rs) ELSE Bad
  <2> HIDE DEF f, g
  <2>1. CASE IsUndef(g)
    BY <1>1, <2>1 DEF ParseNested
  <2>2. CASE ~IsUndef(g)
    BY <1>1, <2>2 DEF ParseNested
  <2> QED BY <2>1, <2>2
<1> HIDE DEF f, v, rs
<1>4. CASE IsUndef(g)
  <2>1. v.a = <<>>
    BY <1>1, <1>2, <1>3, <1>4 DEF EmptyList, Arr
  <2>2. ItemsOf(g) = <<>>
    BY <1>4 DEF ItemsOf, IsUndef
  <2>3. Those(<<>>, W) = <<>>
    <3>1. ToSet(<<>>) = {}
      BY DEF ToSet
    <3> QED BY <3>1, EmptyIsSequence, Filtered
  <2>4. DOMAIN <<>> = {}
    OBVIOUS
  <2> QED BY <2>1, <2>2, <2>3, <2>4 DEF KeptWell, v
<1>5. CASE ~IsUndef(g)
  <2>1. g.t = "arr" /\ v = Collected(rs) /\ ~IsBad(v)
    BY <1>2, <1>3, <1>5 DEF v, IsBad, Bad
  <2>2. IsSequence(g.a) /\ ItemsOf(g) = g.a
    BY <2>1 DEF Proper, ItemsOf
  <2>3. Len(g.a) \in Nat /\ DOMAIN g.a = 1 .. Len(g.a)
    BY <2>2, SequenceHas
  <2>4. rs = [i \in 1 .. Len(g.a) |-> ParseObject(g.a[i], T)]
    BY <2>3 DEF rs
  <2>5. rs = [i \in 1 .. Len(g.a) |-> rs[i]]
    BY <2>4
  <2>6. IsSequence(rs) /\ Len(rs) = Len(g.a)
    BY <2>3, <2>5, MappedSequence
  <2>7. /\ \A i \in 1 .. Len(rs) : ~IsBad(rs[i])
        /\ v.a = Those(rs, {r \in ToSet(rs) : ~IsUndef(r)})
    BY <2>1, <2>6, CollectedIs, ArrIs
  <2>8. ASSUME NEW i \in 1 .. Len(g.a)
        PROVE  /\ g.a[i] \in W <=> ~IsUndef(rs[i])
               /\ ~IsUndef(rs[i]) => SameTags(rs[i], g.a[i])
    <3>1. rs[i] = ParseObject(g.a[i], T) /\ ~IsBad(rs[i])
      BY <2>4, <2>6, <2>7
    <3>2. g.a[i] \in ToSet(ItemsOf(g))
      BY <2>2, SequenceHas
    <3> QED BY <3>1, <3>2
  <2>9. KeptWell(g.a, W, Those(rs, {r \in ToSet(rs) : ~IsUndef(r)}))
    BY <2>2, <2>6, <2>8, KeptInStep
  <2> QED BY <2>2, <2>7, <2>9 DEF v
<1> QED BY <1>4, <1>5

-----------------------------------------------------------------------------
(* Which tables drop an object in silence.                                 *)

\* An object without the field is a complaint, or keeps.
Insistent(f) == f.needed => f.must /\ f.alias = "" /\ f.kind \notin Converting /\ f.kind \notin Nested

\* The fields of the tables insist.
LEMMA InsistentFields ==
  /\ Insistent(Required(OptText)) /\ Insistent(OptText) /\ Insistent(OptFlag) /\ Insistent(OptTexts)
  /\ \A w : Insistent(TextField(w))
  /\ \A lo, hi : Insistent(OptInt(lo, hi)) /\ Insistent(Required(OptInt(lo, hi)))
  /\ \A lo, hi, n : Insistent(IntField(lo, hi, n))
  /\ \A words, w : Insistent(Word(words, w))
  /\ \A words : Insistent(Required(OptWord(words)))
  /\ \A kind, def : Insistent(Field(kind, def))
  /\ \A T : Insistent(Section(T)) /\ Insistent(Item(T)) /\ Insistent(ListOf(T))
<1> USE DEF Insistent, Converting, Nested, Required, Field
<1>1. Insistent(Required(OptText)) /\ Insistent(OptText) /\ Insistent(OptFlag) /\ Insistent(OptTexts)
  BY DEF OptText, OptFlag, OptTexts
<1>2. \A w : Insistent(TextField(w))
  BY DEF TextField
<1>3. \A lo, hi : Insistent(OptInt(lo, hi)) /\ Insistent(Required(OptInt(lo, hi)))
  BY DEF OptInt
<1>4. \A lo, hi, n : Insistent(IntField(lo, hi, n))
  BY DEF IntField, OptInt
<1>5. \A words, w : Insistent(Word(words, w))
  BY DEF Word, OptWord
<1>6. \A words : Insistent(Required(OptWord(words)))
  BY DEF OptWord
<1>7. \A kind, def : Insistent(Field(kind, def))
  OBVIOUS
<1>8. \A T : Insistent(Section(T)) /\ Insistent(Item(T)) /\ Insistent(ListOf(T))
  BY DEF Section, Item, ListOf
<1> HIDE DEF Insistent
<1> QED BY <1>1, <1>2, <1>3, <1>4, <1>5, <1>6, <1>7, <1>8, Zenon

\* A required field that is read is there.
LEMMA MustBeThere ==
  ASSUME NEW o, NEW k, NEW f, f.must, f.alias = "", f.kind \notin Converting, ~IsBad(ReadLeaf(o, k, f))
  PROVE  ~IsUndef(ReadLeaf(o, k, f))
BY PlainLeaf, Zenon

\* A table of such fields never drops.
LEMMA NeverDrops ==
  ASSUME NEW x, NEW T, ~IsBad(ParseObject(x, T)), \A k \in DOMAIN T : Insistent(T[k])
  PROVE  ~IsUndef(ParseObject(x, T))
BY ItemNotDropped, Zenon DEF Insistent

\* The tables whose fields all do.
LEMMA InsistentTables ==
  /\ \A k \in DOMAIN RuleSetFileFields : Insistent(RuleSetFileFields[k])
  /\ \A k \in DOMAIN UdpServerFields : Insistent(UdpServerFields[k])
  /\ \A k \in DOMAIN PluginModuleFields : Insistent(PluginModuleFields[k])
  /\ \A k \in DOMAIN WasmFields : Insistent(WasmFields[k])
  /\ \A k \in DOMAIN RuleFields : Insistent(RuleFields[k])
<1>1. \A k \in DOMAIN RuleSetFileFields : Insistent(RuleSetFileFields[k])
  BY InsistentFields DEF RuleSetFileFields
<1>2. \A k \in DOMAIN UdpServerFields : Insistent(UdpServerFields[k])
  BY InsistentFields DEF UdpServerFields
<1>3. \A k \in DOMAIN PluginModuleFields : Insistent(PluginModuleFields[k])
  <2>1. DOMAIN PluginModuleFields \subseteq {"tag", "path", "manifest", "enabled"}
    BY DEF PluginModuleFields
  <2>2. \A k \in DOMAIN PluginModuleFields : k # "enabled" => Insistent(PluginModuleFields[k])
    BY InsistentFields DEF PluginModuleFields
  <2>3. ~PluginModuleFields["enabled"].needed
    BY Zenon DEF PluginModuleFields, Flag, Field
  <2> QED BY <2>2, <2>3, Zenon DEF Insistent
<1>4. \A k \in DOMAIN WasmFields : Insistent(WasmFields[k])
  <2>1. DOMAIN WasmFields \subseteq {"tag", "path", "manifest", "enabled"}
    BY DEF WasmFields
  <2>2. \A k \in DOMAIN WasmFields : k # "enabled" => Insistent(WasmFields[k])
    BY InsistentFields DEF WasmFields
  <2>3. ~WasmFields["enabled"].needed
    BY Zenon DEF WasmFields, Flag, Field
  <2> QED BY <2>2, <2>3, Zenon DEF Insistent
<1>5. \A k \in DOMAIN RuleFields : Insistent(RuleFields[k])
  BY InsistentFields DEF RuleFields
<1> QED BY <1>1, <1>2, <1>3, <1>4, <1>5

\* The tags of each table are texts.
LEMMA TagFields ==
  \A T \in {RuleSetFileFields, UdpServerFields, PluginModuleFields, WasmFields, RuleFields,
            DnsRuleFields, PolicyFields} :
     \A k \in {"tag", "outboundTag"} \cap DOMAIN T : T[k] = Required(OptText) \/ T[k] = OptText
<1> DEFINE Fine(T) == \A k \in {"tag", "outboundTag"} \cap DOMAIN T : T[k] = Required(OptText) \/ T[k] = OptText
<1>1. Fine(RuleSetFileFields)
  BY DEF RuleSetFileFields
<1>2. Fine(UdpServerFields)
  BY DEF UdpServerFields
<1>3. Fine(PluginModuleFields)
  BY DEF PluginModuleFields
<1>4. Fine(WasmFields)
  BY DEF WasmFields
<1>5. Fine(RuleFields)
  BY DEF RuleFields
<1>6. Fine(DnsRuleFields)
  BY DEF DnsRuleFields
<1>7. Fine(PolicyFields)
  BY DEF PolicyFields
<1> HIDE DEF Fine
<1>8. \A T \in {RuleSetFileFields, UdpServerFields, PluginModuleFields, WasmFields, RuleFields,
                DnsRuleFields, PolicyFields} : Fine(T)
  BY <1>1, <1>2, <1>3, <1>4, <1>5, <1>6, <1>7
<1> QED BY <1>8 DEF Fine

\* The lists of objects that are never dropped.
LEMMA AllKept ==
  ASSUME NEW T \in {RuleSetFileFields, UdpServerFields, PluginModuleFields, WasmFields},
         NEW o, NEW k, ~IsBad(ReadField(o, k, ListOf(T))), Value5(Get(o, k)) \/ Get(o, k) = Undef,
         NEW W, ToSet(ItemsOf(Get(o, k))) \subseteq W
  PROVE  KeptWell(ItemsOf(Get(o, k)), W, ReadField(o, k, ListOf(T)).a)
<1>1. \A i \in DOMAIN T : Insistent(T[i])
  BY InsistentTables
<1>2. \A i \in {"tag", "outboundTag"} \cap DOMAIN T : T[i] = Required(OptText) \/ T[i] = OptText
  BY TagFields
<1>3. Proper(Get(o, k)) /\ \A x \in ToSet(ItemsOf(Get(o, k))) : Plain(x)
  BY PlainItems
<1>4. ASSUME NEW x \in ToSet(ItemsOf(Get(o, k))), ~IsBad(ParseObject(x, T))
      PROVE  /\ x \in W <=> ~IsUndef(ParseObject(x, T))
             /\ ~IsUndef(ParseObject(x, T)) => SameTags(ParseObject(x, T), x)
  <2>1. ~IsUndef(ParseObject(x, T))
    BY <1>1, <1>4, NeverDrops
  <2>2. SameTags(ParseObject(x, T), x)
    BY <1>2, <1>3, <1>4, <2>1, TagsKept DEF ReadItem
  <2> QED BY <2>1, <2>2
<1> HIDE DEF KeptWell
<1> QED BY <1>3, <1>4, ListKept

\* An object with one needed list, among fields that insist.
LEMMA DroppedForList ==
  ASSUME NEW x, NEW T, NEW key \in DOMAIN T, T[key].needed,
         T[key].alias = "", T[key].kind \in {"texts", "some"}, T[key].def = Undef,
         \A i \in DOMAIN T : i # key => Insistent(T[i]),
         ~IsBad(ParseObject(x, T)), Proper(Get(x.o, key))
  PROVE  isRecord(x) /\ (IsUndef(ParseObject(x, T)) <=> IsUndef(Get(x.o, key)))
<1>1. /\ isRecord(x) /\ \A i \in DOMAIN T : ~IsBad(ReadLeaf(x.o, i, T[i]))
  <2>1. isRecord(x) /\ \A i \in DOMAIN T : ~IsBad(Leaves(x, T)[i])
    BY ObjectRead, Zenon
  <2> QED BY <2>1, Zenon DEF Leaves
<1>2. IsUndef(ReadLeaf(x.o, key, T[key])) <=> IsUndef(Get(x.o, key))
  <2> DEFINE f == T[key]
  <2>1. f.alias = "" /\ f.kind \in {"texts", "some"} /\ f.def = Undef /\ ~IsBad(ReadLeaf(x.o, key, f))
    BY <1>1, Zenon
  <2> HIDE DEF f
  <2>2. IsUndef(ReadLeaf(x.o, key, f)) <=> IsUndef(Get(x.o, key))
    BY <2>1, NeededTexts, Zenon
  <2> QED BY <2>2, Zenon DEF f
<1>3. ASSUME NEW i \in DOMAIN T, i # key, T[i].needed PROVE ~IsUndef(ReadLeaf(x.o, i, T[i]))
  <2> DEFINE f == T[i]
  <2>1. f.must /\ f.alias = "" /\ f.kind \notin Converting /\ ~IsBad(ReadLeaf(x.o, i, f))
    BY <1>1, <1>3, Zenon DEF Insistent
  <2> HIDE DEF f
  <2>2. ~IsUndef(ReadLeaf(x.o, i, f))
    BY <2>1, MustBeThere, Zenon
  <2> QED BY <2>2, Zenon DEF f
<1>4. IsUndef(ParseObject(x, T)) <=> \E i \in DOMAIN T : T[i].needed /\ IsUndef(ReadLeaf(x.o, i, T[i]))
  BY ItemDropped, Zenon
<1>5. T[key].needed
  BY Zenon
<1> QED BY <1>1, <1>2, <1>3, <1>4, <1>5, Zenon

\* The policies and the DNS rules: those without their list are dropped.
LEMMA NeededKept ==
  ASSUME NEW T \in {PolicyFields, DnsRuleFields}, NEW key \in DOMAIN T, key \notin MapKeys,
         T[key].needed, T[key].alias = "", T[key].kind \in {"texts", "some"}, T[key].def = Undef,
         \A i \in DOMAIN T : i # key => Insistent(T[i]),
         NEW o, NEW k, ~IsBad(ReadField(o, k, ListOf(T))), Value5(Get(o, k)) \/ Get(o, k) = Undef,
         NEW W, \A x \in ToSet(ItemsOf(Get(o, k))) : x \in W <=> ~IsUndef(Get(x.o, key))
  PROVE  KeptWell(ItemsOf(Get(o, k)), W, ReadField(o, k, ListOf(T)).a)
<1>2. \A i \in {"tag", "outboundTag"} \cap DOMAIN T : T[i] = Required(OptText) \/ T[i] = OptText
  BY TagFields, Zenon
<1>3. Proper(Get(o, k)) /\ \A x \in ToSet(ItemsOf(Get(o, k))) : Plain(x)
  BY PlainItems, Zenon
<1>4. ASSUME NEW x \in ToSet(ItemsOf(Get(o, k))), ~IsBad(ParseObject(x, T))
      PROVE  /\ x \in W <=> ~IsUndef(ParseObject(x, T))
             /\ ~IsUndef(ParseObject(x, T)) => SameTags(ParseObject(x, T), x)
  <2>1. isRecord(x)
    BY <1>4, ObjectRead, Zenon
  <2>2. Proper(Get(x.o, key))
    BY <1>3, <2>1, Zenon DEF Plain
  <2>5. IsUndef(ParseObject(x, T)) <=> IsUndef(Get(x.o, key))
    BY <1>4, <2>2, DroppedForList, Zenon
  <2>6. ~IsUndef(ParseObject(x, T)) => SameTags(ParseObject(x, T), x)
    BY <1>2, <1>3, <1>4, TagsKept, Zenon DEF ReadItem
  <2> QED BY <2>5, <2>6, Zenon
<1> HIDE DEF KeptWell
<1> QED BY <1>3, <1>4, ListKept, Zenon

\* The tables with one list that is needed.
LEMMA NeededTables ==
  /\ "outbounds" \in DOMAIN PolicyFields /\ "outbounds" \notin MapKeys
  /\ PolicyFields["outbounds"] = Needed(Field("some", Undef))
  /\ \A i \in DOMAIN PolicyFields : i # "outbounds" => Insistent(PolicyFields[i])
  /\ "domainSuffix" \in DOMAIN DnsRuleFields /\ "domainSuffix" \notin MapKeys
  /\ DnsRuleFields["domainSuffix"] = Needed(OptTexts)
  /\ \A i \in DOMAIN DnsRuleFields : i # "domainSuffix" => Insistent(DnsRuleFields[i])
<1>1. \A i \in DOMAIN PolicyFields : i # "outbounds" => Insistent(PolicyFields[i])
  BY InsistentFields DEF PolicyFields
<1>2. \A i \in DOMAIN DnsRuleFields : i # "domainSuffix" => Insistent(DnsRuleFields[i])
  BY InsistentFields DEF DnsRuleFields
<1>3. /\ "outbounds" \in DOMAIN PolicyFields /\ "outbounds" \notin MapKeys
      /\ PolicyFields["outbounds"] = Needed(Field("some", Undef))
  BY DEF PolicyFields, MapKeys
<1>4. /\ "domainSuffix" \in DOMAIN DnsRuleFields /\ "domainSuffix" \notin MapKeys
      /\ DnsRuleFields["domainSuffix"] = Needed(OptTexts)
  BY DEF DnsRuleFields, MapKeys
<1> QED BY <1>1, <1>2, <1>3, <1>4

\* A needed list of texts.
LEMMA NeededTextsAre ==
  /\ LET f == Needed(Field("some", Undef))
     IN  f.needed /\ f.alias = "" /\ f.kind \in {"texts", "some"} /\ f.def = Undef
  /\ LET f == Needed(OptTexts)
     IN  f.needed /\ f.alias = "" /\ f.kind \in {"texts", "some"} /\ f.def = Undef
<1>1. LET f == Needed(Field("some", Undef))
      IN  f.needed /\ f.alias = "" /\ f.kind \in {"texts", "some"} /\ f.def = Undef
  BY DEF Needed, Field
<1>2. LET f == Needed(OptTexts)
      IN  f.needed /\ f.alias = "" /\ f.kind \in {"texts", "some"} /\ f.def = Undef
  BY DEF Needed, OptTexts, Field
<1> QED BY <1>1, <1>2, Zenon

-----------------------------------------------------------------------------
(* The lists whose items have parsers of their own.                        *)

\* What is left of the items that were parsed.
LEMMA CollectedKept ==
  ASSUME NEW f, NEW rs, IsSequence(f), IsSequence(rs), Len(rs) = Len(f), ~IsBad(Collected(rs)), NEW W,
         \A i \in 1 .. Len(f) : ~IsBad(rs[i]) => /\ f[i] \in W <=> ~IsUndef(rs[i])
                                                 /\ ~IsUndef(rs[i]) => SameTags(rs[i], f[i])
  PROVE  KeptWell(f, W, Collected(rs).a)
<1>1. /\ \A i \in 1 .. Len(rs) : ~IsBad(rs[i])
      /\ Collected(rs).a = Those(rs, {r \in ToSet(rs) : ~IsUndef(r)})
  BY CollectedIs, ArrIs
<1>2. \A i \in 1 .. Len(f) : /\ f[i] \in W <=> ~IsUndef(rs[i])
                             /\ ~IsUndef(rs[i]) => SameTags(rs[i], f[i])
  BY <1>1
<1>3. KeptWell(f, W, Those(rs, {r \in ToSet(rs) : ~IsUndef(r)}))
  BY <1>2, KeptInStep
<1> QED BY <1>1, <1>3

\* A rule has the tags of the file: the geo lists are added to other fields.
LEMMA RuleTags ==
  ASSUME NEW x, NEW geo, ~IsBad(parseRouteRule(x, geo)), Plain(x)
  PROVE  ReadItem(parseRouteRule(x, geo)) /\ SameTags(parseRouteRule(x, geo), x)
<1> DEFINE y == ParseObject(x, RuleFields)
<1>1. ~IsBad(y) /\ parseRouteRule(x, geo) = Obj(Expanded(y.o, geo))
  BY DEF parseRouteRule, ParsedRule, IsBad, Bad
<1>2. ~IsUndef(y)
  BY <1>1, NeverDrops, InsistentTables
<1>3. SameTags(y, x)
  <2>1. \A k \in {"tag", "outboundTag"} \cap DOMAIN RuleFields :
           RuleFields[k] = Required(OptText) \/ RuleFields[k] = OptText
    BY TagFields
  <2> QED BY <1>1, <1>2, <2>1, TagsKept DEF ReadItem
<1> HIDE DEF y
<1>4. DOMAIN Expanded(y.o, geo) = DOMAIN y.o
  BY DEF Expanded
<1>5. \A k \in {"tag", "outboundTag"} \cap DOMAIN y.o : Expanded(y.o, geo)[k] = y.o[k]
  BY Zenon DEF Expanded
<1>6. parseRouteRule(x, geo).o = Expanded(y.o, geo)
  BY <1>1, ObjIs
<1>7. SameTags(parseRouteRule(x, geo), x)
  BY <1>3, <1>4, <1>5, <1>6 DEF SameTags
<1>8. ReadItem(parseRouteRule(x, geo))
  BY <1>1, ObjIs DEF ReadItem, IsUndef, IsBad
<1> QED BY <1>7, <1>8

\* The rules of a route: none is dropped.
LEMMA RulesKept ==
  ASSUME NEW x, NEW geo, ~IsBad(RawRules(x, geo)),
         Value5(Get(x.o, "rules")) \/ Get(x.o, "rules") = Undef,
         NEW W, ToSet(ItemsOf(Get(x.o, "rules"))) \subseteq W
  PROVE  KeptWell(ItemsOf(Get(x.o, "rules")), W, RawRules(x, geo).a)
<1> DEFINE g == Get(x.o, "rules")
           rs == [i \in DOMAIN g.a |-> parseRouteRule(g.a[i], geo)]
<1>1. g.t = "arr" /\ RawRules(x, geo) = Collected(rs)
  <2>1. isRecord(x) /\ g.t = "arr"
    BY DEF RawRules, IsBad, Bad
  <2>2. x.o["rules"] = g
    BY <2>1 DEF Get, Undef
  <2> QED BY <2>1, <2>2 DEF RawRules
<1>2. Proper(g) /\ \A z \in ToSet(ItemsOf(g)) : Plain(z)
  <2> HIDE DEF g
  <2> QED BY PlainItems DEF g
<1> HIDE DEF g, rs
<1>3. IsSequence(g.a) /\ ItemsOf(g) = g.a
  BY <1>1, <1>2 DEF Proper, ItemsOf
<1>4. Len(g.a) \in Nat /\ DOMAIN g.a = 1 .. Len(g.a)
  BY <1>3, SequenceHas
<1>5. rs = [i \in 1 .. Len(g.a) |-> parseRouteRule(g.a[i], geo)]
  BY <1>4 DEF rs
<1>6. rs = [i \in 1 .. Len(g.a) |-> rs[i]]
  BY <1>5
<1>7. IsSequence(rs) /\ Len(rs) = Len(g.a)
  BY <1>4, <1>6, MappedSequence
<1>8. ASSUME NEW i \in 1 .. Len(g.a), ~IsBad(rs[i])
      PROVE  /\ g.a[i] \in W <=> ~IsUndef(rs[i])
             /\ ~IsUndef(rs[i]) => SameTags(rs[i], g.a[i])
  <2>1. rs[i] = parseRouteRule(g.a[i], geo)
    BY <1>5
  <2>2. g.a[i] \in ToSet(ItemsOf(g)) /\ g.a[i] \in W
    BY <1>3, SequenceHas DEF g
  <2>3. ReadItem(rs[i]) /\ SameTags(rs[i], g.a[i])
    BY <1>2, <1>8, <2>1, <2>2, RuleTags
  <2> QED BY <2>2, <2>3 DEF ReadItem
<1>9. KeptWell(g.a, W, Collected(rs).a)
  BY <1>1, <1>3, <1>7, <1>8, CollectedKept, Zenon
<1> QED BY <1>1, <1>3, <1>9 DEF g

\* The inbounds and the outbounds, each by its own parser.
LEMMA InboundsKept ==
  ASSUME NEW g, ~IsBad(ParseNonEmpty(g, parseInbound)), Proper(g), NEW W,
         \A x \in ToSet(ItemsOf(g)) : ~IsBad(parseInbound(x)) =>
            /\ x \in W <=> ~IsUndef(parseInbound(x))
            /\ ~IsUndef(parseInbound(x)) => SameTags(parseInbound(x), x)
  PROVE  KeptWell(ItemsOf(g), W, ParseNonEmpty(g, parseInbound).a)
<1> DEFINE rs == [i \in DOMAIN g.a |-> parseInbound(g.a[i])]
<1>1. g.t = "arr" /\ ParseNonEmpty(g, parseInbound) = Collected(rs)
  BY DEF ParseNonEmpty, ItemsOf, IsBad, Bad
<1> HIDE DEF rs
<1>2. IsSequence(g.a) /\ ItemsOf(g) = g.a
  BY <1>1 DEF Proper, ItemsOf
<1>3. Len(g.a) \in Nat /\ DOMAIN g.a = 1 .. Len(g.a)
  BY <1>2, SequenceHas
<1>4. rs = [i \in 1 .. Len(g.a) |-> parseInbound(g.a[i])]
  BY <1>3 DEF rs
<1>5. rs = [i \in 1 .. Len(g.a) |-> rs[i]]
  BY <1>4
<1>6. IsSequence(rs) /\ Len(rs) = Len(g.a)
  BY <1>3, <1>5, MappedSequence
<1>7. ASSUME NEW i \in 1 .. Len(g.a), ~IsBad(rs[i])
      PROVE  /\ g.a[i] \in W <=> ~IsUndef(rs[i])
             /\ ~IsUndef(rs[i]) => SameTags(rs[i], g.a[i])
  <2>1. rs[i] = parseInbound(g.a[i])
    BY <1>4
  <2>2. g.a[i] \in ToSet(ItemsOf(g))
    BY <1>2, SequenceHas
  <2> QED BY <1>7, <2>1, <2>2
<1> HIDE DEF KeptWell, SameTags
<1>8. KeptWell(g.a, W, Collected(rs).a)
  BY <1>1, <1>2, <1>6, <1>7, CollectedKept
<1> QED BY <1>1, <1>2, <1>8

\* The same for the outbounds.
LEMMA OutboundsKept ==
  ASSUME NEW g, ~IsBad(ParseNonEmpty(g, parseOutbound)), Proper(g), NEW W,
         \A x \in ToSet(ItemsOf(g)) : ~IsBad(parseOutbound(x)) =>
            /\ x \in W <=> ~IsUndef(parseOutbound(x))
            /\ ~IsUndef(parseOutbound(x)) => SameTags(parseOutbound(x), x)
  PROVE  KeptWell(ItemsOf(g), W, ParseNonEmpty(g, parseOutbound).a)
<1> DEFINE rs == [i \in DOMAIN g.a |-> parseOutbound(g.a[i])]
<1>1. g.t = "arr" /\ ParseNonEmpty(g, parseOutbound) = Collected(rs)
  BY DEF ParseNonEmpty, ItemsOf, IsBad, Bad
<1> HIDE DEF rs
<1>2. IsSequence(g.a) /\ ItemsOf(g) = g.a
  BY <1>1 DEF Proper, ItemsOf
<1>3. Len(g.a) \in Nat /\ DOMAIN g.a = 1 .. Len(g.a)
  BY <1>2, SequenceHas
<1>4. rs = [i \in 1 .. Len(g.a) |-> parseOutbound(g.a[i])]
  BY <1>3 DEF rs
<1>5. rs = [i \in 1 .. Len(g.a) |-> rs[i]]
  BY <1>4
<1>6. IsSequence(rs) /\ Len(rs) = Len(g.a)
  BY <1>3, <1>5, MappedSequence
<1>7. ASSUME NEW i \in 1 .. Len(g.a), ~IsBad(rs[i])
      PROVE  /\ g.a[i] \in W <=> ~IsUndef(rs[i])
             /\ ~IsUndef(rs[i]) => SameTags(rs[i], g.a[i])
  <2>1. rs[i] = parseOutbound(g.a[i])
    BY <1>4
  <2>2. g.a[i] \in ToSet(ItemsOf(g))
    BY <1>2, SequenceHas
  <2> QED BY <1>7, <2>1, <2>2
<1> HIDE DEF KeptWell, SameTags
<1>8. KeptWell(g.a, W, Collected(rs).a)
  BY <1>1, <1>2, <1>6, <1>7, CollectedKept
<1> QED BY <1>1, <1>2, <1>8

-----------------------------------------------------------------------------
(* Inbounds and outbounds.                                                 *)

\* The tables of a typed item.
LEMMA InboundFieldsInsist ==
  /\ \A k \in DOMAIN InboundFields : Insistent(InboundFields[k])
  /\ "tag" \in DOMAIN InboundFields /\ InboundFields["tag"] = Required(OptText)
  /\ "outboundTag" \notin DOMAIN InboundFields
<1>1. \A k \in DOMAIN InboundFields : Insistent(InboundFields[k])
  BY InsistentFields DEF InboundFields
<1>2. /\ "tag" \in DOMAIN InboundFields /\ InboundFields["tag"] = Required(OptText)
      /\ "outboundTag" \notin DOMAIN InboundFields
  BY DEF InboundFields
<1> QED BY <1>1, <1>2

\* The fields that every outbound has, and those it has not.
LEMMA OutboundFieldsInsist ==
  /\ \A k \in DOMAIN OutboundFields : Insistent(OutboundFields[k])
  /\ "tag" \in DOMAIN OutboundFields /\ OutboundFields["tag"] = Required(OptText)
  /\ "outboundTag" \notin DOMAIN OutboundFields
  /\ "address" \notin DOMAIN OutboundFields /\ "peer" \notin DOMAIN OutboundFields
<1>1. \A k \in DOMAIN OutboundFields : Insistent(OutboundFields[k])
  BY InsistentFields DEF OutboundFields
<1>2. /\ "tag" \in DOMAIN OutboundFields /\ OutboundFields["tag"] = Required(OptText)
      /\ "outboundTag" \notin DOMAIN OutboundFields
      /\ "address" \notin DOMAIN OutboundFields /\ "peer" \notin DOMAIN OutboundFields
  BY DEF OutboundFields
<1> QED BY <1>1, <1>2

\* A flag that is absent takes its default.
LEMMA FlagsInsist == Insistent(Flag(TRUE)) /\ Insistent(Flag(FALSE))
<1>1. ~Flag(TRUE).needed /\ ~Flag(FALSE).needed
  BY DEF Flag, Field
<1> QED BY <1>1, Zenon DEF Insistent

\* The same for the fields of each type of inbound.
LEMMA InboundTypesInsist ==
  \A s \in DOMAIN InboundTypes :
     /\ \A k \in DOMAIN InboundTypes[s] : Insistent(InboundTypes[s][k])
     /\ "outboundTag" \notin DOMAIN InboundTypes[s]
<1> DEFINE Fine(T) == (\A k \in DOMAIN T : Insistent(T[k])) /\ "outboundTag" \notin DOMAIN T
<1>1. Fine([auth |-> Item(AuthFields)])
  BY InsistentFields
<1>2. Fine([auth |-> Item(AuthFields), udpAssociate |-> OptFlag])
  BY InsistentFields
<1>3. Fine([method |-> Method, password |-> Required(OptText), udp |-> Flag(FALSE)])
  <2> DEFINE f == Flag(FALSE)
  <2>1. Insistent(f)
    BY FlagsInsist, Zenon
  <2> HIDE DEF f
  <2>2. Fine([method |-> Method, password |-> Required(OptText), udp |-> f])
    BY <2>1, InsistentFields DEF Method
  <2> QED BY <2>2, Zenon DEF f
<1>4. Fine([password |-> Required(OptText), tls |-> Section(InboundTlsFields)])
  BY InsistentFields
<1>5. Fine([options |-> OptionsField])
  BY InsistentFields DEF OptionsField
<1> HIDE DEF Fine
<1>6. \A s \in DOMAIN InboundTypes : Fine(InboundTypes[s])
  <2> DEFINE f == Flag(FALSE)
  <2>1. InboundTypes =
          [http        |-> [auth |-> Item(AuthFields)],
           socks5      |-> [auth |-> Item(AuthFields), udpAssociate |-> OptFlag],
           shadowsocks |-> [method |-> Method, password |-> Required(OptText), udp |-> f],
           trojan      |-> [password |-> Required(OptText), tls |-> Section(InboundTlsFields)],
           plugin      |-> [options |-> OptionsField]]
    BY DEF InboundTypes
  <2>2. Fine([method |-> Method, password |-> Required(OptText), udp |-> f])
    BY <1>3
  <2> HIDE DEF f
  <2> QED BY <1>1, <1>2, <1>4, <1>5, <2>1, <2>2
<1> QED BY <1>6 DEF Fine

\* An outbound of any type but wireguard.
LEMMA OutboundTypesInsist ==
  \A s \in DOMAIN OutboundTypes :
     /\ s # "wireguard" => \A k \in DOMAIN OutboundTypes[s] : Insistent(OutboundTypes[s][k])
     /\ "outboundTag" \notin DOMAIN OutboundTypes[s]
<1> DEFINE Fine(T) == (\A k \in DOMAIN T : Insistent(T[k])) /\ "outboundTag" \notin DOMAIN T
<1>1. Fine(<<>>)
  OBVIOUS
<1>2. Fine([reason |-> OptText])
  BY InsistentFields
<1>3. Insistent(PortField) /\ Insistent(Method)
  BY InsistentFields DEF PortField, Method
<1>4. Fine([targetHost |-> Required(OptText), targetPort |-> PortField])
  BY <1>3, InsistentFields
<1>5. Fine(ServerFields)
  BY <1>3, InsistentFields DEF ServerFields
<1>6. \A f, g : Fine(f) /\ Fine(g) => Fine(Joined(f, g))
  <2>1. ASSUME NEW f, NEW g, Fine(f), Fine(g) PROVE Fine(Joined(f, g))
    BY <2>1, JoinedIs
  <2> QED BY <2>1
<1>7. Fine([method |-> Method]) /\ Fine([tls |-> Section(OutboundTlsFields)])
  BY <1>3, InsistentFields
<1>8. Fine([options |-> OptionsField])
  BY InsistentFields DEF OptionsField
<1>9. "outboundTag" \notin DOMAIN WireGuardFields
  BY DEF WireGuardFields
<1> HIDE DEF Fine
<1>10. \A s \in DOMAIN OutboundTypes : s # "wireguard" => Fine(OutboundTypes[s])
  BY <1>1, <1>2, <1>4, <1>5, <1>6, <1>7, <1>8 DEF OutboundTypes
<1>11. OutboundTypes["wireguard"] = WireGuardFields
  BY DEF OutboundTypes
<1> QED BY <1>9, <1>10, <1>11 DEF Fine

\* The type of a known item is a key of the table.
LEMMA KnownKey ==
  ASSUME NEW x, NEW types, KnownType(x, types), Plugin \in DOMAIN types
  PROVE  isRecord(x) /\ TypeKey(x) \in DOMAIN types
<1>1. isRecord(x) /\ \/ isExtensionType(Get(x.o, "type").s)
                     \/ Get(x.o, "type").s \in WordsOf(DOMAIN types \ {Plugin})
  BY DEF KnownType
<1>2. TypeKey(x) = IF isExtensionType(Get(x.o, "type").s) THEN Plugin ELSE Get(x.o, "type").s.w
  BY DEF TypeKey
<1>3. \A s : s \in WordsOf(DOMAIN types \ {Plugin}) => s.w \in DOMAIN types
  BY DEF WordsOf, Text
<1> QED BY <1>1, <1>2, <1>3

\* The tag of a typed item is that of the file.
LEMMA TypedTags ==
  ASSUME NEW x, NEW common, NEW types, ReadItem(ParseTyped(x, common, types)),
         "tag" \in DOMAIN common, common["tag"] = Required(OptText), "outboundTag" \notin DOMAIN common,
         "outboundTag" \notin DOMAIN types[TypeKey(x)]
  PROVE  SameTags(ParseTyped(x, common, types), x)
<1> DEFINE G == types[TypeKey(x)]
           y == ParseTyped(x, common, types)
<1>1. y.o = Nodes(x, Joined(common, G)) /\ ~IsBad(Nodes(x, Joined(common, G))["tag"])
  BY TypedItem, ObjIs
<1> HIDE DEF y, G
<1>2. /\ Nodes(x, Joined(common, G))["tag"] = ReadField(x.o, "tag", Required(OptText))
      /\ "outboundTag" \notin DOMAIN Nodes(x, Joined(common, G))
  BY TypedField DEF G
<1>3. y.o["tag"] = Get(x.o, "tag")
  BY <1>1, <1>2, NodeText
<1> QED BY <1>1, <1>2, <1>3 DEF SameTags, y

\* A typed item whose fields insist is never dropped.
LEMMA TypedKept ==
  ASSUME NEW x, NEW common, NEW types, ~IsBad(ParseTyped(x, common, types)),
         \A k \in DOMAIN common : Insistent(common[k]),
         \A k \in DOMAIN types[TypeKey(x)] : Insistent(types[TypeKey(x)][k])
  PROVE  ~IsUndef(ParseTyped(x, common, types))
<1> DEFINE T == Joined(common, types[TypeKey(x)])
<1>1. ParseTyped(x, common, types) = ParseNode(x, T)
  BY DEF ParseTyped, IsBad, Bad
<1>2. \A k \in DOMAIN T : Insistent(T[k])
  BY JoinedIs
<1> HIDE DEF T
<1>3. ParseNode(x, T) = Obj(Nodes(x, T))
  BY <1>1, <1>2, NodeKept, Zenon DEF Insistent
<1> QED BY <1>1, <1>3, ObjIs DEF IsUndef

\* Every inbound is kept.
LEMMA InboundKept ==
  ASSUME NEW x, ~IsBad(parseInbound(x))
  PROVE  ~IsUndef(parseInbound(x)) /\ SameTags(parseInbound(x), x)
<1>1. KnownType(x, InboundTypes)
  BY DEF parseInbound, ParseTyped, IsBad, Bad
<1>2. TypeKey(x) \in DOMAIN InboundTypes
  <2>1. Plugin \in DOMAIN InboundTypes
    BY DEF InboundTypes, Plugin
  <2> QED BY <1>1, <2>1, KnownKey
<1>3. ~IsUndef(parseInbound(x))
  BY <1>2, InboundFieldsInsist, InboundTypesInsist, TypedKept DEF parseInbound
<1>4. SameTags(parseInbound(x), x)
  BY <1>2, <1>3, InboundFieldsInsist, InboundTypesInsist, TypedTags DEF parseInbound, ReadItem
<1> QED BY <1>3, <1>4

\* What can drop a WireGuard outbound: its address, and its peer.
LEMMA WireGuardAre ==
  /\ "address" \in DOMAIN WireGuardFields /\ WireGuardFields["address"] = Needed(OptTexts)
  /\ "peer" \in DOMAIN WireGuardFields /\ WireGuardFields["peer"] = Required(Item(PeerFields))
  /\ \A k \in DOMAIN WireGuardFields : k \notin {"address", "peer"} => Insistent(WireGuardFields[k])
<1>1. \A k \in DOMAIN WireGuardFields : k \notin {"address", "peer"} => Insistent(WireGuardFields[k])
  BY InsistentFields DEF WireGuardFields
<1>2. /\ "address" \in DOMAIN WireGuardFields /\ WireGuardFields["address"] = Needed(OptTexts)
      /\ "peer" \in DOMAIN WireGuardFields /\ WireGuardFields["peer"] = Required(Item(PeerFields))
  BY DEF WireGuardFields
<1> QED BY <1>1, <1>2

\* A peer is dropped for want of the addresses it may use.
LEMMA PeersAre ==
  /\ "allowedIps" \in DOMAIN PeerFields /\ PeerFields["allowedIps"] = Needed(OptTexts)
  /\ \A k \in DOMAIN PeerFields : k # "allowedIps" => Insistent(PeerFields[k])
<1>1. \A k \in DOMAIN PeerFields : k # "allowedIps" => Insistent(PeerFields[k])
  BY InsistentFields DEF PeerFields, PortField
<1>2. "allowedIps" \in DOMAIN PeerFields /\ PeerFields["allowedIps"] = Needed(OptTexts)
  BY DEF PeerFields
<1> QED BY <1>1, <1>2

\* The required object in an outbound.
LEMMA RequiredItem ==
  ASSUME NEW o, NEW k, NEW T, ~IsBad(ReadField(o, k, Required(Item(T))))
  PROVE  /\ ~IsUndef(Get(o, k)) /\ ReadField(o, k, Required(Item(T))) = ParseObject(Get(o, k), T)
<1> DEFINE f == Required(Item(T))
<1>1. f.kind = "item" /\ f.table = T
  BY DEF Required, Item, Field
<1>2. f.must
  BY DEF Required, Item, Field
<1> HIDE DEF f
<1>3. ReadField(o, k, f) = ParseNested(f, Get(o, k))
  BY <1>1 DEF ReadField
<1>4. ~IsUndef(Get(o, k)) => ParseNested(f, Get(o, k)) = ParseObject(Get(o, k), T)
  BY <1>1 DEF ParseNested
<1>5. IsUndef(Get(o, k)) => ParseNested(f, Get(o, k)) = Bad
  BY <1>2 DEF ParseNested
<1>6. IsBad(Bad)
  BY DEF IsBad, Bad
<1> QED BY <1>3, <1>4, <1>5, <1>6 DEF f

\* A node whose other fields insist is dropped for want of two of them.
LEMMA NodeDropped ==
  ASSUME NEW x, NEW T, NEW a \in DOMAIN T, NEW b \in DOMAIN T, T[a].needed, T[b].needed,
         \A i \in DOMAIN T : i \notin {a, b} => Insistent(T[i]),
         ~IsBad(ParseNode(x, T))
  PROVE  IsUndef(ParseNode(x, T)) <=> \/ IsUndef(ReadField(x.o, a, T[a]))
                                      \/ IsUndef(ReadField(x.o, b, T[b]))
<1>1. /\ \A k \in DOMAIN T : ~IsBad(Nodes(x, T)[k])
      /\ \/ /\ ParseNode(x, T) = Undef
            /\ \E k \in DOMAIN T : T[k].needed /\ IsUndef(Nodes(x, T)[k])
         \/ /\ ParseNode(x, T) = Obj(Nodes(x, T))
            /\ \A k \in DOMAIN T : T[k].needed => ~IsUndef(Nodes(x, T)[k])
  BY NodeRead
<1>2. \A k \in DOMAIN T : Nodes(x, T)[k] = ReadField(x.o, k, T[k])
  BY DEF Nodes
<1>3. ASSUME NEW i \in DOMAIN T, i \notin {a, b}, T[i].needed PROVE ~IsUndef(ReadField(x.o, i, T[i]))
  <2> DEFINE f == T[i]
  <2>1. /\ f.must /\ f.alias = "" /\ f.kind \notin Converting /\ f.kind \notin Nested
        /\ ~IsBad(ReadField(x.o, i, f))
    BY <1>1, <1>2, <1>3, Zenon DEF Insistent
  <2> HIDE DEF f
  <2>2. ReadField(x.o, i, f) = ReadLeaf(x.o, i, f)
    BY <2>1, FieldRead, Zenon
  <2>3. ~IsUndef(ReadField(x.o, i, f))
    BY <2>1, <2>2, MustBeThere, Zenon
  <2> QED BY <2>3 DEF f
<1>4. IsUndef(Undef) /\ \A o : ~IsUndef(Obj(o))
  BY ObjIs DEF IsUndef, Undef
<1> QED BY <1>1, <1>2, <1>3, <1>4, Zenon

\* The type of an outbound.
LEMMA WireGuardType ==
  ASSUME NEW x, KnownType(x, OutboundTypes), Proper(Get(x.o, "type"))
  PROVE  Get(x.o, "type") = Str("wireguard") <=> TypeKey(x) = "wireguard"
<1> DEFINE g == Get(x.o, "type")
<1>1. g.t = "str"
  BY DEF KnownType, IsText
<1>2. \/ isExtensionType(g.s) \/ g.s \in WordsOf(DOMAIN OutboundTypes \ {Plugin})
  BY DEF KnownType
<1>3. TypeKey(x) = IF isExtensionType(g.s) THEN Plugin ELSE g.s.w
  BY DEF TypeKey
<1>4. g = [t |-> "str", s |-> g.s]
  BY <1>1 DEF Proper
<1> HIDE DEF g
<1>5. ASSUME g = Str("wireguard") PROVE TypeKey(x) = "wireguard"
  <2>1. g.s = Text("wireguard") /\ g.s.w = "wireguard"
    BY <1>5 DEF Str, Text
  <2>2. ~isExtensionType(g.s)
    BY <2>1 DEF isExtensionType, ExtensionWords
  <2> QED BY <1>3, <2>1, <2>2
<1>6. ASSUME TypeKey(x) = "wireguard" PROVE g = Str("wireguard")
  <2>1. ~isExtensionType(g.s) /\ g.s.w = "wireguard"
    BY <1>3, <1>6 DEF Plugin
  <2>2. PICK w : g.s = Text(w)
    BY <1>2, <2>1 DEF WordsOf
  <2>3. w = "wireguard"
    BY <2>1, <2>2 DEF Text
  <2> QED BY <1>4, <2>2, <2>3 DEF Str
<1> QED BY <1>5, <1>6 DEF g

\* A WireGuard outbound is dropped for want of its address or of the addresses
\* its peer may use.
LEMMA WireGuardKept ==
  ASSUME NEW x, ~IsBad(parseOutbound(x)), TypeKey(x) = "wireguard", Value5(x)
  PROVE  IsUndef(parseOutbound(x)) <=> \/ IsUndef(Get(x.o, "address"))
                                       \/ IsUndef(Get(x.o["peer"].o, "allowedIps"))
<1> DEFINE T == Joined(OutboundFields, WireGuardFields)
           p == Get(x.o, "peer")
<1>1. isRecord(x) /\ parseOutbound(x) = ParseNode(x, T)
  <2>1. OutboundTypes["wireguard"] = WireGuardFields
    BY DEF OutboundTypes
  <2> QED BY <2>1 DEF parseOutbound, ParseTyped, IsBad, Bad, KnownType
<1>2. /\ "address" \in DOMAIN T /\ T["address"] = Needed(OptTexts)
      /\ "peer" \in DOMAIN T /\ T["peer"] = Required(Item(PeerFields))
      /\ \A i \in DOMAIN T : i \notin {"address", "peer"} => Insistent(T[i])
  BY JoinedIs, WireGuardAre, OutboundFieldsInsist
<1> HIDE DEF T
<1>3. T["address"].needed
  BY <1>2, NeededTextsAre, Zenon
<1>4. T["peer"].needed
  BY <1>2 DEF Required, Item, Field
<1>5. IsUndef(ParseNode(x, T)) <=> \/ IsUndef(ReadField(x.o, "address", Needed(OptTexts)))
                                   \/ IsUndef(ReadField(x.o, "peer", Required(Item(PeerFields))))
  <2>1. IsUndef(ParseNode(x, T)) <=> \/ IsUndef(ReadField(x.o, "address", T["address"]))
                                     \/ IsUndef(ReadField(x.o, "peer", T["peer"]))
    BY <1>1, <1>2, <1>3, <1>4, NodeDropped
  <2> QED BY <1>2, <2>1
<1>6. /\ ~IsBad(ReadField(x.o, "address", Needed(OptTexts)))
      /\ ~IsBad(ReadField(x.o, "peer", Required(Item(PeerFields))))
  <2>1. \A k \in DOMAIN T : ~IsBad(Nodes(x, T)[k])
    BY <1>1, NodeRead
  <2>2. \A k \in DOMAIN T : Nodes(x, T)[k] = ReadField(x.o, k, T[k])
    BY DEF Nodes
  <2> QED BY <1>2, <2>1, <2>2
<1>7. Proper(Get(x.o, "address")) /\ (isRecord(p) => Proper(Get(p.o, "allowedIps")))
  <2>1. "address" \notin MapKeys /\ "peer" \notin MapKeys /\ "allowedIps" \notin MapKeys
    BY DEF MapKeys
  <2>2. /\ Value4(Get(x.o, "address")) \/ Get(x.o, "address") = Undef
        /\ Value4(p) \/ p = Undef
    BY <1>1, <2>1, FieldOf
  <2>3. ASSUME isRecord(p) PROVE Proper(Get(p.o, "allowedIps"))
    <3>1. Value4(p)
      BY <2>2, <2>3 DEF isRecord, Undef
    <3> HIDE DEF p
    <3>2. Value3(Get(p.o, "allowedIps")) \/ Get(p.o, "allowedIps") = Undef
      BY <2>1, <2>3, <3>1, FieldOf
    <3> QED BY <3>2, ProperValue
  <2> QED BY <2>2, <2>3, ProperValue
<1>8. IsUndef(ReadField(x.o, "address", Needed(OptTexts))) <=> IsUndef(Get(x.o, "address"))
  <2> DEFINE f == Needed(OptTexts)
  <2>1. f.alias = "" /\ f.kind \in {"texts", "some"} /\ f.def = Undef
    BY NeededTextsAre, Zenon
  <2> HIDE DEF f
  <2>2. ReadField(x.o, "address", f) = ReadLeaf(x.o, "address", f)
    BY <2>1, FieldRead, Zenon DEF Nested
  <2>3. ~IsBad(ReadLeaf(x.o, "address", f))
    BY <1>6, <2>2 DEF f
  <2>4. IsUndef(ReadLeaf(x.o, "address", f)) <=> IsUndef(Get(x.o, "address"))
    BY <1>7, <2>1, <2>3, NeededTexts, Zenon
  <2> QED BY <2>2, <2>4 DEF f
<1>9. IsUndef(ReadField(x.o, "peer", Required(Item(PeerFields)))) <=> IsUndef(Get(x.o["peer"].o, "allowedIps"))
  <2>1. ~IsUndef(p) /\ ReadField(x.o, "peer", Required(Item(PeerFields))) = ParseObject(p, PeerFields)
    BY <1>6, RequiredItem
  <2>2. ~IsBad(ParseObject(p, PeerFields))
    BY <1>6, <2>1
  <2>3. x.o["peer"] = p
    BY <2>1 DEF Get, IsUndef, Undef
  <2>4. isRecord(p)
    BY <2>2, ObjectRead
  <2>5. IsUndef(ParseObject(p, PeerFields)) <=> IsUndef(Get(p.o, "allowedIps"))
    <3> HIDE DEF p
    <3>1. /\ PeerFields["allowedIps"].needed /\ PeerFields["allowedIps"].alias = ""
          /\ PeerFields["allowedIps"].kind \in {"texts", "some"} /\ PeerFields["allowedIps"].def = Undef
      BY PeersAre, NeededTextsAre, Zenon
    <3> QED BY <1>7, <2>2, <2>4, <3>1, PeersAre, DroppedForList, Zenon
  <2> QED BY <2>1, <2>3, <2>5
<1> QED BY <1>1, <1>5, <1>8, <1>9

\* Which outbounds are kept.
LEMMA OutboundKept ==
  ASSUME NEW x, ~IsBad(parseOutbound(x)), Value5(x)
  PROVE  /\ IsUndef(parseOutbound(x)) <=>
              Get(x.o, "type") = Str("wireguard")
              /\ (IsUndef(Get(x.o, "address")) \/ IsUndef(Get(x.o["peer"].o, "allowedIps")))
         /\ ~IsUndef(parseOutbound(x)) => SameTags(parseOutbound(x), x)
<1>1. KnownType(x, OutboundTypes)
  BY DEF parseOutbound, ParseTyped, IsBad, Bad
<1>2. isRecord(x) /\ TypeKey(x) \in DOMAIN OutboundTypes
  <2>1. Plugin \in DOMAIN OutboundTypes
    BY DEF OutboundTypes, Plugin
  <2> QED BY <1>1, <2>1, KnownKey
<1>3. Get(x.o, "type") = Str("wireguard") <=> TypeKey(x) = "wireguard"
  <2>1. "type" \notin MapKeys
    BY DEF MapKeys
  <2>2. Value4(Get(x.o, "type")) \/ Get(x.o, "type") = Undef
    BY <1>2, <2>1, FieldOf
  <2>3. Proper(Get(x.o, "type"))
    BY <2>2, ProperValue
  <2> QED BY <1>1, <2>3, WireGuardType
<1>4. ASSUME TypeKey(x) # "wireguard" PROVE ~IsUndef(parseOutbound(x))
  BY <1>2, <1>4, OutboundFieldsInsist, OutboundTypesInsist, TypedKept DEF parseOutbound
<1>5. ASSUME TypeKey(x) = "wireguard"
      PROVE  IsUndef(parseOutbound(x)) <=> \/ IsUndef(Get(x.o, "address"))
                                           \/ IsUndef(Get(x.o["peer"].o, "allowedIps"))
  BY <1>5, WireGuardKept
<1>6. ~IsUndef(parseOutbound(x)) => SameTags(parseOutbound(x), x)
  BY <1>2, OutboundFieldsInsist, OutboundTypesInsist, TypedTags DEF parseOutbound, ReadItem
<1> QED BY <1>3, <1>4, <1>5, <1>6

\* A list of a section.
LEMMA SectionList ==
  ASSUME NEW root, NEW s, ~IsBad(ParseSection(root, s)), NEW G,
         NEW k \in DOMAIN SectionFields[s], SectionFields[s][k] = ListOf(G),
         \A i \in DOMAIN SectionFields[s] : Insistent(SectionFields[s][i])
  PROVE  LET x == Get(root, s)
         IN  \/ IsUndef(x) /\ ParseSection(root, s).o[k].a = <<>>
             \/ /\ isRecord(x) /\ ParseSection(root, s).o[k] = ReadField(x.o, k, ListOf(G))
                /\ ~IsBad(ReadField(x.o, k, ListOf(G)))
<1> DEFINE T == SectionFields[s]
           x == Get(root, s)
<1>1. CASE IsUndef(x)
  <2>1. ParseSection(root, s).o[k] = ListOf(G).def
    BY <1>1, ObjIs DEF ParseSection, Defaults
  <2>2. ListOf(G).def.a = <<>>
    BY Zenon DEF ListOf, Field, EmptyList, Arr
  <2> QED BY <1>1, <2>1, <2>2
<1>2. CASE ~IsUndef(x)
  <2>1. ParseSection(root, s) = ParseNode(x, T)
    BY <1>2 DEF ParseSection, Get, IsUndef, Undef
  <2> HIDE DEF T, x
  <2>2. ~IsBad(ParseNode(x, T)) /\ \A i \in DOMAIN T : Insistent(T[i])
    BY <2>1 DEF T
  <2>3. /\ isRecord(x)
        /\ \A i \in DOMAIN T : /\ ParseNode(x, T).o[i] = ReadField(x.o, i, T[i])
                               /\ ~IsBad(ReadField(x.o, i, T[i]))
    BY <2>2, NodeKept, Zenon DEF Insistent
  <2>4. k \in DOMAIN T /\ T[k] = ListOf(G)
    BY DEF T
  <2> QED BY <2>1, <2>3, <2>4 DEF x
<1> QED BY <1>1, <1>2

\* The sections that hold lists.
LEMMA SectionTables ==
  /\ \A i \in DOMAIN SectionFields["dns"] : Insistent(SectionFields["dns"][i])
  /\ \A i \in DOMAIN SectionFields["plugins"] : Insistent(SectionFields["plugins"][i])
  /\ {"udpServers", "rules"} \subseteq DOMAIN SectionFields["dns"]
  /\ {"modules", "wasm"} \subseteq DOMAIN SectionFields["plugins"]
  /\ SectionFields["dns"]["udpServers"] = ListOf(UdpServerFields)
  /\ SectionFields["dns"]["rules"] = ListOf(DnsRuleFields)
  /\ SectionFields["plugins"]["modules"] = ListOf(PluginModuleFields)
  /\ SectionFields["plugins"]["wasm"] = ListOf(WasmFields)
<1>1. SectionFields["dns"] = DnsFields /\ SectionFields["plugins"] = PluginFields
  BY DEF SectionFields
<1>2. \A i \in DOMAIN DnsFields : Insistent(DnsFields[i])
  BY InsistentFields DEF DnsFields
<1>3. \A i \in DOMAIN PluginFields : Insistent(PluginFields[i])
  BY InsistentFields DEF PluginFields
<1>4. /\ {"udpServers", "rules"} \subseteq DOMAIN DnsFields
      /\ DnsFields["udpServers"] = ListOf(UdpServerFields) /\ DnsFields["rules"] = ListOf(DnsRuleFields)
  BY DEF DnsFields
<1>5. /\ {"modules", "wasm"} \subseteq DOMAIN PluginFields
      /\ PluginFields["modules"] = ListOf(PluginModuleFields) /\ PluginFields["wasm"] = ListOf(WasmFields)
  BY DEF PluginFields
<1> QED BY <1>1, <1>2, <1>3, <1>4, <1>5

-----------------------------------------------------------------------------
(* Every list of an accepted configuration.                                *)

\* What is kept of the entries of a list that are not dropped in silence.
Keeps(section, name) ==
  KeptWell(RawList(section, name),
           {x \in ToSet(RawList(section, name)) : ~SilentlyDropped(section, name, x)},
           KeptList(section, name))

\* The lists of the file, and those of the configuration.
LEMMA ParsedLists ==
  ASSUME LoadInv, step = "parsed"
  PROVE  LET root == Migrated(source).o
         IN  /\ isRecord(source) /\ Parsed(source)
             /\ config.o = Sections(root) /\ \A k \in DOMAIN Sections(root) : ~IsBad(Sections(root)[k])
             /\ \A k : k # "configVersion" => Get(root, k) = Get(source.o, k)
             /\ \A k : k \notin MapKeys => Value6(Get(source.o, k)) \/ Get(source.o, k) = Undef
             /\ \A k, j : k \notin MapKeys /\ j \notin MapKeys /\ isRecord(Get(source.o, k)) =>
                   Value5(Get(Get(source.o, k).o, j)) \/ Get(Get(source.o, k).o, j) = Undef
<1>1. config = parseConfig(Migrated(source)) /\ ~IsBad(parseConfig(Migrated(source)))
  BY DEF LoadInv
<1>2. /\ isRecord(source)
      /\ \A k : k # "configVersion" => Get(Migrated(source).o, k) = Get(source.o, k)
  BY <1>1, MigratedIs
<1>3. /\ config = Obj(Sections(Migrated(source).o))
      /\ \A k \in DOMAIN Sections(Migrated(source).o) : ~IsBad(Sections(Migrated(source).o)[k])
  BY <1>1, ConfigIs
<1>4. Parsed(source)
  BY ParsedIsSound
<1>5. \A k : k \notin MapKeys => Value6(Get(source.o, k)) \/ Get(source.o, k) = Undef
  BY <1>2, <1>4, FieldOf
<1>6. ASSUME NEW k, NEW j, k \notin MapKeys, j \notin MapKeys, isRecord(Get(source.o, k))
      PROVE  Value5(Get(Get(source.o, k).o, j)) \/ Get(Get(source.o, k).o, j) = Undef
  <2>1. Value6(Get(source.o, k))
    BY <1>5, <1>6 DEF isRecord, Undef
  <2> QED BY <1>6, <2>1, FieldOf
<1> QED BY <1>2, <1>3, <1>4, <1>5, <1>6, ObjIs

\* None of the lists is under a key of a map.
LEMMA ListNames ==
  \A k \in {"inbounds", "outbounds", "route", "dns", "plugins", "rules", "policies", "ruleSetFiles",
            "udpServers", "modules", "wasm"} : k \notin MapKeys /\ k # "configVersion"
BY DEF MapKeys

\* The inbounds and the outbounds.
LEMMA KeepsInbounds ==
  ASSUME LoadInv, step = "parsed"
  PROVE  Keeps("", "inbounds")
<1> DEFINE root == Migrated(source).o
           g == Get(source.o, "inbounds")
           W == {x \in ToSet(ItemsOf(g)) : ~SilentlyDropped("", "inbounds", x)}
<1>1. RawList("", "inbounds") = ItemsOf(g)
  BY ParsedLists DEF RawList
<1>2. /\ config.o.inbounds = ParseNonEmpty(g, parseInbound)
      /\ ~IsBad(ParseNonEmpty(g, parseInbound))
  <2>1. config.o = Sections(root) /\ (\A k \in DOMAIN Sections(root) : ~IsBad(Sections(root)[k]))
        /\ Get(root, "inbounds") = g
    BY ParsedLists, ListNames
  <2> HIDE DEF root, g
  <2>2. "inbounds" \in DOMAIN Sections(root)
        /\ Sections(root).inbounds = ParseNonEmpty(Get(root, "inbounds"), parseInbound)
    BY SectionsAre
  <2> QED BY <2>1, <2>2
<1>3. KeptList("", "inbounds") = ParseNonEmpty(g, parseInbound).a
  BY <1>2 DEF KeptList
<1>4. Proper(g)
  <2>1. Value6(g) \/ g = Undef
    BY ParsedLists, ListNames
  <2> HIDE DEF g
  <2> QED BY <2>1, ProperValue
<1>5. ASSUME NEW x \in ToSet(ItemsOf(g)), ~IsBad(parseInbound(x))
      PROVE  x \in W /\ ~IsUndef(parseInbound(x)) /\ SameTags(parseInbound(x), x)
  <2>1. ~SilentlyDropped("", "inbounds", x)
    BY DEF SilentlyDropped
  <2> QED BY <1>5, <2>1, InboundKept, Zenon
<1> HIDE DEF W, g
<1>6. KeptWell(ItemsOf(g), W, ParseNonEmpty(g, parseInbound).a)
  BY <1>2, <1>4, <1>5, InboundsKept, Zenon
<1> QED BY <1>1, <1>3, <1>6, Zenon DEF Keeps, W

\* Every outbound is kept but for the WireGuard ones that lack a list.
LEMMA KeepsOutbounds ==
  ASSUME LoadInv, step = "parsed"
  PROVE  Keeps("", "outbounds")
<1> DEFINE root == Migrated(source).o
           g == Get(source.o, "outbounds")
           W == {x \in ToSet(ItemsOf(g)) : ~SilentlyDropped("", "outbounds", x)}
<1>1. RawList("", "outbounds") = ItemsOf(g)
  BY ParsedLists DEF RawList
<1>2. /\ config.o.outbounds = ParseNonEmpty(g, parseOutbound)
      /\ ~IsBad(ParseNonEmpty(g, parseOutbound))
  <2>1. config.o = Sections(root) /\ (\A k \in DOMAIN Sections(root) : ~IsBad(Sections(root)[k]))
        /\ Get(root, "outbounds") = g
    BY ParsedLists, ListNames
  <2> HIDE DEF root, g
  <2>2. "outbounds" \in DOMAIN Sections(root)
        /\ Sections(root).outbounds = ParseNonEmpty(Get(root, "outbounds"), parseOutbound)
    BY SectionsAre
  <2> QED BY <2>1, <2>2
<1>3. KeptList("", "outbounds") = ParseNonEmpty(g, parseOutbound).a
  BY <1>2 DEF KeptList
<1>4. Proper(g) /\ \A x \in ToSet(ItemsOf(g)) : Value5(x)
  <2>1. Value6(g) \/ g = Undef
    BY ParsedLists, ListNames
  <2> HIDE DEF g
  <2>2. Proper(g)
    BY <2>1, ProperValue
  <2>3. ASSUME NEW x \in ToSet(ItemsOf(g)) PROVE Value5(x)
    <3>1. g.t = "arr" /\ x \in ToSet(g.a)
      BY <2>3 DEF ItemsOf, ToSet
    <3>2. g # Undef
      BY <3>1 DEF Undef
    <3> QED BY <2>1, <3>1, <3>2, ProperValue
  <2> QED BY <2>2, <2>3
<1>5. ASSUME NEW x \in ToSet(ItemsOf(g)), ~IsBad(parseOutbound(x))
      PROVE  /\ x \in W <=> ~IsUndef(parseOutbound(x))
             /\ ~IsUndef(parseOutbound(x)) => SameTags(parseOutbound(x), x)
  <2>1. SilentlyDropped("", "outbounds", x) <=>
           Get(x.o, "type") = Str("wireguard")
           /\ (IsUndef(Get(x.o, "address")) \/ IsUndef(Get(x.o["peer"].o, "allowedIps")))
    BY DEF SilentlyDropped
  <2>2. Value5(x)
    BY <1>4
  <2>3. x \in W <=> ~SilentlyDropped("", "outbounds", x)
    BY Zenon
  <2> HIDE DEF W, g
  <2> QED BY <1>5, <2>1, <2>2, <2>3, OutboundKept, Zenon
<1> HIDE DEF W, g
<1>6. KeptWell(ItemsOf(g), W, ParseNonEmpty(g, parseOutbound).a)
  BY <1>2, <1>4, <1>5, OutboundsKept, Zenon
<1> QED BY <1>1, <1>3, <1>6, Zenon DEF Keeps, W

\* The lists of the route.
LEMMA KeepsRoute ==
  ASSUME LoadInv, step = "parsed"
  PROVE  Keeps("route", "rules") /\ Keeps("route", "policies") /\ Keeps("route", "ruleSetFiles")
<1> DEFINE root == Migrated(source).o
           x == Get(source.o, "route")
           geo == ParseSection(root, "geo")
           r == parseRouter(x, geo)
           Left(name) == {z \in ToSet(ItemsOf(Get(x.o, name))) : ~SilentlyDropped("route", name, z)}
<1>1. config.o.route = r /\ ~IsBad(r)
  <2>1. config.o = Sections(root) /\ (\A k \in DOMAIN Sections(root) : ~IsBad(Sections(root)[k]))
        /\ Get(root, "route") = x
    BY ParsedLists, ListNames
  <2> HIDE DEF root, x
  <2>2. "route" \in DOMAIN Sections(root)
        /\ Sections(root).route = parseRouter(Get(root, "route"), ParseSection(root, "geo"))
    BY SectionsAre
  <2> QED BY <2>1, <2>2
<1>2. \A k \in {"rules", "policies", "ruleSetFiles"} :
         isRecord(x) => Value5(Get(x.o, k)) \/ Get(x.o, k) = Undef
  BY ParsedLists, ListNames
<1> HIDE DEF x, geo, r, root
<1>3. /\ isRecord(x)
      /\ r.o["rules"] = RawRules(x, geo) /\ ~IsBad(RawRules(x, geo))
      /\ r.o["ruleSetFiles"] = ReadField(x.o, "ruleSetFiles", ListOf(RuleSetFileFields))
      /\ ~IsBad(ReadField(x.o, "ruleSetFiles", ListOf(RuleSetFileFields)))
      /\ r.o["policies"] = ReadField(x.o, "policies", ListOf(PolicyFields))
      /\ ~IsBad(ReadField(x.o, "policies", ListOf(PolicyFields)))
  BY <1>1, RouteIs DEF r
<1>4. \A name : /\ RawList("route", name) = ItemsOf(Get(x.o, name))
                /\ KeptList("route", name) = r.o[name].a
  BY <1>1, <1>3 DEF RawList, KeptList, x
<1>5. KeptWell(ItemsOf(Get(x.o, "rules")), Left("rules"), r.o["rules"].a)
  <2>1. \A z : ~SilentlyDropped("route", "rules", z)
    BY DEF SilentlyDropped
  <2>2. ToSet(ItemsOf(Get(x.o, "rules"))) \subseteq Left("rules")
    BY <2>1
  <2> HIDE DEF Left
  <2> QED BY <1>2, <1>3, <2>2, RulesKept
<1>6. KeptWell(ItemsOf(Get(x.o, "ruleSetFiles")), Left("ruleSetFiles"), r.o["ruleSetFiles"].a)
  <2>1. \A z : ~SilentlyDropped("route", "ruleSetFiles", z)
    BY DEF SilentlyDropped
  <2>2. ToSet(ItemsOf(Get(x.o, "ruleSetFiles"))) \subseteq Left("ruleSetFiles")
    BY <2>1
  <2> HIDE DEF Left
  <2> QED BY <1>2, <1>3, <2>2, AllKept
<1>7. KeptWell(ItemsOf(Get(x.o, "policies")), Left("policies"), r.o["policies"].a)
  <2>1. \A z : SilentlyDropped("route", "policies", z) <=> IsUndef(Get(z.o, "outbounds"))
    BY DEF SilentlyDropped
  <2>2. \A z \in ToSet(ItemsOf(Get(x.o, "policies"))) :
           z \in Left("policies") <=> ~IsUndef(Get(z.o, "outbounds"))
    BY <2>1
  <2>3. /\ PolicyFields["outbounds"].needed /\ PolicyFields["outbounds"].alias = ""
        /\ PolicyFields["outbounds"].kind \in {"texts", "some"} /\ PolicyFields["outbounds"].def = Undef
    BY NeededTables, NeededTextsAre, Zenon
  <2> HIDE DEF Left
  <2> QED BY <1>2, <1>3, <2>2, <2>3, NeededTables, NeededKept, Zenon
<1> HIDE DEF Left
<1> QED BY <1>4, <1>5, <1>6, <1>7, Zenon DEF Keeps, Left

\* A list of the DNS section or of the plugins.
LEMMA SectionKeeps ==
  ASSUME LoadInv, step = "parsed", NEW s \in {"dns", "plugins"}, NEW k, NEW G,
         k \in DOMAIN SectionFields[s], SectionFields[s][k] = ListOf(G), k \notin MapKeys
  PROVE  LET g == Get(Get(source.o, s).o, k)
             v == ReadField(Get(source.o, s).o, k, ListOf(G))
         IN  \/ RawList(s, k) = <<>> /\ KeptList(s, k) = <<>>
             \/ /\ RawList(s, k) = ItemsOf(g) /\ KeptList(s, k) = v.a /\ ~IsBad(v)
                /\ Value5(g) \/ g = Undef
<1> DEFINE root == Migrated(source).o
           x == Get(source.o, s)
<1>1. s \notin MapKeys /\ s # "configVersion" /\ s \in SectionKeys /\ s # ""
  BY ListNames, Zenon DEF SectionKeys
<1>2. /\ config.o[s] = ParseSection(root, s) /\ ~IsBad(ParseSection(root, s))
      /\ Get(root, s) = x
  <2>1. config.o = Sections(root) /\ (\A i \in DOMAIN Sections(root) : ~IsBad(Sections(root)[i]))
        /\ Get(root, s) = x
    BY <1>1, ParsedLists, Zenon
  <2> HIDE DEF root, x
  <2>2. s \in DOMAIN Sections(root) /\ Sections(root)[s] = ParseSection(root, s)
    BY <1>1, SectionsAre, Zenon
  <2> QED BY <2>1, <2>2
<1>3. isRecord(x) => Value5(Get(x.o, k)) \/ Get(x.o, k) = Undef
  BY <1>1, ParsedLists, Zenon
<1>4. \A i \in DOMAIN SectionFields[s] : Insistent(SectionFields[s][i])
  BY SectionTables
<1> HIDE DEF root
<1>5. \/ IsUndef(x) /\ ParseSection(root, s).o[k].a = <<>>
      \/ /\ isRecord(x) /\ ParseSection(root, s).o[k] = ReadField(x.o, k, ListOf(G))
         /\ ~IsBad(ReadField(x.o, k, ListOf(G)))
  BY <1>2, <1>4, SectionList
<1>6. /\ KeptList(s, k) = ParseSection(root, s).o[k].a
      /\ RawList(s, k) = IF isRecord(x) THEN ItemsOf(Get(x.o, k)) ELSE <<>>
  BY <1>1, <1>2, Zenon DEF KeptList, RawList
<1>7. IsUndef(x) => ~isRecord(x)
  BY DEF IsUndef, isRecord
<1> QED BY <1>3, <1>5, <1>6, <1>7

\* Nothing is kept of nothing.
LEMMA EmptyKept == \A W : KeptWell(<<>>, W, <<>>)
<1>1. \A W : Those(<<>>, W) = <<>>
  <2>1. ToSet(<<>>) = {}
    BY DEF ToSet
  <2> QED BY <2>1, EmptyIsSequence, Filtered
<1>2. DOMAIN <<>> = {}
  OBVIOUS
<1> QED BY <1>1, <1>2 DEF KeptWell

\* Every DNS server and plugin, and every DNS rule with a suffix list.
LEMMA KeepsSections ==
  ASSUME LoadInv, step = "parsed"
  PROVE  /\ Keeps("dns", "udpServers") /\ Keeps("dns", "rules")
         /\ Keeps("plugins", "modules") /\ Keeps("plugins", "wasm")
<1> DEFINE Left(s, k) == {x \in ToSet(RawList(s, k)) : ~SilentlyDropped(s, k, x)}
<1>1. ASSUME NEW e \in {<<"dns", "udpServers", UdpServerFields>>,
                        <<"plugins", "modules", PluginModuleFields>>, <<"plugins", "wasm", WasmFields>>}
      PROVE  Keeps(e[1], e[2])
  <2>1. \A x : ~SilentlyDropped(e[1], e[2], x)
    BY DEF SilentlyDropped
  <2>2. ToSet(RawList(e[1], e[2])) \subseteq Left(e[1], e[2])
    BY <2>1
  <2>3. /\ e[1] \in {"dns", "plugins"} /\ e[2] \notin MapKeys
        /\ e[2] \in DOMAIN SectionFields[e[1]] /\ SectionFields[e[1]][e[2]] = ListOf(e[3])
        /\ e[3] \in {RuleSetFileFields, UdpServerFields, PluginModuleFields, WasmFields}
    BY ListNames, SectionTables
  <2> DEFINE g == Get(Get(source.o, e[1]).o, e[2])
             v == ReadField(Get(source.o, e[1]).o, e[2], ListOf(e[3]))
  <2>4. \/ RawList(e[1], e[2]) = <<>> /\ KeptList(e[1], e[2]) = <<>>
        \/ /\ RawList(e[1], e[2]) = ItemsOf(g) /\ KeptList(e[1], e[2]) = v.a /\ ~IsBad(v)
           /\ Value5(g) \/ g = Undef
    BY <2>3, SectionKeeps
  <2> HIDE DEF Left
  <2>5. KeptWell(RawList(e[1], e[2]), Left(e[1], e[2]), KeptList(e[1], e[2]))
    <3>1. CASE RawList(e[1], e[2]) = <<>> /\ KeptList(e[1], e[2]) = <<>>
      BY <3>1, EmptyKept
    <3>2. CASE /\ RawList(e[1], e[2]) = ItemsOf(g) /\ KeptList(e[1], e[2]) = v.a /\ ~IsBad(v)
               /\ Value5(g) \/ g = Undef
      BY <2>2, <2>3, <3>2, AllKept
    <3> QED BY <2>4, <3>1, <3>2
  <2> QED BY <2>5 DEF Keeps, Left
<1>2. Keeps("dns", "rules")
  <2> DEFINE g == Get(Get(source.o, "dns").o, "rules")
             v == ReadField(Get(source.o, "dns").o, "rules", ListOf(DnsRuleFields))
  <2>1. \A x : SilentlyDropped("dns", "rules", x) <=> IsUndef(Get(x.o, "domainSuffix"))
    BY DEF SilentlyDropped
  <2>2. \A x \in ToSet(RawList("dns", "rules")) :
           x \in Left("dns", "rules") <=> ~IsUndef(Get(x.o, "domainSuffix"))
    BY <2>1
  <2>3. \/ RawList("dns", "rules") = <<>> /\ KeptList("dns", "rules") = <<>>
        \/ /\ RawList("dns", "rules") = ItemsOf(g) /\ KeptList("dns", "rules") = v.a /\ ~IsBad(v)
           /\ Value5(g) \/ g = Undef
    BY ListNames, SectionTables, SectionKeeps
  <2>4. /\ DnsRuleFields["domainSuffix"].needed /\ DnsRuleFields["domainSuffix"].alias = ""
        /\ DnsRuleFields["domainSuffix"].kind \in {"texts", "some"}
        /\ DnsRuleFields["domainSuffix"].def = Undef
    BY NeededTables, NeededTextsAre, Zenon
  <2> HIDE DEF Left
  <2>5. KeptWell(RawList("dns", "rules"), Left("dns", "rules"), KeptList("dns", "rules"))
    <3>1. CASE RawList("dns", "rules") = <<>> /\ KeptList("dns", "rules") = <<>>
      BY <3>1, EmptyKept
    <3>2. CASE /\ RawList("dns", "rules") = ItemsOf(g) /\ KeptList("dns", "rules") = v.a /\ ~IsBad(v)
               /\ Value5(g) \/ g = Undef
      BY <2>2, <2>4, <3>2, NeededTables, NeededKept, Zenon
    <3> QED BY <2>3, <3>1, <3>2
  <2> QED BY <2>5 DEF Keeps, Left
<1>3. /\ Keeps("dns", "udpServers") /\ Keeps("plugins", "modules") /\ Keeps("plugins", "wasm")
  <2>1. ASSUME NEW a, NEW b, NEW c,
               <<a, b, c>> \in {<<"dns", "udpServers", UdpServerFields>>,
                                <<"plugins", "modules", PluginModuleFields>>,
                                <<"plugins", "wasm", WasmFields>>}
        PROVE  Keeps(a, b)
    <3> DEFINE e == <<a, b, c>>
    <3>1. Keeps(e[1], e[2])
      BY <1>1, <2>1
    <3> QED BY <3>1
  <2> QED BY <2>1
<1> QED BY <1>2, <1>3

\* All nine lists.
LEMMA AllItemsKept == LoadInv => ItemsKept
<1> SUFFICES ASSUME LoadInv, step = "parsed"
             PROVE  \A e \in {<<"", "inbounds">>, <<"", "outbounds">>, <<"route", "rules">>,
                              <<"route", "policies">>, <<"route", "ruleSetFiles">>,
                              <<"dns", "udpServers">>, <<"dns", "rules">>,
                              <<"plugins", "modules">>, <<"plugins", "wasm">>} :
                       LET raw   == RawList(e[1], e[2])
                           given == Those(raw, {x \in ToSet(raw) : ~SilentlyDropped(e[1], e[2], x)})
                           kept  == KeptList(e[1], e[2])
                       IN  /\ Len(kept) = Len(given)
                           /\ \A i \in DOMAIN kept :
                                 \A k \in {"tag", "outboundTag"} \cap DOMAIN kept[i].o :
                                     kept[i].o[k] = Get(given[i].o, k)
  BY Zenon DEF ItemsKept
<1> DEFINE Kept(e) ==
             LET raw   == RawList(e[1], e[2])
                 given == Those(raw, {x \in ToSet(raw) : ~SilentlyDropped(e[1], e[2], x)})
                 kept  == KeptList(e[1], e[2])
             IN  /\ Len(kept) = Len(given)
                 /\ \A i \in DOMAIN kept :
                       \A k \in {"tag", "outboundTag"} \cap DOMAIN kept[i].o :
                           kept[i].o[k] = Get(given[i].o, k)
<1>1. ASSUME NEW s, NEW name, Keeps(s, name) PROVE Kept(<<s, name>>)
  BY <1>1 DEF Keeps, KeptWell, SameTags
<1> HIDE DEF Kept
<1>2. Kept(<<"", "inbounds">>) /\ Kept(<<"", "outbounds">>)
  BY <1>1, KeepsInbounds, KeepsOutbounds, Zenon
<1>3. Kept(<<"route", "rules">>) /\ Kept(<<"route", "policies">>) /\ Kept(<<"route", "ruleSetFiles">>)
  BY <1>1, KeepsRoute, Zenon
<1>4. /\ Kept(<<"dns", "udpServers">>) /\ Kept(<<"dns", "rules">>)
      /\ Kept(<<"plugins", "modules">>) /\ Kept(<<"plugins", "wasm">>)
  BY <1>1, KeepsSections, Zenon
<1>5. \A e \in {<<"", "inbounds">>, <<"", "outbounds">>, <<"route", "rules">>, <<"route", "policies">>,
                <<"route", "ruleSetFiles">>, <<"dns", "udpServers">>, <<"dns", "rules">>,
                <<"plugins", "modules">>, <<"plugins", "wasm">>} : Kept(e)
  BY <1>2, <1>3, <1>4, Zenon
<1> QED BY <1>5, Zenon DEF Kept

\* An accepted configuration has, in order and with its tags, every inbound,
\* outbound, rule, policy, rule-set file, DNS server, DNS rule and plugin of the
\* file, but for the three kinds of entry that config/schema.ts drops in silence.
THEOREM EveryItemKept == PlanSpec => []ItemsKept
<1>1. PlanInv => ItemsKept
  BY AllItemsKept DEF PlanInv
<1> QED BY <1>1, PlanInvariant, PTL
=============================================================================
