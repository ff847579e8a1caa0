-------------------------- MODULE ReloadTransaction --------------------------
(***************************************************************************)
(* The transaction state machine of src/reload/generation.ts: what the     *)
(* state of a reload transaction may do.  transition() moves along the     *)
(* TRANSITIONS table; fail() moves to "rolling-back" once a component may  *)
(* have been prepared and to "failed" before that.                         *)
(***************************************************************************)
VARIABLE state

Transitions ==
    [idle        |-> {"parsing"},
     parsing     |-> {"validating", "failed"},
     validating  |-> {"preparing", "failed"},
     preparing   |-> {"prepared", "rolling_back", "failed"},
     prepared    |-> {"committing", "rolling_back"},
     committing  |-> {"committed", "rolling_back", "failed"},
     committed   |-> {},
     rolling_back |-> {"rolled_back", "failed"},
     rolled_back |-> {},
     failed      |-> {}]

States == DOMAIN Transitions
Terminal == {"committed", "rolled_back", "failed"}

\* transition(next)
Transition(next) == next \in Transitions[state] /\ state' = next

\* fail(reason)
Fail ==
    /\ state \notin Terminal
    /\ state' = IF state \in {"preparing", "prepared", "committing"}
                THEN "rolling_back" ELSE "failed"

Init == state = "idle"
Next == Fail \/ \E next \in States : Transition(next)
Spec == Init /\ [][Next]_state
=============================================================================
