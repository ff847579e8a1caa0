--------------------------------- MODULE Lists ---------------------------------
(***************************************************************************)
(* Array.prototype.filter, which the configuration schema, the diff of two *)
(* configurations, the routing policies and the prober use, and what is    *)
(* left of a Map, in its order, when keys are deleted.                     *)
(***************************************************************************)
EXTENDS Naturals, Sequences

\* The members of the list that are wanted, in their order.
Those(list, wanted) ==
    LET kept[n \in 0..Len(list)] ==
            IF n = 0 THEN <<>>
            ELSE IF list[n] \in wanted THEN Append(kept[n - 1], list[n]) ELSE kept[n - 1]
    IN kept[Len(list)]
=============================================================================
