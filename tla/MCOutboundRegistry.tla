------------------------- MODULE MCOutboundRegistry -------------------------
(***************************************************************************)
(* Four generation objects over three ids: g1 and g2 share id 1, as the    *)
(* candidates of a failed reload and of its retry do.  Generations differ  *)
(* in the tags they serve.                                                 *)
(***************************************************************************)
EXTENDS OutboundRegistry, TLC

CONSTANTS g0, g1, g2, g3, a, b

MCGens == {g0, g1, g2, g3}
MCIds == 0 .. 2
MCTags == {a, b}
MCIdOf == g0 :> 0 @@ g1 :> 1 @@ g2 :> 1 @@ g3 :> 2
MCTagsOf == g0 :> {a, b} @@ g1 :> {a} @@ g2 :> {a} @@ g3 :> {b}
=============================================================================
