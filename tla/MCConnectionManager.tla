------------------------ MODULE MCConnectionManager ------------------------
(* Bounded instances of ConnectionManager.                                *)
EXTENDS ConnectionManager, TLC

CONSTANTS c1, c2

OneConn == {c1}
TwoConns == {c1, c2}
Symmetry == Permutations(TwoConns)
==============================================================================
