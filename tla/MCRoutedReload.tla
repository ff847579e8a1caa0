--------------------------- MODULE MCRoutedReload ---------------------------
(***************************************************************************)
(* Two outbounds, every valid configuration over them, two connections and *)
(* two successful reloads with any number of failed ones.                  *)
(***************************************************************************)
EXTENDS RoutedReload, TLC
CONSTANTS t1, t2, c1, c2
MCTags == {t1, t2}
MCConns == {c1, c2}
Symmetry == Permutations(MCTags) \cup Permutations(MCConns)
=============================================================================
