-------------------------- MODULE MCReloadExecutor --------------------------
(***************************************************************************)
(* Three components; the first and the last wait for I/O.                  *)
(***************************************************************************)
EXTENDS ReloadExecutor
MCSlow == {1, 3}
=============================================================================
