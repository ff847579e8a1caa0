-------------------------- MODULE MCEndpointReload --------------------------
(***************************************************************************)
(* One endpoint, two addresses, two values for the other settings.         *)
(***************************************************************************)
EXTENDS EndpointReload
MCAddrs == {"a1", "a2"}
MCOpts == {"o1", "o2"}
=============================================================================
