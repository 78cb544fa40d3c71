----------------------------- MODULE MCLifecycle -----------------------------
(***************************************************************************)
(* Small instances of Lifecycle for TLC: the configurations are in Init.   *)
(***************************************************************************)
EXTENDS Lifecycle
=============================================================================
