----------------------------- MODULE MCUvmBridge -----------------------------
(***************************************************************************)
(* Model checking of UvmBridge: the bounds are in the configurations.      *)
(***************************************************************************)
EXTENDS UvmBridge
=============================================================================
