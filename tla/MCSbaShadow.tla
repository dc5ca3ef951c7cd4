------------------------------ MODULE MCSbaShadow ------------------------------
(***************************************************************************)
(* Model checking of SbaShadow: the instances are in the configurations.   *)
(***************************************************************************)
EXTENDS SbaShadow
=============================================================================
