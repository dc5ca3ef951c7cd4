------------------------------ MODULE MCDmiLink ------------------------------
(***************************************************************************)
(* Model checking of the link and of the correlator on it, over every DTM  *)
(* the sources allow for and with small loop bounds.                       *)
(***************************************************************************)
EXTENDS DtmCorrelator

AllKinds == DtmKinds
\* Two accesses of one register, with another between them.
MCaddr == <<"a", "b", "a">>
=============================================================================
