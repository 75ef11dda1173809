------------------------------ MODULE MCNetport ------------------------------
(***************************************************************************)
(* Model-checking instances of Netport; the configurations give the        *)
(* constants.                                                              *)
(***************************************************************************)
EXTENDS Netport
=============================================================================
