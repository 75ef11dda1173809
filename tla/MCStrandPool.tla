---------------------------- MODULE MCStrandPool ----------------------------
(***************************************************************************)
(* Model-checking instances of StrandPool; the configurations give the     *)
(* constants.                                                              *)
(***************************************************************************)
EXTENDS StrandPool
=============================================================================
