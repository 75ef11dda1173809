--------------------------- MODULE MCRelativeTimer ---------------------------
(***************************************************************************)
(* Model-checking instances of RelativeTimer; the configurations give the  *)
(* constants.                                                              *)
(***************************************************************************)
EXTENDS RelativeTimer, TLC

\* No action and no safety property tells one timer from another.
TimerSymmetry == Permutations(Sids)
=============================================================================
