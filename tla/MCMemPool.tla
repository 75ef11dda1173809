--------------------------- MODULE MCMemPool ---------------------------
(* An instance of MemPool for TLC.                                         *)
EXTENDS MemPool
=============================================================================
