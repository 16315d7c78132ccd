------------------------------ MODULE MCWarmup ------------------------------
(***************************************************************************)
(* Small instances of Warmup for TLC.                                      *)
(***************************************************************************)
EXTENDS Warmup

CONSTANTS w1, k1, m1, m2
=============================================================================
