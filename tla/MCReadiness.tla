---------------------------- MODULE MCReadiness ----------------------------
(***************************************************************************)
(* A small instance of Readiness for TLC.                                  *)
(***************************************************************************)
EXTENDS Readiness, TLC

CONSTANTS k1, k2, l1, l2

AllThere == [r \in Records |-> "configured"]

\* Everything, one record that is missing or one whose lookup fails, nothing.
SomeAnswers ==
  {AllThere, [AllThere EXCEPT !["spf"] = "missing"], [AllThere EXCEPT !["dkim"] = "failed"],
   [r \in Records |-> "missing"]}

LeadSymmetry == Permutations({l1, l2})
=============================================================================
