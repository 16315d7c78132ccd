------------------------- MODULE MCCampaignDispatch -------------------------
(***************************************************************************)
(* Small instances of CampaignDispatch for TLC.                            *)
(***************************************************************************)
EXTENDS CampaignDispatch, TLC

CONSTANTS w1, w2, k1, c1, c2, l1, l2, l3, l4, l5

\* An introduction and a follow-up, never edited; their numbers leave a gap.
TwoSteps == {{1, 3}}

\* The operator may drop and restore the follow-up.
EditedSteps == {{1}, {1, 2}}

Symmetry == Permutations(Contacts) \cup Permutations(Leads)
            \cup Permutations(Workers)
=============================================================================
