--------------------------- MODULE MCCampaignJobs ---------------------------
(***************************************************************************)
(* Small instances of CampaignJobs for TLC.                                *)
(***************************************************************************)
EXTENDS CampaignJobs, TLC

CONSTANTS w1, w2, k1, k2, t1, t2
=============================================================================
