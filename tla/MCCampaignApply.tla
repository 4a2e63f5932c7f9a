-------------------------- MODULE MCCampaignApply --------------------------
(***************************************************************************)
(* Instance of CampaignApply for TLC: start() and two people, or one       *)
(* person twice, who apply its candidate.                                  *)
(***************************************************************************)
EXTENDS CampaignApply

CONSTANTS a1, a2
=============================================================================
