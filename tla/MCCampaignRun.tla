--------------------------- MODULE MCCampaignRun ---------------------------
(***************************************************************************)
(* Instances of CampaignRun for TLC.                                       *)
(***************************************************************************)
EXTENDS CampaignRun, TLC

CONSTANTS a, b, c, d, merge, dev

(* c needs b, b needs a, and the plan lists them in reverse; d is free.     *)
(* Nothing in the plan builder orders the tasks by their dependencies, so   *)
(* the forward pass of the coordinator meets c before it knows of a.        *)
ChainOrder == <<c, b, a, d>>
ChainDeps == a :> {} @@ b :> {a} @@ c :> {b} @@ d :> {}
ChainRank == c :> 1 @@ b :> 2 @@ a :> 3 @@ d :> 4

(* Every task of a plan has the role "development", so that they share one  *)
(* profile; here the integrator's role was given the same one.              *)
OneProfile == [t \in TaskId |-> dev]

DevLimit == dev :> 1

AllAuthorizations == [mode : BudgetMode, parallel : {1, 2}, allowCommits : BOOLEAN]
TwoAtOnce == [mode : BudgetMode, parallel : {2}, allowCommits : {TRUE}]
HardStop == [mode : {"hard_stop"}, parallel : {2}, allowCommits : {TRUE}]
=============================================================================
