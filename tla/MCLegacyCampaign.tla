-------------------------- MODULE MCLegacyCampaign --------------------------
(* A campaign with two missions and an execution outside any campaign, as    *)
(* 2.2 may have left them: what each command can do to each is among these.  *)
EXTENDS LegacyCampaign, TLC

MCExecution == 1..3
MCMissionOf(e) == IF e = 3 THEN NoCampaign ELSE CHOOSE c \in Campaign : TRUE
MCRetriable == {1, 3}

Left == {<<"failed", "running", "interrupted">>,
         <<"interrupted", "awaiting_approval", "failed">>,
         <<"cancelled", "succeeded", "running">>,
         <<"failed", "rejected", "awaiting_approval">>,
         <<"planned", "failed", "cancelled">>}

MCInit == Init /\ record \in Left
MCSpec == MCInit /\ [][Next]_vars

Alike == Permutations(Caller)
=============================================================================
