-------------------------- MODULE CampaignOutcome --------------------------
(***************************************************************************)
(* What the end of a v2.3 campaign promises, whoever applies the candidate *)
(* and however often somebody tries: the candidate reaches the real        *)
(* project only with a permission, and the campaign is shown completed     *)
(* only when it did (docs/automatic-orchestration.md:83-89).               *)
(***************************************************************************)
CONSTANT Candidate      \* what is known of a candidate: see Automatic and Applicable

VARIABLES
    cand,       \* the candidate
    confirmed,  \* a person confirmed its fingerprint
    merged,     \* the real project received it
    status      \* what the projection shows

vars == <<cand, confirmed, merged, status>>

(* A person may apply it, and Norn may do so without being asked. *)
Applicable(c) == c.clean /\ ~c.denied
Automatic(c) == c.automatic /\ c.clean /\ c.eligible /\ ~c.fallback

Init ==
    /\ cand \in Candidate
    /\ confirmed = FALSE /\ merged = FALSE
    /\ status \in {"running", "blocked"}

Confirm ==
    /\ confirmed' = TRUE
    /\ UNCHANGED <<cand, merged, status>>

Merge ==
    /\ Automatic(cand) \/ (confirmed /\ Applicable(cand))
    /\ merged' = TRUE
    /\ UNCHANGED <<cand, confirmed, status>>

Show ==
    \/ status' = "blocked"
    \/ status' = "awaiting_application" /\ status # "completed"
    \/ status' = "completed" /\ merged

Next == Confirm \/ Merge \/ (Show /\ UNCHANGED <<cand, confirmed, merged>>)

Spec == Init /\ [][Next]_vars
=============================================================================
