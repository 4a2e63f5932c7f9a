----------------------------- MODULE FramingCycle ----------------------------
(* What a framing journal promises: a growing sequence of revisions, each made  *)
(* in one step from the ones before.  Framing, where reading, computing and     *)
(* writing are separate steps of concurrent processes that may crash, is shown  *)
(* to implement it.                                                             *)
EXTENDS Naturals, Sequences

CONSTANT Follows(_, _)  \* Follows(past, plan): the plan may come after the past
VARIABLE history

Last == history[Len(history)]

\* An empty journal, or one that has come about in the same way.
Init == \A n \in DOMAIN history : Follows(SubSeq(history, 1, n - 1), history[n])
Next ==
    /\ Len(history') = Len(history) + 1
    /\ history' = Append(history, Last')
    /\ Follows(history, Last')
Spec == Init /\ [][Next]_history
=============================================================================
