------------------------------ MODULE MCFraming ------------------------------
(* Two agents that state the same premise in two ways, one of them from either  *)
(* of two sources, or a conclusion that rests on it, and the technical answer   *)
(* to the first state of the repository.                                        *)
EXTENDS Framing

Plain(name) == <<name>>

State(name, text, deps, kind, snapshot) ==
    [op |-> "upsert", id |-> Plain(name), text |-> text, deps |-> deps,
     kind |-> kind, snapshot |-> snapshot]

Premise(text) == <<State("premise", text, {}, "intent", 0)>>
Sourced(text) == <<State("premise", text, {}, "intent", 1)>>
Conclusion    == <<State("conclusion", "c", {Plain("premise")}, "intent", 0)>>
Grounding(s)  ==
    <<[op |-> "probe", snapshot |-> s], State("fact", "f", {}, "fact", s),
      State("design", "d", {}, "design", 0), [op |-> "split", value |-> s]>>

MCSnapshots == 1..2
MCDeltas == {Premise("p"), Premise("q"), Sourced("q"), Conclusion, Grounding(1)}

Nothing == [deltas |-> 0, publications |-> 0, crashes |-> 0, faults |-> 0, moves |-> 0]

\* A journal as so many saves leave it, the last ones on confirmed revisions.
Saved(plans, shown) ==
    /\ history = plans /\ pointer = Len(plans)
    /\ events = [n \in DOMAIN plans |-> n] /\ basis = [n \in DOMAIN plans |-> n - 1]
    /\ confirmed = shown

\* Where deltas may still be submitted, and nothing published.
Contributing ==
    /\ \/ Saved(<<>>, {})
       \/ Saved(<<NewPlan(1), AppliedDelta(NewPlan(1), Premise("p"))>>, {})
    /\ spent = [Nothing EXCEPT !.publications = MaxPublications, !.faults = MaxFaults,
                               !.moves = MaxMoves]

\* At the second stabilization, where no delta is submitted any more.
Confirming ==
    /\ LET begun   == AppliedDelta(NewPlan(1), Premise("p"))
           settled == Stabilized(begun, "intent")
       IN  Saved(<<NewPlan(1), begun, settled, AppliedDelta(settled, Grounding(1))>>,
                 {<<"intent", 2>>})
    /\ spent = [Nothing EXCEPT !.deltas = MaxDeltas]

MCInit ==
    /\ Contributing \/ Confirming
    /\ lock = Nobody /\ pubLock = Nobody /\ repository = 1
    /\ publication = NoPublication /\ draft = "draft"
    /\ staged = {} /\ leftover = {} /\ planFiles = {}
    /\ marker = "none" /\ listed = 0 /\ indexed = FALSE
    /\ proc = [p \in Actors |-> Resting]

MCSpec == MCInit /\ [][Next]_vars /\ Fairness
=============================================================================
