----------------------------- MODULE FramingPlan -----------------------------
(* The framing plan as a value: what one revision holds, what a delta, a        *)
(* stabilization and a publication make of it, and how a delta that was         *)
(* written against an older revision is rebased.  Pure operators; the journal   *)
(* that stores the revisions is in FramingCycle (what it promises) and Framing  *)
(* (how it is written).                                                         *)
(*                                                                              *)
(* A knowledge item is identified by a sequence: <<n>> for the identifier n an  *)
(* agent gave, followed by the section, the revision and the statement that are *)
(* hashed into the suffix for the ones the rebase makes up.  Sections are kept  *)
(* as kinds: an "intent" item stands for the problem, the effect and the        *)
(* objective together, "fact" is repository evidence bound to a snapshot,       *)
(* "design" is solution.design and "open" a blocking open decision.  The        *)
(* repository is of nature implemented.                                         *)
EXTENDS Integers, FiniteSets, SequencesExt

CONSTANTS Deltas,      \* what agents contribute: sequences of operations
          Snapshots    \* states of the repository

IsSequence(s) == s \in Seq(Range(s))

\* assertPlanDeltaContract, on what the rebase relies on: some operations, each
\* of a known sort, a statement under an identifier.
Operations == {"upsert", "supersede", "probe", "split"}
ASSUME DeltasAssumption ==
    \A delta \in Deltas :
        /\ IsSequence(delta) /\ delta # <<>>
        /\ \A op \in Range(delta) :
              /\ op.op \in Operations
              /\ op.op = "upsert" =>
                    /\ DOMAIN op = {"op", "id", "text", "deps", "kind", "snapshot"}
                    /\ IsSequence(op.id) /\ op.id # <<>>

\* createFramingPlan: revision 1, with the repository as it was observed.
NewPlan(snapshot) ==
    [revision |-> 1, items |-> {}, probe |-> snapshot, split |-> 0,
     intent |-> 0, grounded |-> 0, publication |-> 0]

IsActive(item)  == item.until = 0
Active(items)   == {i \in items : IsActive(i)}
ActiveIds(items) == {i.id : i \in Active(items)}

-----------------------------------------------------------------------------
(* Operations of a delta. *)

Statement(item) == <<item.text, item.deps, item.snapshot>>

\* What an operation is about: an item of a section, the probe or the decomposition.
Keyed(item) == <<item.kind, item.id>>
Key(op) == IF op.op \in {"upsert", "supersede"} THEN Keyed(op) ELSE <<op.op>>

Retire(items, gone, revision) ==
    {IF i \in gone THEN [i EXCEPT !.until = revision] ELSE i : i \in items}

ActiveUnder(items, key) == {i \in Active(items) : Keyed(i) = key}

\* The same statement again changes nothing; a new one replaces the active one.
UpsertKnowledge(items, op, revision) ==
    IF \E i \in ActiveUnder(items, Key(op)) : Statement(i) = Statement(op)
    THEN items
    ELSE Retire(items, ActiveUnder(items, Key(op)), revision) \cup
           {[id |-> op.id, text |-> op.text, deps |-> op.deps, kind |-> op.kind,
             snapshot |-> op.snapshot, since |-> revision, until |-> 0]}

\* What rests on a superseded item, directly or not, falls with it: the smallest
\* set that has the item and what depends on any of its members.
RestsOn(item, cause) == cause.id \in item.deps
ClosedUnder(items, key, fallen) ==
    /\ ActiveUnder(items, key) \subseteq fallen
    /\ \A i \in Active(items) : (\E cause \in fallen : RestsOn(i, cause)) => i \in fallen
Fallen(items, key) ==
    {i \in Active(items) :
        \A fallen \in SUBSET Active(items) : ClosedUnder(items, key, fallen) => i \in fallen}

SupersedeKnowledge(items, op, revision) == Retire(items, Fallen(items, Key(op)), revision)

ApplyOperation(draft, op) ==
    CASE op.op = "upsert" ->
           [draft EXCEPT !.items = UpsertKnowledge(@, op, draft.revision)]
      [] op.op = "supersede" ->
           [draft EXCEPT !.ok = @ /\ ActiveUnder(draft.items, Key(op)) # {},
                         !.items = SupersedeKnowledge(@, op, draft.revision)]
      [] op.op = "probe" -> [draft EXCEPT !.probe = op.snapshot]
      [] op.op = "split" -> [draft EXCEPT !.split = op.value]

\* applyFramingDelta: the next revision, with ok for "no operation was refused".
AfterDelta(plan, ops) ==
    LET draft[n \in 0..Len(ops)] ==
          IF n = 0 THEN [ok |-> TRUE, revision |-> plan.revision + 1, items |-> plan.items,
                         probe |-> plan.probe, split |-> plan.split]
          ELSE ApplyOperation(draft[n - 1], ops[n])
    IN  draft[Len(ops)]

Accepts(plan, ops) ==
    /\ plan.publication = 0
    /\ plan.grounded = 0
    /\ AfterDelta(plan, ops).ok

AppliedDelta(plan, ops) ==
    LET after == AfterDelta(plan, ops)
    IN  [plan EXCEPT !.revision = @ + 1, !.items = after.items,
                     !.probe = after.probe, !.split = after.split]

\* assertPlan, on what a delta can get wrong: no identifier is active twice,
\* nothing active rests on something superseded, and repository evidence is of
\* the snapshot of the plan.
Consistent(plan) ==
    \A i \in Active(plan.items) :
        /\ \A j \in Active(plan.items) : i.id = j.id => i = j
        /\ i.deps \subseteq ActiveIds(plan.items)
        /\ i.kind = "fact" => i.snapshot = plan.probe

-----------------------------------------------------------------------------
(* Rebasing a stale delta. *)

ItemsUnder(plan, key) == {i \in plan.items : Keyed(i) = key}

ChangedKeys(base, current) ==
    {key \in {Keyed(i) : i \in base.items \cup current.items} :
         ItemsUnder(base, key) # ItemsUnder(current, key)}
    \cup (IF base.probe # current.probe THEN {<<"probe">>} ELSE {})
    \cup (IF base.split # current.split THEN {<<"split">>} ELSE {})

\* Mutant: keys changed meanwhile are not compared with those of the delta.
NoOverlap(base, current, ops) == {}

Overlap(base, current, ops) ==
    ChangedKeys(base, current) \cap {Key(ops[n]) : n \in DOMAIN ops}

\* preserveConcurrentContradictions: an overlapping statement is kept beside the
\* other one, under an identifier of its own, with an open decision on both.
Alternative(op, revision) == [op EXCEPT !.id = op.id \o <<op.kind, revision, op.text>>]

Contradiction(op, revision) ==
    [op |-> "upsert", id |-> op.id \o <<op.kind, revision, op.text, "contradiction">>,
     text |-> "confront", deps |-> {op.id, Alternative(op, revision).id},
     kind |-> "open", snapshot |-> 0]

\* The item of such an operation on that revision, by the end of its identifier.
MadeUp(item, revision) ==
    LET n == Len(item.id) IN
    \/ n > 3 /\ item.id[n] = item.text /\ item.id[n - 1] = revision
    \/ n > 4 /\ item.id[n] = "contradiction" /\ item.text = "confront" /\ item.id[n - 2] = revision

Confronted(ops, overlap, revision) ==
    FlattenSeq([n \in DOMAIN ops |->
        IF Key(ops[n]) \in overlap
        THEN <<Alternative(ops[n], revision), Contradiction(ops[n], revision)>>
        ELSE <<ops[n]>>])

\* An overlap on anything but a statement cannot be kept: the delta is refused.
CanRebase(base, current, ops) ==
    \A n \in DOMAIN ops :
        Key(ops[n]) \in Overlap(base, current, ops) => ops[n].op = "upsert"

Rebased(base, current, ops) ==
    Confronted(ops, Overlap(base, current, ops), base.revision)

\* What applyDelta makes of the current plan with a delta written on `base':
\* a set of one plan, or the empty set when it throws.
Merged(base, current, ops) ==
    IF base # current /\ ~CanRebase(base, current, ops) THEN {}
    ELSE LET rebased == IF base = current THEN ops ELSE Rebased(base, current, ops)
         IN  IF Accepts(current, rebased)
             THEN {next \in {AppliedDelta(current, rebased)} : Consistent(next)}
             ELSE {}

-----------------------------------------------------------------------------
(* Stabilizations and publication. *)

HasProductSubstance(plan) == \E i \in Active(plan.items) : i.kind = "intent"

IsGrounded(plan) ==
    /\ plan.intent # 0
    /\ \E i \in Active(plan.items) : i.kind = "fact" /\ i.snapshot = plan.probe
    /\ \E i \in Active(plan.items) : i.kind = "design"

CanStabilizeGroundedPlan(plan) ==
    /\ IsGrounded(plan)
    /\ plan.split # 0
    /\ \A i \in Active(plan.items) : i.kind # "open"

CanStabilize(plan, kind) ==
    \/ kind = "intent"   /\ plan.intent = 0 /\ HasProductSubstance(plan)
    \/ kind = "grounded" /\ plan.grounded = 0 /\ CanStabilizeGroundedPlan(plan)

\* A stabilization names the revision it confirms.
Stabilized(plan, kind) ==
    IF kind = "intent"
    THEN [plan EXCEPT !.revision = @ + 1, !.intent = plan.revision]
    ELSE [plan EXCEPT !.revision = @ + 1, !.grounded = plan.revision]

Published(plan) ==
    [plan EXCEPT !.revision = @ + 1, !.publication = plan.revision]

\* The refresh of stabilize() when the repository has moved: the new probe, and
\* the evidence of the old one withdrawn in the order in which it came.
Withdraw(item) == [op |-> "supersede", kind |-> item.kind, id |-> item.id]

RefreshesOf(plan, snapshot) ==
    {<<[op |-> "probe", snapshot |-> snapshot]>> \o [n \in DOMAIN facts |-> Withdraw(facts[n])] :
        facts \in {order \in SetToSeqs({i \in Active(plan.items) : i.kind = "fact"}) :
                      \A m, n \in DOMAIN order : m < n => order[m].since <= order[n].since}}

-----------------------------------------------------------------------------
(* What a revision may be made of the ones before it. *)

LastOf(past) == past[Len(past)]

\* Any active item of the revision an agent read may be superseded.
OperationsOn(plan) == Deltas \cup {<<Withdraw(i)>> : i \in Active(plan.items)}

\* A contribution, written on whatever revision; the refresh of a moved
\* repository is one too, and may be rebased like another.
Contributions(plan) == OperationsOn(plan) \cup UNION {RefreshesOf(plan, s) : s \in Snapshots}
IsContribution(past, plan) ==
    \E r \in DOMAIN past : \E ops \in Contributions(past[r]) :
        plan \in Merged(past[r], LastOf(past), ops)

IsConfirmation(past, plan) ==
    \E kind \in {"intent", "grounded"} :
        CanStabilize(LastOf(past), kind) /\ plan = Stabilized(LastOf(past), kind)

IsPublication(past, plan) ==
    /\ LastOf(past).grounded # 0
    /\ LastOf(past).publication = 0
    /\ plan = Published(LastOf(past))

Follows(past, plan) ==
    IF past = <<>> THEN \E s \in Snapshots : plan = NewPlan(s)
    ELSE IsConfirmation(past, plan) \/ IsPublication(past, plan) \/ IsContribution(past, plan)
=============================================================================
