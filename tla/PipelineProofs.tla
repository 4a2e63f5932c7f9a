---------------------------- MODULE PipelineProofs ----------------------------
(* What the guidance of a pipeline promises, for every definition of its steps  *)
(* and every history of its documents.  The lemmas are about the evaluation of  *)
(* a sequence of documents; the theorems take them to the steps of Pipeline.    *)
EXTENDS Pipeline, TLAPS, FiniteSetTheorems, WellFoundedInduction

-----------------------------------------------------------------------------
(* Minima of sets of numbers.                                                   *)

\* A set of numbers that is not empty has a least element.
LEMMA LeastNumber ==
    ASSUME NEW T \in SUBSET Nat, T # {}
    PROVE  \E x \in T : \A y \in T : x <= y
<1>1. \E x \in T : \A y \in T : ~(<<y, x>> \in OpToRel(<, Nat))
  BY WFMin, NatLessThanWellFounded
<1>2. PICK x \in T : \A y \in T : ~(<<y, x>> \in OpToRel(<, Nat))
  BY <1>1
<1>3. \A y \in T : ~(y < x)
  BY <1>2 DEF OpToRel
<1> QED
  BY <1>3

\* Among some steps one is the first.
LEMMA FirstStep ==
    ASSUME NEW S \in SUBSET StepId, S # {}
    PROVE  \E s \in S : \A t \in S : Step[s].order <= Step[t].order
<1> DEFINE orders == {Step[s].order : s \in S}
<1>1. \A s \in S : Step[s].order \in Nat
  BY DefinitionAssumption
<1>2. orders \in SUBSET Nat /\ orders # {}
  BY <1>1
<1>3. PICK o \in orders : \A p \in orders : o <= p
  BY <1>2, LeastNumber
<1>4. PICK s \in S : Step[s].order = o
  BY <1>3
<1>5. \A t \in S : Step[t].order \in orders
  OBVIOUS
<1>6. \A t \in S : o <= Step[t].order
  BY <1>3, <1>5
<1> QED
  BY <1>4, <1>6

\* The fields of a document.
LEMMA DocumentFields ==
    ASSUME NEW d \in Seq(Document), NEW i \in DOMAIN d
    PROVE  /\ i \in 1..Len(d)
           /\ d[i] \in Document
           /\ d[i].type \in StepId /\ d[i].valid \in BOOLEAN /\ d[i].sequence \in 1..MaxDocuments
           /\ d[i].target \in Nat
<1>1. i \in 1..Len(d) /\ d[i] \in Document
  OBVIOUS
<1>2. ASSUME NEW x \in Document
      PROVE  x.type \in StepId /\ x.valid \in BOOLEAN /\ x.sequence \in 1..MaxDocuments /\ x.target \in Nat
  BY DEF Document
<1> QED
  BY <1>1, <1>2

-----------------------------------------------------------------------------
(* LatestRun chooses a document, and only one.                                  *)

\* Among documents there is one that is newer than all the others: it is what
\* selectLatestRun returns.
LEMMA LatestExists ==
    ASSUME NEW d \in Seq(Document), NEW ids \in SUBSET DOMAIN d, ids # {}
    PROVE  /\ LatestRun(d, ids) \in ids
           /\ \A j \in ids \ {LatestRun(d, ids)} : Newer(d, LatestRun(d, ids), j)
<1>1. \A i \in ids : i \in 1..Len(d) /\ d[i].sequence \in 1..MaxDocuments
  BY DocumentFields
<1>2. MaxDocuments \in Nat
  BY BoundAssumption
<1> DEFINE ages == {MaxDocuments - d[i].sequence : i \in ids}
<1>3. ages \in SUBSET Nat /\ ages # {}
  BY <1>1, <1>2
<1>4. PICK age \in ages : \A y \in ages : age <= y
  BY <1>3, LeastNumber
<1> DEFINE oldest == {i \in ids : MaxDocuments - d[i].sequence = age}
<1> DEFINE places == {Len(d) - i : i \in oldest}
<1>5. places \in SUBSET Nat /\ places # {}
  BY <1>1, <1>4
<1>6. PICK place \in places : \A y \in places : place <= y
  BY <1>5, LeastNumber
<1>7. PICK i \in oldest : place = Len(d) - i
  BY <1>6
<1>8. ASSUME NEW j \in ids \ {i}
      PROVE  Newer(d, i, j)
  <2>1. MaxDocuments - d[i].sequence <= MaxDocuments - d[j].sequence
    BY <1>4, <1>7, <1>8
  <2>2. CASE d[i].sequence > d[j].sequence
    BY <2>2 DEF Newer
  <2>3. CASE d[i].sequence = d[j].sequence
    <3>1. j \in oldest
      BY <1>7, <1>8, <2>3
    <3>2. Len(d) - i <= Len(d) - j
      BY <1>6, <1>7, <3>1
    <3> QED
      BY <1>1, <1>7, <1>8, <2>3, <3>2 DEF Newer
  <2> QED
    BY <1>1, <1>2, <1>7, <1>8, <2>1, <2>2, <2>3
<1>9. i \in ids /\ \A j \in ids \ {i} : Newer(d, i, j)
  BY <1>7, <1>8
<1> QED
  BY <1>9 DEF LatestRun

\* A document that is newer than all the others is the one that is returned.
LEMMA LatestUnique ==
    ASSUME NEW d \in Seq(Document), NEW ids \in SUBSET DOMAIN d, NEW i \in ids,
           \A j \in ids \ {i} : Newer(d, i, j)
    PROVE  LatestRun(d, ids) = i
<1> DEFINE l == LatestRun(d, ids)
<1>1. l \in ids /\ \A j \in ids \ {l} : Newer(d, l, j)
  BY LatestExists
<1>2. SUFFICES ASSUME l # i PROVE FALSE
  OBVIOUS
<1>3. Newer(d, l, i) /\ Newer(d, i, l)
  BY <1>1, <1>2
<1>4. /\ i \in Int /\ l \in Int
      /\ d[i].sequence \in Int /\ d[l].sequence \in Int
  BY <1>1, DocumentFields
<1> HIDE DEF l
<1> QED
  BY <1>2, <1>3, <1>4 DEF Newer

\* What is returned is a document or None.
LEMMA LatestTyped ==
    ASSUME NEW d \in Seq(Document), NEW ids \in SUBSET DOMAIN d
    PROVE  /\ LatestRun(d, ids) \in 0..Len(d)
           /\ LatestRun(d, ids) = None <=> ids = {}
           /\ ids # {} => LatestRun(d, ids) \in ids
<1>1. CASE ids = {}
  BY <1>1 DEF LatestRun, None
<1>2. CASE ids # {}
  <2>1. LatestRun(d, ids) \in ids
    BY <1>2, LatestExists
  <2>2. LatestRun(d, ids) \in 1..Len(d)
    BY <2>1
  <2> QED
    BY <1>2, <2>1, <2>2 DEF None
<1> QED
  BY <1>1, <1>2

-----------------------------------------------------------------------------
(* The completed steps are a fixed point: what the loop over the steps computes.  *)

Left(d, s) == Absent(d, s) /\ ~Step[s].required

\* A completed step may be left out, or is satisfied after completed steps.
LEMMA CompletedStep ==
    ASSUME NEW d, NEW s \in Completed(d)
    PROVE  /\ s \in StepId
           /\ Left(d, s) \/ (Satisfied(d, s) /\ Step[s].dependsOn \subseteq Completed(d))
<1> DEFINE optional == {t \in StepId : Absent(d, t) /\ ~Step[t].required}
<1> DEFINE satisfied == {t \in StepId : Satisfied(d, t)}
<1> DEFINE closed == {steps \in SUBSET (optional \cup satisfied) :
                        \A t \in steps : t \in optional \/ Step[t].dependsOn \subseteq steps}
<1>1. Completed(d) = UNION closed
  BY Zenon DEF Completed
<1>2. PICK steps \in closed : s \in steps
  BY <1>1
<1>3. steps \subseteq Completed(d)
  BY <1>1, <1>2
<1>4. s \in optional \cup satisfied
  BY <1>2
<1>5. s \in optional \/ Step[s].dependsOn \subseteq Completed(d)
  BY <1>2, <1>3
<1>6. ASSUME s \in optional PROVE Left(d, s)
  BY <1>6 DEF Left
<1>7. ASSUME s \in satisfied PROVE Satisfied(d, s)
  BY <1>7
<1>8. s \in StepId
  BY <1>4
<1> QED
  BY <1>4, <1>5, <1>6, <1>7, <1>8

\* A step that may be left out is completed.
LEMMA LeftIsCompleted ==
    ASSUME NEW d, NEW s \in StepId, Left(d, s)
    PROVE  s \in Completed(d)
<1> DEFINE optional == {t \in StepId : Absent(d, t) /\ ~Step[t].required}
<1> DEFINE satisfied == {t \in StepId : Satisfied(d, t)}
<1> DEFINE closed == {steps \in SUBSET (optional \cup satisfied) :
                        \A t \in steps : t \in optional \/ Step[t].dependsOn \subseteq steps}
<1>1. Completed(d) = UNION closed
  BY Zenon DEF Completed
<1>2. s \in optional
  BY DEF Left
<1>3. {s} \in closed
  BY <1>2
<1> QED
  BY <1>1, <1>3

\* A satisfied step after completed steps is completed.
LEMMA SatisfiedIsCompleted ==
    ASSUME NEW d, NEW s \in StepId, Satisfied(d, s), Step[s].dependsOn \subseteq Completed(d)
    PROVE  s \in Completed(d)
<1> DEFINE optional == {t \in StepId : Absent(d, t) /\ ~Step[t].required}
<1> DEFINE satisfied == {t \in StepId : Satisfied(d, t)}
<1> DEFINE closed == {steps \in SUBSET (optional \cup satisfied) :
                        \A t \in steps : t \in optional \/ Step[t].dependsOn \subseteq steps}
<1>1. Completed(d) = UNION closed
  BY Zenon DEF Completed
<1> DEFINE more == Completed(d) \cup {s}
<1>2. more \subseteq optional \cup satisfied
  BY <1>1
<1>3. \A t \in more : t \in optional \/ Step[t].dependsOn \subseteq more
  <2>1. \A t \in Completed(d) : t \in optional \/ Step[t].dependsOn \subseteq Completed(d)
    BY <1>1
  <2> QED
    BY <2>1
<1>4. more \in closed
  BY <1>2, <1>3
<1> QED
  BY <1>1, <1>4

-----------------------------------------------------------------------------
(* A step that is not passed asks for something.                                *)

Asking(d, action) == action \in Request /\ action.related <= Len(d)

Kind == {"fix_document", "create_document", "continue_development",
         "return_to_development", "run_audit", "run_validation"}

\* The outcome of a step that waits for something.
Waiting(d, outcome) == Asking(d, outcome.action) /\ outcome.status # "passed"

LEMMA AskingAction ==
    ASSUME NEW d, NEW kind \in Kind, NEW s \in StepId, NEW i \in 0..Len(d)
    PROVE  Asking(d, Action(kind, s, i))
BY DEF Asking, Action, Request, Kind

LEMMA AskingIsSomething ==
    ASSUME NEW d, NEW action, Asking(d, action)
    PROVE  action # NoAction
BY DEF Asking, Request, NoAction

\* Going back to development is always a request.
LEMMA ReturnAsks ==
    ASSUME NEW d, NEW s \in Reviewing, NEW i \in 0..Len(d), NEW status, status # "passed"
    PROVE  Waiting(d, Return(status, s, i))
<1>1. Policy(s).retry \in StepId
  BY DefinitionAssumption
<1>2. Asking(d, Action("return_to_development", Policy(s).retry, i))
  BY <1>1, AskingAction DEF Kind
<1> QED
  BY <1>2 DEF Return, Result, Waiting

LEMMA DeliveryAsks ==
    ASSUME NEW d \in Seq(Document), NEW s \in StepId, Valid(d, s) # {}
    PROVE  Delivery(d, s) = Passed \/ Waiting(d, Delivery(d, s))
<1> DEFINE latest == LatestRun(d, Valid(d, s))
<1> DEFINE again == Action("continue_development", s, latest)
<1>1. Valid(d, s) \in SUBSET DOMAIN d
  BY DEF Valid, OfType
<1>2. latest \in 0..Len(d)
  BY <1>1, LatestTyped
<1>3. Asking(d, again)
  BY <1>2, AskingAction DEF Kind
<1>4. \/ Delivery(d, s) = Passed
      \/ Delivery(d, s) = Result("in_progress", again)
      \/ Delivery(d, s) = Result("blocked", again)
  BY DEF Delivery
<1> HIDE DEF again
<1> QED
  BY <1>3, <1>4 DEF Result, Waiting

LEMMA ReviewAsks ==
    ASSUME NEW d \in Seq(Document), \A i \in DOMAIN d : Known(d[i]),
           NEW s \in Of("review_latest"), NEW target \in 1..Len(d)
    PROVE  \/ /\ ReviewLatest(d, s, target) = Passed
              /\ ReviewsOf(d, s, target) # {}
           \/ Waiting(d, ReviewLatest(d, s, target))
<1> DEFINE review == LatestRun(d, ReviewsOf(d, s, target))
<1> DEFINE stale == StaleFailure(d, s)
<1> DEFINE R == ReviewLatest(d, s, target)
<1>1. s \in Reviewing /\ s \in StepId
  BY DEF Reviewing, Of
<1>2. ReviewsOf(d, s, target) \in SUBSET DOMAIN d /\ Valid(d, s) \in SUBSET DOMAIN d
  BY DEF ReviewsOf, Valid, OfType
<1>3. /\ review \in 0..Len(d)
      /\ review # None => review \in ReviewsOf(d, s, target)
  BY <1>2, LatestTyped
<1>4. stale \in 0..Len(d)
  <2>1. {i \in Valid(d, s) : d[i].verdict \in Policy(s).fail \cup Policy(s).inProgress}
            \in SUBSET DOMAIN d
    BY <1>2
  <2> QED
    BY <2>1, LatestTyped DEF StaleFailure
<1>5. CASE review = None
  <2>1. \/ R = Return("failed", s, stale)
        \/ R = Result("not_started", Action("run_validation", s, target))
    BY <1>5 DEF ReviewLatest
  <2>2. Waiting(d, Return("failed", s, stale))
    BY <1>1, <1>4, ReturnAsks
  <2>3. Asking(d, Action("run_validation", s, target))
    BY <1>1, AskingAction DEF Kind
  <2>4. Waiting(d, Result("not_started", Action("run_validation", s, target)))
    BY <2>3 DEF Result, Waiting
  <2> QED
    BY <2>1, <2>2, <2>3, <2>4
<1>6. CASE review # None
  <2>1. review \in ReviewsOf(d, s, target)
    BY <1>3, <1>6
  <2>2. review \in DOMAIN d /\ d[review].type = s
    BY <2>1 DEF ReviewsOf, Valid, OfType
  <2>3. d[review].verdict \in Policy(s).pass \cup Policy(s).fail \cup Policy(s).inProgress
    BY <2>2 DEF Known
  <2>4. \/ R = Passed
        \/ R = Return("failed", s, review)
        \/ R = Return("in_progress", s, review)
    <3>1. CASE d[review].verdict \in Policy(s).pass
      BY <1>6, <3>1 DEF ReviewLatest
    <3>2. CASE d[review].verdict \notin Policy(s).pass
      BY <1>6, <2>3, <3>2 DEF ReviewLatest
    <3> QED
      BY <3>1, <3>2
  <2>5. /\ Waiting(d, Return("failed", s, review))
        /\ Waiting(d, Return("in_progress", s, review))
    BY <1>1, <1>3, ReturnAsks
  <2> QED
    BY <2>1, <2>4, <2>5
<1> QED
  BY <1>5, <1>6

LEMMA AuditAsks ==
    ASSUME NEW d \in Seq(Document), \A i \in DOMAIN d : Known(d[i]),
           NEW s \in Of("audit_then_fix"), NEW target \in 1..Len(d)
    PROVE  LET audit == LatestRun(d, Applicable(d, s, target)) IN
           \/ /\ AuditThenFix(d, s, target) = Passed
              /\ audit \in Applicable(d, s, target)
              /\ \/ d[audit].verdict \in Policy(s).pass
                 \/ d[audit].verdict = "corrections_required" /\ Corrects(d, target, audit)
           \/ Waiting(d, AuditThenFix(d, s, target))
<1> DEFINE audit == LatestRun(d, Applicable(d, s, target))
<1> DEFINE R == AuditThenFix(d, s, target)
<1>1. s \in Reviewing /\ s \in StepId
  BY DEF Reviewing, Of
<1>2. Applicable(d, s, target) \in SUBSET DOMAIN d
  BY DEF Applicable, Valid, OfType
<1>3. /\ audit \in 0..Len(d)
      /\ audit # None => audit \in Applicable(d, s, target)
  BY <1>2, LatestTyped
<1>4. CASE audit = None
  <2>1. R = Result("not_started", Action("run_audit", s, target))
    BY <1>4 DEF AuditThenFix
  <2>2. Asking(d, Action("run_audit", s, target))
    BY <1>1, AskingAction DEF Kind
  <2>3. Waiting(d, Result("not_started", Action("run_audit", s, target)))
    BY <2>2 DEF Result, Waiting
  <2> QED
    BY <2>1, <2>2, <2>3
<1>5. CASE audit # None
  <2>1. audit \in Applicable(d, s, target)
    BY <1>3, <1>5
  <2>2. audit \in DOMAIN d /\ d[audit].type = s
    BY <2>1 DEF Applicable, Valid, OfType
  <2>3. d[audit].verdict \in Policy(s).pass \cup Policy(s).fail
    BY <2>2 DEF Known
  <2>4. \/ R = Passed /\ d[audit].verdict \in Policy(s).pass
        \/ R = Passed /\ d[audit].verdict = "corrections_required" /\ Corrects(d, target, audit)
        \/ R = Return("failed", s, audit)
    <3>1. CASE d[audit].verdict \in Policy(s).pass /\ d[audit].verdict # "corrections_required"
      BY <1>5, <3>1 DEF AuditThenFix
    <3>2. CASE d[audit].verdict = "corrections_required" /\ d[audit].verdict \notin Policy(s).pass
      BY <1>5, <3>2 DEF AuditThenFix
    <3>3. CASE d[audit].verdict \notin Policy(s).pass /\ d[audit].verdict # "corrections_required"
      <4>1. d[audit].verdict \in Policy(s).fail \ {"corrections_required"}
        BY <2>3, <3>3
      <4> QED
        BY <1>5, <3>3, <4>1 DEF AuditThenFix
    <3>4. CASE d[audit].verdict \in Policy(s).pass /\ d[audit].verdict = "corrections_required"
      BY <1>5, <3>4 DEF AuditThenFix
    <3> QED
      BY <3>1, <3>2, <3>3, <3>4
  <2>5. Waiting(d, Return("failed", s, audit))
    BY <1>1, <1>3, ReturnAsks
  <2> QED
    BY <2>1, <2>4, <2>5
<1> QED
  BY <1>4, <1>5

\* evaluateBusinessPolicy: passed, waiting, or nothing to review yet.
LEMMA OutcomeAsks ==
    ASSUME NEW d \in Seq(Document), \A i \in DOMAIN d : Known(d[i]),
           NEW s \in StepId, Valid(d, s) # {}
    PROVE  \/ Outcome(d, s) = Passed
           \/ Waiting(d, Outcome(d, s))
           \/ Outcome(d, s) = Empty /\ s \in Reviewing /\ Target(d, s) = None
<1>1. Policy(s).type \in {"presence", "delivery", "audit_then_fix", "review_latest"}
  BY DefinitionAssumption
<1>2. Valid(d, Policy(s).target) \in SUBSET DOMAIN d
  BY DEF Valid, OfType
<1>3. Target(d, s) = None \/ Target(d, s) \in 1..Len(d)
  BY <1>2, LatestTyped DEF Target, None
<1>4. CASE Policy(s).type = "presence"
  BY <1>4 DEF Outcome
<1>5. CASE Policy(s).type = "delivery"
  <2>1. s \notin Reviewing
    BY <1>5 DEF Reviewing, Of
  <2>2. Outcome(d, s) = Delivery(d, s)
    BY <1>5, <2>1 DEF Outcome
  <2> QED
    BY <2>2, DeliveryAsks
<1>6. CASE s \in Reviewing /\ Target(d, s) = None
  <2>1. Policy(s).type \in {"audit_then_fix", "review_latest"}
    BY <1>6 DEF Reviewing, Of
  <2>2. Outcome(d, s) = Empty
    BY <1>6, <2>1 DEF Outcome
  <2> QED
    BY <1>6, <2>2
<1>7. CASE Policy(s).type = "audit_then_fix" /\ Target(d, s) # None
  <2>1. Outcome(d, s) = AuditThenFix(d, s, Target(d, s))
    BY <1>7 DEF Outcome
  <2>2. s \in Of("audit_then_fix")
    BY <1>7 DEF Of
  <2> QED
    BY <1>3, <1>7, <2>1, <2>2, AuditAsks
<1>8. CASE Policy(s).type = "review_latest" /\ Target(d, s) # None
  <2>1. Outcome(d, s) = ReviewLatest(d, s, Target(d, s))
    BY <1>8 DEF Outcome
  <2>2. s \in Of("review_latest")
    BY <1>8 DEF Of
  <2> QED
    BY <1>3, <1>8, <2>1, <2>2, ReviewAsks
<1>9. ASSUME Policy(s).type \in {"audit_then_fix", "review_latest"} PROVE s \in Reviewing
  BY <1>9 DEF Reviewing, Of
<1> QED
  BY <1>1, <1>4, <1>5, <1>6, <1>7, <1>8, <1>9

\* What is satisfied by a review has a target, which has a review.
LEMMA ReviewSatisfied ==
    ASSUME NEW d \in Seq(Document), \A i \in DOMAIN d : Known(d[i]),
           NEW s \in Of("review_latest"), Satisfied(d, s)
    PROVE  /\ Target(d, s) \in 1..Len(d)
           /\ ReviewsOf(d, s, Target(d, s)) # {}
<1>1. /\ s \in StepId /\ Policy(s).type = "review_latest" /\ s \in Reviewing
  BY DEF Of, Reviewing
<1>2. Valid(d, s) # {} /\ Outcome(d, s).status = "passed"
  BY DEF Satisfied, Wellformed, Absent
<1>3. Valid(d, Policy(s).target) \in SUBSET DOMAIN d
  BY DEF Valid, OfType
<1>4. Target(d, s) = None \/ Target(d, s) \in 1..Len(d)
  BY <1>3, LatestTyped DEF Target, None
<1>5. Target(d, s) # None
  <2>1. SUFFICES ASSUME Target(d, s) = None PROVE FALSE
    OBVIOUS
  <2>2. Outcome(d, s) = Empty
    BY <1>1, <1>2, <2>1 DEF Outcome
  <2> QED
    BY <1>2, <2>2 DEF Empty, Result
<1>6. Outcome(d, s) = ReviewLatest(d, s, Target(d, s))
  BY <1>1, <1>2, <1>5 DEF Outcome
<1> QED
  BY <1>2, <1>4, <1>5, <1>6, ReviewAsks DEF Waiting

\* What is satisfied by an audit has a target, and the latest audit that counts
\* passed it or is corrected by it.
LEMMA AuditSatisfied ==
    ASSUME NEW d \in Seq(Document), \A i \in DOMAIN d : Known(d[i]),
           NEW s \in Of("audit_then_fix"), Satisfied(d, s)
    PROVE  LET target == Target(d, s)
               audit == LatestRun(d, Applicable(d, s, target))
           IN  /\ target \in 1..Len(d)
               /\ audit \in Applicable(d, s, target)
               /\ \/ d[audit].verdict \in Policy(s).pass
                  \/ d[audit].verdict = "corrections_required" /\ Corrects(d, target, audit)
<1>1. /\ s \in StepId /\ Policy(s).type = "audit_then_fix" /\ s \in Reviewing
  BY DEF Of, Reviewing
<1>2. Valid(d, s) # {} /\ Outcome(d, s).status = "passed"
  BY DEF Satisfied, Wellformed, Absent
<1>3. Valid(d, Policy(s).target) \in SUBSET DOMAIN d
  BY DEF Valid, OfType
<1>4. Target(d, s) = None \/ Target(d, s) \in 1..Len(d)
  BY <1>3, LatestTyped DEF Target, None
<1>5. Target(d, s) # None
  <2>1. SUFFICES ASSUME Target(d, s) = None PROVE FALSE
    OBVIOUS
  <2>2. Outcome(d, s) = Empty
    BY <1>1, <1>2, <2>1 DEF Outcome
  <2> QED
    BY <1>2, <2>2 DEF Empty, Result
<1>6. Outcome(d, s) = AuditThenFix(d, s, Target(d, s))
  BY <1>1, <1>2, <1>5 DEF Outcome
<1> QED
  BY <1>2, <1>4, <1>5, <1>6, AuditAsks DEF Waiting

-----------------------------------------------------------------------------
(* What the report says.                                                        *)

\* NextAction is the action of some step, and none only if no step has one.
LEMMA NextIsOfAStep ==
    ASSUME NEW d, NEW c
    PROVE  /\ NextAction(d, c) = NoAction => \A s \in StepId : ActionOf(d, s, c) = NoAction
           /\ NextAction(d, c) # NoAction => \E s \in StepId : NextAction(d, c) = ActionOf(d, s, c)
<1> DEFINE action == [s \in StepId |-> ActionOf(d, s, c)]
<1> DEFINE asking == {s \in StepId : action[s] # NoAction}
<1> DEFINE first == CHOOSE s \in asking : \A t \in asking : Step[s].order <= Step[t].order
<1>1. NextAction(d, c) = IF asking = {} THEN NoAction ELSE action[first]
  BY DEF NextAction
<1>2. CASE asking = {}
  BY <1>1, <1>2
<1>3. CASE asking # {}
  <2>1. asking \in SUBSET StepId
    OBVIOUS
  <2>2. \E s \in asking : \A t \in asking : Step[s].order <= Step[t].order
    BY <1>3, <2>1, FirstStep
  <2>3. first \in asking
    BY <2>2
  <2> QED
    BY <1>1, <1>3, <2>3
<1> QED
  BY <1>2, <1>3

\* Every action asked for is a request about documents that exist.
LEMMA ActionTyped ==
    ASSUME NEW d \in Seq(Document), \A i \in DOMAIN d : Known(d[i]), NEW s \in StepId, NEW c
    PROVE  ActionOf(d, s, c) = NoAction \/ Asking(d, ActionOf(d, s, c))
<1>1. Asking(d, Action("fix_document", s, None)) /\ Asking(d, Action("create_document", s, None))
  BY AskingAction DEF Kind, None
<1>2. CASE Valid(d, s) = {}
  <2>1. Outcome(d, s).action = NoAction
    BY <1>2 DEF Outcome, Empty, Result
  <2> QED
    BY <1>1, <2>1 DEF ActionOf
<1>3. CASE Valid(d, s) # {}
  <2>1. Outcome(d, s).action = NoAction \/ Asking(d, Outcome(d, s).action)
    BY <1>3, OutcomeAsks DEF Waiting, Passed, Empty, Result
  <2> QED
    BY <1>1, <2>1 DEF ActionOf
<1> QED
  BY <1>2, <1>3

\* When no step asks for anything, every step is completed: the first one that is
\* not would ask.
LEMMA SilenceMeansCompleted ==
    ASSUME NEW d \in Seq(Document), \A i \in DOMAIN d : Known(d[i]),
           NextAction(d, Completed(d)) = NoAction
    PROVE  StepId \subseteq Completed(d)
<1>1. SUFFICES ASSUME StepId \ Completed(d) # {} PROVE FALSE
  OBVIOUS
<1>2. StepId \ Completed(d) \in SUBSET StepId
  OBVIOUS
<1>3. PICK s \in StepId \ Completed(d) :
         \A t \in StepId \ Completed(d) : Step[s].order <= Step[t].order
  BY <1>1, <1>2, FirstStep
<1>4. Step[s].dependsOn \subseteq Completed(d)
  BY <1>3, DefinitionAssumption
<1>5. ActionOf(d, s, Completed(d)) = NoAction
  BY <1>3, NextIsOfAStep
<1>6. ~Left(d, s)
  BY <1>3, LeftIsCompleted
<1>7. Asking(d, Action("fix_document", s, None)) /\ Asking(d, Action("create_document", s, None))
  BY <1>3, AskingAction DEF Kind, None
<1>8. Wellformed(d, s) /\ ~Absent(d, s)
  BY <1>4, <1>5, <1>6, <1>7, AskingIsSomething DEF ActionOf, Left
<1>9. Valid(d, s) # {} /\ Outcome(d, s).action = NoAction
  BY <1>4, <1>5, <1>8 DEF ActionOf, Wellformed, Absent
<1>10. Outcome(d, s) # Passed
  <2>1. SUFFICES ASSUME Outcome(d, s) = Passed PROVE FALSE
    OBVIOUS
  <2>2. Satisfied(d, s)
    BY <1>8, <2>1 DEF Satisfied, Passed, Result
  <2> QED
    BY <1>3, <1>4, <2>2, SatisfiedIsCompleted
<1>11. ~Waiting(d, Outcome(d, s))
  BY <1>9, AskingIsSomething DEF Waiting
<1>12. s \in Reviewing /\ Target(d, s) = None
  BY <1>3, <1>9, <1>10, <1>11, OutcomeAsks
<1> DEFINE t == Policy(s).target
<1>13. t \in Step[s].dependsOn /\ t \in Required
  BY <1>12, PolicyAssumption
<1>14. Valid(d, t) # {}
  BY <1>4, <1>13, CompletedStep DEF Left, Required, Satisfied, Wellformed, Absent
<1>15. Valid(d, t) \in SUBSET DOMAIN d
  BY DEF Valid, OfType
<1> QED
  BY <1>12, <1>14, <1>15, LatestTyped DEF Target

\* A completed report has completed steps, valid documents and sound references.
LEMMA CompletedReport ==
    ASSUME NEW d, Evaluate(d).overall = "completed"
    PROVE  /\ Required \subseteq Completed(d)
           /\ ~Broken(d)
           /\ \A s \in StepId : Wellformed(d, s)
BY DEF Evaluate, Overall

\* A required completed step is satisfied.
LEMMA RequiredIsSatisfied ==
    ASSUME NEW d, NEW s \in Required, s \in Completed(d)
    PROVE  Satisfied(d, s)
BY CompletedStep DEF Left, Required

-----------------------------------------------------------------------------
(* What agents write are documents.                                             *)

\* What the steps of Pipeline keep: the types, and a report that is up to date.
Inv == TypeOK /\ report = Evaluate(docs)

\* A task that may be written is a request.
LEMMA TaskOfWriter ==
    ASSUME TypeOK, NEW a \in Agent, Writing(a)
    PROVE  /\ task[a].action \in Request /\ task[a].action.step \in StepId
           /\ task[a].action.related \in Nat /\ task[a].seen \in 0..Len(docs)
           /\ Len(docs) \in Nat /\ Len(docs) < MaxDocuments
<1>1. task[a] # Idle
  BY DEF Writing, Idle, NoAction
<1>2. task[a] \in [action : Request, seen : Nat]
  BY <1>1 DEF TypeOK
<1>3. task[a].action \in Request /\ task[a].seen \in Nat
  BY <1>2
<1>4. task[a].action.step \in StepId /\ task[a].action.related \in Nat
  BY <1>3 DEF Request
<1>5. docs \in Seq(Document) /\ task[a].seen <= Len(docs)
  BY DEF TypeOK
<1> QED
  BY <1>3, <1>4, <1>5 DEF Writing

LEMMA DraftIsDocument ==
    ASSUME TypeOK, NEW a \in Agent, Writing(a)
    PROVE  Draft(a) \in Document /\ Known(Draft(a)) /\ Draft(a).type = task[a].action.step
<1> DEFINE s == task[a].action.step
<1> DEFINE target == IF s \in Reviewing THEN LatestSeen(a, Policy(s).target) ELSE None
<1> DEFINE corrected == IF s \in Of("delivery") THEN ToAnswer(a) ELSE {}
<1> DEFINE sequence == 1 + Cardinality(OfType(docs, s) \cap Seen(a))
<1> DEFINE dependsOn == ({LatestSeen(a, t) : t \in Step[s].dependsOn}
                          \cup {target, task[a].action.related} \cup corrected) \ {None}
<1> DEFINE verdict == IF s \in Of("presence") THEN "none" ELSE CHOOSE v \in Policy(s).pass : TRUE
<1> DEFINE closes == UNION {{i} \X docs[i].fix : i \in corrected}
<1>1. /\ s \in StepId /\ task[a].action.related \in Nat /\ task[a].seen \in 0..Len(docs)
      /\ Len(docs) \in Nat /\ Len(docs) < MaxDocuments
  BY TaskOfWriter
<1>2. docs \in Seq(Document) /\ MaxDocuments \in Nat
  BY BoundAssumption DEF TypeOK
<1>3. \A t : LatestSeen(a, t) \in Nat
  <2>1. \A t : Valid(docs, t) \cap Seen(a) \in SUBSET DOMAIN docs
    BY DEF Valid, OfType
  <2> QED
    BY <1>2, <2>1, LatestTyped DEF LatestSeen
<1>4. target \in Nat
  BY <1>3 DEF None
<1>5. corrected \subseteq Seen(a) /\ Seen(a) \subseteq 1..Len(docs)
  BY <1>1 DEF ToAnswer, Seen
<1>6. sequence \in 1..MaxDocuments
  <2>1. IsFiniteSet(1..Len(docs)) /\ Cardinality(1..Len(docs)) = Len(docs)
    <3>1. 1 \in Int /\ Len(docs) \in Int
      BY <1>1
    <3>2. /\ IsFiniteSet(1..Len(docs))
          /\ Cardinality(1..Len(docs)) = IF 1 > Len(docs) THEN 0 ELSE Len(docs) - 1 + 1
      BY <3>1, FS_Interval
    <3> QED
      BY <1>1, <3>2
  <2>2. OfType(docs, s) \cap Seen(a) \subseteq 1..Len(docs)
    BY <1>5
  <2>3. /\ IsFiniteSet(OfType(docs, s) \cap Seen(a))
        /\ Cardinality(OfType(docs, s) \cap Seen(a)) <= Len(docs)
    BY <2>1, <2>2, FS_Subset
  <2>4. Cardinality(OfType(docs, s) \cap Seen(a)) \in Nat
    BY <2>3, FS_CardinalityType
  <2> QED
    BY <1>1, <1>2, <2>3, <2>4
<1>7. dependsOn \in SUBSET (Nat \ {None})
  BY <1>1, <1>3, <1>4, <1>5
<1>8. verdict \in Verdict /\ (s \in Reviewing => verdict \in Policy(s).pass)
  <2>1. CASE s \in Of("presence")
    BY <2>1 DEF Verdict, Reviewing, Of
  <2>2. CASE s \notin Of("presence")
    <3>1. Policy(s).pass # {}
      BY <1>1, <2>2, PolicyAssumption
    <3>2. verdict \in Policy(s).pass
      BY <2>2, <3>1
    <3>3. Policy(s).pass \subseteq Verdict
      BY <1>1, <2>2 DEF Verdict
    <3> QED
      BY <3>2, <3>3
  <2> QED
    BY <2>1, <2>2
<1>9. closes \in SUBSET (Nat \X Finding)
  <2>1. \A i \in corrected : i \in Nat /\ docs[i].fix \in SUBSET Finding
    <3>1. \A i \in corrected : i \in Nat /\ docs[i] \in Document
      BY <1>1, <1>2, <1>5
    <3> QED
      BY <3>1 DEF Document
  <2> QED
    BY <2>1
<1>10. Draft(a) = [type |-> s, valid |-> TRUE, sequence |-> sequence, dependsOn |-> dependsOn,
                   target |-> target, verdict |-> verdict, fix |-> {}, closes |-> closes]
  BY Zenon DEF Draft
<1> HIDE DEF s, target, corrected, sequence, dependsOn, verdict, closes
<1>11. Draft(a) \in Document
  BY <1>1, <1>4, <1>6, <1>7, <1>8, <1>9, <1>10 DEF Document
<1>12. Draft(a).type = s /\ Draft(a).verdict = verdict
  BY <1>10
<1>13. Known(Draft(a))
  BY <1>8, <1>12 DEF Known, Reviewing
<1> QED
  BY <1>11, <1>12, <1>13 DEF s

\* The verdicts of a policy are verdicts.
LEMMA VerdictsOfPolicy ==
    /\ \A s \in StepId \ Of("presence") : Policy(s).pass \subseteq Verdict
    /\ \A s \in Reviewing : Policy(s).fail \subseteq Verdict
    /\ \A s \in Of("delivery") \cup Of("review_latest") : Policy(s).inProgress \subseteq Verdict
    /\ {"none", "blocked"} \subseteq Verdict
<1>1. ASSUME NEW s \in StepId \ Of("presence") PROVE Policy(s).pass \subseteq Verdict
  BY DEF Verdict
<1>2. ASSUME NEW s \in Reviewing PROVE Policy(s).fail \subseteq Verdict
  BY DEF Verdict
<1>3. ASSUME NEW s \in Of("delivery") \cup Of("review_latest")
      PROVE  Policy(s).inProgress \subseteq Verdict
  BY DEF Verdict
<1>4. {"none", "blocked"} \subseteq Verdict
  BY DEF Verdict
<1> QED
  BY <1>1, <1>2, <1>3, <1>4

LEMMA AdverseIsDocument ==
    ASSUME NEW d \in Document, NEW e \in Adverse(d)
    PROVE  e \in Document /\ Known(e)
<1>1. PICK v \in Verdicts(d.type), fix \in SUBSET Finding :
         e = [d EXCEPT !.verdict = v, !.fix = fix]
  <2>1. PICK v \in Verdicts(d.type) :
           e \in {[d EXCEPT !.verdict = v, !.fix = fix] :
                     fix \in CASE v = "corrections_required" -> SUBSET Finding \ {{}}
                              [] d.type \in Of("audit_then_fix") /\ v = "blocked" -> SUBSET Finding
                              [] OTHER -> {{}}}
    BY DEF Adverse
  <2>2. (CASE v = "corrections_required" -> SUBSET Finding \ {{}}
           [] d.type \in Of("audit_then_fix") /\ v = "blocked" -> SUBSET Finding
           [] OTHER -> {{}}) \subseteq SUBSET Finding
    OBVIOUS
  <2> QED
    BY <2>1, <2>2
<1>2. d.type \in StepId /\ Policy(d.type).type \in
        {"presence", "delivery", "audit_then_fix", "review_latest"}
  BY DefinitionAssumption DEF Document
<1>3. v \in Verdict
  <2> DEFINE s == d.type
  <2>1. CASE Policy(s).type = "presence"
    BY <1>1, <1>2, <2>1 DEF Verdicts, Of
  <2>2. CASE Policy(s).type = "delivery"
    <3>1. s \in Of("delivery") /\ v \in Policy(s).inProgress \cup {"blocked"}
      BY <1>1, <1>2, <2>2 DEF Verdicts, Of
    <3> QED
      BY <3>1, VerdictsOfPolicy
  <2>3. CASE Policy(s).type = "audit_then_fix"
    <3>1. s \in Reviewing /\ v \in Policy(s).fail
      BY <1>1, <1>2, <2>3 DEF Verdicts, Of, Reviewing
    <3> QED
      BY <3>1, VerdictsOfPolicy
  <2>4. CASE Policy(s).type = "review_latest"
    <3>1. s \in Of("review_latest") /\ s \in Reviewing
      BY <1>2, <2>4 DEF Of, Reviewing
    <3>2. v \in Policy(s).fail \cup Policy(s).inProgress
      BY <1>1, <1>2, <2>4 DEF Verdicts, Of
    <3> QED
      BY <3>1, <3>2, VerdictsOfPolicy
  <2> QED
    BY <1>2, <2>1, <2>2, <2>3, <2>4
<1>4. e \in Document
  BY <1>1, <1>3 DEF Document
<1>5. e.type = d.type /\ e.verdict = v
  BY <1>1 DEF Document
<1>6. Known(e)
  BY <1>1, <1>2, <1>5 DEF Known, Verdicts, Of
<1> QED
  BY <1>4, <1>6

LEMMA CarelessIsDocument ==
    ASSUME TypeOK, NEW d \in Document, Known(d), NEW e \in Careless(d)
    PROVE  e \in Document /\ Known(e)
<1>1. Unborn \subseteq Nat \ {None}
  <2>1. Len(docs) \in Nat
    BY DEF TypeOK
  <2> QED
    BY <2>1 DEF Unborn, None
<1>2. /\ d.dependsOn \in SUBSET (Nat \ {None}) /\ d.closes \in SUBSET (Nat \X Finding)
      /\ d.sequence \in 1..MaxDocuments
  BY DEF Document
<1>3. \/ e = [d EXCEPT !.valid = FALSE]
      \/ e = [d EXCEPT !.sequence = 1]
      \/ \E c \in d.closes : e = [d EXCEPT !.closes = @ \ {c}]
      \/ \E i \in d.dependsOn : e = [d EXCEPT !.dependsOn = @ \ {i}]
      \/ \E i \in Unborn : e = [d EXCEPT !.dependsOn = @ \cup {i}]
      \/ \E i \in Unborn : e = [d EXCEPT !.target = i, !.dependsOn = (@ \ {d.target}) \cup {i}]
  BY DEF Careless
<1>4. 1 \in 1..MaxDocuments
  BY <1>2, BoundAssumption
<1>5. e \in Document
  <2>1. CASE e = [d EXCEPT !.valid = FALSE]
    BY <2>1 DEF Document
  <2>2. CASE e = [d EXCEPT !.sequence = 1]
    BY <1>4, <2>2 DEF Document
  <2>3. ASSUME NEW c \in d.closes, e = [d EXCEPT !.closes = @ \ {c}] PROVE e \in Document
    <3>1. d.closes \ {c} \in SUBSET (Nat \X Finding)
      BY <1>2
    <3> QED
      BY <2>3, <3>1 DEF Document
  <2>4. ASSUME NEW deps \in SUBSET (Nat \ {None}), e = [d EXCEPT !.dependsOn = deps]
        PROVE  e \in Document
    BY <2>4 DEF Document
  <2>5. ASSUME NEW deps \in SUBSET (Nat \ {None}), NEW i \in Nat,
               e = [d EXCEPT !.target = i, !.dependsOn = deps]
        PROVE  e \in Document
    BY <2>5 DEF Document
  <2>6. ASSUME NEW i \in d.dependsOn, e = [d EXCEPT !.dependsOn = @ \ {i}] PROVE e \in Document
    <3>1. d.dependsOn \ {i} \in SUBSET (Nat \ {None})
      BY <1>2
    <3> QED
      BY <2>4, <2>6, <3>1
  <2>7. ASSUME NEW i \in Unborn, e = [d EXCEPT !.dependsOn = @ \cup {i}] PROVE e \in Document
    <3>1. d.dependsOn \cup {i} \in SUBSET (Nat \ {None})
      BY <1>1, <1>2
    <3> QED
      BY <2>4, <2>7, <3>1
  <2>8. ASSUME NEW i \in Unborn,
               e = [d EXCEPT !.target = i, !.dependsOn = (@ \ {d.target}) \cup {i}]
        PROVE  e \in Document
    <3>1. (d.dependsOn \ {d.target}) \cup {i} \in SUBSET (Nat \ {None}) /\ i \in Nat
      BY <1>1, <1>2
    <3> QED
      BY <2>5, <2>8, <3>1
  <2> QED
    BY <1>3, <2>1, <2>2, <2>3, <2>6, <2>7, <2>8
<1>6. e.type = d.type /\ e.verdict = d.verdict
  BY <1>3 DEF Document
<1> QED
  BY <1>5, <1>6 DEF Known

-----------------------------------------------------------------------------
(* The steps of Pipeline.                                                       *)

\* A document more, or the documents of a step made valid, are documents.
LEMMA Appended ==
    ASSUME TypeOK, NEW d \in Document, Known(d), NEW ds, ds = Append(docs, d)
    PROVE  /\ ds \in Seq(Document) /\ Len(ds) = Len(docs) + 1
           /\ \A i \in DOMAIN ds : Known(ds[i])
<1>1. docs \in Seq(Document) /\ \A i \in DOMAIN docs : Known(docs[i])
  BY DEF TypeOK
<1>2. ds \in Seq(Document) /\ Len(ds) = Len(docs) + 1
  BY <1>1
<1>3. ASSUME NEW i \in DOMAIN ds PROVE Known(ds[i])
  <2>1. CASE i = Len(docs) + 1
    BY <1>1, <2>1
  <2>2. CASE i \in DOMAIN docs
    BY <1>1, <2>2
  <2> QED
    BY <1>1, <1>2, <1>3, <2>1, <2>2
<1> QED
  BY <1>2, <1>3

LEMMA Repaired ==
    ASSUME TypeOK, NEW s, NEW ds,
           ds = [i \in DOMAIN docs |-> IF docs[i].type = s THEN [docs[i] EXCEPT !.valid = TRUE]
                                       ELSE docs[i]]
    PROVE  /\ ds \in Seq(Document) /\ Len(ds) = Len(docs)
           /\ \A i \in DOMAIN ds : Known(ds[i])
<1>1. docs \in Seq(Document) /\ \A i \in DOMAIN docs : Known(docs[i])
  BY DEF TypeOK
<1>2. ASSUME NEW d \in Document, Known(d)
      PROVE  [d EXCEPT !.valid = TRUE] \in Document /\ Known([d EXCEPT !.valid = TRUE])
  <2>1. [d EXCEPT !.valid = TRUE] \in Document
    BY DEF Document
  <2>2. /\ [d EXCEPT !.valid = TRUE].type = d.type
        /\ [d EXCEPT !.valid = TRUE].verdict = d.verdict
    BY DEF Document
  <2> QED
    BY <1>2, <2>1, <2>2 DEF Known
<1>3. DOMAIN ds = 1..Len(docs) /\ Len(docs) \in Nat
  BY <1>1
<1>4. ASSUME NEW i \in 1..Len(docs) PROVE ds[i] \in Document /\ Known(ds[i])
  <2>1. docs[i] \in Document /\ Known(docs[i])
    BY <1>1
  <2>2. ds[i] = docs[i] \/ ds[i] = [docs[i] EXCEPT !.valid = TRUE]
    <3>1. i \in DOMAIN docs
      BY <1>1
    <3>2. ds[i] = IF docs[i].type = s THEN [docs[i] EXCEPT !.valid = TRUE] ELSE docs[i]
      BY <3>1, Zenon
    <3> QED
      BY <3>2, Zenon
  <2> QED
    BY <1>2, <2>1, <2>2
<1>5. ds \in [1..Len(docs) -> Document]
  BY <1>3, <1>4
<1>6. ds \in Seq(Document) /\ Len(ds) = Len(docs)
  BY <1>3, <1>5
<1> QED
  BY <1>3, <1>4, <1>6

\* What is told to an agent is a request about documents that exist.
LEMMA NextTyped ==
    ASSUME TypeOK, report = Evaluate(docs), report.next # NoAction
    PROVE  report.next \in Request /\ report.next.related <= Len(docs)
<1>1. report.next = NextAction(docs, Completed(docs))
  BY DEF Evaluate
<1>2. PICK s \in StepId : report.next = ActionOf(docs, s, Completed(docs))
  BY <1>1, NextIsOfAStep
<1>3. docs \in Seq(Document) /\ \A i \in DOMAIN docs : Known(docs[i])
  BY DEF TypeOK
<1> QED
  BY <1>2, <1>3, ActionTyped DEF Asking

\* Where the documents of a writing step come from.
LEMMA Written ==
    ASSUME TypeOK, NEW a \in Agent, Write(a) \/ WritePoorly(a)
    PROVE  \E d \in Document : Known(d) /\ docs' = Append(docs, d)
<1>1. Writing(a)
  BY DEF Write, WritePoorly
<1>2. Draft(a) \in Document /\ Known(Draft(a))
  BY <1>1, DraftIsDocument
<1>3. CASE Write(a)
  BY <1>2, <1>3 DEF Write, Leave
<1>4. CASE WritePoorly(a)
  <2>1. PICK d \in Adverse(Draft(a)) \cup Careless(Draft(a)) : docs' = Append(docs, d)
    BY <1>4 DEF WritePoorly, Leave
  <2>2. d \in Document /\ Known(d)
    BY <1>2, <2>1, AdverseIsDocument, CarelessIsDocument
  <2> QED
    BY <2>1, <2>2
<1> QED
  BY <1>3, <1>4

LEMMA InvInit == Init => Inv
<1> SUFFICES ASSUME Init PROVE Inv
  OBVIOUS
<1>1. docs = <<>> /\ docs \in Seq(Document) /\ DOMAIN docs = {} /\ Len(docs) = 0
  BY DEF Init
<1>2. \A a \in Agent : task[a].seen = 0 /\ task[a].action.related = 0
  BY DEF Init, Idle, NoAction, None
<1>3. task \in [Agent -> {Idle} \cup [action : Request, seen : Nat]]
  BY DEF Init
<1>4. setbacks \in 0..MaxSetbacks /\ visits \in 0..MaxVisits
  BY BoundAssumption DEF Init
<1>5. report = Evaluate(docs)
  BY DEF Init
<1> QED
  BY <1>1, <1>2, <1>3, <1>4, <1>5 DEF Inv, TypeOK

\* The agent that is done is idle, the others have seen what is still there.
LEMMA TasksAfter ==
    ASSUME TypeOK, NEW a \in Agent, task' = [task EXCEPT ![a] = Idle],
           Len(docs') \in Nat, Len(docs) <= Len(docs')
    PROVE  /\ task' \in [Agent -> {Idle} \cup [action : Request, seen : Nat]]
           /\ \A b \in Agent : /\ task'[b].seen <= Len(docs')
                               /\ task'[b].action.related <= task'[b].seen
<1>1. /\ task \in [Agent -> {Idle} \cup [action : Request, seen : Nat]]
      /\ docs \in Seq(Document)
      /\ \A b \in Agent : task[b].seen <= Len(docs) /\ task[b].action.related <= task[b].seen
  BY DEF TypeOK
<1>2. task' \in [Agent -> {Idle} \cup [action : Request, seen : Nat]]
  BY <1>1
<1>3. Idle.seen = 0 /\ Idle.action.related = 0
  BY DEF Idle, NoAction, None
<1>4. \A b \in Agent : task[b].seen \in Nat
  BY <1>1, <1>3
<1>5. ASSUME NEW b \in Agent
      PROVE  task'[b].seen <= Len(docs') /\ task'[b].action.related <= task'[b].seen
  <2>1. CASE b = a
    BY <1>1, <1>3, <2>1
  <2>2. CASE b # a
    BY <1>1, <1>4, <2>2
  <2> QED
    BY <2>1, <2>2
<1> QED
  BY <1>2, <1>5

LEMMA InvNext == Inv /\ [Next]_vars => Inv'
<1> SUFFICES ASSUME Inv, [Next]_vars PROVE Inv'
  OBVIOUS
<1> USE DEF Inv
<1>1. ASSUME NEW a \in Agent, Ask(a) PROVE Inv'
  <2>1. report.next \in Request /\ report.next.related <= Len(docs)
    BY <1>1, NextTyped DEF Ask
  <2>2. docs \in Seq(Document) /\ Len(docs) \in Nat /\ docs' = docs /\ report' = report
    BY <1>1 DEF Ask, TypeOK
  <2>3. task' = [task EXCEPT ![a] = [action |-> report.next, seen |-> Len(docs)]]
    BY <1>1 DEF Ask
  <2>4. /\ task \in [Agent -> {Idle} \cup [action : Request, seen : Nat]]
        /\ \A b \in Agent : task[b].seen <= Len(docs) /\ task[b].action.related <= task[b].seen
    BY DEF TypeOK
  <2>5. task' \in [Agent -> {Idle} \cup [action : Request, seen : Nat]]
    BY <2>1, <2>2, <2>3, <2>4
  <2>6. ASSUME NEW b \in Agent
        PROVE  task'[b].seen <= Len(docs') /\ task'[b].action.related <= task'[b].seen
    <3>1. CASE b = a
      BY <2>1, <2>2, <2>3, <2>4, <3>1
    <3>2. CASE b # a
      BY <2>2, <2>3, <2>4, <3>2
    <3> QED
      BY <3>1, <3>2
  <2>7. setbacks' \in 0..MaxSetbacks
    BY <1>1 DEF Ask, TypeOK
  <2>8. visits' \in 0..MaxVisits
    <3>1. visits \in 0..MaxVisits /\ (visits' = visits \/ (visits' = visits + 1 /\ visits < MaxVisits))
      BY <1>1 DEF Ask, TypeOK
    <3> QED
      BY <3>1, BoundAssumption
  <2>9. TypeOK'
    BY <2>2, <2>5, <2>6, <2>7, <2>8 DEF TypeOK
  <2> QED
    BY <2>2, <2>9
<1>2. ASSUME NEW a \in Agent, Write(a) \/ WritePoorly(a) PROVE Inv'
  <2>1. PICK d \in Document : Known(d) /\ docs' = Append(docs, d)
    BY <1>2, Written
  <2>2. /\ docs' \in Seq(Document) /\ Len(docs') = Len(docs) + 1
        /\ \A i \in DOMAIN docs' : Known(docs'[i])
    BY <2>1, Appended
  <2>3. report' = Evaluate(docs') /\ task' = [task EXCEPT ![a] = Idle]
    BY <1>2 DEF Write, WritePoorly, Leave
  <2>4. TypeOK /\ Len(docs') \in Nat /\ Len(docs) <= Len(docs')
    <3>1. Len(docs) \in Nat
      BY DEF TypeOK
    <3> QED
      BY <2>2, <3>1
  <2>5. /\ task' \in [Agent -> {Idle} \cup [action : Request, seen : Nat]]
        /\ \A b \in Agent : /\ task'[b].seen <= Len(docs')
                            /\ task'[b].action.related <= task'[b].seen
    BY <2>3, <2>4, TasksAfter
  <2>6. setbacks' \in 0..MaxSetbacks /\ visits' \in 0..MaxVisits
    <3>1. /\ setbacks \in 0..MaxSetbacks /\ visits' = visits /\ visits \in 0..MaxVisits
          /\ setbacks' = setbacks \/ (setbacks' = setbacks + 1 /\ setbacks < MaxSetbacks)
      BY <1>2 DEF Write, WritePoorly, TypeOK
    <3> QED
      BY <3>1, BoundAssumption
  <2>7. TypeOK'
    BY <2>2, <2>5, <2>6 DEF TypeOK
  <2> QED
    BY <2>3, <2>7
<1>3. ASSUME NEW a \in Agent, Fix(a) PROVE Inv'
  <2>1. docs' = [i \in DOMAIN docs |-> IF docs[i].type = task[a].action.step
                                       THEN [docs[i] EXCEPT !.valid = TRUE] ELSE docs[i]]
    BY <1>3 DEF Fix, Leave
  <2>2. /\ docs' \in Seq(Document) /\ Len(docs') = Len(docs)
        /\ \A i \in DOMAIN docs' : Known(docs'[i])
    BY <2>1, Repaired
  <2>3. report' = Evaluate(docs') /\ task' = [task EXCEPT ![a] = Idle]
    BY <1>3 DEF Fix, Leave
  <2>4. TypeOK /\ Len(docs') \in Nat /\ Len(docs) <= Len(docs')
    <3>1. Len(docs) \in Nat
      BY DEF TypeOK
    <3> QED
      BY <2>2, <3>1
  <2>5. /\ task' \in [Agent -> {Idle} \cup [action : Request, seen : Nat]]
        /\ \A b \in Agent : /\ task'[b].seen <= Len(docs')
                            /\ task'[b].action.related <= task'[b].seen
    BY <2>3, <2>4, TasksAfter
  <2>6. setbacks' \in 0..MaxSetbacks /\ visits' \in 0..MaxVisits
    BY <1>3 DEF Fix, TypeOK
  <2>7. TypeOK'
    BY <2>2, <2>5, <2>6 DEF TypeOK
  <2> QED
    BY <2>3, <2>7
<1>4. CASE UNCHANGED vars
  <2>1. TypeOK'
    BY <1>4 DEF vars, TypeOK
  <2> QED
    BY <1>4, <2>1 DEF vars
<1> QED
  BY <1>1, <1>2, <1>3, <1>4 DEF Next

LEMMA InvAlways == Spec => []Inv
<1>1. Init => Inv
  BY InvInit
<1>2. Inv /\ [Next]_vars => Inv'
  BY InvNext
<1> QED
  BY <1>1, <1>2, PTL DEF Spec

\* The documents keep their shape, a verdict of their policy and consistent tasks.
THEOREM TypeCorrect == Spec => []TypeOK
<1>1. Inv => TypeOK
  BY DEF Inv
<1> QED
  BY <1>1, InvAlways, PTL

\* For every pipeline and every history of its documents: the guidance falls
\* silent only when every step, and so every required one, is completed.
THEOREM SilentWhenComplete == Spec => []StopsOnlyWhenComplete
<1>1. Inv => StopsOnlyWhenComplete
  <2> SUFFICES ASSUME Inv, report.next = NoAction PROVE Required \subseteq report.completed
    BY DEF StopsOnlyWhenComplete
  <2>1. NextAction(docs, Completed(docs)) = NoAction /\ report.completed = Completed(docs)
    BY DEF Inv, Evaluate
  <2>2. docs \in Seq(Document) /\ \A i \in DOMAIN docs : Known(docs[i])
    BY DEF Inv, TypeOK
  <2>3. StepId \subseteq Completed(docs)
    BY <2>1, <2>2, SilenceMeansCompleted
  <2> QED
    BY <2>1, <2>3 DEF Required
<1> QED
  BY <1>1, InvAlways, PTL

\* For every pipeline: a completed report leaves no demand of an audit unsettled.
THEOREM AuditsAreSettled == Spec => []DemandsSettled
<1>1. Inv => DemandsSettled
  <2> SUFFICES ASSUME Inv, report.overall = "completed",
                      NEW s \in Required \cap Of("audit_then_fix"),
                      NEW audit \in Applicable(docs, s, Target(docs, s)),
                      docs[audit].verdict = "corrections_required"
               PROVE  \/ \A f \in docs[audit].fix :
                            \E r \in Valid(docs, Policy(s).target) : <<audit, f>> \in docs[r].closes
                      \/ \E later \in Applicable(docs, s, Target(docs, s)) :
                            Newer(docs, later, audit)
    BY DEF DemandsSettled
  <2> DEFINE target == Target(docs, s)
  <2> DEFINE counting == Applicable(docs, s, target)
  <2> DEFINE latest == LatestRun(docs, counting)
  <2>1. docs \in Seq(Document) /\ \A i \in DOMAIN docs : Known(docs[i])
    BY DEF Inv, TypeOK
  <2>2. Evaluate(docs).overall = "completed"
    BY DEF Inv
  <2>3. Satisfied(docs, s)
    BY <2>2, CompletedReport, RequiredIsSatisfied
  <2>4. /\ target \in 1..Len(docs) /\ latest \in counting
        /\ \/ docs[latest].verdict \in Policy(s).pass
           \/ docs[latest].verdict = "corrections_required" /\ Corrects(docs, target, latest)
    BY <2>1, <2>3, AuditSatisfied
  <2>5. CASE latest = audit
    <3>1. Corrects(docs, target, audit)
      BY <2>4, <2>5, PolicyAssumption
    <3>2. Valid(docs, Policy(s).target) \in SUBSET DOMAIN docs
      BY DEF Valid, OfType
    <3>3. target \in Valid(docs, Policy(s).target)
      BY <2>1, <2>4, <3>2, LatestTyped DEF Target, None
    <3> QED
      BY <3>1, <3>3 DEF Corrects
  <2>6. CASE latest # audit
    <3>1. counting \in SUBSET DOMAIN docs
      BY DEF Applicable, Valid, OfType
    <3>2. Newer(docs, latest, audit)
      BY <2>1, <2>6, <3>1, LatestExists
    <3> QED
      BY <2>4, <3>2
  <2> QED
    BY <2>5, <2>6
<1> QED
  BY <1>1, InvAlways, PTL

-----------------------------------------------------------------------------
(* A delivery reopens a completed pipeline.                                     *)

\* Without broken references a review names a document that exists.
LEMMA ReviewedExists ==
    ASSUME NEW d \in Seq(Document), ~Broken(d), NEW i \in DOMAIN d, d[i].type \in Reviewing
    PROVE  d[i].target \in DOMAIN d
<1>1. ~Dangling(d) /\ ~Unrelated(d)
  BY DEF Broken
<1>2. d[i].target \in d[i].dependsOn
  BY <1>1 DEF Unrelated
<1>3. d[i].dependsOn \subseteq DOMAIN d \ {i}
  BY <1>1 DEF Dangling
<1> QED
  BY <1>2, <1>3

\* A new document that becomes the target of a review has none yet: a review
\* that named it before would have been a broken reference.
LEMMA NewTargetIsUnreviewed ==
    ASSUME NEW d \in Seq(Document), NEW x \in Document,
           NEW s \in Of("review_latest"), ~Broken(d),
           NEW e, e = Append(d, x), Target(e, s) # Target(d, s), Target(e, s) # None
    PROVE  ReviewsOf(e, s, Target(e, s)) = {}
<1> DEFINE t == Policy(s).target
<1> DEFINE n == Target(e, s)
<1>1. s \in Reviewing /\ s \in StepId
  BY DEF Reviewing, Of
<1>2. t \in StepId /\ t # s
  <2>1. t \in Step[s].dependsOn
    BY <1>1, PolicyAssumption
  <2>2. Step[s].dependsOn \subseteq {u \in StepId : Step[u].order < Step[s].order}
    BY <1>1, DefinitionAssumption
  <2>3. Step[t].order < Step[s].order /\ t \in StepId
    BY <2>1, <2>2
  <2>4. Step[s].order \in Nat
    BY <1>1, DefinitionAssumption
  <2> QED
    BY <2>3, <2>4
<1>3. /\ e \in Seq(Document) /\ Len(e) = Len(d) + 1 /\ Len(d) \in Nat
      /\ DOMAIN d = 1..Len(d) /\ DOMAIN e = 1..(Len(d) + 1)
      /\ e[Len(d) + 1] = x
      /\ \A i \in DOMAIN d : e[i] = d[i]
  OBVIOUS
<1>4. \A u : \A i \in Valid(e, u) \ {Len(d) + 1} : i \in Valid(d, u)
  BY <1>3 DEF Valid, OfType
<1>5. \A u : \A i \in Valid(d, u) : i \in Valid(e, u) /\ i \in DOMAIN d
  BY <1>3 DEF Valid, OfType
<1>6. \A u : Valid(e, u) \in SUBSET DOMAIN e /\ Valid(d, u) \in SUBSET DOMAIN d
  BY DEF Valid, OfType
<1>7. Valid(e, t) # {}
  BY <1>3, <1>6, LatestTyped DEF Target
<1>8. n \in Valid(e, t) /\ \A j \in Valid(e, t) \ {n} : Newer(e, n, j)
  BY <1>3, <1>6, <1>7, LatestExists DEF Target
<1>9. n = Len(d) + 1
  <2>1. SUFFICES ASSUME n # Len(d) + 1 PROVE FALSE
    OBVIOUS
  <2>2. n \in Valid(d, t)
    BY <1>4, <1>8, <2>1
  <2>3. \A j \in Valid(d, t) \ {n} : Newer(d, n, j)
    BY <1>3, <1>5, <1>8, <2>2 DEF Newer
  <2>4. Target(d, s) = n
    BY <1>6, <2>2, <2>3, LatestUnique DEF Target
  <2> QED
    BY <2>4
<1>10. x.type = t
  BY <1>3, <1>8, <1>9 DEF Valid, OfType
<1>11. SUFFICES ASSUME NEW r \in ReviewsOf(e, s, n) PROVE FALSE
  OBVIOUS
<1>12. r \in Valid(e, s) /\ e[r].target = n
  BY <1>11 DEF ReviewsOf
<1>13. r # Len(d) + 1
  BY <1>2, <1>3, <1>10, <1>12 DEF Valid, OfType
<1>14. r \in DOMAIN d /\ d[r].type = s
  BY <1>4, <1>12, <1>13 DEF Valid, OfType
<1>15. d[r].target \in DOMAIN d
  BY <1>1, <1>14, ReviewedExists
<1> QED
  BY <1>3, <1>9, <1>12, <1>14, <1>15

\* Repairing what needs no repair changes nothing.
LEMMA NothingToRepair ==
    ASSUME NEW d \in Seq(Document), \A s \in StepId : Wellformed(d, s), NEW s, NEW e,
           e = [i \in DOMAIN d |-> IF d[i].type = s THEN [d[i] EXCEPT !.valid = TRUE] ELSE d[i]]
    PROVE  e = d
<1>1. ASSUME NEW i \in DOMAIN d PROVE d[i] \in Document /\ d[i].valid = TRUE
  <2>1. d[i] \in Document /\ d[i].type \in StepId /\ d[i].valid \in BOOLEAN
    BY DocumentFields
  <2>2. i \in Valid(d, d[i].type)
    BY <2>1 DEF Wellformed, OfType
  <2> QED
    BY <2>1, <2>2 DEF Valid
<1>2. ASSUME NEW x \in Document, x.valid = TRUE PROVE [x EXCEPT !.valid = TRUE] = x
  BY <1>2 DEF Document
<1>3. ASSUME NEW i \in DOMAIN d PROVE e[i] = d[i]
  <2>1. [d[i] EXCEPT !.valid = TRUE] = d[i]
    BY <1>1, <1>2
  <2>2. e[i] = IF d[i].type = s THEN [d[i] EXCEPT !.valid = TRUE] ELSE d[i]
    BY Zenon
  <2> QED
    BY <2>1, <2>2
<1>4. DOMAIN e = DOMAIN d
  OBVIOUS
<1>5. d = [i \in DOMAIN d |-> d[i]]
  OBVIOUS
<1> QED
  BY <1>3, <1>4, <1>5

\* For every pipeline: a delivery that becomes what a required review has to judge
\* reopens a completed pipeline, whatever documents were written before.
THEOREM DeliveryAlwaysReopens == Spec => DeliveryReopens
<1> DEFINE Moved == \E s \in Required \cap Of("review_latest") : Target(docs', s) # Target(docs, s)
<1>1. ASSUME Inv, Inv', [Next]_vars, report.overall = "completed", Moved
      PROVE  report'.overall # "completed"
  <2>1. docs \in Seq(Document) /\ report = Evaluate(docs)
    BY <1>1 DEF Inv, TypeOK
  <2>2. docs' \in Seq(Document) /\ (\A i \in DOMAIN docs' : Known(docs'[i]))
        /\ report' = Evaluate(docs')
    BY <1>1 DEF Inv, TypeOK
  <2>3. ~Broken(docs) /\ \A s \in StepId : Wellformed(docs, s)
    BY <1>1, <2>1, CompletedReport
  <2>4. PICK s \in Required \cap Of("review_latest") : Target(docs', s) # Target(docs, s)
    BY <1>1
  <2>5. docs' # docs
    BY <2>4
  <2>6. \E x \in Document : docs' = Append(docs, x)
    <3>1. ASSUME NEW a \in Agent, Ask(a) PROVE FALSE
      BY <2>5, <3>1 DEF Ask
    <3>2. ASSUME NEW a \in Agent, Fix(a) PROVE FALSE
      BY <2>1, <2>3, <2>5, <3>2, NothingToRepair DEF Fix, Leave
    <3>3. ASSUME NEW a \in Agent, Write(a) \/ WritePoorly(a)
          PROVE  \E x \in Document : docs' = Append(docs, x)
      BY <1>1, <3>3, Written DEF Inv
    <3>4. ASSUME UNCHANGED vars PROVE FALSE
      BY <2>5, <3>4 DEF vars
    <3> QED
      BY <1>1, <3>1, <3>2, <3>3, <3>4 DEF Next
  <2>7. SUFFICES ASSUME report'.overall = "completed" PROVE FALSE
    OBVIOUS
  <2>8. Satisfied(docs', s)
    BY <2>2, <2>7, CompletedReport, RequiredIsSatisfied
  <2>9. Target(docs', s) \in 1..Len(docs') /\ ReviewsOf(docs', s, Target(docs', s)) # {}
    BY <2>2, <2>8, ReviewSatisfied
  <2>10. Target(docs', s) # None
    BY <2>9 DEF None
  <2> QED
    BY <2>1, <2>3, <2>4, <2>6, <2>9, <2>10, NewTargetIsUnreviewed
<1>2. Inv /\ Inv' /\ [Next]_vars =>
        [report.overall = "completed" /\ Moved => report'.overall # "completed"]_vars
  BY <1>1
<1> QED
  BY <1>2, InvAlways, PTL DEF Spec, DeliveryReopens

-----------------------------------------------------------------------------
(* What a document follows up, directly or not.                                 *)

\* A set of numbers that has 0, and with a number the next one, has all.
LEMMA Counting ==
    ASSUME NEW S, 0 \in S, \A n \in Nat : n \in S => n + 1 \in S
    PROVE  Nat \subseteq S
<1> SUFFICES ASSUME Nat \ S # {} PROVE FALSE
  OBVIOUS
<1>1. PICK x \in Nat \ S : \A y \in Nat \ S : x <= y
  BY LeastNumber
<1>2. x - 1 \in Nat
  BY <1>1
<1>3. x - 1 \in S /\ (x - 1) + 1 = x
  BY <1>1, <1>2
<1> QED
  BY <1>1, <1>2, <1>3

\* One more round of references.
Widened(d, S) == UNION {{j} \cup Named(d, j) : j \in S}

\* S has, with a document, what that document names.
Complete(d, S) == \A j \in S : Named(d, j) \subseteq S

\* Ancestors is the last of Len(d) rounds.
LEMMA Rounds ==
    ASSUME NEW d, Len(d) \in Nat, NEW i
    PROVE  \E rounds : /\ rounds[0] = Named(d, i)
                       /\ \A n \in 1..Len(d) : rounds[n] = Widened(d, rounds[n - 1])
                       /\ Ancestors(d, i) = rounds[Len(d)]
<1> DEFINE Round(f, n) == IF n = 0 THEN Named(d, i) ELSE Widened(d, f[n - 1])
           Runs(f, m) == f = [n \in 0..m |-> Round(f, n)]
           Good == {m \in Nat : \E f : Runs(f, m)}
<1>1. 0 \in Good
  <2> DEFINE f == [n \in 0..0 |-> Named(d, i)]
  <2>1. Runs(f, 0)
    OBVIOUS
  <2>2. \E h : Runs(h, 0)
    <3> HIDE DEF f, Runs
    <3> QED
      BY <2>1
  <2> QED
    BY <2>2
<1>2. ASSUME NEW m \in Nat, m \in Good PROVE m + 1 \in Good
  <2>1. PICK f : Runs(f, m)
    BY <1>2
  <2> DEFINE next == Round(f, m + 1)
             g == [n \in 0..(m + 1) |-> IF n = m + 1 THEN next ELSE f[n]]
  <2>2. ASSUME NEW n \in 0..(m + 1) PROVE g[n] = Round(g, n)
    <3>1. CASE n = m + 1
      <4>1. n - 1 = m /\ m \in 0..(m + 1) /\ m # m + 1
        BY <3>1
      <4>2. g[m] = f[m]
        BY <4>1
      <4> QED
        BY <3>1, <4>1, <4>2
    <3>2. CASE n # m + 1
      <4>1. n \in 0..m /\ (n # 0 => n - 1 \in 0..m)
        BY <3>2
      <4>2. f[n] = Round(f, n)
        <5> HIDE DEF Round
        <5> QED
          BY <2>1, <4>1
      <4>3. g[n] = f[n] /\ (n # 0 => g[n - 1] = f[n - 1])
        BY <3>2, <4>1
      <4> QED
        BY <4>2, <4>3
    <3> QED
      BY <3>1, <3>2
  <2>3. Runs(g, m + 1)
    <3> HIDE DEF Round
    <3> QED
      BY <2>2
  <2>4. \E h : Runs(h, m + 1)
    <3> HIDE DEF g, Runs
    <3> QED
      BY <2>3
  <2> QED
    BY <2>4
<1>3. Len(d) \in Good
  <2> HIDE DEF Good
  <2> QED
    BY <1>1, <1>2, Counting
<1> DEFINE rounds == CHOOSE f : f = [n \in 0..Len(d) |-> Round(f, n)]
<1>4. rounds = [n \in 0..Len(d) |-> Round(rounds, n)]
  BY <1>3
<1>5. Ancestors(d, i) = rounds[Len(d)]
  BY DEF Ancestors, Widened
<1> HIDE DEF rounds
<1>6. rounds[0] = Named(d, i)
  BY <1>4
<1>7. \A n \in 1..Len(d) : rounds[n] = Widened(d, rounds[n - 1])
  BY <1>4
<1> QED
  BY <1>5, <1>6, <1>7

\* Where every reference names a document, as many rounds as there are documents
\* find all: Ancestors is the least complete set that has what the document names.
LEMMA AncestorsAreAll ==
    ASSUME NEW d \in Seq(Document), ~Dangling(d), NEW i \in DOMAIN d
    PROVE  /\ Ancestors(d, i) \subseteq DOMAIN d
           /\ Named(d, i) \subseteq Ancestors(d, i)
           /\ Complete(d, Ancestors(d, i))
           /\ \A S : Named(d, i) \subseteq S /\ Complete(d, S) => Ancestors(d, i) \subseteq S
<1>1. /\ Len(d) \in Nat /\ DOMAIN d = 1..Len(d)
      /\ IsFiniteSet(DOMAIN d) /\ Cardinality(DOMAIN d) = Len(d)
  <2>1. Len(d) \in Nat /\ DOMAIN d = 1..Len(d)
    OBVIOUS
  <2>2. \A n \in Nat : IsFiniteSet(1..n) /\ Cardinality(1..n) = n
    <3>1. \A n \in Nat : IsFiniteSet(1..n) /\ Cardinality(1..n) = IF 1 > n THEN 0 ELSE n - 1 + 1
      BY FS_Interval
    <3> QED
      BY <3>1
  <2> QED
    BY <2>1, <2>2
<1>2. \A j : Named(d, j) \subseteq DOMAIN d
  BY DEF Dangling, Named
<1>3. PICK rounds : /\ rounds[0] = Named(d, i)
                    /\ \A n \in 1..Len(d) : rounds[n] = Widened(d, rounds[n - 1])
                    /\ Ancestors(d, i) = rounds[Len(d)]
  BY <1>1, Rounds
<1> DEFINE Sound(S) == /\ S \subseteq DOMAIN d
                       /\ Named(d, i) \subseteq S
                       /\ \A T : Named(d, i) \subseteq T /\ Complete(d, T) => S \subseteq T
           Good == {n \in Nat : n <= Len(d) =>
                       /\ Sound(rounds[n])
                       /\ Complete(d, rounds[n]) \/ n < Cardinality(rounds[n])}
<1>4. \A S \in SUBSET DOMAIN d : IsFiniteSet(S) /\ Cardinality(S) \in Nat /\ Cardinality(S) <= Len(d)
  BY <1>1, FS_Subset, FS_CardinalityType
<1>5. 0 \in Good
  <2>1. Sound(rounds[0])
    BY <1>2, <1>3
  <2>2. ASSUME ~Complete(d, rounds[0]) PROVE 0 < Cardinality(rounds[0])
    <3>1. rounds[0] # {} /\ rounds[0] \in SUBSET DOMAIN d
      BY <2>1, <2>2 DEF Complete
    <3>2. Cardinality(rounds[0]) # 0
      BY <1>4, <3>1, FS_EmptySet
    <3> QED
      BY <1>4, <3>1, <3>2
  <2> QED
    BY <2>1, <2>2
<1>6. ASSUME NEW n \in Nat, n \in Good PROVE n + 1 \in Good
  <2> SUFFICES ASSUME n + 1 <= Len(d)
               PROVE  /\ Sound(rounds[n + 1])
                      /\ Complete(d, rounds[n + 1]) \/ n + 1 < Cardinality(rounds[n + 1])
    <3>1. n + 1 \in Nat
      OBVIOUS
    <3> HIDE DEF Sound
    <3> QED
      BY <3>1
  <2> DEFINE S == rounds[n]
             W == Widened(d, S)
  <2>1. n <= Len(d)
    BY <1>1
  <2>2. Sound(S) /\ (Complete(d, S) \/ n < Cardinality(S))
    BY <1>6, <2>1
  <2>3. rounds[n + 1] = W
    <3>1. n + 1 \in 1..Len(d) /\ (n + 1) - 1 = n
      BY <1>1
    <3> QED
      BY <1>3, <3>1
  <2> HIDE DEF S
  <2>4. S \subseteq W /\ W \subseteq DOMAIN d
    BY <1>2, <2>2 DEF Widened
  <2>5. \A T : S \subseteq T /\ Complete(d, T) => W \subseteq T
    BY DEF Widened, Complete
  <2>6. Sound(W)
    BY <2>2, <2>4, <2>5
  <2>7. CASE Complete(d, S)
    <3>1. W = S
      BY <2>4, <2>5, <2>7
    <3> QED
      BY <2>3, <2>6, <2>7, <3>1
  <2>8. CASE ~Complete(d, S)
    <3>1. PICK j \in S : ~(Named(d, j) \subseteq S)
      BY <2>8 DEF Complete
    <3>2. PICK k \in Named(d, j) : k \notin S
      BY <3>1
    <3>3. k \in W
      BY <3>1, <3>2 DEF Widened
    <3>4. S \cup {k} \in SUBSET W /\ IsFiniteSet(W) /\ IsFiniteSet(S)
      BY <1>4, <2>4, <3>3
    <3>5. Cardinality(S \cup {k}) = Cardinality(S) + 1
      BY <3>2, <3>4, FS_AddElement
    <3>6. Cardinality(S \cup {k}) <= Cardinality(W)
      BY <3>4, FS_Subset
    <3>7. Cardinality(S) \in Nat /\ Cardinality(W) \in Nat /\ n < Cardinality(S)
      BY <1>4, <2>2, <2>4, <2>8
    <3>8. n + 1 < Cardinality(W)
      BY <3>5, <3>6, <3>7
    <3> QED
      BY <2>3, <2>6, <3>8
  <2> QED
    BY <2>7, <2>8
<1>7. Len(d) \in Good
  <2> HIDE DEF Good
  <2> QED
    BY <1>1, <1>5, <1>6, Counting
<1>8. Sound(rounds[Len(d)]) /\ Complete(d, rounds[Len(d)])
  <2>1. Sound(rounds[Len(d)]) /\ (Complete(d, rounds[Len(d)]) \/ Len(d) < Cardinality(rounds[Len(d)]))
    BY <1>1, <1>7
  <2>2. ~(Len(d) < Cardinality(rounds[Len(d)]))
    BY <1>1, <1>4, <2>1
  <2> QED
    BY <2>1, <2>2
<1> QED
  BY <1>3, <1>8

-----------------------------------------------------------------------------
(* A late review changes nothing that a completed pipeline rests on.            *)

\* e are the documents of d, all sound, and one more.
OneMore(d, e) ==
    /\ d \in Seq(Document) /\ e \in Seq(Document)
    /\ Len(e) = Len(d) + 1
    /\ \A i \in DOMAIN d : e[i] = d[i]
    /\ ~Dangling(d) /\ ~Dangling(e)

LEMMA OneMoreFacts ==
    ASSUME NEW d, NEW e, OneMore(d, e)
    PROVE  /\ Len(d) \in Nat /\ DOMAIN d = 1..Len(d) /\ DOMAIN e = 1..(Len(d) + 1)
           /\ DOMAIN e = DOMAIN d \cup {Len(e)} /\ Len(e) \notin DOMAIN d
<1>1. Len(d) \in Nat /\ DOMAIN d = 1..Len(d) /\ Len(e) = Len(d) + 1 /\ DOMAIN e = 1..Len(e)
  BY DEF OneMore
<1> QED
  BY <1>1

\* The documents of another type stay, valid or not.
LEMMA OthersStay ==
    ASSUME NEW d, NEW e, OneMore(d, e), NEW s, e[Len(e)].type # s
    PROVE  OfType(e, s) = OfType(d, s) /\ Valid(e, s) = Valid(d, s)
<1>1. \A i \in DOMAIN d : e[i] = d[i]
  BY DEF OneMore
<1>0. DOMAIN e = DOMAIN d \cup {Len(e)}
  BY OneMoreFacts
<1>2. OfType(e, s) = OfType(d, s)
  BY <1>0, <1>1 DEF OfType
<1>3. \A i \in OfType(d, s) : e[i] = d[i]
  BY <1>1 DEF OfType
<1> QED
  BY <1>2, <1>3 DEF Valid

\* Of the documents there were, the same one is the latest.
LEMMA LatestStays ==
    ASSUME NEW d, NEW e, OneMore(d, e), NEW ids \in SUBSET DOMAIN d
    PROVE  LatestRun(e, ids) = LatestRun(d, ids)
<1>1. d \in Seq(Document) /\ e \in Seq(Document) /\ \A i \in DOMAIN d : e[i] = d[i]
  BY DEF OneMore
<1>2. ids \in SUBSET DOMAIN e
  BY OneMoreFacts
<1>3. CASE ids = {}
  BY <1>3 DEF LatestRun
<1>4. CASE ids # {}
  <2>1. /\ LatestRun(d, ids) \in ids
        /\ \A j \in ids \ {LatestRun(d, ids)} : Newer(d, LatestRun(d, ids), j)
    BY <1>1, <1>4, LatestExists
  <2>2. \A j \in ids \ {LatestRun(d, ids)} : Newer(e, LatestRun(d, ids), j)
    BY <1>1, <2>1 DEF Newer
  <2> QED
    BY <1>1, <1>2, <2>1, <2>2, LatestUnique
<1> QED
  BY <1>3, <1>4

\* What a document follows up stays, and has no document that came later.
LEMMA AncestorsStay ==
    ASSUME NEW d, NEW e, OneMore(d, e), NEW i \in DOMAIN d
    PROVE  Ancestors(e, i) = Ancestors(d, i) /\ Ancestors(d, i) \subseteq DOMAIN d
<1>1. /\ d \in Seq(Document) /\ e \in Seq(Document) /\ ~Dangling(d) /\ ~Dangling(e)
      /\ \A j \in DOMAIN d : e[j] = d[j]
  BY DEF OneMore
<1>2. DOMAIN d \subseteq DOMAIN e
  BY OneMoreFacts
<1>3. \A j \in DOMAIN d : Named(e, j) = Named(d, j)
  BY <1>1, <1>2 DEF Named
<1>4. /\ Ancestors(d, i) \subseteq DOMAIN d /\ Named(d, i) \subseteq Ancestors(d, i)
      /\ Complete(d, Ancestors(d, i))
      /\ \A S : Named(d, i) \subseteq S /\ Complete(d, S) => Ancestors(d, i) \subseteq S
  BY <1>1, AncestorsAreAll
<1>5. /\ Named(e, i) \subseteq Ancestors(e, i) /\ Complete(e, Ancestors(e, i))
      /\ \A S : Named(e, i) \subseteq S /\ Complete(e, S) => Ancestors(e, i) \subseteq S
  BY <1>1, <1>2, AncestorsAreAll
<1>6. Ancestors(e, i) \subseteq Ancestors(d, i)
  <2>1. Complete(e, Ancestors(d, i))
    BY <1>3, <1>4 DEF Complete
  <2> QED
    BY <1>3, <1>4, <1>5, <2>1
<1>7. Complete(d, Ancestors(e, i))
  BY <1>3, <1>4, <1>5, <1>6 DEF Complete
<1>8. Ancestors(d, i) \subseteq Ancestors(e, i)
  BY <1>3, <1>4, <1>5, <1>7
<1> QED
  BY <1>4, <1>6, <1>8

\* The latest report of a type that gets no document stays.
LEMMA TargetStays ==
    ASSUME NEW d, NEW e, OneMore(d, e), NEW s, e[Len(e)].type # Policy(s).target
    PROVE  /\ Target(e, s) = Target(d, s)
           /\ Target(d, s) # None => Target(d, s) \in DOMAIN d
<1>1. Valid(d, Policy(s).target) \in SUBSET DOMAIN d
  BY DEF Valid, OfType
<1>2. Valid(e, Policy(s).target) = Valid(d, Policy(s).target)
  BY OthersStay
<1>3. d \in Seq(Document)
  BY DEF OneMore
<1>4. Target(d, s) # None => Target(d, s) \in Valid(d, Policy(s).target)
  BY <1>1, <1>3, LatestTyped DEF Target
<1> QED
  BY <1>1, <1>2, <1>4, LatestStays DEF Target

\* The reviews of a report are the same ones: the new document is none.
LEMMA ReviewsStay ==
    ASSUME NEW d, NEW e, OneMore(d, e), NEW s, NEW target,
           e[Len(e)].type # s \/ e[Len(e)].target # target
    PROVE  ReviewsOf(e, s, target) = ReviewsOf(d, s, target)
<1>1. \A i \in DOMAIN d : e[i] = d[i]
  BY DEF OneMore
<1>2. \A i \in ReviewsOf(e, s, target) : i # Len(e)
  BY DEF ReviewsOf, Valid, OfType
<1>0. DOMAIN e = DOMAIN d \cup {Len(e)}
  BY OneMoreFacts
<1>3. ReviewsOf(e, s, target) \subseteq ReviewsOf(d, s, target)
  BY <1>0, <1>1, <1>2 DEF ReviewsOf, Valid, OfType
<1>4. ReviewsOf(d, s, target) \subseteq ReviewsOf(e, s, target)
  BY <1>0, <1>1 DEF ReviewsOf, Valid, OfType
<1> QED
  BY <1>3, <1>4

\* Neither does it count as an audit of a report that does not follow it up.
LEMMA ApplicableStays ==
    ASSUME NEW d, NEW e, OneMore(d, e), NEW s, NEW target \in DOMAIN d,
           e[Len(e)].type # s \/ e[Len(e)].target # target
    PROVE  Applicable(e, s, target) = Applicable(d, s, target)
<1>1. \A i \in DOMAIN d : e[i] = d[i]
  BY DEF OneMore
<1>2. Ancestors(e, target) = Ancestors(d, target) /\ Ancestors(d, target) \subseteq DOMAIN d
  BY AncestorsStay
<1>3. Len(e) \notin Ancestors(d, target) /\ DOMAIN e = DOMAIN d \cup {Len(e)}
  BY <1>2, OneMoreFacts
<1>4. \A i \in Applicable(e, s, target) : i # Len(e)
  BY <1>2, <1>3 DEF Applicable, Valid, OfType
<1>5. Applicable(e, s, target) \subseteq Applicable(d, s, target)
  BY <1>1, <1>2, <1>3, <1>4 DEF Applicable, Valid, OfType
<1>6. Applicable(d, s, target) \subseteq Applicable(e, s, target)
  BY <1>1, <1>2, <1>3 DEF Applicable, Valid, OfType
<1> QED
  BY <1>5, <1>6

\* So what the audits say of a report stays.
LEMMA AuditStays ==
    ASSUME NEW d, NEW e, OneMore(d, e), NEW s, NEW target \in DOMAIN d,
           e[Len(e)].type # s \/ e[Len(e)].target # target
    PROVE  AuditThenFix(e, s, target) = AuditThenFix(d, s, target)
<1> DEFINE audit == LatestRun(d, Applicable(d, s, target))
<1>1. d \in Seq(Document) /\ \A i \in DOMAIN d : e[i] = d[i]
  BY DEF OneMore
<1>2. Applicable(d, s, target) \in SUBSET DOMAIN d
  BY DEF Applicable, Valid, OfType
<1>3. LatestRun(e, Applicable(e, s, target)) = audit
  BY <1>2, ApplicableStays, LatestStays
<1>4. audit # None => audit \in DOMAIN d
  BY <1>1, <1>2, LatestTyped
<1>5. Ancestors(e, target) = Ancestors(d, target)
  BY AncestorsStay
<1> HIDE DEF audit
<1>6. audit # None => e[audit] = d[audit] /\ (Corrects(e, target, audit) <=> Corrects(d, target, audit))
  BY <1>1, <1>4, <1>5 DEF Corrects
<1>7. CASE audit = None
  BY <1>3, <1>7 DEF AuditThenFix, audit
<1>8. CASE audit # None
  BY <1>3, <1>6, <1>8 DEF AuditThenFix, audit
<1> QED
  BY <1>7, <1>8

\* What the reviews of a reviewed report say stays.
LEMMA ReviewStays ==
    ASSUME NEW d, NEW e, OneMore(d, e), NEW s, NEW target \in DOMAIN d,
           e[Len(e)].type # s \/ e[Len(e)].target # target,
           ReviewsOf(d, s, target) # {}
    PROVE  /\ ReviewLatest(e, s, target) = ReviewLatest(d, s, target)
           /\ ~Unanswered(e, s, target)
<1> DEFINE review == LatestRun(d, ReviewsOf(d, s, target))
<1>1. d \in Seq(Document) /\ \A i \in DOMAIN d : e[i] = d[i]
  BY DEF OneMore
<1>2. ReviewsOf(d, s, target) \in SUBSET DOMAIN d
  BY DEF ReviewsOf, Valid, OfType
<1>3. ReviewsOf(e, s, target) = ReviewsOf(d, s, target)
  BY ReviewsStay
<1>4. LatestRun(e, ReviewsOf(e, s, target)) = review
  BY <1>2, <1>3, LatestStays
<1>5. review # None /\ e[review] = d[review]
  BY <1>1, <1>2, LatestTyped
<1> HIDE DEF review
<1>6. ReviewLatest(e, s, target) = ReviewLatest(d, s, target)
  BY <1>4, <1>5 DEF ReviewLatest, review
<1> QED
  BY <1>3, <1>6 DEF Unanswered

\* Nor does a failure of another step become one that a report leaves unanswered.
LEMMA UnansweredStays ==
    ASSUME NEW d, NEW e, OneMore(d, e), NEW s, NEW target \in DOMAIN d, e[Len(e)].type # s
    PROVE  /\ StaleFailure(e, s) = StaleFailure(d, s)
           /\ Unanswered(e, s, target) <=> Unanswered(d, s, target)
<1> DEFINE failures(docsOf) == {i \in Valid(docsOf, s) :
                 docsOf[i].verdict \in Policy(s).fail \cup Policy(s).inProgress}
<1>1. \A i \in DOMAIN d : e[i] = d[i]
  BY DEF OneMore
<1>0. Valid(d, s) \in SUBSET DOMAIN d
  BY DEF Valid, OfType
<1>2. Valid(e, s) = Valid(d, s) /\ Valid(d, s) \in SUBSET DOMAIN d
  BY <1>0, OthersStay
<1>3. failures(e) = failures(d) /\ failures(d) \in SUBSET DOMAIN d
  BY <1>1, <1>2
<1>4. StaleFailure(e, s) = StaleFailure(d, s)
  <2>1. StaleFailure(e, s) = LatestRun(e, failures(e)) /\ StaleFailure(d, s) = LatestRun(d, failures(d))
    BY DEF StaleFailure
  <2>2. LatestRun(e, failures(d)) = LatestRun(d, failures(d))
    <3> HIDE DEF failures
    <3> QED
      BY <1>3, LatestStays
  <2> QED
    BY <1>3, <2>1, <2>2
<1>5. ReviewsOf(e, s, target) = ReviewsOf(d, s, target)
  BY ReviewsStay
<1>6. Ancestors(e, target) = Ancestors(d, target)
  BY AncestorsStay
<1> QED
  BY <1>4, <1>5, <1>6 DEF Unanswered

\* What a step says stays, when no document of its own or of its target comes in.
LEMMA OutcomeStays ==
    ASSUME NEW d, NEW e, OneMore(d, e), NEW s \in StepId,
           e[Len(e)].type # s, s \in Reviewing => e[Len(e)].type # Policy(s).target
    PROVE  Outcome(e, s).status = Outcome(d, s).status
<1> DEFINE type == Policy(s).type
           target == Target(d, s)
<1>1. d \in Seq(Document) /\ \A i \in DOMAIN d : e[i] = d[i]
  BY DEF OneMore
<1>0. Valid(d, s) \in SUBSET DOMAIN d
  BY DEF Valid, OfType
<1>2. Valid(e, s) = Valid(d, s) /\ Valid(d, s) \in SUBSET DOMAIN d
  BY <1>0, OthersStay
<1>3. type \in {"presence", "delivery", "audit_then_fix", "review_latest"}
  BY DefinitionAssumption
<1>4. CASE Valid(d, s) = {} \/ type = "presence"
  BY <1>2, <1>4 DEF Outcome
<1>5. CASE Valid(d, s) # {} /\ type = "delivery"
  <2> DEFINE latest == LatestRun(d, Valid(d, s))
  <2>1. LatestRun(e, Valid(e, s)) = latest
    BY <1>2, LatestStays
  <2>2. latest \in Valid(d, s)
    BY <1>1, <1>2, <1>5, LatestTyped
  <2>3. e[latest] = d[latest]
    BY <1>1, <1>2, <2>2
  <2> HIDE DEF latest
  <2>4. Delivery(e, s) = Delivery(d, s)
    BY <2>1, <2>3 DEF Delivery, latest
  <2>5. s \notin Reviewing
    BY <1>5 DEF Reviewing, Of
  <2>6. Outcome(e, s) = Delivery(e, s) /\ Outcome(d, s) = Delivery(d, s)
    BY <1>2, <1>5, <2>5 DEF Outcome
  <2> QED
    BY <2>4, <2>6
<1>6. CASE Valid(d, s) # {} /\ type \in {"audit_then_fix", "review_latest"}
  <2>1. s \in Reviewing
    BY <1>6 DEF Reviewing, Of
  <2>2. Target(e, s) = target /\ (target # None => target \in DOMAIN d)
    BY <2>1, TargetStays
  <2>3. CASE target = None
    BY <1>2, <1>6, <2>1, <2>2, <2>3 DEF Outcome
  <2>4. CASE target # None /\ type = "audit_then_fix"
    <3>1. AuditThenFix(e, s, target) = AuditThenFix(d, s, target)
      BY <2>2, <2>4, AuditStays
    <3>2. /\ Outcome(e, s) = AuditThenFix(e, s, target)
          /\ Outcome(d, s) = AuditThenFix(d, s, target)
      BY <1>2, <1>6, <2>2, <2>4 DEF Outcome
    <3> QED
      BY <3>1, <3>2
  <2>5. CASE target # None /\ type = "review_latest"
    <3>1. ReviewLatest(e, s, target) = ReviewLatest(d, s, target)
      <4>1. CASE ReviewsOf(d, s, target) # {}
        BY <2>2, <2>5, <4>1, ReviewStays
      <4>2. CASE ReviewsOf(d, s, target) = {}
        <5>1. ReviewsOf(e, s, target) = {}
          BY <4>2, ReviewsStay
        <5>2. LatestRun(d, {}) = None /\ LatestRun(e, {}) = None
          BY DEF LatestRun
        <5>3. StaleFailure(e, s) = StaleFailure(d, s)
              /\ (Unanswered(e, s, target) <=> Unanswered(d, s, target))
          BY <2>2, <2>5, UnansweredStays
        <5> QED
          BY <4>2, <5>1, <5>2, <5>3 DEF ReviewLatest
      <4> QED
        BY <4>1, <4>2
    <3>2. /\ Outcome(e, s) = ReviewLatest(e, s, target)
          /\ Outcome(d, s) = ReviewLatest(d, s, target)
      BY <1>2, <1>6, <2>2, <2>5 DEF Outcome
    <3> QED
      BY <3>1, <3>2
  <2> QED
    BY <1>6, <2>3, <2>4, <2>5
<1> QED
  BY <1>3, <1>4, <1>5, <1>6

\* e is d and a late review: one that its schema accepts, of a report that is not
\* the latest, added to documents that complete the pipeline.
LateReview(d, e) ==
    /\ OneMore(d, e)
    /\ \A i \in DOMAIN d : Known(d[i])
    /\ e[Len(e)].type \in Reviewing /\ e[Len(e)].valid
    /\ e[Len(e)].target # Target(d, e[Len(e)].type)
    /\ Evaluate(d).overall = "completed"

\* The step of the late review keeps what it says: another review of the latest
\* report says it.
LEMMA LateOutcomeStays ==
    ASSUME NEW d, NEW e, LateReview(d, e), NEW s, s = e[Len(e)].type
    PROVE  /\ Satisfied(d, s) /\ Outcome(e, s).status = "passed"
           /\ s \in Of("review_latest") => ~Unanswered(e, s, Target(e, s))
<1> DEFINE target == Target(d, s)
<1>1. OneMore(d, e) /\ d \in Seq(Document) /\ s \in Reviewing /\ e[Len(e)].valid
  BY DEF LateReview, OneMore
<1>2. s \in Required /\ s \in StepId /\ Policy(s).target \notin Reviewing
  BY <1>1, ReviewAssumption DEF Reviewing, Of
<1>3. Satisfied(d, s)
  BY <1>2, CompletedReport, RequiredIsSatisfied DEF LateReview
<1>4. Target(e, s) = target
  BY <1>1, <1>2, TargetStays
<1>5. target \in DOMAIN d
  BY <1>1, <1>3, ReviewSatisfied, AuditSatisfied DEF LateReview, Reviewing
<1>6. target # None
  BY <1>1, <1>5, OneMoreFacts DEF None
<1>7. Outcome(d, s).status = "passed" /\ Valid(d, s) # {}
  BY <1>3 DEF Satisfied, Wellformed, Absent
<1>8. Valid(e, s) # {}
  <2>1. Len(e) \in DOMAIN d \cup {Len(e)} /\ DOMAIN e = DOMAIN d \cup {Len(e)}
    BY <1>1, OneMoreFacts
  <2>2. Len(e) \in Valid(e, s)
    BY <1>1, <2>1 DEF Valid, OfType
  <2> QED
    BY <2>2
<1>9. e[Len(e)].target # target
  BY DEF LateReview
<1>10. CASE s \in Of("audit_then_fix")
  <2>1. Policy(s).type = "audit_then_fix" /\ s \notin Of("review_latest")
    BY <1>10 DEF Of
  <2>2. Outcome(d, s) = AuditThenFix(d, s, target) /\ Outcome(e, s) = AuditThenFix(e, s, target)
    BY <1>1, <1>4, <1>6, <1>7, <1>8, <2>1 DEF Outcome
  <2>3. AuditThenFix(e, s, target) = AuditThenFix(d, s, target)
    BY <1>1, <1>5, <1>9, AuditStays
  <2> QED
    BY <1>3, <1>7, <2>1, <2>2, <2>3
<1>11. CASE s \in Of("review_latest")
  <2>1. Policy(s).type = "review_latest"
    BY <1>11 DEF Of
  <2>2. Outcome(d, s) = ReviewLatest(d, s, target) /\ Outcome(e, s) = ReviewLatest(e, s, target)
    BY <1>1, <1>4, <1>6, <1>7, <1>8, <2>1 DEF Outcome
  <2>3. ReviewsOf(d, s, target) # {}
    BY <1>1, <1>3, <1>11, ReviewSatisfied DEF LateReview
  <2>4. ReviewLatest(e, s, target) = ReviewLatest(d, s, target) /\ ~Unanswered(e, s, target)
    BY <1>1, <1>5, <1>9, <2>3, ReviewStays
  <2> QED
    BY <1>3, <1>4, <1>7, <2>2, <2>4
<1> QED
  BY <1>1, <1>10, <1>11 DEF Reviewing

\* Every step is as well off as before.
LEMMA LateStepStays ==
    ASSUME NEW d, NEW e, LateReview(d, e), NEW s \in StepId
    PROVE  /\ Absent(e, s) <=> Absent(d, s)
           /\ Wellformed(e, s)
           /\ Outcome(e, s).status = Outcome(d, s).status
<1>1. OneMore(d, e) /\ e[Len(e)].type \in Reviewing /\ e[Len(e)].valid
  BY DEF LateReview
<1>2. Wellformed(d, s)
  BY CompletedReport DEF LateReview
<1>3. CASE s = e[Len(e)].type
  <2>1. Satisfied(d, s) /\ Outcome(e, s).status = "passed"
    BY <1>3, LateOutcomeStays
  <2>2. ~Absent(d, s) /\ Outcome(d, s).status = "passed"
    BY <2>1 DEF Satisfied
  <2>3. DOMAIN e = DOMAIN d \cup {Len(e)} /\ \A i \in DOMAIN d : e[i] = d[i]
    BY <1>1, OneMoreFacts DEF OneMore
  <2>4. ~Absent(e, s)
    BY <1>3, <2>3 DEF Absent, OfType
  <2>5. \A i \in OfType(e, s) : e[i].valid
    BY <1>1, <1>2, <2>3 DEF Wellformed, Valid, OfType
  <2>6. Wellformed(e, s)
    BY <2>5 DEF Wellformed, Valid
  <2> QED
    BY <2>1, <2>2, <2>4, <2>6
<1>4. CASE s # e[Len(e)].type
  <2>1. OfType(e, s) = OfType(d, s) /\ Valid(e, s) = Valid(d, s)
    BY <1>1, <1>4, OthersStay
  <2>2. s \in Reviewing => e[Len(e)].type # Policy(s).target
    BY <1>1, ReviewAssumption
  <2> QED
    BY <1>1, <1>2, <1>4, <2>1, <2>2, OutcomeStays DEF Absent, Wellformed
<1> QED
  BY <1>3, <1>4

LEMMA LateCompletedStays ==
    ASSUME NEW d, NEW e, LateReview(d, e)
    PROVE  Completed(e) = Completed(d)
<1>1. \A s \in StepId : (Absent(e, s) <=> Absent(d, s)) /\ Wellformed(e, s) /\ Wellformed(d, s)
                        /\ Outcome(e, s).status = Outcome(d, s).status
  BY LateStepStays, CompletedReport DEF LateReview
<1>2. \A s \in StepId : Satisfied(e, s) <=> Satisfied(d, s)
  BY <1>1 DEF Satisfied
<1>3. {s \in StepId : Absent(e, s) /\ ~Step[s].required} = {s \in StepId : Absent(d, s) /\ ~Step[s].required}
  BY <1>1
<1>4. {s \in StepId : Satisfied(e, s)} = {s \in StepId : Satisfied(d, s)}
  BY <1>2
<1> QED
  BY <1>3, <1>4, Zenon DEF Completed

\* No failure becomes one that the latest report leaves unanswered.
LEMMA LateAnswered ==
    ASSUME NEW d, NEW e, LateReview(d, e)
    PROVE  ~LeftUnanswered(e)
<1>1. OneMore(d, e) /\ e[Len(e)].type \in Reviewing
  BY DEF LateReview
<1>2. ~LeftUnanswered(d)
  BY DEF LateReview, Evaluate, Overall
<1>3. ASSUME NEW s \in Judged(e) \cap Of("review_latest"), Unanswered(e, s, Target(e, s))
      PROVE  FALSE
  <2>1. s \in Reviewing /\ Valid(e, s) # {} /\ Valid(e, Policy(s).target) # {}
    BY <1>3 DEF Judged
  <2>2. s # e[Len(e)].type
    BY <1>3, LateOutcomeStays
  <2>3. e[Len(e)].type # Policy(s).target
    BY <1>1, <2>1, ReviewAssumption
  <2>4. Valid(d, s) # {} /\ Valid(d, Policy(s).target) # {}
    BY <1>1, <2>1, <2>2, <2>3, OthersStay
  <2>5. s \in Judged(d) \cap Of("review_latest")
    BY <1>3, <2>1, <2>4 DEF Judged
  <2>6. Target(e, s) = Target(d, s) /\ (Target(d, s) # None => Target(d, s) \in DOMAIN d)
    BY <1>1, <2>3, TargetStays
  <2>7. Target(d, s) # None
    <3>1. Valid(d, Policy(s).target) \in SUBSET DOMAIN d /\ d \in Seq(Document)
      BY <1>1 DEF Valid, OfType, OneMore
    <3> QED
      BY <2>4, <3>1, LatestTyped DEF Target
  <2>8. Unanswered(d, s, Target(d, s))
    BY <1>1, <1>3, <2>2, <2>6, <2>7, UnansweredStays
  <2> QED
    BY <1>2, <2>5, <2>8 DEF LeftUnanswered
<1> QED
  BY <1>3 DEF LeftUnanswered

\* So the report says "completed" again.
LEMMA LateReportStays ==
    ASSUME NEW d, NEW e, LateReview(d, e), ~Broken(e)
    PROVE  Evaluate(e).overall = "completed"
<1>1. Completed(e) = Completed(d) /\ ~LeftUnanswered(e)
  BY LateCompletedStays, LateAnswered
<1>2. \A s \in StepId : (Absent(e, s) <=> Absent(d, s)) /\ Wellformed(e, s)
                        /\ Outcome(e, s).status = Outcome(d, s).status
  BY LateStepStays
<1>3. Required \subseteq Completed(d)
  BY CompletedReport DEF LateReview
<1>4. \A s \in StepId : ~Failed(d, s, Completed(d))
  BY DEF LateReview, Evaluate, Overall
<1>5. \A s \in StepId : ~Failed(e, s, Completed(e))
  BY <1>1, <1>2, <1>4 DEF Failed
<1>6. Overall(e, Broken(e), Completed(e)) = "completed"
  BY <1>1, <1>2, <1>3, <1>5 DEF Overall
<1> QED
  BY <1>6 DEF Evaluate

\* For every pipeline whose reviews are required and of no review: a late review,
\* whatever it says, does not undo a completed pipeline.
THEOREM LateReviewsRest == Spec => LateReviewIgnored
<1> DEFINE Late == /\ Len(docs') = Len(docs) + 1
                   /\ LET late == docs'[Len(docs')] IN
                       /\ late.type \in Reviewing /\ late.valid
                       /\ late.target # Target(docs, late.type)
                   /\ ~report'.broken
<1>1. ASSUME Inv, Inv', [Next]_vars, report.overall = "completed", Late
      PROVE  report'.overall = "completed"
  <2>1. /\ docs \in Seq(Document) /\ (\A i \in DOMAIN docs : Known(docs[i]))
        /\ report = Evaluate(docs)
    BY <1>1 DEF Inv, TypeOK
  <2>2. docs' \in Seq(Document) /\ report' = Evaluate(docs')
    BY <1>1 DEF Inv, TypeOK
  <2>3. Len(docs) \in Nat /\ Len(docs') # Len(docs)
    BY <1>1, <2>1
  <2>4. PICK x \in Document : docs' = Append(docs, x)
    <3>1. ASSUME NEW a \in Agent, Ask(a) PROVE FALSE
      BY <2>3, <3>1 DEF Ask
    <3>2. ASSUME NEW a \in Agent, Fix(a) PROVE FALSE
      BY <1>1, <2>3, <3>2, Repaired DEF Inv, Fix, Leave
    <3>3. ASSUME NEW a \in Agent, Write(a) \/ WritePoorly(a)
          PROVE  \E x \in Document : docs' = Append(docs, x)
      BY <1>1, <3>3, Written DEF Inv
    <3>4. ASSUME UNCHANGED vars PROVE FALSE
      BY <2>3, <3>4 DEF vars
    <3> QED
      BY <1>1, <3>1, <3>2, <3>3, <3>4 DEF Next
  <2>5. ~Broken(docs) /\ ~Broken(docs')
    BY <1>1, <2>1, <2>2, CompletedReport DEF Evaluate
  <2>6. OneMore(docs, docs')
    <3>1. \A i \in DOMAIN docs : docs'[i] = docs[i]
      BY <2>1, <2>4
    <3> QED
      BY <1>1, <2>1, <2>2, <2>5, <3>1 DEF OneMore, Broken
  <2>7. LateReview(docs, docs')
    BY <1>1, <2>1, <2>6 DEF LateReview
  <2> QED
    BY <2>2, <2>5, <2>7, LateReportStays
<1>2. Inv /\ Inv' /\ [Next]_vars =>
        [report.overall = "completed" /\ Late => report'.overall = "completed"]_vars
  BY <1>1
<1> QED
  BY <1>2, InvAlways, PTL DEF Spec, LateReviewIgnored

=============================================================================
