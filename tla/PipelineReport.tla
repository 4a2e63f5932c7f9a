---------------------------- MODULE PipelineReport ----------------------------
(* evaluatePipeline: the report that the steps of a pipeline make of the        *)
(* documents of one Feature.  A document is named by its position, which also   *)
(* stands for the pair (created_at, id) that breaks ties; `docs` below is       *)
(* always the sequence of the documents.                                        *)
(*                                                                              *)
(* Left out: the author registry, documents without an id or with somebody      *)
(* else's, types that are no step of the pipeline, the kind of action that only *)
(* a QA review asks for, and the wording of actions, errors and warnings.       *)
EXTENDS Integers, Sequences, FiniteSets

CONSTANTS
    StepId,     \* the steps of the pipeline, which are its document types
    Step        \* StepId -> [order, required, multiple, dependsOn, policy]

None == 0    \* no document
Policy(s) == Step[s].policy
Of(type) == {s \in StepId : Policy(s).type = type}
Reviewing == Of("audit_then_fix") \cup Of("review_latest")
Required == {s \in StepId : Step[s].required}

\* What createPipelineDefinition accepts.
ASSUME DefinitionAssumption ==
    /\ IsFiniteSet(StepId)
    /\ \A s \in StepId :
        /\ Policy(s).type \in {"presence", "delivery", "audit_then_fix", "review_latest"}
        /\ Step[s].order \in Nat
        /\ Step[s].dependsOn \subseteq {t \in StepId : Step[t].order < Step[s].order}
    /\ \A s, t \in StepId : Step[s].order = Step[t].order => s = t
    /\ \A s \in Reviewing : Policy(s).target \in StepId /\ Policy(s).retry \in StepId

-----------------------------------------------------------------------------
(* Selecting documents.                                                         *)

OfType(docs, s) == {i \in DOMAIN docs : docs[i].type = s}
Valid(docs, s) == {i \in OfType(docs, s) : docs[i].valid}

Newer(docs, i, j) ==
    \/ docs[i].sequence > docs[j].sequence
    \/ docs[i].sequence = docs[j].sequence /\ i > j

\* selectLatestRun: the highest sequence, then the latest document.
LatestRun(docs, ids) ==
    IF ids = {} THEN None ELSE CHOOSE i \in ids : \A j \in ids \ {i} : Newer(docs, i, j)

Target(docs, s) == LatestRun(docs, Valid(docs, Policy(s).target))

Named(docs, i) == IF i \in DOMAIN docs THEN docs[i].dependsOn ELSE {}

\* isAncestor: what a document depends on, directly or not.
Ancestors(docs, i) ==
    LET within[n \in 0..Len(docs)] ==
            IF n = 0 THEN Named(docs, i)
            ELSE UNION {{j} \cup Named(docs, j) : j \in within[n - 1]}
    IN  within[Len(docs)]

-----------------------------------------------------------------------------
(* The business policy of a step: its status and the action it asks for.        *)

NoAction == [kind |-> "none", step |-> "none", related |-> None]
Action(kind, s, i) == [kind |-> kind, step |-> s, related |-> i]
Result(status, action) == [status |-> status, action |-> action]
Empty == Result("not_started", NoAction)
Passed == Result("passed", NoAction)

(* Mutant of Return: a review that is not conclusive sends nobody back. *)
Return_OnFailure(status, s, i) ==
    Result(status, IF status = "failed" THEN Action("return_to_development", Policy(s).retry, i)
                                        ELSE NoAction)

Return(status, s, i) == Result(status, Action("return_to_development", Policy(s).retry, i))

(* Mutant of Delivery: a blocked delivery asks for nothing. *)
Delivery_BlockedRests(docs, s) ==
    LET latest == LatestRun(docs, Valid(docs, s))
    IN  CASE docs[latest].verdict \in Policy(s).pass -> Passed
          [] docs[latest].verdict \in Policy(s).inProgress ->
                Result("in_progress", Action("continue_development", s, latest))
          [] OTHER -> Result("blocked", NoAction)

Delivery(docs, s) ==
    LET latest == LatestRun(docs, Valid(docs, s))
        again  == Action("continue_development", s, latest)
    IN  CASE docs[latest].verdict \in Policy(s).pass       -> Passed
          [] docs[latest].verdict \in Policy(s).inProgress -> Result("in_progress", again)
          [] OTHER                                         -> Result("blocked", again)

(* Mutant of ReviewsOf: the latest review counts, whatever it reviewed. *)
ReviewsOf_Any(docs, s, target) == Valid(docs, s)

ReviewsOf(docs, s, target) == {i \in Valid(docs, s) : docs[i].target = target}

\* The newest review that did not pass; it matters while the target has none.
StaleFailure(docs, s) ==
    LatestRun(docs, {i \in Valid(docs, s) :
                        docs[i].verdict \in Policy(s).fail \cup Policy(s).inProgress})

\* The latest report has no review yet, and does not follow up that failure.
Unanswered(docs, s, target) ==
    /\ ReviewsOf(docs, s, target) = {}
    /\ StaleFailure(docs, s) # None
    /\ StaleFailure(docs, s) \notin Ancestors(docs, target)

ReviewLatest(docs, s, target) ==
    LET review == LatestRun(docs, ReviewsOf(docs, s, target))
    IN  CASE review = None /\ Unanswered(docs, s, target) ->
                Return("failed", s, StaleFailure(docs, s))
          [] review = None /\ ~Unanswered(docs, s, target) ->
                Result("not_started", Action("run_validation", s, target))
          [] review # None /\ docs[review].verdict \in Policy(s).pass -> Passed
          [] review # None /\ docs[review].verdict \in Policy(s).fail ->
                Return("failed", s, review)
          [] review # None /\ docs[review].verdict \in Policy(s).inProgress ->
                Return("in_progress", s, review)
          [] OTHER -> Result("blocked", NoAction)

(* Mutant of Applicable: every audit counts. *)
Applicable_All(docs, s, target) == Valid(docs, s)

\* The audits that count: of the latest report, or followed up by it.
Applicable(docs, s, target) ==
    LET followed == Ancestors(docs, target)
    IN  {i \in Valid(docs, s) : docs[i].target = target \/ i \in followed}

(* Mutant of Corrects: a report that follows the audit up is taken to close it. *)
Corrects_ByReference(docs, report, audit) ==
    docs[audit].target # report /\ audit \in Ancestors(docs, report)

\* The report answers the audit: it depends on it and closes each finding that is
\* to be fixed.
Corrects(docs, report, audit) ==
    /\ docs[audit].target # report
    /\ audit \in Ancestors(docs, report)
    /\ \A f \in docs[audit].fix : <<audit, f>> \in docs[report].closes

AuditThenFix(docs, s, target) ==
    LET audit == LatestRun(docs, Applicable(docs, s, target))
    IN  CASE audit = None -> Result("not_started", Action("run_audit", s, target))
          [] audit # None /\ docs[audit].verdict \in Policy(s).pass -> Passed
          [] audit # None /\ docs[audit].verdict = "corrections_required" ->
                IF Corrects(docs, target, audit) THEN Passed ELSE Return("failed", s, audit)
          [] audit # None /\ docs[audit].verdict \in Policy(s).fail \ {"corrections_required"} ->
                Return("failed", s, audit)
          [] OTHER -> Result("blocked", NoAction)

\* evaluateBusinessPolicy.
Outcome(docs, s) ==
    LET type == Policy(s).type
        target == Target(docs, s)
    IN  CASE Valid(docs, s) = {} -> Empty
          [] Valid(docs, s) # {} /\ type = "presence" -> Passed
          [] Valid(docs, s) # {} /\ type = "delivery" -> Delivery(docs, s)
          [] Valid(docs, s) # {} /\ s \in Reviewing /\ target = None -> Empty
          [] Valid(docs, s) # {} /\ type = "audit_then_fix" /\ target # None ->
                AuditThenFix(docs, s, target)
          [] Valid(docs, s) # {} /\ type = "review_latest" /\ target # None ->
                ReviewLatest(docs, s, target)

-----------------------------------------------------------------------------
(* What makes the documents an error, whatever the steps say.                   *)

Dangling(docs) == \E i \in DOMAIN docs : ~(docs[i].dependsOn \subseteq DOMAIN docs \ {i})
Cyclic(docs) == \E i \in DOMAIN docs : i \in Ancestors(docs, i)

\* A document names one of each type its step depends on, and the one it reviews.
Unrelated(docs) ==
    \E i \in DOMAIN docs :
        LET types == {docs[j].type : j \in docs[i].dependsOn \cap DOMAIN docs}
        IN  \/ ~(Step[docs[i].type].dependsOn \subseteq types)
            \/ docs[i].type \in Reviewing /\ docs[i].target \notin docs[i].dependsOn

Crowded(docs) ==
    \E s \in StepId : ~Step[s].multiple /\ Cardinality(OfType(docs, s)) > 1

\* Reported only once there is a target to compare with.
Judged(docs) ==
    {s \in Reviewing : Valid(docs, s) # {} /\ Valid(docs, Policy(s).target) # {}}
UnknownTarget(docs) ==
    \E s \in Judged(docs) :
        \E i \in Valid(docs, s) : docs[i].target \notin Valid(docs, Policy(s).target)
LeftUnanswered(docs) ==
    \E s \in Judged(docs) \cap Of("review_latest") : Unanswered(docs, s, Target(docs, s))

\* The errors that no document the guidance asks for repairs.
Broken(docs) ==
    Dangling(docs) \/ Cyclic(docs) \/ Unrelated(docs) \/ Crowded(docs) \/ UnknownTarget(docs)

-----------------------------------------------------------------------------
(* The report.                                                                  *)

Absent(docs, s) == OfType(docs, s) = {}
Wellformed(docs, s) == Valid(docs, s) = OfType(docs, s)
Satisfied(docs, s) ==
    ~Absent(docs, s) /\ Wellformed(docs, s) /\ Outcome(docs, s).status = "passed"

\* The completed steps: every set of steps that holds up by itself.  The loop of
\* the code meets the steps in order, and each depends on earlier ones only.
Completed(docs) ==
    LET optional  == {s \in StepId : Absent(docs, s) /\ ~Step[s].required}
        satisfied == {s \in StepId : Satisfied(docs, s)}
    IN  UNION {steps \in SUBSET (optional \cup satisfied) :
                  \A s \in steps : s \in optional \/ Step[s].dependsOn \subseteq steps}

Failed(docs, s, completed) ==
    /\ ~Absent(docs, s)
    /\ Step[s].dependsOn \subseteq completed
    /\ Outcome(docs, s).status = "failed"

\* overallStatusFor, given the errors and the completed steps.
Overall(docs, broken, completed) ==
    IF broken \/ LeftUnanswered(docs) \/ ~(\A s \in StepId : Wellformed(docs, s))
    THEN "invalid"
    ELSE IF \E s \in StepId : Failed(docs, s, completed) THEN "failed"
    ELSE IF Required \subseteq completed THEN "completed"
    ELSE "incomplete"

\* actionsFor, given the completed steps.
ActionOf(docs, s, completed) ==
    IF ~Wellformed(docs, s) THEN Action("fix_document", s, None)
    ELSE IF ~(Step[s].dependsOn \subseteq completed) THEN NoAction
    ELSE IF Absent(docs, s) /\ Step[s].required THEN Action("create_document", s, None)
    ELSE Outcome(docs, s).action

\* The first action in the order of the steps: all that is shown.
NextAction(docs, completed) ==
    LET action == [s \in StepId |-> ActionOf(docs, s, completed)]
        asking == {s \in StepId : action[s] # NoAction}
    IN  IF asking = {} THEN NoAction
        ELSE action[CHOOSE s \in asking : \A t \in asking : Step[s].order <= Step[t].order]

Evaluate(docs) ==
    LET broken    == Broken(docs)
        completed == Completed(docs)
    IN  [broken    |-> broken,
         completed |-> completed,
         overall   |-> Overall(docs, broken, completed),
         next      |-> NextAction(docs, completed)]
=============================================================================
