------------------------------- MODULE Pipeline -------------------------------
(* The signed documents of one Feature and the agents that ask which one comes  *)
(* next and write it.  An agent reads the guidance at one time and writes at    *)
(* another: by then others may have written, so that a document may answer a    *)
(* question nobody asks any more.  Agents also make mistakes, MaxSetbacks in    *)
(* all: a verdict that is not a pass, a correction or a reference left out, a   *)
(* reference to no document, a document its schema rejects, a sequence number   *)
(* left as it was scaffolded.                                                   *)
EXTENDS PipelineReport

CONSTANTS
    Agent,
    Visitor,        \* the agents that ask a few times only; the others never stop
    Finding,        \* ids an audit may give its findings
    MaxDocuments,   \* bound on the documents of the Feature
    MaxSetbacks,    \* bound on the mistakes and on the verdicts that are no pass
    MaxVisits       \* bound on the times that visitors ask, together

ASSUME AgentAssumption == Visitor \subseteq Agent
ASSUME BoundAssumption ==
    MaxDocuments \in Nat /\ MaxSetbacks \in Nat /\ MaxVisits \in Nat

\* createPipelineDefinition does not check this, but every pipeline in pipelines/
\* has it: a step with a policy can be passed, corrections that are required are no
\* pass, and what a step reviews is a required step before it.
ASSUME PolicyAssumption ==
    /\ \A s \in StepId \ Of("presence") : Policy(s).pass # {}
    /\ \A s \in Of("audit_then_fix") : "corrections_required" \notin Policy(s).pass
    /\ \A s \in Reviewing : Policy(s).target \in Step[s].dependsOn \cap Required

\* Nor does it check this, which every pipeline in pipelines/ has too: a step that
\* reviews is required, and no step reviews a review. Only LateReviewIgnored needs it.
ASSUME ReviewAssumption ==
    /\ Reviewing \subseteq Required
    /\ \A s \in Reviewing : Policy(s).target \notin Reviewing

VARIABLES
    docs,       \* the documents, in the order they were written
    report,     \* what inspect() returns: computed again from the documents
    task,       \* what each agent was told to do, and how much it had seen
    setbacks,   \* the mistakes so far
    visits      \* the times a visitor asked

vars == <<docs, report, task, setbacks, visits>>

Idle == [action |-> NoAction, seen |-> 0]

\* `next` of the guided CLI.
Ask(a) ==
    /\ task[a] = Idle
    /\ report.next # NoAction
    /\ a \in Visitor => visits < MaxVisits
    /\ visits' = visits + (IF a \in Visitor THEN 1 ELSE 0)
    /\ task' = [task EXCEPT ![a] = [action |-> report.next, seen |-> Len(docs)]]
    /\ UNCHANGED <<docs, report, setbacks>>

Seen(a) == 1..task[a].seen
LatestSeen(a, s) == LatestRun(docs, Valid(docs, s) \cap Seen(a))

\* The audits a corrective report refers back to, closing their findings.
ToAnswer(a) ==
    {i \in Seen(a) : /\ docs[i].type \in Of("audit_then_fix") /\ docs[i].valid
                     /\ docs[i].verdict \in Policy(docs[i].type).fail}

\* The document a careful agent writes when it has good news to tell.
Draft(a) ==
    LET s == task[a].action.step
        target == IF s \in Reviewing THEN LatestSeen(a, Policy(s).target) ELSE None
        corrected == IF s \in Of("delivery") THEN ToAnswer(a) ELSE {}
    IN  [type |-> s, valid |-> TRUE,
         sequence |-> 1 + Cardinality(OfType(docs, s) \cap Seen(a)),
         dependsOn |-> ({LatestSeen(a, t) : t \in Step[s].dependsOn}
                         \cup {target, task[a].action.related} \cup corrected) \ {None},
         target |-> target,
         verdict |-> IF s \in Of("presence") THEN "none"
                     ELSE CHOOSE v \in Policy(s).pass : TRUE,
         fix |-> {},
         closes |-> UNION {{i} \X docs[i].fix : i \in corrected}]

\* What else there may be to tell.
Verdicts(s) ==
    CASE s \in Of("presence")       -> {}
      [] s \in Of("delivery")       -> Policy(s).inProgress \cup {"blocked"}
      [] s \in Of("review_latest")  -> Policy(s).fail \cup Policy(s).inProgress
      [] s \in Of("audit_then_fix") -> Policy(s).fail

Adverse(d) ==
    UNION {{[d EXCEPT !.verdict = v, !.fix = fix] :
               fix \in CASE v = "corrections_required" -> SUBSET Finding \ {{}}
                        [] d.type \in Of("audit_then_fix") /\ v = "blocked" -> SUBSET Finding
                        [] OTHER -> {{}}} :
           v \in Verdicts(d.type)}

\* What may be wrong with it.  An id that no document has yet may be the one of a
\* document that is written later.
Unborn == {Len(docs) + 1, Len(docs) + 2}
Careless(d) ==
    {[d EXCEPT !.valid = FALSE], [d EXCEPT !.sequence = 1]}
    \cup {[d EXCEPT !.closes = @ \ {c}] : c \in d.closes}
    \cup {[d EXCEPT !.dependsOn = @ \ {i}] : i \in d.dependsOn}
    \cup {[d EXCEPT !.dependsOn = @ \cup {i}] : i \in Unborn}
    \cup {[d EXCEPT !.target = i, !.dependsOn = (@ \ {d.target}) \cup {i}] :
             i \in IF d.target = None THEN {} ELSE Unborn}

\* The documents become these, and the agent is done.
Leave(a, written) ==
    /\ docs' = written
    /\ report' = Evaluate(written)
    /\ task' = [task EXCEPT ![a] = Idle]

Writing(a) ==
    /\ task[a].action.kind \notin {"none", "fix_document"}
    /\ Len(docs) < MaxDocuments

Write(a) ==
    /\ Writing(a)
    /\ Leave(a, Append(docs, Draft(a)))
    /\ UNCHANGED <<setbacks, visits>>

WritePoorly(a) ==
    /\ Writing(a)
    /\ setbacks < MaxSetbacks
    /\ \E d \in (Adverse(Draft(a)) \cup Careless(Draft(a))) \ {Draft(a)} :
          Leave(a, Append(docs, d))
    /\ setbacks' = setbacks + 1
    /\ UNCHANGED visits

\* The documents of a step that its schema rejected are rewritten.
Fix(a) ==
    /\ task[a].action.kind = "fix_document"
    /\ Leave(a, [i \in DOMAIN docs |->
                    IF docs[i].type = task[a].action.step
                    THEN [docs[i] EXCEPT !.valid = TRUE] ELSE docs[i]])
    /\ UNCHANGED <<setbacks, visits>>

-----------------------------------------------------------------------------
Init ==
    /\ docs = <<>> /\ report = Evaluate(<<>>)
    /\ task = [a \in Agent |-> Idle] /\ setbacks = 0 /\ visits = 0

Next == \E a \in Agent : Ask(a) \/ Write(a) \/ WritePoorly(a) \/ Fix(a)

Spec == Init /\ [][Next]_vars

\* Agents go on: each asks when it is free and gets done what it was told.
Finish(a) ==
    /\ task[a].action.kind = "fix_document" \/ Writing(a)
    /\ task' = [task EXCEPT ![a] = Idle]
Fairness == \A a \in Agent : WF_task(Ask(a)) /\ WF_task(Finish(a))
FairSpec == Spec /\ Fairness

-----------------------------------------------------------------------------
\* The verdicts among which a schema lets the author of a review choose.
Known(d) ==
    /\ d.type \in Of("audit_then_fix") => d.verdict \in Policy(d.type).pass \cup Policy(d.type).fail
    /\ d.type \in Of("review_latest") =>
         d.verdict \in Policy(d.type).pass \cup Policy(d.type).fail \cup Policy(d.type).inProgress

Verdict ==
    UNION ({{"none", "blocked"}}
           \cup {Policy(s).pass : s \in StepId \ Of("presence")}
           \cup {Policy(s).fail : s \in Reviewing}
           \cup {Policy(s).inProgress : s \in Of("delivery") \cup Of("review_latest")})

Document ==
    [type : StepId, valid : BOOLEAN, sequence : 1..MaxDocuments, dependsOn : SUBSET (Nat \ {None}),
     target : Nat, verdict : Verdict, fix : SUBSET Finding, closes : SUBSET (Nat \X Finding)]

Request ==
    [kind : {"fix_document", "create_document", "continue_development",
             "return_to_development", "run_audit", "run_validation"},
     step : StepId, related : Nat]

\* Documents have the shape the evaluation reads, with a verdict their policy
\* knows; a task is idle or names a step and documents that exist.
TypeOK ==
    /\ docs \in Seq(Document)
    /\ \A i \in DOMAIN docs : Known(docs[i])
    /\ task \in [Agent -> {Idle} \cup [action : Request, seen : Nat]]
    /\ \A a \in Agent : task[a].seen <= Len(docs) /\ task[a].action.related <= task[a].seen
    /\ setbacks \in 0..MaxSetbacks
    /\ visits \in 0..MaxVisits

\* `next` has nothing more to ask (and the guided CLI then says "completed") only
\* when every required step is completed: no combination of verdicts, stale
\* reviews and missing corrections leaves the agents without an instruction.
StopsOnlyWhenComplete ==
    report.next = NoAction => Required \subseteq report.completed

\* In a completed pipeline, what an audit demanded of the work that led to the
\* latest report is closed by some report, unless a newer audit that counts for
\* that report judged the work again.
DemandsSettled ==
    report.overall = "completed" =>
        \A s \in Required \cap Of("audit_then_fix") :
            LET counting == Applicable(docs, s, Target(docs, s)) IN
            \A audit \in counting :
                docs[audit].verdict = "corrections_required" =>
                    \/ \A f \in docs[audit].fix :
                          \E r \in Valid(docs, Policy(s).target) : <<audit, f>> \in docs[r].closes
                    \/ \E later \in counting : Newer(docs, later, audit)

\* Another delivery reopens a completed pipeline: no review given before can be
\* a review of it.
DeliveryReopens ==
    [][(/\ report.overall = "completed"
        /\ \E s \in Required \cap Of("review_latest") : Target(docs', s) # Target(docs, s))
       => report'.overall # "completed"]_vars

\* A review that comes late, of a report that is no longer the latest, does not
\* undo a completed pipeline, whatever its verdict, unless its references are
\* broken or its schema rejects it.
LateReviewIgnored ==
    [][(/\ report.overall = "completed"
        /\ Len(docs') = Len(docs) + 1
        /\ LET late == docs'[Len(docs')] IN
            /\ late.type \in Reviewing /\ late.valid
            /\ late.target # Target(docs, late.type)
        /\ ~report'.broken)
       => report'.overall = "completed"]_vars

\* Agents that follow the guidance complete the Feature: once the setbacks are
\* spent, the loop from review back to development ends, unless a reference is
\* broken for good, which no guidance repairs, or an audit says "blocked": a report
\* that follows up such an audit is taken as judged by it, so that `next` asks for
\* another report for ever and never for another audit.
Blocking == {i \in DOMAIN docs : docs[i].type \in Of("audit_then_fix")
                                 /\ docs[i].verdict = "blocked"}
GuidanceConverges ==
    <>[](~report.broken /\ Blocking = {}) => <>[](report.overall = "completed")
=============================================================================
