---------------------------- MODULE CampaignRun ----------------------------
(***************************************************************************)
(* The orchestrator of a v2.3 campaign, from the authorization to the      *)
(* integrated candidate: start(), runCampaign, executeTask and             *)
(* resolveIntegration of src/src/composition/orchestration-v23-runtime.ts. *)
(*                                                                         *)
(* One Node process.  The coordinator dispatches a batch of ready tasks,   *)
(* waits for the whole batch, and goes on; the tasks of a batch interleave *)
(* at every await.  The workers, the two journals and Git answer any way   *)
(* their ports allow, and at most MaxFaults of their operations fail, with *)
(* or without having taken effect.                                         *)
(***************************************************************************)
EXTENDS Naturals, Sequences, FiniteSets

CONSTANTS
    Task,           \* ids of the plan's tasks
    Integration,    \* id of the integration task
    PlanOrder,      \* plan.tasks, in the order of the plan
    Deps,           \* task.dependencies
    Rank,           \* place in the order of plan.ready (priority, then id)
    Profile,        \* the authorized profile of each task's role
    Limit,          \* budget limit of each limited profile
    MaxUse,         \* bound on the usage one execution reports
    Authorization,  \* authorizations considered: mode, parallel, allowCommits
    MaxFaults       \* bound on failing store, Git and workspace operations

TaskId == Task \cup {Integration}
ProfileId == {Profile[t] : t \in TaskId}
BudgetMode == {"observe", "admission", "hard_stop"}

INSTANCE CampaignJournal

(* validateCampaignPlan and validateRunAuthorization.  That Deps is acyclic *)
(* is not assumed: no safety property needs it.                             *)
ASSUME PlanAssumption ==
    /\ Integration \notin Task
    /\ IsFiniteSet(Task)
    /\ PlanOrder \in Seq(Task)
    /\ \A t \in Task : \E i \in DOMAIN PlanOrder : PlanOrder[i] = t
    /\ \A i, j \in DOMAIN PlanOrder : PlanOrder[i] = PlanOrder[j] => i = j
    /\ Deps \in [Task -> SUBSET Task]
    /\ Rank \in [Task -> Nat]
    /\ \A t, u \in Task : Rank[t] = Rank[u] => t = u
    /\ DOMAIN Profile = TaskId
    /\ DOMAIN Limit \subseteq ProfileId
    /\ \A p \in DOMAIN Limit : Limit[p] \in Nat \ {0}

ASSUME AuthorizationAssumption ==
    /\ Authorization \subseteq [mode : BudgetMode, parallel : Nat \ {0},
                                allowCommits : BOOLEAN]
    /\ MaxUse \in Nat /\ MaxFaults \in Nat

VARIABLES
    auth,       \* the run authorization
    phase,      \* where the coordinator (start, runCampaign) is
    cursor,     \* position of its pass over the plan
    pending, completed, failures,   \* its sets of task ids
    batch,      \* tasks of the current Promise.all
    tpc,        \* where executeTask is, per task
    verdict,    \* terminal status executeTask is about to record
    hardStop,   \* hardStop.signal.aborted
    deaf,       \* workers launched when the signal was already aborted
    used,       \* CampaignBudget.totals
    integ,      \* the integration worktree
    attempt,    \* attempt journal: last status per task
    journal,    \* event journal: its projection
    poisoned,   \* the event writer's queue holds a rejected promise
    faults      \* failures so far

stores == <<attempt, journal, poisoned, faults>>
sets == <<pending, completed, failures>>
vars == <<auth, phase, cursor, sets, batch, tpc, verdict, hardStop, deaf, used,
          integ, stores>>

NoIntegration == [status |-> "none", picked |-> <<>>, left |-> <<>>, human |-> FALSE]

Init ==
    /\ auth \in Authorization
    /\ phase = "emitPlanned" /\ cursor = 1
    /\ pending = Task /\ completed = {} /\ failures = {}
    /\ batch = {}
    /\ tpc = [t \in Task |-> "idle"]
    /\ verdict = [t \in TaskId |-> "none"]
    /\ hardStop = FALSE /\ deaf = {}
    /\ used = [p \in ProfileId |-> 0]
    /\ integ = NoIntegration
    /\ attempt = [t \in TaskId |-> "none"]
    /\ journal = NoEvents
    /\ poisoned = FALSE
    /\ faults = 0

-----------------------------------------------------------------------------
(* The stores and the budget *)

Fault == faults < MaxFaults /\ faults' = faults + 1

(* A failed append may have written the revision file before it failed on   *)
(* the index: the entry is then in the journal although the caller sees an  *)
(* error.  The event writer chains every emit on the previous one, so one   *)
(* rejected append rejects all that follow.                                 *)
EventOk(after) == ~poisoned /\ journal' = after /\ UNCHANGED <<poisoned, faults>>

EventRejects(after) ==
    \/ poisoned /\ UNCHANGED <<journal, poisoned, faults>>
    \/ ~poisoned /\ Fault /\ poisoned' = TRUE /\ journal' \in {journal, after}

EmitOk(kind, t) == EventOk(WithTaskEvent(journal, kind, t)) /\ UNCHANGED attempt
EmitRejects(kind, t) == EventRejects(WithTaskEvent(journal, kind, t)) /\ UNCHANGED attempt
CampaignOk(kind) == EventOk(WithCampaignEvent(journal, kind)) /\ UNCHANGED attempt
CampaignRejects(kind) == EventRejects(WithCampaignEvent(journal, kind)) /\ UNCHANGED attempt

AppendOk(t, status) ==
    /\ AttemptMayBecome(attempt[t], status)
    /\ attempt' = [attempt EXCEPT ![t] = status]
    /\ UNCHANGED <<journal, poisoned, faults>>

AppendRejects(t, status) ==
    /\ \/ ~AttemptMayBecome(attempt[t], status) /\ UNCHANGED <<attempt, faults>>
       \/ /\ AttemptMayBecome(attempt[t], status) /\ Fault
          /\ attempt' \in {attempt, [attempt EXCEPT ![t] = status]}
    /\ UNCHANGED <<journal, poisoned>>

GitFails == Fault /\ UNCHANGED <<attempt, journal, poisoned>>

(* CampaignBudget.decision: the limit counts as exceeded once it is reached. *)
Exceeded(p, totals) == p \in DOMAIN Limit /\ totals[p] >= Limit[p]

(* Mutant of BudgetRefuses: admission mode lets every task in. *)
BudgetRefuses_HardStopOnly(p) == auth.mode = "hard_stop" /\ Exceeded(p, used)

BudgetRefuses(p) == auth.mode # "observe" /\ Exceeded(p, used)

-----------------------------------------------------------------------------
(* executeTask *)

TaskVars == <<tpc, verdict, hardStop, deaf, used>>
CoordVars == <<auth, phase, cursor, sets, batch, integ>>

TaskGoto(t, label) == tpc' = [tpc EXCEPT ![t] = label]

At(t, label) == tpc[t] = label /\ UNCHANGED CoordVars
Local == UNCHANGED <<verdict, hardStop, deaf, used>>

(* A task appends to its attempt journal, or emits an event, and goes on to *)
(* ok or, when the store rejects, to no.                                    *)
Appends(t, from, status, ok, no) ==
    /\ At(t, from) /\ Local
    /\ \/ AppendOk(t, status) /\ TaskGoto(t, ok)
       \/ AppendRejects(t, status) /\ TaskGoto(t, no)

Emits(t, from, kind, ok, no) ==
    /\ At(t, from) /\ Local
    /\ \/ EmitOk(kind, t) /\ TaskGoto(t, ok)
       \/ EmitRejects(kind, t) /\ TaskGoto(t, no)

(* A refused task only reports.  This emit is outside the try: if it is     *)
(* rejected, executeTask is, and with it the Promise.all.                   *)
Refuse(t) == Emits(t, "refused", "task_budget_stopped", "over", "threw")

(* The workspace the coordinator asked for exists, or its creation failed. *)
Allocate(t) ==
    /\ At(t, "alloc") /\ Local
    /\ \/ TaskGoto(t, "prepare") /\ UNCHANGED stores
       \/ GitFails /\ TaskGoto(t, "catchEmit")

Prepare(t) == Appends(t, "prepare", "prepared", "emitPrepared", "catchEmit")

EmitPrepared(t) == Emits(t, "emitPrepared", "task_prepared", "begin", "catchAppend")

Begin(t) == Appends(t, "begin", "running", "emitStarted", "catchAppend")

(* worker.execute follows the emit in the same turn.  The adapter listens   *)
(* for the abort only after it launched the worker: one launched after the  *)
(* abort never hears of it (mastra-task-worker-adapter.ts:42-44).           *)
EmitStarted(t) ==
    /\ At(t, "emitStarted")
    /\ UNCHANGED <<verdict, hardStop, used>>
    /\ \/ /\ EmitOk("task_started", t) /\ TaskGoto(t, "working")
          /\ deaf' = IF hardStop THEN deaf \cup {t} ELSE deaf
       \/ /\ EmitRejects("task_started", t) /\ TaskGoto(t, "catchAppend")
          /\ UNCHANGED deaf

Closes(t, status) == TaskGoto(t, "close") /\ verdict' = [verdict EXCEPT ![t] = status]

(* The worker answers, its usage is recorded and the answer judged, all in  *)
(* one turn: over the limit in hard_stop mode first, then its status, the   *)
(* proofs and the authority to commit.  Only an abort it listens to cancels *)
(* a worker.                                                                *)
WorkerReturns(t, status, proofs, use) ==
    /\ At(t, "working")
    /\ status = "cancelled" => hardStop /\ t \notin deaf
    /\ LET p == Profile[t]
           totals == [used EXCEPT ![p] = @ + use]
           stop == auth.mode = "hard_stop" /\ Exceeded(p, totals)
       IN /\ used' = totals
          /\ hardStop' = (hardStop \/ stop)
          /\ IF stop THEN Closes(t, "budget_stopped")
             ELSE IF status # "succeeded" THEN Closes(t, status)
             ELSE IF ~proofs THEN Closes(t, "failed")
             ELSE IF ~auth.allowCommits THEN Closes(t, "blocked")
             ELSE TaskGoto(t, "commit") /\ UNCHANGED verdict
    /\ UNCHANGED <<deaf, stores>>

WorkerThrows(t) ==
    /\ At(t, "working") /\ Local
    /\ TaskGoto(t, "catchAppend") /\ UNCHANGED stores

KindOf(status) ==
    CASE status = "budget_stopped" -> "task_budget_stopped"
      [] status = "cancelled" -> "task_cancelled"
      [] status = "blocked" -> "task_blocked"
      [] OTHER -> "task_failed"

CloseAttempt(t) == Appends(t, "close", verdict[t], "report", "catchAppend")

Report(t) == Emits(t, "report", KindOf(verdict[t]), "over", "catchEmit")

(* Mutant of CommitTask: the success is announced before it is recorded. *)
CommitTask_AnnouncesFirst(t) ==
    /\ At(t, "commit") /\ Local
    /\ TaskGoto(t, "emitSucceeded") /\ UNCHANGED stores

(* git.commitTask also rejects a change outside the write scopes, a secret *)
(* or an empty change set: any worker can make it throw.                   *)
CommitTask(t) ==
    /\ At(t, "commit") /\ Local
    /\ TaskGoto(t, "succeed") \/ TaskGoto(t, "catchAppend")
    /\ UNCHANGED stores

Succeed(t) == Appends(t, "succeed", "succeeded", "emitSucceeded", "catchAppend")

EmitSucceeded(t) ==
    Emits(t, "emitSucceeded", "task_succeeded", "delivered", "catchAppend")

(* The catch clause records a failure in both journals and swallows what    *)
(* they answer.                                                             *)
CatchAppend(t) == Appends(t, "catchAppend", "failed", "catchEmit", "catchEmit")

CatchEmit(t) == Emits(t, "catchEmit", "task_failed", "over", "over")

WorkerStatus == {"succeeded", "failed", "blocked", "cancelled"}

TaskStep(t) ==
    \/ Refuse(t) \/ Allocate(t) \/ Prepare(t) \/ EmitPrepared(t) \/ Begin(t)
    \/ EmitStarted(t) \/ WorkerThrows(t) \/ CloseAttempt(t) \/ Report(t)
    \/ CommitTask(t) \/ Succeed(t) \/ EmitSucceeded(t) \/ CatchAppend(t) \/ CatchEmit(t)
    \/ \E status \in WorkerStatus, proofs \in BOOLEAN, use \in 0 .. MaxUse :
          WorkerReturns(t, status, proofs, use)

-----------------------------------------------------------------------------
(* start() and the loop of runCampaign *)

Phase(from, to) == phase = from /\ phase' = to

Quiet == UNCHANGED <<auth, tpc, hardStop, deaf>>
Loop == Quiet /\ UNCHANGED <<verdict, used, integ>>
Plan == UNCHANGED <<cursor, sets, batch>>

(* Before the try of start(): a rejection reaches the caller as it is. *)
EmitPlanned ==
    /\ Loop /\ Plan
    /\ \/ CampaignOk("campaign_planned") /\ Phase("emitPlanned", "emitAuthorized")
       \/ CampaignRejects("campaign_planned") /\ Phase("emitPlanned", "rejected")

EmitAuthorized ==
    /\ Loop /\ Plan
    /\ \/ CampaignOk("campaign_authorized") /\ Phase("emitAuthorized", "scan")
       \/ CampaignRejects("campaign_authorized") /\ Phase("emitAuthorized", "rejected")

(* One forward pass over the plan blocks the pending tasks with a failed    *)
(* dependency, those blocked earlier in the same pass included.             *)
Blockable(i) == PlanOrder[i] \in pending /\ Deps[PlanOrder[i]] \cap failures # {}

BlockDependent ==
    \E i \in cursor .. Len(PlanOrder) :
        LET t == PlanOrder[i] IN
        /\ phase = "scan" /\ Blockable(i)
        /\ \A j \in cursor .. i - 1 : ~Blockable(j)
        /\ pending' = pending \ {t} /\ failures' = failures \cup {t}
        /\ cursor' = i + 1
        /\ \/ EmitOk("task_blocked", t) /\ phase' = "scan"
           \/ EmitRejects("task_blocked", t) /\ phase' = "throwing"
        /\ Loop /\ UNCHANGED <<completed, batch>>

ScanDone == \A i \in cursor .. Len(PlanOrder) : ~Blockable(i)

(* Mutant of Ready: a settled dependency is taken for a completed one. *)
Ready_OnceSettled == {t \in pending : Deps[t] \cap pending = {}}

(* plan.ready, restricted to pending tasks, cut to the parallelism. *)
Ready == {t \in pending : Deps[t] \subseteq completed}

Selected ==
    {t \in Ready : Cardinality({u \in Ready : Rank[u] < Rank[t]}) < auth.parallel}

(* The whole batch passes the hard-stop and budget admission in one turn,   *)
(* before any of its workers starts.                                        *)
Admission(t) == IF hardStop \/ BudgetRefuses(Profile[t]) THEN "refused" ELSE "alloc"

Dispatch ==
    /\ phase = "scan" /\ ScanDone /\ Ready # {}
    /\ phase' = "batch" /\ cursor' = 1
    /\ batch' = Selected
    /\ tpc' = [t \in Task |-> IF t \in Selected THEN Admission(t) ELSE tpc[t]]
    /\ UNCHANGED <<auth, sets, verdict, hardStop, deaf, used, integ, stores>>

NothingReady ==
    /\ ScanDone /\ Ready = {} /\ Phase("scan", "drain")
    /\ Loop /\ Plan /\ UNCHANGED stores

(* The results of the batch are taken, and left is what stays pending. *)
Takes(left) ==
    /\ Phase("batch", "scan")
    /\ pending' = left
    /\ completed' = completed \cup {t \in batch : tpc[t] = "delivered"}
    /\ failures' = failures \cup {t \in batch : tpc[t] # "delivered"}
    /\ batch' = {}
    /\ Loop /\ UNCHANGED <<cursor, stores>>

(* Mutant of Collect: the first result is taken for the batch (Promise.race). *)
Collect_First ==
    /\ \E t \in batch : tpc[t] \in {"over", "delivered"}
    /\ Takes(pending \ batch)

(* Mutant of Collect: a task without a commit stays pending, to be retried. *)
Collect_KeepsFailed ==
    /\ \A t \in batch : tpc[t] \in {"over", "delivered"}
    /\ Takes(pending \ {t \in batch : tpc[t] = "delivered"})

(* The results of a complete batch. *)
Collect ==
    /\ \A t \in batch : tpc[t] \in {"over", "delivered"}
    /\ Takes(pending \ batch)

(* Promise.all rejects at once; the other tasks of the batch go on. *)
BatchRejects ==
    /\ \E t \in batch : tpc[t] = "threw"
    /\ Phase("batch", "throwing")
    /\ Loop /\ Plan /\ UNCHANGED stores

(* Tasks no pass blocked and no batch could take (the code leaves them in   *)
(* pending, which nothing reads any more).                                  *)
BlockUnreachable ==
    \E t \in pending :
        /\ phase = "drain"
        /\ \A u \in pending \ {t} : \E i, j \in DOMAIN PlanOrder :
              PlanOrder[i] = t /\ PlanOrder[j] = u /\ i < j
        /\ pending' = pending \ {t} /\ failures' = failures \cup {t}
        /\ \/ EmitOk("task_blocked", t) /\ phase' = "drain"
           \/ EmitRejects("task_blocked", t) /\ phase' = "throwing"
        /\ Loop /\ UNCHANGED <<cursor, completed, batch>>

ReportBlocked ==
    /\ phase = "drain" /\ pending = {} /\ failures # {}
    /\ \/ CampaignOk("campaign_blocked") /\ phase' = "loading"
       \/ CampaignRejects("campaign_blocked") /\ phase' = "throwing"
    /\ Loop /\ Plan

(* currentResult reads the events back. *)
ReturnBlocked ==
    /\ phase = "loading"
    /\ \/ phase' = "returned" /\ UNCHANGED stores
       \/ phase' = "throwing" /\ GitFails
    /\ Loop /\ Plan

AllSucceeded ==
    /\ pending = {} /\ failures = {} /\ Phase("drain", "integrate")
    /\ Loop /\ Plan /\ UNCHANGED stores

(* The catch clause of start(). *)
CatchCampaign ==
    /\ Phase("throwing", "rejected")
    /\ CampaignOk("campaign_blocked") \/ CampaignRejects("campaign_blocked")
    /\ Loop /\ Plan

-----------------------------------------------------------------------------
(* Integration: git.integrate, resolveIntegration, buildPriorityFallback *)

Resolving == Quiet /\ Plan

(* git cherry-picks the commits of left one by one, and stops at the first  *)
(* that conflicts, leaving it and those behind it.  The very first pick     *)
(* lands on the snapshot its commit was made on and cannot conflict.        *)
Picks(picked, left) ==
    {[status |-> IF n = Len(left) THEN "integrated" ELSE "conflicted",
      picked |-> picked \o SubSeq(left, 1, n),
      left   |-> SubSeq(left, n + 1, Len(left)),
      human  |-> FALSE] : n \in (IF picked = <<>> THEN 1 ELSE 0) .. Len(left)}

(* orderedCommits: the plan's order. *)
Integrate ==
    /\ phase = "integrate"
    /\ \/ /\ integ' \in Picks(<<>>, PlanOrder) /\ UNCHANGED stores
          /\ phase' = IF integ'.status = "integrated" THEN "inspect" ELSE "resolve"
       \/ GitFails /\ phase' = "throwing" /\ UNCHANGED integ
    /\ Resolving /\ UNCHANGED <<verdict, used>>

Resolve(from, to) == Phase(from, to) /\ Loop /\ Plan

(* The same for the integration task; most of resolveIntegration is outside *)
(* any try, and a rejection there ends the campaign.                        *)
ResolverAppends(from, status, ok, no) ==
    \/ Resolve(from, ok) /\ AppendOk(Integration, status)
    \/ Resolve(from, no) /\ AppendRejects(Integration, status)

ResolverEmits(from, kind, ok, no) ==
    \/ Resolve(from, ok) /\ EmitOk(kind, Integration)
    \/ Resolve(from, no) /\ EmitRejects(kind, Integration)

AdmitResolver ==
    /\ Resolve("resolve", IF BudgetRefuses(Profile[Integration])
                             THEN "refuseResolver" ELSE "prepareResolver")
    /\ UNCHANGED stores

RefuseResolver == ResolverEmits("refuseResolver", "task_blocked", "fallback", "throwing")

PrepareResolver ==
    ResolverAppends("prepareResolver", "prepared", "emitResolverPrepared", "throwing")

EmitResolverPrepared ==
    ResolverEmits("emitResolverPrepared", "task_prepared", "beginResolver", "throwing")

BeginResolver ==
    ResolverAppends("beginResolver", "running", "emitResolverStarted", "throwing")

EmitResolverStarted ==
    ResolverEmits("emitResolverStarted", "task_started", "resolver", "throwing")

ResolverThrows == Resolve("resolver", "failResolver") /\ UNCHANGED stores

ResolverReturns(status, proofs, use) ==
    /\ phase = "resolver"
    /\ LET p == Profile[Integration]
           totals == [used EXCEPT ![p] = @ + use]
           stop == auth.mode = "hard_stop" /\ Exceeded(p, totals)
           good == status = "succeeded" /\ proofs /\ ~stop /\ auth.allowCommits
       IN /\ used' = totals
          /\ verdict' = [verdict EXCEPT ![Integration] =
                            IF good THEN @ ELSE IF stop THEN "budget_stopped" ELSE "failed"]
          /\ phase' = IF good THEN "continue" ELSE "closeResolver"
    /\ Resolving /\ UNCHANGED <<integ, stores>>

CloseResolver ==
    ResolverAppends("closeResolver", verdict[Integration], "reportResolver", "throwing")

ReportResolver ==
    ResolverEmits("reportResolver", KindOf(verdict[Integration]), "fallback", "throwing")

(* failIntegrationAttempt swallows what both journals answer. *)
FailResolver ==
    ResolverAppends("failResolver", "failed", "emitResolverFailed", "emitResolverFailed")

EmitResolverFailed ==
    ResolverEmits("emitResolverFailed", "task_failed", "fallback", "fallback")

(* resolveIntegrationConflict: the conflicting commit is continued and the  *)
(* rest picked, up to a second conflict; or the worker left it unresolved.  *)
ContinuePicks ==
    /\ phase = "continue"
    /\ \/ /\ integ' \in Picks(Append(integ.picked, Head(integ.left)), Tail(integ.left))
          /\ phase' = IF integ'.status = "integrated" THEN "succeedResolver" ELSE "fallbackAgain"
       \/ phase' = "failResolver" /\ UNCHANGED integ
    /\ Resolving /\ UNCHANGED <<verdict, used, stores>>

(* Mutant of Fallbacks: the result is not marked for a human. *)
Fallbacks_Unmarked ==
    {[status |-> "integrated", left |-> <<>>, human |-> FALSE, picked |-> integ.picked]}

(* buildPriorityFallback gives up the conflicting commit and every later    *)
(* one that conflicts in its turn.  The candidate is then for a human only. *)
Fallbacks ==
    LET rest == Tail(integ.left)
    IN {[status |-> "integrated", left |-> <<>>, human |-> TRUE,
         picked |-> integ.picked \o
             SelectSeq(rest, LAMBDA t : t \in kept)] : kept \in SUBSET {rest[i] : i \in DOMAIN rest}}

Fallback ==
    /\ phase \in {"fallback", "fallbackAgain"}
    /\ \/ /\ integ' \in Fallbacks /\ UNCHANGED stores
          /\ phase' = IF phase = "fallback" THEN "inspect" ELSE "succeedResolver"
       \/ GitFails /\ phase' = "throwing" /\ UNCHANGED integ
    /\ Resolving /\ UNCHANGED <<verdict, used>>

SucceedResolver ==
    ResolverAppends("succeedResolver", "succeeded", "emitResolverSucceeded", "throwing")

EmitResolverSucceeded ==
    ResolverEmits("emitResolverSucceeded", "task_succeeded", "inspect", "throwing")

(* inspectRiskChanges; what follows the candidate is in CampaignApply. *)
Inspect ==
    \/ Resolve("inspect", "candidate") /\ UNCHANGED stores
    \/ Resolve("inspect", "throwing") /\ GitFails

Coordinate ==
    \/ EmitPlanned \/ EmitAuthorized \/ BlockDependent \/ Dispatch \/ NothingReady
    \/ Collect \/ BatchRejects \/ BlockUnreachable \/ ReportBlocked \/ ReturnBlocked
    \/ AllSucceeded \/ CatchCampaign
    \/ Integrate \/ AdmitResolver \/ RefuseResolver \/ PrepareResolver
    \/ EmitResolverPrepared \/ BeginResolver \/ EmitResolverStarted \/ ResolverThrows
    \/ CloseResolver \/ ReportResolver \/ FailResolver \/ EmitResolverFailed
    \/ ContinuePicks \/ Fallback \/ SucceedResolver \/ EmitResolverSucceeded \/ Inspect
    \/ \E status \in WorkerStatus \ {"cancelled"}, proofs \in BOOLEAN, use \in 0 .. MaxUse :
          ResolverReturns(status, proofs, use)

Next == Coordinate \/ \E t \in Task : TaskStep(t)

(* The event loop runs every continuation, the stores and Git answer, and   *)
(* the worker runner ends a worker after its timeout of one hour.           *)
Fairness == WF_vars(Coordinate) /\ \A t \in Task : WF_vars(TaskStep(t))

Spec == Init /\ [][Next]_vars

FairSpec == Spec /\ Fairness

-----------------------------------------------------------------------------
(* Properties *)

TaskLabels == {"idle", "refused", "alloc", "prepare", "emitPrepared", "begin",
               "emitStarted", "working", "close", "report", "commit", "succeed",
               "emitSucceeded", "catchAppend", "catchEmit", "over", "delivered", "threw"}

(* Every variable keeps its type. *)
TypeOK ==
    /\ auth \in Authorization
    /\ cursor \in 1 .. Len(PlanOrder) + 1
    /\ pending \subseteq Task /\ completed \subseteq Task /\ failures \subseteq Task
    /\ batch \subseteq Task
    /\ tpc \in [Task -> TaskLabels]
    /\ verdict \in [TaskId -> Terminal \cup {"none"}]
    /\ hardStop \in BOOLEAN /\ deaf \subseteq Task
    /\ used \in [ProfileId -> Nat]
    /\ integ.status \in {"none", "conflicted", "integrated"}
    /\ attempt \in [TaskId -> AttemptStatus]
    /\ journal \in Projection
    /\ poisoned \in BOOLEAN /\ faults \in 0 .. MaxFaults

(* No attempt exists for a task before every task it depends on has a       *)
(* succeeded attempt, whatever fails in between (orchestration-plan.ts:109, *)
(* orchestration-v23-runtime.ts:209-217).                                   *)
DependenciesFirst ==
    \A t \in Task : attempt[t] # "none" =>
        \A d \in Deps[t] : attempt[d] = "succeeded" /\ journal.tasks[d] = "succeeded"

(* The event journal never announces what the attempt journal does not yet  *)
(* record: each event follows its append (orchestration-v23-runtime.ts      *)
(* :330-354), in every interleaving and after any failure.                  *)
EventsFollowAttempts ==
    \A t \in TaskId :
        LET shown == journal.tasks[t] IN
        /\ shown = "prepared" => attempt[t] # "none"
        /\ shown = "running" => attempt[t] \notin {"none", "prepared"}
        /\ shown = "succeeded" => attempt[t] = "succeeded"
        /\ shown = "cancelled" => attempt[t] = "cancelled"
        /\ shown \in {"blocked", "budget_stopped"} => attempt[t] \in {"none", shown}

(* A terminal attempt is never rewritten: when the event of a succeeded     *)
(* task is lost, the catch clause tries to record a failure over the        *)
(* success (orchestration-v23-runtime.ts:363-365) and must be refused.      *)
TerminalAttemptsStay ==
    [][\A t \in TaskId : attempt[t] \in Terminal => attempt'[t] = attempt[t]]_vars

(* Admission bounds the overshoot: once a limit is reached no new task is   *)
(* admitted, so a profile never uses more than its limit and one batch.     *)
OvershootIsOneBatch ==
    auth.mode # "observe" =>
        \A p \in DOMAIN Limit : used[p] < Limit[p] + auth.parallel * MaxUse

Working == {t \in Task : tpc[t] = "working"}

(* A candidate exists only when every task succeeded in both journals, and  *)
(* it drops a task's commit only if it is marked for a human.               *)
CandidateIsComplete ==
    phase = "candidate" =>
        /\ \A t \in Task : attempt[t] = "succeeded" /\ journal.tasks[t] = "succeeded"
        /\ \A t \in Task : integ.human \/ \E i \in DOMAIN integ.picked : integ.picked[i] = t

(* When start() returns, or produces a candidate, no worker of the campaign *)
(* is left behind, and the projection shows the outcome.                    *)
ReturnedMeansSettled ==
    /\ phase \in {"returned", "candidate", "integrate", "inspect"} =>
          \A t \in Task : tpc[t] \in {"idle", "over", "delivered"}
    /\ phase = "returned" => journal.status = "blocked"
    /\ phase = "rejected" /\ ~poisoned => journal.status = "blocked"

(* start() always settles: no batch waits for ever, no pass loops. *)
StartSettles == <>(phase \in {"returned", "rejected", "candidate"})

(* Hard stop stops the workers: none of those that work on after the abort  *)
(* was launched too late to hear of it.                                     *)
HardStopReachesEveryWorker == hardStop => Working \cap deaf = {}

(* Commits are integrated in an order compatible with the dependencies. *)
IntegratedInDagOrder ==
    \A i, j \in DOMAIN integ.picked :
        i < j => integ.picked[j] \notin Deps[integ.picked[i]]
=============================================================================
