------------------------- MODULE CampaignRunProofs -------------------------
(***************************************************************************)
(* The safety properties of CampaignRun hold for every plan, authorization *)
(* and number of failures.  The inductive invariant IInv ties the position *)
(* of each task in executeTask to the coordinator's three sets (Placed),   *)
(* to the two journals (Records; ResolverRecorded for the integration) and *)
(* to the budget it may still use (Budgeted), and the coordinator's phase  *)
(* to how start() ends (Ends) and to the commits picked (Covered).         *)
(*                                                                         *)
(* Steps are grouped by what they leave alone: executeTask's (TaskFrame),  *)
(* the loop's (LoopFrame), the integration's (IntegrationFrame).  A part   *)
(* of IInv is kept by most of them because of the frame alone.             *)
(***************************************************************************)
EXTENDS CampaignRun, FiniteSetTheorems, SequenceTheorems, TLAPS

(* Where a task executes, may still use budget, and is over with.           *)
Ended == {"idle", "over", "delivered", "threw"}
LiveLabels == {"alloc", "prepare", "emitPrepared", "begin", "emitStarted", "working"}

(* What any step of executeTask leaves alone, and how it changes the rest.  *)
TaskFrame(t) ==
    /\ UNCHANGED <<auth, phase, cursor, pending, completed, failures, batch, integ>>
    /\ tpc[t] \notin Ended
    /\ \E l \in TaskLabels \ {"idle"} :
          /\ tpc' = [tpc EXCEPT ![t] = l]
          /\ l = "threw" => poisoned'
          /\ l \in LiveLabels => tpc[t] \in LiveLabels
    /\ \/ verdict' = verdict
       \/ \E v \in Terminal : verdict' = [verdict EXCEPT ![t] = v]
    /\ \/ attempt' = attempt
       \/ \E a \in AttemptStatus :
             attempt' = [attempt EXCEPT ![t] = a] /\ AttemptMayBecome(attempt[t], a)
    /\ journal' \in Projection
    /\ \/ journal' = journal
       \/ \E k \in DOMAIN TaskKind : journal'.tasks = [journal.tasks EXCEPT ![t] = TaskKind[k]]
    /\ poisoned' \in BOOLEAN /\ (poisoned => poisoned')
    /\ faults' \in 0 .. MaxFaults /\ hardStop' \in BOOLEAN /\ deaf' \subseteq Task
    /\ \/ used' = used
       \/ /\ tpc[t] = "working" /\ tpc'[t] \notin LiveLabels
          /\ \E use \in 0 .. MaxUse : used' = [used EXCEPT ![Profile[t]] = @ + use]

(* The phases behind AllSucceeded, and the steps of the integration.        *)
Integrating == {"integrate", "resolve", "refuseResolver", "prepareResolver",
                "emitResolverPrepared", "beginResolver", "emitResolverStarted", "resolver",
                "closeResolver", "reportResolver", "failResolver", "emitResolverFailed",
                "continue", "fallback", "fallbackAgain", "succeedResolver",
                "emitResolverSucceeded", "inspect", "candidate"}

ResolverStep ==
    \/ RefuseResolver \/ PrepareResolver \/ EmitResolverPrepared \/ BeginResolver
    \/ EmitResolverStarted \/ CloseResolver \/ ReportResolver \/ FailResolver
    \/ EmitResolverFailed \/ SucceedResolver \/ EmitResolverSucceeded

IntegrationStep ==
    \/ Integrate \/ AdmitResolver \/ ResolverThrows \/ ContinuePicks \/ Fallback \/ Inspect
    \/ ResolverStep
    \/ \E status \in WorkerStatus \ {"cancelled"}, proofs \in BOOLEAN, use \in 0 .. MaxUse :
          ResolverReturns(status, proofs, use)

(* What they leave alone.                                                   *)
IntegrationFrame ==
    /\ UNCHANGED <<auth, cursor, pending, completed, failures, batch, tpc, hardStop, deaf>>
    /\ phase \in Integrating /\ phase' \in Integrating \cup {"throwing"}
    /\ \/ verdict' = verdict
       \/ \E v \in Terminal : verdict' = [verdict EXCEPT ![Integration] = v]
    /\ \/ attempt' = attempt
       \/ \E a \in AttemptStatus :
             /\ attempt' = [attempt EXCEPT ![Integration] = a]
             /\ AttemptMayBecome(attempt[Integration], a)
    /\ journal' \in Projection
    /\ \/ journal' = journal
       \/ \E k \in DOMAIN TaskKind :
             journal'.tasks = [journal.tasks EXCEPT ![Integration] = TaskKind[k]]
    /\ poisoned' \in BOOLEAN /\ (poisoned => poisoned')
    /\ faults' \in 0 .. MaxFaults
    /\ integ'.status \in {"none", "conflicted", "integrated"}
    /\ \/ used' = used
       \/ /\ phase = "resolver"
          /\ \E use \in 0 .. MaxUse : used' = [used EXCEPT ![Profile[Integration]] = @ + use]

(* The steps of start() and of the loop, and what they leave alone.         *)
LoopStep ==
    \/ EmitPlanned \/ EmitAuthorized \/ BlockDependent \/ Dispatch \/ NothingReady
    \/ Collect \/ BatchRejects \/ BlockUnreachable \/ ReportBlocked \/ ReturnBlocked
    \/ AllSucceeded \/ CatchCampaign

LoopFrame ==
    /\ UNCHANGED <<auth, verdict, hardStop, deaf, used, integ, attempt>>
    /\ journal' \in Projection
    /\ poisoned' \in BOOLEAN /\ (poisoned => poisoned')
    /\ faults' \in 0 .. MaxFaults
    /\ cursor' \in 1 .. Len(PlanOrder) + 1
    /\ pending' \subseteq pending

-----------------------------------------------------------------------------
(* The stores *)

(* The events about tasks, and what each shows. *)
LEMMA Kinds ==
    /\ DOMAIN TaskKind = {"task_prepared", "task_started", "task_succeeded", "task_failed",
                          "task_blocked", "task_budget_stopped", "task_cancelled"}
    /\ TaskKind["task_prepared"] = "prepared" /\ TaskKind["task_started"] = "running"
    /\ TaskKind["task_succeeded"] = "succeeded" /\ TaskKind["task_failed"] = "failed"
    /\ TaskKind["task_blocked"] = "blocked" /\ TaskKind["task_cancelled"] = "cancelled"
    /\ TaskKind["task_budget_stopped"] = "budget_stopped"
  BY DEF TaskKind

(* The event about a terminal status shows that status. *)
LEMMA KindShows ==
    ASSUME NEW s \in {"budget_stopped", "failed", "blocked", "cancelled"}
    PROVE  KindOf(s) \in DOMAIN TaskKind /\ TaskKind[KindOf(s)] = s
  BY Kinds DEF KindOf

(* What an emit about a task does to the event journal. *)
LEMMA EmitEffect ==
    ASSUME TypeOK, NEW t \in TaskId, NEW kind \in DOMAIN TaskKind,
           EmitOk(kind, t) \/ EmitRejects(kind, t)
    PROVE  /\ attempt' = attempt
           /\ journal' \in Projection /\ poisoned' \in BOOLEAN /\ faults' \in 0 .. MaxFaults
           /\ poisoned => poisoned'
           /\ EmitRejects(kind, t) => poisoned'
           /\ \/ journal' = journal
              \/ journal'.tasks = [journal.tasks EXCEPT ![t] = TaskKind[kind]]
           /\ EmitOk(kind, t) =>
                 /\ journal'.tasks = [journal.tasks EXCEPT ![t] = TaskKind[kind]]
                 /\ ~poisoned /\ ~poisoned'
  <1> DEFINE W == WithTaskEvent(journal, kind, t)
  <1>1. W \in Projection /\ W.tasks = [journal.tasks EXCEPT ![t] = TaskKind[kind]]
    BY Kinds DEF TypeOK, Projection, WithTaskEvent
  <1> HIDE DEF W
  <1>2. journal \in Projection /\ poisoned \in BOOLEAN /\ faults \in 0 .. MaxFaults
    BY DEF TypeOK
  <1>3. CASE EmitOk(kind, t)
    BY <1>1, <1>2, <1>3 DEF EmitOk, EventOk, EmitRejects, EventRejects, W
  <1>4. CASE EmitRejects(kind, t)
    <2>1. /\ attempt' = attempt
          /\ \/ poisoned /\ poisoned' /\ UNCHANGED <<journal, faults>>
             \/ ~poisoned /\ Fault /\ poisoned' /\ journal' \in {journal, W}
      BY <1>2, <1>4 DEF EmitRejects, EventRejects, W
    <2>2. EmitOk(kind, t) =>
              journal' = W /\ ~poisoned /\ ~poisoned' /\ UNCHANGED faults
      BY <1>2 DEF EmitOk, EventOk, W
    <2>3. faults' \in 0 .. MaxFaults
      BY <1>2, <2>1, AuthorizationAssumption DEF Fault
    <2>4. journal' \in {journal, W} /\ poisoned' /\ attempt' = attempt
      BY <2>1
    <2> QED BY Zenon, <1>1, <1>2, <2>2, <2>3, <2>4
  <1> QED BY <1>3, <1>4

(* What an emit about the campaign does to the event journal. *)
LEMMA CampaignEffect ==
    ASSUME TypeOK, NEW kind \in DOMAIN CampaignKind,
           CampaignOk(kind) \/ CampaignRejects(kind)
    PROVE  /\ attempt' = attempt
           /\ journal' \in Projection /\ poisoned' \in BOOLEAN /\ faults' \in 0 .. MaxFaults
           /\ poisoned => poisoned'
           /\ CampaignRejects(kind) => poisoned'
           /\ journal'.tasks = journal.tasks
           /\ CampaignOk(kind) => /\ journal'.status = CampaignKind[kind]
                                  /\ ~poisoned /\ ~poisoned'
  <1> DEFINE W == WithCampaignEvent(journal, kind)
  <1>1. /\ W \in Projection /\ W.tasks = journal.tasks
        /\ W.status = CampaignKind[kind]
    BY DEF TypeOK, Projection, WithCampaignEvent, CampaignKind
  <1> HIDE DEF W
  <1>2. journal \in Projection /\ poisoned \in BOOLEAN /\ faults \in 0 .. MaxFaults
    BY DEF TypeOK
  <1>3. CASE CampaignOk(kind)
    BY <1>1, <1>2, <1>3 DEF CampaignOk, EventOk, CampaignRejects, EventRejects, W
  <1>4. CASE CampaignRejects(kind)
    <2>1. /\ attempt' = attempt
          /\ \/ poisoned /\ poisoned' /\ UNCHANGED <<journal, faults>>
             \/ ~poisoned /\ Fault /\ poisoned' /\ journal' \in {journal, W}
      BY <1>2, <1>4 DEF CampaignRejects, EventRejects, W
    <2>2. CampaignOk(kind) =>
              journal' = W /\ ~poisoned /\ ~poisoned' /\ UNCHANGED faults
      BY <1>2 DEF CampaignOk, EventOk, W
    <2>3. faults' \in 0 .. MaxFaults
      BY <1>2, <2>1, AuthorizationAssumption DEF Fault
    <2>4. journal' \in {journal, W} /\ poisoned' /\ attempt' = attempt
      BY <2>1
    <2> QED BY Zenon, <1>1, <1>2, <2>2, <2>3, <2>4
  <1> QED BY <1>3, <1>4

(* What an append does to the attempt journal. *)
LEMMA AppendEffect ==
    ASSUME TypeOK, NEW t \in TaskId, NEW s \in AttemptStatus,
           AppendOk(t, s) \/ AppendRejects(t, s)
    PROVE  /\ UNCHANGED <<journal, poisoned>> /\ faults' \in 0 .. MaxFaults
           /\ attempt' \in [TaskId -> AttemptStatus]
           /\ \/ attempt' = attempt
              \/ /\ attempt' = [attempt EXCEPT ![t] = s]
                 /\ AttemptMayBecome(attempt[t], s)
           /\ AppendOk(t, s) => /\ attempt' = [attempt EXCEPT ![t] = s]
                                /\ AttemptMayBecome(attempt[t], s)
  BY Zenon, AuthorizationAssumption, SMT DEF TypeOK, AppendOk, AppendRejects, Fault

-----------------------------------------------------------------------------
(* The steps of executeTask *)

(* A task appends to its attempt journal. *)
LEMMA AppendsFrame ==
    ASSUME TypeOK, NEW t \in Task, NEW s \in AttemptStatus,
           NEW from \in TaskLabels \ Ended,
           NEW ok \in TaskLabels \ {"idle", "threw"}, NEW no \in TaskLabels \ {"idle", "threw"},
           ok \in LiveLabels => from \in LiveLabels,
           no \notin LiveLabels,
           Appends(t, from, s, ok, no)
    PROVE  TaskFrame(t)
  <1>1. t \in TaskId
    BY DEF TaskId
  <1>2. tpc[t] = from /\ UNCHANGED <<auth, phase, cursor, pending, completed, failures, batch, integ>>
    BY DEF Appends, At, CoordVars, sets
  <1>3. UNCHANGED <<verdict, hardStop, deaf, used>>
    BY DEF Appends, Local
  <1>4. \/ AppendOk(t, s) /\ tpc' = [tpc EXCEPT ![t] = ok]
        \/ AppendRejects(t, s) /\ tpc' = [tpc EXCEPT ![t] = no]
    BY DEF Appends, TaskGoto
  <1>5. /\ UNCHANGED <<journal, poisoned>> /\ faults' \in 0 .. MaxFaults
        /\ \/ attempt' = attempt
           \/ attempt' = [attempt EXCEPT ![t] = s] /\ AttemptMayBecome(attempt[t], s)
    BY <1>1, <1>4, AppendEffect
  <1>6. \E l \in {ok, no} : tpc' = [tpc EXCEPT ![t] = l]
    BY <1>4
  <1>7. \E l \in TaskLabels \ {"idle"} :
          /\ tpc' = [tpc EXCEPT ![t] = l]
          /\ l = "threw" => poisoned'
          /\ l \in LiveLabels => tpc[t] \in LiveLabels
    BY <1>2, <1>6
  <1> QED BY <1>2, <1>3, <1>5, <1>7 DEF TaskFrame, TypeOK

(* A task emits an event. *)
LEMMA EmitsFrame ==
    ASSUME TypeOK, NEW t \in Task, NEW kind \in DOMAIN TaskKind,
           NEW from \in TaskLabels \ Ended,
           NEW ok \in TaskLabels \ {"idle", "threw"}, NEW no \in TaskLabels \ {"idle"},
           ok \in LiveLabels => from \in LiveLabels,
           no \notin LiveLabels,
           Emits(t, from, kind, ok, no)
    PROVE  TaskFrame(t)
  <1>1. t \in TaskId
    BY DEF TaskId
  <1>2. tpc[t] = from /\ UNCHANGED <<auth, phase, cursor, pending, completed, failures, batch, integ>>
    BY DEF Emits, At, CoordVars, sets
  <1>3. UNCHANGED <<verdict, hardStop, deaf, used>>
    BY DEF Emits, Local
  <1>4. \/ EmitOk(kind, t) /\ tpc' = [tpc EXCEPT ![t] = ok]
        \/ EmitRejects(kind, t) /\ tpc' = [tpc EXCEPT ![t] = no]
    BY DEF Emits, TaskGoto
  <1>5. /\ attempt' = attempt
        /\ journal' \in Projection /\ poisoned' \in BOOLEAN /\ faults' \in 0 .. MaxFaults
        /\ poisoned => poisoned'
        /\ EmitRejects(kind, t) => poisoned'
        /\ \/ journal' = journal
           \/ journal'.tasks = [journal.tasks EXCEPT ![t] = TaskKind[kind]]
    BY <1>1, <1>4, EmitEffect
  <1>7. \E l \in TaskLabels \ {"idle"} :
          /\ tpc' = [tpc EXCEPT ![t] = l]
          /\ l = "threw" => poisoned'
          /\ l \in LiveLabels => tpc[t] \in LiveLabels
    BY <1>2, <1>4, <1>5
  <1> QED BY <1>2, <1>3, <1>5, <1>7 DEF TaskFrame, TypeOK

(* Every step of executeTask changes only what belongs to its task. *)
LEMMA TaskStepFrame ==
    ASSUME TypeOK, NEW t \in Task, TaskStep(t)
    PROVE  TaskFrame(t)
  <1>0. t \in TaskId
    BY DEF TaskId
  <1> USE Kinds DEF TaskLabels, Ended, LiveLabels, AttemptStatus, Terminal
  <1>1. ASSUME Refuse(t) PROVE TaskFrame(t)
    BY <1>1, EmitsFrame DEF Refuse
  <1>2. ASSUME Allocate(t) PROVE TaskFrame(t)
    <2>1. UNCHANGED <<attempt, journal, poisoned>> /\ faults' \in 0 .. MaxFaults
      BY <1>2, AuthorizationAssumption DEF Allocate, stores, GitFails, Fault, TypeOK
    <2> QED BY <1>2, <2>1 DEF Allocate, At, CoordVars, sets, Local, TaskGoto, TaskFrame, TypeOK
  <1>3. ASSUME Prepare(t) PROVE TaskFrame(t)
    BY <1>3, AppendsFrame DEF Prepare
  <1>4. ASSUME EmitPrepared(t) PROVE TaskFrame(t)
    BY <1>4, EmitsFrame DEF EmitPrepared
  <1>5. ASSUME Begin(t) PROVE TaskFrame(t)
    BY <1>5, AppendsFrame DEF Begin
  <1>6. ASSUME EmitStarted(t) PROVE TaskFrame(t)
    <2>1. EmitOk("task_started", t) \/ EmitRejects("task_started", t)
      BY <1>6 DEF EmitStarted
    <2>2. /\ attempt' = attempt
          /\ journal' \in Projection /\ poisoned' \in BOOLEAN /\ faults' \in 0 .. MaxFaults
          /\ poisoned => poisoned'
          /\ \/ journal' = journal
             \/ journal'.tasks = [journal.tasks EXCEPT ![t] = TaskKind["task_started"]]
      BY <1>0, <2>1, EmitEffect
    <2>3. /\ UNCHANGED <<auth, phase, cursor, pending, completed, failures, batch, integ>>
          /\ tpc[t] = "emitStarted" /\ UNCHANGED <<verdict, hardStop, used>>
          /\ tpc' \in {[tpc EXCEPT ![t] = "working"], [tpc EXCEPT ![t] = "catchAppend"]}
      BY <1>6 DEF EmitStarted, At, CoordVars, sets, TaskGoto
    <2>4. deaf' \subseteq Task
      BY <1>6 DEF EmitStarted, TypeOK
    <2>5. \E l \in TaskLabels \ {"idle"} :
            /\ tpc' = [tpc EXCEPT ![t] = l]
            /\ l = "threw" => poisoned'
            /\ l \in LiveLabels => tpc[t] \in LiveLabels
      BY <2>3
    <2> QED BY <2>2, <2>3, <2>4, <2>5 DEF TaskFrame, TypeOK
  <1>7. ASSUME WorkerThrows(t) PROVE TaskFrame(t)
    <2>1. \E l \in TaskLabels \ {"idle"} :
            /\ tpc' = [tpc EXCEPT ![t] = l]
            /\ l = "threw" => poisoned'
            /\ l \in LiveLabels => tpc[t] \in LiveLabels
      <3>1. tpc' = [tpc EXCEPT ![t] = "catchAppend"]
        BY <1>7 DEF WorkerThrows, TaskGoto
      <3>2. "catchAppend" \in TaskLabels \ {"idle"} /\ "catchAppend" \notin LiveLabels
        OBVIOUS
      <3> HIDE DEF TaskLabels, LiveLabels
      <3> QED BY <3>1, <3>2
    <2> QED BY <1>7, <2>1 DEF WorkerThrows, At, CoordVars, sets, stores, Local, TaskFrame, TypeOK
  <1>8. ASSUME CloseAttempt(t) PROVE TaskFrame(t)
    <2>1. CASE verdict[t] = "none"
      <3>1. attempt' = attempt
        BY <1>0, <1>8, <2>1 DEF CloseAttempt, Appends, AppendOk, AppendRejects, AttemptMayBecome
      <3>2. UNCHANGED <<journal, poisoned, faults>>
        BY <1>0, <1>8, <2>1 DEF CloseAttempt, Appends, AppendOk, AppendRejects, AttemptMayBecome
      <3> QED BY <1>8, <3>1, <3>2 DEF CloseAttempt, Appends, At, CoordVars, sets, Local, TaskGoto,
                  TaskFrame, TypeOK
    <2>2. CASE verdict[t] # "none"
      <3>1. verdict[t] \in AttemptStatus
        BY <1>0, <2>2 DEF TypeOK
      <3> QED BY <1>8, <3>1, AppendsFrame DEF CloseAttempt
    <2> QED BY <2>1, <2>2
  <1>9. ASSUME Report(t) PROVE TaskFrame(t)
    <2>1. KindOf(verdict[t]) \in DOMAIN TaskKind
      BY DEF KindOf
    <2> QED BY <1>9, <2>1, EmitsFrame DEF Report
  <1>10. ASSUME CommitTask(t) PROVE TaskFrame(t)
    BY <1>10 DEF CommitTask, At, CoordVars, sets, stores, Local, TaskGoto, TaskFrame, TypeOK
  <1>11. ASSUME Succeed(t) PROVE TaskFrame(t)
    BY <1>11, AppendsFrame DEF Succeed
  <1>12. ASSUME EmitSucceeded(t) PROVE TaskFrame(t)
    BY <1>12, EmitsFrame DEF EmitSucceeded
  <1>13. ASSUME CatchAppend(t) PROVE TaskFrame(t)
    BY <1>13, AppendsFrame DEF CatchAppend
  <1>14. ASSUME CatchEmit(t) PROVE TaskFrame(t)
    BY <1>14, EmitsFrame DEF CatchEmit
  <1>15. ASSUME NEW status \in WorkerStatus, NEW proofs \in BOOLEAN, NEW use \in 0 .. MaxUse,
                WorkerReturns(t, status, proofs, use)
         PROVE  TaskFrame(t)
    <2>1. /\ UNCHANGED <<auth, phase, cursor, pending, completed, failures, batch, integ>>
          /\ tpc[t] = "working" /\ UNCHANGED <<deaf, attempt, journal, poisoned, faults>>
          /\ used' = [used EXCEPT ![Profile[t]] = @ + use]
      BY <1>15 DEF WorkerReturns, At, CoordVars, sets, stores
    <2>2. hardStop' \in BOOLEAN
      BY <1>15 DEF WorkerReturns
    <2>3. \/ tpc' = [tpc EXCEPT ![t] = "commit"] /\ verdict' = verdict
          \/ /\ tpc' = [tpc EXCEPT ![t] = "close"]
             /\ \E v \in Terminal : verdict' = [verdict EXCEPT ![t] = v]
      BY <1>15 DEF WorkerReturns, Closes, TaskGoto, WorkerStatus
    <2>4. tpc'[t] \notin LiveLabels
      BY <2>3 DEF TypeOK
    <2>5. \E l \in TaskLabels \ {"idle"} :
            /\ tpc' = [tpc EXCEPT ![t] = l]
            /\ l = "threw" => poisoned'
            /\ l \in LiveLabels => tpc[t] \in LiveLabels
      BY <2>3
    <2> QED BY <2>1, <2>2, <2>3, <2>4, <2>5 DEF TaskFrame, TypeOK
  <1> QED BY <1>1, <1>2, <1>3, <1>4, <1>5, <1>6, <1>7, <1>8, <1>9, <1>10, <1>11, <1>12, <1>13,
             <1>14, <1>15 DEF TaskStep

-----------------------------------------------------------------------------
(* The steps of the integration *)

(* The resolver's appends change only what belongs to the integration.      *)
LEMMA ResolverAppendsFrame ==
    ASSUME TypeOK, NEW s \in AttemptStatus, NEW from \in Integrating,
           NEW ok \in Integrating, NEW no \in Integrating \cup {"throwing"},
           ResolverAppends(from, s, ok, no)
    PROVE  IntegrationFrame
  <1>1. Integration \in TaskId
    BY DEF TaskId
  <1>2. /\ UNCHANGED <<auth, cursor, pending, completed, failures, batch, tpc, hardStop, deaf>>
        /\ phase = from /\ phase' \in {ok, no} /\ UNCHANGED <<verdict, used, integ>>
    BY DEF ResolverAppends, Resolve, Phase, Loop, Quiet, Plan, sets
  <1>3. AppendOk(Integration, s) \/ AppendRejects(Integration, s)
    BY DEF ResolverAppends
  <1>4. /\ UNCHANGED <<journal, poisoned>> /\ faults' \in 0 .. MaxFaults
        /\ \/ attempt' = attempt
           \/ /\ attempt' = [attempt EXCEPT ![Integration] = s]
              /\ AttemptMayBecome(attempt[Integration], s)
    BY <1>1, <1>3, AppendEffect
  <1> QED BY <1>2, <1>4 DEF IntegrationFrame, TypeOK

(* So do its emits.                                                         *)
LEMMA ResolverEmitsFrame ==
    ASSUME TypeOK, NEW kind \in DOMAIN TaskKind, NEW from \in Integrating,
           NEW ok \in Integrating, NEW no \in Integrating \cup {"throwing"},
           ResolverEmits(from, kind, ok, no)
    PROVE  IntegrationFrame
  <1>1. Integration \in TaskId
    BY DEF TaskId
  <1>2. /\ UNCHANGED <<auth, cursor, pending, completed, failures, batch, tpc, hardStop, deaf>>
        /\ phase = from /\ phase' \in {ok, no} /\ UNCHANGED <<verdict, used, integ>>
    BY DEF ResolverEmits, Resolve, Phase, Loop, Quiet, Plan, sets
  <1>3. EmitOk(kind, Integration) \/ EmitRejects(kind, Integration)
    BY DEF ResolverEmits
  <1>4. /\ attempt' = attempt
        /\ journal' \in Projection /\ poisoned' \in BOOLEAN /\ faults' \in 0 .. MaxFaults
        /\ poisoned => poisoned'
        /\ \/ journal' = journal
           \/ journal'.tasks = [journal.tasks EXCEPT ![Integration] = TaskKind[kind]]
    BY <1>1, <1>3, EmitEffect
  <1> QED BY <1>2, <1>4 DEF IntegrationFrame, TypeOK

(* A failing Git operation is a fault and touches neither journal. *)
LEMMA GitEffect == ASSUME TypeOK, GitFails
    PROVE UNCHANGED <<attempt, journal, poisoned>> /\ faults' \in 0 .. MaxFaults
  BY AuthorizationAssumption DEF GitFails, Fault, TypeOK

(* git.integrate answers integrated or conflicted. *)
LEMMA PicksStatus ==
    ASSUME NEW picked, NEW left, NEW r \in Picks(picked, left)
    PROVE  r.status \in {"conflicted", "integrated"}
  BY DEF Picks

(* The fallback leaves nothing to pick and is for a human only. *)
LEMMA FallbacksShape ==
    ASSUME NEW r \in Fallbacks
    PROVE  r.status = "integrated" /\ r.left = <<>> /\ r.human = TRUE
  <1>1. PICK x : r = [status |-> "integrated", left |-> <<>>, human |-> TRUE, picked |-> x]
    BY Zenon DEF Fallbacks
  <1> QED BY <1>1

(* Every step of the integration changes only what belongs to it. *)
LEMMA IntegrationStepFrame == TypeOK /\ IntegrationStep => IntegrationFrame
  <1> SUFFICES ASSUME TypeOK, IntegrationStep PROVE IntegrationFrame
    OBVIOUS
  <1> USE DEF Integrating, AttemptStatus, Terminal
  <1>1. CASE Integrate
    <2>1. UNCHANGED <<attempt, journal, poisoned>> /\ faults' \in 0 .. MaxFaults
      BY <1>1, GitEffect DEF Integrate, stores, TypeOK
    <2>2. integ'.status \in {"none", "conflicted", "integrated"}
      BY <1>1, PicksStatus DEF Integrate, TypeOK
    <2> QED BY <1>1, <2>1, <2>2 DEF Integrate, Resolving, Quiet, Plan, sets, IntegrationFrame, TypeOK
  <1>2. CASE AdmitResolver \/ ResolverThrows
    BY <1>2 DEF AdmitResolver, ResolverThrows, Resolve, Phase, Loop, Quiet, Plan, sets, stores,
                IntegrationFrame, TypeOK
  <1>3. CASE ContinuePicks
    <2>1. integ'.status \in {"none", "conflicted", "integrated"}
      BY <1>3, PicksStatus DEF ContinuePicks, TypeOK
    <2> QED BY <1>3, <2>1 DEF ContinuePicks, Resolving, Quiet, Plan, sets, stores,
                              IntegrationFrame, TypeOK
  <1>4. CASE Fallback
    <2>1. UNCHANGED <<attempt, journal, poisoned>> /\ faults' \in 0 .. MaxFaults
      BY <1>4, GitEffect DEF Fallback, stores, TypeOK
    <2>2. integ'.status \in {"none", "conflicted", "integrated"}
      BY <1>4, FallbacksShape DEF Fallback, TypeOK
    <2>3. phase \in Integrating /\ phase' \in {"inspect", "succeedResolver", "throwing"}
      BY <1>4 DEF Fallback
    <2> QED BY <1>4, <2>1, <2>2, <2>3 DEF Fallback, Resolving, Quiet, Plan, sets, IntegrationFrame, TypeOK
  <1>5. CASE Inspect
    <2>1. UNCHANGED <<attempt, journal, poisoned>> /\ faults' \in 0 .. MaxFaults
      BY <1>5, GitEffect DEF Inspect, stores, TypeOK
    <2> QED BY <1>5, <2>1 DEF Inspect, Resolve, Phase, Loop, Quiet, Plan, sets,
                              IntegrationFrame, TypeOK
  <1>6. CASE ResolverStep
    <2>1. CASE PrepareResolver
      BY <2>1, ResolverAppendsFrame DEF PrepareResolver
    <2>2. CASE BeginResolver
      BY <2>2, ResolverAppendsFrame DEF BeginResolver
    <2>3. CASE FailResolver
      BY <2>3, ResolverAppendsFrame DEF FailResolver
    <2>4. CASE SucceedResolver
      BY <2>4, ResolverAppendsFrame DEF SucceedResolver
    <2>5. CASE RefuseResolver
      BY <2>5, Kinds, ResolverEmitsFrame DEF RefuseResolver
    <2>6. CASE EmitResolverPrepared
      BY <2>6, Kinds, ResolverEmitsFrame DEF EmitResolverPrepared
    <2>7. CASE EmitResolverStarted
      BY <2>7, Kinds, ResolverEmitsFrame DEF EmitResolverStarted
    <2>8. CASE EmitResolverFailed
      BY <2>8, Kinds, ResolverEmitsFrame DEF EmitResolverFailed
    <2>9. CASE EmitResolverSucceeded
      BY <2>9, Kinds, ResolverEmitsFrame DEF EmitResolverSucceeded
    <2>10. CASE CloseResolver
      <3>1. verdict[Integration] \in AttemptStatus \/ verdict[Integration] = "none"
        BY DEF TypeOK, TaskId
      <3>2. CASE verdict[Integration] = "none"
        <4>1. ~AttemptMayBecome(attempt[Integration], verdict[Integration])
          BY <3>2 DEF AttemptMayBecome
        <4>2. UNCHANGED <<attempt, journal, poisoned, faults>>
          BY <2>10, <4>1 DEF CloseResolver, ResolverAppends, AppendOk, AppendRejects
        <4> QED BY <2>10, <4>2 DEF CloseResolver, ResolverAppends, Resolve, Phase, Loop, Quiet, Plan,
                                  sets, IntegrationFrame, TypeOK
      <3> QED BY <2>10, <3>1, <3>2, ResolverAppendsFrame DEF CloseResolver
    <2>11. CASE ReportResolver
      <3>1. KindOf(verdict[Integration]) \in DOMAIN TaskKind
        BY Kinds DEF KindOf
      <3> QED BY <2>11, <3>1, ResolverEmitsFrame DEF ReportResolver
    <2> QED BY <1>6, <2>1, <2>2, <2>3, <2>4, <2>5, <2>6, <2>7, <2>8, <2>9, <2>10, <2>11 DEF ResolverStep
  <1>7. ASSUME NEW status \in WorkerStatus \ {"cancelled"}, NEW proofs \in BOOLEAN,
               NEW use \in 0 .. MaxUse, ResolverReturns(status, proofs, use)
        PROVE  IntegrationFrame
    <2>1. \/ verdict' = verdict
          \/ \E v \in Terminal : verdict' = [verdict EXCEPT ![Integration] = v]
      <3>1. \E v \in {verdict[Integration], "budget_stopped", "failed"} :
               verdict' = [verdict EXCEPT ![Integration] = v]
        BY <1>7 DEF ResolverReturns
      <3>2. [verdict EXCEPT ![Integration] = verdict[Integration]] = verdict
        BY DEF TypeOK
      <3> QED BY <3>1, <3>2
    <2>2. phase' \in {"continue", "closeResolver"}
      BY <1>7 DEF ResolverReturns
    <2> QED BY <1>7, <2>1, <2>2 DEF ResolverReturns, Resolving, Quiet, Plan, sets, stores,
                                   IntegrationFrame, TypeOK
  <1> QED BY <1>1, <1>2, <1>3, <1>4, <1>5, <1>6, <1>7 DEF IntegrationStep

-----------------------------------------------------------------------------
(* The steps of the loop *)

(* Every step of the loop changes only what belongs to it. *)
LEMMA LoopStepFrame == TypeOK /\ LoopStep => LoopFrame
  <1> SUFFICES ASSUME TypeOK, LoopStep PROVE LoopFrame
    OBVIOUS
  <1>0. Len(PlanOrder) \in Nat /\ DOMAIN PlanOrder = 1 .. Len(PlanOrder)
    BY PlanAssumption
  <1>1. CASE EmitPlanned \/ EmitAuthorized \/ ReportBlocked \/ CatchCampaign
    <2>1. \E k \in DOMAIN CampaignKind : CampaignOk(k) \/ CampaignRejects(k)
      <3>1. {"campaign_planned", "campaign_authorized", "campaign_blocked"} \subseteq DOMAIN CampaignKind
        BY DEF CampaignKind
      <3> QED BY <1>1, <3>1 DEF EmitPlanned, EmitAuthorized, ReportBlocked, CatchCampaign
    <2>2. /\ attempt' = attempt
          /\ journal' \in Projection /\ poisoned' \in BOOLEAN /\ faults' \in 0 .. MaxFaults
          /\ poisoned => poisoned'
      BY <2>1, CampaignEffect
    <2>3. UNCHANGED <<auth, verdict, hardStop, deaf, used, integ, cursor, pending>>
      BY <1>1 DEF EmitPlanned, EmitAuthorized, ReportBlocked, CatchCampaign, Loop, Quiet, Plan, sets
    <2> QED BY <2>2, <2>3 DEF LoopFrame, TypeOK
  <1>2. CASE BlockDependent \/ BlockUnreachable
    <2>1. PICK t \in Task : /\ EmitOk("task_blocked", t) \/ EmitRejects("task_blocked", t)
                            /\ pending' = pending \ {t}
      <3>1. CASE BlockDependent
        <4>1. \A i \in cursor .. Len(PlanOrder) : PlanOrder[i] \in Task
          BY <1>0, PlanAssumption DEF TypeOK
        <4> QED BY <3>1, <4>1 DEF BlockDependent
      <3>2. CASE BlockUnreachable
        BY <3>2 DEF BlockUnreachable, TypeOK
      <3> QED BY <1>2, <3>1, <3>2
    <2>2. /\ attempt' = attempt
          /\ journal' \in Projection /\ poisoned' \in BOOLEAN /\ faults' \in 0 .. MaxFaults
          /\ poisoned => poisoned'
      BY <2>1, Kinds, EmitEffect DEF TaskId
    <2>3. UNCHANGED <<auth, verdict, hardStop, deaf, used, integ>>
      BY <1>2 DEF BlockDependent, BlockUnreachable, Loop, Quiet
    <2>4. cursor' \in 1 .. Len(PlanOrder) + 1
      BY <1>0, <1>2 DEF BlockDependent, BlockUnreachable, TypeOK
    <2> QED BY <2>1, <2>2, <2>3, <2>4 DEF LoopFrame
  <1>3. CASE Dispatch
    BY <1>0, <1>3 DEF Dispatch, sets, stores, LoopFrame, TypeOK
  <1>4. CASE NothingReady \/ BatchRejects \/ AllSucceeded
    BY <1>4 DEF NothingReady, BatchRejects, AllSucceeded, Loop, Quiet, Plan, sets, stores,
                LoopFrame, TypeOK
  <1>5. CASE Collect
    BY <1>5 DEF Collect, Takes, Loop, Quiet, stores, LoopFrame, TypeOK
  <1>6. CASE ReturnBlocked
    BY <1>6, GitEffect DEF ReturnBlocked, Loop, Quiet, Plan, sets, stores, LoopFrame, TypeOK
  <1> QED BY <1>1, <1>2, <1>3, <1>4, <1>5, <1>6 DEF LoopStep

(* The three kinds of steps are all there is. *)
LEMMA Steps == [Next]_vars <=> \/ UNCHANGED vars \/ LoopStep \/ IntegrationStep
                              \/ \E t \in Task : TaskStep(t)
  BY DEF Next, Coordinate, LoopStep, IntegrationStep, ResolverStep

-----------------------------------------------------------------------------
(* Types *)

(* The initial state has the types. *)
LEMMA InitType == Init => TypeOK
  <1> SUFFICES ASSUME Init PROVE TypeOK
    OBVIOUS
  <1>1. cursor \in 1 .. Len(PlanOrder) + 1
    BY PlanAssumption DEF Init
  <1>2. faults \in 0 .. MaxFaults
    BY AuthorizationAssumption DEF Init
  <1>3. journal \in Projection
    BY DEF Init, NoEvents, Projection
  <1>4. used \in [ProfileId -> Nat] /\ integ.status \in {"none", "conflicted", "integrated"}
    BY DEF Init, NoIntegration
  <1>5. /\ tpc \in [Task -> TaskLabels] /\ verdict \in [TaskId -> Terminal \cup {"none"}]
        /\ attempt \in [TaskId -> AttemptStatus]
    BY DEF Init, TaskLabels, AttemptStatus
  <1>6. /\ auth \in Authorization /\ pending \subseteq Task /\ completed \subseteq Task
        /\ failures \subseteq Task /\ batch \subseteq Task /\ hardStop \in BOOLEAN
        /\ deaf \subseteq Task /\ poisoned \in BOOLEAN
    BY DEF Init
  <1> QED BY <1>1, <1>2, <1>3, <1>4, <1>5, <1>6 DEF TypeOK

(* A profile's total grows by what an execution reports. *)
LEMMA UsedType ==
    ASSUME TypeOK, NEW t \in TaskId, NEW use \in 0 .. MaxUse,
           used' = [used EXCEPT ![Profile[t]] = @ + use]
    PROVE  used' \in [ProfileId -> Nat]
  BY AuthorizationAssumption DEF TypeOK, ProfileId

(* Every step keeps the type of every variable. *)
LEMMA TypeStep == TypeOK /\ [Next]_vars => TypeOK'
  <1> SUFFICES ASSUME TypeOK, [Next]_vars PROVE TypeOK'
    OBVIOUS
  <1>1. CASE UNCHANGED vars
    BY <1>1 DEF vars, sets, stores, TypeOK, Projection
  <1>2. ASSUME NEW t \in Task, TaskStep(t) PROVE TypeOK'
    <2>1. TaskFrame(t) /\ t \in TaskId
      BY <1>2, TaskStepFrame DEF TaskId
    <2>2. tpc' \in [Task -> TaskLabels] /\ verdict' \in [TaskId -> Terminal \cup {"none"}]
      BY <2>1 DEF TaskFrame, TypeOK
    <2>3. attempt' \in [TaskId -> AttemptStatus]
      BY <2>1 DEF TaskFrame, TypeOK
    <2>4. used' \in [ProfileId -> Nat]
      BY <2>1, UsedType DEF TaskFrame, TypeOK
    <2> QED BY <2>1, <2>2, <2>3, <2>4 DEF TaskFrame, TypeOK
  <1>3. CASE IntegrationStep
    <2>1. IntegrationFrame /\ Integration \in TaskId
      BY <1>3, IntegrationStepFrame DEF TaskId
    <2>2. verdict' \in [TaskId -> Terminal \cup {"none"}] /\ attempt' \in [TaskId -> AttemptStatus]
      BY <2>1 DEF IntegrationFrame, TypeOK
    <2>3. used' \in [ProfileId -> Nat]
      BY <2>1, UsedType DEF IntegrationFrame, TypeOK
    <2> QED BY <2>1, <2>2, <2>3 DEF IntegrationFrame, TypeOK
  <1>4. CASE LoopStep
    <2>1. LoopFrame
      BY <1>4, LoopStepFrame
    <2>2. tpc' \in [Task -> TaskLabels]
      <3>1. CASE Dispatch
        BY <3>1 DEF Dispatch, Admission, TaskLabels, TypeOK
      <3>2. CASE ~Dispatch
        BY <1>4, <3>2 DEF LoopStep, EmitPlanned, EmitAuthorized, BlockDependent, NothingReady,
           Collect, Takes, BatchRejects, BlockUnreachable, ReportBlocked, ReturnBlocked,
           AllSucceeded, CatchCampaign, Loop, Quiet, TypeOK
      <3> QED BY <3>1, <3>2
    <2>3. completed' \subseteq Task /\ failures' \subseteq Task /\ batch' \subseteq Task
      <3>1. CASE Dispatch
        BY <3>1 DEF Dispatch, Selected, Ready, sets, TypeOK
      <3>2. CASE Collect
        BY <3>2 DEF Collect, Takes, TypeOK
      <3>3. CASE BlockDependent \/ BlockUnreachable
        <4>1. \A i \in cursor .. Len(PlanOrder) : PlanOrder[i] \in Task
          BY PlanAssumption DEF TypeOK
        <4> QED BY <3>3, <4>1 DEF BlockDependent, BlockUnreachable, TypeOK
      <3>4. CASE \/ EmitPlanned \/ EmitAuthorized \/ NothingReady \/ BatchRejects
                 \/ ReportBlocked \/ ReturnBlocked \/ AllSucceeded \/ CatchCampaign
        BY <3>4 DEF EmitPlanned, EmitAuthorized, NothingReady, BatchRejects, ReportBlocked,
           ReturnBlocked, AllSucceeded, CatchCampaign, Plan, sets, TypeOK
      <3> QED BY <1>4, <3>1, <3>2, <3>3, <3>4 DEF LoopStep
    <2> QED BY <2>1, <2>2, <2>3 DEF LoopFrame, TypeOK
  <1> QED BY <1>1, <1>2, <1>3, <1>4, Steps

(* What a terminal attempt becomes. *)
LEMMA TerminalStep ==
    TypeOK /\ [Next]_vars => \A u \in TaskId : attempt[u] \in Terminal => attempt'[u] = attempt[u]
  <1> SUFFICES ASSUME TypeOK, [Next]_vars, NEW u \in TaskId, attempt[u] \in Terminal
               PROVE  attempt'[u] = attempt[u]
    OBVIOUS
  <1>1. ASSUME NEW t \in TaskId, NEW a \in AttemptStatus,
               attempt' = [attempt EXCEPT ![t] = a], AttemptMayBecome(attempt[t], a)
        PROVE  attempt'[u] = attempt[u]
    BY <1>1 DEF AttemptMayBecome, Terminal, TypeOK
  <1>2. CASE UNCHANGED vars
    BY <1>2 DEF vars, stores
  <1>3. ASSUME NEW t \in Task, TaskStep(t) PROVE attempt'[u] = attempt[u]
    BY <1>1, <1>3, TaskStepFrame DEF TaskFrame, TaskId
  <1>4. CASE IntegrationStep
    BY <1>1, <1>4, IntegrationStepFrame DEF IntegrationFrame, TaskId
  <1>5. CASE LoopStep
    BY <1>5, LoopStepFrame DEF LoopFrame
  <1> QED BY <1>2, <1>3, <1>4, <1>5, Steps

-----------------------------------------------------------------------------
(* The two journals *)

(* The status the projection shows.                                         *)
Shown(t) == journal.tasks[t]

(* EventsFollowAttempts, of one task.                                       *)
Follows(t) ==
    /\ Shown(t) = "prepared" => attempt[t] # "none"
    /\ Shown(t) = "running" => attempt[t] \notin {"none", "prepared"}
    /\ Shown(t) = "succeeded" => attempt[t] = "succeeded"
    /\ Shown(t) = "cancelled" => attempt[t] = "cancelled"
    /\ Shown(t) \in {"blocked", "budget_stopped"} => attempt[t] \in {"none", Shown(t)}

(* What the journals say of a task, by where executeTask is.                *)
Recorded(t) ==
    /\ tpc[t] \in {"idle", "refused", "alloc", "prepare", "threw"} => attempt[t] = "none"
    /\ tpc[t] \in {"refused", "alloc", "prepare", "emitPrepared"} => Shown(t) = "absent"
    /\ tpc[t] \in {"emitPrepared", "begin"} => attempt[t] = "prepared"
    /\ tpc[t] \in {"begin", "emitStarted"} => Shown(t) = "prepared"
    /\ tpc[t] \in {"emitStarted", "working", "close", "commit", "succeed"} => attempt[t] = "running"
    /\ tpc[t] \in {"working", "close", "commit", "succeed", "report", "emitSucceeded"} =>
          Shown(t) = "running"
    /\ tpc[t] \in {"close", "report"} =>
          verdict[t] \in {"budget_stopped", "failed", "blocked", "cancelled"}
    /\ tpc[t] = "report" => attempt[t] = verdict[t]
    /\ tpc[t] \in {"emitSucceeded", "delivered"} => attempt[t] = "succeeded"
    /\ tpc[t] = "delivered" => Shown(t) = "succeeded"
    /\ tpc[t] = "catchAppend" =>
          attempt[t] # "none" /\ Shown(t) \in {"absent", "prepared", "running", "succeeded"}

(* What an append of a task does to the task's own part of the state. *)
LEMMA AppendsLocal ==
    ASSUME TypeOK, NEW t \in Task, NEW s \in AttemptStatus, NEW from, NEW ok, NEW no,
           Appends(t, from, s, ok, no)
    PROVE  /\ tpc[t] = from /\ Shown(t)' = Shown(t) /\ verdict' = verdict
           /\ \/ /\ tpc'[t] = ok /\ attempt'[t] = s
                 /\ AttemptMayBecome(attempt[t], s)
              \/ /\ tpc'[t] = no
                 /\ \/ attempt'[t] = attempt[t]
                    \/ attempt'[t] = s /\ AttemptMayBecome(attempt[t], s)
  <1>1. t \in TaskId
    BY DEF TaskId
  <1>2. tpc[t] = from /\ verdict' = verdict
    BY DEF Appends, At, Local
  <1>3. \/ AppendOk(t, s) /\ tpc' = [tpc EXCEPT ![t] = ok]
        \/ AppendRejects(t, s) /\ tpc' = [tpc EXCEPT ![t] = no]
    BY DEF Appends, TaskGoto
  <1> QED BY <1>1, <1>2, <1>3, AppendEffect DEF TypeOK, Shown

(* What an emit does to the status the projection shows of a task. *)
LEMMA EmitShown ==
    ASSUME TypeOK, NEW t \in TaskId, NEW kind \in DOMAIN TaskKind,
           EmitOk(kind, t) \/ EmitRejects(kind, t)
    PROVE  /\ attempt' = attempt
           /\ Shown(t)' \in {Shown(t), TaskKind[kind]}
           /\ EmitOk(kind, t) => Shown(t)' = TaskKind[kind]
           /\ \A u \in TaskId \ {t} : Shown(u)' = Shown(u)
  <1>1. DOMAIN journal.tasks = TaskId
    BY DEF TypeOK, Projection
  <1>2. /\ attempt' = attempt
        /\ \/ journal' = journal
           \/ journal'.tasks = [journal.tasks EXCEPT ![t] = TaskKind[kind]]
        /\ EmitOk(kind, t) => journal'.tasks = [journal.tasks EXCEPT ![t] = TaskKind[kind]]
    BY EmitEffect
  <1> QED BY <1>1, <1>2 DEF Shown

(* What an emit of a task does to the task's own part of the state. *)
LEMMA EmitsLocal ==
    ASSUME TypeOK, NEW t \in Task, NEW kind \in DOMAIN TaskKind, NEW from, NEW ok, NEW no,
           Emits(t, from, kind, ok, no)
    PROVE  /\ tpc[t] = from /\ attempt' = attempt /\ verdict' = verdict
           /\ \/ tpc'[t] = ok /\ Shown(t)' = TaskKind[kind]
              \/ tpc'[t] = no /\ Shown(t)' \in {Shown(t), TaskKind[kind]}
  <1>1. t \in TaskId
    BY DEF TaskId
  <1>2. tpc[t] = from /\ verdict' = verdict
    BY DEF Emits, At, Local
  <1>3. \/ EmitOk(kind, t) /\ tpc' = [tpc EXCEPT ![t] = ok]
        \/ EmitRejects(kind, t) /\ tpc' = [tpc EXCEPT ![t] = no]
    BY DEF Emits, TaskGoto
  <1> QED BY <1>1, <1>2, <1>3, EmitShown DEF TypeOK

(* A step of executeTask keeps what the journals say of its task. *)
LEMMA TaskRecords ==
    ASSUME TypeOK, NEW t \in Task, Recorded(t), Follows(t), TaskStep(t)
    PROVE  Recorded(t)' /\ Follows(t)'
  <1>0. t \in TaskId
    BY DEF TaskId
  <1> USE Kinds DEF AttemptStatus, Terminal, AttemptMayBecome, Recorded, Follows
  <1>1. ASSUME Refuse(t) PROVE Recorded(t)' /\ Follows(t)'
    BY <1>1, EmitsLocal DEF Refuse
  <1>2. ASSUME Allocate(t) PROVE Recorded(t)' /\ Follows(t)'
    <2>1. UNCHANGED <<attempt, journal, verdict>>
      BY <1>2 DEF Allocate, Local, stores, GitFails
    <2>2. tpc[t] = "alloc" /\ tpc'[t] \in {"prepare", "catchEmit"}
      BY <1>2 DEF Allocate, At, TaskGoto, TypeOK
    <2> QED BY <2>1, <2>2 DEF Shown
  <1>3. ASSUME Prepare(t) PROVE Recorded(t)' /\ Follows(t)'
    BY <1>3, AppendsLocal DEF Prepare
  <1>4. ASSUME EmitPrepared(t) PROVE Recorded(t)' /\ Follows(t)'
    BY <1>4, EmitsLocal DEF EmitPrepared
  <1>5. ASSUME Begin(t) PROVE Recorded(t)' /\ Follows(t)'
    BY <1>5, AppendsLocal DEF Begin
  <1>6. ASSUME EmitStarted(t) PROVE Recorded(t)' /\ Follows(t)'
    <2>1. tpc[t] = "emitStarted" /\ UNCHANGED verdict
      BY <1>6 DEF EmitStarted, At
    <2>2. \/ EmitOk("task_started", t) /\ tpc' = [tpc EXCEPT ![t] = "working"]
          \/ EmitRejects("task_started", t) /\ tpc' = [tpc EXCEPT ![t] = "catchAppend"]
      BY <1>6 DEF EmitStarted, TaskGoto
    <2>3. /\ attempt' = attempt
          /\ \/ tpc'[t] = "working" /\ Shown(t)' = "running"
             \/ tpc'[t] = "catchAppend" /\ Shown(t)' \in {Shown(t), "running"}
      BY <1>0, <2>2, EmitShown DEF TypeOK
    <2> QED BY <2>1, <2>3
  <1>7. ASSUME WorkerThrows(t) PROVE Recorded(t)' /\ Follows(t)'
    <2>1. UNCHANGED <<attempt, journal, verdict>>
      BY <1>7 DEF WorkerThrows, Local, stores
    <2>2. tpc[t] = "working" /\ tpc'[t] = "catchAppend"
      BY <1>7 DEF WorkerThrows, At, TaskGoto, TypeOK
    <2> QED BY <2>1, <2>2 DEF Shown
  <1>8. ASSUME CloseAttempt(t) PROVE Recorded(t)' /\ Follows(t)'
    <2>1. verdict[t] \in {"budget_stopped", "failed", "blocked", "cancelled"}
      BY <1>8 DEF CloseAttempt, Appends, At
    <2> QED BY <1>8, <2>1, AppendsLocal DEF CloseAttempt
  <1>9. ASSUME Report(t) PROVE Recorded(t)' /\ Follows(t)'
    <2>1. verdict[t] \in {"budget_stopped", "failed", "blocked", "cancelled"}
      BY <1>9 DEF Report, Emits, At
    <2>2. KindOf(verdict[t]) \in DOMAIN TaskKind /\ TaskKind[KindOf(verdict[t])] = verdict[t]
      BY <2>1, KindShows
    <2> QED BY <1>9, <2>1, <2>2, EmitsLocal DEF Report
  <1>10. ASSUME CommitTask(t) PROVE Recorded(t)' /\ Follows(t)'
    <2>1. UNCHANGED <<attempt, journal, verdict>>
      BY <1>10 DEF CommitTask, Local, stores
    <2>2. tpc[t] = "commit" /\ tpc'[t] \in {"succeed", "catchAppend"}
      BY <1>10 DEF CommitTask, At, TaskGoto, TypeOK
    <2> QED BY <2>1, <2>2 DEF Shown
  <1>11. ASSUME Succeed(t) PROVE Recorded(t)' /\ Follows(t)'
    BY <1>11, AppendsLocal DEF Succeed
  <1>12. ASSUME EmitSucceeded(t) PROVE Recorded(t)' /\ Follows(t)'
    BY <1>12, EmitsLocal DEF EmitSucceeded
  <1>13. ASSUME CatchAppend(t) PROVE Recorded(t)' /\ Follows(t)'
    BY <1>13, AppendsLocal DEF CatchAppend
  <1>14. ASSUME CatchEmit(t) PROVE Recorded(t)' /\ Follows(t)'
    BY <1>14, EmitsLocal DEF CatchEmit
  <1>15. ASSUME NEW status \in WorkerStatus, NEW proofs \in BOOLEAN, NEW use \in 0 .. MaxUse,
                WorkerReturns(t, status, proofs, use)
         PROVE  Recorded(t)' /\ Follows(t)'
    <2>1. UNCHANGED <<attempt, journal>>
      BY <1>15 DEF WorkerReturns, stores
    <2>2. /\ tpc[t] = "working"
          /\ \/ tpc'[t] = "commit"
             \/ /\ tpc'[t] = "close"
                /\ verdict'[t] \in {"budget_stopped", "failed", "blocked", "cancelled"}
      BY <1>0, <1>15 DEF WorkerReturns, At, Closes, TaskGoto, WorkerStatus, TypeOK
    <2> QED BY <2>1, <2>2 DEF Shown
  <1> QED BY <1>1, <1>2, <1>3, <1>4, <1>5, <1>6, <1>7, <1>8, <1>9, <1>10, <1>11, <1>12, <1>13,
             <1>14, <1>15 DEF TaskStep

-----------------------------------------------------------------------------
(* Where the tasks of a campaign are *)

(* Which tasks are pending, in the batch, completed or failed, by where     *)
(* executeTask and the coordinator are.                                     *)
Placed ==
    /\ phase \notin {"batch", "throwing", "rejected"} => batch = {}
    /\ batch \subseteq pending
    /\ \A t \in pending \ batch : tpc[t] = "idle" /\ Shown(t) = "absent"
    /\ \A t \in Task \ pending : tpc[t] \in {"idle", "over", "delivered"}
    /\ \A t \in completed : tpc[t] = "delivered" /\ t \notin pending
    /\ Task \subseteq pending \cup completed \cup failures
    /\ \A t \in Task : tpc[t] # "idle" => Deps[t] \subseteq completed
    /\ phase \in Integrating => pending = {} /\ failures = {}

(* The records of every task.                                               *)
Records == \A t \in Task : Recorded(t) /\ Follows(t)

(* A task that steps is in the batch. *)
LEMMA Batched ==
    ASSUME TypeOK, Placed, NEW t \in Task, TaskFrame(t)
    PROVE  t \in batch
  BY DEF Placed, TaskFrame, Ended

(* A task nothing happened to keeps its records. *)
LEMMA RecordsStay ==
    ASSUME NEW t, Recorded(t), Follows(t), tpc'[t] = tpc[t], attempt'[t] = attempt[t],
           Shown(t)' = Shown(t), verdict'[t] = verdict[t]
    PROVE  Recorded(t)' /\ Follows(t)'
  BY DEF Recorded, Follows

(* What the events of the loop show of a task. *)
LEMMA LoopShown ==
    ASSUME TypeOK, LoopStep, NEW u \in TaskId
    PROVE  \/ Shown(u)' = Shown(u)
           \/ /\ u \in pending /\ pending' = pending \ {u} /\ tpc' = tpc
              /\ phase \in {"scan", "drain"} /\ Shown(u)' = "blocked"
  <1>1. CASE EmitPlanned \/ EmitAuthorized \/ ReportBlocked \/ CatchCampaign
    <2>1. \E k \in DOMAIN CampaignKind : CampaignOk(k) \/ CampaignRejects(k)
      <3>1. {"campaign_planned", "campaign_authorized", "campaign_blocked"} \subseteq DOMAIN CampaignKind
        BY DEF CampaignKind
      <3> QED BY <1>1, <3>1 DEF EmitPlanned, EmitAuthorized, ReportBlocked, CatchCampaign
    <2> QED BY <2>1, CampaignEffect DEF Shown
  <1>2. CASE BlockDependent \/ BlockUnreachable
    <2>1. PICK t \in pending : /\ EmitOk("task_blocked", t) \/ EmitRejects("task_blocked", t)
                               /\ pending' = pending \ {t} /\ tpc' = tpc
                               /\ phase \in {"scan", "drain"}
      BY <1>2 DEF BlockDependent, Blockable, BlockUnreachable, Loop, Quiet
    <2>2. t \in TaskId
      BY DEF TypeOK, TaskId
    <2> QED BY <2>1, <2>2, Kinds, EmitShown
  <1>3. CASE \/ Dispatch \/ NothingReady \/ BatchRejects \/ AllSucceeded \/ Collect
             \/ ReturnBlocked
    BY <1>3 DEF Dispatch, NothingReady, BatchRejects, AllSucceeded, Collect, Takes, ReturnBlocked,
                stores, GitFails, Shown
  <1> QED BY <1>1, <1>2, <1>3 DEF LoopStep

(* Of the loop, only Dispatch moves a task. *)
LEMMA LoopPlaces == LoopStep => Dispatch \/ tpc' = tpc
  BY DEF LoopStep, EmitPlanned, EmitAuthorized, BlockDependent, NothingReady,
         Collect, Takes, BatchRejects, BlockUnreachable, ReportBlocked, ReturnBlocked,
         AllSucceeded, CatchCampaign, Loop, Quiet

(* Every step keeps what the journals say of every task. *)
LEMMA RecordsStep == TypeOK /\ Placed /\ Records /\ [Next]_vars => Records'
  <1> SUFFICES ASSUME TypeOK, Placed, Records, [Next]_vars, NEW u \in Task
               PROVE  Recorded(u)' /\ Follows(u)'
    BY DEF Records
  <1>0. Recorded(u) /\ Follows(u) /\ u \in TaskId /\ u # Integration
    BY PlanAssumption DEF Records, TaskId
  <1>1. CASE UNCHANGED vars
    BY <1>0, <1>1, RecordsStay DEF vars, stores, Shown
  <1>2. ASSUME NEW t \in Task, TaskStep(t) PROVE Recorded(u)' /\ Follows(u)'
    <2>1. CASE u = t
      BY <1>0, <1>2, <2>1, TaskRecords
    <2>2. CASE u # t
      <3>1. TaskFrame(t)
        BY <1>2, TaskStepFrame
      <3>2. tpc'[u] = tpc[u] /\ attempt'[u] = attempt[u] /\ verdict'[u] = verdict[u]
        BY <1>0, <2>2, <3>1 DEF TaskFrame, TypeOK
      <3>3. Shown(u)' = Shown(u)
        BY <1>0, <2>2, <3>1 DEF TaskFrame, TypeOK, Projection, Shown
      <3> QED BY <1>0, <3>2, <3>3, RecordsStay
    <2> QED BY <2>1, <2>2
  <1>3. CASE IntegrationStep
    <2>1. IntegrationFrame
      BY <1>3, IntegrationStepFrame
    <2>2. tpc'[u] = tpc[u] /\ attempt'[u] = attempt[u] /\ verdict'[u] = verdict[u]
      BY <1>0, <2>1 DEF IntegrationFrame, TypeOK
    <2>3. Shown(u)' = Shown(u)
      BY <1>0, <2>1 DEF IntegrationFrame, TypeOK, Projection, Shown
    <2> QED BY <1>0, <2>2, <2>3, RecordsStay
  <1>4. CASE LoopStep
    <2>1. attempt'[u] = attempt[u] /\ verdict'[u] = verdict[u]
      BY <1>4, LoopStepFrame DEF LoopFrame
    <2>2. CASE Dispatch
      <3>1. /\ Shown(u)' = Shown(u) /\ batch = {}
            /\ \/ tpc'[u] = tpc[u]
               \/ u \in pending /\ tpc'[u] \in {"refused", "alloc"}
        BY <2>2 DEF Dispatch, stores, Shown, Selected, Ready, Admission, Placed
      <3>2. CASE tpc'[u] = tpc[u]
        BY <1>0, <2>1, <3>1, <3>2, RecordsStay
      <3>3. CASE u \in pending /\ tpc'[u] \in {"refused", "alloc"}
        <4>1. tpc[u] = "idle" /\ Shown(u) = "absent"
          BY <3>1, <3>3 DEF Placed
        <4> QED BY <1>0, <2>1, <3>1, <3>3, <4>1 DEF Recorded, Follows
      <3> QED BY <3>1, <3>2, <3>3
    <2>3. CASE ~Dispatch
      <3>1. tpc' = tpc
        BY <1>4, <2>3, LoopPlaces
      <3>2. CASE Shown(u)' = Shown(u)
        BY <1>0, <2>1, <3>1, <3>2, RecordsStay
      <3>3. CASE Shown(u)' = "blocked" /\ u \in pending /\ phase \in {"scan", "drain"}
        <4>1. tpc[u] = "idle" /\ attempt[u] = "none"
          BY <1>0, <3>3 DEF Placed, Recorded
        <4> QED BY <2>1, <3>1, <3>3, <4>1 DEF Recorded, Follows
      <3> QED BY <1>0, <1>4, <3>2, <3>3, LoopShown
    <2> QED BY <2>2, <2>3
  <1> QED BY <1>1, <1>2, <1>3, <1>4, Steps

(* The steps of the coordinator and of the tasks keep the sets right. *)
LEMMA PlacedStep == TypeOK /\ Placed /\ Records /\ [Next]_vars => Placed'
  <1> SUFFICES ASSUME TypeOK, Placed, Records, [Next]_vars PROVE Placed'
    OBVIOUS
  <1>1. CASE UNCHANGED vars
    BY <1>1 DEF vars, sets, stores, Placed, Shown
  <1>2. ASSUME NEW t \in Task, TaskStep(t) PROVE Placed'
    <2>1. TaskFrame(t) /\ t \in batch
      BY <1>2, TaskStepFrame, Batched
    <2>2. /\ UNCHANGED <<phase, pending, completed, failures, batch>>
          /\ tpc[t] \notin Ended /\ \A u \in Task \ {t} : tpc'[u] = tpc[u]
      BY <2>1 DEF TaskFrame, TypeOK
    <2>3. \A u \in Task \ {t} : Shown(u)' = Shown(u)
      BY <2>1 DEF TaskFrame, TypeOK, Projection, Shown, TaskId
    <2> QED BY <2>1, <2>2, <2>3 DEF Placed, Ended, TypeOK
  <1>3. CASE IntegrationStep
    <2>1. IntegrationFrame
      BY <1>3, IntegrationStepFrame
    <2>2. \A u \in Task : Shown(u)' = Shown(u)
      BY <2>1, PlanAssumption DEF IntegrationFrame, TypeOK, Projection, Shown, TaskId
    <2> QED BY <2>1, <2>2 DEF IntegrationFrame, Placed, Integrating, TypeOK
  <1>4. CASE Dispatch
    <2>1. /\ phase = "scan" /\ phase' = "batch" /\ UNCHANGED <<pending, completed, failures>>
          /\ batch = {} /\ batch' = Selected /\ \A u \in Task : Shown(u)' = Shown(u)
      BY <1>4 DEF Dispatch, sets, stores, Shown, Placed
    <2>2. Selected \subseteq pending /\ \A u \in Selected : Deps[u] \subseteq completed
      BY DEF Selected, Ready
    <2>3. \A u \in Task : u \notin Selected => tpc'[u] = tpc[u]
      BY <1>4 DEF Dispatch
    <2> QED BY <2>1, <2>2, <2>3 DEF Placed, Integrating, TypeOK
  <1>5. CASE Collect
    <2>1. /\ phase = "batch" /\ phase' = "scan" /\ batch' = {} /\ pending' = pending \ batch
          /\ completed' = completed \cup {t \in batch : tpc[t] = "delivered"}
          /\ failures' = failures \cup {t \in batch : tpc[t] # "delivered"}
          /\ tpc' = tpc /\ journal' = journal
          /\ \A t \in batch : tpc[t] \in {"over", "delivered"}
      BY <1>5 DEF Collect, Takes, Phase, Loop, Quiet, stores
    <2>2. \A u \in Task : Shown(u)' = Shown(u)
      BY <2>1 DEF Shown
    <2> QED BY <2>1, <2>2 DEF Placed, Integrating, TypeOK
  <1>6. CASE BlockDependent \/ BlockUnreachable
    <2>1. PICK t \in pending :
              /\ pending' = pending \ {t} /\ failures' = failures \cup {t}
              /\ UNCHANGED <<completed, batch, tpc>>
              /\ phase \in {"scan", "drain"} /\ phase' \in {"scan", "drain", "throwing"}
      BY <1>6 DEF BlockDependent, Blockable, BlockUnreachable, Loop, Quiet
    <2>2. \A u \in Task \ {t} : Shown(u)' = Shown(u)
      BY <1>6, <2>1, LoopShown DEF LoopStep, TaskId, TypeOK
    <2> QED BY <2>1, <2>2 DEF Placed, Integrating, TypeOK
  <1>7. CASE \/ EmitPlanned \/ EmitAuthorized \/ NothingReady \/ BatchRejects
             \/ ReportBlocked \/ ReturnBlocked \/ AllSucceeded \/ CatchCampaign
    <2>1. UNCHANGED <<pending, completed, failures, batch, tpc>>
      BY <1>7 DEF EmitPlanned, EmitAuthorized, NothingReady, BatchRejects, ReportBlocked,
           ReturnBlocked, AllSucceeded, CatchCampaign, Plan, Loop, Quiet, sets
    <2>2. \A u \in Task : Shown(u)' = Shown(u)
      <3>1. LoopStep
        BY <1>7 DEF LoopStep
      <3> QED BY <2>1, <3>1, LoopShown DEF TaskId, TypeOK
    <2>3. phase' \in Integrating => pending = {} /\ failures = {}
      BY <1>7 DEF EmitPlanned, EmitAuthorized, NothingReady, BatchRejects, ReportBlocked,
           ReturnBlocked, AllSucceeded, CatchCampaign, Phase, Integrating
    <2>4. phase' \in {"throwing", "rejected"} \/ batch = {}
      BY <1>7 DEF EmitPlanned, EmitAuthorized, NothingReady, BatchRejects, ReportBlocked,
           ReturnBlocked, AllSucceeded, CatchCampaign, Phase, Placed
    <2> QED BY <2>1, <2>2, <2>3, <2>4 DEF Placed, TypeOK
  <1> QED BY <1>1, <1>2, <1>3, <1>4, <1>5, <1>6, <1>7, Steps DEF LoopStep

-----------------------------------------------------------------------------
(* How start() ends *)

(* A lost event explains a task that threw and a batch left behind; every   *)
(* other end of start() shows a blocked campaign.                           *)
Ends ==
    /\ (\E t \in Task : tpc[t] = "threw") => poisoned
    /\ phase \in {"throwing", "rejected"} /\ batch # {} => poisoned
    /\ phase \in {"loading", "returned"} => journal.status = "blocked"
    /\ phase = "rejected" => poisoned \/ journal.status = "blocked"

(* Every step keeps how start() ends. *)
LEMMA EndsStep == TypeOK /\ Placed /\ Ends /\ [Next]_vars => Ends'
  <1> SUFFICES ASSUME TypeOK, Placed, Ends, [Next]_vars PROVE Ends'
    OBVIOUS
  <1>1. CASE UNCHANGED vars
    BY <1>1 DEF vars, stores, Ends, TypeOK
  <1>2. ASSUME NEW t \in Task, TaskStep(t) PROVE Ends'
    <2>1. TaskFrame(t) /\ t \in batch
      BY <1>2, TaskStepFrame, Batched
    <2>2. phase \in {"batch", "throwing", "rejected"}
      BY <2>1 DEF Placed
    <2>3. UNCHANGED <<phase, batch>> /\ poisoned \in BOOLEAN /\ poisoned' \in BOOLEAN
      BY <2>1 DEF TaskFrame, TypeOK
    <2>4. poisoned => poisoned'
      BY <2>1 DEF TaskFrame
    <2>5. (\E u \in Task : tpc'[u] = "threw") => poisoned'
      BY <2>1, <2>3, <2>4 DEF TaskFrame, TypeOK, Ends
    <2> QED BY <2>1, <2>2, <2>3, <2>4, <2>5 DEF Ends
  <1>3. CASE IntegrationStep
    <2>1. IntegrationFrame
      BY <1>3, IntegrationStepFrame
    <2>2. batch = {} /\ phase' \in Integrating \cup {"throwing"} /\ UNCHANGED <<tpc, batch>>
      BY <2>1 DEF IntegrationFrame, Placed, Integrating
    <2>3. poisoned => poisoned'
      BY <2>1 DEF IntegrationFrame
    <2> QED BY <2>2, <2>3 DEF Ends, Integrating
  <1>4. CASE LoopStep
    <2>0. poisoned => poisoned'
      BY <1>4, LoopStepFrame DEF LoopFrame
    <2>1. (\E u \in Task : tpc'[u] = "threw") => poisoned'
      <3>1. \A u \in Task : tpc'[u] = "threw" => tpc[u] = "threw"
        <4>1. CASE Dispatch
          BY <4>1 DEF Dispatch, Admission
        <4> QED BY <1>4, <4>1, LoopPlaces
      <3> QED BY <2>0, <3>1 DEF Ends
    <2>2. CASE EmitPlanned \/ EmitAuthorized
      <3>1. batch' = {} /\ phase' \in {"emitAuthorized", "scan", "rejected"}
        BY <2>2 DEF EmitPlanned, EmitAuthorized, Phase, Plan, Placed
      <3>2. phase' = "rejected" => poisoned'
        <4>1. phase' = "rejected" =>
                 CampaignRejects("campaign_planned") \/ CampaignRejects("campaign_authorized")
          BY <2>2 DEF EmitPlanned, EmitAuthorized, Phase
        <4>2. {"campaign_planned", "campaign_authorized"} \subseteq DOMAIN CampaignKind
          BY DEF CampaignKind
        <4> QED BY <4>1, <4>2, CampaignEffect
      <3> QED BY <2>1, <3>1, <3>2 DEF Ends
    <2>3. CASE BlockDependent \/ BlockUnreachable
      BY <2>1, <2>3 DEF BlockDependent, BlockUnreachable, Placed, Ends
    <2>4. CASE Dispatch \/ NothingReady \/ AllSucceeded \/ Collect
      BY <2>1, <2>4 DEF Dispatch, NothingReady, AllSucceeded, Collect, Takes, Phase, Ends
    <2>5. CASE BatchRejects
      <3>1. poisoned
        BY <2>5 DEF BatchRejects, TypeOK, Ends
      <3>2. phase' = "throwing"
        BY <2>5 DEF BatchRejects, Phase
      <3> QED BY <2>0, <3>1, <3>2 DEF Ends
    <2>6. CASE ReportBlocked
      <3>1. /\ batch' = {} /\ phase' \in {"loading", "throwing"}
            /\ phase' = "loading" => CampaignOk("campaign_blocked")
        BY <2>6 DEF ReportBlocked, Plan, Placed
      <3>2. phase' = "loading" => journal'.status = "blocked"
        BY <3>1, CampaignEffect DEF CampaignKind
      <3> QED BY <2>1, <3>1, <3>2 DEF Ends
    <2>7. CASE ReturnBlocked
      <3>1. batch' = {} /\ phase' \in {"returned", "throwing"} /\ journal' = journal /\ phase = "loading"
        BY <2>7 DEF ReturnBlocked, Plan, Placed, stores, GitFails
      <3> QED BY <2>1, <3>1 DEF Ends
    <2>8. CASE CatchCampaign
      <3>1. /\ phase = "throwing" /\ phase' = "rejected" /\ batch' = batch
            /\ CampaignOk("campaign_blocked") \/ CampaignRejects("campaign_blocked")
        BY <2>8 DEF CatchCampaign, Phase, Plan
      <3>2. poisoned' \/ journal'.status = "blocked"
        BY <3>1, CampaignEffect DEF CampaignKind
      <3> QED BY <2>0, <2>1, <3>1, <3>2 DEF Ends
    <2> QED BY <1>4, <2>2, <2>3, <2>4, <2>5, <2>6, <2>7, <2>8 DEF LoopStep
  <1> QED BY <1>1, <1>2, <1>3, <1>4, Steps

-----------------------------------------------------------------------------
(* The integration task *)

(* The phases before the resolver has an attempt.                           *)
Before == {"emitPlanned", "emitAuthorized", "scan", "batch", "drain", "integrate", "resolve",
           "refuseResolver", "prepareResolver"}

(* What the journals say of the integration task, by where its resolver is. *)
ResolverRecorded ==
    LET m == attempt[Integration]
        s == Shown(Integration)
        v == verdict[Integration]
    IN /\ phase \in Before => m = "none" /\ s = "absent"
       /\ phase = "emitResolverPrepared" => m = "prepared" /\ s = "absent"
       /\ phase = "beginResolver" => m = "prepared" /\ s = "prepared"
       /\ phase = "emitResolverStarted" => m = "running" /\ s = "prepared"
       /\ phase \in {"resolver", "closeResolver", "failResolver", "continue", "fallbackAgain",
                     "succeedResolver"} => m = "running" /\ s = "running"
       /\ phase = "closeResolver" => v \in {"budget_stopped", "failed"}
       /\ phase = "reportResolver" => v \in {"budget_stopped", "failed"} /\ m = v /\ s = "running"
       /\ phase = "emitResolverFailed" => m # "none" /\ s = "running"
       /\ phase = "emitResolverSucceeded" => m = "succeeded" /\ s = "running"
       /\ Follows(Integration)

(* What an append of the resolver does to the integration task. *)
LEMMA ResolverAppendsLocal ==
    ASSUME TypeOK, NEW s \in AttemptStatus, NEW from, NEW ok, NEW no,
           ResolverAppends(from, s, ok, no)
    PROVE  /\ phase = from /\ Shown(Integration)' = Shown(Integration)
           /\ verdict' = verdict
           /\ \/ /\ phase' = ok /\ attempt'[Integration] = s
                 /\ AttemptMayBecome(attempt[Integration], s)
              \/ /\ phase' = no
                 /\ \/ attempt'[Integration] = attempt[Integration]
                    \/ /\ attempt'[Integration] = s
                       /\ AttemptMayBecome(attempt[Integration], s)
  <1>1. Integration \in TaskId
    BY DEF TaskId
  <1>2. \/ phase' = ok /\ AppendOk(Integration, s)
        \/ phase' = no /\ AppendRejects(Integration, s)
    BY DEF ResolverAppends, Resolve, Phase
  <1>3. phase = from /\ verdict' = verdict
    BY DEF ResolverAppends, Resolve, Phase, Loop
  <1> QED BY <1>1, <1>2, <1>3, AppendEffect DEF TypeOK, Shown

(* What an emit of the resolver does to the integration task. *)
LEMMA ResolverEmitsLocal ==
    ASSUME TypeOK, NEW kind \in DOMAIN TaskKind, NEW from, NEW ok, NEW no,
           ResolverEmits(from, kind, ok, no)
    PROVE  /\ phase = from /\ attempt' = attempt /\ verdict' = verdict
           /\ \/ phase' = ok /\ Shown(Integration)' = TaskKind[kind]
              \/ phase' = no /\ Shown(Integration)' \in {Shown(Integration), TaskKind[kind]}
  <1>1. Integration \in TaskId
    BY DEF TaskId
  <1>2. \/ phase' = ok /\ EmitOk(kind, Integration)
        \/ phase' = no /\ EmitRejects(kind, Integration)
    BY DEF ResolverEmits, Resolve, Phase
  <1>3. phase = from /\ verdict' = verdict
    BY DEF ResolverEmits, Resolve, Phase, Loop
  <1> QED BY <1>1, <1>2, <1>3, EmitShown DEF TypeOK

(* Every step keeps what the journals say of the integration task. *)
LEMMA ResolverRecordsStep ==
    TypeOK /\ ResolverRecorded /\ Placed /\ [Next]_vars => ResolverRecorded'
  <1> SUFFICES ASSUME TypeOK, ResolverRecorded, Placed, [Next]_vars PROVE ResolverRecorded'
    OBVIOUS
  <1>0. Integration \in TaskId /\ Integration \notin Task
    BY PlanAssumption DEF TaskId
  <1> DEFINE Same == /\ attempt'[Integration] = attempt[Integration]
                     /\ verdict'[Integration] = verdict[Integration]
                     /\ Shown(Integration)' = Shown(Integration)
  <1>1. CASE UNCHANGED vars
    BY <1>1 DEF vars, stores, Shown, ResolverRecorded, Follows
  <1>2. ASSUME NEW t \in Task, TaskStep(t) PROVE ResolverRecorded'
    <2>1. TaskFrame(t) /\ t # Integration
      BY <1>0, <1>2, TaskStepFrame
    <2>2. Same /\ phase' = phase
      BY <1>0, <2>1 DEF TaskFrame, TypeOK, Projection, Shown
    <2> QED BY <2>2 DEF ResolverRecorded, Follows
  <1>3. CASE LoopStep
    <2>1. Same
      <3>1. attempt' = attempt /\ verdict' = verdict
        BY <1>3, LoopStepFrame DEF LoopFrame
      <3>2. Integration \notin pending
        BY <1>0 DEF TypeOK
      <3> QED BY <1>0, <1>3, <3>1, <3>2, LoopShown
    <2>2. \/ phase \in Before /\ phase' \in Before
          \/ phase' \in {"throwing", "rejected", "loading", "returned"}
      BY <1>3 DEF LoopStep, EmitPlanned, EmitAuthorized, BlockDependent, Dispatch, NothingReady,
           Collect, Takes, BatchRejects, BlockUnreachable, ReportBlocked, ReturnBlocked,
           AllSucceeded, CatchCampaign, Phase, Before
    <2> QED BY <2>1, <2>2 DEF ResolverRecorded, Follows, Before
  <1>4. CASE \/ Integrate \/ AdmitResolver \/ ResolverThrows \/ ContinuePicks \/ Fallback
             \/ Inspect
    <2>1. Same
      BY <1>4 DEF Integrate, AdmitResolver, ResolverThrows, ContinuePicks, Fallback, Inspect,
                  Resolve, Loop, stores, GitFails, Shown
    <2>2. \/ phase = "integrate" /\ phase' \in {"inspect", "resolve", "throwing"}
          \/ phase = "resolve" /\ phase' \in {"refuseResolver", "prepareResolver"}
          \/ phase = "resolver" /\ phase' = "failResolver"
          \/ phase = "continue" /\ phase' \in {"succeedResolver", "fallbackAgain", "failResolver"}
          \/ phase = "fallback" /\ phase' \in {"inspect", "throwing"}
          \/ phase = "fallbackAgain" /\ phase' \in {"succeedResolver", "throwing"}
          \/ phase = "inspect" /\ phase' \in {"candidate", "throwing"}
      BY <1>4 DEF Integrate, AdmitResolver, ResolverThrows, ContinuePicks, Fallback, Inspect,
                  Resolve, Phase
    <2> QED BY <2>1, <2>2 DEF ResolverRecorded, Follows, Before
  <1>5. CASE ResolverStep
    <2> USE Kinds DEF AttemptStatus, Terminal, AttemptMayBecome, ResolverRecorded, Follows, Before
    <2>1. CASE RefuseResolver
      BY <2>1, ResolverEmitsLocal DEF RefuseResolver
    <2>2. CASE PrepareResolver
      BY <2>2, ResolverAppendsLocal DEF PrepareResolver
    <2>3. CASE EmitResolverPrepared
      BY <2>3, ResolverEmitsLocal DEF EmitResolverPrepared
    <2>4. CASE BeginResolver
      BY <2>4, ResolverAppendsLocal DEF BeginResolver
    <2>5. CASE EmitResolverStarted
      BY <2>5, ResolverEmitsLocal DEF EmitResolverStarted
    <2>6. CASE CloseResolver
      <3>1. verdict[Integration] \in {"budget_stopped", "failed"}
        BY <2>6 DEF CloseResolver, ResolverAppends, Resolve, Phase
      <3> QED BY <2>6, <3>1, ResolverAppendsLocal DEF CloseResolver
    <2>7. CASE ReportResolver
      <3>1. verdict[Integration] \in {"budget_stopped", "failed"}
        BY <2>7 DEF ReportResolver, ResolverEmits, Resolve, Phase
      <3>2. /\ KindOf(verdict[Integration]) \in DOMAIN TaskKind
            /\ TaskKind[KindOf(verdict[Integration])] = verdict[Integration]
        BY <3>1, KindShows
      <3> QED BY <2>7, <3>1, <3>2, ResolverEmitsLocal DEF ReportResolver
    <2>8. CASE FailResolver
      BY <2>8, ResolverAppendsLocal DEF FailResolver
    <2>9. CASE EmitResolverFailed
      BY <2>9, ResolverEmitsLocal DEF EmitResolverFailed
    <2>10. CASE SucceedResolver
      BY <2>10, ResolverAppendsLocal DEF SucceedResolver
    <2>11. CASE EmitResolverSucceeded
      BY <2>11, ResolverEmitsLocal DEF EmitResolverSucceeded
    <2> QED BY <1>5, <2>1, <2>2, <2>3, <2>4, <2>5, <2>6, <2>7, <2>8, <2>9, <2>10, <2>11
            DEF ResolverStep
  <1>6. ASSUME NEW status \in WorkerStatus \ {"cancelled"}, NEW proofs \in BOOLEAN,
               NEW use \in 0 .. MaxUse, ResolverReturns(status, proofs, use)
        PROVE  ResolverRecorded'
    <2>1. /\ UNCHANGED <<attempt, journal>> /\ phase = "resolver"
          /\ \/ phase' = "continue"
             \/ /\ phase' = "closeResolver"
                /\ verdict'[Integration] \in {"budget_stopped", "failed"}
      BY <1>0, <1>6 DEF ResolverReturns, stores, TypeOK
    <2> QED BY <2>1 DEF ResolverRecorded, Follows, Shown, Before
  <1> QED BY <1>1, <1>2, <1>3, <1>4, <1>5, <1>6, Steps DEF IntegrationStep

-----------------------------------------------------------------------------
(* The commits of the integration *)

(* A commit of a sequence.                                                  *)
In(t, s) == \E i \in DOMAIN s : s[i] = t

(* Until the fallback, every task's commit is picked or still to pick; what *)
(* reaches the candidate without a human's mark has picked every one.       *)
Conflicted == Integrating \ {"integrate", "fallbackAgain", "succeedResolver",
                             "emitResolverSucceeded", "inspect", "candidate"}

Covered ==
    /\ phase \in Conflicted =>
          /\ integ.picked \in Seq(Task) /\ integ.left \in Seq(Task) /\ integ.left # <<>>
          /\ \A t \in Task : In(t, integ.picked) \/ In(t, integ.left)
    /\ phase \in {"succeedResolver", "emitResolverSucceeded", "inspect", "candidate"} =>
          \A t \in Task : integ.human \/ In(t, integ.picked)

(* Picking loses no commit, and an integrated result has none left. *)
LEMMA PicksKeep ==
    ASSUME NEW picked \in Seq(Task), NEW left \in Seq(Task), NEW r \in Picks(picked, left)
    PROVE  /\ r.picked \in Seq(Task) /\ r.left \in Seq(Task)
           /\ \A t : In(t, picked) \/ In(t, left) => In(t, r.picked) \/ In(t, r.left)
           /\ r.status = "integrated" => r.left = <<>>
           /\ r.status # "integrated" => r.left # <<>>
  <1>1. PICK n \in 0 .. Len(left) :
            /\ r.status = IF n = Len(left) THEN "integrated" ELSE "conflicted"
            /\ r.picked = picked \o SubSeq(left, 1, n)
            /\ r.left = SubSeq(left, n + 1, Len(left))
    <2>1. (IF picked = <<>> THEN 1 ELSE 0) .. Len(left) \subseteq 0 .. Len(left)
      OBVIOUS
    <2>2. PICK n \in (IF picked = <<>> THEN 1 ELSE 0) .. Len(left) :
              r = [status |-> IF n = Len(left) THEN "integrated" ELSE "conflicted",
                   picked |-> picked \o SubSeq(left, 1, n),
                   left   |-> SubSeq(left, n + 1, Len(left)),
                   human  |-> FALSE]
      BY Zenon DEF Picks
    <2>3. n \in 0 .. Len(left)
      BY <2>1
    <2> QED BY <2>2, <2>3
  <1> DEFINE a == SubSeq(left, 1, n)
             b == SubSeq(left, n + 1, Len(left))
  <1>2. /\ a \in Seq(Task) /\ Len(a) = n /\ \A i \in 1 .. n : a[i] = left[i]
    BY SubSeqProperties
  <1>3. /\ b \in Seq(Task) /\ Len(b) = Len(left) - n
        /\ \A i \in 1 .. Len(left) - n : b[i] = left[n + i]
    <2>1. \A i \in n + 1 .. Len(left) : left[i] \in Task
      OBVIOUS
    <2>2. /\ b \in Seq(Task)
          /\ Len(b) = IF n + 1 <= Len(left) THEN Len(left) - (n + 1) + 1 ELSE 0
          /\ \A i \in 1 .. Len(left) - (n + 1) + 1 : b[i] = left[n + 1 + i - 1]
      BY <2>1, SubSeqProperties
    <2> HIDE DEF b
    <2> QED BY <2>2
  <1>4. r.picked = picked \o a /\ r.left = b
    BY <1>1
  <1> HIDE DEF a, b
  <1>5. /\ r.picked \in Seq(Task) /\ Len(r.picked) = Len(picked) + n
        /\ \A i \in 1 .. Len(picked) : r.picked[i] = picked[i]
        /\ \A i \in 1 .. n : r.picked[Len(picked) + i] = a[i]
    <2>1. /\ picked \o a \in Seq(Task) /\ Len(picked \o a) = Len(picked) + Len(a)
          /\ \A i \in 1 .. Len(picked) + Len(a) : (picked \o a)[i] =
                    IF i <= Len(picked) THEN picked[i] ELSE a[i - Len(picked)]
      BY <1>2, ConcatProperties
    <2>2. Len(picked) \in Nat /\ Len(a) = n
      BY <1>2
    <2> QED BY <1>4, <2>1, <2>2
  <1>6. ASSUME NEW t, In(t, picked) PROVE In(t, r.picked)
    <2>1. PICK i \in 1 .. Len(picked) : picked[i] = t
      BY <1>6 DEF In
    <2>2. i \in 1 .. Len(r.picked) /\ r.picked[i] = t
      BY <1>5, <2>1
    <2>3. 1 .. Len(r.picked) = DOMAIN r.picked
      BY <1>5
    <2> QED BY <2>2, <2>3 DEF In
  <1>7. ASSUME NEW t, In(t, left) PROVE In(t, r.picked) \/ In(t, r.left)
    <2>1. PICK i \in 1 .. Len(left) : left[i] = t
      BY <1>7 DEF In
    <2>2. CASE i <= n
      <3>1. Len(picked) + i \in 1 .. Len(r.picked) /\ r.picked[Len(picked) + i] = t
        BY <1>2, <1>5, <2>1, <2>2
      <3> QED BY <3>1 DEF In
    <2>3. CASE i > n
      <3>1. i - n \in 1 .. Len(left) - n /\ b[i - n] = t
        BY <1>3, <2>1, <2>3
      <3> QED BY <1>3, <1>4, <3>1 DEF In
    <2> QED BY <2>1, <2>2, <2>3
  <1>8. r.left = <<>> <=> n = Len(left)
    BY <1>3, <1>4
  <1> QED BY <1>1, <1>3, <1>4, <1>5, <1>6, <1>7, <1>8

(* The conflicting commit, once continued, is picked. *)
LEMMA ContinueKeeps ==
    ASSUME NEW picked \in Seq(Task), NEW left \in Seq(Task), left # <<>>
    PROVE  /\ Append(picked, Head(left)) \in Seq(Task) /\ Tail(left) \in Seq(Task)
           /\ \A t : In(t, picked) \/ In(t, left) =>
                 In(t, Append(picked, Head(left))) \/ In(t, Tail(left))
  <1> DEFINE p == Append(picked, Head(left))
             q == Tail(left)
  <1>1. /\ p \in Seq(Task) /\ Len(p) = Len(picked) + 1
        /\ \A i \in 1 .. Len(picked) : p[i] = picked[i]
        /\ p[Len(picked) + 1] = left[1]
    OBVIOUS
  <1>2. /\ q \in Seq(Task) /\ Len(q) = Len(left) - 1
        /\ \A i \in 1 .. Len(left) - 1 : q[i] = left[i + 1]
    OBVIOUS
  <1> HIDE DEF p, q
  <1>3. ASSUME NEW t, In(t, picked) PROVE In(t, p)
    BY <1>1, <1>3 DEF In
  <1>4. ASSUME NEW t, In(t, left) PROVE In(t, p) \/ In(t, q)
    <2>1. PICK i \in 1 .. Len(left) : left[i] = t
      BY <1>4 DEF In
    <2>2. CASE i = 1
      BY <1>1, <2>1, <2>2 DEF In
    <2>3. CASE i > 1
      <3>1. i - 1 \in 1 .. Len(q) /\ q[i - 1] = t
        BY <1>2, <2>1, <2>3
      <3> QED BY <3>1 DEF In
    <2> QED BY <2>1, <2>2, <2>3
  <1> QED BY <1>1, <1>2, <1>3, <1>4 DEF p, q

(* Every step keeps the commits accounted for. *)
LEMMA CoveredStep == TypeOK /\ Covered /\ [Next]_vars => Covered'
  <1> SUFFICES ASSUME TypeOK, Covered, [Next]_vars PROVE Covered'
    OBVIOUS
  <1> USE DEF Conflicted, Integrating
  <1>1. CASE UNCHANGED vars
    BY <1>1 DEF vars, Covered, In
  <1>2. ASSUME NEW t \in Task, TaskStep(t) PROVE Covered'
    BY <1>2, TaskStepFrame DEF TaskFrame, Covered, In
  <1>3. CASE LoopStep
    <2>1. phase' \notin Integrating \/ phase' = "integrate"
      BY <1>3 DEF LoopStep, EmitPlanned, EmitAuthorized, BlockDependent, Dispatch, NothingReady,
           Collect, Takes, BatchRejects, BlockUnreachable, ReportBlocked, ReturnBlocked,
           AllSucceeded, CatchCampaign, Phase
    <2> QED BY <2>1 DEF Covered
  <1>4. CASE Integrate
    <2>1. CASE phase' = "throwing"
      BY <2>1 DEF Covered
    <2>2. CASE phase' # "throwing"
      <3>1. /\ integ' \in Picks(<<>>, PlanOrder)
            /\ phase' = IF integ'.status = "integrated" THEN "inspect" ELSE "resolve"
        BY <1>4, <2>2 DEF Integrate
      <3>2. <<>> \in Seq(Task) /\ PlanOrder \in Seq(Task) /\ \A t \in Task : In(t, PlanOrder)
        BY PlanAssumption DEF In
      <3>3. /\ integ'.picked \in Seq(Task) /\ integ'.left \in Seq(Task)
            /\ \A t \in Task : In(t, integ'.picked) \/ In(t, integ'.left)
            /\ integ'.status = "integrated" => integ'.left = <<>>
            /\ integ'.status # "integrated" => integ'.left # <<>>
        BY <3>1, <3>2, PicksKeep
      <3>4. \A t : ~In(t, <<>>)
        BY DEF In
      <3>5. CASE integ'.status = "integrated"
        BY <3>1, <3>3, <3>4, <3>5 DEF Covered, In
      <3>6. CASE integ'.status # "integrated"
        BY <3>1, <3>3, <3>6 DEF Covered, In
      <3> QED BY <3>5, <3>6
    <2> QED BY <2>1, <2>2
  <1>5. CASE ContinuePicks
    <2>1. CASE phase' = "failResolver"
      BY <1>5, <2>1 DEF ContinuePicks, Covered, In
    <2>2. CASE phase' # "failResolver"
      <3>1. /\ integ' \in Picks(Append(integ.picked, Head(integ.left)), Tail(integ.left))
            /\ phase = "continue"
            /\ phase' = IF integ'.status = "integrated" THEN "succeedResolver" ELSE "fallbackAgain"
        BY <1>5, <2>2 DEF ContinuePicks
      <3>2. /\ integ.picked \in Seq(Task) /\ integ.left \in Seq(Task) /\ integ.left # <<>>
            /\ \A t \in Task : In(t, integ.picked) \/ In(t, integ.left)
        BY <3>1 DEF Covered
      <3>3. /\ Append(integ.picked, Head(integ.left)) \in Seq(Task) /\ Tail(integ.left) \in Seq(Task)
            /\ \A t \in Task : \/ In(t, Append(integ.picked, Head(integ.left)))
                               \/ In(t, Tail(integ.left))
        BY <3>2, ContinueKeeps
      <3>4. /\ \A t \in Task : In(t, integ'.picked) \/ In(t, integ'.left)
            /\ integ'.status = "integrated" => integ'.left = <<>>
        BY <3>1, <3>3, PicksKeep
      <3>5. \A t : ~In(t, <<>>)
        BY DEF In
      <3> QED BY <3>1, <3>4, <3>5 DEF Covered, In
    <2> QED BY <2>1, <2>2
  <1>6. CASE Fallback
    <2>1. \/ phase' = "throwing"
          \/ phase' \in {"inspect", "succeedResolver"} /\ integ'.human = TRUE
      BY <1>6, FallbacksShape DEF Fallback
    <2> QED BY <2>1 DEF Covered
  <1>7. CASE AdmitResolver \/ ResolverThrows \/ Inspect
    <2>1. integ' = integ
      BY <1>7 DEF AdmitResolver, ResolverThrows, Inspect, Resolve, Loop
    <2>2. \/ phase = "resolve" /\ phase' \in {"refuseResolver", "prepareResolver"}
          \/ phase = "resolver" /\ phase' = "failResolver"
          \/ phase = "inspect" /\ phase' \in {"candidate", "throwing"}
      BY <1>7 DEF AdmitResolver, ResolverThrows, Inspect, Resolve, Phase
    <2> QED BY <2>1, <2>2 DEF Covered, In
  <1>8. CASE ResolverStep
    <2>1. integ' = integ
      BY <1>8 DEF ResolverStep, RefuseResolver, PrepareResolver, EmitResolverPrepared, BeginResolver,
           EmitResolverStarted, CloseResolver, ReportResolver, FailResolver, EmitResolverFailed,
           SucceedResolver, EmitResolverSucceeded, ResolverAppends, ResolverEmits, Resolve, Loop
    <2>2. \/ phase' = "throwing"
          \/ phase \in Conflicted /\ phase' \in Conflicted
          \/ phase = "succeedResolver" /\ phase' = "emitResolverSucceeded"
          \/ phase = "emitResolverSucceeded" /\ phase' = "inspect"
      BY <1>8 DEF ResolverStep, RefuseResolver, PrepareResolver, EmitResolverPrepared, BeginResolver,
           EmitResolverStarted, CloseResolver, ReportResolver, FailResolver, EmitResolverFailed,
           SucceedResolver, EmitResolverSucceeded, ResolverAppends, ResolverEmits, Resolve, Phase
    <2> QED BY <2>1, <2>2 DEF Covered, In
  <1>9. ASSUME NEW status \in WorkerStatus \ {"cancelled"}, NEW proofs \in BOOLEAN,
               NEW use \in 0 .. MaxUse, ResolverReturns(status, proofs, use)
        PROVE  Covered'
    <2>1. integ' = integ /\ phase = "resolver" /\ phase' \in {"continue", "closeResolver"}
      BY <1>9 DEF ResolverReturns
    <2> QED BY <2>1 DEF Covered, In
  <1> QED BY <1>1, <1>2, <1>3, <1>4, <1>5, <1>6, <1>7, <1>8, <1>9, Steps DEF IntegrationStep

-----------------------------------------------------------------------------
(* The budget *)

(* An authorization allows at least one task at a time. *)
LEMMA AuthType ==
    ASSUME TypeOK
    PROVE  auth.parallel \in Nat /\ auth.parallel >= 1 /\ MaxUse \in Nat
  BY AuthorizationAssumption DEF TypeOK

(* Multiplication by a natural number is monotone. *)
LEMMA MoreTimes ==
    ASSUME NEW m \in Nat, NEW a \in Nat, NEW b \in Nat, a <= b
    PROVE  a * m \in Nat /\ a * m <= b * m
  <1>1. PICK d \in Nat : b = a + d
    <2>1. b - a \in Nat /\ b = a + (b - a)
      OBVIOUS
    <2> QED BY <2>1
  <1>2. a * m \in Nat /\ d * m \in Nat /\ (a + d) * m = a * m + d * m
    OBVIOUS
  <1> QED BY <1>1, <1>2

(* One execution less is MaxUse less. *)
LEMMA OneTimeLess ==
    ASSUME NEW m \in Nat, NEW a \in Nat
    PROVE  (a + 1) * m = a * m + m
  OBVIOUS

(* Ranks of ready tasks: fewer than parallel are ahead of a selected one.   *)
Ahead(t) == {u \in Ready : Rank[u] < Rank[t]}

(* A batch is no larger than the authorized parallelism. *)
LEMMA BatchSize ==
    ASSUME TypeOK
    PROVE  IsFiniteSet(Selected) /\ Cardinality(Selected) <= auth.parallel
  <1>1. Ready \subseteq Task /\ IsFiniteSet(Task) /\ Rank \in [Task -> Nat]
    BY PlanAssumption DEF Ready, TypeOK
  <1>2. \A t \in Ready : IsFiniteSet(Ahead(t)) /\ Cardinality(Ahead(t)) \in Nat
    <2> SUFFICES ASSUME NEW t \in Ready
                 PROVE  IsFiniteSet(Ahead(t)) /\ Cardinality(Ahead(t)) \in Nat
      OBVIOUS
    <2>1. Ahead(t) \in SUBSET Task
      BY <1>1 DEF Ahead
    <2> QED BY <1>1, <2>1, FS_Subset, FS_CardinalityType
  <1>3. ASSUME NEW t \in Ready, NEW u \in Ready, Rank[t] < Rank[u]
        PROVE  Cardinality(Ahead(t)) < Cardinality(Ahead(u))
    <2>1. t \notin Ahead(t)
      BY <1>1 DEF Ahead
    <2>2. /\ IsFiniteSet(Ahead(t) \cup {t})
          /\ Cardinality(Ahead(t) \cup {t}) = Cardinality(Ahead(t)) + 1
      BY <1>2, <2>1, FS_AddElement
    <2>3. Ahead(t) \cup {t} \in SUBSET Ahead(u)
      BY <1>1, <1>3 DEF Ahead
    <2>4. Cardinality(Ahead(t) \cup {t}) <= Cardinality(Ahead(u))
      BY <1>2, <2>3, FS_Subset
    <2> QED BY <1>2, <2>2, <2>4
  <1> DEFINE place == [t \in Selected |-> Cardinality(Ahead(t))]
             Places == 0 .. auth.parallel - 1
  <1>4. Selected \subseteq Ready /\ \A t \in Selected : Cardinality(Ahead(t)) < auth.parallel
    BY DEF Selected, Ahead
  <1>5. place \in [Selected -> Places]
    BY <1>2, <1>4, AuthType
  <1>6. \A t, u \in Selected : place[t] = place[u] => t = u
    <2> SUFFICES ASSUME NEW t \in Selected, NEW u \in Selected, t # u
                 PROVE  Cardinality(Ahead(t)) # Cardinality(Ahead(u))
      OBVIOUS
    <2>1. t \in Ready /\ u \in Ready /\ Rank[t] \in Nat /\ Rank[u] \in Nat /\ Rank[t] # Rank[u]
      BY <1>1, <1>4, PlanAssumption
    <2>2. Cardinality(Ahead(t)) \in Nat /\ Cardinality(Ahead(u)) \in Nat
      BY <1>2, <2>1
    <2>3. CASE Rank[t] < Rank[u]
      BY <1>3, <2>1, <2>2, <2>3
    <2>4. CASE Rank[u] < Rank[t]
      BY <1>3, <2>1, <2>2, <2>4
    <2> QED BY <2>1, <2>3, <2>4
  <1>7. place \in Injection(Selected, Places)
    BY <1>5, <1>6 DEF Injection, IsInjective
  <1>8. IsFiniteSet(Places) /\ Cardinality(Places) = auth.parallel
    <2>1. 0 \in Int /\ auth.parallel - 1 \in Int /\ ~(0 > auth.parallel - 1)
      BY AuthType
    <2>2. /\ IsFiniteSet(Places)
          /\ Cardinality(Places) =
                IF 0 > auth.parallel - 1 THEN 0 ELSE auth.parallel - 1 - 0 + 1
      BY <2>1, FS_Interval
    <2> HIDE DEF Places
    <2> QED BY <2>1, <2>2, AuthType
  <1> HIDE DEF place, Places
  <1>9. IsFiniteSet(Selected) /\ Cardinality(Selected) <= Cardinality(Places)
    BY <1>7, <1>8, FS_Injection
  <1> QED BY <1>8, <1>9

(* The phases of an admitted resolver that has not reported its use.        *)
Admitted == {"prepareResolver", "emitResolverPrepared", "beginResolver", "emitResolverStarted",
             "resolver"}

(* The admitted executions of a profile that have not reported their use.   *)
Live(p) == {t \in Task : tpc[t] \in LiveLabels /\ Profile[t] = p}

(* The use they may still report.                                           *)
Room(p) == Cardinality(Live(p)) * MaxUse

(* A profile has used what its limit allows and one batch at most, counting *)
(* the use its live executions may still report; an admitted resolver       *)
(* starts below the limit.                                                  *)
Budgeted ==
    auth.mode # "observe" =>
        /\ \A p \in DOMAIN Limit : used[p] + Room(p) < Limit[p] + auth.parallel * MaxUse
        /\ phase \in Admitted /\ Profile[Integration] \in DOMAIN Limit =>
              used[Profile[Integration]] < Limit[Profile[Integration]]

(* The live executions of a profile can be counted. *)
LEMMA LiveFinite ==
    ASSUME NEW p
    PROVE  /\ IsFiniteSet(Live(p)) /\ Cardinality(Live(p)) \in Nat /\ Room(p) \in Nat
  <1>1. IsFiniteSet(Live(p)) /\ Cardinality(Live(p)) \in Nat
    BY PlanAssumption, FS_Subset, FS_CardinalityType DEF Live
  <1> QED BY <1>1, AuthorizationAssumption DEF Room

(* Fewer live executions have less room to use. *)
LEMMA LiveShrinks ==
    ASSUME NEW p, Live(p)' \subseteq Live(p)
    PROVE  Room(p)' \in Nat /\ Room(p)' <= Room(p)
  <1>1. Live(p)' \in SUBSET Live(p)
    OBVIOUS
  <1>2. IsFiniteSet(Live(p)') /\ Cardinality(Live(p)') <= Cardinality(Live(p))
    BY <1>1, LiveFinite, FS_Subset
  <1>3. Cardinality(Live(p)') \in Nat
    BY <1>2, FS_CardinalityType
  <1>4. /\ Cardinality(Live(p)') * MaxUse \in Nat
        /\ Cardinality(Live(p)') * MaxUse <= Cardinality(Live(p)) * MaxUse
    BY <1>2, <1>3, LiveFinite, AuthorizationAssumption, MoreTimes
  <1> QED BY <1>4 DEF Room

(* An execution that reports gives up MaxUse of its profile's room. *)
LEMMA LiveLoses ==
    ASSUME NEW p, NEW t \in Live(p), Live(p)' = Live(p) \ {t}
    PROVE  Room(p)' \in Nat /\ Room(p)' + MaxUse = Room(p)
  <1>1. /\ IsFiniteSet(Live(p)')
        /\ Cardinality(Live(p)') = Cardinality(Live(p)) - 1
    BY LiveFinite, FS_RemoveElement
  <1>2. Cardinality(Live(p)') \in Nat
    BY <1>1, FS_CardinalityType
  <1>3. Cardinality(Live(p)) = Cardinality(Live(p)') + 1
    BY <1>1, <1>2, LiveFinite
  <1>4. (Cardinality(Live(p)') + 1) * MaxUse = Cardinality(Live(p)') * MaxUse + MaxUse
    BY <1>2, AuthorizationAssumption, OneTimeLess
  <1>5. Cardinality(Live(p)') * MaxUse \in Nat
    BY <1>2, AuthorizationAssumption
  <1> QED BY <1>3, <1>4, <1>5 DEF Room

(* A batch is admitted below the limit, or refused as a whole. *)
LEMMA DispatchBudget ==
    ASSUME TypeOK, Placed, Budgeted, Dispatch, auth.mode # "observe", NEW p \in DOMAIN Limit
    PROVE  used'[p] + Room(p)' < Limit[p] + auth.parallel * MaxUse
  <1>0. /\ used[p] \in Nat /\ Limit[p] \in Nat /\ used' = used /\ auth.parallel * MaxUse \in Nat
    <2>1. p \in ProfileId /\ used[p] \in Nat /\ Limit[p] \in Nat
      BY PlanAssumption DEF TypeOK
    <2>2. used' = used
      BY DEF Dispatch
    <2> QED BY <2>1, <2>2, AuthType
  <1>1. used[p] + Room(p) < Limit[p] + auth.parallel * MaxUse
    BY DEF Budgeted
  <1>2. \A t \in Task : tpc[t] \notin LiveLabels
    <2>1. batch = {}
      BY DEF Placed, Dispatch
    <2> QED BY <2>1 DEF Placed, LiveLabels, TypeOK
  <1>3. \A t \in Task : tpc'[t] = IF t \in Selected THEN Admission(t) ELSE tpc[t]
    BY DEF Dispatch
  <1>4. CASE used[p] < Limit[p]
    <2>1. Live(p)' \in SUBSET Selected
      BY <1>2, <1>3 DEF Live
    <2>2. IsFiniteSet(Live(p)') /\ Cardinality(Live(p)') <= Cardinality(Selected)
      BY <2>1, BatchSize, FS_Subset
    <2>3. Cardinality(Live(p)') \in Nat /\ Cardinality(Selected) \in Nat
      BY <2>2, BatchSize, FS_CardinalityType
    <2>4. Cardinality(Live(p)') <= auth.parallel
      BY <2>2, <2>3, BatchSize, AuthType
    <2>5. /\ Cardinality(Live(p)') * MaxUse \in Nat
          /\ Cardinality(Live(p)') * MaxUse <= auth.parallel * MaxUse
      BY <2>3, <2>4, AuthType, MoreTimes
    <2>6. Room(p)' \in Nat /\ Room(p)' <= auth.parallel * MaxUse
      BY <2>5 DEF Room
    <2> QED BY <1>0, <1>4, <2>6
  <1>5. CASE ~(used[p] < Limit[p])
    <2>1. \A t \in Task : Profile[t] = p => Admission(t) = "refused"
      BY <1>0, <1>5 DEF Admission, BudgetRefuses, Exceeded
    <2>2. Live(p)' \subseteq Live(p)
      BY <1>2, <1>3, <2>1 DEF Live, LiveLabels
    <2>3. Room(p)' \in Nat /\ Room(p)' <= Room(p) /\ Room(p) \in Nat
      BY <2>2, LiveShrinks, LiveFinite
    <2> QED BY <1>0, <1>1, <2>3
  <1> QED BY <1>4, <1>5

(* A step of executeTask spends at most the room its execution had. *)
LEMMA TaskBudget ==
    ASSUME TypeOK, Budgeted, NEW t \in Task, TaskFrame(t), auth.mode # "observe",
           NEW p \in DOMAIN Limit
    PROVE  used'[p] + Room(p)' < Limit[p] + auth.parallel * MaxUse
  <1>0. /\ p \in ProfileId /\ used[p] \in Nat /\ Limit[p] \in Nat
        /\ auth.parallel * MaxUse \in Nat /\ Room(p) \in Nat
    <2>1. p \in ProfileId /\ used[p] \in Nat /\ Limit[p] \in Nat
      BY PlanAssumption DEF TypeOK
    <2> QED BY <2>1, AuthType, LiveFinite
  <1>1. used[p] + Room(p) < Limit[p] + auth.parallel * MaxUse
    BY DEF Budgeted
  <1>2. PICK l \in TaskLabels : /\ tpc' = [tpc EXCEPT ![t] = l]
                                /\ l \in LiveLabels => tpc[t] \in LiveLabels
    BY DEF TaskFrame
  <1>3. tpc'[t] = l /\ \A u \in Task \ {t} : tpc'[u] = tpc[u]
    BY <1>2 DEF TypeOK
  <1>4. Live(p)' \subseteq Live(p)
    BY <1>2, <1>3 DEF Live
  <1>5. CASE used' = used
    <2>1. Room(p)' \in Nat /\ Room(p)' <= Room(p)
      BY <1>4, LiveShrinks
    <2> QED BY <1>0, <1>1, <1>5, <2>1
  <1>6. CASE used' # used
    <2>1. PICK use \in 0 .. MaxUse : used' = [used EXCEPT ![Profile[t]] = @ + use]
      BY <1>6 DEF TaskFrame
    <2>2. tpc[t] \in LiveLabels /\ tpc'[t] \notin LiveLabels
      BY <1>6 DEF TaskFrame, LiveLabels
    <2>3. CASE Profile[t] = p
      <3>1. t \in Live(p) /\ Live(p)' = Live(p) \ {t}
        BY <1>3, <2>2, <2>3 DEF Live
      <3>2. Room(p)' \in Nat /\ Room(p)' + MaxUse = Room(p)
        BY <3>1, LiveLoses
      <3>3. used'[p] = used[p] + use
        BY <1>0, <2>1, <2>3 DEF TypeOK
      <3> QED BY <1>0, <1>1, <2>1, <3>2, <3>3, AuthType
    <2>4. CASE Profile[t] # p
      <3>1. used'[p] = used[p]
        BY <1>0, <2>1, <2>4 DEF TypeOK
      <3>2. Room(p)' \in Nat /\ Room(p)' <= Room(p)
        BY <1>4, LiveShrinks
      <3> QED BY <1>0, <1>1, <3>1, <3>2
    <2> QED BY <2>3, <2>4
  <1> QED BY <1>5, <1>6

(* The resolver, admitted below the limit, is a batch of one. *)
LEMMA ResolverBudget ==
    ASSUME TypeOK, Placed, Budgeted, IntegrationFrame, auth.mode # "observe",
           NEW p \in DOMAIN Limit, phase = "resolver" \/ used' = used
    PROVE  used'[p] + Room(p)' < Limit[p] + auth.parallel * MaxUse
  <1>0. /\ p \in ProfileId /\ used[p] \in Nat /\ Limit[p] \in Nat
        /\ auth.parallel * MaxUse \in Nat /\ Room(p) \in Nat
    <2>1. p \in ProfileId /\ used[p] \in Nat /\ Limit[p] \in Nat
      BY PlanAssumption DEF TypeOK
    <2> QED BY <2>1, AuthType, LiveFinite
  <1>1. used[p] + Room(p) < Limit[p] + auth.parallel * MaxUse
    BY DEF Budgeted
  <1>2. Room(p)' = Room(p)
    BY DEF IntegrationFrame, Room, Live
  <1>3. CASE used'[p] = used[p]
    BY <1>1, <1>2, <1>3
  <1>4. CASE used'[p] # used[p]
    <2>1. /\ phase = "resolver"
          /\ \E use \in 0 .. MaxUse : used' = [used EXCEPT ![Profile[Integration]] = @ + use]
      BY <1>4 DEF IntegrationFrame
    <2>2. PICK use \in 0 .. MaxUse : used' = [used EXCEPT ![Profile[Integration]] = @ + use]
      BY <2>1
    <2>3. p = Profile[Integration] /\ used'[p] = used[p] + use
      BY <1>0, <1>4, <2>2 DEF TypeOK
    <2>4. used[p] < Limit[p]
      BY <2>1, <2>3 DEF Budgeted, Admitted
    <2>5. \A t \in Task : tpc[t] \notin LiveLabels
      BY <2>1 DEF Placed, Integrating, LiveLabels
    <2>6. Live(p) = {}
      BY <2>5 DEF Live
    <2>7. Room(p) = 0
      BY <2>6, FS_EmptySet, AuthType DEF Room
    <2>8. MaxUse <= auth.parallel * MaxUse
      <3>1. 1 * MaxUse <= auth.parallel * MaxUse
        BY AuthType, MoreTimes
      <3> QED BY <3>1, AuthType
    <2> QED BY <1>0, <1>2, <2>2, <2>3, <2>4, <2>7, <2>8, AuthType
  <1> QED BY <1>3, <1>4

(* Every step keeps every limited profile within its budget. *)
LEMMA BudgetedStep == TypeOK /\ Placed /\ Budgeted /\ [Next]_vars => Budgeted'
  <1> SUFFICES ASSUME TypeOK, Placed, Budgeted, [Next]_vars, auth'.mode # "observe"
               PROVE  /\ \A p \in DOMAIN Limit :
                            used'[p] + Room(p)' < Limit[p] + auth'.parallel * MaxUse
                      /\ phase' \in Admitted /\ Profile[Integration] \in DOMAIN Limit =>
                            used'[Profile[Integration]] < Limit[Profile[Integration]]
    BY DEF Budgeted
  <1>0. auth' = auth
    <2>1. CASE UNCHANGED vars
      BY <2>1 DEF vars
    <2>2. CASE LoopStep
      BY <2>2, LoopStepFrame DEF LoopFrame
    <2>3. CASE IntegrationStep
      BY <2>3, IntegrationStepFrame DEF IntegrationFrame
    <2>4. ASSUME NEW t \in Task, TaskStep(t) PROVE auth' = auth
      BY <2>4, TaskStepFrame DEF TaskFrame
    <2> QED BY <2>1, <2>2, <2>3, <2>4, Steps
  <1>1. ASSUME UNCHANGED <<tpc, used>>, NEW p \in DOMAIN Limit
        PROVE  used'[p] + Room(p)' < Limit[p] + auth'.parallel * MaxUse
    BY <1>0, <1>1 DEF Budgeted, Room, Live
  <1>2. CASE UNCHANGED vars
    <2>1. UNCHANGED <<tpc, used, phase>>
      BY <1>2 DEF vars
    <2> QED BY <1>0, <1>1, <2>1 DEF Budgeted
  <1>3. ASSUME NEW t \in Task, TaskStep(t)
        PROVE  /\ \A p \in DOMAIN Limit :
                     used'[p] + Room(p)' < Limit[p] + auth'.parallel * MaxUse
               /\ phase' \notin Admitted
    <2>1. TaskFrame(t) /\ t \in batch
      BY <1>3, TaskStepFrame, Batched
    <2>2. phase' = phase /\ phase \in {"batch", "throwing", "rejected"}
      BY <2>1 DEF TaskFrame, Placed
    <2> QED BY <1>0, <2>1, <2>2, TaskBudget DEF Admitted
  <1>4. CASE LoopStep
    <2>1. phase' \notin Admitted
      BY <1>4 DEF LoopStep, EmitPlanned, EmitAuthorized, BlockDependent, Dispatch, NothingReady,
           Collect, Takes, BatchRejects, BlockUnreachable, ReportBlocked, ReturnBlocked,
           AllSucceeded, CatchCampaign, Phase, Admitted
    <2>2. CASE Dispatch
      BY <1>0, <2>1, <2>2, DispatchBudget
    <2>3. CASE ~Dispatch
      <3>1. UNCHANGED <<tpc, used>>
        BY <1>4, <2>3, LoopPlaces, LoopStepFrame DEF LoopFrame
      <3> QED BY <1>1, <2>1, <3>1
    <2> QED BY <2>2, <2>3
  <1>5. CASE IntegrationStep
    <2>1. IntegrationFrame
      BY <1>5, IntegrationStepFrame
    <2>2. \A p \in DOMAIN Limit : used'[p] + Room(p)' < Limit[p] + auth'.parallel * MaxUse
      BY <1>0, <2>1, ResolverBudget DEF IntegrationFrame
    <2>3. ASSUME phase' \in Admitted, Profile[Integration] \in DOMAIN Limit
          PROVE  used'[Profile[Integration]] < Limit[Profile[Integration]]
      <3>1. \/ AdmitResolver /\ phase' = "prepareResolver"
            \/ phase \in Admitted \ {"resolver"} /\ used' = used
        BY <1>5, <2>3 DEF IntegrationStep, Integrate, AdmitResolver, ResolverThrows, ContinuePicks,
             Fallback, Inspect, ResolverStep, RefuseResolver, PrepareResolver, EmitResolverPrepared,
             BeginResolver, EmitResolverStarted, CloseResolver, ReportResolver, FailResolver,
             EmitResolverFailed, SucceedResolver, EmitResolverSucceeded, ResolverReturns,
             ResolverAppends, ResolverEmits, Resolve, Phase, Loop, Admitted
      <3>2. CASE AdmitResolver /\ phase' = "prepareResolver"
        <4>1. ~BudgetRefuses(Profile[Integration]) /\ used' = used
          BY <3>2 DEF AdmitResolver, Resolve, Phase, Loop
        <4>2. used[Profile[Integration]] \in Nat /\ Limit[Profile[Integration]] \in Nat
          BY <2>3, PlanAssumption DEF TypeOK
        <4> QED BY <1>0, <2>3, <4>1, <4>2 DEF BudgetRefuses, Exceeded
      <3>3. CASE phase \in Admitted \ {"resolver"} /\ used' = used
        BY <1>0, <2>3, <3>3 DEF Budgeted
      <3> QED BY <3>1, <3>2, <3>3
    <2> QED BY <2>2, <2>3
  <1> QED BY <1>2, <1>3, <1>4, <1>5, Steps

-----------------------------------------------------------------------------
(* The theorems *)

(* The inductive invariant.                                                 *)
IInv == TypeOK /\ Placed /\ Records /\ Ends /\ ResolverRecorded /\ Covered /\ Budgeted

(* The campaign starts in the invariant. *)
LEMMA InitInv == Init => IInv
  <1> SUFFICES ASSUME Init PROVE IInv
    OBVIOUS
  <1>1. TypeOK
    BY InitType
  <1>2. /\ phase = "emitPlanned" /\ pending = Task /\ batch = {} /\ completed = {}
        /\ \A t \in Task : tpc[t] = "idle" /\ attempt[t] = "none"
        /\ \A t \in TaskId : Shown(t) = "absent"
        /\ attempt[Integration] = "none"
    BY DEF Init, NoEvents, Shown, TaskId
  <1>3. Task \subseteq TaskId /\ Integration \in TaskId
    BY DEF TaskId
  <1>4. Placed /\ Ends
    BY <1>2, <1>3 DEF Placed, Ends, Integrating
  <1>5. Records
    BY <1>2, <1>3 DEF Records, Recorded, Follows
  <1>6. ResolverRecorded
    BY <1>2, <1>3 DEF ResolverRecorded, Follows, Before
  <1>7. Covered
    BY <1>2 DEF Covered, Conflicted, Integrating
  <1>8. Budgeted
    <2>1. phase \notin Admitted
      BY <1>2 DEF Admitted
    <2>2. ASSUME NEW p \in DOMAIN Limit
          PROVE  used[p] + Room(p) < Limit[p] + auth.parallel * MaxUse
      <3>1. used[p] = 0 /\ Limit[p] \in Nat \ {0}
        BY PlanAssumption DEF Init
      <3>2. Live(p) = {}
        BY <1>2 DEF Live, LiveLabels
      <3>3. Room(p) = 0
        BY <3>2, FS_EmptySet, AuthorizationAssumption DEF Room
      <3>4. auth.parallel * MaxUse \in Nat
        BY <1>1, AuthType
      <3> QED BY <3>1, <3>3, <3>4
    <2> QED BY <2>1, <2>2 DEF Budgeted
  <1> QED BY <1>1, <1>4, <1>5, <1>6, <1>7, <1>8 DEF IInv

(* Every step keeps it. *)
LEMMA StepInv == IInv /\ [Next]_vars => IInv'
  BY TypeStep, PlacedStep, RecordsStep, EndsStep, ResolverRecordsStep, CoveredStep, BudgetedStep
     DEF IInv

(* It holds for ever. *)
LEMMA Invariance == Spec => []IInv
  BY InitInv, StepInv, PTL DEF Spec

(* Every variable keeps its type. *)
THEOREM TypeCorrect == Spec => []TypeOK
  <1>1. IInv => TypeOK
    BY DEF IInv
  <1> QED BY <1>1, Invariance, PTL

(* No task has an attempt before all its dependencies succeeded in both     *)
(* journals, for every plan and whatever fails: a task is admitted only     *)
(* behind completed ones, and a completed one was delivered.                *)
THEOREM Dependencies == Spec => []DependenciesFirst
  <1>1. IInv => DependenciesFirst
    <2> SUFFICES ASSUME IInv, NEW t \in Task, attempt[t] # "none", NEW d \in Deps[t]
                 PROVE  attempt[d] = "succeeded" /\ journal.tasks[d] = "succeeded"
      BY DEF DependenciesFirst
    <2>1. tpc[t] # "idle"
      BY DEF IInv, Records, Recorded
    <2>2. d \in completed /\ d \in Task
      BY <2>1 DEF IInv, Placed, TypeOK
    <2>3. tpc[d] = "delivered"
      BY <2>2 DEF IInv, Placed
    <2> QED BY <2>2, <2>3 DEF IInv, Records, Recorded, Shown
  <1> QED BY <1>1, Invariance, PTL

(* No event announces what the attempt journal does not record yet, for the *)
(* tasks and for the integration task, in every interleaving.               *)
THEOREM EventsAfterAttempts == Spec => []EventsFollowAttempts
  <1>1. IInv => EventsFollowAttempts
    <2> SUFFICES ASSUME IInv, NEW t \in TaskId PROVE Follows(t)
      BY DEF EventsFollowAttempts, Follows, Shown
    <2>1. CASE t \in Task
      BY <2>1 DEF IInv, Records
    <2>2. CASE t = Integration
      BY <2>2 DEF IInv, ResolverRecorded
    <2> QED BY <2>1, <2>2 DEF TaskId
  <1> QED BY <1>1, Invariance, PTL

(* A terminal attempt is never rewritten, not even by a catch clause that   *)
(* runs because the event after it was lost.                                *)
THEOREM AttemptsStay == Spec => TerminalAttemptsStay
  <1>1. TypeOK /\ [Next]_vars =>
            [\A t \in TaskId : attempt[t] \in Terminal => attempt'[t] = attempt[t]]_vars
    BY TerminalStep
  <1> QED BY <1>1, TypeCorrect, PTL DEF Spec, TerminalAttemptsStay

(* A profile in admission or hard_stop mode never uses more than its limit  *)
(* and one batch, whatever the parallelism and the use of an execution.     *)
THEOREM Overshoot == Spec => []OvershootIsOneBatch
  <1>1. IInv => OvershootIsOneBatch
    <2> SUFFICES ASSUME IInv, auth.mode # "observe", NEW p \in DOMAIN Limit
                 PROVE  used[p] < Limit[p] + auth.parallel * MaxUse
      BY DEF OvershootIsOneBatch
    <2>1. TypeOK /\ used[p] + Room(p) < Limit[p] + auth.parallel * MaxUse
      BY DEF IInv, Budgeted
    <2>2. p \in ProfileId /\ used[p] \in Nat /\ Limit[p] \in Nat
      BY <2>1, PlanAssumption DEF TypeOK
    <2>3. Room(p) \in Nat /\ auth.parallel * MaxUse \in Nat
      BY <2>1, LiveFinite, AuthType
    <2> QED BY <2>1, <2>2, <2>3
  <1> QED BY <1>1, Invariance, PTL

(* A candidate has every task succeeded in both journals, and every commit  *)
(* picked unless it is marked for a human, over any sequence of conflicts.  *)
THEOREM CompleteCandidate == Spec => []CandidateIsComplete
  <1>1. IInv => CandidateIsComplete
    <2> SUFFICES ASSUME IInv, phase = "candidate", NEW t \in Task
                 PROVE  /\ attempt[t] = "succeeded" /\ journal.tasks[t] = "succeeded"
                        /\ integ.human \/ \E i \in DOMAIN integ.picked : integ.picked[i] = t
      BY DEF CandidateIsComplete
    <2>1. t \in completed
      BY DEF IInv, Placed, Integrating
    <2>2. tpc[t] = "delivered" /\ Recorded(t)
      BY <2>1 DEF IInv, Placed, Records
    <2>3. integ.human \/ In(t, integ.picked)
      BY DEF IInv, Covered
    <2> QED BY <2>2, <2>3 DEF Recorded, Shown, In
  <1> QED BY <1>1, Invariance, PTL

(* When start() has a result no worker is left behind, and the projection   *)
(* shows a blocked campaign unless an event was lost.                       *)
THEOREM SettledOnReturn == Spec => []ReturnedMeansSettled
  <1>1. IInv => ReturnedMeansSettled
    <2> SUFFICES ASSUME IInv PROVE ReturnedMeansSettled
      OBVIOUS
    <2>1. ASSUME phase \in {"returned", "candidate", "integrate", "inspect"}, NEW t \in Task
          PROVE  tpc[t] \in {"idle", "over", "delivered"}
      <3>1. batch = {}
        BY <2>1 DEF IInv, Placed
      <3> QED BY <3>1 DEF IInv, Placed
    <2> QED BY <2>1 DEF IInv, Ends, ReturnedMeansSettled
  <1> QED BY <1>1, Invariance, PTL
=============================================================================
