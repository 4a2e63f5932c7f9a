-------------------------- MODULE CampaignJournal --------------------------
(***************************************************************************)
(* The two durable journals of a v2.3 campaign, as operators on their      *)
(* contents.                                                               *)
(*                                                                         *)
(* Event journal: status(), and every caller of start() and apply(), reads *)
(* the projection that projectCampaignEvents folds out of the events       *)
(* (domain/orchestration/orchestration-event.ts).  The models keep that    *)
(* projection instead of the list, and apply one event of the fold to it.  *)
(*                                                                         *)
(* Attempt journal: FsOrchestrationCampaignV23Store.appendAttempt keeps    *)
(* one chain of revisions per task and refuses those                       *)
(* assertAttemptTransition does not allow.  The models keep the last one.  *)
(***************************************************************************)

CONSTANTS TaskId        \* ids of the plan's tasks and of the integration task

TaskKind == [task_prepared       |-> "prepared",
             task_started        |-> "running",
             task_succeeded      |-> "succeeded",
             task_failed         |-> "failed",
             task_blocked        |-> "blocked",
             task_budget_stopped |-> "budget_stopped",
             task_cancelled      |-> "cancelled"]

CampaignKind == [campaign_planned              |-> "planned",
                 campaign_authorized           |-> "authorized",
                 campaign_blocked              |-> "blocked",
                 campaign_awaiting_application |-> "awaiting_application",
                 campaign_completed            |-> "completed"]

Projection == [status : {"planned", "authorized", "running", "blocked",
                         "awaiting_application", "completed"},
               tasks  : [TaskId -> {TaskKind[k] : k \in DOMAIN TaskKind} \cup {"absent"}]]

NoEvents == [status |-> "planned", tasks |-> [t \in TaskId |-> "absent"]]

(* One event about the campaign, and one about a task: the loop body of     *)
(* projectCampaignEvents.  A blocked or budget-stopped task shows the whole *)
(* campaign as blocked, a cancelled one does not touch its status, any      *)
(* other task event shows it as running again.                              *)
WithCampaignEvent(j, kind) == [j EXCEPT !.status = CampaignKind[kind]]

WithTaskEvent(j, kind, t) ==
    [status |-> CASE kind \in {"task_blocked", "task_budget_stopped"} -> "blocked"
                  [] kind = "task_cancelled" -> j.status
                  [] OTHER -> "running",
     tasks  |-> [j.tasks EXCEPT ![t] = TaskKind[kind]]]

-----------------------------------------------------------------------------

Terminal == {"succeeded", "failed", "blocked", "budget_stopped", "cancelled"}

AttemptStatus == {"none", "prepared", "running"} \cup Terminal

(* Mutant of AttemptMayBecome: only the head of the chain is checked. *)
AttemptMayBecome_HeadOnly(from, to) == from # "none" \/ to = "prepared"

(* assertAttemptTransition, for the one execution id a task has in v2.3. *)
AttemptMayBecome(from, to) ==
    \/ from = "none" /\ to = "prepared"
    \/ from = "prepared" /\ to \in {"running", "failed", "blocked", "cancelled"}
    \/ from = "running" /\ to \in Terminal
=============================================================================
