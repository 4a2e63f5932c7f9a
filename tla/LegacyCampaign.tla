--------------------------- MODULE LegacyCampaign ---------------------------
(***************************************************************************)
(* The campaigns and executions that Norn 2.2 left in a Project, as 2.3    *)
(* still serves them (src/src/composition/orchestration-runtime.ts).  The  *)
(* engine is frozen: no campaign is created, resumed, decided or retried,  *)
(* and the worker that is launched for an execution throws at once.  What  *)
(* remains are the commands that withdraw a campaign, apply its changes,   *)
(* and cancel, approve or retry an execution, each in a process of its     *)
(* own.  They share two files; each update of a file is atomic (FileLock), *)
(* and judges the record or the campaign it finds, not what was read.      *)
(*                                                                         *)
(* The Project is in manual mode without a 2.3 configuration, where all of *)
(* them are served; in automatic mode only apply is.  A user passes the    *)
(* revision that is on disk: another one is refused before any step.       *)
(***************************************************************************)
EXTENDS Naturals, FiniteSets

CONSTANTS
    Caller,         \* the processes of the commands
    Campaign, NoCampaign,
    Isolated,       \* campaigns with a private mirror
    Execution,      \* a set of integers: the records, in registry order
    MissionOf(_),   \* the campaign whose mission an execution is
    Retriable,      \* executions with an attempt left and a target of 2.2
    MaxCommands     \* bound on commands and ended processes together

ASSUME ConstantsAssumption ==
    /\ NoCampaign \notin Campaign /\ Isolated \subseteq Campaign
    /\ Execution \subseteq Nat /\ Retriable \subseteq Execution
    /\ \A e \in Execution : MissionOf(e) \in Campaign \cup {NoCampaign}
    /\ MaxCommands \in Nat

VARIABLES
    status,     \* campaigns.json: the status of each campaign
    record,     \* executions.json: the status of each execution
    kept,       \* campaigns whose mirror exists
    applied,    \* campaigns whose changes have reached the project
    proc,       \* what each process is doing
    cut,        \* campaigns a command left half way (history)
    overtaken,  \* campaigns withdrawn while their changes were applied (history)
    crowded,    \* campaigns of which a mission before the started one was
                \* planned again (history)
    commands    \* commands and ended processes so far

Campaigns == <<status, overtaken>>
Registry  == <<record, crowded>>
Mirrors   == <<kept, applied>>
vars == <<Campaigns, Registry, Mirrors, proc, cut, commands>>

Closed  == {"completed", "cancelled", "abandoned"}
Statuses == Closed \cup {"planned", "running", "paused", "awaiting_decision",
                         "awaiting_application", "blocked"}
Started == {"running", "awaiting_approval"}
Active  == Started \cup {"planned"}
RecordStatuses == Active \cup {"succeeded", "failed", "cancelled", "interrupted", "rejected"}

Missions(c) == {e \in Execution : MissionOf(e) = c}
Live(c) == {e \in Missions(c) : record[e] \in Active}

Resting == [at |-> "rest", cmd |-> "none", c |-> NoCampaign, e |-> 0, judged |-> {}]

(* Whatever 2.2 may have left, a completed campaign excepted, which nothing *)
(* touches: one active mission at most, and a campaign that was withdrawn   *)
(* without stopping it was left half way.                                   *)
Init ==
    /\ status \in [Campaign -> Statuses \ {"completed"}]
    /\ record \in [Execution -> RecordStatuses]
    /\ \A e, f \in Execution : record[e] \in Active /\ record[f] \in Active => e = f
    /\ kept \in SUBSET Isolated /\ applied = {}
    /\ proc = [p \in Caller |-> Resting]
    /\ cut = {c \in Campaign : status[c] \in {"paused", "cancelled"} /\ Live(c) # {}}
    /\ overtaken = {} /\ crowded = {} /\ commands = 0

-----------------------------------------------------------------------------
(* Processes *)

At(p, place) == proc[p].at = place
Goes(p, place) == proc' = [proc EXCEPT ![p].at = place]
Ends(p) == proc' = [proc EXCEPT ![p] = Resting]
Spend == commands < MaxCommands /\ commands' = commands + 1

OnlyProc      == UNCHANGED <<Campaigns, Registry, Mirrors, cut, commands>>
OnlyCampaigns == UNCHANGED <<Registry, Mirrors, cut, commands>>
OnlyRegistry  == UNCHANGED <<Campaigns, Mirrors, cut, commands>>
OnlyMirrors   == UNCHANGED <<Campaigns, Registry, cut, commands>>

Begins(p, held) ==
    /\ At(p, "rest")
    /\ Spend
    /\ proc' = [proc EXCEPT ![p] = held]
    /\ UNCHANGED <<Campaigns, Registry, Mirrors, cut>>

(* The commands on a campaign: it is read, with its revision.               *)
CampaignCommand(p) ==
    \E c \in Campaign :
       \/ \E cmd \in {"pause", "cancel"} :
             Begins(p, [Resting EXCEPT !.at = "turn", !.cmd = cmd, !.c = c])
       \/ Begins(p, [Resting EXCEPT !.at = "discard", !.cmd = "abandon", !.c = c])
       \/ /\ status[c] = "awaiting_application"
          /\ Begins(p, [Resting EXCEPT !.at = "open", !.cmd = "apply", !.c = c])

(* Those on an execution: approve and retry first judge the active records  *)
(* they read, any of which may be past the stale window.                    *)
ExecutionCommand(p) ==
    \E e \in Execution :
       \/ Begins(p, [Resting EXCEPT !.at = "check", !.cmd = "cancelExecution", !.e = e])
       \/ \E cmd \in {"approve", "retry"} :
          \E stale \in SUBSET {f \in Execution : record[f] \in Active} :
             Begins(p, [Resting EXCEPT !.at = IF stale = {} THEN "check" ELSE "recover",
                          !.cmd = cmd, !.e = e, !.judged = {<<f, record[f]>> : f \in stale}])

-----------------------------------------------------------------------------
(* Withdrawing a campaign *)

(* OrchestrationCampaign.pause, cancel and abandon.                         *)
MayTurn(c, cmd) ==
    IF cmd = "pause" THEN status[c] = "running" ELSE status[c] \notin Closed

TurnOf(cmd) ==
    CASE cmd = "pause" -> "paused" [] cmd = "cancel" -> "cancelled"
      [] cmd = "abandon" -> "abandoned"

Applying(c) == \E p \in Caller : proc[p].c = c /\ proc[p].at \in {"open", "copy", "complete"}

Turns(c, cmd) ==
    /\ MayTurn(c, cmd)
    /\ status' = [status EXCEPT ![c] = TurnOf(cmd)]
    /\ overtaken' = IF Applying(c) THEN overtaken \cup {c} ELSE overtaken

Turn(p) ==
    /\ At(p, "turn")
    /\ LET c == proc[p].c
           cmd == proc[p].cmd
       IN \/ Turns(c, cmd) /\ Goes(p, "stop")
          \/ ~MayTurn(c, cmd) /\ Ends(p) /\ UNCHANGED Campaigns
    /\ OnlyCampaigns

(* Mutant of StopMission: only a running mission is looked for.             *)
StopMission_Running(p) ==
    /\ At(p, "stop")
    /\ LET live == {e \in Live(proc[p].c) : record[e] = "running"} IN
       \/ live = {} /\ Ends(p)
       \/ \E e \in live :
             /\ \A f \in live : e <= f
             /\ proc' = [proc EXCEPT ![p].at = "stopRecord", ![p].e = e]
    /\ OnlyProc

(* The first active mission in the registry, read once the campaign has     *)
(* turned, and stopped in an update of its own.                             *)
StopMission(p) ==
    /\ At(p, "stop")
    /\ LET live == Live(proc[p].c) IN
       \/ live = {} /\ Ends(p)
       \/ \E e \in live :
             /\ \A f \in live : e <= f
             /\ proc' = [proc EXCEPT ![p].at = "stopRecord", ![p].e = e]
    /\ OnlyProc

(* A transition a record refuses throws, and nothing is written.            *)
BecomesIf(e, from, new) ==
    record' = IF record[e] \in from THEN [record EXCEPT ![e] = new] ELSE record

StopRecord(p) ==
    /\ At(p, "stopRecord")
    /\ IF proc[p].cmd = "pause" THEN BecomesIf(proc[p].e, Started, "interrupted")
                                ELSE BecomesIf(proc[p].e, Active, "cancelled")
    /\ Ends(p)
    /\ OnlyRegistry /\ UNCHANGED crowded

(* abandon removes the mirror first, then asks the campaign; the mission is *)
(* left as it is.  A removal that fails may have removed what a later open  *)
(* needs.                                                                   *)
Discard(p) ==
    /\ At(p, "discard")
    /\ \/ kept' = kept \ {proc[p].c} /\ Goes(p, "abandon")
       \/ kept' \in {kept, kept \ {proc[p].c}} /\ Ends(p)
    /\ OnlyMirrors /\ UNCHANGED applied

Abandon(p) ==
    /\ At(p, "abandon")
    /\ LET c == proc[p].c IN
       \/ Turns(c, "abandon")
       \/ ~MayTurn(c, "abandon") /\ UNCHANGED Campaigns
    /\ Ends(p)
    /\ OnlyCampaigns

-----------------------------------------------------------------------------
(* Applying the changes of a campaign *)

(* The mirror, the shown changes and the project are compared; without a    *)
(* mirror, or when anything moved, the application is refused.              *)
OpenMirror(p) ==
    /\ At(p, "open")
    /\ \/ proc[p].c \in kept /\ Goes(p, "copy")
       \/ Ends(p)
    /\ OnlyProc

(* Mutant of ApplyMirror: a failed application goes on as a success.        *)
ApplyMirror_Swallows(p) ==
    /\ At(p, "copy")
    /\ applied' \in {applied, applied \cup {proc[p].c}} /\ Goes(p, "complete")
    /\ OnlyMirrors /\ UNCHANGED kept

(* All the changes are in the project, or what was written is rolled back   *)
(* (WorkspaceApply).                                                        *)
ApplyMirror(p) ==
    /\ At(p, "copy")
    /\ \/ applied' = applied \cup {proc[p].c} /\ Goes(p, "complete")
       \/ Ends(p) /\ UNCHANGED applied
    /\ OnlyMirrors /\ UNCHANGED kept

(* Mutants of Completable: the status the campaign was read with is not     *)
(* asked for again; that of a campaign whose missions still run only is.    *)
Completable_AsRead(c) == TRUE
Completable_Running(c) == status[c] = "running"

Completable(c) == status[c] \in {"running", "awaiting_application"}

Complete(p) ==
    /\ At(p, "complete")
    /\ status' = IF Completable(proc[p].c) THEN [status EXCEPT ![proc[p].c] = "completed"]
                                           ELSE status
    /\ Ends(p)
    /\ OnlyCampaigns /\ UNCHANGED overtaken

-----------------------------------------------------------------------------
(* Executions *)

(* What was judged stale is written one by one, in registry order; a record *)
(* that has left the status it was judged for stays as it is, unless it may *)
(* be interrupted or rejected all the same.                                 *)
Recover(p) ==
    /\ At(p, "recover")
    /\ \E stale \in proc[p].judged :
          LET rest == proc[p].judged \ {stale} IN
          /\ \A other \in rest : stale[1] < other[1]
          /\ IF stale[2] = "planned" THEN BecomesIf(stale[1], {"planned"}, "rejected")
                                     ELSE BecomesIf(stale[1], Started, "interrupted")
          /\ proc' = [proc EXCEPT ![p].judged = rest,
                                  ![p].at = IF rest = {} THEN "check" ELSE "recover"]
    /\ OnlyRegistry /\ UNCHANGED crowded

(* Mutant of InTheWay: only a running campaign keeps its missions.          *)
InTheWay_Running(c, cmd) == c \in Campaign /\ status[c] = "running"

(* An execution of an open campaign is left to its campaign; approve leaves *)
(* it to any.                                                               *)
InTheWay(c, cmd) == c \in Campaign /\ (cmd = "approve" \/ status[c] \notin Closed)

Check(p) ==
    /\ At(p, "check")
    /\ LET cmd == proc[p].cmd IN
       IF InTheWay(MissionOf(proc[p].e), cmd) THEN Ends(p)
       ELSE Goes(p, IF cmd = "cancelExecution" THEN "cancelRecord" ELSE "replan")
    /\ OnlyProc

CancelRecord(p) ==
    /\ At(p, "cancelRecord")
    /\ BecomesIf(proc[p].e, Active, "cancelled")
    /\ Ends(p)
    /\ OnlyRegistry /\ UNCHANGED crowded

(* ExecutionRecord.approve and retry.                                       *)
MayReplan(e, cmd) ==
    IF cmd = "approve" THEN record[e] = "awaiting_approval"
    ELSE record[e] \in {"failed", "cancelled", "interrupted"} /\ e \in Retriable

Precedes(e, c) == e \in Missions(c) /\ \E f \in Missions(c) : e < f /\ record[f] \in Started

Replan(p) ==
    /\ At(p, "replan")
    /\ LET e == proc[p].e IN
       \/ /\ MayReplan(e, proc[p].cmd)
          /\ record' = [record EXCEPT ![e] = "planned"]
          /\ crowded' = crowded \cup {c \in Campaign : Precedes(e, c)}
          /\ Goes(p, "launch")
       \/ ~MayReplan(e, proc[p].cmd) /\ Ends(p) /\ UNCHANGED Registry
    /\ OnlyRegistry

(* launchOrReject: the worker it starts throws before it reads the record,  *)
(* which stays planned; one that cannot be started rejects it.              *)
Launch(p) ==
    /\ At(p, "launch")
    /\ \/ UNCHANGED record
       \/ BecomesIf(proc[p].e, {"planned"}, "rejected")
    /\ Ends(p)
    /\ OnlyRegistry /\ UNCHANGED crowded

-----------------------------------------------------------------------------
(* A step throws, on a lock or a file, or the process is ended.             *)
EndsEarly(p) ==
    /\ ~At(p, "rest")
    /\ Spend
    /\ cut' = IF proc[p].at \in {"stop", "stopRecord", "complete"}
                 THEN cut \cup {proc[p].c} ELSE cut
    /\ Ends(p)
    /\ UNCHANGED <<Campaigns, Registry, Mirrors>>

Step(p) ==
    \/ Turn(p) \/ StopMission(p) \/ StopRecord(p) \/ Discard(p) \/ Abandon(p)
    \/ OpenMirror(p) \/ ApplyMirror(p) \/ Complete(p)
    \/ Recover(p) \/ Check(p) \/ CancelRecord(p) \/ Replan(p) \/ Launch(p)

Next == \E p \in Caller : CampaignCommand(p) \/ ExecutionCommand(p) \/ Step(p) \/ EndsEarly(p)

Spec == Init /\ [][Next]_vars
-----------------------------------------------------------------------------
(* Properties *)

(* A campaign is completed only when its changes are in the project: one    *)
(* that was refused or rolled back leaves it as it is (apply).              *)
CompletedIsApplied == \A c \in Campaign : status[c] = "completed" => c \in applied

(* Changes in the project are those of a completed campaign, or of one that *)
(* is about to be; else the process ended between the two (nothing on disk  *)
(* says so, and the next apply finds the project changed), or the campaign  *)
(* was withdrawn while they were copied, which the application does not     *)
(* hear of before it is done (apply, abandon, cancelCampaign).              *)
AppliedIsRecorded ==
    \A c \in applied :
       \/ status[c] = "completed"
       \/ \E p \in Caller : At(p, "complete") /\ proc[p].c = c
       \/ c \in cut
       \/ c \in overtaken /\ status[c] \in Closed

(* A closed campaign stays as it was closed, whatever commands had read it  *)
(* before (OrchestrationCampaign.cancel, abandon, pause, complete).         *)
ClosedForGood ==
    [][\A c \in Campaign : status[c] \in Closed => status'[c] = status[c]]_vars

(* An execution is planned again only outside a campaign, or when that is   *)
(* closed, also by the time the registry is written (retry, approve).       *)
PlannedOutsideCampaigns ==
    [][\A e \in Execution :
          record[e] # "planned" /\ record'[e] = "planned" /\ MissionOf(e) \in Campaign =>
             status'[MissionOf(e)] \in Closed]_vars

(* No mission of a campaign that was paused or cancelled is left as started *)
(* once the command is done, unless its process ended early, or a mission   *)
(* before it was planned again in between, which is then the one that is    *)
(* stopped (pause, cancelCampaign).                                         *)
Stopping(c) == \E p \in Caller : proc[p].c = c /\ proc[p].at \in {"stop", "stopRecord"}
WithdrawnIsStopped ==
    \A c \in Campaign :
       status[c] \in {"paused", "cancelled"}
          /\ (\E e \in Missions(c) : record[e] \in Started)
       => Stopping(c) \/ c \in cut \cup crowded
=============================================================================
