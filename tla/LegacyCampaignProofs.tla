------------------------ MODULE LegacyCampaignProofs ------------------------
(***************************************************************************)
(* What TLAPS proves of LegacyCampaign, for any callers, campaigns,        *)
(* executions and bounds.                                                  *)
(*                                                                         *)
(* A command judges what it finds when it writes, but what it does next    *)
(* rests on what it read before: the inductive invariant says what is left *)
(* of that reading.  A campaign whose changes are being applied still      *)
(* waits for them or was withdrawn under them (Awaited); the campaign of   *)
(* an execution that is about to be planned again is closed (Released),    *)
(* and closed campaigns stay closed; and the mission that is about to be   *)
(* stopped is the one that was started (Aimed), because nothing starts any *)
(* more and a mission planned before it has left its mark (Marked).        *)
(***************************************************************************)
EXTENDS LegacyCampaign, TLAPS

OfCampaign  == {"turn", "stop", "stopRecord", "discard", "abandon", "open", "copy", "complete"}
OfExecution == {"recover", "check", "cancelRecord", "replan", "launch"}
Turning     == {"pause", "cancel"}

Held == [at : {"rest"} \cup OfCampaign \cup OfExecution,
         cmd : {"none", "abandon", "apply", "cancelExecution", "approve", "retry"} \cup Turning,
         c : Campaign \cup {NoCampaign}, e : Nat,
         judged : SUBSET (Execution \X RecordStatuses)]

Shape ==
    /\ status \in [Campaign -> Statuses] /\ record \in [Execution -> RecordStatuses]
    /\ applied \subseteq Campaign
    /\ proc \in [Caller -> Held]
    /\ \A p \in Caller : proc[p].at \in OfCampaign => proc[p].c \in Campaign
    /\ \A p \in Caller : proc[p].at \in {"turn", "stop", "stopRecord"} => proc[p].cmd \in Turning
    /\ \A p \in Caller : At(p, "recover") => proc[p].cmd \in {"approve", "retry"}

(* The changes of a campaign on their way to the project. *)
Awaited ==
    \A p \in Caller :
       /\ proc[p].at \in {"open", "copy", "complete"} =>
             \/ status[proc[p].c] \in {"awaiting_application", "completed"}
             \/ status[proc[p].c] \in Closed /\ proc[p].c \in overtaken
       /\ At(p, "complete") => proc[p].c \in applied

(* An execution about to be planned again. *)
Released ==
    \A p \in Caller :
       At(p, "replan") /\ MissionOf(proc[p].e) \in Campaign =>
          status[MissionOf(proc[p].e)] \in Closed

(* One record at most is started; one before it is planned in a campaign    *)
(* that has been marked.                                                    *)
Marked ==
    /\ \A e, f \in Execution : record[e] \in Started /\ record[f] \in Started => e = f
    /\ \A c \in Campaign : \A e, f \in Missions(c) :
          e < f /\ record[e] = "planned" /\ record[f] \in Started => c \in crowded

(* The mission about to be stopped. *)
Aimed ==
    \A p \in Caller : At(p, "stopRecord") =>
       \A f \in Missions(proc[p].c) :
          record[f] \in Started => f = proc[p].e \/ proc[p].c \in crowded

IInv ==
    /\ Shape /\ Awaited /\ Released /\ Marked /\ Aimed
    /\ CompletedIsApplied /\ AppliedIsRecorded /\ WithdrawnIsStopped

-----------------------------------------------------------------------------
(* What a step does to a process and to a record. *)

LEMMA Moves ==
    ASSUME Shape, NEW p \in Caller, NEW held \in Held, proc' = [proc EXCEPT ![p] = held]
    PROVE  /\ proc' \in [Caller -> Held] /\ proc'[p] = held
           /\ \A q \in Caller \ {p} : proc'[q] = proc[q]
BY DEF Shape

LEMMA Rests ==
    ASSUME Shape, NEW p \in Caller, Ends(p)
    PROVE  /\ proc' \in [Caller -> Held] /\ proc'[p].at = "rest"
           /\ \A q \in Caller \ {p} : proc'[q] = proc[q]
<1>1. Resting \in Held /\ Resting.at = "rest"
  BY DEF Resting, Held
<1> QED
  BY <1>1, Moves DEF Ends

LEMMA Walks ==
    ASSUME Shape, NEW p \in Caller, NEW place \in OfCampaign \cup OfExecution, Goes(p, place)
    PROVE  /\ proc' \in [Caller -> Held]
           /\ proc'[p].at = place /\ proc'[p].c = proc[p].c /\ proc'[p].cmd = proc[p].cmd
           /\ proc'[p].e = proc[p].e
           /\ \A q \in Caller \ {p} : proc'[q] = proc[q]
BY DEF Shape, Goes, Held

LEMMA Becomes ==
    ASSUME record \in [Execution -> RecordStatuses], NEW e, NEW from,
           NEW new \in RecordStatuses \ Active, BecomesIf(e, from, new)
    PROVE  /\ record' \in [Execution -> RecordStatuses]
           /\ \A f \in Execution : record'[f] \in Active => record'[f] = record[f]
           /\ \A f \in Execution : record'[f] # record[f] => f = e /\ record[f] \in from
BY DEF BecomesIf

(* A command that begins has read its campaign, or the registry. *)
LEMMA Begun ==
    ASSUME Shape, NEW p \in Caller, CampaignCommand(p) \/ ExecutionCommand(p)
    PROVE  /\ proc' \in [Caller -> Held] /\ \A q \in Caller \ {p} : proc'[q] = proc[q]
           /\ proc'[p].at \in {"turn", "discard", "open", "check", "recover"}
           /\ proc'[p].at \in OfCampaign => proc'[p].c \in Campaign
           /\ proc'[p].at = "turn" => proc'[p].cmd \in Turning
           /\ proc'[p].at = "open" => status[proc'[p].c] = "awaiting_application"
           /\ proc'[p].at = "recover" => proc'[p].cmd \in {"approve", "retry"}
           /\ At(p, "rest") /\ UNCHANGED <<Campaigns, Registry, Mirrors, cut>>
<1>1. PICK held :
        /\ held \in Held /\ Begins(p, held)
        /\ held.at \in {"turn", "discard", "open", "check", "recover"}
        /\ held.at \in OfCampaign => held.c \in Campaign
        /\ held.at = "turn" => held.cmd \in Turning
        /\ held.at = "open" => status[held.c] = "awaiting_application"
        /\ held.at = "recover" => held.cmd \in {"approve", "retry"}
  <2>1. ASSUME NEW c \in Campaign, NEW cmd \in {"pause", "cancel"}
        PROVE  [Resting EXCEPT !.at = "turn", !.cmd = cmd, !.c = c] \in Held
    BY DEF Resting, Held, OfCampaign, Turning
  <2>2. ASSUME NEW c \in Campaign
        PROVE  /\ [Resting EXCEPT !.at = "discard", !.cmd = "abandon", !.c = c] \in Held
               /\ [Resting EXCEPT !.at = "open", !.cmd = "apply", !.c = c] \in Held
    BY DEF Resting, Held, OfCampaign
  <2>3. ASSUME NEW e \in Execution
        PROVE  [Resting EXCEPT !.at = "check", !.cmd = "cancelExecution", !.e = e] \in Held
    BY ConstantsAssumption DEF Resting, Held, OfExecution
  <2>4. ASSUME NEW e \in Execution, NEW cmd \in {"approve", "retry"},
               NEW place \in {"check", "recover"}, NEW stale \in SUBSET Execution
        PROVE  [Resting EXCEPT !.at = place, !.cmd = cmd, !.e = e,
                  !.judged = {<<f, record[f]>> : f \in stale}] \in Held
    <3>1. {<<f, record[f]>> : f \in stale} \in SUBSET (Execution \X RecordStatuses)
      BY DEF Shape
    <3> QED
      BY <3>1, ConstantsAssumption DEF Resting, Held, OfExecution
  <2>5. CASE CampaignCommand(p)
    <3>1. PICK c \in Campaign :
             \/ \E cmd \in {"pause", "cancel"} :
                   Begins(p, [Resting EXCEPT !.at = "turn", !.cmd = cmd, !.c = c])
             \/ Begins(p, [Resting EXCEPT !.at = "discard", !.cmd = "abandon", !.c = c])
             \/ /\ status[c] = "awaiting_application"
                /\ Begins(p, [Resting EXCEPT !.at = "open", !.cmd = "apply", !.c = c])
      BY <2>5 DEF CampaignCommand
    <3>2. ASSUME NEW cmd \in {"pause", "cancel"}
          PROVE  /\ [Resting EXCEPT !.at = "turn", !.cmd = cmd, !.c = c].at = "turn"
                 /\ [Resting EXCEPT !.at = "turn", !.cmd = cmd, !.c = c].cmd = cmd
                 /\ [Resting EXCEPT !.at = "turn", !.cmd = cmd, !.c = c].c = c
      BY DEF Resting
    <3>3. /\ [Resting EXCEPT !.at = "discard", !.cmd = "abandon", !.c = c].at = "discard"
          /\ [Resting EXCEPT !.at = "discard", !.cmd = "abandon", !.c = c].c = c
          /\ [Resting EXCEPT !.at = "open", !.cmd = "apply", !.c = c].at = "open"
          /\ [Resting EXCEPT !.at = "open", !.cmd = "apply", !.c = c].c = c
      BY DEF Resting
    <3> QED
      BY <2>1, <2>2, <3>1, <3>2, <3>3 DEF Turning
  <2>6. ASSUME NEW e \in Execution,
               Begins(p, [Resting EXCEPT !.at = "check", !.cmd = "cancelExecution", !.e = e])
        PROVE  \E held \in Held : Begins(p, held) /\ held.at = "check"
    BY <2>3, <2>6 DEF Resting
  <2>7. ASSUME NEW e \in Execution, NEW cmd \in {"approve", "retry"},
               NEW stale \in SUBSET {f \in Execution : record[f] \in Active},
               Begins(p, [Resting EXCEPT !.at = IF stale = {} THEN "check" ELSE "recover",
                            !.cmd = cmd, !.e = e, !.judged = {<<f, record[f]>> : f \in stale}])
        PROVE  \E held \in Held : /\ Begins(p, held) /\ held.at \in {"check", "recover"}
                                  /\ held.cmd \in {"approve", "retry"}
    <3> PICK place \in {"check", "recover"} : place = IF stale = {} THEN "check" ELSE "recover"
      OBVIOUS
    <3> DEFINE held == [Resting EXCEPT !.at = place, !.cmd = cmd, !.e = e,
                                       !.judged = {<<f, record[f]>> : f \in stale}]
    <3>1. held \in Held
      BY <2>4
    <3>2. held.at = place /\ held.cmd = cmd
      BY DEF Resting
    <3>3. Begins(p, held)
      BY <2>7
    <3> QED
      BY <3>1, <3>2, <3>3
  <2> QED
    BY <2>5, <2>6, <2>7 DEF ExecutionCommand, OfCampaign
<1> QED
  BY <1>1, Moves DEF Begins, At

-----------------------------------------------------------------------------
(* What every step of p does, whatever the action. *)

(* To the campaigns: a closed one stays, another one is overtaken when it   *)
(* was being applied, and one that was paused or cancelled is to be stopped. *)
Settles(p) ==
    /\ status' \in [Campaign -> Statuses]
    /\ \A c \in Campaign : status'[c] # status[c] =>
          /\ status[c] \notin Closed
          /\ status'[c] \in Closed \/ status[c] = "running"
          /\ status'[c] = "completed" \/ (Applying(c) => c \in overtaken')
          /\ status'[c] = "completed" => c \in applied
          /\ status'[c] \in {"paused", "cancelled"} => proc'[p].at = "stop" /\ proc'[p].c = c
    /\ overtaken \subseteq overtaken'

(* To the registry: nothing starts, and what is planned is marked.          *)
Records(p) ==
    /\ record' \in [Execution -> RecordStatuses]
    /\ \A e \in Execution : record'[e] # record[e] =>
          /\ record'[e] \notin Started
          /\ record'[e] = "planned" =>
                /\ At(p, "replan") /\ e = proc[p].e
                /\ \A c \in Campaign : Precedes(e, c) => c \in crowded'
    /\ crowded \subseteq crowded'

(* To what it does next.                                                    *)
Proceeds(p) ==
    /\ proc' \in [Caller -> Held] /\ \A q \in Caller \ {p} : proc'[q] = proc[q]
    /\ proc'[p].at \in OfCampaign => proc'[p].c \in Campaign
    /\ proc'[p].at \in {"turn", "stop", "stopRecord"} => proc'[p].cmd \in Turning
    /\ proc'[p].at = "recover" => proc'[p].cmd \in {"approve", "retry"}
    /\ proc'[p].at = "open" => status'[proc'[p].c] = "awaiting_application"
    /\ proc'[p].at \in {"copy", "complete"} =>
          /\ proc[p].at \in {"open", "copy", "complete"} /\ proc'[p].c = proc[p].c
          /\ UNCHANGED status
    /\ proc'[p].at = "complete" => proc'[p].c \in applied'
    /\ proc'[p].at = "replan" /\ MissionOf(proc'[p].e) \in Campaign =>
          status'[MissionOf(proc'[p].e)] \in Closed
    /\ proc'[p].at = "stopRecord" =>
          /\ At(p, "stop") /\ proc'[p].c = proc[p].c /\ UNCHANGED <<record, crowded>>
          /\ proc'[p].e \in Live(proc[p].c)
          /\ \A f \in Live(proc[p].c) : proc'[p].e <= f

(* To what it leaves: a campaign that took its changes, or was told of them *)
(* too late; a mission that is stopped.                                     *)
Finishes(p) ==
    /\ At(p, "complete") =>
          \/ proc[p].c \in cut' \/ status'[proc[p].c] = "completed"
          \/ UNCHANGED status /\ ~Completable(proc[p].c)
    /\ At(p, "stop") =>
          \/ proc'[p].at = "stopRecord" /\ proc'[p].c = proc[p].c
          \/ proc[p].c \in cut' \/ Live(proc[p].c) = {}
    /\ At(p, "stopRecord") =>
          \/ proc[p].c \in cut'
          \/ \A f \in Execution : f = proc[p].e => record'[f] \notin Started
    /\ cut \subseteq cut'

Contract(p) ==
    /\ Settles(p) /\ Records(p) /\ Proceeds(p) /\ Finishes(p)
    /\ applied \subseteq applied' /\ applied' \subseteq Campaign
    /\ \A c \in applied' \ applied : proc'[p].at = "complete" /\ proc'[p].c = c

(* The first three hold of what is left alone.                              *)
LEMMA LeftAlone ==
    ASSUME Shape, NEW p \in Caller
    PROVE  /\ UNCHANGED Campaigns => Settles(p)
           /\ UNCHANGED Registry => Records(p)
BY DEF Shape, Campaigns, Registry, Settles, Records

(* A process that rests, or goes on with an execution, owes a campaign      *)
(* nothing.                                                                 *)
LEMMA Unbound ==
    ASSUME Shape, NEW p \in Caller, Ends(p)
    PROVE  Proceeds(p)
BY Rests DEF Proceeds, OfCampaign

LEMMA CommandContract ==
    ASSUME Shape, NEW p \in Caller, CampaignCommand(p) \/ ExecutionCommand(p)
    PROVE  Contract(p)
<1>1. Proceeds(p)
  BY Begun DEF Proceeds, Campaigns
<1> QED
  BY <1>1, Begun, LeftAlone DEF Contract, Finishes, At, Mirrors, Shape

LEMMA TurnContract ==
    ASSUME Shape, NEW p \in Caller, Turn(p)
    PROVE  Contract(p)
<1>1. At(p, "turn") /\ UNCHANGED <<Registry, Mirrors, cut, commands>>
  BY DEF Turn, OnlyCampaigns
<1>2. proc[p].c \in Campaign /\ proc[p].cmd \in Turning
  BY <1>1 DEF Shape, At, OfCampaign
<1>3. CASE Turns(proc[p].c, proc[p].cmd) /\ Goes(p, "stop")
  <2>1. /\ proc' \in [Caller -> Held] /\ \A q \in Caller \ {p} : proc'[q] = proc[q]
        /\ proc'[p].at = "stop" /\ proc'[p].c = proc[p].c /\ proc'[p].cmd = proc[p].cmd
    BY <1>3, Walks DEF OfCampaign
  <2>2. Proceeds(p)
    BY <1>2, <2>1 DEF Proceeds
  <2>3. Settles(p)
    BY <1>2, <1>3, <2>1
       DEF Settles, Turns, TurnOf, MayTurn, Shape, Statuses, Closed, Turning
  <2> QED
    BY <1>1, <2>2, <2>3, LeftAlone DEF Contract, Finishes, At, Mirrors, Shape
<1>4. CASE Ends(p) /\ UNCHANGED Campaigns
  BY <1>1, <1>4, Unbound, LeftAlone DEF Contract, Finishes, At, Mirrors, Shape
<1> QED
  BY <1>3, <1>4 DEF Turn

LEMMA AbandonContract ==
    ASSUME Shape, NEW p \in Caller, Abandon(p)
    PROVE  Contract(p)
<1>1. At(p, "abandon") /\ Ends(p) /\ UNCHANGED <<Registry, Mirrors, cut, commands>>
  BY DEF Abandon, OnlyCampaigns
<1>2. proc[p].c \in Campaign
  BY <1>1 DEF Shape, At, OfCampaign
<1>3. Settles(p)
  <2>1. CASE Turns(proc[p].c, "abandon")
    BY <1>2, <2>1 DEF Settles, Turns, TurnOf, MayTurn, Shape, Statuses, Closed
  <2> QED
    BY <2>1, LeftAlone DEF Abandon
<1> QED
  BY <1>1, <1>3, Unbound, LeftAlone DEF Contract, Finishes, At, Mirrors, Shape

LEMMA StopMissionContract ==
    ASSUME Shape, NEW p \in Caller, StopMission(p)
    PROVE  Contract(p)
<1>1. At(p, "stop") /\ OnlyProc
  BY DEF StopMission
<1>2. proc[p].c \in Campaign /\ proc[p].cmd \in Turning
  BY <1>1 DEF Shape, At, OfCampaign
<1>3. CASE Live(proc[p].c) = {} /\ Ends(p)
  BY <1>1, <1>3, Unbound, LeftAlone DEF Contract, Finishes, At, OnlyProc, Mirrors, Shape
<1>4. ASSUME NEW e \in Live(proc[p].c), \A f \in Live(proc[p].c) : e <= f,
             proc' = [proc EXCEPT ![p].at = "stopRecord", ![p].e = e]
      PROVE  Contract(p)
  <2>1. e \in Nat
    BY ConstantsAssumption DEF Live, Missions
  <2>2. /\ proc' \in [Caller -> Held] /\ \A q \in Caller \ {p} : proc'[q] = proc[q]
        /\ proc'[p].at = "stopRecord" /\ proc'[p].c = proc[p].c /\ proc'[p].cmd = proc[p].cmd
        /\ proc'[p].e = e
    <3> DEFINE held == [proc[p] EXCEPT !.at = "stopRecord", !.e = e]
    <3>1. /\ held \in Held /\ held.at = "stopRecord" /\ held.e = e
          /\ held.c = proc[p].c /\ held.cmd = proc[p].cmd
      BY <2>1 DEF Shape, Held, OfCampaign
    <3>2. proc' = [proc EXCEPT ![p] = held]
      BY <1>4
    <3> QED
      BY <3>1, <3>2, Moves
  <2>3. Proceeds(p)
    BY <1>1, <1>2, <1>4, <2>2 DEF Proceeds, OnlyProc, Registry
  <2> QED
    BY <1>1, <2>2, <2>3, LeftAlone DEF Contract, Finishes, At, OnlyProc, Mirrors, Shape
<1> QED
  BY <1>3, <1>4 DEF StopMission

(* What StopRecord, CancelRecord and Launch write, and each step of Recover. *)
LEMMA BecomesRecords ==
    ASSUME Shape, NEW p \in Caller, NEW e, NEW from, NEW new \in RecordStatuses \ Active,
           BecomesIf(e, from, new), UNCHANGED crowded
    PROVE  Records(p)
<1>1. "planned" \in Active /\ Started \subseteq Active
  BY DEF Active
<1> QED
  BY <1>1, Becomes DEF Records, Shape

LEMMA StopRecordContract ==
    ASSUME Shape, NEW p \in Caller, StopRecord(p)
    PROVE  Contract(p)
<1>1. At(p, "stopRecord") /\ Ends(p) /\ OnlyRegistry /\ UNCHANGED crowded
  BY DEF StopRecord
<1>2. PICK from \in {Started, Active}, new \in {"interrupted", "cancelled"} :
         BecomesIf(proc[p].e, from, new)
  BY DEF StopRecord
<1>3. new \in RecordStatuses \ Active /\ new \notin Started
  BY DEF RecordStatuses, Active, Started
<1>4. Records(p)
  BY <1>1, <1>2, <1>3, BecomesRecords
<1>5. Finishes(p)
  <2>1. \A f \in Execution : f = proc[p].e => record'[f] \notin Started
    BY <1>2, <1>3 DEF BecomesIf, Shape, Active
  <2> QED
    BY <1>1, <2>1 DEF Finishes, At, OnlyRegistry
<1> QED
  BY <1>1, <1>4, <1>5, Unbound, LeftAlone DEF Contract, OnlyRegistry, Mirrors, Shape

LEMMA DiscardContract ==
    ASSUME Shape, NEW p \in Caller, Discard(p)
    PROVE  Contract(p)
<1>1. At(p, "discard") /\ UNCHANGED <<Campaigns, Registry, cut, commands, applied>>
  BY DEF Discard, OnlyMirrors
<1>2. Proceeds(p)
  <2>1. CASE Goes(p, "abandon")
    BY <1>1, <2>1, Walks DEF Proceeds, Shape, At, OfCampaign
  <2> QED
    BY <2>1, Unbound DEF Discard
<1> QED
  BY <1>1, <1>2, LeftAlone DEF Contract, Finishes, At, Shape

LEMMA OpenMirrorContract ==
    ASSUME Shape, NEW p \in Caller, OpenMirror(p)
    PROVE  Contract(p)
<1>1. At(p, "open") /\ OnlyProc
  BY DEF OpenMirror
<1>2. Proceeds(p)
  <2>1. CASE Goes(p, "copy")
    BY <1>1, <2>1, Walks DEF Proceeds, Shape, At, OfCampaign, OnlyProc, Campaigns
  <2> QED
    BY <2>1, Unbound DEF OpenMirror
<1> QED
  BY <1>1, <1>2, LeftAlone DEF Contract, Finishes, At, OnlyProc, Mirrors, Shape

LEMMA ApplyMirrorContract ==
    ASSUME Shape, NEW p \in Caller, ApplyMirror(p)
    PROVE  Contract(p)
<1>1. At(p, "copy") /\ OnlyMirrors /\ proc[p].c \in Campaign
  BY DEF ApplyMirror, Shape, At, OfCampaign
<1>2. CASE applied' = applied \cup {proc[p].c} /\ Goes(p, "complete")
  <2>1. Proceeds(p) /\ proc'[p].at = "complete" /\ proc'[p].c = proc[p].c
    BY <1>1, <1>2, Walks DEF Proceeds, Shape, At, OfCampaign, OnlyMirrors, Campaigns
  <2> QED
    BY <1>1, <1>2, <2>1, LeftAlone DEF Contract, Finishes, At, OnlyMirrors, Shape
<1>3. CASE Ends(p) /\ UNCHANGED applied
  BY <1>1, <1>3, Unbound, LeftAlone DEF Contract, Finishes, At, OnlyMirrors, Shape
<1> QED
  BY <1>2, <1>3 DEF ApplyMirror

LEMMA CompleteContract ==
    ASSUME Shape, Awaited, NEW p \in Caller, Complete(p)
    PROVE  Contract(p)
<1>1. At(p, "complete") /\ Ends(p) /\ OnlyCampaigns /\ UNCHANGED overtaken
  BY DEF Complete
<1>2. proc[p].c \in Campaign /\ proc[p].c \in applied
  BY <1>1 DEF Shape, At, OfCampaign, Awaited
<1>3. /\ status' = IF Completable(proc[p].c) THEN [status EXCEPT ![proc[p].c] = "completed"]
                                             ELSE status
  BY DEF Complete
<1>4. Settles(p)
  BY <1>1, <1>2, <1>3 DEF Settles, Completable, Shape, Statuses, Closed
<1>5. Finishes(p)
  BY <1>1, <1>2, <1>3 DEF Finishes, At, OnlyCampaigns, Shape
<1> QED
  BY <1>1, <1>4, <1>5, Unbound, LeftAlone DEF Contract, OnlyCampaigns, Mirrors, Shape

LEMMA RecoverContract ==
    ASSUME Shape, NEW p \in Caller, Recover(p)
    PROVE  Contract(p)
<1>1. At(p, "recover") /\ OnlyRegistry /\ UNCHANGED crowded
  BY DEF Recover
<1>2. PICK stale \in proc[p].judged, from \in {{"planned"}, Started},
           new \in {"rejected", "interrupted"} :
         /\ BecomesIf(stale[1], from, new)
         /\ proc' = [proc EXCEPT ![p].judged = proc[p].judged \ {stale},
                                 ![p].at = IF proc[p].judged \ {stale} = {}
                                              THEN "check" ELSE "recover"]
  BY DEF Recover
<1>3. Records(p)
  <2>1. new \in RecordStatuses \ Active
    BY DEF RecordStatuses, Active, Started
  <2> QED
    BY <1>1, <1>2, <2>1, BecomesRecords
<1>4. /\ proc' \in [Caller -> Held] /\ \A q \in Caller \ {p} : proc'[q] = proc[q]
      /\ proc'[p].at \in {"check", "recover"} /\ proc'[p].cmd = proc[p].cmd
  <2> DEFINE rest == proc[p].judged \ {stale}
             place == IF rest = {} THEN "check" ELSE "recover"
             held == [proc[p] EXCEPT !.judged = rest, !.at = place]
  <2>1. held \in Held /\ held.at \in {"check", "recover"} /\ held.cmd = proc[p].cmd
    <3>1. proc[p] \in Held /\ rest \in SUBSET (Execution \X RecordStatuses)
      BY DEF Shape, Held
    <3>2. place \in {"check", "recover"}
      OBVIOUS
    <3> HIDE DEF rest, place
    <3> QED
      BY <3>1, <3>2 DEF Held, OfExecution
  <2>2. proc' = [proc EXCEPT ![p] = held]
    BY <1>2
  <2> QED
    BY <2>1, <2>2, Moves
<1>5. Proceeds(p)
  BY <1>1, <1>4 DEF Proceeds, Shape, At, OfCampaign
<1> QED
  BY <1>1, <1>3, <1>5, LeftAlone DEF Contract, Finishes, At, OnlyRegistry, Mirrors, Shape

LEMMA CheckContract ==
    ASSUME Shape, NEW p \in Caller, Check(p)
    PROVE  Contract(p)
<1>1. At(p, "check") /\ OnlyProc
  BY DEF Check
<1>2. CASE /\ ~InTheWay(MissionOf(proc[p].e), proc[p].cmd)
           /\ Goes(p, IF proc[p].cmd = "cancelExecution" THEN "cancelRecord" ELSE "replan")
  <2>1. PICK place \in {"cancelRecord", "replan"} : Goes(p, place)
    BY <1>2
  <2>2. /\ proc' \in [Caller -> Held] /\ \A q \in Caller \ {p} : proc'[q] = proc[q]
        /\ proc'[p].at = place /\ proc'[p].e = proc[p].e
    BY <2>1, Walks DEF OfExecution
  <2>3. MissionOf(proc[p].e) \in Campaign => status[MissionOf(proc[p].e)] \in Closed
    BY <1>2 DEF InTheWay
  <2>4. Proceeds(p)
    BY <1>1, <2>2, <2>3 DEF Proceeds, OfCampaign, OnlyProc, Campaigns
  <2> QED
    BY <1>1, <2>4, LeftAlone DEF Contract, Finishes, At, OnlyProc, Mirrors, Shape
<1>3. CASE Ends(p)
  BY <1>1, <1>3, Unbound, LeftAlone DEF Contract, Finishes, At, OnlyProc, Mirrors, Shape
<1> QED
  BY <1>2, <1>3 DEF Check

LEMMA CancelRecordContract ==
    ASSUME Shape, NEW p \in Caller, CancelRecord(p)
    PROVE  Contract(p)
<1>1. /\ At(p, "cancelRecord") /\ Ends(p) /\ OnlyRegistry /\ UNCHANGED crowded
      /\ BecomesIf(proc[p].e, Active, "cancelled")
  BY DEF CancelRecord
<1>2. "cancelled" \in RecordStatuses \ Active
  BY DEF RecordStatuses, Active, Started
<1>3. Records(p)
  BY <1>1, <1>2, BecomesRecords
<1> QED
  BY <1>1, <1>3, Unbound, LeftAlone DEF Contract, Finishes, At, OnlyRegistry, Mirrors, Shape

LEMMA ReplanContract ==
    ASSUME Shape, NEW p \in Caller, Replan(p)
    PROVE  Contract(p)
<1>1. At(p, "replan") /\ OnlyRegistry
  BY DEF Replan
<1>2. CASE /\ record' = [record EXCEPT ![proc[p].e] = "planned"]
           /\ crowded' = crowded \cup {c \in Campaign : Precedes(proc[p].e, c)}
           /\ Goes(p, "launch")
  <2>1. Proceeds(p)
    BY <1>2, Walks DEF Proceeds, OfCampaign, OfExecution
  <2>2. Records(p)
    BY <1>1, <1>2 DEF Records, Shape, RecordStatuses, Active, Started, At
  <2> QED
    BY <1>1, <2>1, <2>2, LeftAlone DEF Contract, Finishes, At, OnlyRegistry, Mirrors, Shape
<1>3. CASE Ends(p) /\ UNCHANGED Registry
  BY <1>1, <1>3, Unbound, LeftAlone DEF Contract, Finishes, At, OnlyRegistry, Mirrors, Shape
<1> QED
  BY <1>2, <1>3 DEF Replan

LEMMA LaunchContract ==
    ASSUME Shape, NEW p \in Caller, Launch(p)
    PROVE  Contract(p)
<1>1. At(p, "launch") /\ Ends(p) /\ OnlyRegistry /\ UNCHANGED crowded
  BY DEF Launch
<1>2. "rejected" \in RecordStatuses \ Active
  BY DEF RecordStatuses, Active, Started
<1>3. Records(p)
  BY <1>1, <1>2, BecomesRecords, LeftAlone DEF Launch, Registry
<1> QED
  BY <1>1, <1>3, Unbound, LeftAlone DEF Contract, Finishes, At, OnlyRegistry, Mirrors, Shape

LEMMA EndsEarlyContract ==
    ASSUME Shape, NEW p \in Caller, EndsEarly(p)
    PROVE  Contract(p)
<1>1. /\ Ends(p) /\ UNCHANGED <<Campaigns, Registry, Mirrors>>
      /\ cut' = IF proc[p].at \in {"stop", "stopRecord", "complete"}
                   THEN cut \cup {proc[p].c} ELSE cut
  BY DEF EndsEarly
<1>2. Finishes(p)
  BY <1>1 DEF Finishes, At
<1> QED
  BY <1>1, <1>2, Unbound, LeftAlone DEF Contract, Mirrors, Shape

LEMMA EveryContract ==
    ASSUME Shape, Awaited, Next
    PROVE  \E p \in Caller : Contract(p)
BY CommandContract, TurnContract, AbandonContract, StopMissionContract, StopRecordContract,
   DiscardContract, OpenMirrorContract, ApplyMirrorContract, CompleteContract, RecoverContract,
   CheckContract, CancelRecordContract, ReplanContract, LaunchContract, EndsEarlyContract
   DEF Next, Step

-----------------------------------------------------------------------------
(* The inductive invariant. *)

LEMMA InitInv == Init => IInv
<1> SUFFICES ASSUME Init PROVE IInv
  OBVIOUS
<1>1. \A p \in Caller : proc[p] = Resting
  BY DEF Init
<1>2. Resting \in Held /\ Resting.at = "rest"
  BY DEF Resting, Held
<1>3. Shape
  BY <1>1, <1>2 DEF Init, Shape, At, OfCampaign
<1>4. Awaited /\ Released /\ Aimed
  BY <1>1, <1>2 DEF Awaited, Released, Aimed, At
<1>5. Marked
  BY ConstantsAssumption DEF Init, Marked, Missions, Active
<1>6. CompletedIsApplied /\ AppliedIsRecorded
  BY DEF Init, CompletedIsApplied, AppliedIsRecorded
<1>7. WithdrawnIsStopped
  BY DEF Init, WithdrawnIsStopped, Live, Active
<1> QED
  BY <1>3, <1>4, <1>5, <1>6, <1>7 DEF IInv

LEMMA ContractKeeps ==
    ASSUME IInv, NEW p \in Caller, Contract(p)
    PROVE  IInv'
<1>1. Settles(p) /\ Records(p) /\ Proceeds(p) /\ Finishes(p)
  BY DEF Contract
<1>2. Shape /\ Awaited /\ Released /\ Marked /\ Aimed
  BY DEF IInv
<1>3. \A q \in Caller \ {p} : proc'[q] = proc[q]
  BY <1>1 DEF Proceeds
<1>4. \A e \in Execution : record'[e] \in Started => record[e] = record'[e]
  BY <1>1 DEF Records
<1>5. \A c \in Campaign : status[c] \in Closed => status'[c] = status[c]
  BY <1>1 DEF Settles
<1>6. applied \subseteq applied' /\ overtaken \subseteq overtaken'
        /\ crowded \subseteq crowded' /\ cut \subseteq cut'
  BY <1>1 DEF Contract, Settles, Records, Finishes
<1>7. Shape'
  BY <1>1, <1>2, <1>3 DEF Shape, Contract, Settles, Records, Proceeds, At
<1>8. Awaited'
  <2> SUFFICES ASSUME NEW q \in Caller
               PROVE  /\ proc'[q].at \in {"open", "copy", "complete"} =>
                            \/ status'[proc'[q].c] \in {"awaiting_application", "completed"}
                            \/ /\ status'[proc'[q].c] \in Closed
                               /\ proc'[q].c \in overtaken'
                      /\ proc'[q].at = "complete" => proc'[q].c \in applied'
    BY DEF Awaited, At
  <2>1. CASE q # p
    <3>1. proc'[q] = proc[q]
      BY <1>3, <2>1
    <3>2. ASSUME proc[q].at \in {"open", "copy", "complete"}
          PROVE  \/ status'[proc[q].c] \in {"awaiting_application", "completed"}
                 \/ status'[proc[q].c] \in Closed /\ proc[q].c \in overtaken'
      <4>1. proc[q].c \in Campaign
        BY <1>2, <3>2 DEF Shape, OfCampaign
      <4>2. Applying(proc[q].c)
        BY <3>2 DEF Applying
      <4>3. \/ status[proc[q].c] \in {"awaiting_application", "completed"}
            \/ status[proc[q].c] \in Closed /\ proc[q].c \in overtaken
        BY <1>2, <3>2 DEF Awaited
      <4> QED
        BY <1>1, <1>6, <4>1, <4>2, <4>3 DEF Settles, Closed
    <3> QED
      BY <1>2, <1>6, <3>1, <3>2 DEF Awaited, At
  <2>2. CASE q = p
    BY <1>1, <1>2, <1>6, <2>2 DEF Proceeds, Awaited, At
  <2> QED
    BY <2>1, <2>2
<1>9. Released'
  BY <1>1, <1>2, <1>3, <1>5 DEF Released, Proceeds, At
<1>10. Marked'
  <2>1. ASSUME NEW c \in Campaign, NEW e \in Missions(c), NEW f \in Missions(c),
               e < f, record'[e] = "planned", record'[f] \in Started
        PROVE  c \in crowded'
    <3>1. e \in Execution /\ record[f] \in Started
      BY <1>4, <2>1 DEF Missions
    <3>2. CASE record[e] = "planned"
      BY <1>2, <1>6, <2>1, <3>1, <3>2 DEF Marked
    <3>3. CASE record[e] # "planned"
      BY <1>1, <2>1, <3>1, <3>3 DEF Records, Precedes
    <3> QED
      BY <3>2, <3>3
  <2> QED
    BY <1>2, <1>4, <2>1 DEF Marked, Missions
<1>11. Aimed'
  <2> SUFFICES ASSUME NEW q \in Caller, proc'[q].at = "stopRecord",
                      NEW f \in Missions(proc'[q].c), record'[f] \in Started
               PROVE  f = proc'[q].e \/ proc'[q].c \in crowded'
    BY DEF Aimed, At, Missions
  <2>1. f \in Execution /\ record[f] \in Started
    BY <1>4 DEF Missions
  <2>2. CASE q # p
    BY <1>2, <1>3, <1>6, <2>1, <2>2 DEF Aimed, At
  <2>3. CASE q = p
    <3>1. /\ proc'[p].c = proc[p].c /\ At(p, "stop")
          /\ proc'[p].e \in Live(proc[p].c) /\ \A g \in Live(proc[p].c) : proc'[p].e <= g
      BY <1>1, <2>3 DEF Proceeds
    <3>2. proc[p].c \in Campaign
      BY <1>2, <3>1 DEF Shape, At, OfCampaign
    <3>3. f \in Live(proc[p].c) /\ f \in Missions(proc[p].c)
      BY <2>1, <2>3, <3>1 DEF Live, Active
    <3>4. proc'[p].e <= f /\ f \in Nat /\ proc'[p].e \in Nat
      BY <2>1, <3>1, <3>3, ConstantsAssumption DEF Live, Missions
    <3>5. /\ proc'[p].e \in Missions(proc[p].c) /\ proc'[p].e \in Execution
          /\ record[proc'[p].e] \in Started \cup {"planned"}
      BY <3>1 DEF Live, Missions, Active
    <3>6. CASE record[proc'[p].e] \in Started
      BY <1>2, <2>1, <2>3, <3>5, <3>6 DEF Marked
    <3>7. CASE record[proc'[p].e] = "planned" /\ f # proc'[p].e
      <4>1. proc'[p].e < f
        BY <3>4, <3>7
      <4> QED
        BY <1>2, <1>6, <2>1, <2>3, <3>1, <3>2, <3>3, <3>5, <3>7, <4>1 DEF Marked
    <3> QED
      BY <2>3, <3>5, <3>6, <3>7
  <2> QED
    BY <2>2, <2>3
<1>12. CompletedIsApplied'
  BY <1>1, <1>6 DEF IInv, CompletedIsApplied, Settles
<1>13. AppliedIsRecorded'
  <2> SUFFICES ASSUME NEW c \in applied'
               PROVE  \/ status'[c] = "completed"
                      \/ \E q \in Caller : proc'[q].at = "complete" /\ proc'[q].c = c
                      \/ c \in cut'
                      \/ c \in overtaken' /\ status'[c] \in Closed
    BY DEF AppliedIsRecorded, At
  <2>1. c \in Campaign
    BY DEF Contract
  <2>2. CASE c \notin applied
    BY <2>2 DEF Contract
  <2>3. CASE c \in applied
    <3>1. \/ status[c] = "completed"
          \/ \E q \in Caller : At(q, "complete") /\ proc[q].c = c
          \/ c \in cut
          \/ c \in overtaken /\ status[c] \in Closed
      BY <2>3 DEF IInv, AppliedIsRecorded
    <3>2. ASSUME NEW q \in Caller, At(q, "complete"), proc[q].c = c, q # p
          PROVE  proc'[q].at = "complete" /\ proc'[q].c = c
      BY <1>3, <3>2 DEF At
    <3>3. CASE At(p, "complete") /\ proc[p].c = c
      <4>1. \/ status[c] \in {"awaiting_application", "completed"}
            \/ status[c] \in Closed /\ c \in overtaken
        BY <1>2, <3>3 DEF Awaited, At
      <4>2. \/ c \in cut' \/ status'[c] = "completed"
            \/ UNCHANGED status /\ ~Completable(c)
        BY <1>1, <3>3 DEF Finishes
      <4> QED
        BY <1>6, <4>1, <4>2 DEF Completable
    <3> QED
      BY <1>5, <1>6, <2>1, <3>1, <3>2, <3>3 DEF Closed
  <2> QED
    BY <2>2, <2>3
<1>14. WithdrawnIsStopped'
  <2> SUFFICES ASSUME NEW c \in Campaign, status'[c] \in {"paused", "cancelled"},
                      NEW e \in Missions(c), record'[e] \in Started
               PROVE  \/ \E q \in Caller : /\ proc'[q].c = c
                                           /\ proc'[q].at \in {"stop", "stopRecord"}
                      \/ c \in cut' \cup crowded'
    BY DEF WithdrawnIsStopped, Stopping, Missions
  <2>1. e \in Execution /\ record[e] \in Started
    BY <1>4 DEF Missions
  <2>2. CASE status'[c] # status[c]
    BY <1>1, <2>2 DEF Settles
  <2>3. CASE status'[c] = status[c]
    <3>1. Stopping(c) \/ c \in cut \cup crowded
      BY <2>1, <2>3 DEF IInv, WithdrawnIsStopped
    <3>2. ASSUME NEW q \in Caller, proc[q].c = c, proc[q].at \in {"stop", "stopRecord"}, q # p
          PROVE  proc'[q].c = c /\ proc'[q].at \in {"stop", "stopRecord"}
      BY <1>3, <3>2
    <3>3. CASE At(p, "stop") /\ proc[p].c = c
      <4>1. e \in Live(c)
        BY <2>1 DEF Live, Active
      <4> QED
        BY <1>1, <3>3, <4>1 DEF Finishes
    <3>4. CASE At(p, "stopRecord") /\ proc[p].c = c
      <4>1. e = proc[p].e \/ c \in crowded
        BY <1>2, <2>1, <3>4 DEF Aimed
      <4> QED
        BY <1>1, <1>6, <2>1, <3>4, <4>1 DEF Finishes
    <3> QED
      BY <1>6, <3>1, <3>2, <3>3, <3>4 DEF Stopping, At
  <2> QED
    BY <2>2, <2>3
<1> QED
  BY <1>7, <1>8, <1>9, <1>10, <1>11, <1>12, <1>13, <1>14 DEF IInv

LEMMA StutterKeeps == IInv /\ UNCHANGED vars => IInv'
BY DEF IInv, vars, Campaigns, Registry, Mirrors, Shape, Awaited, Released, Marked, Aimed,
       CompletedIsApplied, AppliedIsRecorded, WithdrawnIsStopped, Stopping, Missions, At

LEMMA Inductive == Spec => []IInv
<1>1. IInv /\ [Next]_vars => IInv'
  BY EveryContract, ContractKeeps, StutterKeeps DEF IInv
<1> QED
  BY InitInv, <1>1, PTL DEF Spec

-----------------------------------------------------------------------------
(* A campaign is completed only when its changes are in the project,       *)
(* whichever commands withdraw it meanwhile (apply, OrchestrationCampaign). *)
THEOREM CompletedWasApplied == Spec => []CompletedIsApplied
<1>1. IInv => CompletedIsApplied
  BY DEF IInv
<1> QED
  BY <1>1, Inductive, PTL

(* Changes that reached the project are recorded by the status of their    *)
(* campaign, or are about to be, but for a process that ended between the  *)
(* two and a campaign that was withdrawn under its application (apply).     *)
THEOREM AppliedWasRecorded == Spec => []AppliedIsRecorded
<1>1. IInv => AppliedIsRecorded
  BY DEF IInv
<1> QED
  BY <1>1, Inductive, PTL

(* No mission of a campaign that was paused or cancelled is left started    *)
(* when its command is done, but for a command that ended early and a       *)
(* mission before it that was planned again (pause, cancelCampaign).        *)
THEOREM WithdrawnWasStopped == Spec => []WithdrawnIsStopped
<1>1. IInv => WithdrawnIsStopped
  BY DEF IInv
<1> QED
  BY <1>1, Inductive, PTL

(* A closed campaign stays as it was closed: each update asks the campaign  *)
(* it finds, not the one its command had read (OrchestrationCampaign).      *)
THEOREM ClosedStaysClosed == Spec => ClosedForGood
<1>1. IInv /\ [Next]_vars =>
         [\A c \in Campaign : status[c] \in Closed => status'[c] = status[c]]_vars
  BY EveryContract DEF IInv, Contract, Settles
<1> QED
  BY <1>1, Inductive, PTL DEF Spec, ClosedForGood

(* An execution is planned again only outside a campaign or in a closed one,*)
(* although the campaign was asked in an update before (retry, approve).    *)
THEOREM PlannedStaysOutside == Spec => PlannedOutsideCampaigns
<1> DEFINE Outside == \A e \in Execution :
              record[e] # "planned" /\ record'[e] = "planned" /\ MissionOf(e) \in Campaign =>
                 status'[MissionOf(e)] \in Closed
<1>1. ASSUME IInv, Next
      PROVE  Outside
  <2>1. PICK p \in Caller : Settles(p) /\ Records(p)
    BY <1>1, EveryContract DEF IInv, Contract
  <2> SUFFICES ASSUME NEW e \in Execution, record[e] # "planned", record'[e] = "planned",
                      MissionOf(e) \in Campaign
               PROVE  status'[MissionOf(e)] \in Closed
    OBVIOUS
  <2>2. At(p, "replan") /\ e = proc[p].e
    BY <2>1 DEF Records
  <2>3. status[MissionOf(e)] \in Closed
    BY <1>1, <2>2 DEF IInv, Released
  <2> QED
    BY <2>1, <2>3 DEF Settles
<1>2. IInv /\ [Next]_vars => [Outside]_vars
  BY <1>1
<1> QED
  BY <1>2, Inductive, PTL DEF Spec, PlannedOutsideCampaigns
=============================================================================
