------------------------ MODULE CampaignApplyProofs ------------------------
(***************************************************************************)
(* What TLAPS proves of CampaignApply, for any number of apply() calls.    *)
(*                                                                         *)
(* The inductive invariant ties what an actor is about to do to what it    *)
(* has checked (Permitted), what it goes on to record to the move of the   *)
(* project (Moved), the artifact to the one call that wrote it (Kept), and *)
(* the revision each event writer counts to the journal (Counted), so that *)
(* the projection tells the truth as long as nothing failed (Told).        *)
(***************************************************************************)
EXTENDS CampaignApply, TLAPS

Before == {"gate", "clean", "head", "merge", "save", "emit"}

Permitted ==
    /\ pc[Runner] \in {"clean", "head", "merge"} => Outcome!Automatic(cand)
    /\ \A a \in Applier :
          /\ pc[a] \in {"loadApplication", "clean", "head", "merge"} => ~cand.denied
          /\ pc[a] \in {"head", "merge"} => cand.clean

Moved ==
    /\ applied => merged
    /\ application # None => merged
    /\ status = "completed" => merged
    /\ \A a \in Applier : pc[a] = "save" => merged

Kept ==
    \A a \in Applier :
        /\ pc[a] \in {"loadEvents", "emit", "reload", "done"} => application = a
        /\ pc[a] \in {"idle", "loadApplication", "clean", "head", "merge", "save"}
              => application # a

Counted ==
    /\ \A x \in Actor : known[x] <= revision
    /\ pc[Runner] \in Before => known[Runner] = 0
    /\ revision = 0 => status \in {"running", "blocked"}

Told ==
    /\ pc[Runner] = "throwing" => faulty
    /\ ~faulty =>
        /\ pc[Runner] \in Before /\ revision # 0 => status = "completed"
        /\ pc[Runner] \in {"emit", "reload", "done", "failed"} /\ applied =>
              result = "applied"
        /\ pc[Runner] \in {"reload", "done", "failed"} /\ applied => status = "completed"
        /\ \A a \in Applier :
              /\ pc[a] = "emit" => known[a] \in {0, revision}
              /\ pc[a] \in {"reload", "done"} => status = "completed"

Places ==
    /\ pc[Runner] \notin {"idle", "loadApplication", "loadEvents"}
    /\ \A a \in Applier : pc[a] \notin {"gate", "throwing"}

IInv == TypeOK /\ Places /\ Permitted /\ Moved /\ Kept /\ Counted /\ Told /\ ApplicationShown

-----------------------------------------------------------------------------
(* The initial states satisfy the invariant. *)
LEMMA InitInv == Init => IInv
  <1> SUFFICES ASSUME Init PROVE IInv
    OBVIOUS
  <1> USE ApplierAssumption DEF Init, Actor, Labels
  <1>1. TypeOK
    BY DEF TypeOK
  <1>2. Places /\ Permitted /\ Kept
    BY DEF Places, Permitted, Kept
  <1>3. Moved /\ Counted
    BY DEF Moved, Counted
  <1>4. Told /\ ApplicationShown
    BY DEF Told, ApplicationShown, Before
  <1> QED BY <1>1, <1>2, <1>3, <1>4 DEF IInv

(* Failures are never forgotten. *)
LEMMA FaultStep == TypeOK /\ [Next]_vars => (faulty => faulty') /\ faulty' \in BOOLEAN
  <1> SUFFICES ASSUME TypeOK, [Next]_vars PROVE faulty' = faulty \/ faulty' = TRUE
    BY Zenon DEF TypeOK
  <1> USE DEF Next, vars, EmitOk, EmitRejects
  <1>1. CASE \/ Gate \/ SaveResult \/ Announce \/ CatchStart
             \/ UserMoves \/ UserEdits \/ UNCHANGED vars
    BY Zenon, <1>1 DEF Gate, SaveResult, Announce, CatchStart, UserMoves, UserEdits
  <1>2. ASSUME NEW a \in Applier,
               \/ Load(a) \/ LoadApplication(a) \/ SaveApplication(a)
               \/ LoadEvents(a) \/ Complete(a)
        PROVE faulty' = faulty \/ faulty' = TRUE
    BY Zenon, <1>2 DEF Load, LoadApplication, SaveApplication, LoadEvents, Complete
  <1>3. ASSUME NEW x \in Actor,
               CheckClean(x) \/ CheckHead(x) \/ Merge(x) \/ Reload(x) \/ Crash(x)
        PROVE faulty' = faulty \/ faulty' = TRUE
    BY Zenon, <1>3 DEF CheckClean, CheckHead, Merge, Reload, Crash
  <1> QED BY Zenon, <1>1, <1>2, <1>3

(* Every variable keeps its type. *)
LEMMA TypeStep == TypeOK /\ [Next]_vars => TypeOK'
  <1> SUFFICES ASSUME TypeOK, [Next]_vars PROVE TypeOK'
    OBVIOUS
  <1>0. faulty' \in BOOLEAN
    BY FaultStep
  <1> USE <1>0, ApplierAssumption
      DEF TypeOK, Actor, Labels, repository, journal, vars, Goto, Refused, EmitOk,
          EmitRejects, FastForwards
  <1>1. CASE Gate
    BY <1>1 DEF Gate
  <1>2. CASE SaveResult
    BY <1>2 DEF SaveResult
  <1>3. CASE Announce
    BY <1>3 DEF Announce
  <1>4. CASE CatchStart
    BY <1>4 DEF CatchStart
  <1>5. ASSUME NEW a \in Applier, Load(a) \/ LoadApplication(a) PROVE TypeOK'
    BY <1>5 DEF Load, LoadApplication
  <1>6. ASSUME NEW a \in Applier, SaveApplication(a) PROVE TypeOK'
    BY <1>6 DEF SaveApplication
  <1>7. ASSUME NEW a \in Applier, LoadEvents(a) PROVE TypeOK'
    BY <1>7 DEF LoadEvents
  <1>8. ASSUME NEW a \in Applier, Complete(a) PROVE TypeOK'
    BY <1>8 DEF Complete
  <1>9. ASSUME NEW x \in Actor, CheckClean(x) \/ CheckHead(x) PROVE TypeOK'
    BY <1>9 DEF CheckClean, CheckHead
  <1>10. ASSUME NEW x \in Actor, Merge(x) PROVE TypeOK'
    BY <1>10 DEF Merge
  <1>11. ASSUME NEW x \in Actor, Reload(x) \/ Crash(x) PROVE TypeOK'
    BY <1>11 DEF Reload, Crash
  <1>12. CASE UserMoves \/ UserEdits \/ UNCHANGED vars
    BY <1>12 DEF UserMoves, UserEdits
  <1> QED BY <1>1, <1>2, <1>3, <1>4, <1>5, <1>6, <1>7, <1>8, <1>9, <1>10, <1>11, <1>12 DEF Next

(* Every step keeps the rest of the invariant. *)
LEMMA NextInv == IInv /\ [Next]_vars => IInv'
  <1> SUFFICES ASSUME IInv, [Next]_vars
      PROVE (Places /\ Permitted /\ Moved /\ Kept /\ Counted /\ Told /\ ApplicationShown)'
    BY TypeStep DEF IInv
  <1>0. (faulty => faulty') /\ faulty' \in BOOLEAN
    BY FaultStep DEF IInv
  <1> DEFINE Rest ==
        Places /\ Permitted /\ Moved /\ Kept /\ Counted /\ Told /\ ApplicationShown
  <1> USE ApplierAssumption
      DEF IInv, TypeOK, Actor, Labels, repository, journal, vars, Goto, Refused, EmitOk,
          EmitRejects, FastForwards, Places, Permitted, Moved, Kept, Counted, Told,
          Before, ApplicationShown, Outcome!Automatic
  <1>1. CASE Gate
    BY <1>1 DEF Gate
  <1>2. CASE SaveResult
    BY <1>2 DEF SaveResult
  <1>3. CASE Announce
    BY <1>3 DEF Announce
  <1>4. CASE CatchStart
    <2>1. CASE EmitOk(Runner, "blocked")
      BY <1>4, <2>1 DEF CatchStart
    <2>2. CASE EmitRejects(Runner, "blocked")
      BY <1>0, <1>4, <2>2 DEF CatchStart
    <2> QED BY <1>4, <2>1, <2>2 DEF CatchStart
  <1>5. ASSUME NEW a \in Applier, Load(a) \/ LoadApplication(a) PROVE Rest'
    BY <1>5 DEF Load, LoadApplication
  <1>6. ASSUME NEW a \in Applier, SaveApplication(a) PROVE Rest'
    BY <1>6 DEF SaveApplication
  <1>7. ASSUME NEW a \in Applier, LoadEvents(a) PROVE Rest'
    BY <1>7 DEF LoadEvents
  <1>8. ASSUME NEW a \in Applier, Complete(a) PROVE Rest'
    BY <1>8 DEF Complete
  <1>9. ASSUME NEW x \in Actor, CheckClean(x) \/ CheckHead(x) PROVE Rest'
    BY <1>9 DEF CheckClean, CheckHead
  <1>10. ASSUME NEW x \in Actor, Merge(x) PROVE Rest'
    BY <1>10 DEF Merge
  <1>11. ASSUME NEW x \in Actor, Reload(x) PROVE Rest'
    BY <1>11 DEF Reload
  <1>12. ASSUME NEW x \in Actor, Crash(x) PROVE Rest'
    BY <1>12 DEF Crash
  <1>13. CASE UserMoves \/ UserEdits \/ UNCHANGED vars
    BY <1>13 DEF UserMoves, UserEdits
  <1> QED BY <1>1, <1>2, <1>3, <1>4, <1>5, <1>6, <1>7, <1>8, <1>9, <1>10, <1>11, <1>12,
             <1>13 DEF Next

(* The invariant holds in every behaviour. *)
THEOREM Inductive == Spec => []IInv
  BY InitInv, NextInv, PTL DEF Spec

-----------------------------------------------------------------------------
(* Every variable of the application keeps its type. *)
THEOREM TypeCorrect == Spec => []TypeOK
  <1>1. IInv => TypeOK
    BY DEF IInv
  <1> QED BY <1>1, Inductive, PTL

(* Of any number of apply() calls on one candidate at most one succeeds,    *)
(* and an artifact means that the project moved.                            *)
THEOREM AtMostOneApplication == Spec => []AppliedOnce
  <1>1. IInv => AppliedOnce
    BY DEF IInv, Kept, Moved, AppliedOnce
  <1> QED BY <1>1, Inductive, PTL

(* An automatic application is recorded and shown, unless an operation      *)
(* failed or the process crashed.                                           *)
THEOREM AutomaticApplicationRecorded == Spec => []AutoApplicationRecorded
  <1>1. IInv => AutoApplicationRecorded
    BY DEF IInv, Told, AutoApplicationRecorded
  <1> QED BY <1>1, Inductive, PTL

(* An apply() that kept its artifact shows the campaign completed, unless   *)
(* it read the journal before the candidate was announced.                  *)
THEOREM ApplicationIsShown == Spec => []ApplicationShown
  <1>1. IInv => ApplicationShown
    BY DEF IInv
  <1> QED BY <1>1, Inductive, PTL

(* No event takes a completion back, unless an operation failed. *)
THEOREM CompletionIsFinal == Spec => CompletedIsFinal
  <1> DEFINE Final == status = "completed" /\ ~faulty => status' = "completed"
  <1>1. ASSUME IInv, [Next]_vars, status = "completed", ~faulty
        PROVE status' = "completed"
    <2> USE ApplierAssumption
        DEF IInv, Told, Counted, Before, Actor, TypeOK, journal, repository, vars,
            EmitOk, EmitRejects
    <2>1. CASE Gate \/ SaveResult \/ UserMoves \/ UserEdits \/ UNCHANGED vars
      BY <1>1, <2>1 DEF Gate, SaveResult, UserMoves, UserEdits
    <2>2. CASE Announce
      BY <1>1, <2>2 DEF Announce
    <2>3. CASE CatchStart
      BY <1>1, <2>3 DEF CatchStart
    <2>4. ASSUME NEW a \in Applier,
                 \/ Load(a) \/ LoadApplication(a) \/ SaveApplication(a)
                 \/ LoadEvents(a) \/ Complete(a)
          PROVE status' = "completed"
      BY <1>1, <2>4 DEF Load, LoadApplication, SaveApplication, LoadEvents, Complete
    <2>5. ASSUME NEW x \in Actor,
                 CheckClean(x) \/ CheckHead(x) \/ Merge(x) \/ Reload(x) \/ Crash(x)
          PROVE status' = "completed"
      BY <1>1, <2>5 DEF CheckClean, CheckHead, Merge, Reload, Crash
    <2> QED BY <1>1, <2>1, <2>2, <2>3, <2>4, <2>5 DEF Next
  <1>2. IInv /\ [Next]_vars => [Final]_vars
    BY <1>1
  <1> QED BY <1>2, Inductive, PTL DEF Spec, CompletedIsFinal

-----------------------------------------------------------------------------
(* CampaignApply implements CampaignOutcome *)

Confirmed == \E a \in Applier : pc[a] # "idle"

(* A step of an actor other than Load leaves Confirmed alone. *)
LEMMA ConfirmedStays ==
    ASSUME IInv, [Next]_vars, \A a \in Applier : ~Load(a) PROVE Confirmed' = Confirmed
  <1> USE ApplierAssumption DEF IInv, Places, TypeOK, Actor, Labels, Goto, Refused, Confirmed
  <1>1. ASSUME NEW x \in Actor, NEW l, l # "idle", pc[x] # "idle", Goto(x, l)
        PROVE Confirmed' = Confirmed
    BY <1>1
  <1>2. CASE Gate \/ SaveResult \/ Announce \/ CatchStart
    <2>1. pc[Runner] # "idle" /\ \E l : l # "idle" /\ Goto(Runner, l)
      BY <1>2 DEF Gate, SaveResult, Announce, CatchStart
    <2> QED BY <1>1, <2>1
  <1>3. ASSUME NEW a \in Applier,
               LoadApplication(a) \/ SaveApplication(a) \/ LoadEvents(a) \/ Complete(a)
        PROVE Confirmed' = Confirmed
    <2>1. pc[a] # "idle" /\ \E l : l # "idle" /\ Goto(a, l)
      BY <1>3 DEF LoadApplication, SaveApplication, LoadEvents, Complete
    <2> QED BY <1>1, <2>1
  <1>4. ASSUME NEW x \in Actor,
               CheckClean(x) \/ CheckHead(x) \/ Merge(x) \/ Reload(x) \/ Crash(x)
        PROVE Confirmed' = Confirmed
    <2>1. pc[x] # "idle" /\ \E l : l # "idle" /\ Goto(x, l)
      BY <1>4 DEF CheckClean, CheckHead, Merge, Reload, Crash
    <2> QED BY <1>1, <2>1
  <1>5. CASE UserMoves \/ UserEdits \/ UNCHANGED vars
    BY <1>5 DEF UserMoves, UserEdits, vars
  <1> QED BY <1>2, <1>3, <1>4, <1>5 DEF Next

(* Every step is a step of CampaignOutcome or leaves its variables alone. *)
LEMMA OutcomeStep == IInv /\ [Next]_vars => [Outcome!Next]_Outcome!vars
  <1> SUFFICES ASSUME IInv, [Next]_vars
               PROVE Outcome!Next \/ UNCHANGED Outcome!vars
    OBVIOUS
  <1> DEFINE Stays == UNCHANGED <<cand, merged, status>>
  <1> USE ApplierAssumption DEF repository, journal, vars
  <1>1. ASSUME Stays, Confirmed' = Confirmed PROVE UNCHANGED Outcome!vars
    BY <1>1 DEF Outcome!vars, Confirmed
  <1>2. ASSUME cand' = cand, merged' = merged, Confirmed' = Confirmed,
               \/ status' = "blocked"
               \/ status' = "awaiting_application" /\ status # "completed"
               \/ status' = "completed" /\ merged
        PROVE Outcome!Next
    BY <1>2 DEF Outcome!Next, Outcome!Show, Confirmed
  <1>3. ASSUME NEW a \in Applier, Load(a) PROVE Outcome!Next
    <2>1. Stays
      BY <1>3 DEF Load
    <2>2. pc'[a] # "idle"
      BY <1>3 DEF Load, Goto, IInv, TypeOK, Actor
    <2> QED BY <2>1, <2>2 DEF Outcome!Next, Outcome!Confirm
  <1>4. ASSUME \A a \in Applier : ~Load(a)
        PROVE Outcome!Next \/ UNCHANGED Outcome!vars
    <2>1. Confirmed' = Confirmed
      BY <1>4, ConfirmedStays
    <2>2. CASE Gate \/ SaveResult \/ UserMoves \/ UserEdits \/ UNCHANGED vars
      BY <1>1, <2>1, <2>2 DEF Gate, SaveResult, UserMoves, UserEdits
    <2>3. CASE Announce
      <3>1. pc[Runner] = "emit" /\ cand' = cand /\ merged' = merged
        BY <2>3 DEF Announce
      <3>2. known[Runner] = 0 /\ (revision = 0 => status # "completed")
        BY <3>1 DEF IInv, Counted, Before
      <3>3. applied => merged
        BY DEF IInv, Moved
      <3>4. \/ status' = status
            \/ status' = "awaiting_application" /\ status # "completed"
            \/ status' = "completed" /\ merged
        BY <2>3, <3>2, <3>3 DEF Announce, EmitOk, EmitRejects
      <3> QED BY <1>1, <1>2, <2>1, <3>1, <3>4
    <2>4. CASE CatchStart
      <3>1. cand' = cand /\ merged' = merged
        BY <2>4 DEF CatchStart
      <3>2. status' = status \/ status' = "blocked"
        BY <2>4 DEF CatchStart, EmitOk, EmitRejects
      <3> QED BY <1>1, <1>2, <2>1, <3>1, <3>2
    <2>5. ASSUME NEW a \in Applier, LoadApplication(a) \/ SaveApplication(a) \/ LoadEvents(a)
          PROVE UNCHANGED Outcome!vars
      BY <1>1, <2>1, <2>5 DEF LoadApplication, SaveApplication, LoadEvents
    <2>6. ASSUME NEW a \in Applier, Complete(a)
          PROVE Outcome!Next \/ UNCHANGED Outcome!vars
      <3>1. cand' = cand /\ merged' = merged /\ pc[a] = "emit"
        BY <2>6 DEF Complete
      <3>2. merged
        BY <3>1 DEF IInv, Kept, Moved
      <3>3. status' = status \/ status' = "completed"
        BY <2>6 DEF Complete, EmitOk, EmitRejects
      <3> QED BY <1>1, <1>2, <2>1, <3>1, <3>2, <3>3
    <2>7. ASSUME NEW x \in Actor, CheckClean(x) \/ CheckHead(x) \/ Reload(x) \/ Crash(x)
          PROVE UNCHANGED Outcome!vars
      BY <1>1, <2>1, <2>7 DEF CheckClean, CheckHead, Reload, Crash
    <2>8. ASSUME NEW x \in Actor, Merge(x)
          PROVE Outcome!Next \/ UNCHANGED Outcome!vars
      <3>1. pc[x] = "merge" /\ cand' = cand /\ status' = status
        BY <2>8 DEF Merge
      <3>2. merged' = merged \/ merged' = TRUE
        BY <2>8 DEF Merge, FastForwards
      <3>3. Outcome!Automatic(cand) \/ (Confirmed /\ Outcome!Applicable(cand))
        BY <3>1 DEF IInv, Permitted, Actor, Confirmed, Outcome!Applicable
      <3>4. CASE merged' = TRUE
        BY <2>1, <3>1, <3>3, <3>4 DEF Outcome!Next, Outcome!Merge, Confirmed
      <3> QED BY <1>1, <2>1, <3>1, <3>2, <3>4
    <2> QED BY <1>4, <2>2, <2>3, <2>4, <2>5, <2>6, <2>7, <2>8 DEF Next
  <1> QED BY <1>3, <1>4

(* start(), any number of apply() calls and a user in the same repository   *)
(* keep what CampaignOutcome promises.                                      *)
THEOREM Implements == Spec => KeepsPromise
  <1>1. Init => Outcome!Init
    BY ApplierAssumption DEF Init, Outcome!Init, Actor
  <1> QED BY <1>1, OutcomeStep, Inductive, PTL DEF Spec, KeepsPromise, Outcome!Spec
=============================================================================
