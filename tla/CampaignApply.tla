--------------------------- MODULE CampaignApply ---------------------------
(***************************************************************************)
(* The candidate of a v2.3 campaign and the real project: the tail of      *)
(* runCampaign (application gate, automatic fast-forward, result, last     *)
(* event), the apply() calls of any number of processes, and the user who  *)
(* works in the same repository                                            *)
(* (src/src/composition/orchestration-v23-runtime.ts:164-180, 229-240).    *)
(*                                                                         *)
(* Every await is a step boundary.  A store or Git operation may fail,     *)
(* with or without having taken effect, and every process may crash        *)
(* between two steps.  No step is ever repeated, so nothing needs a bound. *)
(***************************************************************************)
EXTENDS Naturals

CONSTANTS
    Applier,    \* apply() calls, each with the confirmed fingerprint
    Runner,     \* the start() call that built the candidate
    None        \* "no application artifact"

ASSUME ApplierAssumption == Runner \notin Applier /\ None \notin Applier

Actor == Applier \cup {Runner}

(* The authorization's apply mode, the snapshot, the risk assessment (a     *)
(* hard denial makes it ineligible), and whether hunks were given up.       *)
Candidate ==
    {c \in [automatic : BOOLEAN, clean : BOOLEAN, eligible : BOOLEAN,
            denied : BOOLEAN, fallback : BOOLEAN] : c.denied => ~c.eligible}

VARIABLES
    cand,           \* the integrated candidate
    head, dirty,    \* HEAD and the working tree of the real project
    merged,         \* history: the real project received the candidate
    applied,        \* start() knows an appliedCommit
    result,         \* result.json: none, or one with or without appliedCommit
    application,    \* application.json: the apply() call that wrote it
    revision,       \* length of the event journal, counted from the candidate
    status,         \* status of its projection
    pc, known,      \* where each actor is, and its event writer's revision
    faulty          \* history: a store or Git operation failed

repository == <<head, dirty, merged>>
journal == <<revision, status>>
vars == <<cand, repository, applied, result, application, journal, pc, known, faulty>>

Init ==
    /\ cand \in Candidate
    /\ head = "snapshot" /\ dirty = FALSE /\ merged = FALSE
    /\ applied = FALSE
    /\ result = "none" /\ application = None
    /\ revision = 0
    /\ status = "running" \/ (status = "blocked" /\ cand.fallback)
    /\ pc = [x \in Actor |-> IF x = Runner THEN "gate" ELSE "idle"]
    /\ known = [x \in Actor |-> 0]
    /\ faulty = FALSE

-----------------------------------------------------------------------------

Goto(x, label) == pc' = [pc EXCEPT ![x] = label]

(* What a failed fast-forward means: start() gates the candidate, apply()   *)
(* throws.                                                                  *)
Refused(x) == Goto(x, IF x = Runner THEN "save" ELSE "failed")

(* Mutant of EmitOk: the store appends whatever revision the writer counts. *)
EmitOk_Unchecked(x, shown) ==
    /\ revision' = revision + 1 /\ status' = shown
    /\ known' = [known EXCEPT ![x] = revision + 1]
    /\ UNCHANGED faulty

(* An event is appended only as the next revision of the journal.  As in    *)
(* CampaignRun, a failed append may have been durable.                      *)
EmitOk(x, shown) ==
    /\ known[x] = revision
    /\ revision' = revision + 1 /\ status' = shown
    /\ known' = [known EXCEPT ![x] = revision + 1]
    /\ UNCHANGED faulty

EmitRejects(x, shown) ==
    /\ \/ known[x] # revision /\ UNCHANGED <<journal, faulty>>
       \/ /\ known[x] = revision /\ faulty' = TRUE
          /\ \/ UNCHANGED journal
             \/ revision' = revision + 1 /\ status' = shown
    /\ UNCHANGED known

-----------------------------------------------------------------------------
(* applyFastForward, for start() and for apply() *)

(* Its callers hold an integrated candidate; a dirty snapshot is refused    *)
(* before Git is asked whether the project is clean now...                  *)
CheckClean(x) ==
    /\ pc[x] = "clean"
    /\ IF cand.clean /\ ~dirty THEN Goto(x, "head") ELSE Refused(x)
    /\ UNCHANGED <<cand, repository, applied, result, application, journal, known, faulty>>

(* ... and still at the snapshot. *)
CheckHead(x) ==
    /\ pc[x] = "head"
    /\ IF head = "snapshot" THEN Goto(x, "merge") ELSE Refused(x)
    /\ UNCHANGED <<cand, repository, applied, result, application, journal, known, faulty>>

(* git merge --ff-only accepts a HEAD the candidate descends from, and is   *)
(* "already up to date" where HEAD descends from the candidate.             *)
FastForwards ==
    \/ head # "foreign" /\ head' = "candidate" /\ merged' = TRUE
    \/ head = "foreign" /\ merged /\ UNCHANGED <<head, merged>>

(* Mutant of Merge: the exit code of git is not looked at. *)
Merge_AnyExitCode(x) ==
    /\ pc[x] = "merge"
    /\ FastForwards \/ UNCHANGED <<head, merged>>
    /\ Goto(x, "save")
    /\ applied' = (applied \/ x = Runner)
    /\ UNCHANGED <<cand, dirty, result, application, journal, known, faulty>>

(* The merge, and rev-parse behind it.  Git refuses (a HEAD that moved, a   *)
(* change in the way, its own index lock); or it fails after the merge.     *)
Merge(x) ==
    /\ pc[x] = "merge"
    /\ \/ /\ FastForwards /\ Goto(x, "save")
          /\ applied' = (applied \/ x = Runner)
          /\ UNCHANGED faulty
       \/ /\ UNCHANGED <<head, merged, applied, faulty>>
          /\ Refused(x)
       \/ /\ FastForwards /\ faulty' = TRUE /\ UNCHANGED applied
          /\ Refused(x)
    /\ UNCHANGED <<cand, dirty, result, application, journal, known>>

-----------------------------------------------------------------------------
(* start(): the tail of runCampaign, and its catch clause *)

(* determineApplicationGate *)
Gate ==
    /\ pc[Runner] = "gate"
    /\ Goto(Runner, IF cand.automatic /\ cand.clean /\ cand.eligible /\ ~cand.fallback
                      THEN "clean" ELSE "save")
    /\ UNCHANGED <<cand, repository, applied, result, application, journal, known, faulty>>

(* Mutant of SaveResult: the gate is recorded although there is a commit. *)
SaveResult_KeepsGate ==
    /\ pc[Runner] = "save"
    /\ result' = "gated" /\ Goto(Runner, "emit") /\ UNCHANGED faulty
    /\ UNCHANGED <<cand, repository, applied, application, journal, known>>

SaveResult ==
    /\ pc[Runner] = "save"
    /\ LET saved == IF applied THEN "applied" ELSE "gated" IN
       \/ result' = saved /\ Goto(Runner, "emit") /\ UNCHANGED faulty
       \/ result' \in {result, saved} /\ Goto(Runner, "throwing") /\ faulty' = TRUE
    /\ UNCHANGED <<cand, repository, applied, application, journal, known>>

(* The last event.  If it is rejected, so is the one of the catch clause,   *)
(* which the same writer queues behind it.                                  *)
Announce ==
    LET shown == IF applied THEN "completed" ELSE "awaiting_application" IN
    /\ pc[Runner] = "emit"
    /\ \/ EmitOk(Runner, shown) /\ Goto(Runner, "reload")
       \/ EmitRejects(Runner, shown) /\ Goto(Runner, "failed")
    /\ UNCHANGED <<cand, repository, applied, result, application>>

(* currentResult, and the same reading at the end of apply(). *)
Reload(x) ==
    /\ pc[x] = "reload"
    /\ \/ Goto(x, "done") /\ UNCHANGED faulty
       \/ Goto(x, IF x = Runner THEN "throwing" ELSE "failed") /\ faulty' = TRUE
    /\ UNCHANGED <<cand, repository, applied, result, application, journal, known>>

CatchStart ==
    /\ pc[Runner] = "throwing"
    /\ EmitOk(Runner, "blocked") \/ EmitRejects(Runner, "blocked")
    /\ Goto(Runner, "failed")
    /\ UNCHANGED <<cand, repository, applied, result, application>>

-----------------------------------------------------------------------------
(* apply() *)

Load(a) ==
    /\ pc[a] = "idle" /\ result # "none"
    /\ Goto(a, IF cand.denied THEN "failed" ELSE "loadApplication")
    /\ UNCHANGED <<cand, repository, applied, result, application, journal, known, faulty>>

LoadApplication(a) ==
    /\ pc[a] = "loadApplication"
    /\ Goto(a, IF application # None THEN "failed" ELSE "clean")
    /\ UNCHANGED <<cand, repository, applied, result, application, journal, known, faulty>>

(* Mutant of SaveApplication: the artifact is not written exclusively. *)
SaveApplication_Overwrites(a) ==
    /\ pc[a] = "save"
    /\ application' = a /\ Goto(a, "loadEvents")
    /\ UNCHANGED <<cand, repository, applied, result, journal, known, faulty>>

(* The artifact is created exclusively: whoever comes second throws. *)
SaveApplication(a) ==
    /\ pc[a] = "save"
    /\ \/ /\ application = None /\ application' = a
          /\ Goto(a, "loadEvents") /\ UNCHANGED faulty
       \/ application # None /\ Goto(a, "failed") /\ UNCHANGED <<application, faulty>>
       \/ /\ application = None /\ application' \in {None, a}
          /\ Goto(a, "failed") /\ faulty' = TRUE
    /\ UNCHANGED <<cand, repository, applied, result, journal, known>>

(* Mutant of LoadEvents: the writer starts one revision too far. *)
LoadEvents_OffByOne(a) ==
    /\ pc[a] = "loadEvents"
    /\ known' = [known EXCEPT ![a] = revision + 1] /\ Goto(a, "emit")
    /\ UNCHANGED <<cand, repository, applied, result, application, journal, faulty>>

LoadEvents(a) ==
    /\ pc[a] = "loadEvents"
    /\ \/ known' = [known EXCEPT ![a] = revision] /\ Goto(a, "emit") /\ UNCHANGED faulty
       \/ Goto(a, "failed") /\ faulty' = TRUE /\ UNCHANGED known
    /\ UNCHANGED <<cand, repository, applied, result, application, journal>>

Complete(a) ==
    /\ pc[a] = "emit"
    /\ \/ EmitOk(a, "completed") /\ Goto(a, "reload")
       \/ EmitRejects(a, "completed") /\ Goto(a, "failed")
    /\ UNCHANGED <<cand, repository, applied, result, application>>

-----------------------------------------------------------------------------
(* The rest of the world *)

(* The user commits, checks out something else, or returns to the snapshot. *)
UserMoves ==
    /\ head' \in {"snapshot", "foreign"}
    /\ UNCHANGED <<cand, dirty, merged, applied, result, application, journal, pc,
                   known, faulty>>

UserEdits ==
    /\ dirty' = ~dirty
    /\ UNCHANGED <<cand, head, merged, applied, result, application, journal, pc,
                   known, faulty>>

Crash(x) ==
    /\ pc[x] \notin {"idle", "done", "failed", "crashed"}
    /\ Goto(x, "crashed")
    /\ UNCHANGED <<cand, repository, applied, result, application, journal, known, faulty>>

Next ==
    \/ Gate \/ SaveResult \/ Announce \/ CatchStart
    \/ \E a \in Applier : \/ Load(a) \/ LoadApplication(a) \/ SaveApplication(a)
                          \/ LoadEvents(a) \/ Complete(a)
    \/ \E x \in Actor : CheckClean(x) \/ CheckHead(x) \/ Merge(x) \/ Reload(x) \/ Crash(x)
    \/ UserMoves \/ UserEdits

Spec == Init /\ [][Next]_vars

-----------------------------------------------------------------------------
(* Properties *)

Labels == {"gate", "idle", "loadApplication", "clean", "head", "merge", "save",
           "loadEvents", "emit", "reload", "throwing", "done", "failed", "crashed"}

(* Every variable keeps its type. *)
TypeOK ==
    /\ cand \in Candidate
    /\ head \in {"snapshot", "candidate", "foreign"}
    /\ dirty \in BOOLEAN /\ merged \in BOOLEAN /\ applied \in BOOLEAN
    /\ result \in {"none", "gated", "applied"}
    /\ application \in Applier \cup {None}
    /\ revision \in Nat
    /\ status \in {"running", "blocked", "awaiting_application", "completed"}
    /\ pc \in [Actor -> Labels]
    /\ known \in [Actor -> Nat]
    /\ faulty \in BOOLEAN

(* However many processes apply the same candidate, at most one succeeds:   *)
(* the one whose artifact is kept (orchestration-v23-runtime.ts:171-175     *)
(* checks and acts five awaits apart).  The artifact is never written       *)
(* before the project moved.                                                *)
AppliedOnce ==
    /\ \A a \in Applier : pc[a] = "done" => application = a
    /\ application # None => merged

(* start() never loses an automatic application: when it ends without a     *)
(* failed operation or a crash, the result records it and the projection    *)
(* shows it (orchestration-v23-runtime.ts:232-239).                         *)
AutoApplicationRecorded ==
    (applied /\ ~faulty /\ pc[Runner] \in {"done", "failed"}) =>
        result = "applied" /\ status = "completed"

(* An apply() that kept its artifact and met no failure shows the campaign  *)
(* completed; only one that read the journal before start() announced the   *)
(* candidate can lose the race for the next revision                        *)
(* (orchestration-v23-runtime.ts:176-177, 239).                             *)
ApplicationShown ==
    \A a \in Applier :
        (application = a /\ pc[a] \in {"done", "failed"} /\ ~faulty) =>
            status = "completed" \/ known[a] = 0

(* No later event takes the completion back: not the announcement start()   *)
(* still has to make, not its catch clause, unless a reading failed.        *)
CompletedIsFinal ==
    [][status = "completed" /\ ~faulty => status' = "completed"]_vars

Outcome == INSTANCE CampaignOutcome
           WITH confirmed <- \E a \in Applier : pc[a] # "idle"

(* Whoever wins, the candidate reached the project with a permission, and   *)
(* the campaign is shown completed only if it did.                          *)
KeepsPromise == Outcome!Spec
=============================================================================
