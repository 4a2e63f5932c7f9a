------------------------------- MODULE Framing -------------------------------
(* A framing journal and the publication of its plan, as the processes that     *)
(* share them run: agents contributing deltas, a human stabilizing, somebody    *)
(* publishing and Doctor recovering an interrupted publication.  Every process  *)
(* reads the plan, computes the next revision, and only then takes the lock and *)
(* compares; revision, event and pointer are three writes; publication is a     *)
(* journal of six states, each reached by an effect and then a write.  Any      *)
(* process may crash between two steps and any publication step may fail.       *)
(*                                                                              *)
(* One Project framing whose ProjectDraft exists and whose root stays where it  *)
(* is.  A crashed process's locks are taken as released (FileLock says when).   *)
EXTENDS FramingPlan

CONSTANTS Proc,
          MergeAttempts,     \* 5 in applyDelta
          MaxDeltas,         \* bound on the deltas that are submitted
          MaxPublications,   \* bound on the calls of publish()
          MaxCrashes, MaxFaults, MaxMoves    \* bounds on what goes wrong

Nobody == "nobody"
Doctor == "doctor"
Actors == Proc \cup {Doctor}
ASSUME FramingAssumption ==
    /\ Nobody \notin Proc /\ Doctor \notin Proc
    /\ MergeAttempts \in Nat \ {0}
    /\ \A m \in {MaxDeltas, MaxPublications, MaxCrashes, MaxFaults, MaxMoves} : m \in Nat

VARIABLES
    history,     \* the revision files: sequence of plans
    events,      \* the event files: sequence of the revisions they record
    pointer,     \* current.json: the revision it names, 0 without a file
    lock,        \* holder of the lock of current.json
    repository,  \* the workspace fingerprint a probe would find
    publication, \* publication.json: its state, its revision and its error
    draft,       \* materialization of the ProjectDraft
    staged,      \* files of the staging directory
    leftover,    \* those a repeated commit failed to remove, unnoticed (history)
    planFiles,   \* revisions under .arka-norn/plans, each in a file of its own
    marker,      \* .arka-norn/project.json: "none", "ours" or "foreign"
    listed,      \* the revision named by plans/index.json, 0 without one
    indexed,     \* the Project is in the index of projects
    pubLock,     \* holder of the lock of publication.json
    proc,        \* what each process is doing
    basis,       \* ghost: the revision the author of each revision had read
    confirmed,   \* ghost: what a human confirmed: <<kind, revision>>
    spent        \* deltas, publications, crashes, faults and repository moves so far

journal  == <<history, events, pointer, basis>>
artifacts == <<staged, leftover, planFiles, marker, listed, indexed>>
vars == <<journal, lock, repository, publication, draft, artifacts, pubLock, proc,
          confirmed, spent>>

States == <<"prepared", "staged", "plan_committed", "marker_committed", "indexed",
            "materialized">>
NoPublication == [state |-> "none", revision |-> 0, failed |-> FALSE]

Resting == [at |-> "idle", ops |-> <<>>, base |-> 0, read |-> 0, next |-> <<>>,
            tries |-> 0, draft |-> "none"]

Latest == history[Len(history)]
At(p, place) == proc[p].at = place
Rest(p) == proc' = [proc EXCEPT ![p] = Resting]

Spend(what) == spent' = [spent EXCEPT ![what] = @ + 1]
May(what, bound) == spent[what] < bound

Idle(p) == p \in Proc /\ At(p, "idle")

Init ==
    /\ history = <<>> /\ events = <<>> /\ pointer = 0 /\ basis = <<>>
    /\ lock = Nobody /\ pubLock = Nobody
    /\ repository \in Snapshots
    /\ publication = NoPublication /\ draft = "draft"
    /\ staged = {} /\ leftover = {} /\ planFiles = {}
    /\ marker = "none" /\ listed = 0 /\ indexed = FALSE
    /\ proc = [p \in Actors |-> Resting]
    /\ confirmed = {}
    /\ spent = [deltas |-> 0, publications |-> 0, crashes |-> 0, faults |-> 0, moves |-> 0]

-----------------------------------------------------------------------------
(* The service: what is read, and the next revision that is computed from it.   *)

\* enter() without a plan to resume: a first revision on the observed repository.
Enter(p) ==
    /\ Idle(p)
    /\ history = <<>>
    /\ proc' = [proc EXCEPT ![p] = [Resting EXCEPT !.at = "save", !.next = NewPlan(repository)]]
    /\ UNCHANGED <<journal, lock, repository, publication, draft, artifacts, pubLock,
                   confirmed, spent>>

\* An agent submits a delta written on a revision it read at some time.  One
\* attempt reads the plan, rebases and applies; what throws changes nothing.
Submit(p) ==
    /\ Idle(p)
    /\ history # <<>>
    /\ May("deltas", MaxDeltas)
    /\ Spend("deltas")
    /\ \E r \in DOMAIN history :
        \E ops \in OperationsOn(history[r]) :
         \E plan \in Merged(history[r], Latest, ops) :
            proc' = [proc EXCEPT ![p] = [Resting EXCEPT
                       !.at = "save", !.ops = ops, !.base = r,
                       !.read = Len(history), !.next = plan, !.tries = 1]]
    /\ UNCHANGED <<journal, lock, repository, publication, draft, artifacts, pubLock, confirmed>>

\* An attempt of applyDelta after a conflict, or for the delta of a refresh.
Merge(p) ==
    /\ At(p, "merge")
    /\ LET next == Merged(history[proc[p].base], Latest, proc[p].ops) IN
       \/ /\ next = {}
          /\ Rest(p)
       \/ \E plan \in next :
             proc' = [proc EXCEPT ![p].at = "save", ![p].read = Len(history),
                                  ![p].next = plan, ![p].tries = @ + 1]
    /\ UNCHANGED <<journal, lock, repository, publication, draft, artifacts, pubLock,
                   confirmed, spent>>

\* stabilize(): the human confirms the revision he was shown, `shown'.  Refused
\* when the plan has changed; a moved repository makes a refreshing delta instead.
\* Mutant: the fingerprint he passes is not compared.
UncheckedFingerprint(shown) == TRUE

Unchanged(shown) == shown = Len(history)

Stabilize(p, kind) ==
    /\ Idle(p)
    /\ \E shown \in DOMAIN history :
        /\ Unchanged(shown)
        /\ \/ /\ kind = "grounded"
              /\ repository # Latest.probe
              /\ \E ops \in RefreshesOf(Latest, repository) :
                    proc' = [proc EXCEPT ![p] = [Resting EXCEPT
                               !.at = "merge", !.base = Len(history), !.ops = ops]]
              /\ UNCHANGED confirmed
           \/ /\ kind = "grounded" => repository = Latest.probe
              /\ CanStabilize(Latest, kind)
              /\ proc' = [proc EXCEPT ![p] = [Resting EXCEPT
                            !.at = "save", !.base = Len(history), !.read = Len(history),
                            !.next = Stabilized(Latest, kind)]]
              /\ confirmed' = confirmed \cup {<<kind, shown>>}
    /\ UNCHANGED <<journal, lock, repository, publication, draft, artifacts, pubLock, spent>>

-----------------------------------------------------------------------------
(* The store: create and save. *)

\* Under the lock, the revision on disk must still be the one that was read.
\* Mutant: save does not compare.
BlindSave(p) == TRUE

StillLatest(p) == Len(history) = proc[p].read

\* The revision file is the commit: from here every reader sees the new plan.
SaveRevision(p) ==
    /\ At(p, "save")
    /\ lock = Nobody
    /\ StillLatest(p)
    /\ lock' = p
    /\ history' = Append(history, proc[p].next)
    /\ basis' = Append(basis, proc[p].base)
    /\ proc' = [proc EXCEPT ![p].at = "event"]
    /\ UNCHANGED <<events, pointer, repository, publication, draft, artifacts, pubLock,
                   confirmed, spent>>

\* A revision conflict: a delta is merged again, a few times; the rest fails.
SaveConflict(p) ==
    /\ At(p, "save")
    /\ lock = Nobody
    /\ ~StillLatest(p)
    /\ IF proc[p].ops # <<>> /\ proc[p].tries < MergeAttempts
       THEN proc' = [proc EXCEPT ![p].at = "merge", ![p].next = <<>>]
       ELSE Rest(p)
    /\ UNCHANGED <<journal, lock, repository, publication, draft, artifacts, pubLock,
                   confirmed, spent>>

SaveEvent(p) ==
    /\ At(p, "event")
    /\ events' = Append(events, Len(history))
    /\ proc' = [proc EXCEPT ![p].at = "pointer"]
    /\ UNCHANGED <<history, pointer, basis, lock, repository, publication, draft, artifacts,
                   pubLock, confirmed, spent>>

SavePointer(p) ==
    /\ At(p, "pointer")
    /\ pointer' = Len(history)
    /\ lock' = Nobody
    /\ Rest(p)
    /\ UNCHANGED <<history, events, basis, repository, publication, draft, artifacts, pubLock,
                   confirmed, spent>>

-----------------------------------------------------------------------------
(* Publication: FramingService.publish and the two stores it writes through.    *)

\* Refused without a second stabilization or when the repository has moved; an
\* indexed Project is published directly, a draft through the journal.
BeginPublish(p) ==
    /\ Idle(p)
    /\ May("publications", MaxPublications)
    /\ Spend("publications")
    /\ history # <<>>
    /\ Latest.publication = 0
    /\ repository = Latest.probe
    /\ Latest.grounded # 0
    /\ proc' = [proc EXCEPT ![p] = [Resting EXCEPT
                  !.at = IF indexed THEN "plan" ELSE "journal",
                  !.read = Len(history), !.base = Len(history),
                  !.next = Published(Latest), !.draft = draft]]
    /\ UNCHANGED <<journal, lock, repository, publication, draft, artifacts, pubLock, confirmed>>

\* FramingStore.publish: an exclusive write of the plan, or the same one there.
WritePlan(p) ==
    /\ At(p, "plan")
    /\ planFiles' = planFiles \cup {proc[p].read}
    /\ proc' = [proc EXCEPT ![p].at = "list"]
    /\ UNCHANGED <<journal, lock, repository, publication, draft, staged, leftover, marker, listed,
                   indexed, pubLock, confirmed, spent>>

ListPlan(p) ==
    /\ At(p, "list")
    /\ listed' = proc[p].read
    /\ proc' = [proc EXCEPT ![p].at = "save"]
    /\ UNCHANGED <<journal, lock, repository, publication, draft, staged, leftover, planFiles, marker,
                   indexed, pubLock, confirmed, spent>>

\* Doctor, or recover(): the plan is the journal's revision, nothing is marked
\* published afterwards (next stays empty).  The draft is read before the lock.
Complete == marker = "ours" /\ publication.revision \in planFiles /\ indexed
Healthy  == publication.state = "materialized" /\ Complete
Recoverable ==
    /\ publication.state # "none"
    /\ ~Healthy
    /\ marker # "foreign"

Recover ==
    /\ At(Doctor, "idle")
    /\ Recoverable
    /\ proc' = [proc EXCEPT ![Doctor] = [Resting EXCEPT
                  !.at = "journal", !.read = publication.revision, !.draft = draft]]
    /\ UNCHANGED <<journal, lock, repository, publication, draft, artifacts, pubLock,
                   confirmed, spent>>

\* The journal of this publication is created, on a root without a marker, or
\* found: the lock is kept until the publication ends or fails.
TakeJournal(p) ==
    /\ At(p, "journal")
    /\ pubLock = Nobody
    /\ \/ /\ publication.state = "none"
          /\ marker = "none"
          /\ publication' = [state |-> "prepared", revision |-> proc[p].read, failed |-> FALSE]
       \/ /\ publication.state # "none"
          /\ publication.revision = proc[p].read
          /\ UNCHANGED publication
    /\ pubLock' = p
    /\ proc' = [proc EXCEPT ![p].at = "resume"]
    /\ UNCHANGED <<journal, lock, repository, draft, artifacts, confirmed, spent>>

RefusedJournal(p) ==
    /\ At(p, "journal")
    /\ pubLock = Nobody
    /\ IF publication.state = "none" THEN marker # "none"
       ELSE publication.revision # proc[p].read
    /\ Rest(p)
    /\ UNCHANGED <<journal, lock, repository, publication, draft, artifacts, pubLock,
                   confirmed, spent>>

\* Leaving the locked section: publish() goes on to import the Project and save
\* the published plan, recover() is done.
\* Mutant: the lock of the publication stays with the process.
LeaveLocked(p) ==
    /\ UNCHANGED pubLock
    /\ IF proc[p].next = <<>> THEN Rest(p)
       ELSE proc' = [proc EXCEPT ![p].at = "import"]

Leave(p) ==
    /\ pubLock' = Nobody
    /\ IF proc[p].next = <<>> THEN Rest(p)
       ELSE proc' = [proc EXCEPT ![p].at = "import"]

Fails(p) ==
    /\ publication' = [publication EXCEPT !.failed = TRUE]
    /\ draft' = "recovery_required"
    /\ pubLock' = Nobody
    /\ Rest(p)

\* continuePublication, before its first step.
RootAvailable == marker # "foreign"

Resume(p) ==
    /\ At(p, "resume")
    /\ IF publication.state = "materialized"
       THEN /\ Leave(p)
            /\ UNCHANGED <<publication, draft>>
       ELSE IF RootAvailable
       THEN /\ draft' = IF proc[p].draft \in {"draft", "recovery_required"}
                        THEN "publishing" ELSE draft
            /\ proc' = [proc EXCEPT ![p].at = "effect"]
            /\ UNCHANGED <<publication, pubLock>>
       ELSE Fails(p)
    /\ UNCHANGED <<journal, lock, repository, artifacts, confirmed, spent>>

\* linkExclusive: the staged file becomes the destination, which may already be
\* there when the step is repeated.  A different destination is never replaced.
LinkedPlan(p) == "plan" \in staged \/ proc[p].read \in planFiles

\* Mutants: a rename that replaces what is there; a repeated step that finds its
\* staged file gone.
RenamedMarker == TRUE
StagedMarker  == "marker" \in staged /\ marker # "foreign"

LinkedMarker == IF "marker" \in staged THEN marker # "foreign" ELSE marker = "ours"

\* A commit that finds its own destination removes what is still staged, and does
\* not hear when that fails.
Tidies(p, file) ==
    /\ proc' = [proc EXCEPT ![p].at = "turn"]
    /\ \/ /\ staged' = staged \ {file}
          /\ UNCHANGED <<leftover, spent>>
       \/ /\ file \in staged
          /\ May("faults", MaxFaults)
          /\ Spend("faults")
          /\ leftover' = leftover \cup {file}
          /\ UNCHANGED staged

\* One that links its destination has the staged file still to remove.
CommitPlan(p) ==
    /\ At(p, "effect")
    /\ publication.state = "staged"
    /\ LinkedPlan(p)
    /\ planFiles' = planFiles \cup {proc[p].read}
    /\ \/ /\ proc[p].read \in planFiles
          /\ Tidies(p, "plan")
       \/ /\ proc[p].read \notin planFiles
          /\ proc' = [proc EXCEPT ![p].at = "unlink"]
          /\ UNCHANGED <<staged, leftover, spent>>
    /\ UNCHANGED <<journal, lock, repository, publication, draft, marker, listed, indexed,
                   pubLock, confirmed>>

CommitMarker(p) ==
    /\ At(p, "effect")
    /\ publication.state = "plan_committed"
    /\ LinkedMarker
    /\ marker' = "ours"
    /\ \/ /\ marker = "ours"
          /\ Tidies(p, "marker")
       \/ /\ marker # "ours"
          /\ proc' = [proc EXCEPT ![p].at = "unlink"]
          /\ UNCHANGED <<staged, leftover, spent>>
    /\ UNCHANGED <<journal, lock, repository, publication, draft, planFiles, listed, indexed,
                   pubLock, confirmed>>

UnlinkStaged(p) ==
    /\ At(p, "unlink")
    /\ staged' = staged \ {IF publication.state = "staged" THEN "plan" ELSE "marker"}
    /\ proc' = [proc EXCEPT ![p].at = "turn"]
    /\ UNCHANGED <<journal, lock, repository, publication, draft, leftover, planFiles, marker,
                   listed, indexed, pubLock, confirmed, spent>>

Commit(p) == CommitPlan(p) \/ CommitMarker(p) \/ UnlinkStaged(p)

\* The effect of the step that follows any other state of the journal.
Effect(p) ==
    /\ At(p, "effect")
    /\ \/ /\ publication.state = "prepared"
          /\ RootAvailable
          /\ staged' = {"plan", "marker"}
          /\ UNCHANGED <<listed, draft>>
       \/ /\ publication.state = "marker_committed"
          /\ listed' = proc[p].read
          /\ UNCHANGED <<staged, draft>>
       \/ /\ publication.state = "indexed"
          /\ draft' = "materialized"
          /\ UNCHANGED <<staged, listed>>
    /\ proc' = [proc EXCEPT ![p].at =
                  IF publication.state = "marker_committed" THEN "index" ELSE "turn"]
    /\ UNCHANGED <<journal, lock, repository, publication, leftover, planFiles, marker, indexed,
                   pubLock, confirmed, spent>>

\* projectIndex.upsert, the second effect of the marker_committed step.
\* Mutant: the index is left to the import that follows publish().
IndexLater(p) ==
    /\ At(p, "index")
    /\ proc' = [proc EXCEPT ![p].at = "turn"]
    /\ UNCHANGED <<journal, lock, repository, publication, draft, artifacts, pubLock,
                   confirmed, spent>>

IndexProject(p) ==
    /\ At(p, "index")
    /\ indexed' = TRUE
    /\ proc' = [proc EXCEPT ![p].at = "turn"]
    /\ UNCHANGED <<journal, lock, repository, publication, draft, staged, leftover, planFiles, marker,
                   listed, pubLock, confirmed, spent>>

NextState(state) == States[(CHOOSE n \in 1..5 : States[n] = state) + 1]

\* transition: the journal moves on, its error is cleared.
Turn(p) ==
    /\ At(p, "turn")
    /\ publication' = [publication EXCEPT !.state = NextState(@), !.failed = FALSE]
    /\ IF NextState(publication.state) = "materialized" THEN Leave(p)
       ELSE /\ proc' = [proc EXCEPT ![p].at = "effect"]
            /\ UNCHANGED pubLock
    /\ UNCHANGED <<journal, lock, repository, draft, artifacts, confirmed, spent>>

\* The destination is occupied by something else, or a write fails.
Blocked(p) ==
    /\ At(p, "effect")
    /\ \/ publication.state = "prepared" /\ ~RootAvailable
       \/ publication.state = "staged" /\ ~LinkedPlan(p)
       \/ publication.state = "plan_committed" /\ ~LinkedMarker
    /\ Fails(p)
    /\ UNCHANGED <<journal, lock, repository, artifacts, confirmed, spent>>

Fault(p) ==
    /\ proc[p].at \in {"resume", "effect", "unlink", "index", "turn"}
    /\ May("faults", MaxFaults)
    /\ Spend("faults")
    /\ Fails(p)
    /\ UNCHANGED <<journal, lock, repository, artifacts, confirmed>>

\* projects.importFrom after the journalled publication.
ImportProject(p) ==
    /\ At(p, "import")
    /\ indexed' = TRUE
    /\ proc' = [proc EXCEPT ![p].at = "save"]
    /\ UNCHANGED <<journal, lock, repository, publication, draft, staged, leftover, planFiles, marker,
                   listed, pubLock, confirmed, spent>>

-----------------------------------------------------------------------------
(* Everything else that can happen. *)

\* enter() from the project directory finds a marker without an index entry.
EnterMarked ==
    /\ marker = "ours"
    /\ ~indexed
    /\ indexed' = TRUE
    /\ UNCHANGED <<journal, lock, repository, publication, draft, staged, leftover, planFiles, marker,
                   listed, pubLock, proc, confirmed, spent>>

\* Another Norn home marks the same directory as a project of its own.
ForeignMarker ==
    /\ marker = "none"
    /\ May("faults", MaxFaults)
    /\ Spend("faults")
    /\ marker' = "foreign"
    /\ UNCHANGED <<journal, lock, repository, publication, draft, staged, leftover, planFiles, listed,
                   indexed, pubLock, proc, confirmed>>

RepositoryMoves ==
    /\ May("moves", MaxMoves)
    /\ Spend("moves")
    /\ repository' \in Snapshots \ {repository}
    /\ UNCHANGED <<journal, lock, publication, draft, artifacts, pubLock, proc, confirmed>>

Crash(p) ==
    /\ ~At(p, "idle")
    /\ May("crashes", MaxCrashes)
    /\ Spend("crashes")
    /\ Rest(p)
    /\ lock' = IF lock = p THEN Nobody ELSE lock
    /\ pubLock' = IF pubLock = p THEN Nobody ELSE pubLock
    /\ UNCHANGED <<journal, repository, publication, draft, artifacts, confirmed>>

\* The steps of an operation that has begun: on the plan and on the publication.
StepOfPlan(p) ==
    \/ Merge(p) \/ SaveRevision(p) \/ SaveConflict(p) \/ SaveEvent(p) \/ SavePointer(p)
    \/ WritePlan(p) \/ ListPlan(p) \/ ImportProject(p)
StepOfPublication(p) ==
    \/ TakeJournal(p) \/ RefusedJournal(p) \/ Resume(p)
    \/ Effect(p) \/ Commit(p) \/ IndexProject(p) \/ Turn(p) \/ Blocked(p)

Next ==
    \/ \E p \in Proc :
          \/ Enter(p) \/ Submit(p) \/ BeginPublish(p)
          \/ \E kind \in {"intent", "grounded"} : Stabilize(p, kind)
    \/ Recover
    \/ \E p \in Actors : StepOfPlan(p) \/ StepOfPublication(p) \/ Fault(p) \/ Crash(p)
    \/ EnterMarked \/ ForeignMarker \/ RepositoryMoves

\* A process in a publication goes on, and Doctor is run while there is something
\* to recover.
Fairness ==
    /\ \A p \in Actors : WF_vars(StepOfPublication(p))
    /\ WF_vars(Recover)

Spec == Init /\ [][Next]_vars
FairSpec == Spec /\ Fairness
-----------------------------------------------------------------------------
(* Properties. *)

Places == {"idle", "merge", "save", "event", "pointer", "journal", "resume", "effect",
           "unlink", "index", "turn", "import", "plan", "list"}

\* The last revision on disk is a consistent plan numbered by its place;
\* events and pointer lag behind the revisions and never lead, and the journal's
\* lock is held exactly while one of its three writes is missing.
TypeOK ==
    /\ history # <<>> => Latest.revision = Len(history) /\ Consistent(Latest)
    /\ \A n \in DOMAIN events : events[n] \in DOMAIN history
    /\ \A n \in 1..(Len(events) - 1) : events[n] < events[n + 1]
    /\ pointer \in 0..Len(history)
    /\ Len(basis) = Len(history)
    /\ lock \in Actors \cup {Nobody} /\ pubLock \in Actors \cup {Nobody}
    /\ \A p \in Actors : proc[p].at \in Places
    /\ \A p \in Actors : lock = p <=> proc[p].at \in {"event", "pointer"}
    /\ \A p \in Actors :
          pubLock = p <=> proc[p].at \in {"resume", "effect", "unlink", "index", "turn"}
    /\ publication.state \in {"none"} \cup {States[n] : n \in DOMAIN States}
    /\ marker \in {"none", "ours", "foreign"} /\ indexed \in BOOLEAN
    /\ draft \in {"draft", "publishing", "recovery_required", "materialized"}

Cycle == INSTANCE FramingCycle

\* The journal behaves as one plan that changes in single steps: whatever the
\* interleaving and wherever a process crashes, each new revision is the last
\* one with exactly one contribution, confirmation or publication on it
\* (FsFramingStore.save, FramingService.applyDelta).
JournalIsAtomic == Cycle!Spec

\* A statement is superseded only by somebody who had read it, or together with
\* a statement it depends on: a stale delta never overwrites, it is kept beside
\* what it contradicts (applyDelta, preserveConcurrentContradictions).  What
\* remains is a delta that words a statement twice, and the identifier of the
\* alternative: the same words, contributed again on the same revision with
\* another provenance, take it from the author who was kept under it first.
Seen(item) == item.since <= basis[item.until]
FellWith(item) ==
    \E cause \in Latest.items : cause.until = item.until /\ RestsOn(item, cause)
Reworded(item) == item.since = item.until
Recontributed(item) ==
    \E again \in Latest.items :
        /\ Keyed(again) = Keyed(item) /\ again.since = item.until
        /\ MadeUp(again, basis[item.until])
NothingUnseenIsSuperseded ==
    history # <<>> =>
      \A i \in Latest.items : i.until # 0 =>
          Seen(i) \/ FellWith(i) \/ Reworded(i) \/ Recontributed(i)

\* A stabilization binds what the human was shown: the revision it names is one
\* he confirmed, and after the second one neither statements nor evidence nor
\* decomposition change any more, whatever was submitted at the same time
\* (FramingService.stabilize, stabilizeFramingPlan).
Substance(plan) == <<plan.items, plan.probe, plan.split, plan.intent>>
BindsWhatWasShown(plan) ==
    /\ plan.intent # 0 => <<"intent", plan.intent>> \in confirmed
    /\ plan.grounded # 0 =>
         /\ <<"grounded", plan.grounded>> \in confirmed
         /\ Substance(plan) = Substance(history[plan.grounded])
ConfirmedIsShown == history # <<>> => BindsWhatWasShown(Latest)

\* What is published is a revision that was confirmed twice; a plan marked
\* published has its file, its marker and its index entries; and a journal that
\* says materialized has done all of that and left nothing staged, except for a
\* file whose removal failed when its commit was repeated, and that a failed look
\* at it puts the draft back to recovery_required (FramingService.publish,
\* FsProjectPublicationStore.publish, linkExclusive).
IsOutThere(r) == r \in planFiles /\ marker = "ours" /\ indexed /\ listed = r
PublishedIsConfirmed ==
    /\ \A r \in planFiles :
         r \in DOMAIN history /\ history[r].grounded # 0 /\ BindsWhatWasShown(history[r])
    /\ history # <<>> /\ Latest.publication # 0 => IsOutThere(Latest.publication)
    /\ publication.state = "materialized" =>
         /\ IsOutThere(publication.revision)
         /\ staged \subseteq leftover
         /\ draft = "materialized" \/ publication.failed

\* A marker of somebody else is never replaced, also when it appears between the
\* check of the root and the commit (assertPublicationRootAvailable, linkExclusive).
ForeignMarkerKept == [][marker = "foreign" => marker' = "foreign"]_vars

\* A publication that has begun ends: after a crash or a failed step at any point
\* Doctor can take it up, unless the directory has become another project
\* (FsProjectPublicationStore.recover, continuePublication).
PublicationCompletes ==
    publication.state # "none" ~> publication.state = "materialized" \/ marker = "foreign"
=============================================================================
