# Formal models of arka-norn

TLA+ models of the parts of arka-norn whose correctness depends on the order of
steps: locks shared by processes, the automatic orchestrator and its durable
journals, the moment a candidate reaches the real project, what can still be done
to the campaigns of the frozen 2.2 engine, the framing of a project up to its publication, the managed Web
server, and the guidance that leads agents through the documents of a Feature. TLC checks the models on small instances; TLAPS proves the main results for every instance.
Paths below are relative to `src/`, the repository.

    tlc -config MCFileLock.cfg MCFileLock        # check a model
    tlapm FileLockProofs.tla                     # check the proofs of a module

## 1. Inventory of the system

arka-norn is a local tool: short-lived CLI and TUI processes, one optional web
server, and the workers they launch share the files of one home directory
(`~/.arka-norn`) and of the projects. There is no database and no network
protocol. What makes it hard is that any of these processes may run, end or
crash at any time, that every store operation is several system calls, and that
the orchestrator runs many of them concurrently in one event loop.

| Component | State | Operations | Interacts with | Hard parts | Correct when |
|---|---|---|---|---|---|
| File lock (`adapters/outbound/filesystem/_shared/file-lock.ts`) | lock file, `.reaper` file | acquire, release, reap, doctor repair | every store | processes end anywhere; check-then-act on paths | one holder; files removed by the right hand; requests end |
| Campaign runtime v2.3 (`composition/orchestration-v23-runtime.ts`) | sets of tasks, budget, abort signal | start, apply, status | journals, Git, workers | batches interleave; partial failures; abort racing a launch | dependencies first, journals agree, settles, candidate complete |
| Campaign journals (`fs-orchestration-event-store.ts`, `fs-orchestration-campaign-v23-store.ts`, `orchestration-event.ts`) | numbered events and attempts, indexes, artifacts | append, load, save | file lock | a failed append may be durable; revision races | contiguous, terminal attempts stay |
| Git workspace adapter (`git-workspace-adapter.ts`) | worktrees, branches, HEAD | worktree, commit, cherry-pick, fallback, fast-forward | the user's repository | conflicts; the user moves meanwhile | project moves only by a permitted fast-forward |
| Task worker adapter and runner (`mastra-*.ts`) | child process, timers | launch, cancel, answer | campaign runtime | timeout or abort racing the answer | answers once |
| Legacy orchestration 2.2 (`composition/orchestration-runtime*.ts`, `orchestration-campaign-runtime.ts`, `execution-record.ts`, `execution-registry.ts`, `orchestration-campaign.ts`) | campaigns and executions that 2.2 left | pause, cancel, abandon, apply; cancel, approve, retry of an execution; the rest is frozen | stores, isolated workspace | commands that act on what they read; two files, one update each | applied before completed, closed for good, withdrawn is stopped |
| Isolated workspace (`fs-orchestration-workspace.ts`) | mirror, baseline, backup | prepare, apply, rollback | real project | step fails half-way | all or nothing |
| Recovery quarantine (`fs-orchestration-recovery.ts`) | moved directories, receipt | quarantine, restore | all orchestration state | crash between moves | nothing lost |
| Framing (`framing-service.ts`, `fs-framing-store.ts`, `framing-plan.ts`) | plan revisions, events, pointer | delta, stabilize, publish | publication, probe | concurrent deltas; crash between writes | no lost update |
| Project drafts and publication (`fs-project-draft-store.ts`, `fs-project-publication-store.ts`) | drafts, publication journal | publish, recover | framing, project index | crash at each step | recovers to materialized or not at all |
| Web process manager (`web-process-manager.ts`) | server record, pid | start, stop, restart | web server | startup and stop timeouts, stale records | at most one server, record truthful |
| Web API, watcher, SSE (`adapters/inbound/web`, `application/web`) | clients, debounce timer | read, mutate, invalidate | stores | optimistic timestamps | no silent overwrite |
| Doctor (`application/doctor`, `fs-doctor.ts`) | plans with expiry | inspect, preview, apply | file lock, stores | plan older than the state | repairs what was previewed |
| Pipeline evaluation and guidance (`domain/pipeline`, `application/guided`) | the signed documents of a Feature | inspect, next | agents that write the documents | guidance read early and followed late; loops from review to development | silent only when complete, corrections closed, the loop ends |
| Risk, plan builder, mission planning | none | pure functions | campaigns | many cases | equals its definition |
| Agents, governance, projects, features, audit, onboarding, migrators, skills, localization, TUI, CLI | registries and markers | one locked write each | file lock | few | |

`PROJECT.json` lists every component with its files and status, and every hazard
with the line where it bites.

## 2. Plan

Order: the lock under everything, then the orchestrator that spends money and
moves the user's project, then what older campaigns, framing and publication do
with files.

| # | Module | Models | Abstract specification | Status |
|---|---|---|---|---|
| 1 | `FileLock`, `FileLockProofs` | lock, reaper, doctor repair | invariants as the contract | done |
| 2 | `CampaignJournal`, `CampaignRun`, `CampaignRunProofs` | start(), batches, budget, integration | invariants as the contract | done |
| 3 | `CampaignApply`, `CampaignOutcome`, `CampaignApplyProofs` | application of the candidate | `CampaignOutcome`, refined | done |
| 4 | `LegacyCampaign`, `LegacyCampaignProofs` | the commands still served on campaigns and executions of 2.2 | invariants as the contract | done |
| 5 | `WorkspaceApply`, `WorkspaceApplyProofs` | manifests, diff, backup, apply, rollback, crash | the mirror that is shown | done |
| 6 | `FramingPlan`, `FramingCycle`, `Framing`, `FramingProofs` | plan operations, revision journal, publication with recovery | `FramingCycle`, refined | done |
| 7 | `PipelineReport`, `Pipeline`, `PipelineProofs` | the report, agents that ask and write | invariants as the contract | done |
| 8 | `WebProcess`, `WebProcessProofs` | commands, servers and their record | invariants as the contract | done |
| 9 | `RecoveryQuarantine`, `DoctorRepair`, `EventJournal` | receipts; repair plans; the files of an append | | to do |

Composition: `CampaignRun` instantiates `CampaignJournal`; `CampaignApply` starts
where `CampaignRun` reaches phase `candidate` and implements `CampaignOutcome`;
`LegacyCampaign` takes the application of a workspace as the one step whose
inside `WorkspaceApply` models; `Framing` extends `FramingPlan` and implements
`FramingCycle`; `Pipeline` extends the functions of `PipelineReport`. The stores of 2 to 6 and the commands of 8 assume the exclusion that 1 states.

## 3. FileLock

A *caller* is one invocation of `withFileLock` or, in `Doctor`, of
`repairAbandonedFileLock`; its identity stands for the random token. `pc` says
which system call is next; two awaits are two steps. `owner`, `written`, `stale`
are the lock file (who created it, whether its JSON is complete, whether its
mtime is over 30 s old); `reaper` is the `.reaper` file; `alive` the processes.
Each action is one line of the code: `Create`/`Contend` the exclusive open,
`Write`/`WriteFails` writing and syncing, `ReleaseRead`/`ReleaseUnlink` the two
halves of the release, `ReapStat` … `ReapExit` the reaper. `Exit` ends a process
with its files left behind. `exitRaced` is a history variable: a process ended
while a reaper, having read its already released file, was about to probe it.

* `MCFileLock.cfg` (passes): three callers in three processes, one of them the
  doctor. Three is what the hard cases need: one leaves a lock, one reaps, one
  acquires meanwhile. `ExclusionUnlessExitRaced`, `RemovedRightfully`, and
  `RequestsSettle` under fairness.
* `MCFileLock_exclusion.cfg` (violated): exclusion without the exception.
  The reaper reads the file of p, p releases it and ends, another caller
  acquires, the reaper finds p dead and unlinks the new file.
* `MCFileLock_recovery.cfg` (violated): a process that dies holding `.reaper`
  disables recovery of that lock for good.

Fairness: a running process executes its ready callbacks and the operation under
the lock returns (WF of `Step`); a file ages (WF of `Age`); a caller that polls
again and again finds its timeout elapsed (SF of `GiveUp`: the deadline is wall
clock time, and the code looks at it in every round that removed nothing). No
process has to start or to end.

Left out: reuse of a pid by another process, a stat or unlink that fails for
another reason than absence, and Windows' transient EPERM, which the code treats
as contention. The processes share one pid namespace, as the code assumes.

*Proved* (`FileLockProofs`, any number of callers and processes): type
correctness, `OneReaper` (one reaper decides about a file at a time, which no run
checks by itself), `ExclusionUnlessExitRaced`, `RemovedRightfully`. None
is inductive alone. The invariant `IInv` adds: who created the lock file is at a
step that explains it (`OwnerPlace`), a reaper between its read and its exit has
read somebody (`SeenPlace`), a running holder's file is on disk and complete
(`HolderOwns`), and what a reaper has condemned is still the file it read, of a
dead process (`VerdictHolds`) — the last two while `exitRaced` is false.
`Shape` (types, places, one reaper) is proved first because every later step
uses it. The only assumption is `CallerAssumption`. Proved together, theorem and
violated run say that the race at line 108 is the *only* way to lose exclusion.

## 4. CampaignJournal and CampaignRun

One call of `start()` in one Node process. `phase` is where the coordinator is
(`start`, `runCampaign`, `resolveIntegration`), `tpc[t]` where `executeTask` of
task t is; the tasks of a batch interleave at every await. `pending`,
`completed`, `failures` and `batch` are the code's sets; `hardStop` is the abort
signal and `used` the budget totals. `attempt` and `journal` are the two durable
journals, kept as the last revision per task and as the projection that
`status()` shows; `CampaignJournal` holds the fold and the transition rule.
`poisoned` records that the event writer's promise chain holds a rejection: every
later emit is then rejected. A store or Git operation may fail, before or after
it took effect, at most `MaxFaults` times. Workers answer anything their port
allows, with usage 0 .. `MaxUse`.

Correspondence: the actions of `TaskStep` are the awaits of `executeTask` in
order (`Refuse`, `Allocate`, `Prepare`, `EmitPrepared`, `Begin`, `EmitStarted`,
`WorkerReturns`/`WorkerThrows`, `CloseAttempt`, `Report`, `CommitTask`,
`Succeed`, `EmitSucceeded`, and `CatchAppend`, `CatchEmit` of the catch clause);
those of `Coordinate` are the loop and the integration.

* `MCCampaignRun.cfg` (passes): tasks c→b→a and d, listed c, b, a, d, so that the
  forward pass over the plan meets dependents before their dependencies; all
  budget modes, parallelism 1 and 2, with and without commit authority, one
  limited profile for all roles with limit 1, `MaxUse` = 1, `MaxFaults` = 2. Two
  workers and a limit of one are the smallest instance with an overshoot; a chain
  of three with a free task the smallest with a blocked dependent of a blocked
  task beside running work; two faults are one in each journal. Checked:
  `DependenciesFirst`, `EventsFollowAttempts`, `TerminalAttemptsStay`,
  `OvershootIsOneBatch`, `CandidateIsComplete`, `ReturnedMeansSettled`, and `StartSettles` under fairness.
* `MCCampaignRun_hardstop.cfg` (violated): the worker adapter starts to listen for
  the abort after it launched the worker and never looks whether it has already
  happened.
* `MCCampaignRun_order.cfg` (violated): commits are integrated in plan order, not
  in DAG order.

Fairness: the event loop runs every continuation, the stores and Git answer, and
the runner ends a worker after its timeout of one hour (WF of the coordinator and
of each task). Weak fairness is enough because nothing disables a ready
continuation.

Proved (`CampaignRunProofs`), for every plan, authorization, limit and number of
failures: every safety property of `MCCampaignRun.cfg`. The invariant `IInv`
relates the four places where the code keeps a task: `Placed` says which of the
coordinator's sets it is in by where `executeTask` is (a task that left `idle` has
its dependencies in `completed`, one that steps is in the batch), `Records` what
both journals say of it at each await, `ResolverRecorded` the same of the
integration task by the coordinator's phase, `Ends` that only a lost event
explains a rejection that leaves a batch behind. `Budgeted` strengthens
`OvershootIsOneBatch` by the use that live executions may still report: a batch is
admitted below the limit or refused as a whole, it has at most `parallel` members
(an injection of the selected tasks into 0 .. parallel - 1), and each report
spends the room of its own execution. `Covered` says that a pick loses no commit.
The assumptions are `PlanAssumption` (what `validateCampaignPlan` accepts) and
`AuthorizationAssumption`. No safety property needs an acyclic plan; `StartSettles`
is checked on the chain only.

Abstractions. Workspaces are allocated one after the other before the batch
starts; since nothing else of the campaign runs meanwhile, an allocation shows
its outcome where `executeTask` awaits it. An emit is one step: the chain of the
event writer keeps their order. `Picks` lets any pick but the first conflict,
although scopes of independent tasks are disjoint. Unreachable branches (a
missing prepared profile, a candidate still conflicted after the fallback, a
fallback without a commit) are left out. Several metrics of one profile behave
like one. A worker's own files are not modelled; that every worktree starts at the
snapshot, without the commits of its dependencies, is visible in `Allocate` having
no other input.

## 5. CampaignApply and CampaignOutcome

From the integrated candidate on: gate, fast-forward, `result.json` and the last
event of `start()`; any number of `apply()` calls in other processes; a user who
commits, checks out or edits in the same repository; crashes. `cand` is what the
gate looks at, `head` and `dirty` the real project, `merged` whether it ever
received the candidate, `result` and `application` the two artifacts (written
exclusively), `revision` and `status` the event journal and its projection, and
`known` the revision each event writer counts on. A `result` or `application`
artifact and a journal entry may be durable although the call that wrote it
failed; `faulty` remembers that something failed.

`CampaignOutcome` is the promise: the project moves only when Norn may do so by
itself or a person confirmed the candidate, and completion is shown only if it
moved. `KeepsPromise` maps a confirmation to an `apply()` call past `idle`.

* `MCCampaignApply.cfg` (passes): `start()` and two `apply()` calls, which is
  what the races need (two for the artifact, one more for the revision); every
  candidate; no bound, because no step repeats except the user's, which are
  finite-state. `AppliedOnce`, `AutoApplicationRecorded`, `ApplicationShown`,
  `CompletedIsFinal`, `KeepsPromise`.

`ApplicationShown` names the one case in which a kept artifact is not shown as
completed: `apply()` read the journal before `start()` appended its last event.
`AutoApplicationRecorded` and `CompletedIsFinal` are conditional on no failed
operation: a failure of `saveResult` after the merge, or of the final reading,
really does leave a moved project shown as blocked.

*Proved* (`CampaignApplyProofs`, any set of appliers): `TypeOK` and all five properties of the
run, the refinement included. The invariant `IInv` relates each `pc` to the
artifact it must have written, `applied` to `merged`, and the revision each writer
knows to the journal and to who may still append. `OutcomeStep` shows that every
step maps to a step of `CampaignOutcome` or to a stutter; `ConfirmedStays` is the
lemma that the mapped confirmation never goes back. The only assumption is
`ApplierAssumption`.

Left out: a wrong confirmation fingerprint and a missing plan (they throw before
anything is read that changes), the value read by the last `rev-parse`, and
`merge --ff-only` of the branch rather than of the recorded commit, which nothing
in arka-norn moves.

## 6. LegacyCampaign

The campaigns and executions that Norn 2.2 left behind. Its engine is frozen: the
worker that is launched for an execution throws before it reads anything
(`orchestration-cli.ts:85-87`), and to create, continue, resume, decide or retry a
campaign the runtime asks for automatic mode (`orchestration-runtime.ts:171`,
`orchestration-campaign-runtime.ts:160`), in which the CLI refuses to
(`orchestration-cli.ts:93-95`, `:127`). None of that is modelled. In a Project in
manual mode without a 2.3 configuration the other commands are served, `apply` in
every mode: pause, cancel, abandon and apply of a campaign; cancel, approve and
retry of an execution.

Each command is a process (`Caller`). They meet in two files, `status`
(`campaigns.json`) and `record` (`executions.json`); `kept` are the campaigns whose
mirror exists, `applied` those whose changes have reached the project. One update
of one file is one step, under its lock, and judges what it finds there; `proc[p]`
is what a process holds from before. `Turn`, `StopMission`, `StopRecord` are
`pause` and `cancelCampaign`; `Discard`, `Abandon` are `abandon`; `OpenMirror`,
`ApplyMirror`, `Complete` are `apply`, whose inside `WorkspaceApply` models;
`Recover`, `Check`, `CancelRecord`, `Replan`, `Launch` are the commands on an
execution, which first write what they judged stale. Any subset of the active
records may be past the stale window, which stands for the heartbeats. `EndsEarly`
is a process that ends or a step that throws.

* `MCLegacyCampaign.cfg` (passes, some 1.1 million states): two callers, one
  campaign in any status with two missions, one execution outside any, five ways
  2.2 may have left the three, four commands and ends of a process together. Two
  missions are what the stop of the wrong one needs; two callers what an overtaken
  application needs; four commands what two overlapping pairs need.
  `CompletedIsApplied`, `AppliedIsRecorded`, `WithdrawnIsStopped`, `ClosedForGood`,
  `PlannedOutsideCampaigns`.

Exceptions named by the properties. `cut`: a process that ends between two of its
updates leaves a campaign half way; for `apply` nothing on disk says that the
changes are in the project, and the next one finds it changed. `overtaken`:
`abandon`, `cancel` and `pause` compare the revision only with what they read
(`orchestration-runtime.ts:318-327`), so they may close a campaign whose changes
are being copied; its completion is then refused, but the project has them, and
`abandon` has removed their backup. `crowded`: a mission that another command
plans again between the turn of a campaign and the reading of the registry is the
one that is stopped, if it comes first.

What else is so: since a worker always throws, an execution that is approved or
retried stays planned until the next such command finds it stale, or for good;
`abandon` leaves an active mission as it is; nothing calls `cleanupExpired`, so the
mirror of a cancelled campaign stays, although `docs/cli.md:86` speaks of seven days.

*Proved* (`LegacyCampaignProofs`, any callers, campaigns and executions): the five
properties of the run, from `ConstantsAssumption` alone. A command acts on what it
read some steps before, so `IInv` says what of that is still true: a campaign whose
changes are being applied still waits for them or was withdrawn meanwhile, and one
about to be completed has them applied (`Awaited`); the campaign of an execution
about to be planned again is closed (`Released`), and closed campaigns stay closed;
the mission about to be stopped is the one that was started (`Aimed`), because
nothing starts any more and a mission planned before it has left its mark
(`Marked`). Each action is shown to keep a contract of four parts: what it does to
the campaigns (`Settles`), to the executions (`Records`), to its own process
(`Proceeds`), and whom it leaves half way (`Finishes`). From the contract, once,
follow the invariant and the two action properties.

## 7. WorkspaceApply

`apply()` of an isolated workspace, which holds no lock. `baseline` is
`baseline.json`, `mirror` the private copy, `project` and `backup` the files of
the real project and of the backup directory: functions from a set of numbers, the
paths in their order, to contents. `Changes` is `compare` with its rename detection:
a set of entries that the steps take in the order of their paths, where the nth
created file of a content takes the nth deleted one (`Renames`), as the loop that
consumes the first match does; `Places` is `changePaths`. Every file
operation of `apply()` is a step (`CheckMirror`, `CheckProject`, `ClearBackup`,
`Backup`, `Change`, `UnlinkPrevious`, `Validate`, `RollBack`) that may fail or be
the last one of its process; `EditProject`, `EditMirror`, `Discard` and a second
`apply()` act between any two of them, and `Show` is the comparison the user is
shown and confirms.

* `MCWorkspaceApply.cfg` (passes, 1.7 million states): three paths, two contents
  of one size, any project of two files and any mirror, two appliers, two calls,
  one event. Three paths are what a rename beside another change needs; contents
  of one size what the unseen edit of a mirror needs; two calls with an event
  between them are a crash followed by a second application.
  `RefusedIsUndone`, `OriginalsKept`, `AppliedIsMirror`, `EditsSurvive`.

Exceptions named by the properties: `copied` (the copy of a rename whose second
half fails is not rolled back, `fs-orchestration-workspace.ts:91-94`, although
`docs/security.md:22` says that the application "rolls back from private backups
on failure"), `disturbed` (two overlapping applications
share one backup directory, and a discard empties it, so that a rollback then
deletes files), `moved` (the confirmed changes cover paths, kinds and sizes, not
contents: a mirror edited to the same size goes unnoticed, `docs/cli.md:86`),
`broken` (a rollback that fails ends). A crash leaves a partial project and
perhaps a temporary file; every later application is then refused as a conflict,
which keeps the backup: `OriginalsKept`.

*Proved* (`WorkspaceApplyProofs`, any paths, scope, contents and number of
appliers): `TypeOK` and the four properties above. What an application leaves is
right when it has ended; the inductive invariant `IInv` says how far it is until
then. `Work(a)` says that a path the user did not touch differs from the baseline
only if it is among the applied changes or is the copy just made, that its backup
is its baseline, and that a rollback still has every such path to do;
`Progress(a)` that what is changed is as in the mirror, because a deleted path or
the source of a rename is not in it (`ChangesLead`), and that a path in no change
is the same in both trees (`ChangesCover`). `Work` is assumed only without
`disturbed`, when one application at most is busy (`Alone`), and `Progress` only
without `moved`, when the changes are still those of the mirror (`Mirrored`).
`ConstantsAssumption` says that paths are positive numbers, 0 being no path.

Left out: paths are flat (no file becomes a directory), snapshot and restore of
the direct mode, and the clean-up of expired workspaces.

## 8. FramingPlan, FramingCycle and Framing

The framing of one Project whose draft exists. `FramingPlan` has the plan as a
value: items with their dependencies (`kind` stands for the section), the probe,
the decomposition, two stabilizations and the publication; what a delta does to
it with the cascade of a supersession; and the rebasing of a delta written on an
older revision. `FramingCycle` is the promise: a journal of revisions that grows
in single steps, each the last revision with one contribution, confirmation or
publication on it. `Framing` is the code: a process reads, computes, and then
takes the lock, compares and writes three files (`SaveRevision`, `SaveEvent`,
`SavePointer`), or meets a conflict and merges again (`SaveConflict`, `Merge`).
`history`, `events`, `pointer` are those files; `publication` is
`publication.json` with its six states, `draft` the materialization, `staged`,
`planFiles`, `marker`, `listed`, `indexed` what a publication leaves in the
project and the home; `proc` holds what each process has read. `TakeJournal`,
`Resume`, `Effect`, `Commit`, `IndexProject`, `Turn` are
`FsProjectPublicationStore.publish` with an effect and a transition per state. A
commit links its staged file (`CommitPlan`, `CommitMarker`) and then removes it
(`UnlinkStaged`); one that is repeated finds its destination there and removes what
is still staged (`Tidies`), unheard when that fails. `Recover` is Doctor's. A crash, a
failing step (`Fault`), another project's marker and a moving repository come
between any two steps. `basis` and `confirmed` are history variables: what the
author of a revision had read, and what a person confirmed.

* `MCFraming.cfg` (passes, some 690,000 states): two processes, two attempts of a
  merge instead of five, and one crash. The journal starts in one of two ways.
  `Contributing`: empty, or with one delta saved; then two deltas from two
  statements of one premise, one of them from either of two sources, a conclusion
  resting on it and the technical answer, each written on any revision so far. A
  delta and a stale one on top of a saved one are what an overwrite needs.
  `Confirming`: as four saves leave it before the second stabilization; then two
  calls of `publish()`, one fault or foreign marker and one move of the repository.
  The two starts share the actions of stabilizing and saving; each spends the
  bounds of the other's subject, because their product says nothing more (a
  grounded plan accepts no delta) and is too large. `TypeOK`,
  `NothingUnseenIsSuperseded`, `ConfirmedIsShown`, `PublishedIsConfirmed`,
  `ForeignMarkerKept`; `JournalIsAtomic`: `Framing` implements `FramingCycle`, whose
  journal may start with any revisions that follow each other; and
  `PublicationCompletes` under fairness.

*Proved* (`FramingProofs`, any processes, deltas within the contract, snapshots and
bounds; from `FramingAssumption` and `DeltasAssumption`, the part of
`assertPlanDeltaContract` that the rebase relies on): all of these but
`PublicationCompletes`. A process computes the next revision long before it saves
it, so the inductive invariant `IInv` says what that revision is worth meanwhile:
it follows from the revisions its author had read (`Ready`), and a delta still to be
merged was written on one of them (`Written`). `save` finds that what was read is
all there is, or refuses; so each save appends a revision that follows from the
journal, which is the refinement step (`JournalImplementsCycle`). `Journal` says of
every revision what the properties say of the last one, and that at most one can
ever be published: two publishers, or one of them and Doctor, work for the same
revision (`OnePublishable`). `Effects` says what each state of `publication.json`
stands for, and `Publishing` what the process that holds its lock has done beyond
it. `NothingUnseenIsSuperseded` needs a second invariant, `Attribution`: where the
statements of a plan that is not saved yet are from. It rests on what one delta
does to the items of a plan (`Evolves`: none is lost, none ends without an excuse),
shown for each operation and, by induction over the operations, for a delta; a
rebase leaves operations on keys that nobody touched and operations that make up
an identifier (`RebasedFits`), and what a supersession takes along has a cause
among what falls (`FallsWithCause`).

Fairness: a running publication goes on (WF of `StepOfPublication` of each
process, which is all that the property needs), and Doctor is run as long as it has
something to recover (WF of `Recover`): nothing in the code runs it by itself, so
`PublicationCompletes` says that it can always be completed by that command, not
that it completes unasked.

What the checks found to be so, and the properties except or include:

* A supersession of an older revision cascades to a dependent that somebody else
  changed since (`FellWith`), although the dependent itself was not seen.
* A delta that is sent twice contradicts itself: it is kept as an alternative.
* The alternative's identifier is made of the statement, not of its provenance
  (`framing-service.ts:474-475`): the same words from another source, contributed
  again on the same old revision, overwrite the alternative that was kept
  (`Recontributed`).
* A delta that words one statement twice keeps the last wording (`Reworded`).
* A crash between revision and event leaves that revision without an event; the
  pointer catches up with the next save. Only the numbering of events reads either
  of them.
* A failing look at a publication that is already materialized puts its draft
  back to `recovery_required`, and nothing repairs that, because `inspect` finds
  the publication healthy (`publication.failed` in `PublishedIsConfirmed`).
* A commit that is repeated after a crash or a failure swallows a failed removal of
  its staged file (`fs-project-publication-store.ts:350`): a publication may be
  materialized with that file left in `.arka-norn/.staging`, which nothing removes.
  `PublishedIsConfirmed` allows this one only (`leftover`).
* A publication repeated by the service after a crash just behind
  `projectIndex.upsert` goes the direct way and leaves journal and draft
  unfinished until Doctor is run.
* When the repository moves after the second stabilization, publication is
  refused "until a new confrontation is stabilized" (`framing-service.ts:219`),
  but the grounded plan accepts neither a delta nor a stabilization, and `enter()`
  resumes the same plan.

Left out: framings of features (their materialization after publication), derived
state and resume packets, repositories that are empty or indeterminate, a project
root that moves, a published marker that a later edit of the project rewrites
(a recovery would then take it for another one's). A
crashed process's lock counts as released; `FileLock` says when it is. A delta
that throws has no effect and no action.

## 9. WebProcess

`web start`, `stop`, `restart`, `status` and the foreground server. `cmd[m]` says
what the command of process m does, how far it is and which server it is about;
`lock` is the lock of the record, `record` the server that `server.json` names,
`server[s]` where the process with pid s is: booting, listening, saved (in the
record), serving (signals are handled), asked, closing, closed, unlinking,
lingering, exited, killed, or its pid reused by a process that is not Norn's.
`Acquire` … `Return` are `withFileLock` around a command; `Load`, `Probe`,
`CheckAlive`, `RemoveLoad`, `RemoveUnlink` the awaits of `inspectUnlocked`;
`Spawn` to `StartFails` those of `startUnlocked`, `StopRunning` to `StopTimesOut`
those of `stopRunning`; `Boot` to `Exit` those of `serve()` with the shutdown it
installs last. A signal before that kills, the first one after it asks, and a
second one kills. Answers may come too late, commands and servers end anywhere,
users send signals.

* `MCWebProcess.cfg` (passes, some 354,000 states): two processes, three commands,
  three servers, two events (a failure, a late answer, a kill, a signal, a reused
  pid). A second server needs two commands, a late answer and a third process
  that could be started; a foreign process signalled needs a death and a reuse
  between a check and its signal. `OneRecordedServer`, `ForeignUnhurt`, and
  `ShutdownForgets` under fairness.

Fairness: a server goes on with what it began (WF of `Serve` for each server). No
command has to go on.

Exceptions named by the properties. `orphaned`: a starter that ends, or whose
reading of the record fails, between the spawn and the answer leaves a detached
child nobody waits for; until that child saves its record a second `web start`
finds none and makes a second server, which `docs/architecture.md:16` ("single
managed process") does not foresee. `raced`: `process.kill` acts on a number.
`unforgotten`: a server whose removal of its record fails only logs it
(`web-process-manager.ts:101-105`) and ends, so that its record outlives it; the
next command finds a pid that is dead or another's and removes the record. A
removal by a command may fail as well, which ends the command.

*Proved* (`WebProcessProofs`, any sets of commands and servers): `TypeOK`,
`OneRecordedServer`, `ForeignUnhurt`. The invariant relates each server that is
up to the command that must be attending it or to the record (`Attended`,
`Recorded`), what a command has verified to what it does next (`Known`,
`Inspected`, `Stopped`), and says that a pid a command may signal without its
check is its server's unless it `raced` (`PidsKnown`). `ConstantsAssumption` is
the only assumption.

Left out: ports and tokens, the log files, and Windows, where signals differ. The
lock of a starter that ended can be reaped only after its stale time.

## 10. PipelineReport and Pipeline

`PipelineReport` is `evaluatePipeline` as functions of the documents: the latest
run, the four business policies, the errors, the completed steps, and the first
action, which is all that `next` shows. A document is named by its position, which
also breaks ties as `created_at` and `id` do. `Completed` is defined as the largest
set of steps that holds up by itself; the loop of the code computes it in order,
because `createPipelineDefinition` only accepts dependencies on earlier steps.
`Pipeline` adds the agents. `Ask` is `arka-norn fastdev next`: the agent keeps the
action and how many documents it had seen. `Write`, `WritePoorly` and `Fix` come
any time later, when others have written too. `docs` are the files, `report` what
`inspect()` returns for them. `Draft` is the document of a careful agent;
`Adverse` a verdict that is not a pass, `Careless` a mistake: a correction, a
reference or the target left out or naming a document that does not exist (yet), a
sequence left as the scaffold has it, a document its schema rejects.

* `MCPipeline.cfg` (passes, 266,000 states): the FastDev pipeline as
  `pipelines/arka-norn-fastdev.json` defines it; two agents, one of which goes on
  for ever and one asks once; two findings, two setbacks, eleven documents. Two
  agents are what a late document needs, two setbacks a failed review during a
  correction. Eleven documents are enough: a behaviour that this bound stopped before
  its Feature is complete would violate `GuidanceConverges`, as with ten it does.
  `StopsOnlyWhenComplete`, `DemandsSettled`, `DeliveryReopens`,
  `LateReviewIgnored`, and under fairness `GuidanceConverges`.

Fairness: an agent that is free asks, if there is anything to ask, and gets done
what it was told (WF of `Ask` and `Finish`): nothing in the code forces it, so
`GuidanceConverges` is about agents that follow the guidance.

What the properties except or include:

* `GuidanceConverges` excepts references that are broken for good: no guidance
  asks for their repair, and `next` even reports the phase as completed while the
  report is invalid (`guided-next.ts:41`, which looks at actions only; its exit
  code tells). It also excepts an audit with the verdict `blocked`: the report that
  follows it up depends on it and is therefore taken as judged by it
  (`evaluate-business-policy.ts:131-134`, `:162-168`), so `next` asks for another
  report for ever and never for another audit. No document says which of the two
  an agent should write, hence no finding.
* `DemandsSettled` lets a newer audit take the place of an older one whose findings
  nobody closed: only the latest audit that counts is compared with the report.

*Proved* (`PipelineProofs`, any pipeline definition, number of agents, documents
and mistakes): `TypeOK`, `StopsOnlyWhenComplete`, `DemandsSettled`, `DeliveryReopens`
and `LateReviewIgnored`. The report is a function of the documents (`report =
Evaluate(docs)` is part of the invariant), so the first two are facts of
`Evaluate`: of the required steps that are not completed, the first in order has
completed dependencies and would ask; and what counts for the latest report has
passed, has been corrected by it, or is replaced by a newer one. `DeliveryReopens`
is about two states: a review of the new report would name a document that did not
exist before, and the errors then make the earlier report not completed.
`DefinitionAssumption` is what `createPipelineDefinition` accepts;
`PolicyAssumption` is what the definitions in `pipelines/` add and the code does
not check: a step with a policy can be passed, corrections are no pass, and a step
reviews a required step it depends on. `LateReviewIgnored` is about two states too:
the late document is no review of the latest report and is not among what that
report follows up, so every step says after it what it said before. That rests on
`AncestorsAreAll`: as many rounds of references as there are documents find the
least set closed under them, so that one round more, which one document more
brings, finds nothing new. It also needs `ReviewAssumption`, which the
definitions in `pipelines/` satisfy and the code does not check either: steps that
review are required, and none reviews a review. Otherwise the late review could
itself be what a later step has to judge. `GuidanceConverges` is only model-checked.

Left out: the author registry, documents without an id or with somebody else's,
transversal and unknown documents, versions of the document contract, the action
kinds of a QA review, the parsing of timestamps, and `delivery_audit_id`.

## 11. What is only model-checked, and what is not modelled

Liveness (`RequestsSettle`, `StartSettles`, `PublicationCompletes`,
`ShutdownForgets`, `GuidanceConverges`) stays with TLC: fairness and ENABLED are
beyond the prover. Every other property of a passing run is a theorem. The types of
every module are proved; only `Framing`'s run also checks them.
Recursive functions over a finite domain are proved about by a least
counterexample (`LeastNumber`, `Counting`): that a run of the recursion exists,
and what holds of its last value. RECURSIVE operators are in no module that a
theorem reaches. Deliberate bounds: `MaxFaults` and `MaxUse` of `CampaignRun`,
`MaxCommands` of `LegacyCampaign`,
`MaxApplies` and `MaxEvents` of `WorkspaceApply`, `MaxCommands` and `MaxEvents` of
`WebProcess`, `MaxDocuments`, `MaxSetbacks` and `MaxVisits` of `Pipeline`, the five
`Max` constants of `Framing`, and the sizes of the instances; `FileLock` and `CampaignApply` need none.

Every run disables the deadlock check because its system really stops: callers
and processes end, `start()`, `apply()` and `publish()` return, and the bounds
stop the rest.

Not modelled, and why: see `components` in `PROJECT.json`. In short, row 9
of the plan is still to come; presentation, argument parsing, localization,
skills, audit collection and migrators are sequential I/O or pure formatting; the
crash of a v2.3 campaign is not followed by any recovery in the code (the
authorization is written exclusively and `start()` refuses to run twice), so
there is nothing to check beyond `CampaignApply`'s crashes. Most lines of the
repository are views, messages in two languages, validation of file formats and
command parsing, with no state that steps could get wrong; the models cover the
part where order matters.

## 12. Disagreements found

1. The lock's reaper may remove a fresh lock (`file-lock.ts:108`).
2. A leftover `.reaper` file disables recovery of an abandoned lock
   (`file-lock.ts:99`).
3. A hard stop does not reach a worker launched after it
   (`mastra-task-worker-adapter.ts:44`), against
   `docs/automatic-orchestration.md:78`.
4. Commits are not integrated in DAG order (`orchestration-v23-runtime.ts:223`),
   against `docs/automatic-orchestration.md:85`.

A run shows each of these. Three more are exceptions that properties of passing runs
name: a failed application of an isolated workspace is not always rolled back
(`fs-orchestration-workspace.ts:94`, section 7); a `web start` that ends early
may leave a server that the next one does not find
(`web-process-manager.ts:141-153`, section 9); and a statement kept as an
alternative may be overwritten by the same words from another source
(`framing-service.ts:474-475`, section 8), although "a stale mutation of the same
semantic key is never last-write-wins" (`docs/norn-framing-contract-proposal.md:108`).
And one is plain from the actions of a model: the changes of a 2.2 campaign can still
be applied to the project (`orchestration-runtime.ts:290`, section 6), although
"Legacy 2.2 campaigns are inspection-only" (`README.md:22`); `docs/cli.md:79` lists
the command.
