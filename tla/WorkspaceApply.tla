--------------------------- MODULE WorkspaceApply ---------------------------
(***************************************************************************)
(* The isolated workspace of a campaign and its application to the project *)
(* (src/src/adapters/outbound/filesystem/fs-orchestration-workspace.ts).   *)
(* apply() runs in the process of a command, under no lock: the user, who  *)
(* may also write to the mirror (as may an agent that 2.2 left running),   *)
(* another apply() and an abandon may act between any two of its steps,    *)
(* any file operation may fail, and the process may end.                   *)
(*                                                                         *)
(* Paths are ordered as the manifests sort them and hold plain files; a    *)
(* content stands for the bytes and the mode of a file.                    *)
(***************************************************************************)
EXTENDS Naturals, FiniteSets

CONSTANTS
    Path,       \* a set of integers: the paths a manifest lists, in order
    Scope,      \* campaign.scopePaths: the paths a change may name
    Content, NoFile,
    Short,      \* the contents of the smaller of two sizes
    Applier,    \* the processes of apply()
    MaxApplies, \* bound on the calls of apply()
    MaxEvents   \* bound on edits, failures, crashes and discards together

None == 0  \* no path

ASSUME ConstantsAssumption ==
    /\ Path \subseteq Nat \ {None} /\ Scope \subseteq Path
    /\ NoFile \notin Content /\ Short \subseteq Content
    /\ MaxApplies \in Nat /\ MaxEvents \in Nat

Tree == [Path -> Content \cup {NoFile}]

VARIABLES
    baseline,   \* baseline.json: the mirror as it was prepared
    mirror,     \* the files of the private copy
    project,    \* the files of the real project
    backup,     \* the files of the backup directory
    stray,      \* a temporary file of atomicCopy is left in the project
    prepared,   \* the workspace exists: it is not discarded
    confirmed,  \* the changes the user was shown last
    proc,       \* what each apply() is doing
    edited,     \* paths the user edited since the mirror was prepared (history)
    unseen,     \* edited while no apply() was past its check, and not put back (history)
    moved,      \* the mirror was written since the last check of it (history)
    disturbed,  \* another apply() or a discard ran within an application (history)
    applies, events

vars == <<baseline, mirror, project, backup, stray, prepared, confirmed, proc, edited,
          unseen, moved, disturbed, applies, events>>

Files == <<baseline, mirror, project, backup, stray, prepared>>
History == <<edited, unseen, moved, disturbed>>
Bounds == <<applies, events>>

-----------------------------------------------------------------------------
(* compare: the changes between two manifests *)

Size(c) == IF c \in Short THEN 1 ELSE 2
Created(before, after) == {p \in Path : before[p] = NoFile /\ after[p] # NoFile}
Deleted(before, after) == Created(after, before)

(* Each created file, in order, takes the first deleted file of the same    *)
(* content that no other took, and is renamed: the nth of a content that is *)
(* created takes the nth that is deleted.                                   *)
Renames(before, after) ==
    LET Earlier(files, side, p) == Cardinality({q \in files : q < p /\ side[q] = side[p]})
    IN {r \in Created(before, after) \X Deleted(before, after) :
           /\ before[r[2]] = after[r[1]]
           /\ Earlier(Created(before, after), after, r[1])
                = Earlier(Deleted(before, after), before, r[2])}

(* Mutant of Unlisted: a deleted file that any created file equals is taken *)
(* for the source of a rename.                                              *)
Unlisted_Twins(before, after) ==
    {d \in Deleted(before, after) : \E p \in Created(before, after) : before[d] = after[p]}

(* Deleted files that are the source of a rename are no change of their own. *)
Unlisted(before, after) == {r[2] : r \in Renames(before, after)}

(* The size of a deleted file is known from its path.                       *)
Changes(before, after) ==
    LET renames == Renames(before, after)
        Kind(p) == IF before[p] = NoFile THEN "created"
                   ELSE IF after[p] = NoFile THEN "deleted" ELSE "modified"
        Entry(p, kind, previous) ==
            [path |-> p, kind |-> kind, previous |-> previous,
             size |-> IF after[p] = NoFile THEN 0 ELSE Size(after[p])]
        others == {p \in Path : before[p] # after[p]}
                      \ (Unlisted(before, after) \cup {r[1] : r \in renames})
    IN {Entry(r[1], "renamed", r[2]) : r \in renames}
          \cup {Entry(p, Kind(p), None) : p \in others}

(* changePaths: the paths of changes, each with its place in their order.   *)
Places(changes) ==
    {<<2 * c.path, c.path>> : c \in changes}
        \cup {<<2 * c.path - 1, c.previous>> : c \in {d \in changes : d.kind = "renamed"}}
IsFirst(place, places) == \A other \in places : place[1] <= other[1]
IsLast(place, places) == \A other \in places : other[1] <= place[1]

(* Mutant of Conflict: only the presence and the size of the files count. *)
Conflict_BySize ==
    \E p \in Path : \/ (project[p] = NoFile) # (baseline[p] = NoFile)
                    \/ project[p] # NoFile /\ Size(project[p]) # Size(baseline[p])

(* firstManifestConflict *)
Conflict == stray \/ project # baseline

-----------------------------------------------------------------------------
(* Processes *)

Resting == [pc |-> "rest", changes |-> {}, applied |-> {}, todo |-> {},
            copied |-> None, broken |-> FALSE]

Init ==
    /\ baseline \in Tree /\ project = baseline
    /\ mirror \in Tree
    /\ backup = [p \in Path |-> NoFile] /\ stray = FALSE /\ prepared = TRUE
    /\ confirmed = Changes(baseline, mirror)
    /\ proc = [a \in Applier |-> Resting]
    /\ edited = {} /\ unseen = {} /\ moved = FALSE /\ disturbed = FALSE
    /\ applies = 0 /\ events = 0

At(a, label) == proc[a].pc = label
Holds(a, held) == proc' = [proc EXCEPT ![a] = held]
Goes(a, label) == Holds(a, [proc[a] EXCEPT !.pc = label])

(* From the check of the project on, apply() may change it. *)
Applying(a) == proc[a].pc \notin {"rest", "checkProject", "conflict", "applied", "refused"}

Ended(a) == proc[a].pc \in {"applied", "refused"}

Event == events < MaxEvents /\ events' = events + 1
OnlyProc == UNCHANGED <<Files, confirmed, History, Bounds>>
OnlyFiles == UNCHANGED <<confirmed, History, Bounds>>

-----------------------------------------------------------------------------
(* apply() *)

(* The changes are computed again and compared with what the user confirmed, *)
(* by a fingerprint that covers their paths, kinds and sizes.               *)
CheckMirror(a) ==
    /\ At(a, "rest") /\ applies < MaxApplies /\ applies' = applies + 1
    /\ IF prepared /\ Changes(baseline, mirror) = confirmed
          THEN Holds(a, [Resting EXCEPT !.pc = "checkProject", !.changes = confirmed])
          ELSE Goes(a, "conflict")
    /\ moved' = (moved /\ \E b \in Applier \ {a} : ~At(b, "rest"))
    /\ UNCHANGED <<Files, confirmed, edited, unseen, disturbed, events>>

(* Mutant of CheckProject: the old backup is removed before the check. *)
CheckProject_ClearsFirst(a) ==
    /\ At(a, "checkProject")
    /\ backup' = [p \in Path |-> NoFile]
    /\ IF Conflict THEN Goes(a, "conflict") /\ UNCHANGED <<unseen, disturbed>>
       ELSE /\ Goes(a, "clear") /\ unseen' = {p \in unseen : project[p] # baseline[p]}
            /\ disturbed' = (disturbed \/ \E b \in Applier : Applying(b) \/ Ended(b))
    /\ UNCHANGED <<baseline, mirror, project, stray, prepared, confirmed, edited, moved, Bounds>>

CheckProject(a) ==
    /\ At(a, "checkProject")
    /\ IF Conflict THEN Goes(a, "conflict") /\ UNCHANGED <<unseen, disturbed>>
       ELSE /\ Goes(a, "clear") /\ unseen' = {p \in unseen : project[p] # baseline[p]}
            /\ disturbed' = (disturbed \/ \E b \in Applier : Applying(b) \/ Ended(b))
    /\ UNCHANGED <<Files, confirmed, edited, moved, Bounds>>

ClearBackup(a) ==
    /\ At(a, "clear") /\ OnlyFiles
    /\ backup' = [p \in Path |-> NoFile]
    /\ Holds(a, [proc[a] EXCEPT !.pc = "backup", !.todo = Places(proc[a].changes)])
    /\ UNCHANGED <<baseline, mirror, project, stray, prepared>>

(* What is applied is to be undone.                                         *)
Rollback(a) == [proc[a] EXCEPT !.pc = "rollback", !.todo = Places(proc[a].applied)]

(* A backup is made once per path: another one in the way is an error.      *)
Backup(a) ==
    /\ At(a, "backup") /\ OnlyFiles
    /\ \/ proc[a].todo = {} /\ Goes(a, "change") /\ UNCHANGED backup
       \/ \E place \in proc[a].todo :
             /\ IsFirst(place, proc[a].todo)
             /\ LET p == place[2] IN
                IF project[p] # NoFile /\ backup[p] # NoFile
                   THEN Holds(a, Rollback(a)) /\ UNCHANGED backup
                   ELSE /\ backup' = [backup EXCEPT ![p] = IF project[p] = NoFile THEN @
                                                           ELSE project[p]]
                        /\ Holds(a, [proc[a] EXCEPT !.todo = @ \ {place}])
    /\ UNCHANGED <<baseline, mirror, project, stray, prepared>>

InScope(change) ==
    change.path \in Scope /\ (change.kind = "renamed" => change.previous \in Scope)

Coming(a) == proc[a].changes \ proc[a].applied

Counted(a, change) ==
    [proc[a] EXCEPT !.pc = "change", !.applied = @ \cup {change}, !.copied = None]

(* One change, in the order of their paths: a file is deleted, or copied    *)
(* from the mirror.                                                         *)
MakeChange(a, change) ==
    LET p == change.path
        source == IF change.kind = "deleted" THEN project[p] ELSE mirror[p]
    IN IF ~InScope(change) \/ source = NoFile
          THEN Holds(a, Rollback(a)) /\ UNCHANGED project
          ELSE /\ project' = [project EXCEPT ![p] =
                       IF change.kind = "deleted" THEN NoFile ELSE mirror[p]]
               /\ IF change.kind = "renamed"
                     THEN Holds(a, [proc[a] EXCEPT !.pc = "unlink", !.copied = p])
                     ELSE Holds(a, Counted(a, change))

Change(a) ==
    /\ At(a, "change") /\ OnlyFiles
    /\ \/ Coming(a) = {} /\ Goes(a, "validate") /\ UNCHANGED project
       \/ \E change \in Coming(a) :
             /\ \A other \in Coming(a) : change.path <= other.path
             /\ MakeChange(a, change)
    /\ UNCHANGED <<baseline, mirror, backup, stray, prepared>>

(* A rename ends with the removal of its previous path; only then does the  *)
(* change count as applied.                                                 *)
UnlinkPrevious(a) ==
    /\ At(a, "unlink") /\ OnlyFiles
    /\ UNCHANGED <<baseline, mirror, backup, stray, prepared>>
    /\ \E change \in Coming(a) :
          /\ change.kind = "renamed" /\ change.path = proc[a].copied
          /\ IF project[change.previous] = NoFile
                THEN Holds(a, Rollback(a)) /\ UNCHANGED project
                ELSE /\ project' = [project EXCEPT ![change.previous] = NoFile]
                     /\ Holds(a, Counted(a, change))

(* The validation inspects the feature in the project. *)
Validate(a) ==
    /\ At(a, "validate") /\ OnlyProc
    /\ Goes(a, "applied") \/ Holds(a, Rollback(a))

Fails(a) ==
    /\ proc[a].pc \in {"clear", "backup", "change", "unlink"} /\ Event
    /\ IF At(a, "clear") THEN Goes(a, "refused") ELSE Holds(a, Rollback(a))
    /\ UNCHANGED <<Files, confirmed, History, applies>>

(* Mutant of Restored: a path with no backup is left as it is. *)
Restored_Saved(p) == IF backup[p] # NoFile THEN backup[p] ELSE project[p]

(* What is not in the backup was created, and is removed. *)
Restored(p) == backup[p]

(* Backwards, the last change first.                                        *)
RollBack(a) ==
    /\ At(a, "rollback") /\ OnlyFiles
    /\ \/ proc[a].todo = {} /\ Goes(a, "refused") /\ UNCHANGED project
       \/ \E place \in proc[a].todo :
             /\ IsLast(place, proc[a].todo)
             /\ project' = [project EXCEPT ![place[2]] = Restored(place[2])]
             /\ Holds(a, [proc[a] EXCEPT !.todo = @ \ {place}])
    /\ UNCHANGED <<baseline, mirror, backup, stray, prepared>>

(* An error of the rollback replaces the first error and ends it.           *)
RollbackFails(a) ==
    /\ At(a, "rollback") /\ proc[a].todo # {} /\ Event
    /\ Holds(a, [proc[a] EXCEPT !.pc = "refused", !.broken = TRUE])
    /\ UNCHANGED <<Files, confirmed, History, applies>>

Return(a) ==
    /\ proc[a].pc \in {"conflict", "applied", "refused"} /\ OnlyProc
    /\ Holds(a, Resting)

(* The process ends; within atomicCopy it leaves its temporary file behind. *)
Crash(a) ==
    /\ Applying(a) /\ Event /\ Holds(a, Resting)
    /\ stray' \in {stray, stray \/ proc[a].pc \in {"change", "rollback"}}
    /\ UNCHANGED <<baseline, mirror, project, backup, prepared, confirmed, History, applies>>

Apply(a) ==
    \/ CheckMirror(a) \/ CheckProject(a) \/ ClearBackup(a) \/ Backup(a) \/ Change(a)
    \/ UnlinkPrevious(a) \/ Validate(a) \/ Fails(a) \/ RollBack(a) \/ RollbackFails(a)
    \/ Return(a) \/ Crash(a)

-----------------------------------------------------------------------------
(* The others *)

(* changes(), as it is shown to the user. *)
Show ==
    /\ prepared /\ confirmed' = Changes(baseline, mirror) /\ confirmed' # confirmed
    /\ UNCHANGED <<Files, proc, History, Bounds>>

EditProject ==
    /\ Event
    /\ \E p \in Path, c \in Content \cup {NoFile} :
          /\ c # project[p] /\ project' = [project EXCEPT ![p] = c]
          /\ edited' = edited \cup {p}
          /\ unseen' = IF \E a \in Applier : Applying(a) THEN unseen ELSE unseen \cup {p}
    /\ UNCHANGED <<baseline, mirror, backup, stray, prepared, confirmed, proc, moved,
                   disturbed, applies>>

EditMirror ==
    /\ prepared /\ Event /\ moved' = TRUE
    /\ \E p \in Path, c \in Content \cup {NoFile} :
          c # mirror[p] /\ mirror' = [mirror EXCEPT ![p] = c]
    /\ UNCHANGED <<baseline, project, backup, stray, prepared, confirmed, proc, edited,
                   unseen, disturbed, applies>>

(* discard removes the whole directory of the campaign. *)
Discard ==
    /\ prepared /\ Event /\ prepared' = FALSE
    /\ mirror' = [p \in Path |-> NoFile] /\ backup' = [p \in Path |-> NoFile]
    /\ moved' = TRUE
    /\ disturbed' = \/ disturbed \/ \E a \in Applier : Applying(a)
                    \/ \E p \in Path \ edited : project[p] # baseline[p]
    /\ UNCHANGED <<baseline, project, stray, confirmed, proc, edited, unseen, applies>>

Next == Show \/ EditProject \/ EditMirror \/ Discard \/ \E a \in Applier : Apply(a)

Spec == Init /\ [][Next]_vars

-----------------------------------------------------------------------------
(* Properties *)

Entries ==
    [path : Path, kind : {"created", "modified", "deleted"}, previous : {None}, size : Nat]
        \cup [path : Path, kind : {"renamed"}, previous : Path, size : Nat]
Labels == {"rest", "checkProject", "clear", "backup", "change", "unlink", "validate",
           "rollback", "conflict", "applied", "refused"}
Process ==
    [pc : Labels, changes : SUBSET Entries, applied : SUBSET Entries,
     todo : SUBSET (Nat \X Path), copied : Path \cup {None}, broken : BOOLEAN]

(* Every variable keeps its type, and what is applied is one of the changes. *)
TypeOK ==
    /\ baseline \in Tree /\ mirror \in Tree /\ project \in Tree /\ backup \in Tree
    /\ stray \in BOOLEAN /\ prepared \in BOOLEAN /\ moved \in BOOLEAN /\ disturbed \in BOOLEAN
    /\ edited \subseteq Path /\ unseen \subseteq Path
    /\ confirmed \subseteq Entries
    /\ proc \in [Applier -> Process]
    /\ \A a \in Applier : proc[a].applied \subseteq proc[a].changes

(* A refused application leaves every file as it found it, but for what the *)
(* user edited: unless the rollback failed too, another apply() or a discard *)
(* ran meanwhile, or the copy of a rename succeeded and the removal of its  *)
(* previous path did not (fs-orchestration-workspace.ts:91-98).            *)
RefusedIsUndone ==
    \A a \in Applier :
        At(a, "refused") /\ ~proc[a].broken /\ ~disturbed
            => \A p \in Path \ (edited \cup {proc[a].copied}) : project[p] = baseline[p]

(* What an application changed can be had back: as long as the workspace    *)
(* exists and no two applications overlapped, the file it replaced is in    *)
(* the backup, also after a crash and after later refused applications      *)
(* (fs-orchestration-workspace.ts:75-83).                                   *)
OriginalsKept ==
    ~disturbed => \A p \in Path \ edited : project[p] # baseline[p] => backup[p] = baseline[p]

(* After an application that succeeded the project is the mirror, whatever  *)
(* renames the comparison found: unless another apply() or a discard ran    *)
(* meanwhile or the mirror was written to, and but for what the user edited *)
(* (fs-orchestration-workspace.ts:167-190).                                 *)
AppliedIsMirror ==
    \A a \in Applier :
        At(a, "applied") /\ ~disturbed /\ ~moved
            => \A p \in Path \ edited : project[p] = mirror[p]

(* No application overwrites what the user did before it looked: a file     *)
(* edited while no application was past its check is changed by the user    *)
(* only (fs-orchestration-workspace.ts:75-77).                              *)
EditsSurvive ==
    [][proc' # proc =>
          \A p \in unseen : project'[p] = project[p] \/ p \notin unseen']_vars
=============================================================================
