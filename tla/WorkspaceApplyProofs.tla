------------------------ MODULE WorkspaceApplyProofs ------------------------
(***************************************************************************)
(* What TLAPS proves of WorkspaceApply, for any paths, contents, scope and *)
(* number of appliers.                                                     *)
(*                                                                         *)
(* What an application leaves behind is right when it has ended; until     *)
(* then it is right up to what is still to be done.  The inductive         *)
(* invariant says what that is at each step: which paths may differ from   *)
(* the baseline, which of them are in the backup (Work), and which are     *)
(* already as in the mirror (Progress).                                    *)
(***************************************************************************)
EXTENDS WorkspaceApply, TLAPS

Untouched == Path \ edited
In(places) == {place[2] : place \in places}
PathsIn(changes) == In(Places(changes))
Busy(a) == Applying(a) \/ Ended(a)
Changing(a) == proc[a].pc \in {"change", "unlink", "validate"}
Changed(a) == PathsIn(proc[a].applied) \cup {proc[a].copied}

(* Nothing is unseen while an application goes on. *)
Looked == \A a \in Applier : Applying(a) => unseen = {}

(* Nothing was done before the first change. *)
Fresh ==
    \A a \in Applier : proc[a].pc \in {"checkProject", "clear", "backup"}
        => proc[a].applied = {} /\ proc[a].copied = None

(* The changes are still those of the mirror. *)
Mirrored ==
    \A a \in Applier : Busy(a) \/ At(a, "checkProject")
        => proc[a].changes = Changes(baseline, mirror)

Alone == \A a, b \in Applier : Busy(a) /\ Busy(b) => a = b

Work(a) ==
    /\ proc[a].pc \in {"clear", "backup"} => \A p \in Untouched : project[p] = baseline[p]
    /\ At(a, "backup") =>
          /\ \A p \in Untouched : backup[p] \in {NoFile, baseline[p]}
          /\ \A p \in Untouched \cap PathsIn(proc[a].changes) :
                p \in In(proc[a].todo) \/ backup[p] = baseline[p]
    /\ Changing(a) =>
          /\ \A p \in Untouched \cap PathsIn(proc[a].changes) : backup[p] = baseline[p]
          /\ \A p \in Untouched : project[p] # baseline[p] => p \in Changed(a)
          /\ proc[a].copied \in PathsIn(proc[a].changes) \cup {None}
          /\ ~At(a, "unlink") => proc[a].copied = None
    /\ At(a, "rollback") =>
          /\ \A p \in Untouched \cap In(proc[a].todo) : backup[p] = baseline[p]
          /\ \A p \in Untouched :
                project[p] # baseline[p] => p \in In(proc[a].todo) \cup {proc[a].copied}
    /\ At(a, "refused") /\ ~proc[a].broken =>
          \A p \in Untouched \ {proc[a].copied} : project[p] = baseline[p]

Kept == \A p \in Untouched : project[p] # baseline[p] => backup[p] = baseline[p]

Progress(a) ==
    /\ Changing(a) => \A p \in Untouched \cap Changed(a) : project[p] = mirror[p]
    /\ At(a, "validate") => proc[a].applied = proc[a].changes
    /\ At(a, "applied") => \A p \in Untouched : project[p] = mirror[p]

IInv ==
    /\ TypeOK
    /\ Looked /\ Fresh
    /\ ~moved => Mirrored
    /\ ~disturbed => Alone /\ Kept /\ \A a \in Applier : Work(a)
    /\ ~disturbed /\ ~moved => \A a \in Applier : Progress(a)

-----------------------------------------------------------------------------
(* What compare returns. *)

LEMMA ChangesTyped ==
    ASSUME NEW before \in Tree, NEW after \in Tree
    PROVE  Changes(before, after) \in SUBSET Entries
<1>1. \A p \in Path : (IF after[p] = NoFile THEN 0 ELSE Size(after[p])) \in Nat
  BY DEF Size
<1>2. \A r \in Renames(before, after) : r[1] \in Path /\ r[2] \in Path
  BY DEF Renames, Created, Deleted
<1> QED
  BY <1>1, <1>2 DEF Changes, Entries

LEMMA PlacesTyped ==
    ASSUME NEW changes \in SUBSET Entries
    PROVE  Places(changes) \in SUBSET (Nat \X Path)
<1>1. \A p \in Path : 2 * p \in Nat /\ 2 * p - 1 \in Nat
  BY ConstantsAssumption DEF None
<1>2. \A c \in changes : c.path \in Path
  BY DEF Entries
<1>3. \A c \in changes : c.kind = "renamed" => c.previous \in Path
  BY DEF Entries
<1> QED
  BY <1>1, <1>2, <1>3 DEF Places

LEMMA PathsOfChanges ==
    ASSUME NEW changes, NEW p
    PROVE  p \in PathsIn(changes) <=>
             \E c \in changes : p = c.path \/ (c.kind = "renamed" /\ p = c.previous)
<1>1. ASSUME p \in PathsIn(changes)
      PROVE  \E c \in changes : p = c.path \/ (c.kind = "renamed" /\ p = c.previous)
  BY <1>1 DEF PathsIn, In, Places
<1>2. ASSUME NEW c \in changes, p = c.path
      PROVE  p \in PathsIn(changes)
  <2>1. <<2 * c.path, c.path>> \in Places(changes)
    BY DEF Places
  <2> QED
    BY <1>2, <2>1 DEF PathsIn, In
<1>3. ASSUME NEW c \in changes, c.kind = "renamed", p = c.previous
      PROVE  p \in PathsIn(changes)
  <2>1. <<2 * c.path - 1, c.previous>> \in Places(changes)
    BY <1>3 DEF Places
  <2> QED
    BY <1>3, <2>1 DEF PathsIn, In
<1> QED
  BY <1>1, <1>2, <1>3

(* A path that is in no change is the same in both trees. *)
LEMMA ChangesCover ==
    ASSUME NEW before \in Tree, NEW after \in Tree, NEW p \in Path, before[p] # after[p]
    PROVE  p \in PathsIn(Changes(before, after))
<1> DEFINE Of(kind, path, previous) ==
              [path |-> path, kind |-> kind, previous |-> previous,
               size |-> IF after[path] = NoFile THEN 0 ELSE Size(after[path])]
<1>1. CASE \E r \in Renames(before, after) : p = r[1] \/ p = r[2]
  <2>1. PICK r \in Renames(before, after) : p = r[1] \/ p = r[2]
    BY <1>1
  <2>2. Of("renamed", r[1], r[2]) \in Changes(before, after)
    BY DEF Changes
  <2>3. \E c \in Changes(before, after) :
            p = c.path \/ (c.kind = "renamed" /\ p = c.previous)
    BY <2>1, <2>2
  <2> QED
    BY <2>3, PathsOfChanges
<1>2. CASE ~\E r \in Renames(before, after) : p = r[1] \/ p = r[2]
  <2> DEFINE kind == IF before[p] = NoFile THEN "created"
                     ELSE IF after[p] = NoFile THEN "deleted" ELSE "modified"
  <2>1. p \notin Unlisted(before, after)
    BY <1>2 DEF Unlisted
  <2>2. p \notin {r[1] : r \in Renames(before, after)}
    BY <1>2
  <2>3. Of(kind, p, None) \in Changes(before, after)
    BY <2>1, <2>2 DEF Changes
  <2>4. \E c \in Changes(before, after) : p = c.path
    BY <2>3
  <2> QED
    BY <2>4, PathsOfChanges
<1> QED
  BY <1>1, <1>2

(* What a change removes is not in the tree it leads to. *)
LEMMA ChangesLead ==
    ASSUME NEW before \in Tree, NEW after \in Tree, NEW c \in Changes(before, after)
    PROVE  /\ c.kind = "deleted" => after[c.path] = NoFile
           /\ c.kind = "renamed" => after[c.previous] = NoFile
<1>1. \A r \in Renames(before, after) : after[r[2]] = NoFile
  BY DEF Renames, Created, Deleted
<1> QED
  BY <1>1 DEF Changes

-----------------------------------------------------------------------------
(* Types *)

LEMMA Initially == Init => IInv
<1> SUFFICES ASSUME Init PROVE IInv
  OBVIOUS
<1>1. confirmed \in SUBSET Entries
  BY ChangesTyped DEF Init
<1>2. TypeOK
  <2>1. baseline \in Tree /\ mirror \in Tree /\ project \in Tree /\ backup \in Tree
    BY DEF Init, Tree
  <2>2. Resting \in Process /\ Resting.applied = {}
    BY DEF Resting, Process, Labels
  <2>3. proc \in [Applier -> Process] /\ \A a \in Applier : proc[a].applied \subseteq proc[a].changes
    BY <2>2 DEF Init
  <2> QED
    BY <1>1, <2>1, <2>3 DEF Init, TypeOK
<1>3. \A a \in Applier : proc[a].pc = "rest"
  BY DEF Init, Resting
<1>4. Looked /\ Fresh /\ Mirrored /\ Alone /\ Kept
  BY <1>3 DEF Init, Looked, Fresh, Mirrored, Alone, Kept, Busy, Applying, Ended, At
<1>5. \A a \in Applier : Work(a) /\ Progress(a)
  BY <1>3 DEF Work, Progress, Changing, At
<1> QED
  BY <1>2, <1>4, <1>5 DEF IInv

(* What a process goes on with is of its type when it is put together from  *)
(* what the process had.                                                    *)
LEMMA HoldsTyped ==
    ASSUME TypeOK, NEW a \in Applier, NEW held \in Process, Holds(a, held),
           held.applied \subseteq held.changes
    PROVE  /\ proc' \in [Applier -> Process]
           /\ \A b \in Applier : proc'[b].applied \subseteq proc'[b].changes
  BY DEF TypeOK, Holds

LEMMA GoesTyped ==
    ASSUME TypeOK, NEW a \in Applier, NEW label \in Labels, Goes(a, label)
    PROVE  /\ proc' \in [Applier -> Process]
           /\ \A b \in Applier : proc'[b].applied \subseteq proc'[b].changes
<1>1. [proc[a] EXCEPT !.pc = label] \in Process
  BY DEF TypeOK, Process
<1>2. proc[a].applied \subseteq proc[a].changes /\ proc[a] \in Process
  BY DEF TypeOK
<1>3. /\ [proc[a] EXCEPT !.pc = label].applied = proc[a].applied
      /\ [proc[a] EXCEPT !.pc = label].changes = proc[a].changes
  BY <1>2 DEF Process
<1> QED
  BY <1>1, <1>2, <1>3, HoldsTyped DEF Goes

LEMMA RollbackTyped ==
    ASSUME TypeOK, NEW a \in Applier
    PROVE  /\ Rollback(a) \in Process
           /\ Rollback(a).applied = proc[a].applied /\ Rollback(a).changes = proc[a].changes
<1>1. proc[a] \in Process
  BY DEF TypeOK
<1>2. Places(proc[a].applied) \in SUBSET (Nat \X Path)
  BY <1>1, PlacesTyped DEF Process
<1> QED
  BY <1>1, <1>2 DEF Rollback, Process, Labels

LEMMA CountedTyped ==
    ASSUME TypeOK, NEW a \in Applier, NEW change \in Coming(a)
    PROVE  /\ Counted(a, change) \in Process
           /\ Counted(a, change).applied \subseteq Counted(a, change).changes
<1>1. proc[a] \in Process /\ proc[a].applied \subseteq proc[a].changes
  BY DEF TypeOK
<1> QED
  BY <1>1 DEF Counted, Coming, Process, Labels

LEMMA TypeStep == TypeOK /\ [Next]_vars => TypeOK'
<1> SUFFICES ASSUME TypeOK, [Next]_vars PROVE TypeOK'
  OBVIOUS
<1> DEFINE ProcsTyped == /\ proc' \in [Applier -> Process]
                         /\ \A b \in Applier : proc'[b].applied \subseteq proc'[b].changes
<1>t. \A a \in Applier : proc[a] \in Process /\ proc[a].applied \subseteq proc[a].changes
  BY DEF TypeOK
<1>1. ASSUME NEW a \in Applier, CheckMirror(a) PROVE TypeOK'
  <2>1. ProcsTyped
    <3>1. CASE Goes(a, "conflict")
      BY <3>1, GoesTyped DEF Labels
    <3>2. CASE Holds(a, [Resting EXCEPT !.pc = "checkProject", !.changes = confirmed])
      <4>1. [Resting EXCEPT !.pc = "checkProject", !.changes = confirmed] \in Process
        BY DEF Resting, Process, Labels, TypeOK
      <4> QED
        BY <3>2, <4>1, HoldsTyped DEF Resting
    <3> QED
      BY <1>1, <3>1, <3>2 DEF CheckMirror
  <2> QED
    BY <1>1, <2>1 DEF CheckMirror, TypeOK, Files
<1>2. ASSUME NEW a \in Applier, CheckProject(a) PROVE TypeOK'
  <2>1. ProcsTyped
    BY <1>2, GoesTyped DEF CheckProject, Labels
  <2> QED
    BY <1>2, <2>1 DEF CheckProject, TypeOK, Files
<1>3. ASSUME NEW a \in Applier, ClearBackup(a) PROVE TypeOK'
  <2> DEFINE held == [proc[a] EXCEPT !.pc = "backup", !.todo = Places(proc[a].changes)]
  <2>1. held \in Process /\ held.applied \subseteq held.changes
    BY <1>t, PlacesTyped DEF Process, Labels
  <2>2. ProcsTyped
    BY <1>3, <2>1, HoldsTyped DEF ClearBackup
  <2> QED
    BY <1>3, <2>2 DEF ClearBackup, TypeOK, OnlyFiles, History, Tree
<1>4. ASSUME NEW a \in Applier, Backup(a) PROVE TypeOK'
  <2>1. CASE proc[a].todo = {} /\ Goes(a, "change") /\ UNCHANGED backup
    <3>1. ProcsTyped
      BY <2>1, GoesTyped DEF Labels
    <3> QED
      BY <1>4, <2>1, <3>1 DEF Backup, TypeOK, OnlyFiles, History
  <2>2. ASSUME NEW place \in proc[a].todo,
               Holds(a, Rollback(a)) /\ UNCHANGED backup
        PROVE  TypeOK'
    <3>1. ProcsTyped
      BY <1>t, <2>2, HoldsTyped, RollbackTyped
    <3> QED
      BY <1>4, <2>2, <3>1 DEF Backup, TypeOK, OnlyFiles, History
  <2>3. ASSUME NEW place \in proc[a].todo,
               backup' = [backup EXCEPT ![place[2]] = IF project[place[2]] = NoFile THEN @
                                                      ELSE project[place[2]]],
               Holds(a, [proc[a] EXCEPT !.todo = @ \ {place}])
        PROVE  TypeOK'
    <3>1. place \in Nat \X Path
      BY <1>t DEF Process
    <3>2. backup' \in Tree
      BY <2>3, <3>1 DEF TypeOK, Tree
    <3>3. /\ [proc[a] EXCEPT !.todo = @ \ {place}] \in Process
          /\ [proc[a] EXCEPT !.todo = @ \ {place}].applied = proc[a].applied
          /\ [proc[a] EXCEPT !.todo = @ \ {place}].changes = proc[a].changes
      BY <1>t DEF Process
    <3>4. ProcsTyped
      BY <1>t, <2>3, <3>3, HoldsTyped
    <3> QED
      BY <1>4, <3>2, <3>4 DEF Backup, TypeOK, OnlyFiles, History
  <2> QED
    BY <1>4, <2>1, <2>2, <2>3 DEF Backup
<1>5. ASSUME NEW a \in Applier, Change(a) PROVE TypeOK'
  <2>1. CASE Goes(a, "validate") /\ UNCHANGED project
    <3>1. ProcsTyped
      BY <2>1, GoesTyped DEF Labels
    <3> QED
      BY <1>5, <2>1, <3>1 DEF Change, TypeOK, OnlyFiles, History
  <2>2. ASSUME NEW change \in Coming(a), MakeChange(a, change) PROVE TypeOK'
    <3>1. change \in Entries /\ change.path \in Path
      BY <1>t DEF Coming, Process, Entries
    <3>2. project' \in Tree
      BY <2>2, <3>1 DEF MakeChange, TypeOK, Tree
    <3>3. [proc[a] EXCEPT !.pc = "unlink", !.copied = change.path] \in Process
      BY <1>t, <3>1 DEF Process, Labels
    <3>4. ProcsTyped
      <4>1. CASE Holds(a, Rollback(a))
        BY <1>t, <4>1, HoldsTyped, RollbackTyped
      <4>2. CASE Holds(a, [proc[a] EXCEPT !.pc = "unlink", !.copied = change.path])
        BY <1>t, <3>3, <4>2, HoldsTyped DEF Process
      <4>3. CASE Holds(a, Counted(a, change))
        BY <4>3, HoldsTyped, CountedTyped
      <4> QED
        BY <2>2, <4>1, <4>2, <4>3 DEF MakeChange
    <3> QED
      BY <1>5, <3>2, <3>4 DEF Change, TypeOK, OnlyFiles, History
  <2> QED
    BY <1>5, <2>1, <2>2 DEF Change
<1>6. ASSUME NEW a \in Applier, UnlinkPrevious(a) PROVE TypeOK'
  <2>1. PICK change \in Coming(a) :
            /\ change.kind = "renamed" /\ change.path = proc[a].copied
            /\ IF project[change.previous] = NoFile
                  THEN Holds(a, Rollback(a)) /\ UNCHANGED project
                  ELSE /\ project' = [project EXCEPT ![change.previous] = NoFile]
                       /\ Holds(a, Counted(a, change))
    BY <1>6 DEF UnlinkPrevious
  <2>2. project' \in Tree
    BY <2>1 DEF TypeOK, Tree
  <2>3. CASE Holds(a, Rollback(a))
    <3>1. ProcsTyped
      BY <1>t, <2>3, HoldsTyped, RollbackTyped
    <3> QED
      BY <1>6, <2>2, <3>1 DEF UnlinkPrevious, TypeOK, OnlyFiles, History
  <2>4. CASE Holds(a, Counted(a, change))
    <3>1. ProcsTyped
      BY <2>4, HoldsTyped, CountedTyped
    <3> QED
      BY <1>6, <2>2, <3>1 DEF UnlinkPrevious, TypeOK, OnlyFiles, History
  <2> QED
    BY <2>1, <2>3, <2>4
<1>7. ASSUME NEW a \in Applier, Validate(a) PROVE TypeOK'
  <2>1. ProcsTyped
    <3>1. CASE Goes(a, "applied")
      BY <3>1, GoesTyped DEF Labels
    <3>2. CASE Holds(a, Rollback(a))
      BY <1>t, <3>2, HoldsTyped, RollbackTyped
    <3> QED
      BY <1>7, <3>1, <3>2 DEF Validate
  <2> QED
    BY <1>7, <2>1 DEF Validate, OnlyProc, TypeOK, Files, History
<1>8. ASSUME NEW a \in Applier, Fails(a) PROVE TypeOK'
  <2>1. ProcsTyped
    <3>1. CASE Goes(a, "refused")
      BY <3>1, GoesTyped DEF Labels
    <3>2. CASE Holds(a, Rollback(a))
      BY <1>t, <3>2, HoldsTyped, RollbackTyped
    <3> QED
      BY <1>8, <3>1, <3>2 DEF Fails
  <2> QED
    BY <1>8, <2>1 DEF Fails, TypeOK, Files, History
<1>9. ASSUME NEW a \in Applier, RollBack(a) PROVE TypeOK'
  <2>1. CASE Goes(a, "refused") /\ UNCHANGED project
    <3>1. ProcsTyped
      BY <2>1, GoesTyped DEF Labels
    <3> QED
      BY <1>9, <2>1, <3>1 DEF RollBack, TypeOK, OnlyFiles, History
  <2>2. ASSUME NEW place \in proc[a].todo,
               project' = [project EXCEPT ![place[2]] = Restored(place[2])],
               Holds(a, [proc[a] EXCEPT !.todo = @ \ {place}])
        PROVE  TypeOK'
    <3>1. place \in Nat \X Path
      BY <1>t DEF Process
    <3>2. project' \in Tree
      BY <2>2, <3>1 DEF TypeOK, Tree, Restored
    <3>3. /\ [proc[a] EXCEPT !.todo = @ \ {place}] \in Process
          /\ [proc[a] EXCEPT !.todo = @ \ {place}].applied = proc[a].applied
          /\ [proc[a] EXCEPT !.todo = @ \ {place}].changes = proc[a].changes
      BY <1>t DEF Process
    <3>4. ProcsTyped
      BY <1>t, <2>2, <3>3, HoldsTyped
    <3> QED
      BY <1>9, <3>2, <3>4 DEF RollBack, TypeOK, OnlyFiles, History
  <2> QED
    BY <1>9, <2>1, <2>2 DEF RollBack
<1>10. ASSUME NEW a \in Applier, RollbackFails(a) PROVE TypeOK'
  <2> DEFINE held == [proc[a] EXCEPT !.pc = "refused", !.broken = TRUE]
  <2>1. held \in Process /\ held.applied \subseteq held.changes
    BY <1>t DEF Process, Labels
  <2>2. ProcsTyped
    BY <1>10, <2>1, HoldsTyped DEF RollbackFails
  <2> QED
    BY <1>10, <2>2 DEF RollbackFails, TypeOK, Files, History
<1>11. Resting \in Process /\ Resting.applied \subseteq Resting.changes
  BY DEF Resting, Process, Labels
<1>12. ASSUME NEW a \in Applier, Return(a) PROVE TypeOK'
  <2>1. ProcsTyped
    BY <1>11, <1>12, HoldsTyped DEF Return
  <2> QED
    BY <1>12, <2>1 DEF Return, OnlyProc, TypeOK, Files, History
<1>13. ASSUME NEW a \in Applier, Crash(a) PROVE TypeOK'
  <2>1. ProcsTyped
    BY <1>11, <1>13, HoldsTyped DEF Crash
  <2>2. stray' \in BOOLEAN
    BY <1>13 DEF Crash, TypeOK
  <2> QED
    BY <1>13, <2>1, <2>2 DEF Crash, TypeOK, History
<1>14. CASE Show
  BY <1>14, ChangesTyped DEF Show, TypeOK, Files, History
<1>15. CASE EditProject
  BY <1>15 DEF EditProject, TypeOK, Tree
<1>16. CASE EditMirror
  BY <1>16 DEF EditMirror, TypeOK, Tree
<1>17. CASE Discard
  BY <1>17 DEF Discard, TypeOK, Tree
<1>18. CASE UNCHANGED vars
  BY <1>18 DEF vars, TypeOK
<1> QED
  BY <1>1, <1>2, <1>3, <1>4, <1>5, <1>6, <1>7, <1>8, <1>9, <1>10, <1>12, <1>13, <1>14, <1>15,
     <1>16, <1>17, <1>18 DEF Next, Apply

-----------------------------------------------------------------------------
(* What holds whatever else runs *)

(* What a process is doing once it goes on, takes back what it did, or has  *)
(* made a change.                                                           *)
LEMMA GoesOn ==
    ASSUME TypeOK, NEW a \in Applier, NEW label, Goes(a, label)
    PROVE  /\ \A b \in Applier \ {a} : proc'[b] = proc[b]
           /\ proc'[a].pc = label /\ proc'[a].changes = proc[a].changes
           /\ proc'[a].applied = proc[a].applied /\ proc'[a].todo = proc[a].todo
           /\ proc'[a].copied = proc[a].copied /\ proc'[a].broken = proc[a].broken
  BY DEF TypeOK, Process, Goes, Holds

LEMMA TakesBack ==
    ASSUME TypeOK, NEW a \in Applier, Holds(a, Rollback(a))
    PROVE  /\ \A b \in Applier \ {a} : proc'[b] = proc[b]
           /\ proc'[a].pc = "rollback" /\ proc'[a].changes = proc[a].changes
           /\ proc'[a].applied = proc[a].applied /\ proc'[a].todo = Places(proc[a].applied)
           /\ proc'[a].copied = proc[a].copied /\ proc'[a].broken = proc[a].broken
  BY DEF TypeOK, Process, Rollback, Holds

LEMMA HasCopied ==
    ASSUME TypeOK, NEW a \in Applier, NEW p,
           Holds(a, [proc[a] EXCEPT !.pc = "unlink", !.copied = p])
    PROVE  /\ \A b \in Applier \ {a} : proc'[b] = proc[b]
           /\ proc'[a].pc = "unlink" /\ proc'[a].changes = proc[a].changes
           /\ proc'[a].applied = proc[a].applied /\ proc'[a].copied = p
  BY DEF TypeOK, Process, Holds

LEMMA HasChanged ==
    ASSUME TypeOK, NEW a \in Applier, NEW change \in Coming(a), Holds(a, Counted(a, change))
    PROVE  /\ \A b \in Applier \ {a} : proc'[b] = proc[b]
           /\ proc'[a].pc = "change" /\ proc'[a].changes = proc[a].changes
           /\ proc'[a].applied = proc[a].applied \cup {change} /\ proc'[a].copied = None
  BY DEF TypeOK, Process, Counted, Holds

LEMMA HasTried ==
    ASSUME TypeOK, NEW a \in Applier, NEW change \in Coming(a), MakeChange(a, change)
    PROVE  /\ \A b \in Applier \ {a} : proc'[b] = proc[b]
           /\ proc'[a].pc \in {"rollback", "unlink", "change"}
           /\ proc'[a].changes = proc[a].changes
<1>1. CASE Holds(a, Rollback(a))
  BY <1>1, TakesBack
<1>2. CASE Holds(a, [proc[a] EXCEPT !.pc = "unlink", !.copied = change.path])
  BY <1>2, HasCopied
<1>3. CASE Holds(a, Counted(a, change))
  BY <1>3, HasChanged
<1> QED
  BY <1>1, <1>2, <1>3 DEF MakeChange

LEMMA HasDone ==
    ASSUME TypeOK, NEW a \in Applier, NEW place,
           Holds(a, [proc[a] EXCEPT !.todo = @ \ {place}])
    PROVE  /\ \A b \in Applier \ {a} : proc'[b] = proc[b]
           /\ proc'[a].pc = proc[a].pc /\ proc'[a].changes = proc[a].changes
           /\ proc'[a].applied = proc[a].applied /\ proc'[a].todo = proc[a].todo \ {place}
           /\ proc'[a].copied = proc[a].copied
  BY DEF TypeOK, Process, Holds

(* A step of one apply() leaves the others and their common ground alone.   *)
LEMMA ApplyFrame ==
    ASSUME TypeOK, NEW a \in Applier, Apply(a)
    PROVE  /\ UNCHANGED <<baseline, mirror, edited>>
           /\ \A b \in Applier \ {a} : proc'[b] = proc[b]
           /\ Applying(a)' => Applying(a) \/ CheckProject(a)
           /\ Busy(a)' => Busy(a) \/ CheckProject(a)
           /\ ~CheckProject(a) => UNCHANGED <<unseen, disturbed>>
           /\ ~CheckMirror(a) => /\ moved' = moved /\ ~At(a, "checkProject")'
                                 /\ proc'[a].changes = proc[a].changes \/ At(a, "rest")'
<1> USE DEF Busy, Applying, Ended, At, Files, History, OnlyFiles, OnlyProc
<1>1. CASE CheckMirror(a)
  <2>1. CASE Goes(a, "conflict")
    BY <1>1, <2>1, GoesOn DEF CheckMirror
  <2>2. CASE Holds(a, [Resting EXCEPT !.pc = "checkProject", !.changes = confirmed])
    <3>1. proc'[a].pc = "checkProject" /\ \A b \in Applier \ {a} : proc'[b] = proc[b]
      BY <2>2 DEF Holds, Resting, TypeOK
    <3> QED
      BY <1>1, <3>1 DEF CheckMirror
  <2> QED
    BY <1>1, <2>1, <2>2 DEF CheckMirror
<1>2. CASE CheckProject(a)
  <2>1. CASE Goes(a, "conflict")
    BY <1>2, <2>1, GoesOn DEF CheckProject
  <2>2. CASE Goes(a, "clear")
    BY <1>2, <2>2, GoesOn DEF CheckProject
  <2> QED
    BY <1>2, <2>1, <2>2 DEF CheckProject
<1>3. CASE ClearBackup(a)
  <2>1. /\ \A b \in Applier \ {a} : proc'[b] = proc[b]
        /\ proc'[a].pc = "backup" /\ proc'[a].changes = proc[a].changes
    BY <1>3 DEF ClearBackup, Holds, TypeOK, Process
  <2> QED
    BY <1>3, <2>1 DEF ClearBackup
<1>4. CASE Backup(a)
  <2>1. /\ \A b \in Applier \ {a} : proc'[b] = proc[b]
        /\ proc'[a].pc \in {"backup", "rollback", "change"} /\ proc'[a].changes = proc[a].changes
    BY <1>4, GoesOn, TakesBack, HasDone DEF Backup
  <2> QED
    BY <1>4, <2>1 DEF Backup
<1>5. CASE Change(a)
  <2>1. /\ \A b \in Applier \ {a} : proc'[b] = proc[b]
        /\ proc'[a].changes = proc[a].changes /\ proc'[a].pc # "checkProject"
    <3>1. CASE Goes(a, "validate")
      BY <3>1, GoesOn
    <3>2. CASE \E change \in Coming(a) : MakeChange(a, change)
      BY <3>2, HasTried
    <3> QED
      BY <1>5, <3>1, <3>2 DEF Change
  <2> QED
    BY <1>5, <2>1 DEF Change
<1>6. CASE UnlinkPrevious(a)
  <2>1. /\ \A b \in Applier \ {a} : proc'[b] = proc[b]
        /\ proc'[a].changes = proc[a].changes /\ proc'[a].pc # "checkProject"
    BY <1>6, TakesBack, HasChanged DEF UnlinkPrevious
  <2> QED
    BY <1>6, <2>1 DEF UnlinkPrevious
<1>7. CASE Validate(a)
  <2>1. /\ \A b \in Applier \ {a} : proc'[b] = proc[b]
        /\ proc'[a].changes = proc[a].changes /\ proc'[a].pc # "checkProject"
    BY <1>7, GoesOn, TakesBack DEF Validate
  <2> QED
    BY <1>7, <2>1 DEF Validate
<1>8. CASE Fails(a)
  <2>1. /\ \A b \in Applier \ {a} : proc'[b] = proc[b]
        /\ proc'[a].changes = proc[a].changes /\ proc'[a].pc # "checkProject"
    BY <1>8, GoesOn, TakesBack DEF Fails
  <2> QED
    BY <1>8, <2>1 DEF Fails
<1>9. CASE RollBack(a)
  <2>1. /\ \A b \in Applier \ {a} : proc'[b] = proc[b]
        /\ proc'[a].changes = proc[a].changes /\ proc'[a].pc # "checkProject"
    <3>1. CASE Goes(a, "refused")
      BY <3>1, GoesOn
    <3>2. CASE \E place \in proc[a].todo : Holds(a, [proc[a] EXCEPT !.todo = @ \ {place}])
      BY <1>9, <3>2, HasDone DEF RollBack
    <3> QED
      BY <1>9, <3>1, <3>2 DEF RollBack
  <2> QED
    BY <1>9, <2>1 DEF RollBack
<1>10. CASE RollbackFails(a)
  <2>1. /\ \A b \in Applier \ {a} : proc'[b] = proc[b]
        /\ proc'[a].changes = proc[a].changes /\ proc'[a].pc = "refused"
    BY <1>10 DEF RollbackFails, Holds, TypeOK, Process
  <2> QED
    BY <1>10, <2>1 DEF RollbackFails
<1>11. ASSUME Holds(a, Resting)
       PROVE  proc'[a].pc = "rest" /\ \A b \in Applier \ {a} : proc'[b] = proc[b]
  BY <1>11 DEF Holds, Resting, TypeOK
<1>12. CASE Return(a)
  BY <1>11, <1>12 DEF Return
<1>13. CASE Crash(a)
  BY <1>11, <1>13 DEF Crash
<1> QED
  BY <1>1, <1>2, <1>3, <1>4, <1>5, <1>6, <1>7, <1>8, <1>9, <1>10, <1>12, <1>13 DEF Apply

(* Only apply() changes what a process is doing. *)
LEMMA OthersFrame ==
    ASSUME TypeOK, Show \/ EditProject \/ EditMirror \/ Discard \/ UNCHANGED vars
    PROVE  /\ UNCHANGED <<baseline, proc>> /\ edited \subseteq edited'
           /\ ~moved' => ~moved /\ mirror' = mirror
           /\ ~disturbed' => ~disturbed
<1>1. CASE Show \/ UNCHANGED vars
  BY <1>1 DEF Show, vars, Files, History
<1>2. CASE EditProject
  BY <1>2 DEF EditProject
<1>3. CASE EditMirror
  BY <1>3 DEF EditMirror
<1>4. CASE Discard
  BY <1>4 DEF Discard, TypeOK
<1> QED
  BY <1>1, <1>2, <1>3, <1>4

LEMMA LookedStep == TypeOK /\ Looked /\ [Next]_vars => Looked'
<1> SUFFICES ASSUME TypeOK, Looked, [Next]_vars PROVE Looked'
  OBVIOUS
<1>1. ASSUME NEW a \in Applier, CheckProject(a) PROVE Looked'
  <2>1. CASE Conflict
    BY <1>1, <2>1 DEF CheckProject, Looked, Applying, Goes, Holds, TypeOK, Process
  <2>2. CASE ~Conflict
    <3>1. unseen' = {}
      BY <1>1, <2>2 DEF CheckProject, Conflict
    <3> QED
      BY <3>1 DEF Looked
  <2> QED
    BY <2>1, <2>2
<1>2. ASSUME NEW a \in Applier, Apply(a), ~CheckProject(a) PROVE Looked'
  BY <1>2, ApplyFrame DEF Looked, Applying
<1>3. CASE EditProject
  BY <1>3 DEF EditProject, Looked, Applying
<1>4. CASE Show \/ EditMirror \/ Discard \/ UNCHANGED vars
  BY <1>4 DEF Show, EditMirror, Discard, vars, History, Looked, Applying
<1> QED
  BY <1>1, <1>2, <1>3, <1>4 DEF Next

LEMMA FreshStep == TypeOK /\ Fresh /\ [Next]_vars => Fresh'
<1> SUFFICES ASSUME TypeOK, Fresh, [Next]_vars PROVE Fresh'
  OBVIOUS
<1>1. ASSUME NEW a \in Applier, Apply(a) PROVE Fresh'
  <2> USE DEF At
  <2>1. proc'[a].pc \in {"checkProject", "clear", "backup"}
            => proc'[a].applied = {} /\ proc'[a].copied = None
    <3>1. CASE CheckMirror(a)
      <4>1. CASE Goes(a, "conflict")
        BY <4>1, GoesOn
      <4>2. CASE Holds(a, [Resting EXCEPT !.pc = "checkProject", !.changes = confirmed])
        BY <4>2 DEF Holds, Resting, TypeOK
      <4> QED
        BY <3>1, <4>1, <4>2 DEF CheckMirror
    <3>2. CASE CheckProject(a)
      BY <3>2, GoesOn DEF CheckProject, Fresh
    <3>3. CASE ClearBackup(a)
      <4>1. proc'[a].applied = proc[a].applied /\ proc'[a].copied = proc[a].copied
        BY <3>3 DEF ClearBackup, Holds, TypeOK, Process
      <4> QED
        BY <3>3, <4>1 DEF ClearBackup, Fresh
    <3>4. CASE Backup(a)
      <4>1. proc'[a].applied = proc[a].applied /\ proc'[a].copied = proc[a].copied
        BY <3>4, GoesOn, TakesBack, HasDone DEF Backup
      <4> QED
        BY <3>4, <4>1 DEF Backup, Fresh
    <3>5. CASE Change(a)
      <4>1. proc'[a].pc \in {"rollback", "unlink", "change", "validate"}
        <5>1. CASE Goes(a, "validate")
          BY <5>1, GoesOn
        <5>2. CASE \E change \in Coming(a) : MakeChange(a, change)
          BY <5>2, HasTried
        <5> QED
          BY <3>5, <5>1, <5>2 DEF Change
      <4> QED
        BY <4>1
    <3>6. CASE UnlinkPrevious(a)
      <4>1. proc'[a].pc \in {"rollback", "change"}
        BY <3>6, TakesBack, HasChanged DEF UnlinkPrevious
      <4> QED
        BY <4>1
    <3>7. CASE Validate(a) \/ Fails(a)
      <4>1. proc'[a].pc \in {"applied", "rollback", "refused"}
        BY <3>7, GoesOn, TakesBack DEF Validate, Fails
      <4> QED
        BY <4>1
    <3>8. CASE RollBack(a)
      <4>1. proc'[a].pc \in {"rollback", "refused"}
        BY <3>8, GoesOn, HasDone DEF RollBack
      <4> QED
        BY <4>1
    <3>9. CASE RollbackFails(a)
      <4>1. proc'[a].pc = "refused"
        BY <3>9 DEF RollbackFails, Holds, TypeOK, Process
      <4> QED
        BY <4>1
    <3>10. CASE Return(a) \/ Crash(a)
      <4>1. proc'[a].pc = "rest"
        BY <3>10 DEF Return, Crash, Holds, Resting, TypeOK
      <4> QED
        BY <4>1
    <3> QED
      BY <1>1, <3>1, <3>2, <3>3, <3>4, <3>5, <3>6, <3>7, <3>8, <3>9,
         <3>10 DEF Apply
  <2> QED
    BY <1>1, <2>1, ApplyFrame DEF Fresh
<1>2. CASE Show \/ EditProject \/ EditMirror \/ Discard \/ UNCHANGED vars
  BY <1>2, OthersFrame DEF Fresh
<1> QED
  BY <1>1, <1>2 DEF Next

LEMMA MirroredStep ==
    ASSUME TypeOK, ~moved => Mirrored, [Next]_vars, ~moved'
    PROVE  Mirrored'
<1> USE DEF Mirrored, Busy, Applying, Ended, At
<1>1. ASSUME NEW a \in Applier, CheckMirror(a) PROVE Mirrored'
  <2>1. UNCHANGED <<baseline, mirror>> /\ \A b \in Applier \ {a} : proc'[b] = proc[b]
    BY <1>1, ApplyFrame DEF Apply
  <2>2. At(a, "checkProject")' => proc'[a].changes = Changes(baseline, mirror)
    <3>1. CASE Goes(a, "conflict")
      BY <3>1, GoesOn
    <3>2. CASE Changes(baseline, mirror) = confirmed
               /\ Holds(a, [Resting EXCEPT !.pc = "checkProject", !.changes = confirmed])
      BY <3>2 DEF Holds, Resting, TypeOK
    <3> QED
      BY <1>1, <3>1, <3>2 DEF CheckMirror
  <2>3. proc'[a].pc \in {"checkProject", "conflict"}
    BY <1>1, GoesOn DEF CheckMirror, Holds, Resting, TypeOK
  <2>4. \A b \in Applier \ {a} : proc'[b].pc # "rest" => ~moved
    BY <1>1, <2>1 DEF CheckMirror
  <2> QED
    BY <2>1, <2>2, <2>3, <2>4
<1>2. ASSUME NEW a \in Applier, Apply(a), ~CheckMirror(a) PROVE Mirrored'
  BY <1>2, ApplyFrame DEF CheckProject
<1>3. CASE Show \/ EditProject \/ EditMirror \/ Discard \/ UNCHANGED vars
  BY <1>3, OthersFrame
<1> QED
  BY <1>1, <1>2, <1>3 DEF Next

LEMMA AloneStep ==
    ASSUME TypeOK, ~disturbed => Alone, [Next]_vars, ~disturbed'
    PROVE  ~disturbed /\ Alone'
<1> USE DEF Alone, Busy, Applying, Ended
<1>1. ASSUME NEW a \in Applier, CheckProject(a) PROVE ~disturbed /\ Alone'
  <2>1. CASE Conflict
    BY <1>1, <2>1 DEF CheckProject, Goes, Holds, TypeOK, Process
  <2>2. CASE ~Conflict
    <3>1. ~disturbed /\ \A b \in Applier : ~Busy(b)
      BY <1>1, <2>2 DEF CheckProject
    <3> QED
      BY <1>1, <3>1, ApplyFrame DEF Apply
  <2> QED
    BY <2>1, <2>2
<1>2. ASSUME NEW a \in Applier, Apply(a), ~CheckProject(a) PROVE ~disturbed /\ Alone'
  BY <1>2, ApplyFrame
<1>3. CASE Show \/ EditProject \/ EditMirror \/ Discard \/ UNCHANGED vars
  BY <1>3, OthersFrame
<1> QED
  BY <1>1, <1>2, <1>3 DEF Next

-----------------------------------------------------------------------------
(* What is still to be done *)

(* One place less is one path less, unless another place has it too. *)
LEMMA PlaceDone ==
    ASSUME NEW places, NEW place
    PROVE  /\ In({}) = {}
           /\ \A p \in In(places) : p = place[2] \/ p \in In(places \ {place})
  BY DEF In

LEMMA PathsGrow ==
    ASSUME NEW changes, NEW change
    PROVE  /\ PathsIn({}) = {}
           /\ PathsIn(changes) \subseteq PathsIn(changes \cup {change})
           /\ change.path \in PathsIn(changes \cup {change})
           /\ change.kind = "renamed" => change.previous \in PathsIn(changes \cup {change})
           /\ \A p \in PathsIn(changes \cup {change}) :
                 p \in PathsIn(changes) \/ p = change.path
                   \/ (change.kind = "renamed" /\ p = change.previous)
<1>1. \A p : p \in PathsIn(changes \cup {change}) <=>
               \E c \in changes \cup {change} :
                   p = c.path \/ (c.kind = "renamed" /\ p = c.previous)
  BY PathsOfChanges
<1>2. \A p : p \in PathsIn(changes) <=>
               \E c \in changes : p = c.path \/ (c.kind = "renamed" /\ p = c.previous)
  BY PathsOfChanges
<1>3. \A p : p \notin PathsIn({})
  BY PathsOfChanges
<1>4. PathsIn({}) = {}
  BY <1>3
<1> QED
  BY <1>1, <1>2, <1>4

LEMMA PathsOfSubset ==
    ASSUME NEW changes, NEW applied \in SUBSET changes
    PROVE  PathsIn(applied) \subseteq PathsIn(changes)
<1>1. \A p : p \in PathsIn(applied) <=>
               \E c \in applied : p = c.path \/ (c.kind = "renamed" /\ p = c.previous)
  BY PathsOfChanges
<1>2. \A p : p \in PathsIn(changes) <=>
               \E c \in changes : p = c.path \/ (c.kind = "renamed" /\ p = c.previous)
  BY PathsOfChanges
<1> QED
  BY <1>1, <1>2

(* A process that does not act keeps what it has to do, when the user       *)
(* edits as well as when nothing happens to the files.                      *)
LEMMA WorkStays ==
    ASSUME NEW b \in Applier, Work(b), proc'[b] = proc[b], UNCHANGED <<baseline, backup>>,
           Untouched' \subseteq Untouched, \A p \in Untouched' : project'[p] = project[p]
    PROVE  Work(b)'
  BY DEF Work, Changing, Changed, At

(* From a failure on, what was applied is to be taken back. *)
LEMMA WorkTakesBack ==
    ASSUME TypeOK, Fresh, NEW a \in Applier, Work(a), Holds(a, Rollback(a)),
           UNCHANGED <<baseline, backup, project, edited>>,
           At(a, "backup") \/ Changing(a)
    PROVE  Work(a)'
<1> USE DEF Untouched
<1>1. /\ proc'[a].pc = "rollback" /\ proc'[a].todo = Places(proc[a].applied)
      /\ proc'[a].copied = proc[a].copied
  BY TakesBack
<1>2. In(proc'[a].todo) = PathsIn(proc[a].applied)
  BY <1>1 DEF PathsIn
<1>3. CASE At(a, "backup")
  <2>1. PathsIn(proc[a].applied) = {}
    BY <1>3, PathsGrow DEF Fresh, At
  <2> QED
    BY <1>1, <1>2, <1>3, <2>1 DEF Work, At, Changing
<1>4. CASE Changing(a)
  <2>1. PathsIn(proc[a].applied) \subseteq PathsIn(proc[a].changes)
    BY PathsOfSubset DEF TypeOK
  <2> QED
    BY <1>1, <1>2, <1>4, <2>1 DEF Work, At, Changing, Changed
<1> QED
  BY <1>3, <1>4

LEMMA OwnWork ==
    ASSUME TypeOK, Fresh, Kept, NEW a \in Applier, Work(a), Apply(a)
    PROVE  Work(a)' /\ Kept'
<1>1. UNCHANGED <<baseline, edited>> /\ Untouched' = Untouched /\ Untouched \subseteq Path
  BY ApplyFrame DEF Untouched
<1>2. ASSUME proc'[a].pc \in {"rest", "checkProject", "conflict", "applied"},
             UNCHANGED project /\ UNCHANGED backup
      PROVE  Work(a)' /\ Kept'
  BY <1>1, <1>2 DEF Work, Kept, At, Changing
<1>3. ASSUME Holds(a, Rollback(a)), UNCHANGED project /\ UNCHANGED backup,
             At(a, "backup") \/ Changing(a)
      PROVE  Work(a)' /\ Kept'
  <2>1. Work(a)'
    BY <1>1, <1>3, WorkTakesBack
  <2> QED
    BY <1>1, <1>3, <2>1 DEF Kept
<1>4. CASE CheckMirror(a)
  BY <1>2, <1>4, GoesOn DEF CheckMirror, Holds, Resting, TypeOK, Files
<1>5. CASE CheckProject(a)
  <2>1. CASE Conflict
    BY <1>2, <1>5, <2>1, GoesOn DEF CheckProject, Files
  <2>2. CASE ~Conflict
    <3>1. proc'[a].pc = "clear" /\ UNCHANGED project /\ UNCHANGED backup /\ project = baseline
      BY <1>5, <2>2, GoesOn DEF CheckProject, Conflict, Files
    <3> QED
      BY <1>1, <3>1 DEF Work, Kept, At, Changing
  <2> QED
    BY <2>1, <2>2
<1>6. CASE ClearBackup(a)
  <2>1. /\ At(a, "clear") /\ proc'[a].pc = "backup" /\ proc'[a].changes = proc[a].changes
        /\ proc'[a].todo = Places(proc[a].changes)
        /\ UNCHANGED project /\ backup' = [p \in Path |-> NoFile]
    BY <1>6 DEF ClearBackup, Holds, TypeOK, Process
  <2>2. \A p \in Untouched : project'[p] = baseline'[p] /\ backup'[p] = NoFile
    BY <1>1, <2>1 DEF Work, At
  <2>3. PathsIn(proc'[a].changes) = In(proc'[a].todo)
    BY <2>1 DEF PathsIn
  <2> QED
    BY <1>1, <2>1, <2>2, <2>3 DEF Work, Kept, At, Changing
<1>7. CASE Backup(a)
  <2>1. At(a, "backup") /\ UNCHANGED project /\ \A p \in Untouched : project[p] = baseline[p]
    BY <1>7 DEF Backup, Work, At
  <2>2. Kept'
    BY <1>1, <2>1 DEF Kept
  <2>3. CASE proc[a].todo = {} /\ Goes(a, "change") /\ UNCHANGED backup
    <3>1. proc'[a].pc = "change" /\ proc'[a].changes = proc[a].changes /\ proc'[a].copied = None
      BY <2>1, <2>3, GoesOn DEF Fresh, At
    <3>2. In(proc[a].todo) = {}
      BY <2>3, PlaceDone
    <3>3. \A p \in Untouched \cap PathsIn(proc[a].changes) : backup[p] = baseline[p]
      BY <2>1, <3>2 DEF Work
    <3> QED
      BY <1>1, <2>1, <2>2, <2>3, <3>1, <3>3 DEF Work, At, Changing
  <2>4. CASE Holds(a, Rollback(a)) /\ UNCHANGED backup
    BY <1>3, <2>1, <2>4
  <2>5. ASSUME NEW place \in proc[a].todo,
               backup' = [backup EXCEPT ![place[2]] = IF project[place[2]] = NoFile THEN @
                                                      ELSE project[place[2]]],
               Holds(a, [proc[a] EXCEPT !.todo = @ \ {place}])
        PROVE  Work(a)' /\ Kept'
    <3>1. /\ proc'[a].pc = "backup" /\ proc'[a].changes = proc[a].changes
          /\ proc'[a].todo = proc[a].todo \ {place}
      BY <2>1, <2>5, HasDone DEF At
    <3>2. \A p \in Untouched : backup'[p] \in {NoFile, baseline[p]}
      BY <1>1, <2>1, <2>5 DEF Work, TypeOK, Tree
    <3>3. ASSUME NEW p \in Untouched \cap PathsIn(proc[a].changes)
          PROVE  p \in In(proc'[a].todo) \/ backup'[p] = baseline[p]
      <4>1. p \in In(proc[a].todo) \/ backup[p] = baseline[p]
        BY <2>1, <3>3 DEF Work
      <4>2. CASE p = place[2]
        <5>1. backup'[p] = IF project[p] = NoFile THEN backup[p] ELSE project[p]
          BY <1>1, <2>5, <4>2 DEF TypeOK, Tree
        <5>2. project[p] = baseline[p] /\ backup[p] \in {NoFile, baseline[p]}
          BY <2>1 DEF Work
        <5> QED
          BY <5>1, <5>2
      <4>3. CASE p # place[2]
        <5>1. backup'[p] = backup[p]
          BY <1>1, <2>5, <4>3 DEF TypeOK, Tree
        <5> QED
          BY <3>1, <4>1, <4>3, <5>1, PlaceDone
      <4> QED
        BY <4>2, <4>3
    <3> QED
      BY <1>1, <2>1, <2>2, <3>1, <3>2, <3>3 DEF Work, At, Changing
  <2> QED
    BY <1>7, <2>3, <2>4, <2>5 DEF Backup
<1>8. CASE Change(a)
  <2>1. At(a, "change") /\ UNCHANGED backup
    BY <1>8 DEF Change
  <2>2. CASE Goes(a, "validate") /\ UNCHANGED project
    BY <1>1, <2>1, <2>2, GoesOn DEF Work, Kept, At, Changing, Changed
  <2>3. ASSUME NEW change \in Coming(a), MakeChange(a, change) PROVE Work(a)' /\ Kept'
    <3> DEFINE p == change.path
    <3>1. p \in PathsIn(proc[a].changes)
      BY PathsOfChanges DEF Coming
    <3>2. CASE Holds(a, Rollback(a)) /\ UNCHANGED project
      BY <1>3, <2>1, <3>2 DEF Changing, At
    <3>3. CASE ~(Holds(a, Rollback(a)) /\ UNCHANGED project)
      <4>1. \A q \in Path \ {p} : project'[q] = project[q]
        BY <2>3, <3>3 DEF MakeChange, TypeOK, Tree
      <4>2. \/ Holds(a, [proc[a] EXCEPT !.pc = "unlink", !.copied = p])
            \/ Holds(a, Counted(a, change))
        BY <2>3, <3>3 DEF MakeChange
      <4>3. /\ proc'[a].changes = proc[a].changes
            /\ \/ /\ proc'[a].pc = "unlink" /\ proc'[a].copied = p
                  /\ proc'[a].applied = proc[a].applied
               \/ /\ proc'[a].pc = "change" /\ proc'[a].copied = None
                  /\ proc'[a].applied = proc[a].applied \cup {change}
        BY <4>2, HasCopied, HasChanged
      <4>4. proc[a].copied = None /\ None \notin Path
        BY <2>1, ConstantsAssumption DEF Work, At, Changing
      <4>5. p \in Changed(a)' /\ PathsIn(proc[a].applied) \subseteq Changed(a)'
        <5>1. /\ p \in PathsIn(proc[a].applied \cup {change})
              /\ PathsIn(proc[a].applied) \subseteq PathsIn(proc[a].applied \cup {change})
          BY PathsGrow
        <5> QED
          BY <4>3, <5>1 DEF Changed
      <4>6. \A q \in Untouched : project'[q] # baseline[q] => q \in Changed(a)'
        <5>1. \A q \in Untouched : project[q] # baseline[q] => q \in PathsIn(proc[a].applied)
          BY <1>1, <2>1, <4>4 DEF Work, At, Changing, Changed
        <5> QED
          BY <1>1, <4>1, <4>5, <5>1
      <4>7. \A q \in Untouched \cap PathsIn(proc[a].changes) : backup[q] = baseline[q]
        BY <2>1 DEF Work, At, Changing
      <4>8. Kept'
        BY <1>1, <2>1, <3>1, <4>1, <4>7 DEF Kept
      <4>9. Work(a)'
        BY <1>1, <2>1, <3>1, <4>3, <4>6, <4>7 DEF Work, At, Changing
      <4> QED
        BY <4>8, <4>9
    <3> QED
      BY <3>2, <3>3
  <2> QED
    BY <1>8, <2>2, <2>3 DEF Change
<1>9. CASE UnlinkPrevious(a)
  <2>1. At(a, "unlink") /\ UNCHANGED backup
    BY <1>9 DEF UnlinkPrevious
  <2>2. PICK change \in Coming(a) :
            /\ change.kind = "renamed" /\ change.path = proc[a].copied
            /\ IF project[change.previous] = NoFile
                  THEN Holds(a, Rollback(a)) /\ UNCHANGED project
                  ELSE /\ project' = [project EXCEPT ![change.previous] = NoFile]
                       /\ Holds(a, Counted(a, change))
    BY <1>9 DEF UnlinkPrevious
  <2>3. CASE Holds(a, Rollback(a)) /\ UNCHANGED project
    BY <1>3, <2>1, <2>3 DEF Changing, At
  <2>4. CASE project' = [project EXCEPT ![change.previous] = NoFile] /\ Holds(a, Counted(a, change))
    <3> DEFINE p == change.previous
    <3>1. p \in PathsIn(proc[a].changes)
      BY <2>2, PathsOfChanges DEF Coming
    <3>2. \A q \in Path \ {p} : project'[q] = project[q]
      BY <2>4 DEF TypeOK, Tree
    <3>3. /\ proc'[a].changes = proc[a].changes
          /\ proc'[a].pc = "change" /\ proc'[a].copied = None
          /\ proc'[a].applied = proc[a].applied \cup {change}
      BY <2>4, HasChanged
    <3>4. p \in Changed(a)' /\ Changed(a) \subseteq Changed(a)'
      <4>1. /\ change.path \in PathsIn(proc[a].applied \cup {change})
            /\ p \in PathsIn(proc[a].applied \cup {change})
            /\ PathsIn(proc[a].applied) \subseteq PathsIn(proc[a].applied \cup {change})
        BY <2>2, PathsGrow
      <4> QED
        BY <2>2, <3>3, <4>1 DEF Changed
    <3>5. \A q \in Untouched : project[q] # baseline[q] => q \in Changed(a)
      BY <2>1 DEF Work, At, Changing
    <3>6. \A q \in Untouched \cap PathsIn(proc[a].changes) : backup[q] = baseline[q]
      BY <2>1 DEF Work, At, Changing
    <3>7. Kept'
      BY <1>1, <2>1, <3>1, <3>2, <3>6 DEF Kept
    <3>8. \A q \in Untouched : project'[q] # baseline[q] => q \in Changed(a)'
      BY <1>1, <3>2, <3>4, <3>5
    <3>9. Work(a)'
      BY <1>1, <2>1, <3>3, <3>6, <3>8 DEF Work, At, Changing
    <3> QED
      BY <3>7, <3>9
  <2> QED
    BY <2>2, <2>3, <2>4
<1>10. CASE Validate(a)
  <2>1. At(a, "validate") /\ UNCHANGED project /\ UNCHANGED backup
    BY <1>10 DEF Validate, OnlyProc, Files
  <2>2. CASE Goes(a, "applied")
    BY <1>2, <2>1, <2>2, GoesOn
  <2>3. CASE Holds(a, Rollback(a))
    BY <1>3, <2>1, <2>3 DEF Changing, At
  <2> QED
    BY <1>10, <2>2, <2>3 DEF Validate
<1>11. CASE Fails(a)
  <2>1. /\ proc[a].pc \in {"clear", "backup", "change", "unlink"}
        /\ UNCHANGED project /\ UNCHANGED backup
    BY <1>11 DEF Fails, Files
  <2>2. CASE At(a, "clear")
    <3>1. proc'[a].pc = "refused" /\ \A p \in Untouched : project[p] = baseline[p]
      BY <1>11, <2>2, GoesOn DEF Fails, Work, At
    <3> QED
      BY <1>1, <2>1, <3>1 DEF Work, Kept, At, Changing
  <2>3. CASE ~At(a, "clear")
    <3>1. Holds(a, Rollback(a)) /\ (At(a, "backup") \/ Changing(a))
      BY <1>11, <2>1, <2>3 DEF Fails, Changing, At
    <3> QED
      BY <1>3, <2>1, <3>1
  <2> QED
    BY <2>2, <2>3
<1>12. CASE RollBack(a)
  <2>1. At(a, "rollback") /\ UNCHANGED backup
    BY <1>12 DEF RollBack
  <2>2. CASE proc[a].todo = {} /\ Goes(a, "refused") /\ UNCHANGED project
    <3>1. proc'[a].pc = "refused" /\ proc'[a].copied = proc[a].copied
      BY <2>2, GoesOn
    <3>2. \A p \in Untouched : project[p] # baseline[p] => p = proc[a].copied
      BY <2>1, <2>2, PlaceDone DEF Work
    <3> QED
      BY <1>1, <2>1, <2>2, <3>1, <3>2 DEF Work, Kept, At, Changing
  <2>3. ASSUME NEW place \in proc[a].todo,
               project' = [project EXCEPT ![place[2]] = Restored(place[2])],
               Holds(a, [proc[a] EXCEPT !.todo = @ \ {place}])
        PROVE  Work(a)' /\ Kept'
    <3>1. /\ proc'[a].pc = "rollback" /\ proc'[a].copied = proc[a].copied
          /\ proc'[a].todo = proc[a].todo \ {place}
      BY <2>1, <2>3, HasDone DEF At
    <3>2. place[2] \in In(proc[a].todo)
      BY <2>3 DEF In
    <3>3. In(proc'[a].todo) \subseteq In(proc[a].todo)
      BY <3>1 DEF In
    <3>4. \A p \in Untouched \cap In(proc[a].todo) : backup[p] = baseline[p]
      BY <2>1 DEF Work
    <3>5. \A p \in Untouched :
              IF p = place[2] THEN project'[p] = baseline[p] ELSE project'[p] = project[p]
      BY <1>1, <2>3, <3>2, <3>4 DEF TypeOK, Tree, Restored
    <3>6. Kept'
      BY <1>1, <2>1, <3>5 DEF Kept
    <3>7. \A p \in Untouched :
              project'[p] # baseline[p] => p \in In(proc'[a].todo) \cup {proc[a].copied}
      BY <2>1, <3>1, <3>5, PlaceDone DEF Work
    <3>8. Work(a)'
      BY <1>1, <2>1, <3>1, <3>3, <3>4, <3>7 DEF Work, At, Changing
    <3> QED
      BY <3>6, <3>8
  <2> QED
    BY <1>12, <2>2, <2>3 DEF RollBack
<1>13. CASE RollbackFails(a)
  <2>1. proc'[a].pc = "refused" /\ proc'[a].broken = TRUE /\ UNCHANGED project /\ UNCHANGED backup
    BY <1>13 DEF RollbackFails, Holds, TypeOK, Process, Files
  <2> QED
    BY <1>1, <2>1 DEF Work, Kept, At, Changing
<1>14. CASE Return(a) \/ Crash(a)
  BY <1>2, <1>14 DEF Return, Crash, Holds, Resting, OnlyProc, Files, TypeOK
<1> QED
  BY <1>4, <1>5, <1>6, <1>7, <1>8, <1>9, <1>10, <1>11, <1>12, <1>13, <1>14 DEF Apply

(* Who is not busy has nothing to do. *)
LEMMA NotBusy ==
    ASSUME NEW b \in Applier, ~Busy(b)
    PROVE  Work(b) /\ Progress(b)
  BY DEF Busy, Applying, Ended, Work, Progress, Changing, At

LEMMA WorkStep ==
    ASSUME TypeOK, Fresh, Alone, Kept, \A a \in Applier : Work(a), [Next]_vars, ~disturbed,
           ~disturbed', Alone'
    PROVE  Kept' /\ \A a \in Applier : Work(a)'
<1>1. ASSUME NEW a \in Applier, Apply(a) PROVE Kept' /\ \A b \in Applier : Work(b)'
  <2>1. Work(a)' /\ Kept'
    BY <1>1, OwnWork
  <2>2. ASSUME NEW b \in Applier \ {a} PROVE Work(b)'
    <3>1. proc'[b] = proc[b]
      BY <1>1, ApplyFrame
    <3>2. CASE ~Busy(b)
      <4>1. ~Busy(b)'
        BY <3>1, <3>2 DEF Busy, Applying, Ended
      <4> QED
        BY <4>1 DEF Busy, Applying, Ended, Work, Changing, At
    <3>3. CASE Busy(b)
      <4>1. ~Busy(a) /\ ~Busy(a)'
        <5>1. Busy(b)'
          BY <3>1, <3>3 DEF Busy, Applying, Ended
        <5> QED
          BY <3>3, <5>1 DEF Alone
      <4>2. UNCHANGED <<baseline, backup, project, edited>>
        BY <1>1, <4>1, ApplyFrame DEF Apply, CheckMirror, CheckProject, ClearBackup, Backup, Change,
           UnlinkPrevious, Validate, Fails, RollBack, RollbackFails, Return, Crash, At, Busy,
           Applying, Ended, OnlyProc, Files
      <4>3. Work(b)
        OBVIOUS
      <4> QED
        BY <3>1, <4>2, <4>3, WorkStays DEF Untouched
    <3> QED
      BY <3>2, <3>3
  <2> QED
    BY <2>1, <2>2
<1>2. CASE Show \/ EditMirror \/ UNCHANGED vars
  <2>1. UNCHANGED <<baseline, backup, project, edited, proc>>
    BY <1>2 DEF Show, EditMirror, vars, Files, History
  <2>2. Kept'
    BY <2>1 DEF Untouched, Kept
  <2>3. Untouched' = Untouched
    BY <2>1 DEF Untouched
  <2> QED
    BY <2>1, <2>2, <2>3, WorkStays
<1>3. CASE EditProject
  <2>1. PICK p \in Path, c \in Content \cup {NoFile} :
            project' = [project EXCEPT ![p] = c] /\ edited' = edited \cup {p}
    BY <1>3 DEF EditProject
  <2>2. Untouched' \subseteq Untouched /\ \A q \in Untouched' : project'[q] = project[q]
    BY <2>1 DEF Untouched, TypeOK, Tree
  <2>3. UNCHANGED <<baseline, backup, proc>>
    BY <1>3 DEF EditProject
  <2> QED
    BY <2>2, <2>3, WorkStays DEF Kept
<1>4. CASE Discard
  <2>1. /\ \A p \in Untouched : project[p] = baseline[p]
        /\ \A a \in Applier : ~Applying(a)
    BY <1>4 DEF Discard, Untouched
  <2>2. UNCHANGED <<baseline, project, edited, proc>>
    BY <1>4 DEF Discard
  <2>3. Untouched' = Untouched
    BY <2>2 DEF Untouched
  <2>4. Kept'
    BY <2>1, <2>2, <2>3 DEF Kept
  <2>5. \A a \in Applier : Work(a)'
    BY <2>1, <2>2, <2>3 DEF Work, Applying, Changing, At
  <2> QED
    BY <2>4, <2>5
<1> QED
  BY <1>1, <1>2, <1>3, <1>4 DEF Next

-----------------------------------------------------------------------------
(* What is already as in the mirror *)

LEMMA OwnProgress ==
    ASSUME TypeOK, Fresh, Mirrored, NEW a \in Applier, Work(a), Progress(a), Apply(a),
           ~moved', ~moved
    PROVE  Progress(a)'
<1>1. /\ UNCHANGED <<baseline, mirror, edited>> /\ Untouched' = Untouched
      /\ Untouched \subseteq Path
  BY ApplyFrame DEF Untouched
<1>2. ASSUME proc'[a].pc \notin {"change", "unlink", "validate", "applied"}
      PROVE  Progress(a)'
  BY <1>2 DEF Progress, Changing, At
<1>3. CASE CheckMirror(a)
  <2>1. CASE Goes(a, "conflict")
    BY <1>2, <2>1, GoesOn
  <2>2. CASE Holds(a, [Resting EXCEPT !.pc = "checkProject", !.changes = confirmed])
    BY <1>2, <2>2 DEF Holds, Resting, TypeOK
  <2> QED
    BY <1>3, <2>1, <2>2 DEF CheckMirror
<1>4. CASE CheckProject(a)
  BY <1>2, <1>4, GoesOn DEF CheckProject
<1>5. CASE ClearBackup(a)
  BY <1>2, <1>5 DEF ClearBackup, Holds, TypeOK, Process
<1>6. CASE Backup(a)
  <2>1. CASE Goes(a, "change")
    <3>1. proc'[a].pc = "change" /\ proc'[a].applied = {} /\ proc'[a].copied = None
      BY <1>6, <2>1, GoesOn DEF Backup, Fresh, At
    <3>2. Changed(a)' = {None}
      BY <3>1, PathsGrow DEF Changed
    <3>3. None \notin Untouched
      BY <1>1, ConstantsAssumption
    <3> QED
      BY <1>1, <3>1, <3>2, <3>3 DEF Progress, Changing, At
  <2>2. CASE ~Goes(a, "change")
    <3>1. proc'[a].pc \in {"backup", "rollback"}
      BY <1>6, <2>2, TakesBack, HasDone DEF Backup, At
    <3> QED
      BY <1>2, <3>1
  <2> QED
    BY <2>1, <2>2
<1>7. CASE Change(a)
  <2>1. At(a, "change") /\ proc[a].copied = None /\ proc[a].changes = Changes(baseline, mirror)
    BY <1>7 DEF Change, Work, Changing, At, Mirrored, Busy, Applying
  <2>2. \A q \in Untouched \cap Changed(a) : project[q] = mirror[q]
    BY <2>1 DEF Progress, Changing, At
  <2>3. CASE Coming(a) = {} /\ Goes(a, "validate") /\ UNCHANGED project
    <3>1. /\ proc'[a].pc = "validate" /\ proc'[a].changes = proc[a].changes
          /\ proc'[a].applied = proc[a].applied /\ proc'[a].copied = proc[a].copied
      BY <2>3, GoesOn
    <3>2. proc[a].applied = proc[a].changes
      BY <2>3 DEF Coming, TypeOK
    <3>3. Changed(a)' = Changed(a)
      BY <3>1 DEF Changed
    <3> QED
      BY <1>1, <2>2, <2>3, <3>1, <3>2, <3>3 DEF Progress, Changing, At
  <2>4. ASSUME NEW change \in Coming(a), MakeChange(a, change) PROVE Progress(a)'
    <3> DEFINE p == change.path
    <3>1. change \in Changes(baseline, mirror) /\ p \in Path
      BY <2>1 DEF Coming, TypeOK, Process, Entries
    <3>2. CASE Holds(a, Rollback(a)) /\ UNCHANGED project
      BY <1>2, <3>2, TakesBack
    <3>3. CASE ~(Holds(a, Rollback(a)) /\ UNCHANGED project)
      <4>1. project' = [project EXCEPT ![p] =
                            IF change.kind = "deleted" THEN NoFile ELSE mirror[p]]
        BY <2>4, <3>3 DEF MakeChange
      <4>2. change.kind = "deleted" => mirror[p] = NoFile
        BY <3>1, ChangesLead DEF TypeOK
      <4>3. project'[p] = mirror[p] /\ \A q \in Path \ {p} : project'[q] = project[q]
        BY <3>1, <4>1, <4>2 DEF TypeOK, Tree
      <4>4. CASE /\ change.kind = "renamed"
                 /\ Holds(a, [proc[a] EXCEPT !.pc = "unlink", !.copied = p])
        <5>1. /\ proc'[a].pc = "unlink" /\ proc'[a].applied = proc[a].applied
              /\ proc'[a].copied = p
          BY <4>4, HasCopied
        <5>2. \A q \in Changed(a)' : q = p \/ q \in Changed(a)
          BY <5>1 DEF Changed
        <5>3. \A q \in Untouched \cap Changed(a)' : project'[q] = mirror'[q]
          BY <1>1, <2>2, <4>3, <5>2
        <5> QED
          BY <1>1, <5>1, <5>3 DEF Progress, Changing, At
      <4>5. CASE change.kind # "renamed" /\ Holds(a, Counted(a, change))
        <5>1. /\ proc'[a].pc = "change" /\ proc'[a].applied = proc[a].applied \cup {change}
              /\ proc'[a].copied = None
          BY <4>5, HasChanged
        <5>2. \A q \in PathsIn(proc[a].applied \cup {change}) :
                  q \in PathsIn(proc[a].applied) \/ q = p
          BY <4>5, PathsGrow
        <5>3. \A q \in Changed(a)' : q = p \/ q \in Changed(a)
          BY <2>1, <5>1, <5>2 DEF Changed
        <5>4. \A q \in Untouched \cap Changed(a)' : project'[q] = mirror'[q]
          BY <1>1, <2>2, <4>3, <5>3
        <5> QED
          BY <1>1, <5>1, <5>4 DEF Progress, Changing, At
      <4> QED
        BY <2>4, <3>3, <4>4, <4>5 DEF MakeChange
    <3> QED
      BY <3>2, <3>3
  <2> QED
    BY <1>7, <2>3, <2>4 DEF Change
<1>8. CASE UnlinkPrevious(a)
  <2>1. At(a, "unlink") /\ proc[a].changes = Changes(baseline, mirror)
    BY <1>8 DEF UnlinkPrevious, At, Mirrored, Busy, Applying
  <2>2. \A q \in Untouched \cap Changed(a) : project[q] = mirror[q]
    BY <2>1 DEF Progress, Changing, At
  <2>3. PICK change \in Coming(a) :
            /\ change.kind = "renamed" /\ change.path = proc[a].copied
            /\ IF project[change.previous] = NoFile
                  THEN Holds(a, Rollback(a)) /\ UNCHANGED project
                  ELSE /\ project' = [project EXCEPT ![change.previous] = NoFile]
                       /\ Holds(a, Counted(a, change))
    BY <1>8 DEF UnlinkPrevious
  <2>4. CASE Holds(a, Rollback(a))
    BY <1>2, <2>4, TakesBack
  <2>5. CASE project' = [project EXCEPT ![change.previous] = NoFile] /\ Holds(a, Counted(a, change))
    <3> DEFINE p == change.previous
    <3>1. change \in Changes(baseline, mirror)
      BY <2>1 DEF Coming
    <3>2. mirror[p] = NoFile
      BY <2>3, <3>1, ChangesLead DEF TypeOK
    <3>3. \A q \in Path : IF q = p THEN project'[q] = mirror[q] ELSE project'[q] = project[q]
      BY <2>5, <3>2 DEF TypeOK, Tree
    <3>4. /\ proc'[a].pc = "change" /\ proc'[a].applied = proc[a].applied \cup {change}
          /\ proc'[a].copied = None
      BY <2>5, HasChanged
    <3>5. \A q \in PathsIn(proc[a].applied \cup {change}) :
              q \in PathsIn(proc[a].applied) \/ q = change.path \/ q = p
      BY PathsGrow
    <3>6. \A q \in Changed(a)' : q = p \/ q = None \/ q \in Changed(a)
      BY <2>3, <3>4, <3>5 DEF Changed
    <3>7. None \notin Untouched
      BY <1>1, ConstantsAssumption
    <3>8. \A q \in Untouched \cap Changed(a)' : project'[q] = mirror'[q]
      BY <1>1, <2>2, <3>3, <3>6, <3>7
    <3> QED
      BY <1>1, <3>4, <3>8 DEF Progress, Changing, At
  <2> QED
    BY <2>3, <2>4, <2>5
<1>9. CASE Validate(a)
  <2>1. At(a, "validate") /\ UNCHANGED project /\ proc[a].changes = Changes(baseline, mirror)
    BY <1>9 DEF Validate, At, Mirrored, Busy, Applying, OnlyProc, Files
  <2>2. CASE Holds(a, Rollback(a))
    BY <1>2, <2>2, TakesBack
  <2>3. CASE Goes(a, "applied")
    <3>1. Changed(a) = PathsIn(Changes(baseline, mirror)) \cup {None}
      BY <2>1 DEF Work, Progress, Changing, Changed, At
    <3>2. ASSUME NEW p \in Untouched PROVE project[p] = mirror[p]
      <4>1. CASE p \in Changed(a)
        BY <2>1, <4>1 DEF Progress, Changing, At
      <4>2. CASE p \notin Changed(a)
        <5>1. project[p] = baseline[p]
          BY <2>1, <4>2 DEF Work, Changing, At
        <5>2. baseline[p] = mirror[p]
          BY <1>1, <3>1, <4>2, ChangesCover DEF TypeOK
        <5> QED
          BY <5>1, <5>2
      <4> QED
        BY <4>1, <4>2
    <3>3. proc'[a].pc = "applied"
      BY <2>3, GoesOn
    <3> QED
      BY <1>1, <2>1, <3>2, <3>3 DEF Progress, Changing, At
  <2> QED
    BY <1>9, <2>2, <2>3 DEF Validate
<1>10. CASE Fails(a)
  BY <1>2, <1>10, GoesOn, TakesBack DEF Fails
<1>11. CASE RollBack(a)
  <2>1. proc'[a].pc \in {"rollback", "refused"}
    BY <1>11, GoesOn, HasDone DEF RollBack, At
  <2> QED
    BY <1>2, <2>1
<1>12. CASE RollbackFails(a)
  BY <1>2, <1>12 DEF RollbackFails, Holds, TypeOK, Process
<1>13. CASE Return(a) \/ Crash(a)
  BY <1>2, <1>13 DEF Return, Crash, Holds, Resting, TypeOK
<1> QED
  BY <1>3, <1>4, <1>5, <1>6, <1>7, <1>8, <1>9, <1>10, <1>11, <1>12, <1>13 DEF Apply

LEMMA ProgressStep ==
    ASSUME TypeOK, Fresh, ~moved => Mirrored, \A a \in Applier : Work(a),
           ~moved => \A a \in Applier : Progress(a), Alone, Alone', [Next]_vars, ~moved'
    PROVE  \A a \in Applier : Progress(a)'
<1>1. ASSUME NEW a \in Applier, CheckMirror(a) PROVE \A b \in Applier : Progress(b)'
  <2>1. \A b \in Applier \ {a} : proc'[b] = proc[b]
    BY <1>1, ApplyFrame DEF Apply
  <2>2. UNCHANGED <<mirror, project, edited>>
    BY <1>1 DEF CheckMirror, Files
  <2>3. proc'[a].pc \in {"checkProject", "conflict"}
    <3>1. CASE Goes(a, "conflict")
      BY <3>1, GoesOn
    <3>2. CASE Holds(a, [Resting EXCEPT !.pc = "checkProject", !.changes = confirmed])
      BY <3>2 DEF Holds, Resting, TypeOK
    <3> QED
      BY <1>1, <3>1, <3>2 DEF CheckMirror
  <2>4. Progress(a)'
    BY <2>3 DEF Progress, Changing, At
  <2>5. ASSUME NEW b \in Applier \ {a} PROVE Progress(b)'
    <3>1. CASE moved
      <4>1. At(b, "rest")
        BY <1>1, <3>1 DEF CheckMirror
      <4> QED
        BY <2>1, <4>1 DEF Progress, Changing, At
    <3>2. CASE ~moved
      BY <2>1, <2>2, <3>2 DEF Progress, Changing, Changed, At, Untouched
    <3> QED
      BY <3>1, <3>2
  <2> QED
    BY <2>4, <2>5
<1>2. ASSUME NEW a \in Applier, Apply(a), ~CheckMirror(a)
      PROVE  \A b \in Applier : Progress(b)'
  <2>1. ~moved /\ UNCHANGED <<mirror, edited>>
    BY <1>2, ApplyFrame
  <2>2. Progress(a)'
    BY <1>2, <2>1, OwnProgress
  <2>3. ASSUME NEW b \in Applier \ {a} PROVE Progress(b)'
    <3>1. proc'[b] = proc[b]
      BY <1>2, ApplyFrame
    <3>2. CASE ~Busy(b)
      BY <3>1, <3>2 DEF Busy, Applying, Ended, Progress, Changing, At
    <3>3. CASE Busy(b)
      <4>1. ~Busy(a) /\ ~Busy(a)'
        <5>1. Busy(b)'
          BY <3>1, <3>3 DEF Busy, Applying, Ended
        <5> QED
          BY <3>3, <5>1 DEF Alone
      <4>2. UNCHANGED project
        BY <1>2, <4>1 DEF Apply, CheckMirror, CheckProject, ClearBackup, Backup, Change,
           UnlinkPrevious, Validate, Fails, RollBack, RollbackFails, Return, Crash, At, Busy,
           Applying, Ended, OnlyProc, Files
      <4> QED
        BY <2>1, <3>1, <4>2 DEF Progress, Changing, Changed, At, Untouched
    <3> QED
      BY <3>2, <3>3
  <2> QED
    BY <2>2, <2>3
<1>3. CASE Show \/ UNCHANGED vars
  <2>1. UNCHANGED <<mirror, project, edited, proc, moved>>
    BY <1>3 DEF Show, vars, Files, History
  <2> QED
    BY <2>1 DEF Progress, Changing, Changed, At, Untouched
<1>4. CASE EditProject
  <2>1. PICK p \in Path, c \in Content \cup {NoFile} :
            project' = [project EXCEPT ![p] = c] /\ edited' = edited \cup {p}
    BY <1>4 DEF EditProject
  <2>2. Untouched' \subseteq Untouched /\ \A q \in Untouched' : project'[q] = project[q]
    BY <2>1 DEF Untouched, TypeOK, Tree
  <2>3. UNCHANGED <<mirror, proc, moved>>
    BY <1>4 DEF EditProject
  <2> QED
    BY <2>2, <2>3 DEF Progress, Changing, Changed, At
<1>5. CASE EditMirror \/ Discard
  BY <1>5 DEF EditMirror, Discard
<1> QED
  BY <1>1, <1>2, <1>3, <1>4, <1>5 DEF Next

-----------------------------------------------------------------------------
(* The theorems *)

LEMMA Step == IInv /\ [Next]_vars => IInv'
<1> SUFFICES ASSUME IInv, [Next]_vars PROVE IInv'
  OBVIOUS
<1>1. TypeOK' /\ Looked' /\ Fresh'
  BY TypeStep, LookedStep, FreshStep DEF IInv
<1>2. ~moved' => Mirrored'
  BY MirroredStep DEF IInv
<1>3. ASSUME ~disturbed' PROVE ~disturbed /\ Alone'
  BY <1>3, AloneStep DEF IInv
<1>4. ASSUME ~disturbed' PROVE Alone' /\ Kept' /\ \A a \in Applier : Work(a)'
  BY <1>3, <1>4, WorkStep DEF IInv
<1>5. ASSUME ~disturbed', ~moved' PROVE \A a \in Applier : Progress(a)'
  BY <1>3, <1>5, ProgressStep DEF IInv
<1> QED
  BY <1>1, <1>2, <1>4, <1>5 DEF IInv

LEMMA Invariance == Spec => []IInv
  BY Initially, Step, PTL DEF Spec

(* Every variable of WorkspaceApply keeps its type. *)
THEOREM TypeCorrect == Spec => []TypeOK
<1>1. IInv => TypeOK
  BY DEF IInv
<1> QED
  BY <1>1, Invariance, PTL

(* A refused application leaves the project as it was, but for the copy of  *)
(* a rename whose removal failed.                                          *)
THEOREM RefusalUndoes == Spec => []RefusedIsUndone
<1>1. IInv => RefusedIsUndone
  BY DEF IInv, RefusedIsUndone, Work, Untouched, At
<1> QED
  BY <1>1, Invariance, PTL

(* The backup holds what an application replaced, also after a crash. *)
THEOREM BackupHolds == Spec => []OriginalsKept
<1>1. IInv => OriginalsKept
  BY DEF IInv, OriginalsKept, Kept, Untouched
<1> QED
  BY <1>1, Invariance, PTL

(* What was applied is the mirror, whatever compare made of the two trees. *)
THEOREM MirrorApplied == Spec => []AppliedIsMirror
<1>1. IInv => AppliedIsMirror
  BY DEF IInv, AppliedIsMirror, Progress, Untouched, At
<1> QED
  BY <1>1, Invariance, PTL

(* No application overwrites an edit made before it looked. *)
THEOREM EditsKept == Spec => EditsSurvive
<1>1. ASSUME IInv, [Next]_vars
      PROVE  [proc' # proc =>
                 \A p \in unseen : project'[p] = project[p] \/ p \notin unseen']_vars
  <2>1. ASSUME NEW a \in Applier, Apply(a)
        PROVE  \A p \in unseen : project'[p] = project[p]
    <3>1. CASE unseen = {}
      BY <3>1
    <3>2. CASE ~Applying(a)
      <4>1. UNCHANGED project
        BY <2>1, <3>2 DEF Apply, CheckMirror, CheckProject, ClearBackup, Backup, Change,
           UnlinkPrevious, Validate, Fails, RollBack, RollbackFails, Return, Crash, At,
           Applying, OnlyProc, Files
      <4> QED
        BY <4>1
    <3> QED
      BY <1>1, <3>1, <3>2 DEF IInv, Looked
  <2>2. CASE Show \/ EditProject \/ EditMirror \/ Discard \/ UNCHANGED vars
    BY <1>1, <2>2, OthersFrame DEF IInv
  <2> QED
    BY <1>1, <2>1, <2>2 DEF Next
<1> QED
  BY <1>1, Invariance, PTL DEF Spec, EditsSurvive
=============================================================================
