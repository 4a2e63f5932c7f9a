------------------------------ MODULE FileLock ------------------------------
(***************************************************************************)
(* The inter-process lock file behind every store of arka-norn:            *)
(* src/src/adapters/outbound/filesystem/_shared/file-lock.ts.              *)
(*                                                                         *)
(* A caller is ONE invocation of withFileLock on a fixed target, or, for   *)
(* the members of Doctor, one invocation of repairAbandonedFileLock; the   *)
(* caller stands for the random token the code writes in the lock file.    *)
(* Every system call between two awaits is one step, so that the steps of  *)
(* several processes interleave as they do on a real file system.  A       *)
(* process may end, normally or not, at any moment: its callers stop and   *)
(* the files they created stay.                                            *)
(***************************************************************************)
EXTENDS Naturals

CONSTANTS
    Caller,     \* invocations, each with its own token
    Doctor,     \* those that are doctor repairs, not lock requests
    Process,    \* operating-system processes
    ProcOf,     \* the process (pid) each caller runs in
    None        \* "no such file"

ASSUME CallerAssumption ==
    /\ Doctor \subseteq Caller
    /\ ProcOf \in [Caller -> Process]
    /\ None \notin Caller

VARIABLES
    owner,      \* creator of the lock file, None when there is no file
    written,    \* the lock file holds complete, parsable metadata
    stale,      \* its mtime is more than staleMs old
    reaper,     \* creator of the .reaper file, None when there is no file
    alive,      \* processes that still run
    pc,         \* where each caller is
    seen,       \* the owner a reaping caller read from the lock file
    exitRaced   \* history: a process ended between the reading of its lock
                \* file by a reaper and the reaper's probe of its pid, after
                \* it had released the lock the reaper read

vars == <<owner, written, stale, reaper, alive, pc, seen, exitRaced>>

Labels == {"idle", "open", "write", "critical", "releaseRead", "releaseUnlink",
           "reapStat", "reapOpen", "reapRestat", "reapRead", "reapProbe",
           "reapUnlink", "reapExitTrue", "reapExitFalse", "check",
           "done", "failed"}

Runs(c) == ProcOf[c] \in alive

Init ==
    /\ owner = None
    /\ written = FALSE
    /\ stale = FALSE
    /\ reaper = None
    /\ alive = Process
    /\ pc = [c \in Caller |-> "idle"]
    /\ seen = [c \in Caller |-> None]
    /\ exitRaced = FALSE

-----------------------------------------------------------------------------
(* withFileLock: the acquisition loop *)

Goto(c, label) == pc' = [pc EXCEPT ![c] = label]

File == <<owner, written, stale>>

Unlink == owner' = None /\ written' = FALSE /\ stale' = FALSE

(* The value reapAbandonedLock returned decides what its caller does next:  *)
(* the doctor reports it, the acquisition loop retries at once or goes on   *)
(* to look at its deadline.                                                 *)
AfterReap(c, removed) ==
    IF c \in Doctor THEN "done" ELSE IF removed THEN "open" ELSE "check"

Start(c) ==
    /\ pc[c] = "idle"
    /\ Goto(c, IF c \in Doctor THEN "reapStat" ELSE "open")
    /\ UNCHANGED <<File, reaper, alive, seen, exitRaced>>

(* fs.open(lockPath, "wx") creates the file, empty and young. *)
Create(c) ==
    /\ pc[c] = "open" /\ owner = None
    /\ owner' = c /\ written' = FALSE /\ stale' = FALSE
    /\ Goto(c, "write")
    /\ UNCHANGED <<reaper, alive, seen, exitRaced>>

(* EEXIST: somebody's lock file is there. *)
Contend(c) ==
    /\ pc[c] = "open" /\ owner # None
    /\ Goto(c, "reapStat")
    /\ UNCHANGED <<File, reaper, alive, seen, exitRaced>>

(* writeFile and sync succeed: the lock is held and the operation runs.  A  *)
(* file unlinked meanwhile is written through the open handle only.         *)
Write(c) ==
    /\ pc[c] = "write"
    /\ IF owner = c THEN written' = TRUE /\ stale' = FALSE
                    ELSE UNCHANGED <<written, stale>>
    /\ Goto(c, "critical")
    /\ UNCHANGED <<owner, reaper, alive, seen, exitRaced>>

(* writeFile or sync fails: the error is not a contention, it is rethrown,  *)
(* and neither the file nor the handle is cleaned up.                       *)
WriteFails(c) ==
    /\ pc[c] = "write"
    /\ IF owner = c THEN written' \in BOOLEAN /\ stale' = FALSE
                    ELSE UNCHANGED <<written, stale>>
    /\ Goto(c, "failed")
    /\ UNCHANGED <<owner, reaper, alive, seen, exitRaced>>

(* Nothing was removed: try again after the delay... *)
Poll(c) ==
    /\ pc[c] = "check"
    /\ Goto(c, "open")
    /\ UNCHANGED <<File, reaper, alive, seen, exitRaced>>

(* Mutant of GiveUp: the deadline is never looked at. *)
GiveUp_NoDeadline(c) ==
    /\ pc[c] = "check"
    /\ Goto(c, "open")
    /\ UNCHANGED <<File, reaper, alive, seen, exitRaced>>

(* ... or throw LockConflictError, once timeoutMs has elapsed. *)
GiveUp(c) ==
    /\ pc[c] = "check"
    /\ Goto(c, "failed")
    /\ UNCHANGED <<File, reaper, alive, seen, exitRaced>>

(* operation() returned or threw. *)
Finish(c) ==
    /\ pc[c] = "critical"
    /\ Goto(c, "releaseRead")
    /\ UNCHANGED <<File, reaper, alive, seen, exitRaced>>

(* releaseOwnedLock reads the token, and only then unlinks. *)
ReleaseRead(c) ==
    /\ pc[c] = "releaseRead"
    /\ Goto(c, IF owner = c /\ written THEN "releaseUnlink" ELSE "done")
    /\ UNCHANGED <<File, reaper, alive, seen, exitRaced>>

ReleaseUnlink(c) ==
    /\ pc[c] = "releaseUnlink"
    /\ Unlink
    /\ Goto(c, "done")
    /\ UNCHANGED <<reaper, alive, seen, exitRaced>>

-----------------------------------------------------------------------------
(* reapAbandonedLock *)

ReapStat(c) ==
    /\ pc[c] = "reapStat"
    /\ Goto(c, IF owner # None /\ stale THEN "reapOpen" ELSE AfterReap(c, FALSE))
    /\ UNCHANGED <<File, reaper, alive, seen, exitRaced>>

(* The .reaper file admits one reaper; its existence is never questioned. *)
ReapOpen(c) ==
    /\ pc[c] = "reapOpen" /\ reaper = None
    /\ reaper' = c
    /\ Goto(c, "reapRestat")
    /\ UNCHANGED <<File, alive, seen, exitRaced>>

ReapContended(c) ==
    /\ pc[c] = "reapOpen" /\ reaper # None
    /\ Goto(c, AfterReap(c, FALSE))
    /\ UNCHANGED <<File, reaper, alive, seen, exitRaced>>

ReapRestat(c) ==
    /\ pc[c] = "reapRestat"
    /\ Goto(c, IF owner # None /\ stale THEN "reapRead" ELSE "reapExitFalse")
    /\ UNCHANGED <<File, reaper, alive, seen, exitRaced>>

(* Mutant of ReapRead: an empty lock file counts as the file of its creator. *)
ReapRead_TrustsEmpty(c) ==
    /\ pc[c] = "reapRead"
    /\ IF owner # None
         THEN seen' = [seen EXCEPT ![c] = owner] /\ Goto(c, "reapProbe")
         ELSE UNCHANGED seen /\ Goto(c, "reapExitFalse")
    /\ UNCHANGED <<File, reaper, alive, exitRaced>>

(* readLockOwner: an absent, empty or unparsable file has no owner. *)
ReapRead(c) ==
    /\ pc[c] = "reapRead"
    /\ IF owner # None /\ written
         THEN seen' = [seen EXCEPT ![c] = owner] /\ Goto(c, "reapProbe")
         ELSE UNCHANGED seen /\ Goto(c, "reapExitFalse")
    /\ UNCHANGED <<File, reaper, alive, exitRaced>>

(* Mutant of ReapProbe: age alone condemns a lock. *)
ReapProbe_AgeOnly(c) ==
    /\ pc[c] = "reapProbe"
    /\ Goto(c, "reapUnlink")
    /\ UNCHANGED <<File, reaper, alive, seen, exitRaced>>

(* isProcessAlive(owner.pid), of the owner that was read. *)
ReapProbe(c) ==
    /\ pc[c] = "reapProbe"
    /\ Goto(c, IF ProcOf[seen[c]] \in alive THEN "reapExitFalse" ELSE "reapUnlink")
    /\ UNCHANGED <<File, reaper, alive, seen, exitRaced>>

(* fs.unlink(lockPath) removes whatever file is there now. *)
ReapUnlink(c) ==
    /\ pc[c] = "reapUnlink"
    /\ Unlink
    /\ Goto(c, "reapExitTrue")
    /\ UNCHANGED <<reaper, alive, seen, exitRaced>>

ReapExit(c) ==
    /\ pc[c] \in {"reapExitTrue", "reapExitFalse"}
    /\ reaper' = None
    /\ seen' = [seen EXCEPT ![c] = None]
    /\ Goto(c, AfterReap(c, pc[c] = "reapExitTrue"))
    /\ UNCHANGED <<File, alive, exitRaced>>

-----------------------------------------------------------------------------
(* Time and the end of processes *)

Age ==
    /\ owner # None /\ ~stale
    /\ stale' = TRUE
    /\ UNCHANGED <<owner, written, reaper, alive, pc, seen, exitRaced>>

(* A reaper is about to probe a process for a lock that process no longer has. *)
ProbesStaleReading(p) ==
    \E c \in Caller : /\ pc[c] = "reapProbe" /\ ProcOf[seen[c]] = p
                      /\ owner # seen[c]

Exit(p) ==
    /\ p \in alive
    /\ alive' = alive \ {p}
    /\ exitRaced' = (exitRaced \/ ProbesStaleReading(p))
    /\ UNCHANGED <<File, reaper, pc, seen>>

(* What a caller does by itself once its process schedules it. *)
Step(c) ==
    /\ Runs(c)
    /\ \/ Create(c) \/ Contend(c) \/ Write(c) \/ WriteFails(c) \/ Poll(c) \/ GiveUp(c)
       \/ Finish(c) \/ ReleaseRead(c) \/ ReleaseUnlink(c)
       \/ ReapStat(c) \/ ReapOpen(c) \/ ReapContended(c) \/ ReapRestat(c)
       \/ ReapRead(c) \/ ReapProbe(c) \/ ReapUnlink(c) \/ ReapExit(c)

Next ==
    \/ \E c \in Caller : (Runs(c) /\ Start(c)) \/ Step(c)
    \/ Age
    \/ \E p \in Process : Exit(p)

(* Every process runs the callbacks that are ready, the operation under the *)
(* lock returns, and time passes: files age, and a caller that polls again  *)
(* and again finds its timeout elapsed.  No process has to start or to end. *)
Fairness ==
    /\ \A c \in Caller : /\ WF_vars(Step(c))
                         /\ SF_vars(Runs(c) /\ GiveUp(c))
    /\ WF_vars(Age)

Spec == Init /\ [][Next]_vars

FairSpec == Spec /\ Fairness

-----------------------------------------------------------------------------
(* Properties *)

(* Every variable keeps its type. *)
TypeOK ==
    /\ owner \in Caller \cup {None}
    /\ written \in BOOLEAN
    /\ stale \in BOOLEAN
    /\ reaper \in Caller \cup {None}
    /\ alive \subseteq Process
    /\ pc \in [Caller -> Labels]
    /\ seen \in [Caller -> Caller \cup {None}]
    /\ exitRaced \in BOOLEAN

Holding == {c \in Caller : Runs(c) /\ pc[c] \in {"critical", "releaseRead", "releaseUnlink"}}

(* At most one running caller is inside the operation that withFileLock    *)
(* protects (file-lock.ts:85-90), however old its lock file has become and *)
(* whatever the reapers do.                                                *)
MutualExclusion == \A c, d \in Holding : c = d

(* The same, as long as no process ended between a reaper's reading of its *)
(* released lock file and the reaper's probe (file-lock.ts:107-108).       *)
ExclusionUnlessExitRaced == exitRaced \/ MutualExclusion

Reaping(c) == pc[c] \in {"reapRestat", "reapRead", "reapProbe", "reapUnlink",
                         "reapExitTrue", "reapExitFalse"}

(* The .reaper file belongs to whoever works under it (file-lock.ts:96-116): *)
(* no two processes decide about the same lock file at once.                 *)
OneReaper == \A c \in Caller : Reaping(c) => reaper = c

(* What inspectFileLock reports, for the doctor. *)
Inspection ==
    IF owner = None THEN "absent"
    ELSE IF ~written THEN "invalid"
    ELSE IF stale /\ ~Runs(owner) THEN "abandoned" ELSE "active"

(* A lock file disappears only by the hand of the caller that created it,   *)
(* or once its process is dead; one without metadata is never removed, it   *)
(* is left for manual review (fs-doctor.ts:162).                            *)
RemovedRightfully ==
    [][(owner # None /\ owner' # owner) =>
          \/ exitRaced
          \/ owner' = None /\ written
             /\ (pc[owner] = "releaseUnlink" \/ ~Runs(owner))]_vars

(* Every request ends: it enters and leaves, reports a conflict, or its     *)
(* process ends.  A leftover .reaper or an unreadable lock only costs the   *)
(* timeout (file-lock.ts:81).                                               *)
RequestsSettle ==
    \A c \in Caller :
        (pc[c] = "open") ~> (pc[c] \in {"done", "failed"} \/ ~Runs(c))

(* A request that meets an abandoned lock gets it removed, by itself or by  *)
(* another, unless its own process ends first.                              *)
AbandonedIsRecovered ==
    \A c \in Caller :
        (pc[c] = "open" /\ Inspection = "abandoned")
            ~> (Inspection # "abandoned" \/ ~Runs(c))
=============================================================================
