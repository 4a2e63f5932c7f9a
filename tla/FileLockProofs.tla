--------------------------- MODULE FileLockProofs ---------------------------
(***************************************************************************)
(* What TLAPS proves of FileLock, for any number of callers and processes. *)
(*                                                                         *)
(* Mutual exclusion is not inductive.  What makes it so: a file on disk    *)
(* says where its creator can be (OwnerPlace), a running holder's file is  *)
(* still the one on disk (HolderOwns), a reaper works under its own        *)
(* .reaper file (OneReaper), what it read was complete metadata of a       *)
(* request past its write (SeenPlace), and once it found that process dead *)
(* the file it is about to unlink is still the one it read                 *)
(* (VerdictHolds).  HolderOwns and VerdictHolds fail once exitRaced.       *)
(***************************************************************************)
EXTENDS FileLock, TLAPS

OwnerPlace ==
    owner # None =>
        /\ pc[owner] \in {"write", "critical", "releaseRead", "releaseUnlink",
                          "failed", "done"}
        /\ pc[owner] = "write" => ~written

SeenPlace ==
    \A c \in Caller : pc[c] \in {"reapProbe", "reapUnlink"} =>
        /\ seen[c] \in Caller
        /\ pc[seen[c]] \in {"critical", "releaseRead", "releaseUnlink", "failed", "done"}
        /\ owner = seen[c] => written

HolderOwns ==
    \A c \in Caller :
        Runs(c) /\ pc[c] \in {"write", "critical", "releaseRead", "releaseUnlink"} =>
            owner = c /\ (pc[c] # "write" => written)

VerdictHolds ==
    \A c \in Caller :
        /\ (pc[c] = "reapProbe" /\ ~Runs(seen[c])) => owner = seen[c]
        /\ pc[c] = "reapUnlink" => ~Runs(seen[c]) /\ owner = seen[c]

(* The part that holds whatever happens, and the part a raced exit breaks. *)
Shape == TypeOK /\ OneReaper /\ OwnerPlace /\ SeenPlace

IInv == Shape /\ (~exitRaced => HolderOwns /\ VerdictHolds)

-----------------------------------------------------------------------------
(* Every variable keeps its type in every behaviour. *)
LEMMA TypeStep == TypeOK /\ OneReaper /\ SeenPlace /\ [Next]_vars => TypeOK'
  <1> SUFFICES ASSUME TypeOK, SeenPlace, [Next]_vars PROVE TypeOK'
    OBVIOUS
  <1> USE CallerAssumption DEF TypeOK, Labels, Goto, File, Unlink, AfterReap
  <1>1. ASSUME NEW c \in Caller, Start(c) PROVE TypeOK'
    BY <1>1 DEF Start
  <1>2. ASSUME NEW c \in Caller, Create(c) \/ Contend(c) \/ Write(c) \/ WriteFails(c)
        PROVE TypeOK'
    BY <1>2 DEF Create, Contend, Write, WriteFails
  <1>3. ASSUME NEW c \in Caller,
               Poll(c) \/ GiveUp(c) \/ Finish(c) \/ ReleaseRead(c) \/ ReleaseUnlink(c)
        PROVE TypeOK'
    BY <1>3 DEF Poll, GiveUp, Finish, ReleaseRead, ReleaseUnlink
  <1>4. ASSUME NEW c \in Caller,
               ReapStat(c) \/ ReapOpen(c) \/ ReapContended(c) \/ ReapRestat(c)
        PROVE TypeOK'
    BY <1>4 DEF ReapStat, ReapOpen, ReapContended, ReapRestat
  <1>5. ASSUME NEW c \in Caller,
               ReapRead(c) \/ ReapProbe(c) \/ ReapUnlink(c) \/ ReapExit(c)
        PROVE TypeOK'
    <2>1. CASE ReapRead(c)
      BY <2>1 DEF ReapRead
    <2>2. CASE ReapProbe(c)
      BY <2>2 DEF ReapProbe
    <2>3. CASE ReapUnlink(c)
      BY <2>3 DEF ReapUnlink
    <2>4. CASE ReapExit(c)
      BY <2>4 DEF ReapExit
    <2> QED BY <1>5, <2>1, <2>2, <2>3, <2>4
  <1>6. CASE Age
    BY <1>6 DEF Age
  <1>7. ASSUME NEW p \in Process, Exit(p) PROVE TypeOK'
    <2>1. ProbesStaleReading(p) \in BOOLEAN
      BY DEF ProbesStaleReading
    <2> QED BY <1>7, <2>1 DEF Exit
  <1>8. CASE UNCHANGED vars
    BY <1>8 DEF vars
  <1> QED BY <1>1, <1>2, <1>3, <1>4, <1>5, <1>6, <1>7, <1>8 DEF Next, Step

(* The shape is inductive: which step a caller is at, who made the files. *)
LEMMA ShapeStep == Shape /\ [Next]_vars => Shape'
  <1> SUFFICES ASSUME Shape, [Next]_vars PROVE (OneReaper /\ OwnerPlace /\ SeenPlace)'
    BY TypeStep DEF Shape
  <1> USE CallerAssumption
      DEF Shape, TypeOK, Labels, Goto, File, Unlink, AfterReap,
          OneReaper, Reaping, OwnerPlace, SeenPlace
  <1>1. ASSUME NEW c \in Caller, Start(c) PROVE (OneReaper /\ OwnerPlace /\ SeenPlace)'
    BY <1>1 DEF Start
  <1>2. ASSUME NEW c \in Caller, Create(c) PROVE (OneReaper /\ OwnerPlace /\ SeenPlace)'
    BY <1>2 DEF Create
  <1>3. ASSUME NEW c \in Caller, Contend(c) PROVE (OneReaper /\ OwnerPlace /\ SeenPlace)'
    BY <1>3 DEF Contend
  <1>4. ASSUME NEW c \in Caller, Write(c) PROVE (OneReaper /\ OwnerPlace /\ SeenPlace)'
    BY <1>4 DEF Write
  <1>5. ASSUME NEW c \in Caller, WriteFails(c)
        PROVE (OneReaper /\ OwnerPlace /\ SeenPlace)'
    BY <1>5 DEF WriteFails
  <1>6. ASSUME NEW c \in Caller, Poll(c) \/ GiveUp(c)
        PROVE (OneReaper /\ OwnerPlace /\ SeenPlace)'
    BY <1>6 DEF Poll, GiveUp
  <1>7. ASSUME NEW c \in Caller, Finish(c) \/ ReleaseRead(c)
        PROVE (OneReaper /\ OwnerPlace /\ SeenPlace)'
    BY <1>7 DEF Finish, ReleaseRead
  <1>8. ASSUME NEW c \in Caller, ReleaseUnlink(c)
        PROVE (OneReaper /\ OwnerPlace /\ SeenPlace)'
    BY <1>8 DEF ReleaseUnlink
  <1>9. ASSUME NEW c \in Caller, ReapStat(c) \/ ReapContended(c)
        PROVE (OneReaper /\ OwnerPlace /\ SeenPlace)'
    BY <1>9 DEF ReapStat, ReapContended
  <1>10. ASSUME NEW c \in Caller, ReapOpen(c)
        PROVE (OneReaper /\ OwnerPlace /\ SeenPlace)'
    BY <1>10 DEF ReapOpen
  <1>11. ASSUME NEW c \in Caller, ReapRestat(c) \/ ReapProbe(c)
        PROVE (OneReaper /\ OwnerPlace /\ SeenPlace)'
    BY <1>11 DEF ReapRestat, ReapProbe
  <1>12. ASSUME NEW c \in Caller, ReapRead(c)
        PROVE (OneReaper /\ OwnerPlace /\ SeenPlace)'
    BY <1>12 DEF ReapRead
  <1>13. ASSUME NEW c \in Caller, ReapUnlink(c)
        PROVE (OneReaper /\ OwnerPlace /\ SeenPlace)'
    BY <1>13 DEF ReapUnlink
  <1>14. ASSUME NEW c \in Caller, ReapExit(c)
        PROVE (OneReaper /\ OwnerPlace /\ SeenPlace)'
    BY <1>14 DEF ReapExit
  <1>15. CASE Age \/ UNCHANGED vars
    BY <1>15 DEF Age, vars
  <1>16. ASSUME NEW p \in Process, Exit(p) PROVE (OneReaper /\ OwnerPlace /\ SeenPlace)'
    BY <1>16 DEF Exit
  <1> QED BY <1>1, <1>2, <1>3, <1>4, <1>5, <1>6, <1>7, <1>8, <1>9, <1>10, <1>11,
             <1>12, <1>13, <1>14, <1>15, <1>16 DEF Next, Step

(* As long as no exit raced a reaper, a running holder's file stays on disk *)
(* until the holder unlinks it, and a reaper unlinks the file it judged.    *)
LEMMA SafeStep ==
    IInv /\ [Next]_vars /\ ~exitRaced' => (HolderOwns /\ VerdictHolds)'
  <1> SUFFICES ASSUME IInv, [Next]_vars, ~exitRaced'
               PROVE (HolderOwns /\ VerdictHolds)'
    OBVIOUS
  <1>0. ~exitRaced
    <2>1. ASSUME NEW p \in Process, Exit(p) PROVE ~exitRaced
      BY <2>1 DEF Exit, IInv, Shape, TypeOK
    <2>2. CASE ~ \E p \in Process : Exit(p)
      BY <2>2 DEF Next, Step, Start, Create, Contend, Write, WriteFails, Poll, GiveUp,
                  Finish, ReleaseRead, ReleaseUnlink, ReapStat, ReapOpen,
                  ReapContended, ReapRestat, ReapRead, ReapProbe, ReapUnlink,
                  ReapExit, Age, vars
    <2> QED BY <2>1, <2>2
  <1> USE <1>0, CallerAssumption
      DEF IInv, Shape, TypeOK, Labels, Goto, File, Unlink, AfterReap, Runs,
          OneReaper, Reaping, OwnerPlace, SeenPlace, HolderOwns, VerdictHolds
  <1>1. ASSUME NEW c \in Caller, Start(c)
        PROVE (HolderOwns /\ VerdictHolds)'
    BY <1>1 DEF Start
  <1>2. ASSUME NEW c \in Caller, Create(c)
        PROVE (HolderOwns /\ VerdictHolds)'
    BY <1>2 DEF Create
  <1>3. ASSUME NEW c \in Caller, Contend(c)
        PROVE (HolderOwns /\ VerdictHolds)'
    BY <1>3 DEF Contend
  <1>4. ASSUME NEW c \in Caller, Runs(c), Write(c)
        PROVE (HolderOwns /\ VerdictHolds)'
    BY <1>4 DEF Write
  <1>5. ASSUME NEW c \in Caller, Runs(c), WriteFails(c)
        PROVE (HolderOwns /\ VerdictHolds)'
    BY <1>5 DEF WriteFails
  <1>6. ASSUME NEW c \in Caller, Poll(c) \/ GiveUp(c)
        PROVE (HolderOwns /\ VerdictHolds)'
    BY <1>6 DEF Poll, GiveUp
  <1>7. ASSUME NEW c \in Caller, Finish(c)
        PROVE (HolderOwns /\ VerdictHolds)'
    BY <1>7 DEF Finish
  <1>8. ASSUME NEW c \in Caller, ReleaseRead(c)
        PROVE (HolderOwns /\ VerdictHolds)'
    BY <1>8 DEF ReleaseRead
  <1>9. ASSUME NEW c \in Caller, Runs(c), ReleaseUnlink(c)
        PROVE (HolderOwns /\ VerdictHolds)'
    BY <1>9 DEF ReleaseUnlink
  <1>10. ASSUME NEW c \in Caller, ReapStat(c) \/ ReapContended(c)
        PROVE (HolderOwns /\ VerdictHolds)'
    BY <1>10 DEF ReapStat, ReapContended
  <1>11. ASSUME NEW c \in Caller, ReapOpen(c)
        PROVE (HolderOwns /\ VerdictHolds)'
    BY <1>11 DEF ReapOpen
  <1>12. ASSUME NEW c \in Caller, ReapRestat(c)
        PROVE (HolderOwns /\ VerdictHolds)'
    BY <1>12 DEF ReapRestat
  <1>13. ASSUME NEW c \in Caller, ReapRead(c)
        PROVE (HolderOwns /\ VerdictHolds)'
    BY <1>13 DEF ReapRead
  <1>14. ASSUME NEW c \in Caller, ReapProbe(c)
        PROVE (HolderOwns /\ VerdictHolds)'
    BY <1>14 DEF ReapProbe
  <1>15. ASSUME NEW c \in Caller, ReapUnlink(c)
        PROVE (HolderOwns /\ VerdictHolds)'
    BY <1>15 DEF ReapUnlink
  <1>16. ASSUME NEW c \in Caller, ReapExit(c)
        PROVE (HolderOwns /\ VerdictHolds)'
    BY <1>16 DEF ReapExit
  <1>17. CASE Age \/ UNCHANGED vars
    BY <1>17 DEF Age, vars
  <1>18. ASSUME NEW p \in Process, Exit(p) PROVE (HolderOwns /\ VerdictHolds)'
    BY <1>18 DEF Exit, ProbesStaleReading
  <1> QED BY <1>1, <1>2, <1>3, <1>4, <1>5, <1>6, <1>7, <1>8, <1>9, <1>10, <1>11,
             <1>12, <1>13, <1>14, <1>15, <1>16, <1>17, <1>18 DEF Next, Step

(* The strengthened invariant holds of the initial file system. *)
LEMMA InitInv == Init => IInv
  BY CallerAssumption
     DEF Init, IInv, Shape, TypeOK, Labels, OneReaper, Reaping, OwnerPlace, SeenPlace,
         HolderOwns, VerdictHolds

(* Every step of every caller, process and clock keeps it. *)
LEMMA NextInv == IInv /\ [Next]_vars => IInv'
  BY ShapeStep, SafeStep DEF IInv

(* The strengthened invariant holds for ever: shape of the variables, place *)
(* of the owner and of the reaper's reading, and who may hold the lock.     *)
THEOREM Inductive == Spec => []IInv
  BY InitInv, NextInv, PTL DEF Spec

-----------------------------------------------------------------------------
(* Every variable of the lock keeps its type. *)
THEOREM TypeCorrect == Spec => []TypeOK
  <1>1. IInv => TypeOK
    BY DEF IInv, Shape
  <1> QED BY <1>1, Inductive, PTL

(* At most one process at a time decides whether a lock file is abandoned. *)
THEOREM ReaperExclusion == Spec => []OneReaper
  <1>1. IInv => OneReaper
    BY DEF IInv, Shape
  <1> QED BY <1>1, Inductive, PTL

(* At most one running caller is inside withFileLock's operation, unless a  *)
(* process ended between a reaper's reading of its released lock file and   *)
(* the reaper's probe of its pid.                                           *)
THEOREM Exclusion == Spec => []ExclusionUnlessExitRaced
  <1>1. IInv => ExclusionUnlessExitRaced
    BY DEF IInv, ExclusionUnlessExitRaced, MutualExclusion, Holding, HolderOwns
  <1> QED BY <1>1, Inductive, PTL

(* A lock file is removed by its creator, or complete and after its         *)
(* creator's process ended.                                                 *)
THEOREM RightfulRemoval == Spec => RemovedRightfully
  <1> DEFINE Rightful ==
        (owner # None /\ owner' # owner) =>
            \/ exitRaced
            \/ owner' = None /\ written
               /\ (pc[owner] = "releaseUnlink" \/ ~Runs(owner))
  <1>1. ASSUME IInv, [Next]_vars, owner # None, owner' # owner, ~exitRaced
        PROVE owner' = None /\ written /\ (pc[owner] = "releaseUnlink" \/ ~Runs(owner))
    <2>1. PICK c \in Caller : \/ Runs(c) /\ ReleaseUnlink(c)
                              \/ Runs(c) /\ ReapUnlink(c)
      BY <1>1 DEF Next, Step, Start, Create, Contend, Write, WriteFails, Poll, GiveUp,
                  Finish, ReleaseRead, ReapStat, ReapOpen, ReapContended, ReapRestat,
                  ReapRead, ReapProbe, ReapExit, Age, Exit, File, vars
    <2>2. CASE Runs(c) /\ ReleaseUnlink(c)
      BY <1>1, <2>2 DEF ReleaseUnlink, Unlink, IInv, HolderOwns
    <2>3. CASE Runs(c) /\ ReapUnlink(c)
      BY <1>1, <2>3 DEF ReapUnlink, Unlink, IInv, Shape, SeenPlace, VerdictHolds
    <2> QED BY <2>1, <2>2, <2>3
  <1>2. IInv /\ [Next]_vars => [Rightful]_vars
    BY <1>1
  <1> QED BY <1>2, Inductive, PTL DEF Spec, RemovedRightfully
=============================================================================
