----------------------------- MODULE MCFileLock -----------------------------
(***************************************************************************)
(* Instances of FileLock for TLC.  Three processes are what the hard cases *)
(* need: one that leaves a lock behind, one that reaps it and one that     *)
(* acquires it meanwhile.  The third caller can be a doctor repair.        *)
(***************************************************************************)
EXTENDS FileLock, TLC

CONSTANTS c1, c2, c3, p1, p2, p3

OnePerProcess == c1 :> p1 @@ c2 :> p2 @@ c3 :> p3
=============================================================================
