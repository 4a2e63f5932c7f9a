-------------------------- MODULE MCWorkspaceApply --------------------------
(***************************************************************************)
(* An instance of WorkspaceApply for TLC.  The project starts with two     *)
(* files, which leaves the mirror anything to do with them, and no name    *)
(* but a third for what it creates.                                        *)
(***************************************************************************)
EXTENDS WorkspaceApply, TLC

CONSTANTS x, y

SomePaths == 1 .. 3
Interchangeable == Permutations(Applier) \cup Permutations({x, y})

TwoFiles == Cardinality({p \in Path : baseline[p] # NoFile}) = 2
MCInit == Init /\ TwoFiles
MCSpec == MCInit /\ [][Next]_vars
=============================================================================
