---------------------------- MODULE MCWebProcess ----------------------------
(* An instance of WebProcess for TLC: as many servers as commands, so that *)
(* every command finds one to spawn.                                       *)
EXTENDS WebProcess
=============================================================================
