---------------------------- MODULE MCTeamTasks -----------------------------
(* Constants of the runs are in the .cfg files. *)
EXTENDS TeamTasks
=============================================================================
