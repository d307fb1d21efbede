---------------------------- MODULE MCWorktrees -----------------------------
(* Constants of the run are in the .cfg file. *)
EXTENDS Worktrees

CONSTANTS absent, x

(* Of the run's files the tracked ones are in the last commit. *)
Committed == [file \in Paths |-> IF file \in Tracked THEN x ELSE absent]
=============================================================================
