---------------------------- MODULE MCScheduler -----------------------------
(* Constants of the run are in the .cfg file. *)
EXTENDS Scheduler
=============================================================================
