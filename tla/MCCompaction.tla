---------------------------- MODULE MCCompaction ----------------------------
(* Constants of the runs are in the .cfg files. *)
EXTENDS Compaction
=============================================================================
