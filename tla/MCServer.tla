------------------------------ MODULE MCServer ------------------------------
(* Constants of the run are in the .cfg file. *)
EXTENDS Server
=============================================================================
