------------------------------ MODULE MCCollab -------------------------------
(* Constants of the run are in the .cfg file.                              *)
EXTENDS Collab
=============================================================================
