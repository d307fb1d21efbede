----------------------------- MODULE MCGateway ------------------------------
(* Constants of the run are in the .cfg file. *)
EXTENDS Gateway
=============================================================================
