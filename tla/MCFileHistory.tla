--------------------------- MODULE MCFileHistory ----------------------------
(* Constants of the runs are in the .cfg files. *)
EXTENDS FileHistory
=============================================================================
