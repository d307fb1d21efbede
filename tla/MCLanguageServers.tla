-------------------------- MODULE MCLanguageServers --------------------------
(* Constants of the runs are in the .cfg files.                            *)
EXTENDS LanguageServers
=============================================================================
