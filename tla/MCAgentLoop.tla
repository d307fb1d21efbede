----------------------------- MODULE MCAgentLoop -----------------------------
(* Bounds for TLC: see the configurations MCAgentLoop_*.cfg. *)
EXTENDS AgentLoop
=============================================================================
