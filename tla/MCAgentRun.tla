----------------------------- MODULE MCAgentRun -----------------------------
(* Two runs of the session and the instructions sent to them. *)
EXTENDS AgentRun

CONSTANTS q1, q2
=============================================================================
