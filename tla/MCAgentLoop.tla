---------------------------- MODULE MCAgentLoop ----------------------------
(* TLC instances of AgentLoop. *)
EXTENDS AgentLoop

CONSTANTS f1, f2

MCFiles == {f1, f2}
MCDirtyFiles == {f1}
=============================================================================
