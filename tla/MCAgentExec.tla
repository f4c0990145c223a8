---------------------------- MODULE MCAgentExec ----------------------------
(* Small instances of AgentExec for TLC. *)
EXTENDS AgentExec, TLC

Execs == Permutations(Exec)
=============================================================================
