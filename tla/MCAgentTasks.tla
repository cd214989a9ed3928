---------------------------- MODULE MCAgentTasks ----------------------------
(* Small instances of AgentTasks for TLC. *)
EXTENDS AgentTasks, TLC

\* Calls and payloads are only compared for equality.
Symmetry == Permutations(Calls) \cup Permutations(Payloads)
=============================================================================
