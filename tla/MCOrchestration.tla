-------------------------- MODULE MCOrchestration --------------------------
(* Small instances of Orchestration for TLC. *)
EXTENDS Orchestration, TLC

\* Calls, texts and steps are only compared for equality.
Symmetry == Permutations(Calls) \cup Permutations(Texts) \cup Permutations(Steps)
=============================================================================
