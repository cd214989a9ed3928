--------------------------- MODULE MCArtifactHold ---------------------------
(* Small instances of ArtifactHold for TLC. *)
EXTENDS ArtifactHold, TLC

\* Bearer values are only compared for equality.
Symmetry == Permutations(Tokens)
=============================================================================
