----------------------------- MODULE MCV1Binding -----------------------------
(* An instance of V1Binding for TLC. *)
EXTENDS V1Binding

\* The peer's clock is as far behind, or ahead, as the skew allows.
SkewedClocks == {-(Skew * Sub), Skew * Sub}
=============================================================================
