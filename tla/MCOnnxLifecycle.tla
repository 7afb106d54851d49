--------------------------- MODULE MCOnnxLifecycle ---------------------------
(* Small instances of OnnxLifecycle for TLC. *)
EXTENDS OnnxLifecycle, TLC

Symmetry == Permutations(Callers) \cup Permutations(Bundles) \cup Permutations(Timers)
=============================================================================
