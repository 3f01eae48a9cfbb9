----------------------------- MODULE MCBlinkSync -----------------------------
(* Instances of BlinkSync for TLC: two chains of syncs, two media.          *)
EXTENDS BlinkSync, TLC

Symmetry == Permutations(Chains)
=============================================================================
