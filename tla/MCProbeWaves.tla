---------------------------- MODULE MCProbeWaves ----------------------------
(* Model-checking instances of ProbeWaves. *)
EXTENDS ProbeWaves, TLC

\* Callers are told apart by nothing; for runs that check invariants only.
CallerSymmetry == Permutations(Callers)
=============================================================================
