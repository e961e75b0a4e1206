---------------------------- MODULE MCAgentWatch ----------------------------
(* Model-checking instances of AgentWatch. *)
EXTENDS AgentWatch, TLC

\* Pids are compared with nothing but each other; for runs that check invariants only.
PidSymmetry == Permutations(Pids)
=============================================================================
