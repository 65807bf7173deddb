---------------------------- MODULE MCAgentwatch ----------------------------
(* Instances of Agentwatch for TLC. *)
EXTENDS Agentwatch, TLC

Symmetry == Permutations(Pids)
=============================================================================
