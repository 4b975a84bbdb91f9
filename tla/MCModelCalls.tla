---------------------------- MODULE MCModelCalls ----------------------------
(* ModelCalls on small instances. *)
EXTENDS ModelCalls, TLC

RunnerSymmetry == Permutations(Runners)

=============================================================================
