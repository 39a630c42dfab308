-------------------------- MODULE MCParityEvidence --------------------------
(* Instances of ParityEvidence: floor runs that race for one report, loads   *)
(* of the policy that race for one conversion.                               *)
EXTENDS ParityEvidence, TLC

CONSTANTS r1, r2, v1, scorer, server, bench

RunnerSymmetry == Permutations(Runners)
=============================================================================
