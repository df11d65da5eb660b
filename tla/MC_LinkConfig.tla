---------------------------- MODULE MC_LinkConfig ---------------------------
(* LinkConfig for TLC: the runs are interchangeable.                       *)
EXTENDS LinkConfig, TLC

RunSymmetry == Permutations(Runs)
=============================================================================
