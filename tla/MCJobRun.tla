------------------------------ MODULE MCJobRun ------------------------------
(* JobRun on small instances.                                              *)
EXTENDS JobRun, TLC

\* The runners are interchangeable (for runs that check safety only).
RunnerSymmetry == Permutations(Runners)
=============================================================================
