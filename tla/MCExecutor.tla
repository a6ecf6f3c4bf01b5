---------------------------- MODULE MCExecutor ------------------------------
(* Small instances of Executor.  Job IDs are interchangeable.              *)
EXTENDS Executor, TLC

CONSTANTS j1, j2

TwoJobs == {j1, j2}
JobSymmetry == Permutations(TwoJobs)

=============================================================================
