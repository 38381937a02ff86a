---------------------------- MODULE MCIndexSync ----------------------------
(***************************************************************************)
(* Instances of IndexSync for TLC.  Jobs, paths and processes are          *)
(* interchangeable; the run that checks liveness does without symmetry.    *)
(***************************************************************************)
EXTENDS IndexSync, TLC

Symmetry == Permutations(JobIds) \cup Permutations(Paths) \cup Permutations(Procs)

=============================================================================
