-------------------------- MODULE MCGenerationJobs --------------------------
(***************************************************************************)
(* Symmetry for the safety runs of GenerationJobs.  Calls, workers and     *)
(* keys are interchangeable; jobs are ordered, so they are not.            *)
(***************************************************************************)
EXTENDS GenerationJobs, TLC

Symmetry ==
    Permutations(Requests) \cup Permutations(Runs) \cup Permutations(Keys)
=============================================================================
