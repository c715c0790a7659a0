----------------------------- MODULE MCGPUPool -----------------------------
(* Instances of GPUPool for TLC. *)
EXTENDS GPUPool, TLC

\* Controllers, jobs (where none or all are survivors) and handlers of the same
\* kind are interchangeable.
PoolSymmetry ==
    Permutations(Controllers) \cup Permutations(PIDs)
        \cup Permutations(Runners) \cup Permutations(Dumpers)
=============================================================================
