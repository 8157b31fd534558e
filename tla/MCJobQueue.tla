----------------------------- MODULE MCJobQueue -----------------------------
(* Instances of JobQueue for TLC, and the refinement of JobPromise.        *)
EXTENDS JobQueueRefinement, TLC
CONSTANTS sys, ai

MCConcurrency == [k \in Kind |-> IF k = ai THEN 2 ELSE 1]
Symmetry == Permutations(Key) \cup Permutations(Runner)
=============================================================================
