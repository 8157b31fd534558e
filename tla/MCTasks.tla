------------------------------ MODULE MCTasks ------------------------------
(* Instances of Tasks for TLC.                                             *)
EXTENDS Tasks, TLC

Symmetry == Permutations(Task) \cup Permutations(Op)
=============================================================================
