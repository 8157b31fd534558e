------------------------------ MODULE MCKpis ------------------------------
(* Instances of Kpis for TLC.                                              *)
EXTENDS Kpis, TLC

Symmetry == Permutations(Client) \cup Permutations(Key)
=============================================================================
