----------------------------- MODULE MCNotebook -----------------------------
(* Instances of Notebook for TLC.                                          *)
EXTENDS Notebook, TLC

Symmetry ==
  Permutations(Person) \cup Permutations(Tag) \cup Permutations(Client)
=============================================================================
