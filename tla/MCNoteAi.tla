------------------------------ MODULE MCNoteAi ------------------------------
(* Instances of NoteAi for TLC.                                            *)
EXTENDS NoteAi, TLC

Symmetry == Permutations(Job)
=============================================================================
