----------------------------- MODULE MCAutosave -----------------------------
(* Instances of Autosave for TLC: one text of the reader is written by     *)
(* others too, one is not.                                                 *)
EXTENDS Autosave, TLC

=============================================================================
