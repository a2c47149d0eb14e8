----------------------------- MODULE MCUpdateJob -----------------------------
(***************************************************************************)
(* Instances of UpdateJob for TLC.                                         *)
(***************************************************************************)
EXTENDS UpdateJob

=============================================================================
