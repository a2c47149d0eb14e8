----------------------------- MODULE MCRestoreDB -----------------------------
(***************************************************************************)
(* Instances of RestoreDB for TLC.                                         *)
(***************************************************************************)
EXTENDS RestoreDB

=============================================================================
