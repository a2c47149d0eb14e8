-------------------------- MODULE MCReconcileLimit --------------------------
(***************************************************************************)
(* Instances of ReconcileLimit for TLC.                                    *)
(***************************************************************************)
EXTENDS ReconcileLimit, TLC

(* Installations and workers are interchangeable (safety runs only).       *)
Symmetry == Permutations(Installations) \cup Permutations(Workers)

=============================================================================
