--------------------------- MODULE MCEntitlement ---------------------------
(* Entitlement on a handful of interchangeable transactions. *)
EXTENDS Entitlement, TLC

JobSymmetry == Permutations(Jobs)
=============================================================================
