--------------------------- MODULE MCEditPipeline ---------------------------
(* EditPipeline on a handful of interchangeable requests. *)
EXTENDS EditPipeline, TLC

RequestSymmetry == Permutations(Requests)
=============================================================================
