-------------------------- MODULE MCHandleStorage --------------------------
(***************************************************************************)
(* Instances of HandleStorage for TLC: contexts are interchangeable.       *)
(***************************************************************************)
EXTENDS HandleStorage, TLC

Symmetry == Permutations(Ctx)
=============================================================================
