-------------------------- MODULE MCVariantHandles --------------------------
(* A small instance of VariantHandles for TLC.                             *)
EXTENDS VariantHandles, TLC

HandleSymmetry == Permutations(Handles)
=============================================================================
