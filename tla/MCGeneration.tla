---------------------------- MODULE MCGeneration ----------------------------
(***************************************************************************)
(* Instances of Generation for TLC.  Questions are model values; they are  *)
(* interchangeable in every safety property.                               *)
(***************************************************************************)
EXTENDS Generation, TLC

Symmetry == Permutations(Jobs)
=============================================================================
