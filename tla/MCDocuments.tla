----------------------------- MODULE MCDocuments -----------------------------
(* Documents for TLC.  The order in which documents are uploaded does not  *)
(* matter: they are interchangeable.                                       *)
EXTENDS Documents, TLC

Symmetry == Permutations(Docs)
=============================================================================
