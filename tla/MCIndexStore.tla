---------------------------- MODULE MCIndexStore ----------------------------
(* IndexStore for TLC.  Documents are interchangeable; so are subprocess   *)
(* slots.                                                                  *)
EXTENDS IndexStore, TLC

Symmetry == Permutations(Docs)
=============================================================================
