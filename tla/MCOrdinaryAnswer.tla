-------------------------- MODULE MCOrdinaryAnswer --------------------------
(* A small instance of OrdinaryAnswer.                                     *)
EXTENDS OrdinaryAnswer, TLC

CONSTANTS t1, t2, o1, o2, s, u, p

\* Shared records s and u, a private record p that is erased.
MCCorpora == <<{s, p}, {s, u}>>
Alike == Permutations(Thread) \cup Permutations(Provider)

=============================================================================
