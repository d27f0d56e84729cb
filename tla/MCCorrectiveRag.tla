--------------------------- MODULE MCCorrectiveRag ---------------------------
(* CorrectiveRag for TLC: record c fills the context alone, d is deleted.    *)
EXTENDS CorrectiveRag

CONSTANTS a, c, d

MCSize == [r \in Record |-> IF r = c THEN 2 ELSE 1]
MCResults == {<<>>, <<a, d, c>>, <<c>>}
=============================================================================
