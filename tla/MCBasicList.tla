----------------------------- MODULE MCBasicList -----------------------------
(* An instance of BasicList for TLC: a first array of one item, so that the *)
(* list grows twice and can be trimmed in between.                          *)
EXTENDS BasicList, TLC

MCSymmetry == Permutations(Writers) \union Permutations(Readers)
                \union Permutations(Values)
=============================================================================
