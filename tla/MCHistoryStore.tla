--------------------------- MODULE MCHistoryStore ---------------------------
(***************************************************************************)
(* A gauge and a counter, buckets of two time units, a raw window of one   *)
(* bucket and a retention of two.                                          *)
(***************************************************************************)
EXTENDS HistoryStore, TLC

Symmetry == Permutations(Tag)
=============================================================================
