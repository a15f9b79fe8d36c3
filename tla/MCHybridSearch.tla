--------------------------- MODULE MCHybridSearch ---------------------------
(* Instance of HybridSearch for TLC: searches for one query that differ in   *)
(* their filters.                                                            *)
EXTENDS HybridSearch

OneQuery == [k \in Keys |-> CHOOSE q \in Queries : TRUE]
=============================================================================
