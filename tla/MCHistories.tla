---------------------------- MODULE MCHistories ----------------------------
(* Instance of Histories for TLC: one member asked everything there is, the *)
(* other one only tries the routes.                                         *)
EXTENDS Histories, TLC

MCAuthor == [k \in Answers |-> CHOOSE m \in Members : TRUE]

Symmetry ==
    UNION {Permutations(S) : S \in {Savers, Runs, Analyses, Requests}}
============================================================================
