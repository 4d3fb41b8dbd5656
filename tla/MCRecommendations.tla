-------------------------- MODULE MCRecommendations --------------------------
(* Instances of Recommendations for TLC. *)
EXTENDS Recommendations, TLC

RequestSymmetry == Permutations(Requests)
=============================================================================
