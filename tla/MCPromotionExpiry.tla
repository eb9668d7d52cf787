------------------------- MODULE MCPromotionExpiry --------------------------
(* Instances of PromotionExpiry for TLC. *)
EXTENDS PromotionExpiry, TLC

CONSTANTS n1, n2, o1, o2

Symmetric == Permutations(Servers) \cup Permutations(Operators)
=============================================================================
