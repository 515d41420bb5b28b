------------------------------- MODULE MCDeals -------------------------------
(* Instances of Deals for TLC. *)
EXTENDS Deals, TLC

Symmetry ==
    Permutations(Requests) \cup Permutations(Listings)
    \cup Permutations(Canonicals) \cup Permutations(Values)
=============================================================================
