------------------------------ MODULE MCAgents ------------------------------
(* Instances of Agents for TLC. *)
EXTENDS Agents, TLC

Symmetry == Permutations(Phones) \cup Permutations(Listings) \cup Permutations(Tasks)
=============================================================================
