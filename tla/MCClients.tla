------------------------------ MODULE MCClients -----------------------------
(* Instances of Clients for TLC. *)
EXTENDS Clients, TLC

Symmetry == Permutations(Listings) \cup Permutations(Tasks)
=============================================================================
