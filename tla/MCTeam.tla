------------------------------- MODULE MCTeam -------------------------------
(* Instances of Team for TLC. *)
EXTENDS Team, TLC

Symmetry == Permutations(People \ {Founder}) \cup Permutations(Requests)
=============================================================================
