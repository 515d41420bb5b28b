------------------------------ MODULE MCGroups ------------------------------
(* Instances of Groups for TLC. *)
EXTENDS Groups, TLC

Symmetry == Permutations(Firms) \cup Permutations(Groups) \cup Permutations(Texts)
            \cup Permutations(Names) \cup Permutations(Tasks)
=============================================================================
