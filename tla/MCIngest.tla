------------------------------ MODULE MCIngest ------------------------------
(* Instances of Ingest for TLC: "2 BHK" and "2BHK" are one bedroom count. *)
EXTENDS Ingest, TLC

MCNormal == [s \in BhkSpellings |-> "2BHK"]

\* A property with its contacts, one without, and a text that names nothing.
MCItems ==
    {[place |-> "p1", bhk |-> "2 BHK", phones |-> {"n1"}],
     [place |-> "p1", bhk |-> NoValue, phones |-> {}],
     [place |-> NoValue, bhk |-> NoValue, phones |-> {}]}

Symmetry == Permutations(Workers) \cup Permutations(Workspaces)
=============================================================================
