-------------------------- MODULE MCDedupBackfill ---------------------------
(* Instances of DedupBackfill for TLC. *)
EXTENDS DedupBackfill, TLC

\* A spelling that says nothing, which normalizeBhk drops.
MCNormal == [s \in BhkSpellings |-> IF s = "flat" THEN NoValue ELSE s]

\* An item whose fingerprint changes when it is stored, and one that is found
\* by its contacts, which the listing of a form does not have.
MCItems ==
    {[place |-> "p1", bhk |-> "flat", phones |-> {}],
     [place |-> "p1", bhk |-> NoValue, phones |-> {"n1"}]}

Symmetry == Permutations(Workers) \cup Permutations(Workspaces) \cup Permutations(Sweepers)
=============================================================================
