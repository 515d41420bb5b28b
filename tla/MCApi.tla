------------------------------- MODULE MCApi -------------------------------
(* Instances of ApiClient for TLC. *)
EXTENDS ApiClient
=============================================================================
