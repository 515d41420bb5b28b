---------------------------- MODULE DealStatuses -----------------------------
(* The statuses of a deal and the arrows between them.                      *)
EXTENDS Naturals

DealStatus == {"INITIATED", "NEGOTIATING", "AGREED", "COMPLETED", "FALLEN_THROUGH", "DISPUTED"}

\* Mutant: a deal may be agreed without a negotiation.
TransitionsSkippingNegotiation == [s \in DealStatus |->
    CASE s = "INITIATED"   -> {"NEGOTIATING", "AGREED", "FALLEN_THROUGH"}
      [] s = "NEGOTIATING" -> {"AGREED", "FALLEN_THROUGH", "DISPUTED"}
      [] s = "AGREED"      -> {"COMPLETED", "FALLEN_THROUGH", "DISPUTED"}
      [] s = "DISPUTED"    -> {"NEGOTIATING", "FALLEN_THROUGH"}
      [] OTHER             -> {}]

\* VALID_TRANSITIONS: what may follow a status.
Transitions == [s \in DealStatus |->
    CASE s = "INITIATED"   -> {"NEGOTIATING", "FALLEN_THROUGH"}
      [] s = "NEGOTIATING" -> {"AGREED", "FALLEN_THROUGH", "DISPUTED"}
      [] s = "AGREED"      -> {"COMPLETED", "FALLEN_THROUGH", "DISPUTED"}
      [] s = "DISPUTED"    -> {"NEGOTIATING", "FALLEN_THROUGH"}
      [] OTHER             -> {}]

\* The statuses that follow one of a set of statuses.
Successors(S) == UNION {Transitions[s] : s \in S}

=============================================================================
