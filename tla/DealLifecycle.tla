---------------------------- MODULE DealLifecycle ----------------------------
(***************************************************************************)
(* What the status of a deal promises, without requests or listings.  A    *)
(* deal moves along the arrows of VALID_TRANSITIONS, in which COMPLETED    *)
(* and FALLEN_THROUGH are final.  Once requests have overlapped on it, it  *)
(* may also follow an arrow from a status it has had.                      *)
(***************************************************************************)
EXTENDS DealStatuses

CONSTANT DealIds

VARIABLES
    status,     \* of each deal, "NONE" before it is created
    held,       \* the statuses each deal has had so far
    raced       \* the deals that requests have overlapped on

Init ==
    /\ status = [d \in DealIds |-> "NONE"]
    /\ held = [d \in DealIds |-> {}]
    /\ raced = {}

Become(d, s) ==
    /\ status' = [status EXCEPT ![d] = s]
    /\ held' = [held EXCEPT ![d] = @ \cup {s}]

Start(d) ==
    /\ status[d] = "NONE"
    /\ Become(d, "INITIATED")
    /\ UNCHANGED raced

\* Where a deal may go next.
Reachable(d) == IF d \in raced THEN Successors(held[d]) ELSE Transitions[status[d]]

Follow(d) ==
    /\ status[d] # "NONE"
    /\ \E s \in Reachable(d) : Become(d, s)
    /\ raced' \in {raced, raced \cup {d}}

Journey == Init /\ [][\E d \in DealIds : Start(d) \/ Follow(d)]_<<status, held, raced>>

=============================================================================
