-------------------------------- MODULE Deals --------------------------------
(***************************************************************************)
(* DealsService: the deals of one firm, and the availability of its        *)
(* listings that they drive.  (A deal's chain holds only the firm that     *)
(* started it and every query is scoped to the chain, so firms do not see  *)
(* each other's deals.)                                                    *)
(*                                                                         *)
(* A request is a handler between two of its database calls: what it read  *)
(* at the first is all it knows at the next, and nothing ties them         *)
(* together (no transaction, no version, no condition on the status read). *)
(***************************************************************************)
EXTENDS DealStatuses, Sequences

CONSTANTS
    Listings,       \* ids of the firm's listings, past and future
    Canonicals,     \* ids of canonical properties
    Values,         \* financials a deal may have
    Requests,       \* slots for requests served at the same time
    MaxDeals        \* bound on the number of deals

ASSUME DealsAssumption == MaxDeals \in Nat

VARIABLES
    listing,        \* WorkspaceListing rows
    deal,           \* PropertyDeal rows
    request,        \* the requests in flight
    raced,          \* history: deals with a status written while another request on
                    \* the deal was past its check
    cut             \* history: deals whose last sync the end of the process cut off

vars == <<listing, deal, request, raced, cut>>
history == <<raced, cut>>

-----------------------------------------------------------------------------

Availability == {"AVAILABLE", "UNDER_NEGOTIATION", "CLOSED", "ON_HOLD"}

\* AVAILABILITY_MAP, and what a row that no deal has touched has.
AvailabilityMap == [s \in {"NEGOTIATING", "COMPLETED", "FALLEN_THROUGH"} |->
    CASE s = "NEGOTIATING"    -> "UNDER_NEGOTIATION"
      [] s = "COMPLETED"      -> "CLOSED"
      [] s = "FALLEN_THROUGH" -> "AVAILABLE"]

\* The check of create: the statuses that bar a second deal.
ActiveStatus == {"INITIATED", "NEGOTIATING", "AGREED"}

\* `setBy` is history: the last writer of availability.
ListingRows == [canonical : Canonicals, availability : Availability,
                setBy : {"ingestion", "deal", "broker"}, state : {"unborn", "live", "deleted"}]

\* `held` has every status the row has had; of these the columns agreedAt,
\* completedAt and fallenAt record three.
DealRows == [status : DealStatus, held : SUBSET DealStatus, canonical : Canonicals,
             listing : Listings, value : Values]

Idle     == [pc |-> "idle"]
Creating == [pc : {"findActive", "insert"}, listing : Listings, canonical : Canonicals]
Updating == [pc : {"writeStatus", "sync"}, deal : Nat, status : DealStatus]
Editing  == [pc : {"writeFinancials"}, deal : Nat, value : Values]

\* Types: every request slot is free or holds the values its handler has read so
\* far; the deals and the listings have the schema's shape.
DealsTypeOK ==
    /\ listing \in [Listings -> ListingRows]
    /\ deal \in Seq(DealRows) /\ Len(deal) <= MaxDeals
    /\ request \in [Requests -> Creating \cup Updating \cup Editing \cup {Idle}]
    /\ raced \cup cut \subseteq DOMAIN deal

Init ==
    /\ listing \in [Listings -> [canonical : Canonicals, availability : {"AVAILABLE"},
                                 setBy : {"ingestion"}, state : {"unborn"}]]
    /\ deal = << >>
    /\ request = [r \in Requests |-> Idle]
    /\ raced = {} /\ cut = {}

Live == {l \in Listings : listing[l].state = "live"}

At(r, pc) == request[r].pc = pc

Become(r, record) == request' = [request EXCEPT ![r] = record]

-----------------------------------------------------------------------------
(* create *)

\* The listing and its canonical are read; a missing listing is a 404.
BeginCreate(r, l) ==
    /\ At(r, "idle")
    /\ l \in Live
    /\ Become(r, [pc |-> "findActive", listing |-> l, canonical |-> listing[l].canonical])
    /\ UNCHANGED <<listing, deal, history>>

ActiveOn(c) == {d \in DOMAIN deal : deal[d].canonical = c /\ deal[d].status \in ActiveStatus}

FindActive(r) ==
    /\ At(r, "findActive")
    /\ IF ActiveOn(request[r].canonical) = {}
         THEN Become(r, [request[r] EXCEPT !.pc = "insert"])
         ELSE Become(r, Idle)
    /\ UNCHANGED <<listing, deal, history>>

\* The dedup sweep may have deleted a canonical that neither a listing nor a
\* deal holds: then the foreign key refuses the row.
Unheld(c) ==
    /\ \A l \in Live : listing[l].canonical # c
    /\ \A d \in DOMAIN deal : deal[d].canonical # c

NewDeal(l, c, v) ==
    [status |-> "INITIATED", held |-> {"INITIATED"}, canonical |-> c, listing |-> l, value |-> v]

InsertDeal(r) ==
    LET l == request[r].listing
        c == request[r].canonical IN
    /\ At(r, "insert")
    /\ \/ Len(deal) < MaxDeals /\ \E v \in Values : deal' = Append(deal, NewDeal(l, c, v))
       \/ Unheld(c) /\ UNCHANGED deal
    /\ Become(r, Idle)
    /\ UNCHANGED <<listing, history>>

-----------------------------------------------------------------------------
(* updateStatus *)

\* Mutants: no check against the map; the listing is synced in place of the
\* deal's own write.
BeginUpdateUnchecked(r, d, new) ==
    /\ At(r, "idle")
    /\ Become(r, [pc |-> "writeStatus", deal |-> d, status |-> new])
    /\ UNCHANGED <<listing, deal, history>>

BeginUpdateSyncFirst(r, d, new) ==
    /\ At(r, "idle")
    /\ new \in Transitions[deal[d].status]
    /\ Become(r, [pc |-> IF new \in DOMAIN AvailabilityMap THEN "sync" ELSE "writeStatus",
                  deal |-> d, status |-> new])
    /\ UNCHANGED <<listing, deal, history>>

\* The status is read and the new one checked against it.
BeginUpdate(r, d, new) ==
    /\ At(r, "idle")
    /\ new \in Transitions[deal[d].status]
    /\ Become(r, [pc |-> "writeStatus", deal |-> d, status |-> new])
    /\ UNCHANGED <<listing, deal, history>>

\* A status written now makes stale what another request has checked.
Contended(r) ==
    \E q \in Requests \ {r} :
        /\ request[q].pc \in {"writeStatus", "sync", "writeFinancials"}
        /\ request[q].deal = request[r].deal

Race(r) == raced' = IF Contended(r) THEN raced \cup {request[r].deal} ELSE raced

\* Mutants: the milestone's timestamp is not written; a fall is not synced.
WriteStatusOnly(r) ==
    /\ At(r, "writeStatus")
    /\ deal' = [deal EXCEPT ![request[r].deal].status = request[r].status]
    /\ IF request[r].status \in DOMAIN AvailabilityMap
         THEN Become(r, [request[r] EXCEPT !.pc = "sync"])
         ELSE Become(r, Idle)
    /\ Race(r)
    /\ UNCHANGED <<listing, cut>>

WriteStatusKeepsFallen(r) ==
    LET d == request[r].deal
        new == request[r].status IN
    /\ At(r, "writeStatus")
    /\ deal' = [deal EXCEPT ![d].status = new, ![d].held = @ \cup {new}]
    /\ IF new \in {"NEGOTIATING", "COMPLETED"}
         THEN Become(r, [request[r] EXCEPT !.pc = "sync"])
         ELSE Become(r, Idle)
    /\ Race(r)
    /\ UNCHANGED <<listing, cut>>

\* The status and its timestamp are written whatever the row says by now.
WriteStatus(r) ==
    LET d == request[r].deal
        new == request[r].status IN
    /\ At(r, "writeStatus")
    /\ deal' = [deal EXCEPT ![d].status = new, ![d].held = @ \cup {new}]
    /\ IF new \in DOMAIN AvailabilityMap
         THEN Become(r, [request[r] EXCEPT !.pc = "sync"])
         ELSE Become(r, Idle)
    /\ Race(r)
    /\ UNCHANGED <<listing, cut>>

\* The deal's listing follows; a deleted one makes the request fail here, its
\* deal already written.
SyncListing(r) ==
    LET l == deal[request[r].deal].listing IN
    /\ At(r, "sync")
    /\ IF l \in Live
         THEN listing' = [listing EXCEPT ![l].availability = AvailabilityMap[request[r].status],
                                         ![l].setBy = "deal"]
         ELSE UNCHANGED listing
    /\ Become(r, Idle)
    /\ cut' = cut \ {request[r].deal}
    /\ UNCHANGED <<deal, raced>>

-----------------------------------------------------------------------------
(* updateFinancials *)

\* Mutant: the fallen deals are forgotten.
BeginFinancialsFallen(r, d, v) ==
    /\ At(r, "idle")
    /\ deal[d].status # "COMPLETED"
    /\ Become(r, [pc |-> "writeFinancials", deal |-> d, value |-> v])
    /\ UNCHANGED <<listing, deal, history>>

BeginFinancials(r, d, v) ==
    /\ At(r, "idle")
    /\ deal[d].status \notin {"COMPLETED", "FALLEN_THROUGH"}
    /\ Become(r, [pc |-> "writeFinancials", deal |-> d, value |-> v])
    /\ UNCHANGED <<listing, deal, history>>

WriteFinancials(r) ==
    /\ At(r, "writeFinancials")
    /\ deal' = [deal EXCEPT ![request[r].deal].value = request[r].value]
    /\ Become(r, Idle)
    /\ UNCHANGED <<listing, history>>

-----------------------------------------------------------------------------
(* The listing's other writers *)

\* Ingestion lists a property the firm does not have (module Ingest).
CreateListing(l) ==
    /\ listing[l].state = "unborn"
    /\ \A k \in Live : listing[k].canonical # listing[l].canonical
    /\ listing' = [listing EXCEPT ![l].state = "live"]
    /\ UNCHANGED <<deal, request, history>>

DeleteListing(l) ==
    /\ l \in Live
    /\ listing' = [listing EXCEPT ![l].state = "deleted"]
    /\ UNCHANGED <<deal, request, history>>

\* The dedup sweep moves a listing to another canonical; its deals stay.
RelinkListing(l, c) ==
    /\ l \in Live
    /\ \A k \in Live : listing[k].canonical # c
    /\ listing' = [listing EXCEPT ![l].canonical = c]
    /\ UNCHANGED <<deal, request, history>>

\* The broker's one-tap availability, or the edit form.
SetAvailability(l, a) ==
    /\ l \in Live
    /\ listing' = [listing EXCEPT ![l].availability = a, ![l].setBy = "broker"]
    /\ UNCHANGED <<deal, request, history>>

\* The process stops: every request in flight is lost where it stands.
Restart ==
    /\ request' = [r \in Requests |-> Idle]
    /\ cut' = cut \cup {request[r].deal : r \in {q \in Requests : At(q, "sync")}}
    /\ UNCHANGED <<listing, deal, raced>>

-----------------------------------------------------------------------------

RequestStep(r) ==
    \/ FindActive(r) \/ InsertDeal(r)
    \/ WriteStatus(r) \/ SyncListing(r)
    \/ WriteFinancials(r)

Next ==
    \/ \E r \in Requests, l \in Listings : BeginCreate(r, l)
    \/ \E r \in Requests, d \in DOMAIN deal, new \in DealStatus : BeginUpdate(r, d, new)
    \/ \E r \in Requests, d \in DOMAIN deal, v \in Values : BeginFinancials(r, d, v)
    \/ \E r \in Requests : RequestStep(r)
    \/ \E l \in Listings : CreateListing(l) \/ DeleteListing(l)
    \/ \E l \in Listings, c \in Canonicals : RelinkListing(l, c)
    \/ \E l \in Listings, a \in Availability : SetAvailability(l, a)
    \/ Restart

Spec == Init /\ [][Next]_vars

-----------------------------------------------------------------------------
(* Properties *)

Abstract == INSTANCE DealLifecycle WITH
    DealIds <- 1..MaxDeals,
    status  <- [d \in 1..MaxDeals |-> IF d \in DOMAIN deal THEN deal[d].status ELSE "NONE"],
    held    <- [d \in 1..MaxDeals |-> IF d \in DOMAIN deal THEN deal[d].held ELSE {}]

\* Any number of requests, cut short or not, move each deal along the arrows of
\* the status it has, and it stops at COMPLETED or FALLEN_THROUGH; once a status
\* was written under another request's check, a deal may also follow a status it
\* has had.
OverlappingJourney == Abstract!Journey

\* The milestones of a deal are complete whatever overlaps: completed means
\* agreed before, agreed or disputed means negotiated before.  (The checks
\* are made on reads that may be stale when the status is written.)
MilestonesComplete ==
    \A d \in DOMAIN deal :
        LET past == deal[d].held IN
        /\ deal[d].status \in past
        /\ "COMPLETED" \in past => "AGREED" \in past
        /\ past \cap {"AGREED", "DISPUTED"} # {} => "NEGOTIATING" \in past

\* An availability that the deals gave a listing has a cause among the deals
\* started from that listing: CLOSED only after one was completed, and so on.
AvailabilityHasCause ==
    \A l \in Listings :
        listing[l].setBy = "deal" =>
            \E d \in DOMAIN deal :
                /\ deal[d].listing = l
                /\ \E s \in deal[d].held \cap DOMAIN AvailabilityMap :
                      AvailabilityMap[s] = listing[l].availability

\* A listing with a single deal shows that deal, but for three causes: the
\* broker set the availability since, the process ended between the deal's write
\* and the listing's, or statuses were written under each other's checks.
Shown(s) ==
    CASE s = "INITIATED" -> "AVAILABLE"
      [] s \in DOMAIN AvailabilityMap -> AvailabilityMap[s]
      [] OTHER -> "UNDER_NEGOTIATION"

Lone(d) ==
    /\ deal[d].listing \in Live
    /\ \A e \in DOMAIN deal : deal[e].listing = deal[d].listing => e = d

Syncing(d) == \E r \in Requests : At(r, "sync") /\ request[r].deal = d

LoneDealShown ==
    \A d \in DOMAIN deal \ (raced \cup cut) :
        /\ Lone(d) /\ ~Syncing(d)
        /\ listing[deal[d].listing].setBy # "broker"
        => listing[deal[d].listing].availability = Shown(deal[d].status)

\* What VALID_TRANSITIONS says with its two empty lists, `COMPLETED: []` and
\* `FALLEN_THROUGH: []`: a deal has one outcome at most.
OneOutcome ==
    \A d \in DOMAIN deal : ~({"COMPLETED", "FALLEN_THROUGH"} \subseteq deal[d].held)

\* What the comment in create says it prevents: "duplicate active deals on the
\* same canonical property from this workspace".
OneActiveDeal ==
    \A d, e \in DOMAIN deal :
        /\ {deal[d].status, deal[e].status} \subseteq ActiveStatus
        /\ deal[d].canonical = deal[e].canonical
        => d = e

\* What the error of updateFinancials says, a closed deal is not edited, holds
\* of every deal but those closed between another request's check and its write.
ClosedDealKept ==
    [][\A d \in DOMAIN deal \ raced :
          deal[d].status \in {"COMPLETED", "FALLEN_THROUGH"} => deal'[d].value = deal[d].value]_vars

-----------------------------------------------------------------------------
(* Why they hold: the inductive invariant.                                  *)

\* The statuses a deal has had form a tree rooted in INITIATED.
JourneysConnected ==
    \A d \in DOMAIN deal :
        /\ deal[d].status \in deal[d].held
        /\ deal[d].held \subseteq {"INITIATED"} \cup Successors(deal[d].held)

\* What a request carries was true when it was read and, of the past, still is.
RequestsSound ==
    \A r \in Requests :
        /\ request[r].pc \in {"writeStatus", "sync", "writeFinancials"} => request[r].deal \in DOMAIN deal
        /\ request[r].pc = "writeStatus" => request[r].status \in Successors(deal[request[r].deal].held)
        /\ request[r].pc = "sync" =>
              request[r].status \in deal[request[r].deal].held \cap DOMAIN AvailabilityMap

\* The inductive invariant: types, what the deals remember of their statuses, what
\* the open requests know of their deal, and the cause of each availability.
DealsInv == DealsTypeOK /\ JourneysConnected /\ RequestsSound /\ AvailabilityHasCause

=============================================================================
