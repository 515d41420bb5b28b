----------------------------- MODULE DealsProofs -----------------------------
(***************************************************************************)
(* Proofs about module Deals, for any number of requests, listings and     *)
(* deals, whatever overlaps and wherever the process ends: a deal makes a  *)
(* legal journey through the statuses, its milestones are complete, its    *)
(* listing's availability has a cause, and, but for the races and cuts the *)
(* histories count, it keeps to the transition map, is not edited once     *)
(* closed, and is what its listing shows.                                  *)
(***************************************************************************)
EXTENDS Deals, TLAPS

\* What a status may follow.
LEMMA SuccessorsGrow ==
    ASSUME NEW S \in SUBSET DealStatus, NEW T \in SUBSET DealStatus, S \subseteq T
    PROVE  Successors(S) \subseteq Successors(T)
  BY DEF Successors

\* The table and its closure stay within the enum.
LEMMA TransitionsType == \A s \in DealStatus : Transitions[s] \subseteq DealStatus
  BY DEF Transitions, DealStatus

\* What a set of statuses may lead to is a set of statuses.
LEMMA SuccessorsType == \A S \in SUBSET DealStatus : Successors(S) \subseteq DealStatus
  BY TransitionsType DEF Successors

\* COMPLETED follows AGREED only; AGREED and DISPUTED follow NEGOTIATING first.
LEMMA Predecessors ==
    ASSUME NEW S \in SUBSET DealStatus
    PROVE  /\ "COMPLETED" \in Successors(S) => "AGREED" \in S
           /\ "AGREED" \in Successors(S) => "NEGOTIATING" \in S
           /\ "DISPUTED" \in Successors(S) => "NEGOTIATING" \in S \/ "AGREED" \in S
<1>1. \A s \in DealStatus :
         /\ "COMPLETED" \in Transitions[s] => s = "AGREED"
         /\ "AGREED" \in Transitions[s] => s = "NEGOTIATING"
         /\ "DISPUTED" \in Transitions[s] => s \in {"NEGOTIATING", "AGREED"}
  BY DEF Transitions, DealStatus
<1>2. ASSUME NEW t \in Successors(S) PROVE \E s \in S : t \in Transitions[s]
  BY DEF Successors
<1>3. QED BY <1>1, <1>2

\* syncListingAvailability's map goes from statuses to availabilities.
LEMMA MapType == \A s \in DOMAIN AvailabilityMap : s \in DealStatus /\ AvailabilityMap[s] \in Availability
  BY DEF AvailabilityMap, DealStatus, Availability

-----------------------------------------------------------------------------
(* Types *)

RowsOK ==
    /\ listing \in [Listings -> ListingRows]
    /\ deal \in Seq(DealRows) /\ Len(deal) <= MaxDeals
    /\ request \in [Requests -> Creating \cup Updating \cup Editing \cup {Idle}]

\* Every step of every request keeps the types of the rows and of the requests.
LEMMA RowsStep ==
    ASSUME DealsTypeOK, RequestsSound, [Next]_vars
    PROVE  RowsOK'
<1>0. /\ listing \in [Listings -> ListingRows]
      /\ deal \in Seq(DealRows) /\ Len(deal) <= MaxDeals
      /\ request \in [Requests -> Creating \cup Updating \cup Editing \cup {Idle}]
  BY DEF DealsTypeOK
<1>1. ASSUME NEW r \in Requests, NEW l \in Listings, BeginCreate(r, l)
      PROVE  RowsOK'
  <2>1. listing[l].canonical \in Canonicals
    BY <1>0 DEF ListingRows
  <2>2. QED BY <1>0, <1>1, <2>1 DEF RowsOK, BeginCreate, Become, Creating
<1>2. ASSUME NEW r \in Requests, NEW d \in DOMAIN deal, NEW new \in DealStatus, BeginUpdate(r, d, new)
      PROVE  RowsOK'
  <2>1. d \in Nat
    BY <1>0
  <2>2. QED BY <1>0, <1>2, <2>1 DEF RowsOK, BeginUpdate, Become, Updating
<1>3. ASSUME NEW r \in Requests, NEW d \in DOMAIN deal, NEW v \in Values, BeginFinancials(r, d, v)
      PROVE  RowsOK'
  <2>1. d \in Nat
    BY <1>0
  <2>2. QED BY <1>0, <1>3, <2>1 DEF RowsOK, BeginFinancials, Become, Editing
<1>4. ASSUME NEW r \in Requests, FindActive(r)
      PROVE  RowsOK'
  <2>1. request[r] \in Creating
    BY <1>0, <1>4 DEF FindActive, At, Creating, Updating, Editing, Idle
  <2>2. [request[r] EXCEPT !.pc = "insert"] \in Creating
    BY <2>1 DEF Creating
  <2>3. QED BY <1>0, <1>4, <2>2 DEF RowsOK, FindActive, Become
<1>5. ASSUME NEW r \in Requests, InsertDeal(r)
      PROVE  RowsOK'
  <2>1. request[r] \in Creating
    BY <1>0, <1>5 DEF InsertDeal, At, Creating, Updating, Editing, Idle
  <2>2. \A v \in Values : NewDeal(request[r].listing, request[r].canonical, v) \in DealRows
    BY <2>1 DEF NewDeal, DealRows, DealStatus, Creating
  <2>3. ASSUME NEW v \in Values, Len(deal) < MaxDeals,
               deal' = Append(deal, NewDeal(request[r].listing, request[r].canonical, v))
        PROVE  deal' \in Seq(DealRows) /\ Len(deal') <= MaxDeals
    BY <1>0, <2>2, <2>3, DealsAssumption
  <2>4. QED BY <1>0, <1>5, <2>3 DEF RowsOK, InsertDeal, Become
<1>6. ASSUME NEW r \in Requests, WriteStatus(r)
      PROVE  RowsOK'
  <2>1. request[r] \in Updating
    BY <1>0, <1>6 DEF WriteStatus, At, Creating, Updating, Editing, Idle
  <2>2. [request[r] EXCEPT !.pc = "sync"] \in Updating
    BY <2>1 DEF Updating
  <2>3. request[r].deal \in DOMAIN deal /\ request[r].status \in DealStatus
    BY <1>6, <2>1 DEF RequestsSound, WriteStatus, At, Updating
  <2>4. deal[request[r].deal] \in DealRows
    BY <1>0, <2>3
  <2>5. [deal[request[r].deal] EXCEPT !.status = request[r].status, !.held = @ \cup {request[r].status}] \in DealRows
    BY <2>3, <2>4 DEF DealRows
  <2>6. deal' \in Seq(DealRows) /\ Len(deal') = Len(deal)
    BY <1>0, <1>6, <2>3, <2>5 DEF WriteStatus
  <2>7. QED BY <1>0, <1>6, <2>2, <2>6 DEF RowsOK, WriteStatus, Become
<1>7. ASSUME NEW r \in Requests, SyncListing(r)
      PROVE  RowsOK'
  <2>1. request[r].status \in DOMAIN AvailabilityMap
    BY <1>7 DEF RequestsSound, SyncListing, At
  <2>2. \A l \in Listings : [listing[l] EXCEPT !.availability = AvailabilityMap[request[r].status],
                                               !.setBy = "deal"] \in ListingRows
    BY <1>0, <2>1, MapType DEF ListingRows
  <2>3. listing' \in [Listings -> ListingRows]
    BY <1>0, <1>7, <2>2 DEF SyncListing, Live
  <2>4. QED BY <1>0, <1>7, <2>3 DEF RowsOK, SyncListing, Become
<1>8. ASSUME NEW r \in Requests, WriteFinancials(r)
      PROVE  RowsOK'
  <2>1. request[r] \in Editing
    BY <1>0, <1>8 DEF WriteFinancials, At, Creating, Updating, Editing, Idle
  <2>2. request[r].deal \in DOMAIN deal /\ request[r].value \in Values
    BY <1>8, <2>1 DEF RequestsSound, WriteFinancials, At, Editing
  <2>3. deal[request[r].deal] \in DealRows
    BY <1>0, <2>2
  <2>4. [deal[request[r].deal] EXCEPT !.value = request[r].value] \in DealRows
    BY <2>2, <2>3 DEF DealRows
  <2>5. deal' \in Seq(DealRows) /\ Len(deal') = Len(deal)
    BY <1>0, <1>8, <2>2, <2>4 DEF WriteFinancials
  <2>6. QED BY <1>0, <1>8, <2>5 DEF RowsOK, WriteFinancials, Become
<1>9. ASSUME NEW l \in Listings, CreateListing(l) \/ DeleteListing(l)
      PROVE  RowsOK'
  <2>1. /\ [listing[l] EXCEPT !.state = "live"] \in ListingRows
        /\ [listing[l] EXCEPT !.state = "deleted"] \in ListingRows
    BY <1>0 DEF ListingRows
  <2>2. listing' \in [Listings -> ListingRows]
    BY <1>0, <1>9, <2>1 DEF CreateListing, DeleteListing
  <2>3. QED BY <1>0, <1>9, <2>2 DEF RowsOK, CreateListing, DeleteListing
<1>10. ASSUME NEW l \in Listings, NEW c \in Canonicals, RelinkListing(l, c)
      PROVE  RowsOK'
  <2>1. [listing[l] EXCEPT !.canonical = c] \in ListingRows
    BY <1>0 DEF ListingRows
  <2>2. QED BY <1>0, <1>10, <2>1 DEF RowsOK, RelinkListing
<1>11. ASSUME NEW l \in Listings, NEW a \in Availability, SetAvailability(l, a)
      PROVE  RowsOK'
  <2>1. [listing[l] EXCEPT !.availability = a, !.setBy = "broker"] \in ListingRows
    BY <1>0 DEF ListingRows
  <2>2. QED BY <1>0, <1>11, <2>1 DEF RowsOK, SetAvailability
<1>12. CASE Restart \/ UNCHANGED vars
  BY <1>0, <1>12 DEF RowsOK, Restart, vars
<1>13. QED
  BY <1>1, <1>2, <1>3, <1>4, <1>5, <1>6, <1>7, <1>8, <1>9, <1>10, <1>11, <1>12 DEF Next, RequestStep

\* The histories are about deals there are.
LEMMA HistoryStep ==
    ASSUME DealsTypeOK, RequestsSound, [Next]_vars
    PROVE  raced' \cup cut' \subseteq DOMAIN deal'
<1>0. deal \in Seq(DealRows) /\ raced \cup cut \subseteq DOMAIN deal
  BY DEF DealsTypeOK
<1>1. DOMAIN deal \subseteq DOMAIN deal'
  <2>1. ASSUME NEW row, deal' = Append(deal, row) PROVE DOMAIN deal \subseteq DOMAIN deal'
    BY <1>0, <2>1
  <2>2. deal' = deal \/ \E r \in Requests : InsertDeal(r) \/ WriteStatus(r) \/ WriteFinancials(r)
    BY DEF Next, RequestStep, BeginCreate, FindActive, BeginUpdate, SyncListing, BeginFinancials,
           CreateListing, DeleteListing, RelinkListing, SetAvailability, Restart, vars
  <2> QED BY <2>1, <2>2 DEF InsertDeal, WriteStatus, WriteFinancials
<1>2. raced' = raced \/ \E r \in Requests : WriteStatus(r)
  BY DEF Next, RequestStep, BeginCreate, FindActive, InsertDeal, BeginUpdate, SyncListing, BeginFinancials,
         WriteFinancials, CreateListing, DeleteListing, RelinkListing, SetAvailability, Restart, vars, history
<1>3. ASSUME NEW r \in Requests, WriteStatus(r) PROVE raced' \subseteq DOMAIN deal
  <2>1. request[r].deal \in DOMAIN deal
    BY <1>3 DEF RequestsSound, WriteStatus, At
  <2> QED BY <1>0, <1>3, <2>1 DEF WriteStatus, Race
<1>4. cut' \subseteq cut \/ Restart
  BY DEF Next, RequestStep, BeginCreate, FindActive, InsertDeal, BeginUpdate, WriteStatus, SyncListing,
         BeginFinancials, WriteFinancials, CreateListing, DeleteListing, RelinkListing, SetAvailability,
         vars, history
<1>5. CASE Restart
  BY <1>0, <1>5 DEF RequestsSound, Restart, At
<1> QED BY <1>0, <1>1, <1>2, <1>3, <1>4, <1>5

\* Every step keeps the types.
LEMMA TypeStep ==
    ASSUME DealsTypeOK, RequestsSound, [Next]_vars
    PROVE  DealsTypeOK'
  BY RowsStep, HistoryStep DEF RowsOK, DealsTypeOK

-----------------------------------------------------------------------------
(* The inductive invariant.  A step of the deals table either adds a fresh  *)
(* deal, or adds to the past of one; what was held stays held.              *)

Remembers ==
    \A d \in DOMAIN deal :
        /\ d \in DOMAIN deal'
        /\ deal[d].held \subseteq deal'[d].held
        /\ deal'[d].listing = deal[d].listing

\* What a request knows survives the others' writes.
Sound(r) ==
    /\ request[r].pc \in {"writeStatus", "sync", "writeFinancials"} => request[r].deal \in DOMAIN deal
    /\ request[r].pc = "writeStatus" => request[r].status \in Successors(deal[request[r].deal].held)
    /\ request[r].pc = "sync" =>
          request[r].status \in deal[request[r].deal].held \cap DOMAIN AvailabilityMap

\* What a request knows of its deal stays true while the deal only remembers more.
LEMMA StillSound ==
    ASSUME DealsTypeOK, DealsTypeOK', Remembers, NEW r \in Requests, Sound(r), request'[r] = request[r]
    PROVE  Sound(r)'
<1>1. ASSUME NEW d \in DOMAIN deal
      PROVE  /\ d \in DOMAIN deal'
             /\ deal[d].held \subseteq deal'[d].held
             /\ Successors(deal[d].held) \subseteq Successors(deal'[d].held)
  <2>1. deal[d] \in DealRows /\ d \in DOMAIN deal' /\ deal'[d] \in DealRows
    BY DEF DealsTypeOK, Remembers
  <2>2. deal[d].held \in SUBSET DealStatus /\ deal'[d].held \in SUBSET DealStatus
    BY <2>1 DEF DealRows
  <2>3. QED BY <2>1, <2>2, SuccessorsGrow DEF Remembers
<1>2. QED BY <1>1 DEF Sound

\* A step that lets no deal set an availability and forgets no status keeps the causes.
LEMMA CauseKept ==
    ASSUME AvailabilityHasCause, Remembers,
           \A l \in Listings : listing'[l].setBy = "deal" =>
               listing[l].setBy = "deal" /\ listing'[l].availability = listing[l].availability
    PROVE  AvailabilityHasCause'
  BY DEF AvailabilityHasCause, Remembers

\* A step that leaves the statuses held alone keeps the journeys connected.
LEMMA JourneysKept ==
    ASSUME JourneysConnected, UNCHANGED deal
    PROVE  JourneysConnected' /\ Remembers
  BY DEF JourneysConnected, Remembers

\* One request's step leaves what the others know true.
LEMMA OthersSound ==
    ASSUME DealsTypeOK, DealsTypeOK', Remembers, \A q \in Requests : Sound(q),
           NEW r \in Requests, Sound(r)', \A q \in Requests \ {r} : request'[q] = request[q]
    PROVE  \A q \in Requests : Sound(q)'
<1>1. ASSUME NEW q \in Requests, q # r PROVE Sound(q)'
  BY <1>1, StillSound
<1>2. QED BY <1>1

\* Every step of every request, and the process stopping, keeps the invariant.
LEMMA StepInv ==
    ASSUME DealsInv, [Next]_vars
    PROVE  DealsInv'
<1>0. /\ DealsTypeOK' /\ DealsTypeOK
      /\ listing \in [Listings -> ListingRows]
      /\ deal \in Seq(DealRows)
      /\ request \in [Requests -> Creating \cup Updating \cup Editing \cup {Idle}]
      /\ JourneysConnected
      /\ \A r \in Requests : Sound(r)
      /\ AvailabilityHasCause
  BY TypeStep DEF DealsInv, DealsTypeOK, RequestsSound, Sound
<1> DEFINE Kept == JourneysConnected' /\ AvailabilityHasCause' /\ \A r \in Requests : Sound(r)'
<1> SUFFICES Kept
  BY <1>0 DEF DealsInv, RequestsSound, Sound
\* A read that begins a request, or a step that only ends one.
<1>1. ASSUME NEW r \in Requests, UNCHANGED <<listing, deal>>, Sound(r)',
             \A q \in Requests \ {r} : request'[q] = request[q]
      PROVE  Kept
  <2>1. JourneysConnected' /\ Remembers
    BY <1>0, <1>1, JourneysKept
  <2>2. AvailabilityHasCause'
    BY <1>0, <1>1, <2>1, CauseKept
  <2>3. QED BY <1>0, <1>1, <2>1, <2>2, OthersSound
<1>2. ASSUME NEW r \in Requests, NEW l \in Listings, BeginCreate(r, l)
      PROVE  Kept
  <2>1. request'[r].pc = "findActive" /\ \A q \in Requests \ {r} : request'[q] = request[q]
    BY <1>0, <1>2 DEF BeginCreate, Become
  <2>2. QED BY <1>1, <1>2, <2>1 DEF BeginCreate, Sound
<1>3. ASSUME NEW r \in Requests, NEW d \in DOMAIN deal, NEW new \in DealStatus, BeginUpdate(r, d, new)
      PROVE  Kept
  <2>1. /\ request'[r] = [pc |-> "writeStatus", deal |-> d, status |-> new]
        /\ \A q \in Requests \ {r} : request'[q] = request[q]
    BY <1>0, <1>3 DEF BeginUpdate, Become
  <2>2. new \in Successors(deal[d].held)
    BY <1>0, <1>3 DEF BeginUpdate, JourneysConnected, Successors
  <2>3. Sound(r)'
    BY <1>3, <2>1, <2>2 DEF BeginUpdate, Sound
  <2>4. QED BY <1>1, <1>3, <2>1, <2>3 DEF BeginUpdate
<1>4. ASSUME NEW r \in Requests, NEW d \in DOMAIN deal, NEW v \in Values, BeginFinancials(r, d, v)
      PROVE  Kept
  <2>1. /\ request'[r] = [pc |-> "writeFinancials", deal |-> d, value |-> v]
        /\ \A q \in Requests \ {r} : request'[q] = request[q]
    BY <1>0, <1>4 DEF BeginFinancials, Become
  <2>2. Sound(r)'
    BY <1>4, <2>1 DEF BeginFinancials, Sound
  <2>3. QED BY <1>1, <1>4, <2>1, <2>2 DEF BeginFinancials
<1>5. ASSUME NEW r \in Requests, FindActive(r)
      PROVE  Kept
  <2>1. request[r] \in Creating
    BY <1>0, <1>5 DEF FindActive, At, Creating, Updating, Editing, Idle
  <2>2. request'[r].pc \in {"insert", "idle"} /\ \A q \in Requests \ {r} : request'[q] = request[q]
    BY <1>0, <1>5, <2>1 DEF FindActive, Become, Idle, Creating
  <2>3. QED BY <1>1, <1>5, <2>2 DEF FindActive, Sound
<1>6. ASSUME NEW r \in Requests, InsertDeal(r)
      PROVE  Kept
  <2>1. request'[r] = Idle /\ \A q \in Requests \ {r} : request'[q] = request[q]
    BY <1>0, <1>6 DEF InsertDeal, Become
  <2>2. Sound(r)'
    BY <2>1 DEF Sound, Idle
  <2>3. CASE deal' = deal
    BY <1>1, <1>6, <2>1, <2>2, <2>3 DEF InsertDeal
  <2>4. ASSUME NEW v \in Values,
               deal' = Append(deal, NewDeal(request[r].listing, request[r].canonical, v))
        PROVE  Kept
    <3>1. /\ DOMAIN deal = 1..Len(deal) /\ Len(deal) \in Nat
          /\ DOMAIN deal' = 1..Len(deal) + 1
          /\ \A d \in DOMAIN deal : deal'[d] = deal[d]
          /\ deal'[Len(deal) + 1] = NewDeal(request[r].listing, request[r].canonical, v)
      BY <1>0, <2>4
    <3>2. Remembers
      BY <3>1 DEF Remembers
    <3>3. /\ deal'[Len(deal) + 1].status = "INITIATED"
          /\ deal'[Len(deal) + 1].held = {"INITIATED"}
      BY <3>1 DEF NewDeal
    <3>4. JourneysConnected'
      BY <1>0, <3>1, <3>3 DEF JourneysConnected
    <3>5. AvailabilityHasCause'
      BY <1>0, <1>6, <3>2, CauseKept DEF InsertDeal
    <3>6. QED BY <1>0, <2>1, <2>2, <3>2, <3>4, <3>5, OthersSound
  <2>5. QED BY <1>6, <2>3, <2>4 DEF InsertDeal
<1>7. ASSUME NEW r \in Requests, WriteStatus(r)
      PROVE  Kept
  <2> DEFINE d == request[r].deal
             new == request[r].status
  <2>1. request[r] \in Updating
    BY <1>0, <1>7 DEF WriteStatus, At, Creating, Updating, Editing, Idle
  <2>2. d \in DOMAIN deal /\ new \in Successors(deal[d].held)
    BY <1>0, <1>7 DEF WriteStatus, At, Sound
  <2>3. \A e \in DOMAIN deal : deal[e] \in DealRows
    BY <1>0
  <2>4. /\ DOMAIN deal' = DOMAIN deal
        /\ \A e \in DOMAIN deal :
              /\ deal'[e].listing = deal[e].listing
              /\ e # d => deal'[e] = deal[e]
        /\ deal'[d].status = new
        /\ deal'[d].held = deal[d].held \cup {new}
    BY <1>0, <1>7, <2>2, <2>3 DEF WriteStatus, DealRows
  <2>5. Remembers
    BY <2>4 DEF Remembers
  <2>6. JourneysConnected'
    <3>1. ASSUME NEW e \in DOMAIN deal, e # d
          PROVE  /\ deal'[e].status \in deal'[e].held
                 /\ deal'[e].held \subseteq {"INITIATED"} \cup Successors(deal'[e].held)
      BY <1>0, <2>4, <3>1 DEF JourneysConnected
    <3>2. /\ deal'[d].status \in deal'[d].held
          /\ deal'[d].held \subseteq {"INITIATED"} \cup Successors(deal'[d].held)
      <4>1. deal[d].held \in SUBSET DealStatus /\ new \in DealStatus
        BY <2>1, <2>2, <2>3 DEF DealRows, Updating
      <4>2. Successors(deal[d].held) \subseteq Successors(deal[d].held \cup {new})
        BY <4>1, SuccessorsGrow
      <4>3. QED BY <1>0, <2>2, <2>4, <4>2 DEF JourneysConnected
    <3>3. QED BY <2>4, <3>1, <3>2 DEF JourneysConnected
  <2>7. AvailabilityHasCause'
    BY <1>0, <1>7, <2>5, CauseKept DEF WriteStatus
  <2>8. \A q \in Requests \ {r} : request'[q] = request[q]
    BY <1>0, <1>7 DEF WriteStatus, Become
  <2>9. Sound(r)'
    <3>1. CASE new \in DOMAIN AvailabilityMap
      <4>1. request'[r] = [request[r] EXCEPT !.pc = "sync"]
        BY <1>0, <1>7, <3>1 DEF WriteStatus, Become
      <4>2. /\ request'[r].pc = "sync" /\ request'[r].deal = d /\ request'[r].status = new
        BY <2>1, <4>1 DEF Updating
      <4>3. QED BY <2>2, <2>4, <3>1, <4>2 DEF Sound
    <3>2. CASE new \notin DOMAIN AvailabilityMap
      <4>1. request'[r] = Idle
        BY <1>0, <1>7, <3>2 DEF WriteStatus, Become
      <4>2. QED BY <4>1 DEF Sound, Idle
    <3>3. QED BY <3>1, <3>2
  <2>10. QED BY <1>0, <2>5, <2>6, <2>7, <2>8, <2>9, OthersSound
<1>8. ASSUME NEW r \in Requests, SyncListing(r)
      PROVE  Kept
  <2> DEFINE d == request[r].deal
             s == request[r].status
  <2>1. d \in DOMAIN deal /\ s \in deal[d].held \cap DOMAIN AvailabilityMap
    BY <1>0, <1>8 DEF SyncListing, At, Sound
  <2>2. deal' = deal /\ request'[r] = Idle /\ \A q \in Requests \ {r} : request'[q] = request[q]
    BY <1>0, <1>8 DEF SyncListing, Become
  <2>3. JourneysConnected' /\ Remembers
    BY <1>0, <2>2, JourneysKept
  <2>4. AvailabilityHasCause'
    <3>1. ASSUME NEW l \in Listings, l # deal[d].listing
          PROVE  listing'[l] = listing[l]
      BY <1>0, <1>8, <3>1 DEF SyncListing
    <3>2. deal[d].listing \in Live =>
             listing'[deal[d].listing].availability = AvailabilityMap[s]
      BY <1>0, <1>8 DEF SyncListing, Live, ListingRows
    <3>3. deal[d].listing \notin Live => listing' = listing
      BY <1>8 DEF SyncListing
    <3>4. QED BY <1>0, <2>1, <2>2, <3>1, <3>2, <3>3 DEF AvailabilityHasCause
  <2>5. Sound(r)'
    BY <2>2 DEF Sound, Idle
  <2>6. QED BY <1>0, <2>2, <2>3, <2>4, <2>5, OthersSound
<1>9. ASSUME NEW r \in Requests, WriteFinancials(r)
      PROVE  Kept
  <2>1. request[r].deal \in DOMAIN deal
    BY <1>0, <1>9 DEF WriteFinancials, At, Sound
  <2>2. /\ DOMAIN deal' = DOMAIN deal
        /\ \A e \in DOMAIN deal :
              /\ deal'[e].status = deal[e].status
              /\ deal'[e].held = deal[e].held
              /\ deal'[e].listing = deal[e].listing
    BY <1>0, <1>9, <2>1 DEF WriteFinancials, DealRows
  <2>3. JourneysConnected' /\ Remembers
    BY <1>0, <2>2 DEF JourneysConnected, Remembers
  <2>4. request'[r] = Idle /\ \A q \in Requests \ {r} : request'[q] = request[q]
    BY <1>0, <1>9 DEF WriteFinancials, Become
  <2>5. Sound(r)'
    BY <2>4 DEF Sound, Idle
  <2>6. AvailabilityHasCause'
    BY <1>0, <1>9, <2>3, CauseKept DEF WriteFinancials
  <2>7. QED BY <1>0, <2>3, <2>4, <2>5, <2>6, OthersSound
\* A listing's other writers, and the loss of every request.
<1>10. ASSUME deal' = deal,
              \A l \in Listings : listing'[l].setBy = "deal" =>
                  listing[l].setBy = "deal" /\ listing'[l].availability = listing[l].availability,
              \A q \in Requests : request'[q] = Idle \/ request'[q] = request[q]
       PROVE  Kept
  <2>1. JourneysConnected' /\ Remembers
    BY <1>0, <1>10, JourneysKept
  <2>2. AvailabilityHasCause'
    BY <1>0, <1>10, <2>1, CauseKept
  <2>3. ASSUME NEW q \in Requests PROVE Sound(q)'
    <3>1. CASE request'[q] = Idle
      BY <3>1 DEF Sound, Idle
    <3>2. CASE request'[q] = request[q]
      BY <1>0, <2>1, <3>2, StillSound
    <3>3. QED BY <1>10, <3>1, <3>2
  <2>4. QED BY <2>1, <2>2, <2>3
<1>11. ASSUME NEW l \in Listings, CreateListing(l) \/ DeleteListing(l)
       PROVE  Kept
  <2>1. \A k \in Listings : listing'[k].setBy = "deal" =>
            listing[k].setBy = "deal" /\ listing'[k].availability = listing[k].availability
    BY <1>0, <1>11 DEF CreateListing, DeleteListing, ListingRows
  <2>2. QED BY <1>10, <1>11, <2>1 DEF CreateListing, DeleteListing
<1>12. ASSUME NEW l \in Listings, NEW c \in Canonicals, RelinkListing(l, c)
       PROVE  Kept
  <2>1. \A k \in Listings : listing'[k].setBy = "deal" =>
            listing[k].setBy = "deal" /\ listing'[k].availability = listing[k].availability
    BY <1>0, <1>12 DEF RelinkListing, ListingRows
  <2>2. QED BY <1>10, <1>12, <2>1 DEF RelinkListing
<1>13. ASSUME NEW l \in Listings, NEW a \in Availability, SetAvailability(l, a)
       PROVE  Kept
  <2>1. \A k \in Listings : listing'[k].setBy = "deal" =>
            listing[k].setBy = "deal" /\ listing'[k].availability = listing[k].availability
    BY <1>0, <1>13 DEF SetAvailability, ListingRows
  <2>2. QED BY <1>10, <1>13, <2>1 DEF SetAvailability
<1>14. CASE Restart \/ UNCHANGED vars
  BY <1>0, <1>10, <1>14 DEF Restart, vars
<1>15. QED
  BY <1>2, <1>3, <1>4, <1>5, <1>6, <1>7, <1>8, <1>9, <1>11, <1>12, <1>13, <1>14 DEF Next, RequestStep

\* The invariant holds before any deal exists.
LEMMA InitInv == Init => DealsInv
<1> SUFFICES ASSUME Init PROVE DealsInv
  OBVIOUS
<1>1. DealsTypeOK
  BY DealsAssumption DEF Init, DealsTypeOK, ListingRows, Availability
<1>2. JourneysConnected
  BY DEF Init, JourneysConnected
<1>3. RequestsSound
  BY DEF Init, RequestsSound, Idle
<1>4. AvailabilityHasCause
  BY DEF Init, AvailabilityHasCause
<1>5. QED BY <1>1, <1>2, <1>3, <1>4 DEF DealsInv

(* The invariant holds in every reachable state, types among the rest.      *)
THEOREM Invariance == Spec => []DealsInv
<1>1. DealsInv /\ [Next]_vars => DealsInv'
  BY StepInv
<1>2. QED BY InitInv, <1>1, PTL DEF Spec

\* Type correctness: every reachable state satisfies DealsTypeOK.
THEOREM TypeCorrect == Spec => []DealsTypeOK
<1>1. DealsInv => DealsTypeOK
  BY DEF DealsInv
<1>2. QED BY <1>1, Invariance, PTL

-----------------------------------------------------------------------------
(* What it gives *)

(* However requests overlap and wherever the process stops, a deal that was *)
(* completed had been agreed, and one agreed or disputed, negotiated.       *)
THEOREM Milestones == Spec => []MilestonesComplete
<1>1. DealsInv => MilestonesComplete
  <2> SUFFICES ASSUME DealsInv, NEW d \in DOMAIN deal
               PROVE  /\ deal[d].status \in deal[d].held
                      /\ "COMPLETED" \in deal[d].held => "AGREED" \in deal[d].held
                      /\ deal[d].held \cap {"AGREED", "DISPUTED"} # {} => "NEGOTIATING" \in deal[d].held
    BY DEF MilestonesComplete
  <2>1. deal[d] \in DealRows
    BY DEF DealsInv, DealsTypeOK
  <2>2. deal[d].held \in SUBSET DealStatus
    BY <2>1 DEF DealRows
  <2>3. /\ deal[d].status \in deal[d].held
        /\ deal[d].held \subseteq {"INITIATED"} \cup Successors(deal[d].held)
    BY DEF DealsInv, JourneysConnected
  <2>4. QED BY <2>2, <2>3, Predecessors
<1>2. QED BY <1>1, Invariance, PTL

(* A listing's availability, when the deals wrote it last, has a cause      *)
(* among the statuses its deals have had.                                   *)
THEOREM Causes == Spec => []AvailabilityHasCause
<1>1. DealsInv => AvailabilityHasCause
  BY DEF DealsInv
<1>2. QED BY <1>1, Invariance, PTL

-----------------------------------------------------------------------------
(* What a request has checked of its deal still holds as it writes, unless  *)
(* a status was written in between.                                         *)

Over == {"COMPLETED", "FALLEN_THROUGH"}

OnDeal == {"writeStatus", "sync", "writeFinancials"}

Checked(r) ==
    request[r].pc \in OnDeal /\ request[r].deal \notin raced =>
        /\ request[r].pc = "writeStatus" => request[r].status \in Transitions[deal[request[r].deal].status]
        /\ request[r].pc = "sync" => request[r].status = deal[request[r].deal].status
        /\ request[r].pc = "writeFinancials" => deal[request[r].deal].status \notin Over

ChecksHold == \A r \in Requests : Checked(r)

\* A status is written, and nothing else changes one; the race is counted.
LEMMA StatusChanged ==
    ASSUME DealsInv, NEW r \in Requests, WriteStatus(r)
    PROVE  /\ request[r] \in Updating /\ request[r].pc = "writeStatus"
           /\ request[r].deal \in DOMAIN deal
           /\ DOMAIN deal' = DOMAIN deal /\ listing' = listing /\ cut' = cut
           /\ \A e \in DOMAIN deal :
                 /\ deal'[e].listing = deal[e].listing
                 /\ deal'[e].value = deal[e].value
                 /\ e # request[r].deal => deal'[e] = deal[e]
           /\ deal'[request[r].deal].status = request[r].status
           /\ \A q \in Requests : q # r => request'[q] = request[q]
           /\ request'[r] = IF request[r].status \in DOMAIN AvailabilityMap
                              THEN [request[r] EXCEPT !.pc = "sync"] ELSE Idle
           /\ raced \subseteq raced' /\ raced' \subseteq raced \cup {request[r].deal}
           /\ \A q \in Requests : q # r /\ request[q].pc \in OnDeal /\ request[q].deal = request[r].deal
                                  => request[r].deal \in raced'
<1>0. /\ deal \in Seq(DealRows)
      /\ request \in [Requests -> Creating \cup Updating \cup Editing \cup {Idle}]
  BY DEF DealsInv, DealsTypeOK
<1>1. request[r].pc = "writeStatus" /\ listing' = listing /\ cut' = cut
  BY DEF WriteStatus, At
<1>2. request[r] \in Updating
  BY <1>0, <1>1 DEF Creating, Updating, Editing, Idle
<1>3. request[r].deal \in DOMAIN deal
  BY <1>1 DEF DealsInv, RequestsSound
<1>4. \A e \in DOMAIN deal : deal[e] \in DealRows
  BY <1>0
<1>5. /\ DOMAIN deal' = DOMAIN deal
      /\ \A e \in DOMAIN deal :
            /\ deal'[e].listing = deal[e].listing
            /\ deal'[e].value = deal[e].value
            /\ e # request[r].deal => deal'[e] = deal[e]
      /\ deal'[request[r].deal].status = request[r].status
  BY <1>0, <1>3, <1>4 DEF WriteStatus, DealRows
<1>6. \A q \in Requests : q # r => request'[q] = request[q]
  BY <1>0 DEF WriteStatus, Become
<1>9. raced \subseteq raced' /\ raced' \subseteq raced \cup {request[r].deal}
  BY DEF WriteStatus, Race
<1>10. ASSUME NEW q \in Requests, q # r, request[q].pc \in OnDeal, request[q].deal = request[r].deal
       PROVE  request[r].deal \in raced'
  BY <1>10 DEF WriteStatus, Race, Contended, OnDeal
<1>11. request'[r] = IF request[r].status \in DOMAIN AvailabilityMap
                       THEN [request[r] EXCEPT !.pc = "sync"] ELSE Idle
  <2>1. CASE request[r].status \in DOMAIN AvailabilityMap
    <3>1. request' = [request EXCEPT ![r] = [request[r] EXCEPT !.pc = "sync"]]
      BY <2>1 DEF WriteStatus, Become
    <3> QED BY <1>0, <2>1, <3>1
  <2>2. CASE request[r].status \notin DOMAIN AvailabilityMap
    <3>1. request' = [request EXCEPT ![r] = Idle]
      BY <2>2 DEF WriteStatus, Become
    <3> QED BY <1>0, <2>2, <3>1
  <2> QED BY <2>1, <2>2
<1> QED BY <1>1, <1>2, <1>3, <1>5, <1>6, <1>9, <1>10, <1>11

\* What a request knows to hold survives a step that leaves its deal's status.
LEMMA StillChecked ==
    ASSUME NEW q \in Requests, Checked(q), request'[q] = request[q], raced \subseteq raced',
           request[q].pc \in OnDeal =>
               \/ request[q].deal \in raced'
               \/ deal'[request[q].deal].status = deal[request[q].deal].status
    PROVE  Checked(q)'
  BY DEF Checked

\* Every step keeps the checks, or counts the race.
LEMMA ChecksStep ==
    ASSUME DealsInv, ChecksHold, [Next]_vars
    PROVE  ChecksHold'
<1>0. /\ deal \in Seq(DealRows)
      /\ request \in [Requests -> Creating \cup Updating \cup Editing \cup {Idle}]
      /\ \A q \in Requests : request[q].pc \in OnDeal => request[q].deal \in DOMAIN deal
  BY DEF DealsInv, DealsTypeOK, RequestsSound, OnDeal
\* No status changes, and one request at most moves.
<1>a. ASSUME NEW r \in Requests, Checked(r)', \A q \in Requests : q # r => request'[q] = request[q],
             raced' = raced, \A d \in DOMAIN deal : deal'[d].status = deal[d].status
      PROVE  ChecksHold'
  <2>1. ASSUME NEW q \in Requests PROVE Checked(q)'
    BY <1>0, <1>a, StillChecked DEF ChecksHold
  <2> QED BY <2>1 DEF ChecksHold
<1>2. ASSUME NEW r \in Requests, NEW l \in Listings, BeginCreate(r, l) PROVE ChecksHold'
  <2>1. request'[r].pc = "findActive" /\ \A q \in Requests : q # r => request'[q] = request[q]
    BY <1>0, <1>2 DEF BeginCreate, Become
  <2>2. Checked(r)' BY <2>1 DEF Checked, OnDeal
  <2> QED BY <1>2, <1>a, <2>1, <2>2 DEF BeginCreate, history
<1>3. ASSUME NEW r \in Requests, NEW d \in DOMAIN deal, NEW new \in DealStatus, BeginUpdate(r, d, new)
      PROVE  ChecksHold'
  <2>1. /\ request'[r] = [pc |-> "writeStatus", deal |-> d, status |-> new] /\ deal' = deal
        /\ new \in Transitions[deal[d].status] /\ raced' = raced
        /\ \A q \in Requests : q # r => request'[q] = request[q]
    BY <1>0, <1>3 DEF BeginUpdate, Become, history
  <2>2. Checked(r)' BY <2>1 DEF Checked
  <2> QED BY <1>a, <2>1, <2>2
<1>4. ASSUME NEW r \in Requests, NEW d \in DOMAIN deal, NEW v \in Values, BeginFinancials(r, d, v)
      PROVE  ChecksHold'
  <2>1. /\ request'[r] = [pc |-> "writeFinancials", deal |-> d, value |-> v] /\ deal' = deal
        /\ deal[d].status \notin Over /\ raced' = raced
        /\ \A q \in Requests : q # r => request'[q] = request[q]
    BY <1>0, <1>4 DEF BeginFinancials, Become, Over, history
  <2>2. Checked(r)' BY <2>1 DEF Checked
  <2> QED BY <1>a, <2>1, <2>2
<1>5. ASSUME NEW r \in Requests, FindActive(r) PROVE ChecksHold'
  <2>1. request[r] \in Creating
    BY <1>0, <1>5 DEF FindActive, At, Creating, Updating, Editing, Idle
  <2>2. request'[r].pc \in {"insert", "idle"}
    BY <1>0, <1>5, <2>1 DEF FindActive, Become, Idle, Creating
  <2>3. \A q \in Requests : q # r => request'[q] = request[q]
    BY <1>0, <1>5 DEF FindActive, Become
  <2>4. Checked(r)' BY <2>2 DEF Checked, OnDeal
  <2> QED BY <1>5, <1>a, <2>3, <2>4 DEF FindActive, history
<1>6. ASSUME NEW r \in Requests, InsertDeal(r) \/ SyncListing(r) \/ WriteFinancials(r)
      PROVE  ChecksHold'
  <2>1. request'[r] = Idle /\ raced' = raced /\ \A q \in Requests : q # r => request'[q] = request[q]
    BY <1>0, <1>6 DEF InsertDeal, SyncListing, WriteFinancials, Become, history
  <2>2. Checked(r)' BY <2>1 DEF Checked, OnDeal, Idle
  <2>3. \A d \in DOMAIN deal : deal'[d].status = deal[d].status
    <3>1. CASE InsertDeal(r)
      <4>1. ASSUME NEW row, deal' = Append(deal, row) PROVE \A d \in DOMAIN deal : deal'[d].status = deal[d].status
        BY <1>0, <4>1
      <4> QED BY <3>1, <4>1 DEF InsertDeal
    <3>2. CASE SyncListing(r) BY <3>2 DEF SyncListing
    <3>3. CASE WriteFinancials(r) BY <1>0, <3>3 DEF WriteFinancials, DealRows
    <3> QED BY <1>6, <3>1, <3>2, <3>3
  <2> QED BY <1>a, <2>1, <2>2, <2>3
<1>7. ASSUME NEW r \in Requests, WriteStatus(r) PROVE ChecksHold'
  <2> PICK d : d = request[r].deal OBVIOUS
  <2> PICK new : new = request[r].status OBVIOUS
  <2>1. /\ request[r] \in Updating
        /\ \A e \in DOMAIN deal : e # d => deal'[e] = deal[e]
        /\ deal'[d].status = new /\ raced \subseteq raced'
        /\ \A q \in Requests : q # r => request'[q] = request[q]
        /\ request'[r] = IF new \in DOMAIN AvailabilityMap THEN [request[r] EXCEPT !.pc = "sync"] ELSE Idle
        /\ \A q \in Requests : q # r /\ request[q].pc \in OnDeal /\ request[q].deal = d => d \in raced'
    BY <1>7, StatusChanged
  <2>2. Checked(r)'
    <3>1. CASE new \in DOMAIN AvailabilityMap
      <4>1. request'[r] = [request[r] EXCEPT !.pc = "sync"]
        BY <2>1, <3>1
      <4>2. request'[r].pc = "sync" /\ request'[r].deal = d /\ request'[r].status = new
        BY <2>1, <4>1 DEF Updating
      <4> QED BY <2>1, <4>2 DEF Checked
    <3>2. CASE new \notin DOMAIN AvailabilityMap
      BY <2>1, <3>2 DEF Checked, OnDeal, Idle
    <3> QED BY <3>1, <3>2
  <2>3. ASSUME NEW q \in Requests, q # r PROVE Checked(q)'
    BY <1>0, <2>1, <2>3, StillChecked DEF ChecksHold
  <2> QED BY <2>2, <2>3 DEF ChecksHold
<1>8. ASSUME deal' = deal, raced' = raced, request' = request \/ request' = [r \in Requests |-> Idle]
      PROVE  ChecksHold'
  BY <1>8 DEF ChecksHold, Checked, OnDeal, Idle
<1>9. CASE \/ \E l \in Listings : CreateListing(l) \/ DeleteListing(l)
           \/ \E l \in Listings, c \in Canonicals : RelinkListing(l, c)
           \/ \E l \in Listings, a \in Availability : SetAvailability(l, a)
           \/ Restart \/ UNCHANGED vars
  BY <1>8, <1>9 DEF CreateListing, DeleteListing, RelinkListing, SetAvailability, Restart, vars, history
<1>10. QED BY <1>2, <1>3, <1>4, <1>5, <1>6, <1>7, <1>9 DEF Next, RequestStep

LEMMA ChecksInvariant == Spec => []ChecksHold
<1>1. Init => ChecksHold
  BY DEF Init, ChecksHold, Checked, OnDeal, Idle
<1>2. DealsInv /\ ChecksHold /\ [Next]_vars => ChecksHold'
  BY ChecksStep
<1>3. QED BY <1>1, <1>2, Invariance, PTL DEF Spec

-----------------------------------------------------------------------------
(* Deals implements the abstract journey: each step of the service is the   *)
(* start of a deal, a move to where it may go next, or leaves every status  *)
(* alone.                                                                   *)

StatusOf == [d \in 1..MaxDeals |-> IF d \in DOMAIN deal THEN deal[d].status ELSE "NONE"]
HeldOf   == [d \in 1..MaxDeals |-> IF d \in DOMAIN deal THEN deal[d].held ELSE {}]

\* A deal moves to its new status, and remembers it.
LEMMA StatusWritten ==
    ASSUME DealsInv, NEW r \in Requests, WriteStatus(r), NEW d, d = request[r].deal,
           NEW new, new = request[r].status
    PROVE  /\ d \in 1..MaxDeals /\ new \in Successors(HeldOf[d])
           /\ StatusOf[d] = deal[d].status /\ StatusOf[d] # "NONE" /\ HeldOf[d] = deal[d].held
           /\ StatusOf' = [StatusOf EXCEPT ![d] = new]
           /\ HeldOf' = [HeldOf EXCEPT ![d] = @ \cup {new}]
<1>0. deal \in Seq(DealRows) /\ Len(deal) <= MaxDeals /\ MaxDeals \in Nat /\ DOMAIN deal \subseteq 1..MaxDeals
  BY DealsAssumption DEF DealsInv, DealsTypeOK
<1>1. d \in DOMAIN deal /\ new \in Successors(deal[d].held)
  BY DEF DealsInv, RequestsSound, WriteStatus, At
<1>2. deal[d] \in DealRows
  BY <1>0, <1>1
<1>3. /\ DOMAIN deal' = DOMAIN deal
      /\ \A e \in DOMAIN deal : e # d => deal'[e] = deal[e]
      /\ deal'[d].status = new /\ deal'[d].held = deal[d].held \cup {new}
  BY <1>0, <1>1, <1>2 DEF WriteStatus, DealRows
<1>4. StatusOf' = [StatusOf EXCEPT ![d] = new]
  BY <1>0, <1>1, <1>3 DEF StatusOf
<1>5. HeldOf' = [HeldOf EXCEPT ![d] = @ \cup {new}]
  BY <1>0, <1>1, <1>3 DEF HeldOf
<1>6. StatusOf[d] = deal[d].status /\ StatusOf[d] # "NONE" /\ HeldOf[d] = deal[d].held
  BY <1>0, <1>1, <1>2 DEF StatusOf, HeldOf, DealRows, DealStatus
<1>7. QED BY <1>0, <1>1, <1>4, <1>5, <1>6

\* Every other step starts a deal, or leaves every status alone.
LEMMA OtherSteps ==
    ASSUME DealsInv, DealsInv', [Next]_vars, ~ \E r \in Requests : WriteStatus(r)
    PROVE  (\E d \in 1..MaxDeals : Abstract!Start(d)) \/ UNCHANGED <<StatusOf, HeldOf, raced>>
<1>0. /\ deal \in Seq(DealRows) /\ deal' \in Seq(DealRows)
      /\ Len(deal) <= MaxDeals /\ Len(deal') <= MaxDeals /\ MaxDeals \in Nat
      /\ DOMAIN deal \subseteq 1..MaxDeals
  BY DealsAssumption DEF DealsInv, DealsTypeOK
<1>r. raced' = raced
  BY DEF Next, RequestStep, BeginCreate, FindActive, InsertDeal, BeginUpdate, SyncListing, BeginFinancials,
         WriteFinancials, CreateListing, DeleteListing, RelinkListing, SetAvailability, Restart, vars, history
<1>1. CASE deal' = deal
  BY <1>r, <1>1 DEF StatusOf, HeldOf
<1>2. ASSUME NEW r \in Requests, NEW v \in Values,
             deal' = Append(deal, NewDeal(request[r].listing, request[r].canonical, v))
      PROVE  \E n \in 1..MaxDeals : Abstract!Start(n)
  <2>0. PICK n \in Nat : n = Len(deal) + 1
    BY <1>0
  <2>1. /\ n \in 1..MaxDeals /\ n \notin DOMAIN deal /\ n \in DOMAIN deal'
        /\ \A d \in 1..MaxDeals : d # n => (d \in DOMAIN deal' <=> d \in DOMAIN deal)
        /\ \A d \in DOMAIN deal : deal'[d] = deal[d]
        /\ deal'[n] = NewDeal(request[r].listing, request[r].canonical, v)
    BY <1>0, <1>2, <2>0
  <2>2. deal'[n].status = "INITIATED" /\ deal'[n].held = {"INITIATED"}
    BY <2>1 DEF NewDeal
  <2>3. StatusOf' = [StatusOf EXCEPT ![n] = "INITIATED"]
    BY <2>1, <2>2 DEF StatusOf
  <2>4. HeldOf' = [HeldOf EXCEPT ![n] = @ \cup {"INITIATED"}]
    BY <2>1, <2>2 DEF HeldOf
  <2>5. StatusOf[n] = "NONE"
    BY <2>1 DEF StatusOf
  <2>6. QED BY <1>r, <2>1, <2>3, <2>4, <2>5 DEF Abstract!Start, Abstract!Become, StatusOf, HeldOf
<1>3. ASSUME NEW r \in Requests, WriteFinancials(r)
      PROVE  UNCHANGED <<StatusOf, HeldOf, raced>>
  <2>1. request[r].deal \in DOMAIN deal
    BY <1>3 DEF DealsInv, RequestsSound, WriteFinancials, At
  <2>2. /\ DOMAIN deal' = DOMAIN deal
        /\ \A e \in DOMAIN deal : deal'[e].status = deal[e].status /\ deal'[e].held = deal[e].held
    BY <1>0, <1>3, <2>1 DEF WriteFinancials, DealRows
  <2>3. QED BY <1>r, <2>2 DEF StatusOf, HeldOf
<1>4. ASSUME NEW r \in Requests, InsertDeal(r)
      PROVE  (\E d \in 1..MaxDeals : Abstract!Start(d)) \/ UNCHANGED <<StatusOf, HeldOf, raced>>
  BY <1>1, <1>2, <1>4 DEF InsertDeal
<1>5. deal' = deal \/ \E r \in Requests : InsertDeal(r) \/ WriteFinancials(r)
  BY DEF Next, RequestStep, BeginCreate, FindActive, BeginUpdate, SyncListing, BeginFinancials,
         CreateListing, DeleteListing, RelinkListing, SetAvailability, Restart, vars
<1>6. QED BY <1>1, <1>3, <1>4, <1>5

\* A status written is one the deal may go to: an arrow leads to it from the
\* status the deal has, or, once raced, from one it has had.
LEMMA FollowStep ==
    ASSUME DealsInv, ChecksHold, NEW r \in Requests, WriteStatus(r)
    PROVE  \E d \in 1..MaxDeals : Abstract!Follow(d)
<1> PICK d : d = request[r].deal
  OBVIOUS
<1> PICK new : new = request[r].status
  OBVIOUS
<1>1. /\ d \in 1..MaxDeals /\ new \in Successors(HeldOf[d])
      /\ StatusOf[d] = deal[d].status /\ StatusOf[d] # "NONE"
      /\ StatusOf' = [StatusOf EXCEPT ![d] = new]
      /\ HeldOf' = [HeldOf EXCEPT ![d] = @ \cup {new}]
  BY StatusWritten
<1>2. d \notin raced => new \in Transitions[StatusOf[d]]
  BY <1>1 DEF ChecksHold, Checked, OnDeal, WriteStatus, At
<1>3. Abstract!Successors(HeldOf[d]) = Successors(HeldOf[d]) /\ Abstract!Transitions = Transitions
  BY DEF Abstract!Successors, Abstract!Transitions, Abstract!DealStatus, Successors, Transitions, DealStatus
<1>4. Abstract!Reachable(d) = IF d \in raced THEN Successors(HeldOf[d]) ELSE Transitions[StatusOf[d]]
  BY <1>3 DEF Abstract!Reachable, StatusOf, HeldOf
<1>5. raced' \in {raced, raced \cup {d}}
  BY DEF WriteStatus, Race
<1>6. new \in Abstract!Reachable(d)
  BY <1>1, <1>2, <1>4
<1>7. Abstract!Become(d, new) /\ StatusOf[d] # "NONE"
  BY <1>1 DEF Abstract!Become, StatusOf, HeldOf
<1>8. Abstract!Follow(d)
  BY <1>5, <1>6, <1>7 DEF Abstract!Follow, StatusOf
<1> QED BY <1>1, <1>8

\* Overlapping requests and a stopping process implement the journey of every
\* deal: along the arrows of VALID_TRANSITIONS from the status it has, until a
\* status is written under another request's check, and then still from one it
\* has had.
THEOREM ImplementsJourney == Spec => OverlappingJourney
<1>1. Init => Abstract!Init
  BY DEF Init, Abstract!Init
<1>2. DealsInv /\ DealsInv' /\ ChecksHold /\ [Next]_vars
      => [\E d \in 1..MaxDeals : Abstract!Start(d) \/ Abstract!Follow(d)]_<<StatusOf, HeldOf, raced>>
  BY FollowStep, OtherSteps
<1>3. QED
  BY <1>1, <1>2, Invariance, ChecksInvariant, PTL
     DEF Spec, OverlappingJourney, Abstract!Journey, StatusOf, HeldOf

\* The financials of a closed deal stay as they are, unless it was closed
\* between another request's check and its write.
THEOREM ClosedKept == Spec => ClosedDealKept
<1> DEFINE Kept == \A d \in DOMAIN deal \ raced :
                      deal[d].status \in {"COMPLETED", "FALLEN_THROUGH"} => deal'[d].value = deal[d].value
<1>1. ASSUME DealsInv, ChecksHold, [Next]_vars PROVE Kept
  <2>0. deal \in Seq(DealRows)
    BY <1>1 DEF DealsInv, DealsTypeOK
  <2>1. CASE deal' = deal
    BY <2>1
  <2>2. ASSUME NEW r \in Requests, InsertDeal(r) PROVE Kept
    <3>1. ASSUME NEW row, deal' = Append(deal, row) PROVE Kept
      BY <2>0, <3>1
    <3>2. QED BY <2>1, <2>2, <3>1 DEF InsertDeal
  <2>3. ASSUME NEW r \in Requests, WriteStatus(r) PROVE Kept
    BY <1>1, <2>3, StatusChanged
  <2>4. ASSUME NEW r \in Requests, WriteFinancials(r) PROVE Kept
    <3>1. request[r].deal \in raced \/ deal[request[r].deal].status \notin Over
      BY <1>1, <2>4 DEF ChecksHold, Checked, OnDeal, WriteFinancials, At
    <3>2. QED BY <2>0, <2>4, <3>1 DEF WriteFinancials, Over
  <2>5. deal' = deal \/ \E r \in Requests : InsertDeal(r) \/ WriteStatus(r) \/ WriteFinancials(r)
    BY <1>1 DEF Next, RequestStep, BeginCreate, FindActive, BeginUpdate, SyncListing, BeginFinancials,
                CreateListing, DeleteListing, RelinkListing, SetAvailability, Restart, vars
  <2>6. QED BY <2>1, <2>2, <2>3, <2>4, <2>5
<1>2. DealsInv /\ ChecksHold /\ [Next]_vars => [Kept]_vars
  BY <1>1
<1>3. QED BY <1>2, Invariance, ChecksInvariant, PTL DEF Spec, ClosedDealKept

-----------------------------------------------------------------------------
(* What a listing with a single deal shows                                  *)

\* Deals are begun on listings there are.
BornFirst ==
    /\ \A d \in DOMAIN deal : listing[deal[d].listing].state # "unborn"
    /\ \A r \in Requests :
          request[r].pc \in {"findActive", "insert"} => listing[request[r].listing].state # "unborn"

\* A listing that neither a deal nor a broker has touched is available.
Untouched ==
    \A l \in Listings :
        (\A d \in DOMAIN deal : deal[d].listing # l) /\ listing[l].setBy # "broker"
        => listing[l].availability = "AVAILABLE"

\* A lone deal is shown, or about to be.
ShownOrSyncing(d) ==
    d \notin raced \cup cut /\ Lone(d) /\ listing[deal[d].listing].setBy # "broker"
    => listing[deal[d].listing].availability = Shown(deal[d].status) \/ Syncing(d)

Shows == \A d \in DOMAIN deal : ShownOrSyncing(d)

ShownInv == BornFirst /\ Untouched /\ Shows

LEMMA ShownStatus ==
    /\ Shown("INITIATED") = "AVAILABLE"
    /\ \A s \in DOMAIN AvailabilityMap : Shown(s) = AvailabilityMap[s]
    /\ \A s \in DealStatus : \A t \in Transitions[s] \ DOMAIN AvailabilityMap : Shown(t) = Shown(s)
<1>1. DOMAIN AvailabilityMap = {"NEGOTIATING", "COMPLETED", "FALLEN_THROUGH"}
      /\ AvailabilityMap["NEGOTIATING"] = "UNDER_NEGOTIATION"
  BY DEF AvailabilityMap
<1>2. Shown("INITIATED") = "AVAILABLE"
  BY <1>1 DEF Shown
<1>3. ASSUME NEW s \in DOMAIN AvailabilityMap PROVE Shown(s) = AvailabilityMap[s]
  BY <1>1 DEF Shown
<1>4. ASSUME NEW s \in {"AGREED", "DISPUTED"} PROVE Shown(s) = "UNDER_NEGOTIATION"
  BY <1>1 DEF Shown
<1>5. ASSUME NEW s \in DealStatus, NEW t \in Transitions[s] \ DOMAIN AvailabilityMap
      PROVE  s \in {"NEGOTIATING", "AGREED"} /\ t \in {"AGREED", "DISPUTED"}
  BY <1>1 DEF Transitions, DealStatus
<1>6. ASSUME NEW s \in DealStatus, NEW t \in Transitions[s] \ DOMAIN AvailabilityMap
      PROVE  Shown(t) = Shown(s)
  BY <1>1, <1>3, <1>4, <1>5
<1>7. QED BY <1>2, <1>3, <1>6

\* The deals and what the requests hold have listings.
LEMMA ListingsThere ==
    ASSUME DealsTypeOK
    PROVE  /\ \A d \in DOMAIN deal : deal[d] \in DealRows /\ deal[d].listing \in Listings
           /\ \A r \in Requests : request[r].pc \in {"findActive", "insert"} => request[r].listing \in Listings
<1>1. \A d \in DOMAIN deal : deal[d] \in DealRows
  BY DEF DealsTypeOK
<1> QED
  BY <1>1 DEF DealsTypeOK, DealRows, Creating, Updating, Editing, Idle

\* A request that touches neither table, nor was about to show a deal.
LEMMA ReadShown ==
    ASSUME ShownInv, NEW r \in Requests, UNCHANGED <<listing, deal, raced, cut>>,
           request[r].pc # "sync", \A q \in Requests : q # r => request'[q] = request[q],
           request'[r].pc \in {"findActive", "insert"} => listing[request'[r].listing].state # "unborn"
    PROVE  ShownInv'
<1>1. BornFirst' BY DEF ShownInv, BornFirst
<1>2. Untouched' BY DEF ShownInv, Untouched
<1>3. ASSUME NEW d, Syncing(d) PROVE Syncing(d)'
  BY <1>3 DEF Syncing, At
<1>4. \A d : Lone(d)' <=> Lone(d) BY DEF Lone, Live
<1>5. ASSUME NEW d \in DOMAIN deal' PROVE ShownOrSyncing(d)'
  BY <1>3, <1>4, <1>5 DEF ShownInv, Shows, ShownOrSyncing
<1> QED BY <1>1, <1>2, <1>5 DEF ShownInv, Shows

\* A listing's other writers leave what it shows, but for the broker.
LEMMA ListingShown ==
    ASSUME ShownInv, UNCHANGED <<deal, request, raced, cut>>, DealsTypeOK,
           \A l \in Listings :
               /\ \/ listing'[l].availability = listing[l].availability /\ listing'[l].setBy = listing[l].setBy
                  \/ listing'[l].setBy = "broker"
               /\ listing'[l].state = "unborn" => listing[l].state = "unborn"
               /\ listing'[l].state = "live" => listing[l].state \in {"live", "unborn"}
    PROVE  ShownInv'
<1>1. BornFirst' BY ListingsThere DEF ShownInv, BornFirst
<1>2. Untouched' BY DEF ShownInv, Untouched
<1>3. ASSUME NEW d \in DOMAIN deal, Lone(d)'
      PROVE  Lone(d)
  BY <1>3, ListingsThere DEF Lone, Live, ShownInv, BornFirst
<1>4. ASSUME NEW d \in DOMAIN deal PROVE Syncing(d)' <=> Syncing(d)
  BY DEF Syncing, At
<1>5. ASSUME NEW d \in DOMAIN deal' PROVE ShownOrSyncing(d)'
  BY <1>3, <1>4, <1>5, ListingsThere DEF ShownInv, Shows, ShownOrSyncing
<1> QED BY <1>1, <1>2, <1>5 DEF ShownInv, Shows

LEMMA InsertShown ==
    ASSUME DealsInv, ShownInv, NEW r \in Requests, InsertDeal(r)
    PROVE  ShownInv'
<1>0. /\ deal \in Seq(DealRows) /\ DOMAIN deal = 1..Len(deal) /\ Len(deal) \in Nat /\ DealsTypeOK
      /\ request \in [Requests -> Creating \cup Updating \cup Editing \cup {Idle}]
  BY DEF DealsInv, DealsTypeOK
<1>1. \A q \in Requests : q # r => request'[q] = request[q]
  BY <1>0 DEF InsertDeal, Become
<1>2. /\ request'[r] = Idle /\ request[r].pc = "insert"
      /\ listing' = listing /\ raced' = raced /\ cut' = cut
  BY <1>0 DEF InsertDeal, Become, At, history
<1>3. CASE deal' = deal
  BY <1>1, <1>2, <1>3, ReadShown DEF Idle
<1>4. ASSUME NEW v \in Values,
             deal' = Append(deal, NewDeal(request[r].listing, request[r].canonical, v))
      PROVE  ShownInv'
  <2> PICK n \in Nat : n = Len(deal) + 1 BY <1>0
  <2> PICK l : l = request[r].listing OBVIOUS
  <2>1. /\ DOMAIN deal' = DOMAIN deal \cup {n} /\ n \notin DOMAIN deal
        /\ \A d \in DOMAIN deal : deal'[d] = deal[d]
        /\ deal'[n] = NewDeal(l, request[r].canonical, v)
    BY <1>0, <1>4
  <2>2. deal'[n].listing = l /\ deal'[n].status = "INITIATED"
    BY <2>1 DEF NewDeal
  <2>3. l \in Listings
    BY <1>0, <1>2, ListingsThere
  <2>4. listing[l].state # "unborn" BY <1>2 DEF ShownInv, BornFirst
  <2>5. ASSUME NEW d, Syncing(d) PROVE Syncing(d)'
    BY <1>1, <1>2, <2>5 DEF Syncing, At
  <2>6. BornFirst'
    BY <1>1, <1>2, <2>1, <2>2, <2>4 DEF ShownInv, BornFirst, Idle
  <2>7. Untouched' BY <1>2, <2>1 DEF ShownInv, Untouched
  <2>8. ASSUME NEW d \in DOMAIN deal PROVE ShownOrSyncing(d)'
    <3>1. Lone(d)' => Lone(d) BY <1>2, <2>1 DEF Lone, Live
    <3>2. QED BY <1>2, <2>1, <2>5, <3>1 DEF ShownInv, Shows, ShownOrSyncing
  <2>9. ShownOrSyncing(n)'
    <3>1. ASSUME Lone(n)', listing[l].setBy # "broker" PROVE listing[l].availability = "AVAILABLE"
      <4>1. \A d \in DOMAIN deal : deal[d].listing # l BY <2>1, <2>2, <3>1 DEF Lone
      <4> QED BY <2>3, <3>1, <4>1 DEF ShownInv, Untouched
    <3> QED BY <1>2, <2>2, <3>1, ShownStatus DEF ShownOrSyncing
  <2>10. Shows' BY <2>1, <2>8, <2>9 DEF Shows
  <2>11. QED BY <2>6, <2>7, <2>10 DEF ShownInv
<1>5. QED BY <1>3, <1>4 DEF InsertDeal

LEMMA StatusShown ==
    ASSUME DealsInv, ChecksHold, ShownInv, NEW r \in Requests, WriteStatus(r)
    PROVE  ShownInv'
<1> PICK d : d = request[r].deal OBVIOUS
<1> PICK new : new = request[r].status OBVIOUS
<1>1. /\ request[r] \in Updating /\ request[r].pc = "writeStatus" /\ d \in DOMAIN deal
      /\ DOMAIN deal' = DOMAIN deal /\ listing' = listing /\ cut' = cut
      /\ \A e \in DOMAIN deal : deal'[e].listing = deal[e].listing /\ (e # d => deal'[e] = deal[e])
      /\ deal'[d].status = new
      /\ \A q \in Requests : q # r => request'[q] = request[q]
      /\ request'[r] = IF new \in DOMAIN AvailabilityMap THEN [request[r] EXCEPT !.pc = "sync"] ELSE Idle
      /\ raced \subseteq raced'
      /\ \A q \in Requests : q # r /\ request[q].pc \in OnDeal /\ request[q].deal = d => d \in raced'
  BY StatusChanged
<1>2. request'[r].pc \notin {"findActive", "insert"}
  <2>1. CASE new \in DOMAIN AvailabilityMap
    BY <1>1, <2>1 DEF Updating
  <2>2. CASE new \notin DOMAIN AvailabilityMap
    BY <1>1, <2>2 DEF Idle
  <2> QED BY <2>1, <2>2
<1>3. BornFirst' BY <1>1, <1>2 DEF ShownInv, BornFirst
<1>4. Untouched'
  <2>1. ASSUME NEW k \in Listings, \A e \in DOMAIN deal' : deal'[e].listing # k
        PROVE  \A e \in DOMAIN deal : deal[e].listing # k
    BY <1>1, <2>1
  <2> QED BY <1>1, <2>1 DEF ShownInv, Untouched
<1>5. \A e \in DOMAIN deal : Lone(e)' => Lone(e)
  BY <1>1 DEF Lone, Live
<1>6. ASSUME NEW e \in DOMAIN deal, e # d PROVE ShownOrSyncing(e)'
  <2>1. Syncing(e) => Syncing(e)'
    BY <1>1 DEF Syncing, At
  <2> QED BY <1>1, <1>5, <1>6, <2>1 DEF ShownInv, Shows, ShownOrSyncing
<1>7. ShownOrSyncing(d)'
  <2>1. CASE new \in DOMAIN AvailabilityMap
    <3>1. request'[r] = [request[r] EXCEPT !.pc = "sync"]
      BY <1>1, <2>1
    <3>2. request'[r].pc = "sync" /\ request'[r].deal = d
      BY <1>1, <3>1 DEF Updating
    <3>3. Syncing(d)' BY <3>2 DEF Syncing, At
    <3> QED BY <3>3 DEF ShownOrSyncing
  <2>2. CASE new \notin DOMAIN AvailabilityMap
    <3> SUFFICES ASSUME d \notin raced' \cup cut', Lone(d)', listing[deal[d].listing].setBy # "broker"
                 PROVE  listing[deal[d].listing].availability = Shown(new)
      BY <1>1 DEF ShownOrSyncing
    <3>1. d \notin raced \cup cut /\ Lone(d)
      BY <1>1, <1>5
    <3>2. ~Syncing(d)
      BY <1>1 DEF Syncing, At, OnDeal
    <3>3. listing[deal[d].listing].availability = Shown(deal[d].status)
      BY <1>1, <3>1, <3>2 DEF ShownInv, Shows, ShownOrSyncing
    <3>4. new \in Transitions[deal[d].status]
      BY <1>1, <3>1 DEF ChecksHold, Checked, OnDeal
    <3>5. deal[d].status \in DealStatus
      BY <1>1, ListingsThere DEF DealsInv, DealRows
    <3> QED BY <2>2, <3>3, <3>4, <3>5, ShownStatus
  <2> QED BY <2>1, <2>2
<1>8. Shows' BY <1>1, <1>6, <1>7 DEF Shows
<1> QED BY <1>3, <1>4, <1>8 DEF ShownInv

LEMMA SyncShown ==
    ASSUME DealsInv, ChecksHold, ShownInv, NEW r \in Requests, SyncListing(r)
    PROVE  ShownInv'
<1> PICK d : d = request[r].deal OBVIOUS
<1> PICK s : s = request[r].status OBVIOUS
<1> PICK l : l = deal[d].listing OBVIOUS
<1>0. /\ listing \in [Listings -> ListingRows] /\ DealsTypeOK
      /\ request \in [Requests -> Creating \cup Updating \cup Editing \cup {Idle}]
  BY DEF DealsInv, DealsTypeOK
<1>1. \A q \in Requests : q # r => request'[q] = request[q]
  BY <1>0 DEF SyncListing, Become
<1>2. /\ request[r].pc = "sync" /\ request'[r] = Idle /\ deal' = deal
      /\ raced' = raced /\ cut' = cut \ {d}
  BY <1>0 DEF SyncListing, At, Become
<1>3. d \in DOMAIN deal /\ s \in DOMAIN AvailabilityMap BY <1>2 DEF DealsInv, RequestsSound
<1>4. l \in Listings /\ \A e \in DOMAIN deal : deal[e].listing \in Listings
  BY <1>0, <1>3, ListingsThere
<1>5. d \notin raced => s = deal[d].status BY <1>2 DEF ChecksHold, Checked, OnDeal
<1>6. \A k \in Listings : k # l => listing'[k] = listing[k]
  BY <1>0 DEF SyncListing
<1>7. l \in Live => listing'[l].availability = AvailabilityMap[s] /\ listing'[l].state = "live"
  BY <1>0, <1>4 DEF SyncListing, Live, ListingRows
<1>8. l \notin Live => listing' = listing
  BY DEF SyncListing
<1>9. \A k \in Listings : listing'[k].state = listing[k].state
  BY <1>6, <1>7, <1>8 DEF Live
<1>10. BornFirst'
  BY <1>0, <1>1, <1>2, <1>4, <1>9, ListingsThere DEF ShownInv, BornFirst, Idle
<1>11. Untouched'
  <2>1. ASSUME NEW k \in Listings, \A e \in DOMAIN deal : deal[e].listing # k
        PROVE  listing'[k] = listing[k]
    BY <1>3, <1>6, <2>1
  <2>2. QED BY <1>2, <2>1 DEF ShownInv, Untouched
<1>12. ASSUME NEW e \in DOMAIN deal PROVE ShownOrSyncing(e)'
  <2>1. Lone(e)' => Lone(e) BY <1>2, <1>4, <1>9 DEF Lone, Live
  <2>2. CASE deal[e].listing = l
    <3> SUFFICES ASSUME e \notin raced, Lone(e) PROVE listing'[l].availability = Shown(deal[e].status)
      BY <1>2, <2>1, <2>2 DEF ShownOrSyncing
    <3>1. e = d BY <1>3, <2>2 DEF Lone
    <3>2. QED BY <1>3, <1>5, <1>7, <2>2, <3>1, ShownStatus DEF Lone
  <2>3. CASE deal[e].listing # l
    <3>1. e # d BY <2>3
    <3>2. Syncing(e) => Syncing(e)' BY <1>1, <3>1 DEF Syncing, At
    <3>3. QED BY <1>2, <1>4, <1>6, <2>1, <2>3, <3>1, <3>2 DEF ShownInv, Shows, ShownOrSyncing
  <2>4. QED BY <2>2, <2>3
<1>13. Shows' BY <1>2, <1>12 DEF Shows
<1> QED BY <1>10, <1>11, <1>13 DEF ShownInv

LEMMA FinancialsShown ==
    ASSUME DealsInv, ShownInv, NEW r \in Requests, WriteFinancials(r)
    PROVE  ShownInv'
<1>0. deal \in Seq(DealRows)
      /\ request \in [Requests -> Creating \cup Updating \cup Editing \cup {Idle}]
  BY DEF DealsInv, DealsTypeOK
<1>1. \A q \in Requests : q # r => request'[q] = request[q]
  BY <1>0 DEF WriteFinancials, Become
<1>2. /\ request[r].pc = "writeFinancials" /\ request'[r] = Idle
      /\ listing' = listing /\ raced' = raced /\ cut' = cut
  BY <1>0 DEF WriteFinancials, At, Become, history
<1>3. request[r].deal \in DOMAIN deal BY <1>2 DEF DealsInv, RequestsSound
<1>4. /\ DOMAIN deal' = DOMAIN deal
      /\ \A e \in DOMAIN deal : deal'[e].listing = deal[e].listing /\ deal'[e].status = deal[e].status
  BY <1>0, <1>3 DEF WriteFinancials, DealRows
<1>5. \A e : Syncing(e) => Syncing(e)' BY <1>1, <1>2 DEF Syncing, At
<1>6. BornFirst' BY <1>1, <1>2, <1>4 DEF ShownInv, BornFirst, Idle
<1>7. Untouched' BY <1>2, <1>4 DEF ShownInv, Untouched
<1>8. \A e \in DOMAIN deal : Lone(e)' => Lone(e) BY <1>2, <1>4 DEF Lone, Live
<1>9. \A e \in DOMAIN deal : ShownOrSyncing(e)'
  BY <1>2, <1>4, <1>5, <1>8 DEF ShownInv, Shows, ShownOrSyncing
<1> QED BY <1>4, <1>6, <1>7, <1>9 DEF ShownInv, Shows

\* The end of the process cuts off the syncs under way.
LEMMA RestartShown ==
    ASSUME ShownInv, Restart
    PROVE  ShownInv'
<1>1. BornFirst' BY DEF ShownInv, BornFirst, Restart, Idle
<1>2. Untouched' BY DEF ShownInv, Untouched, Restart
<1>3. \A d : Syncing(d) => d \in cut' BY DEF Syncing, Restart, At
<1>4. ASSUME NEW d \in DOMAIN deal PROVE ShownOrSyncing(d)'
  BY <1>3 DEF ShownInv, Shows, ShownOrSyncing, Restart, Lone, Live
<1> QED BY <1>1, <1>2, <1>4 DEF ShownInv, Shows, Restart

LEMMA ShownStep ==
    ASSUME DealsInv, ChecksHold, ShownInv, [Next]_vars
    PROVE  ShownInv'
<1>0. /\ listing \in [Listings -> ListingRows] /\ DealsTypeOK
      /\ request \in [Requests -> Creating \cup Updating \cup Editing \cup {Idle}]
  BY DEF DealsInv, DealsTypeOK
<1>1. ASSUME NEW r \in Requests, NEW l \in Listings, BeginCreate(r, l) PROVE ShownInv'
  <2>1. /\ UNCHANGED <<listing, deal, raced, cut>> /\ request[r].pc # "sync"
        /\ request'[r].listing = l /\ listing[l].state = "live"
        /\ \A q \in Requests : q # r => request'[q] = request[q]
    BY <1>0, <1>1 DEF BeginCreate, Become, At, Live, history
  <2>2. QED BY <2>1, ReadShown
<1>2. ASSUME NEW r \in Requests, NEW d \in DOMAIN deal, NEW new \in DealStatus, BeginUpdate(r, d, new)
      PROVE  ShownInv'
  <2>1. /\ UNCHANGED <<listing, deal, raced, cut>> /\ request[r].pc # "sync" /\ request'[r].pc = "writeStatus"
        /\ \A q \in Requests : q # r => request'[q] = request[q]
    BY <1>0, <1>2 DEF BeginUpdate, Become, At, history
  <2>2. QED BY <2>1, ReadShown
<1>3. ASSUME NEW r \in Requests, NEW d \in DOMAIN deal, NEW v \in Values, BeginFinancials(r, d, v)
      PROVE  ShownInv'
  <2>1. /\ UNCHANGED <<listing, deal, raced, cut>> /\ request[r].pc # "sync" /\ request'[r].pc = "writeFinancials"
        /\ \A q \in Requests : q # r => request'[q] = request[q]
    BY <1>0, <1>3 DEF BeginFinancials, Become, At, history
  <2>2. QED BY <2>1, ReadShown
<1>4. ASSUME NEW r \in Requests, FindActive(r) PROVE ShownInv'
  <2>1. /\ UNCHANGED <<listing, deal, raced, cut>> /\ request[r].pc = "findActive"
        /\ \A q \in Requests : q # r => request'[q] = request[q]
    BY <1>0, <1>4 DEF FindActive, At, Become, history
  <2>2. request[r] \in Creating
    BY <1>0, <2>1 DEF Creating, Updating, Editing, Idle
  <2>3. request'[r] = Idle \/ request'[r] = [request[r] EXCEPT !.pc = "insert"]
    BY <1>0, <1>4 DEF FindActive, Become
  <2>4. request'[r].pc = "idle" \/ request'[r].listing = request[r].listing
    BY <2>2, <2>3 DEF Creating, Idle
  <2>5. listing[request[r].listing].state # "unborn" BY <2>1 DEF ShownInv, BornFirst
  <2>6. QED BY <2>1, <2>4, <2>5, ReadShown
<1>5. ASSUME NEW r \in Requests,
             InsertDeal(r) \/ WriteStatus(r) \/ SyncListing(r) \/ WriteFinancials(r)
      PROVE  ShownInv'
  BY <1>5, InsertShown, StatusShown, SyncShown, FinancialsShown
<1>6. ASSUME NEW l \in Listings, CreateListing(l) \/ DeleteListing(l) PROVE ShownInv'
  <2>1. \A k \in Listings :
           /\ listing'[k].availability = listing[k].availability /\ listing'[k].setBy = listing[k].setBy
           /\ listing'[k].state = "unborn" => listing[k].state = "unborn"
           /\ listing'[k].state = "live" => listing[k].state \in {"live", "unborn"}
    BY <1>0, <1>6 DEF CreateListing, DeleteListing, ListingRows
  <2>2. QED BY <1>0, <1>6, <2>1, ListingShown DEF CreateListing, DeleteListing, history
<1>7. ASSUME NEW l \in Listings, NEW c \in Canonicals, RelinkListing(l, c) PROVE ShownInv'
  <2>1. \A k \in Listings :
           /\ listing'[k].availability = listing[k].availability /\ listing'[k].setBy = listing[k].setBy
           /\ listing'[k].state = listing[k].state
    BY <1>0, <1>7 DEF RelinkListing, ListingRows
  <2>2. QED BY <1>0, <1>7, <2>1, ListingShown DEF RelinkListing, history
<1>8. ASSUME NEW l \in Listings, NEW a \in Availability, SetAvailability(l, a) PROVE ShownInv'
  <2>1. \A k \in Listings :
           /\ k # l => listing'[k] = listing[k]
           /\ listing'[l].setBy = "broker"
           /\ listing'[k].state = listing[k].state
    BY <1>0, <1>8 DEF SetAvailability, ListingRows
  <2>2. \A k \in Listings :
           \/ listing'[k].availability = listing[k].availability /\ listing'[k].setBy = listing[k].setBy
           \/ listing'[k].setBy = "broker"
    BY <2>1
  <2>3. QED BY <1>0, <1>8, <2>1, <2>2, ListingShown DEF SetAvailability, history
<1>9. CASE Restart
  BY <1>9, RestartShown
<1>10. CASE UNCHANGED vars
  BY <1>0, <1>10, ListingShown DEF vars
<1>11. QED
  BY <1>1, <1>2, <1>3, <1>4, <1>5, <1>6, <1>7, <1>8, <1>9, <1>10 DEF Next, RequestStep

\* A listing with a single deal shows that deal, whatever overlaps, but for the
\* broker's own hand, a sync cut off and a status written under another
\* request's check.
THEOREM LoneDeals == Spec => []LoneDealShown
<1>1. Init => ShownInv
  BY DEF Init, ShownInv, BornFirst, Untouched, Shows, Idle
<1>2. DealsInv /\ ChecksHold /\ ShownInv /\ [Next]_vars => ShownInv'
  BY ShownStep
<1>3. ShownInv => LoneDealShown
  BY DEF ShownInv, Shows, ShownOrSyncing, LoneDealShown
<1>4. QED BY <1>1, <1>2, <1>3, Invariance, ChecksInvariant, PTL DEF Spec

=============================================================================
