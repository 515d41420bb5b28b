---------------------------- MODULE StoreProofs ----------------------------
(***************************************************************************)
(* The property store.  First module Ingest: for any number of executions, *)
(* workspaces and items, a firm never holds two listings of one property,  *)
(* a row of CanonicalProperty left without a listing is reported, and the  *)
(* next reference code is free.                                            *)
(*                                                                         *)
(* Then the sweeps of module DedupBackfill against the live system, for    *)
(* any number of executions, firms, sweeps at once and edits: no listing   *)
(* is left without its canonical, and a sweep moves a listing only after   *)
(* its fingerprint, unless another sweep overtakes it.                     *)
(***************************************************************************)
EXTENDS DedupBackfill, FiniteSetTheorems, TLAPS

(* Each step of an execution moves its record between the values the type *)
(* invariant allows.                                                      *)
LEMMA FingerprintType ==
    \A a \in Attributes : Fingerprint(a) \in Fingerprints \cup {NoValue}
  BY DEF Fingerprint, Fingerprints, Attributes

\* An item as the database keeps it.
LEMMA StoredType == \A a \in Attributes : Stored(a) \in Attributes
  BY NormalAssumption DEF Stored, NormalizeBhk, Attributes

\* The next reference code is a number: there are finitely many rows.
LEMMA NextCodeType == StoreTypeOK => NextGlobalRefCode \in Nat \ {0}
<1> SUFFICES ASSUME StoreTypeOK PROVE NextGlobalRefCode \in Nat \ {0}
  OBVIOUS
<1>1. IsFiniteSet(1..Len(canon))
  BY FS_Interval DEF StoreTypeOK
<1>2. Canonicals \subseteq 1..Len(canon)
  BY DEF Canonicals, StoreTypeOK
<1>3. Cardinality(Canonicals) \in Nat
  BY <1>1, <1>2, FS_Subset, FS_CardinalityType
<1>4. QED
  BY <1>3 DEF NextGlobalRefCode

\* The records an execution goes through, and a row marked deleted.
LEMMA Moved ==
    ASSUME NEW b \in Busy, NEW pc \in Steps, NEW c \in Nat
    PROVE  /\ [b EXCEPT !.pc = pc] \in Busy
           /\ [b EXCEPT !.pc = pc, !.canonical = c] \in Busy
           /\ [b EXCEPT !.pc = pc, !.code = c] \in Busy
           /\ [b EXCEPT !.pc = pc, !.target = c] \in Busy
  BY DEF Busy

\* A row marked deleted keeps its shape.
LEMMA Deleted ==
    ASSUME NEW r \in ListingRows
    PROVE  [r EXCEPT !.live = FALSE] \in ListingRows
  BY DEF ListingRows

\* An execution that is past its first step holds a full record.
LEMMA BusyWorker ==
    ASSUME IngestTypeOK, NEW w \in Workers, worker[w].pc # "idle"
    PROVE  worker[w] \in Busy
  BY DEF IngestTypeOK, Idle

\* So does one that takes a step, and it moves no other.
LEMMA StepBusy ==
    ASSUME IngestTypeOK, NEW w \in Workers, IngestStep(w)
    PROVE  /\ worker[w] \in Busy
           /\ \A v \in Workers \ {w} : worker'[v] = worker[v]
<1>0. worker \in [Workers -> Busy \cup {Idle}]
  BY DEF IngestTypeOK
<1>1. worker[w] \in Busy
  <2>1. CASE Fail(w)
    BY <1>0, <2>1 DEF Fail
  <2>2. CASE ~Fail(w)
    BY <2>2, BusyWorker
       DEF IngestStep, At, FindCanonical, CountCanonicals, CreateCanonical, CheckListing, TouchListing,
           UpsertListing, AttachAgents, FormFindCanonical, FormCreateCanonical, FormInsertListing
  <2>3. QED BY <2>1, <2>2
<1>2. \A v \in Workers \ {w} : worker'[v] = worker[v]
  BY <1>0 DEF IngestStep, Goto, Done, GiveUp, FindCanonical, CountCanonicals, CreateCanonical,
              CheckListing, TouchListing, UpsertListing, AttachAgents, FormFindCanonical,
              FormCreateCanonical, FormInsertListing, Fail
<1>3. QED BY <1>1, <1>2

\* Giving up writes a record of the type of the log.
LEMMA GivenUp ==
    ASSUME IngestTypeOK, NEW w \in Workers, worker[w] \in Busy, GiveUp(w)
    PROVE  worker' \in [Workers -> Busy \cup {Idle}] /\ failed' \subseteq Failures /\ worker'[w] = Idle
<1>1. [ws |-> worker[w].ws, item |-> worker[w].item, at |-> worker[w].pc] \in Failures
  BY DEF Busy, Failures
<1>2. QED BY <1>1 DEF GiveUp, Done, IngestTypeOK

\* The numbers of the agents attached change nothing else of a listing.
LEMMA PhonesAdded ==
    ASSUME NEW r \in ListingRows, NEW known \in SUBSET Phones
    PROVE  /\ WithPhones(r, known) \in ListingRows
           /\ WithPhones(r, known).ws = r.ws
           /\ WithPhones(r, known).canonical = r.canonical
           /\ WithPhones(r, known).source = r.source
           /\ WithPhones(r, known).live = r.live
<1>1. PICK attrs : attrs = [r.attrs EXCEPT !.phones = r.attrs.phones \cup known]
  OBVIOUS
<1>2. r.attrs \in Attributes
  BY DEF ListingRows
<1>3. r.attrs.phones \cup known \in SUBSET Phones
  BY <1>2 DEF Attributes
<1>4. attrs \in Attributes
  BY <1>1, <1>2, <1>3 DEF Attributes
<1>5. WithPhones(r, known) = [r EXCEPT !.attrs = attrs]
  BY <1>1 DEF WithPhones
<1>6. QED BY <1>4, <1>5 DEF ListingRows

\* What the form stores.
LEMMA FormStored ==
    \A a \in Attributes : [a EXCEPT !.phones = {}] \in Attributes
  BY DEF Attributes

(* Every step of every operation keeps the types. *)
LEMMA TypeStep ==
    ASSUME IngestTypeOK, [Next]_vars
    PROVE  IngestTypeOK'
<1> USE IngestAssumption
<1>1. ASSUME NEW w \in Workers, NEW ws \in Workspaces, NEW a \in Attributes, NEW pc \in {"find", "formFind"},
             Begin(w, ws, a, pc)
      PROVE  IngestTypeOK'
  <2>1. worker' \in [Workers -> Busy \cup {Idle}]
    BY <1>1 DEF IngestTypeOK, Begin, Busy, Steps
  <2>2. jobs' \in 0..MaxJobs
    BY <1>1 DEF IngestTypeOK, Begin
  <2>3. QED BY <1>1, <2>1, <2>2 DEF IngestTypeOK, Begin, StoreTypeOK
<1>2. ASSUME NEW w \in Workers, IngestStep(w)
      PROVE  IngestTypeOK'
  <2>0. /\ canon \in Seq(CanonRows)
        /\ worker \in [Workers -> Busy \cup {Idle}]
    BY DEF IngestTypeOK, StoreTypeOK
  <2>1. worker[w] \in Busy
    BY <1>2, StepBusy
  <2>2. CASE FindCanonical(w)
    <3>0. \A c \in ByFingerprint(Fingerprint(worker[w].item)) : c \in Nat
      BY <2>0 DEF ByFingerprint, Canonicals
    <3>1. \A c \in ByFingerprint(Fingerprint(worker[w].item)) :
             [worker[w] EXCEPT !.pc = "check", !.canonical = c] \in Busy
      BY <2>1, Moved, <3>0 DEF Steps
    <3>2. [worker[w] EXCEPT !.pc = "count"] \in Busy
      BY <2>1, Moved DEF Steps
    <3>3. worker' \in [Workers -> Busy \cup {Idle}]
      BY <2>0, <2>2, <3>1, <3>2 DEF FindCanonical, Goto
    <3>4. QED BY <2>2, <3>3 DEF IngestTypeOK, FindCanonical, StoreTypeOK
  <2>3. CASE CountCanonicals(w)
    BY <2>1, <2>3, NextCodeType DEF IngestTypeOK, CountCanonicals, Busy, Steps, StoreTypeOK
  <2>4. CASE CreateCanonical(w)
    <3>1. /\ CanonRow(Fingerprint(worker[w].item), worker[w].code) \in CanonRows
          /\ [ws |-> worker[w].ws, item |-> worker[w].item, at |-> worker[w].pc] \in Failures
      BY <2>1, FingerprintType DEF CanonRow, CanonRows, Busy, Failures
    <3>2. canon' \in Seq(CanonRows)
      <4>1. Append(canon, CanonRow(Fingerprint(worker[w].item), worker[w].code)) \in Seq(CanonRows)
        BY <2>0, <3>1
      <4>2. QED BY <2>0, <2>4, <4>1 DEF CreateCanonical
    <3>3. worker' \in [Workers -> Busy \cup {Idle}]
      <4>1. /\ Len(canon) + 1 \in Nat
            /\ "check" \in Steps
        BY <2>0 DEF Steps
      <4>2. [worker[w] EXCEPT !.pc = "check", !.canonical = Len(canon) + 1] \in Busy
        BY <2>1, <4>1, Moved
      <4>3. QED BY <2>0, <2>4, <4>2 DEF CreateCanonical, GiveUp, Done
    <3>4. QED
      BY <2>4, <3>1, <3>2, <3>3 DEF IngestTypeOK, CreateCanonical, GiveUp, StoreTypeOK
  <2>5. CASE CheckListing(w)
    <3>1. \A l \in ByWsCanonical(worker[w].ws, worker[w].canonical) : l \in Nat
      BY DEF IngestTypeOK, StoreTypeOK, ByWsCanonical, Listings
    <3>2. worker' \in [Workers -> Busy \cup {Idle}]
      <4>1. \A l \in ByWsCanonical(worker[w].ws, worker[w].canonical) :
               [worker[w] EXCEPT !.pc = "touch", !.target = l] \in Busy
        BY <2>1, <3>1, Moved DEF Steps
      <4>2. [worker[w] EXCEPT !.pc = "upsert"] \in Busy
        BY <2>1, Moved DEF Steps
      <4>3. QED BY <2>0, <2>5, <4>1, <4>2 DEF CheckListing, Goto
    <3>3. QED BY <2>5, <3>2 DEF IngestTypeOK, CheckListing, StoreTypeOK
  <2>6. CASE TouchListing(w)
    <3>1. [worker[w] EXCEPT !.pc = "attach"] \in Busy
      BY <2>1, Moved DEF Steps
    <3>2. worker' \in [Workers -> Busy \cup {Idle}] /\ failed' \subseteq Failures
      BY <2>0, <2>1, <2>6, <3>1, GivenUp DEF TouchListing, Goto, IngestTypeOK
    <3>3. QED BY <2>6, <3>2 DEF IngestTypeOK, TouchListing, StoreTypeOK
  <2>7. CASE UpsertListing(w)
    <3>1. ListingRow(worker[w].ws, worker[w].canonical, Stored(worker[w].item), worker[w].item) \in ListingRows
      BY <2>1, StoredType DEF ListingRow, ListingRows, Busy
    <3>2. \A l \in Nat : [worker[w] EXCEPT !.pc = "attach", !.target = l] \in Busy
      BY <2>1, Moved DEF Steps
    <3>3. /\ Len(listing) + 1 \in Nat
          /\ \A l \in ByWsCanonical(worker[w].ws, worker[w].canonical) : l \in Nat
          /\ listing \in Seq(ListingRows)
      BY DEF IngestTypeOK, StoreTypeOK, ByWsCanonical, Listings
    <3>4. worker' \in [Workers -> Busy \cup {Idle}] /\ failed' \subseteq Failures
      BY <2>0, <2>1, <2>7, <3>2, <3>3, GivenUp DEF UpsertListing, IngestTypeOK
    <3>5. listing' \in Seq(ListingRows)
      BY <2>7, <3>1, <3>3 DEF UpsertListing
    <3>6. QED
      BY <2>7, <3>4, <3>5 DEF IngestTypeOK, UpsertListing, StoreTypeOK
  <2>12. CASE AttachAgents(w)
    <3>1. worker' \in [Workers -> Busy \cup {Idle}] /\ failed' \subseteq Failures
      BY <2>0, <2>1, <2>12, GivenUp DEF AttachAgents, Done, IngestTypeOK
    <3>2. listing \in Seq(ListingRows)
      BY DEF IngestTypeOK, StoreTypeOK
    <3>3. listing' \in Seq(ListingRows)
      <4>1. CASE worker[w].target \in Listings
        <5>1. PICK known \in SUBSET Phones :
                 listing' = [listing EXCEPT ![worker[w].target] = WithPhones(listing[worker[w].target], known)]
          BY <2>12, <4>1 DEF AttachAgents
        <5>2. worker[w].target \in DOMAIN listing /\ listing[worker[w].target] \in ListingRows
          BY <3>2, <4>1 DEF Listings
        <5>3. QED BY <3>2, <5>1, <5>2, PhonesAdded
      <4>2. CASE worker[w].target \notin Listings
        BY <2>12, <3>2, <4>2 DEF AttachAgents
      <4>3. QED BY <4>1, <4>2
    <3>4. QED BY <2>12, <3>1, <3>3 DEF IngestTypeOK, AttachAgents, StoreTypeOK
  <2>13. CASE Fail(w)
    BY <2>1, <2>13, GivenUp DEF Fail, IngestTypeOK, StoreTypeOK
  <2>8. CASE FormFindCanonical(w)
    <3>0. \A c \in ByFingerprint(Fingerprint(worker[w].item)) : c \in Nat
      BY <2>0 DEF ByFingerprint, Canonicals
    <3>1. \A c \in ByFingerprint(Fingerprint(worker[w].item)) :
             [worker[w] EXCEPT !.pc = "formInsert", !.canonical = c] \in Busy
      BY <2>1, Moved, <3>0 DEF Steps
    <3>2. [worker[w] EXCEPT !.pc = "formCreate"] \in Busy
      BY <2>1, Moved DEF Steps
    <3>3. worker' \in [Workers -> Busy \cup {Idle}]
      BY <2>0, <2>8, <3>1, <3>2 DEF FormFindCanonical, Goto
    <3>4. QED BY <2>8, <3>3 DEF IngestTypeOK, FormFindCanonical, StoreTypeOK
  <2>9. CASE FormCreateCanonical(w)
    <3>1. CanonRow(Fingerprint(worker[w].item), RandomCode) \in CanonRows
      BY <2>1, FingerprintType DEF CanonRow, CanonRows, Busy, RandomCode
    <3>2. canon' \in Seq(CanonRows)
      <4>1. Append(canon, CanonRow(Fingerprint(worker[w].item), RandomCode)) \in Seq(CanonRows)
        BY <2>0, <3>1
      <4>2. QED BY <2>0, <2>9, <4>1 DEF FormCreateCanonical
    <3>3. worker' \in [Workers -> Busy \cup {Idle}]
      <4>1. /\ Len(canon) + 1 \in Nat
            /\ "formInsert" \in Steps
        BY <2>0 DEF Steps
      <4>2. [worker[w] EXCEPT !.pc = "formInsert", !.canonical = Len(canon) + 1] \in Busy
        BY <2>1, <4>1, Moved
      <4>3. QED BY <2>0, <2>1, <2>9, <4>2, GivenUp DEF FormCreateCanonical
    <3>4. failed' \subseteq Failures
      BY <2>1, <2>9, GivenUp DEF FormCreateCanonical, IngestTypeOK
    <3>5. QED
      BY <2>9, <3>2, <3>3, <3>4 DEF IngestTypeOK, FormCreateCanonical, StoreTypeOK
  <2>10. CASE FormInsertListing(w)
    <3>1. ListingRow(worker[w].ws, worker[w].canonical, [worker[w].item EXCEPT !.phones = {}], worker[w].item)
             \in ListingRows
      BY <2>1, FormStored DEF ListingRow, ListingRows, Busy
    <3>2. worker' \in [Workers -> Busy \cup {Idle}] /\ failed' \subseteq Failures
      BY <2>0, <2>1, <2>10, GivenUp DEF FormInsertListing, Done, IngestTypeOK
    <3>3. listing' \in Seq(ListingRows)
      BY <2>10, <3>1 DEF FormInsertListing, IngestTypeOK, StoreTypeOK
    <3>4. QED
      BY <2>10, <3>2, <3>3 DEF IngestTypeOK, FormInsertListing, StoreTypeOK
  <2>11. QED
    BY <1>2, <2>2, <2>3, <2>4, <2>5, <2>6, <2>7, <2>8, <2>9, <2>10, <2>12, <2>13 DEF IngestStep
<1>3. ASSUME NEW l \in Listings, DeleteListing(l)
      PROVE  IngestTypeOK'
  <2>1. listing[l] \in ListingRows
    BY <1>3 DEF IngestTypeOK, StoreTypeOK, Listings
  <2>2. listing' \in Seq(ListingRows)
    <3>1. [listing[l] EXCEPT !.live = FALSE] \in ListingRows
      BY <2>1, Deleted
    <3>2. QED BY <1>3, <3>1 DEF IngestTypeOK, StoreTypeOK, DeleteListing, Listings
  <2>3. QED BY <1>3, <2>2 DEF IngestTypeOK, StoreTypeOK, DeleteListing
<1>4. CASE UNCHANGED vars
  BY <1>4 DEF IngestTypeOK, StoreTypeOK, vars
<1>5. CASE Restart
  BY <1>5 DEF IngestTypeOK, StoreTypeOK, Restart
<1>6. QED
  BY <1>1, <1>2, <1>3, <1>4, <1>5 DEF Next, Running, BeginItem, BeginForm

(* Type correctness: every reachable state satisfies IngestTypeOK. *)
THEOREM TypeCorrect == Spec => []IngestTypeOK
<1>1. Init => IngestTypeOK
  BY IngestAssumption DEF Init, IngestTypeOK, StoreTypeOK, StoreInit, Failures
<1>2. IngestTypeOK /\ [Next]_vars => IngestTypeOK'
  BY TypeStep
<1>3. QED
  BY <1>1, <1>2, PTL DEF Spec

-----------------------------------------------------------------------------
(* Module Ingest: the inductive invariant *)

\* While no canonical is deleted, the row count is the table's length.
LEMMA AllCanonicals ==
    ASSUME StoreTypeOK, CanonsConsistent
    PROVE  Canonicals = 1..Len(canon) /\ NextGlobalRefCode = Len(canon) + 1
<1>1. Canonicals = 1..Len(canon)
  BY DEF Canonicals, CanonsConsistent, StoreTypeOK
<1>2. Cardinality(1..Len(canon)) = Len(canon)
  BY FS_Interval DEF StoreTypeOK
<1>3. QED
  BY <1>1, <1>2 DEF NextGlobalRefCode

\* Rows are added and never renamed: what was read of one is still true.
Grows ==
    /\ Len(canon) <= Len(canon')
    /\ \A c \in DOMAIN canon :
          c \in DOMAIN canon' /\ canon'[c].fingerprint = canon[c].fingerprint
    /\ \A l \in DOMAIN listing :
          /\ l \in DOMAIN listing'
          /\ listing'[l].ws = listing[l].ws
          /\ listing'[l].canonical = listing[l].canonical

\* What an execution knows stays true while the tables only grow.
LEMMA StillResolved ==
    ASSUME IngestTypeOK, IngestTypeOK', NEW w \in Workers, Resolved(w), Grows, worker'[w] = worker[w]
    PROVE  Resolved(w)'
<1>1. /\ Len(canon) \in Nat /\ Len(canon') \in Nat
      /\ worker[w] \in Busy \cup {Idle}
  BY DEF IngestTypeOK, StoreTypeOK
<1>2. worker[w].pc = "create" => worker[w].code \in Nat
  BY <1>1 DEF Busy, Idle
<1>3. worker[w].pc = "create" => worker'[w].code <= Len(canon') + 1
  BY <1>1, <1>2 DEF Resolved, Grows
<1>4. QED
  BY <1>3 DEF Resolved, Grows

\* The insert of a canonical, as its constraints allow it.
LEMMA CanonAppended ==
    ASSUME IngestTypeOK, CanonsConsistent, ListingsConsistent,
           NEW fp \in Fingerprints \cup {NoValue}, NEW code \in Nat, code <= Len(canon) + 1,
           CanonInsertAllowed(fp, code),
           canon' = Append(canon, CanonRow(fp, code)), listing' = listing
    PROVE  /\ CanonsConsistent' /\ ListingsConsistent' /\ Grows
           /\ Len(canon) + 1 \in DOMAIN canon'
           /\ canon'[Len(canon) + 1].fingerprint = fp
<1>1. /\ canon \in Seq(CanonRows)
      /\ listing \in Seq(ListingRows)
  BY DEF IngestTypeOK, StoreTypeOK
<1>2. CanonRow(fp, code) \in CanonRows
  BY DEF CanonRow, CanonRows
<1>3. /\ canon' \in Seq(CanonRows)
      /\ Len(canon') = Len(canon) + 1
      /\ \A c \in 1..Len(canon) : canon'[c] = canon[c]
      /\ canon'[Len(canon) + 1] = CanonRow(fp, code)
  BY <1>1, <1>2
<1>4. Grows /\ Len(canon) + 1 \in DOMAIN canon' /\ canon'[Len(canon) + 1].fingerprint = fp
  BY <1>1, <1>3 DEF Grows, CanonRow
<1>5. CanonsConsistent'
  <2>1. \A c \in 1..Len(canon) : fp # NoValue => canon[c].fingerprint # fp
    <3>1. Canonicals = 1..Len(canon)
      BY AllCanonicals DEF IngestTypeOK
    <3>2. fp # NoValue => \A c \in Canonicals : canon[c].fingerprint # fp
      BY DEF CanonInsertAllowed, ByFingerprint
    <3>3. QED BY <3>1, <3>2, Zenon
  <2>2. \A c \in 1..Len(canon') : canon'[c].live /\ canon'[c].refCode <= Len(canon')
    <3>1. ASSUME NEW c \in 1..Len(canon)
          PROVE  canon[c].refCode \in Nat /\ canon[c].live /\ canon[c].refCode <= Len(canon)
      <4>1. c \in DOMAIN canon /\ canon[c] \in CanonRows
        BY <1>1
      <4>2. QED BY <4>1 DEF CanonRows, CanonsConsistent
    <3>2. canon'[Len(canon) + 1].live /\ canon'[Len(canon) + 1].refCode = code
      BY <1>3 DEF CanonRow
    <3>3. QED BY <1>1, <1>3, <3>1, <3>2
  <2>3. ASSUME NEW c1 \in 1..Len(canon'), NEW c2 \in 1..Len(canon'), c1 # c2, canon'[c1].fingerprint # NoValue
        PROVE  canon'[c1].fingerprint # canon'[c2].fingerprint
    BY <1>1, <1>3, <1>4, <2>1, <2>3 DEF CanonsConsistent
  <2>4. QED BY <1>1, <1>3, <2>2, <2>3 DEF CanonsConsistent
<1>6. ListingsConsistent'
  BY <1>4 DEF ListingsConsistent, Grows, Listings
<1>7. QED BY <1>4, <1>5, <1>6

\* The insert of a listing.
LEMMA ListingAppended ==
    ASSUME IngestTypeOK, CanonsConsistent, ListingsConsistent,
           NEW ws \in Workspaces, NEW c \in Nat, NEW attrs \in Attributes, NEW item \in Attributes,
           ListingInsertAllowed(ws, c), canon[c].fingerprint = Fingerprint(item),
           listing' = Append(listing, ListingRow(ws, c, attrs, item)), canon' = canon
    PROVE  /\ CanonsConsistent' /\ ListingsConsistent' /\ Grows
           /\ Len(listing) + 1 \in DOMAIN listing'
           /\ listing'[Len(listing) + 1] = ListingRow(ws, c, attrs, item)
<1>1. /\ canon \in Seq(CanonRows)
      /\ listing \in Seq(ListingRows)
  BY DEF IngestTypeOK, StoreTypeOK
<1>2. ListingRow(ws, c, attrs, item) \in ListingRows
  BY DEF ListingRow, ListingRows
<1>3. /\ listing' \in Seq(ListingRows)
      /\ Len(listing') = Len(listing) + 1
      /\ \A l \in 1..Len(listing) : listing'[l] = listing[l]
      /\ listing'[Len(listing) + 1] = ListingRow(ws, c, attrs, item)
  BY <1>1, <1>2
<1>4. Grows /\ Len(listing) + 1 \in DOMAIN listing'
  BY <1>1, <1>3 DEF Grows
<1>5. CanonsConsistent'
  BY DEF CanonsConsistent
<1>6. \A l \in 1..Len(listing') :
         /\ listing'[l].canonical \in DOMAIN canon
         /\ canon[listing'[l].canonical].fingerprint = Fingerprint(listing'[l].source)
  <2>1. c \in DOMAIN canon
    BY DEF ListingInsertAllowed, Canonicals
  <2>2. ListingRow(ws, c, attrs, item).canonical = c /\ ListingRow(ws, c, attrs, item).source = item
    BY DEF ListingRow
  <2>3. QED BY <1>1, <1>3, <2>1, <2>2 DEF ListingsConsistent
<1>7. ASSUME NEW l1 \in Listings', NEW l2 \in Listings', l1 # l2, listing'[l1].ws = listing'[l2].ws
      PROVE  listing'[l1].canonical # listing'[l2].canonical
  <2>1. \A l \in Listings : listing[l].ws = ws => listing[l].canonical # c
    BY DEF ListingInsertAllowed, ByWsCanonical
  <2>2. Listings' \subseteq Listings \cup {Len(listing) + 1}
    BY <1>1, <1>3 DEF Listings
  <2>3. \A l \in Listings : listing'[l] = listing[l]
    BY <1>1, <1>3 DEF Listings
  <2>4. /\ listing'[Len(listing) + 1].ws = ws
        /\ listing'[Len(listing) + 1].canonical = c
    BY <1>3 DEF ListingRow
  <2>5. QED BY <1>7, <2>1, <2>2, <2>3, <2>4 DEF ListingsConsistent
<1>8. ListingsConsistent'
  <2>1. DOMAIN listing' = 1..Len(listing')
    BY <1>3
  <2>2. QED BY <1>6, <1>7, <2>1 DEF ListingsConsistent
<1>9. QED BY <1>3, <1>4, <1>5, <1>8

(* One execution's step, the others' records standing still. *)
LEMMA OnlyOneMoves ==
    ASSUME IngestInv, IngestTypeOK', NEW w \in Workers, Grows, Resolved(w)',
           \A v \in Workers \ {w} : worker'[v] = worker[v]
    PROVE  WorkersResolved'
<1>1. ASSUME NEW v \in Workers, v # w PROVE Resolved(v)'
  BY <1>1, StillResolved DEF IngestInv, WorkersResolved
<1>2. QED BY <1>1 DEF WorkersResolved

\* A step that leaves the tables alone.
LEMMA TablesUnchanged ==
    ASSUME IngestInv, IngestTypeOK', UNCHANGED <<canon, listing>>,
           NEW w \in Workers, Resolved(w)',
           \A v \in Workers \ {w} : worker'[v] = worker[v]
    PROVE  IngestInv'
<1>1. CanonsConsistent' /\ ListingsConsistent'
  BY DEF IngestInv, CanonsConsistent, ListingsConsistent, Listings
<1>2. Len(canon) \in Nat
  BY DEF IngestInv, IngestTypeOK, StoreTypeOK
<1>3. Grows
  BY <1>2 DEF Grows
<1>4. QED BY <1>1, <1>3, OnlyOneMoves DEF IngestInv

\* An idle execution has nothing to be resolved.
LEMMA IdleResolved ==
    ASSUME NEW w \in Workers, worker'[w] = Idle PROVE Resolved(w)'
  BY DEF Idle, Resolved, ResolvedSteps, Steps

\* Every step of every execution keeps the invariant.
LEMMA StepInv ==
    ASSUME IngestInv, [Next]_vars
    PROVE  IngestInv'
<1>0. /\ IngestTypeOK /\ IngestTypeOK'
      /\ canon \in Seq(CanonRows) /\ listing \in Seq(ListingRows)
      /\ worker \in [Workers -> Busy \cup {Idle}]
  BY TypeStep DEF IngestInv, IngestTypeOK, StoreTypeOK
<1>1. ASSUME NEW w \in Workers, NEW ws \in Workspaces, NEW a \in Attributes, NEW pc \in {"find", "formFind"},
             Begin(w, ws, a, pc)
      PROVE  IngestInv'
  <2>1. /\ worker'[w].pc = pc /\ worker'[w].canonical = 0
        /\ \A v \in Workers \ {w} : worker'[v] = worker[v]
    BY <1>0, <1>1 DEF Begin
  <2>2. Resolved(w)'
    BY <2>1 DEF Resolved, ResolvedSteps
  <2>3. QED BY <1>0, <1>1, <2>1, <2>2, TablesUnchanged DEF Begin
<1>2. ASSUME NEW w \in Workers, IngestStep(w)
      PROVE  IngestInv'
  <2>1. /\ worker[w] \in Busy
        /\ Resolved(w)
        /\ \A v \in Workers \ {w} : worker'[v] = worker[v]
    BY <1>0, <1>2, StepBusy DEF IngestInv, WorkersResolved
  <2>2. CASE FindCanonical(w)
    <3>1. Resolved(w)'
      BY <1>0, <2>1, <2>2 DEF FindCanonical, At, Goto, Busy, Resolved, ResolvedSteps, Steps, ByFingerprint, Canonicals
    <3>2. QED BY <1>0, <2>1, <2>2, <3>1, TablesUnchanged DEF FindCanonical
  <2>3. CASE CountCanonicals(w)
    <3>1. NextGlobalRefCode = Len(canon) + 1
      BY <1>0, AllCanonicals DEF IngestInv, IngestTypeOK
    <3>2. Resolved(w)'
      BY <1>0, <2>1, <2>3, <3>1 DEF CountCanonicals, At, Busy, Resolved, ResolvedSteps, Steps
    <3>3. QED BY <1>0, <2>1, <2>3, <3>2, TablesUnchanged DEF CountCanonicals
  <2>4. CASE CreateCanonical(w)
    <3>1. CASE CanonInsertAllowed(Fingerprint(worker[w].item), worker[w].code)
      <4>1. /\ canon' = Append(canon, CanonRow(Fingerprint(worker[w].item), worker[w].code))
            /\ listing' = listing
            /\ worker'[w] = [worker[w] EXCEPT !.pc = "check", !.canonical = Len(canon) + 1]
        BY <1>0, <2>4, <3>1 DEF CreateCanonical
      <4>2. /\ Fingerprint(worker[w].item) \in Fingerprints \cup {NoValue}
            /\ worker[w].code \in Nat /\ worker[w].code <= Len(canon) + 1
        BY <1>0, <2>1, <2>4, FingerprintType DEF CreateCanonical, At, Busy, Resolved, RandomCode
      <4>3. /\ CanonsConsistent' /\ ListingsConsistent' /\ Grows
            /\ Len(canon) + 1 \in DOMAIN canon'
            /\ canon'[Len(canon) + 1].fingerprint = Fingerprint(worker[w].item)
        BY <1>0, <3>1, <4>1, <4>2, CanonAppended DEF IngestInv
      <4>4. /\ worker'[w].pc = "check"
            /\ worker'[w].canonical = Len(canon) + 1
            /\ worker'[w].item = worker[w].item
        BY <2>1, <4>1 DEF Busy
      <4>5. Resolved(w)'
        BY <4>3, <4>4 DEF Resolved, ResolvedSteps, Steps
      <4>6. QED BY <1>0, <2>1, <4>3, <4>5, OnlyOneMoves DEF IngestInv
    <3>2. CASE ~CanonInsertAllowed(Fingerprint(worker[w].item), worker[w].code)
      <4>1. worker'[w] = Idle /\ UNCHANGED <<canon, listing>>
        BY <1>0, <2>4, <3>2 DEF CreateCanonical, GiveUp, Done
      <4>2. QED BY <1>0, <2>1, <4>1, IdleResolved, TablesUnchanged
    <3>3. QED BY <3>1, <3>2
  <2>5. CASE CheckListing(w)
    <3>1. Resolved(w)'
      BY <1>0, <2>1, <2>5 DEF CheckListing, Goto, At, Busy, Resolved, ResolvedSteps, ByWsCanonical, Listings
    <3>2. QED BY <1>0, <2>1, <2>5, <3>1, TablesUnchanged DEF CheckListing
  <2>6. CASE TouchListing(w)
    <3>1. CASE GiveUp(w)
      <4>1. worker'[w] = Idle
        BY <1>0, <3>1 DEF GiveUp, Done
      <4>2. QED BY <1>0, <2>1, <2>6, <4>1, IdleResolved, TablesUnchanged DEF TouchListing
    <3>2. CASE Goto(w, "attach")
      <4>1. worker'[w] = [worker[w] EXCEPT !.pc = "attach"] /\ worker[w].pc = "touch"
        BY <1>0, <2>6, <3>2 DEF Goto, TouchListing, At
      <4>2. Resolved(w)'
        BY <2>1, <2>6, <4>1 DEF TouchListing, Busy, Resolved, ResolvedSteps, Steps
      <4>3. QED BY <1>0, <2>1, <2>6, <4>2, TablesUnchanged DEF TouchListing
    <3>3. QED BY <2>6, <3>1, <3>2 DEF TouchListing
  <2>7. CASE UpsertListing(w)
    <3>1. CASE GiveUp(w) /\ UNCHANGED listing
      <4>1. worker'[w] = Idle
        BY <1>0, <3>1 DEF GiveUp, Done
      <4>2. QED BY <1>0, <2>1, <2>7, <3>1, <4>1, IdleResolved, TablesUnchanged DEF UpsertListing
    <3>2. ASSUME NEW l \in ByWsCanonical(worker[w].ws, worker[w].canonical), UNCHANGED listing,
                 worker' = [worker EXCEPT ![w].pc = "attach", ![w].target = l]
          PROVE  IngestInv'
      <4>1. worker'[w] = [worker[w] EXCEPT !.pc = "attach", !.target = l] /\ worker[w].pc = "upsert"
        BY <1>0, <2>7, <3>2 DEF UpsertListing, At
      <4>2. /\ l \in DOMAIN listing /\ listing[l].ws = worker[w].ws
            /\ listing[l].canonical = worker[w].canonical
        BY <3>2 DEF ByWsCanonical, Listings
      <4>3. /\ worker'[w].pc = "attach" /\ worker'[w].target = l
            /\ worker'[w].ws = worker[w].ws /\ worker'[w].item = worker[w].item
            /\ worker'[w].canonical = worker[w].canonical
        BY <2>1, <4>1 DEF Busy
      <4>4. /\ worker[w].canonical \in DOMAIN canon /\ canon' = canon
            /\ canon[worker[w].canonical].fingerprint = Fingerprint(worker[w].item)
        BY <2>1, <2>7, <4>1 DEF UpsertListing, Resolved, ResolvedSteps
      <4>5. Resolved(w)'
        BY <3>2, <4>2, <4>3, <4>4 DEF Resolved, ResolvedSteps, Steps
      <4>6. QED BY <1>0, <2>1, <2>7, <3>2, <4>5, TablesUnchanged DEF UpsertListing
    <3>3. CASE listing' = Append(listing, ListingRow(worker[w].ws, worker[w].canonical,
                                                     Stored(worker[w].item), worker[w].item))
               /\ ListingInsertAllowed(worker[w].ws, worker[w].canonical)
               /\ worker' = [worker EXCEPT ![w].pc = "attach", ![w].target = Len(listing) + 1]
      <4>1. canon' = canon /\ worker[w].pc = "upsert"
        BY <2>7 DEF UpsertListing, At
      <4>2. /\ worker[w].ws \in Workspaces /\ worker[w].canonical \in Nat
            /\ worker[w].item \in Attributes /\ Stored(worker[w].item) \in Attributes
            /\ canon[worker[w].canonical].fingerprint = Fingerprint(worker[w].item)
            /\ worker[w].canonical \in DOMAIN canon
        BY <2>1, <4>1, StoredType DEF Busy, Resolved, ResolvedSteps
      <4>3. /\ CanonsConsistent' /\ ListingsConsistent' /\ Grows
            /\ Len(listing) + 1 \in DOMAIN listing'
            /\ listing'[Len(listing) + 1] = ListingRow(worker[w].ws, worker[w].canonical,
                                                      Stored(worker[w].item), worker[w].item)
        BY <1>0, <3>3, <4>1, <4>2, ListingAppended DEF IngestInv
      <4>4. /\ worker'[w].pc = "attach" /\ worker'[w].target = Len(listing) + 1
            /\ worker'[w].ws = worker[w].ws /\ worker'[w].item = worker[w].item
            /\ worker'[w].canonical = worker[w].canonical
        BY <1>0, <2>1, <3>3 DEF Busy
      <4>5. Resolved(w)'
        BY <4>1, <4>2, <4>3, <4>4 DEF Resolved, ResolvedSteps, Steps, ListingRow
      <4>6. QED BY <1>0, <2>1, <4>3, <4>5, OnlyOneMoves DEF IngestInv
    <3>4. QED BY <2>7, <3>1, <3>2, <3>3 DEF UpsertListing
  <2>12. CASE AttachAgents(w)
    <3>1. worker'[w] = Idle /\ canon' = canon
      BY <1>0, <2>12 DEF AttachAgents, GiveUp, Done
    <3>2. /\ DOMAIN listing' = DOMAIN listing
          /\ \A k \in DOMAIN listing :
                /\ listing'[k].ws = listing[k].ws
                /\ listing'[k].canonical = listing[k].canonical
                /\ listing'[k].source = listing[k].source
                /\ listing'[k].live = listing[k].live
      <4>1. CASE worker[w].target \in Listings
        <5>1. PICK known \in SUBSET Phones :
                 listing' = [listing EXCEPT ![worker[w].target] = WithPhones(listing[worker[w].target], known)]
          BY <2>12, <4>1 DEF AttachAgents
        <5>2. worker[w].target \in DOMAIN listing /\ listing[worker[w].target] \in ListingRows
          BY <1>0, <4>1 DEF Listings
        <5>3. QED BY <1>0, <5>1, <5>2, PhonesAdded
      <4>2. CASE worker[w].target \notin Listings
        BY <2>12, <4>2 DEF AttachAgents
      <4>3. QED BY <4>1, <4>2
    <3>3. Listings' = Listings
      BY <3>2 DEF Listings
    <3>4. CanonsConsistent'
      BY <3>1 DEF IngestInv, CanonsConsistent
    <3>5. ListingsConsistent'
      <4>1. \A k \in Listings : k \in DOMAIN listing
        BY DEF Listings
      <4>2. QED BY <3>1, <3>2, <3>3, <4>1 DEF IngestInv, ListingsConsistent
    <3>6. Grows
      BY <1>0, <3>1, <3>2 DEF Grows
    <3>7. QED BY <1>0, <2>1, <3>1, <3>4, <3>5, <3>6, IdleResolved, OnlyOneMoves DEF IngestInv
  <2>13. CASE Fail(w)
    <3>1. worker'[w] = Idle
      BY <1>0, <2>13 DEF Fail, GiveUp, Done
    <3>2. QED BY <1>0, <2>1, <2>13, <3>1, IdleResolved, TablesUnchanged DEF Fail
  <2>8. CASE FormFindCanonical(w)
    <3>1. Resolved(w)'
      BY <1>0, <2>1, <2>8 DEF FormFindCanonical, At, Goto, Busy, Resolved, ResolvedSteps, Steps, ByFingerprint, Canonicals
    <3>2. QED BY <1>0, <2>1, <2>8, <3>1, TablesUnchanged DEF FormFindCanonical
  <2>9. CASE FormCreateCanonical(w)
    <3>1. CASE CanonInsertAllowed(Fingerprint(worker[w].item), RandomCode)
      <4>1. /\ canon' = Append(canon, CanonRow(Fingerprint(worker[w].item), RandomCode))
            /\ listing' = listing
            /\ worker'[w] = [worker[w] EXCEPT !.pc = "formInsert", !.canonical = Len(canon) + 1]
        BY <1>0, <2>9, <3>1 DEF FormCreateCanonical
      <4>2. /\ Fingerprint(worker[w].item) \in Fingerprints \cup {NoValue}
            /\ RandomCode \in Nat /\ RandomCode <= Len(canon) + 1
        BY <1>0, <2>1, <2>9, FingerprintType DEF FormCreateCanonical, At, Busy, Resolved, RandomCode
      <4>3. /\ CanonsConsistent' /\ ListingsConsistent' /\ Grows
            /\ Len(canon) + 1 \in DOMAIN canon'
            /\ canon'[Len(canon) + 1].fingerprint = Fingerprint(worker[w].item)
        BY <1>0, <3>1, <4>1, <4>2, CanonAppended DEF IngestInv
      <4>4. /\ worker'[w].pc = "formInsert"
            /\ worker'[w].canonical = Len(canon) + 1
            /\ worker'[w].item = worker[w].item
        BY <2>1, <4>1 DEF Busy
      <4>5. Resolved(w)'
        BY <4>3, <4>4 DEF Resolved, ResolvedSteps, Steps
      <4>6. QED BY <1>0, <2>1, <4>3, <4>5, OnlyOneMoves DEF IngestInv
    <3>2. CASE ~CanonInsertAllowed(Fingerprint(worker[w].item), RandomCode)
      <4>1. worker'[w] = Idle /\ UNCHANGED <<canon, listing>>
        BY <1>0, <2>9, <3>2 DEF FormCreateCanonical, GiveUp, Done
      <4>2. QED BY <1>0, <2>1, <4>1, IdleResolved, TablesUnchanged
    <3>3. QED BY <3>1, <3>2
  <2>10. CASE FormInsertListing(w)
    <3>1. worker'[w] = Idle
      BY <1>0, <2>10 DEF FormInsertListing, GiveUp, Done
    <3>2. CASE listing' = listing
      BY <1>0, <2>1, <2>10, <3>1, <3>2, IdleResolved, TablesUnchanged DEF FormInsertListing
    <3>3. CASE listing' # listing
      <4>1. /\ listing' = Append(listing, ListingRow(worker[w].ws, worker[w].canonical,
                                                     [worker[w].item EXCEPT !.phones = {}], worker[w].item))
            /\ ListingInsertAllowed(worker[w].ws, worker[w].canonical)
            /\ canon' = canon
        BY <2>10, <3>3 DEF FormInsertListing
      <4>2. /\ worker[w].ws \in Workspaces /\ worker[w].canonical \in Nat
            /\ worker[w].item \in Attributes /\ [worker[w].item EXCEPT !.phones = {}] \in Attributes
            /\ canon[worker[w].canonical].fingerprint = Fingerprint(worker[w].item)
        BY <2>1, <2>10, FormStored DEF FormInsertListing, At, Busy, Resolved, ResolvedSteps
      <4>3. CanonsConsistent' /\ ListingsConsistent' /\ Grows
        BY <1>0, <4>1, <4>2, ListingAppended DEF IngestInv
      <4>4. QED BY <1>0, <2>1, <3>1, <4>3, IdleResolved, OnlyOneMoves DEF IngestInv
    <3>4. QED BY <3>2, <3>3
  <2>11. QED
    BY <1>2, <2>2, <2>3, <2>4, <2>5, <2>6, <2>7, <2>8, <2>9, <2>10, <2>12, <2>13 DEF IngestStep
<1>3. ASSUME NEW l \in Listings, DeleteListing(l)
      PROVE  IngestInv'
  <2>1. /\ DOMAIN listing' = DOMAIN listing
        /\ \A k \in DOMAIN listing :
              /\ listing'[k].ws = listing[k].ws
              /\ listing'[k].canonical = listing[k].canonical
              /\ listing'[k].source = listing[k].source
    BY <1>0, <1>3 DEF DeleteListing, Listings, ListingRows
  <2>2. Listings' \subseteq Listings
    BY <1>0, <1>3 DEF DeleteListing, Listings, ListingRows
  <2>3. CanonsConsistent' /\ ListingsConsistent'
    <3>1. CanonsConsistent'
      BY <1>3 DEF DeleteListing, IngestInv, CanonsConsistent
    <3>2. \A k \in Listings' : k \in DOMAIN listing
      BY <2>1 DEF Listings
    <3>3. ListingsConsistent'
      BY <1>3, <2>1, <2>2, <3>2 DEF DeleteListing, IngestInv, ListingsConsistent
    <3>4. QED BY <3>1, <3>3
  <2>4. WorkersResolved'
    BY <1>3, <2>1 DEF DeleteListing, IngestInv, WorkersResolved, Resolved
  <2>5. QED BY <1>0, <2>3, <2>4 DEF IngestInv
<1>4. CASE UNCHANGED vars
  BY <1>0, <1>4
     DEF vars, IngestInv, CanonsConsistent, ListingsConsistent, Listings, WorkersResolved, Resolved
<1>5. CASE Restart
  BY <1>0, <1>5, IdleResolved
     DEF Restart, IngestInv, CanonsConsistent, ListingsConsistent, Listings, WorkersResolved
<1>6. QED
  BY <1>1, <1>2, <1>3, <1>4, <1>5, IngestAssumption DEF Next, Running, BeginItem, BeginForm

(* The strengthening itself: in every reachable state the tables are        *)
(* consistent and what each execution carries between calls is still true.  *)
THEOREM Invariance == Spec => []IngestInv
<1>1. Init => IngestInv
  <2>1. ASSUME Init PROVE IngestTypeOK
    BY <2>1, IngestAssumption DEF Init, IngestTypeOK, StoreTypeOK, StoreInit, Failures
  <2>2. ASSUME Init PROVE CanonsConsistent /\ ListingsConsistent
    BY <2>2 DEF Init, StoreInit, CanonsConsistent, ListingsConsistent, Listings
  <2>3. ASSUME Init PROVE WorkersResolved
    BY <2>3 DEF Init, Idle, WorkersResolved, Resolved, ResolvedSteps, Steps
  <2>4. QED BY <2>1, <2>2, <2>3 DEF IngestInv
<1>2. IngestInv /\ [Next]_vars => IngestInv'
  BY StepInv
<1>3. QED
  BY <1>1, <1>2, PTL DEF Spec

-----------------------------------------------------------------------------
(* What it gives *)

(* A firm never holds two listings of one property, however many messages,  *)
(* forms and deletions race.                                                *)
THEOREM OneListing == Spec => []OneListingPerProperty
<1>1. IngestInv => OneListingPerProperty
  <2> SUFFICES ASSUME IngestInv,
                      NEW l1 \in Listings, NEW l2 \in Listings, l1 # l2,
                      listing[l1].ws = listing[l2].ws,
                      Fingerprint(listing[l1].source) # NoValue,
                      Fingerprint(listing[l1].source) = Fingerprint(listing[l2].source)
               PROVE  FALSE
    BY DEF OneListingPerProperty
  <2>1. /\ listing[l1].canonical \in DOMAIN canon /\ listing[l2].canonical \in DOMAIN canon
        /\ canon[listing[l1].canonical].fingerprint = Fingerprint(listing[l1].source)
        /\ canon[listing[l2].canonical].fingerprint = Fingerprint(listing[l2].source)
    BY DEF IngestInv, ListingsConsistent, Listings
  <2>2. listing[l1].canonical = listing[l2].canonical
    BY <2>1 DEF IngestInv, CanonsConsistent
  <2>3. QED BY <2>2 DEF IngestInv, ListingsConsistent
<1>2. QED
  BY <1>1, Invariance, PTL

(* The code count + 1 is never taken: as long as no canonical is deleted,   *)
(* an execution that meets no rival can create a row.                       *)
THEOREM CodeFree == Spec => []NextCodeFree
<1>1. IngestInv => NextCodeFree
  <2> SUFFICES ASSUME IngestInv PROVE NextCodeFree
    OBVIOUS
  <2>1. Canonicals = 1..Len(canon) /\ NextGlobalRefCode = Len(canon) + 1 /\ canon \in Seq(CanonRows)
    BY AllCanonicals DEF IngestInv, IngestTypeOK, StoreTypeOK
  <2>2. ASSUME NEW c \in Canonicals PROVE canon[c].refCode # Len(canon) + 1
    <3>1. c \in DOMAIN canon /\ canon[c] \in CanonRows
      BY <2>1
    <3>2. canon[c].refCode \in Nat /\ canon[c].refCode <= Len(canon)
      BY <3>1 DEF CanonRows, IngestInv, CanonsConsistent
    <3>3. Len(canon) \in Nat
      BY <2>1
    <3>4. QED BY <3>2, <3>3
  <2>3. QED BY <2>1, <2>2 DEF NextCodeFree, CodeTaken
<1>2. QED
  BY <1>1, Invariance, PTL

\* A step of the system that is neither a start nor the broker's is one of an
\* execution.
LEMMA OnesStep ==
    ASSUME IngestInv, [Next]_vars, ~Restart, NEW w \in Workers, worker[w] # Idle, worker'[w] # worker[w]
    PROVE  IngestStep(w)
<1>0. worker \in [Workers -> Busy \cup {Idle}] /\ worker[w] \in Busy
  BY DEF IngestInv, IngestTypeOK
<1>1. ASSUME NEW v \in Workers, NEW ws \in Workspaces, NEW a \in Attributes, NEW pc \in {"find", "formFind"},
             Begin(v, ws, a, pc)
      PROVE  FALSE
  <2>1. worker[w].pc # "idle"
    BY <1>0 DEF Busy, Steps
  <2>2. QED BY <1>0, <1>1, <2>1 DEF Begin, At
<1>2. ASSUME NEW v \in Workers, v # w, IngestStep(v)
      PROVE  FALSE
  BY <1>2, StepBusy DEF IngestInv
<1>3. QED
  BY <1>1, <1>2, IngestAssumption DEF Next, Running, BeginItem, BeginForm, DeleteListing, vars

\* What giving up reports.
Report(w) == [ws |-> worker[w].ws, item |-> worker[w].item, at |-> worker[w].pc]

\* A listing of the execution's workspace on the canonical it resolved to.
LEMMA ListedThere ==
    ASSUME IngestInv, NEW w \in Workers, worker[w].pc \in ResolvedSteps, UNCHANGED canon,
           NEW l \in Listings', listing'[l].ws = worker[w].ws, listing'[l].canonical = worker[w].canonical
    PROVE  \E k \in Listings' :
              /\ listing'[k].ws = worker[w].ws
              /\ canon'[listing'[k].canonical].fingerprint = Fingerprint(worker[w].item)
  BY DEF IngestInv, WorkersResolved, Resolved

(* An ingestion or a form that is through with its listing leaves its       *)
(* workspace one of the property, or a report: nothing is dropped silently. *)
THEOREM NothingLost == Spec => ListedOrLogged
<1>1. ASSUME IngestInv, IngestInv', [Next]_vars, ~Restart, NEW w \in Workers
      PROVE  EndsListedOrLogged(w)
  <2> SUFFICES ASSUME worker[w].pc \notin {"idle", "attach"}, worker'[w].pc \in {"idle", "attach"}
               PROVE  \/ Report(w) \in failed'
                      \/ \E l \in Listings' :
                            /\ listing'[l].ws = worker[w].ws
                            /\ canon'[listing'[l].canonical].fingerprint = Fingerprint(worker[w].item)
    BY DEF EndsListedOrLogged, Report
  <2>1. /\ canon \in Seq(CanonRows) /\ listing \in Seq(ListingRows)
        /\ worker \in [Workers -> Busy \cup {Idle}]
        /\ worker[w] \in Busy
        /\ Resolved(w)
        /\ Canonicals = DOMAIN canon
    BY <1>1, BusyWorker, AllCanonicals DEF IngestInv, IngestTypeOK, StoreTypeOK, WorkersResolved
  <2>2. IngestStep(w)
    <3>1. worker[w] # Idle
      BY DEF Idle
    <3>2. QED BY <1>1, <3>1, OnesStep
  <2>3. CASE GiveUp(w)
    BY <2>3 DEF GiveUp, Report
  <2>4. CASE FindCanonical(w) \/ CountCanonicals(w) \/ CheckListing(w) \/ FormFindCanonical(w)
    <3>1. worker'[w].pc \in {"check", "count", "create", "touch", "upsert", "formInsert", "formCreate"}
      BY <2>1, <2>4 DEF FindCanonical, CountCanonicals, CheckListing, FormFindCanonical, Goto, Busy
    <3>2. QED BY <3>1
  <2>5. CASE (CreateCanonical(w) \/ FormCreateCanonical(w)) /\ ~GiveUp(w)
    <3>1. worker'[w].pc \in {"check", "formInsert"}
      BY <2>1, <2>5 DEF CreateCanonical, FormCreateCanonical, Busy
    <3>2. QED BY <3>1
  <2>6. CASE TouchListing(w) /\ ~GiveUp(w)
    <3>1. worker[w].target \in Listings /\ UNCHANGED <<canon, listing>> /\ worker[w].pc = "touch"
      BY <2>6 DEF TouchListing, At
    <3>2. worker[w].target \in Listings'
      BY <3>1 DEF Listings
    <3>3. /\ listing'[worker[w].target].ws = worker[w].ws
          /\ listing'[worker[w].target].canonical = worker[w].canonical
      BY <2>1, <3>1 DEF Resolved
    <3>4. QED BY <1>1, <3>1, <3>2, <3>3, ListedThere DEF ResolvedSteps
  <2>7. ASSUME UpsertListing(w) \/ FormInsertListing(w), ~GiveUp(w)
        PROVE  \E l \in Listings' :
                  /\ listing'[l].ws = worker[w].ws
                  /\ canon'[listing'[l].canonical].fingerprint = Fingerprint(worker[w].item)
    <3>1. /\ worker[w].pc \in ResolvedSteps /\ canon' = canon
          /\ worker[w].canonical \in Canonicals
      BY <2>1, <2>7 DEF UpsertListing, FormInsertListing, At, ResolvedSteps, Resolved
    <3>2. CASE ByWsCanonical(worker[w].ws, worker[w].canonical) # {}
      <4>1. listing' = listing
        BY <2>7, <3>2 DEF UpsertListing, FormInsertListing, ListingInsertAllowed
      <4>2. PICK l \in Listings : listing[l].ws = worker[w].ws /\ listing[l].canonical = worker[w].canonical
        BY <3>2 DEF ByWsCanonical
      <4>3. l \in Listings'
        BY <4>1, <4>2 DEF Listings
      <4>4. QED BY <1>1, <3>1, <4>1, <4>2, <4>3, ListedThere
    <3>3. CASE ByWsCanonical(worker[w].ws, worker[w].canonical) = {}
      <4>1. PICK attrs : listing' = Append(listing, ListingRow(worker[w].ws, worker[w].canonical,
                                                               attrs, worker[w].item))
        BY <2>7, <3>1, <3>3 DEF UpsertListing, FormInsertListing, ListingInsertAllowed
      <4>2. /\ Len(listing) + 1 \in DOMAIN listing'
            /\ listing'[Len(listing) + 1] = ListingRow(worker[w].ws, worker[w].canonical,
                                                      attrs, worker[w].item)
        BY <2>1, <4>1
      <4>3. /\ Len(listing) + 1 \in Listings'
            /\ listing'[Len(listing) + 1].ws = worker[w].ws
            /\ listing'[Len(listing) + 1].canonical = worker[w].canonical
        BY <4>2 DEF Listings, ListingRow
      <4>4. QED BY <1>1, <3>1, <4>3, ListedThere
    <3>4. QED BY <3>2, <3>3
  <2>8. ~AttachAgents(w)
    BY DEF AttachAgents, At
  <2>9. Fail(w) => GiveUp(w)
    BY DEF Fail
  <2>10. QED BY <2>2, <2>3, <2>4, <2>5, <2>6, <2>7, <2>8, <2>9 DEF IngestStep
<1>2. IngestInv /\ IngestInv' /\ [Next]_vars => Restart \/ \A w \in Workers : EndsListedOrLogged(w)
  BY <1>1
<1>3. QED
  BY <1>2, Invariance, PTL DEF Spec, ListedOrLogged

(* A row of CanonicalProperty is accounted for: the witness is a listing,   *)
(* which keeps its row for ever, an execution, which ends only once there   *)
(* is such a listing, or the report of its failure.                         *)
Used(c) ==
    \/ \E l \in DOMAIN listing : listing[l].canonical = c
    \/ \E w \in Workers : worker[w] # Idle /\ worker[w].canonical = c

Reported(c) == \E f \in failed : Fingerprint(f.item) = canon[c].fingerprint

\* Listings keep their canonical, canonicals their fingerprint, and reports stay.
LEMMA Remembered ==
    ASSUME IngestInv, [Next]_vars, ~Restart
    PROVE  /\ \A l \in DOMAIN listing :
                 l \in DOMAIN listing' /\ listing'[l].canonical = listing[l].canonical
           /\ \A c \in DOMAIN canon : canon'[c].fingerprint = canon[c].fingerprint
           /\ failed \subseteq failed'
<1>0. /\ canon \in Seq(CanonRows) /\ listing \in Seq(ListingRows) /\ IngestTypeOK
      /\ worker \in [Workers -> Busy \cup {Idle}]
  BY DEF IngestInv, IngestTypeOK, StoreTypeOK
<1>1. ASSUME NEW w \in Workers, IngestStep(w)
      PROVE  /\ listing' = listing \/ (\E r \in ListingRows : listing' = Append(listing, r)) \/ AttachAgents(w)
             /\ canon' = canon \/ (\E r \in CanonRows : canon' = Append(canon, r))
             /\ failed \subseteq failed'
  <2>1. worker[w] \in Busy
    BY <1>0, <1>1, StepBusy
  <2>2. /\ \A a \in {Stored(worker[w].item), [worker[w].item EXCEPT !.phones = {}]} :
              ListingRow(worker[w].ws, worker[w].canonical, a, worker[w].item) \in ListingRows
        /\ \A code \in {worker[w].code, RandomCode} :
              CanonRow(Fingerprint(worker[w].item), code) \in CanonRows
    BY <2>1, StoredType, FormStored, FingerprintType
       DEF ListingRow, ListingRows, CanonRow, CanonRows, Busy, RandomCode
  <2>3. failed \subseteq failed'
    BY <1>1 DEF IngestStep, FindCanonical, CountCanonicals, CreateCanonical, CheckListing, TouchListing,
                UpsertListing, AttachAgents, FormFindCanonical, FormCreateCanonical, FormInsertListing,
                Fail, GiveUp
  <2>4. canon' = canon \/ (\E r \in CanonRows : canon' = Append(canon, r))
    <3>1. CASE CreateCanonical(w) \/ FormCreateCanonical(w)
      BY <2>2, <3>1 DEF CreateCanonical, FormCreateCanonical
    <3>2. QED
      BY <1>1, <3>1 DEF IngestStep, FindCanonical, CountCanonicals, CheckListing, TouchListing,
                        UpsertListing, AttachAgents, FormFindCanonical, FormInsertListing, Fail
  <2>5. listing' = listing \/ (\E r \in ListingRows : listing' = Append(listing, r)) \/ AttachAgents(w)
    <3>1. CASE UpsertListing(w) \/ FormInsertListing(w)
      BY <2>2, <3>1 DEF UpsertListing, FormInsertListing
    <3>2. QED
      BY <1>1, <3>1 DEF IngestStep, FindCanonical, CountCanonicals, CreateCanonical, CheckListing,
                        TouchListing, FormFindCanonical, FormCreateCanonical, Fail
  <2>6. QED BY <2>3, <2>4, <2>5
<1>2. ASSUME NEW w \in Workers, AttachAgents(w), listing' # listing, NEW k \in DOMAIN listing
      PROVE  k \in DOMAIN listing' /\ listing'[k].canonical = listing[k].canonical
  <2>1. PICK known \in SUBSET Phones :
           listing' = [listing EXCEPT ![worker[w].target] = WithPhones(listing[worker[w].target], known)]
    BY <1>2 DEF AttachAgents
  <2>2. listing[k] \in ListingRows
    BY <1>0
  <2>3. QED BY <1>0, <2>1, <2>2, PhonesAdded
<1>3. ASSUME NEW l \in Listings, DeleteListing(l)
      PROVE  \A k \in DOMAIN listing :
                k \in DOMAIN listing' /\ listing'[k].canonical = listing[k].canonical
  BY <1>0, <1>3 DEF DeleteListing, Listings, ListingRows
<1>4. \A l \in DOMAIN listing : l \in DOMAIN listing' /\ listing'[l].canonical = listing[l].canonical
  <2>1. CASE \E r \in ListingRows : listing' = Append(listing, r)
    BY <1>0, <2>1
  <2>2. CASE listing' = listing
    BY <2>2
  <2>3. QED
    BY <1>1, <1>2, <1>3, <2>1, <2>2 DEF Next, Running, Begin, BeginItem, BeginForm, vars
<1>5. \A c \in DOMAIN canon : canon'[c].fingerprint = canon[c].fingerprint
  <2>1. CASE \E r \in CanonRows : canon' = Append(canon, r)
    BY <1>0, <2>1
  <2>2. CASE canon' = canon
    BY <2>2
  <2>3. QED
    BY <1>1, <2>1, <2>2 DEF Next, Running, Begin, BeginItem, BeginForm, DeleteListing, vars
<1>6. failed \subseteq failed'
  BY <1>1 DEF Next, Running, Begin, BeginItem, BeginForm, DeleteListing, vars
<1>7. QED BY <1>4, <1>5, <1>6

\* A canonical that is referenced, awaited or reported stays so: each step of its
\* execution hands it on until its listing is written or its failure reported.
LEMMA StaysUsed ==
    ASSUME IngestInv, IngestInv', [Next]_vars, ~Restart, NEW c \in Canonicals, Used(c) \/ Reported(c)
    PROVE  Used(c)' \/ Reported(c)'
<1>0. /\ canon \in Seq(CanonRows) /\ listing \in Seq(ListingRows)
      /\ worker \in [Workers -> Busy \cup {Idle}]
      /\ Canonicals = 1..Len(canon)
  BY AllCanonicals DEF IngestInv, IngestTypeOK, StoreTypeOK
<1>1. /\ \A l \in DOMAIN listing :
            l \in DOMAIN listing' /\ listing'[l].canonical = listing[l].canonical
      /\ canon'[c].fingerprint = canon[c].fingerprint
      /\ failed \subseteq failed'
  BY <1>0, Remembered
<1>2. CASE \E l \in DOMAIN listing : listing[l].canonical = c
  BY <1>1, <1>2 DEF Used
<1>3. CASE Reported(c)
  BY <1>1, <1>3 DEF Reported
<1>4. ASSUME NEW w \in Workers, worker[w] # Idle, worker[w].canonical = c
      PROVE  Used(c)' \/ Reported(c)'
  <2>1. CASE worker'[w] # Idle /\ worker'[w].canonical = c
    BY <2>1 DEF Used
  <2>2. CASE ~(worker'[w] # Idle /\ worker'[w].canonical = c)
    <3>1. /\ worker[w] \in Busy /\ Resolved(w) /\ c \in 1..Len(canon) /\ Len(canon) \in Nat
          /\ worker[w].pc \in ResolvedSteps
      BY <1>0, <1>4 DEF IngestInv, WorkersResolved, Resolved, Busy
    <3>2. IngestStep(w)
      BY <1>4, <2>2, OnesStep
    <3>3. CASE GiveUp(w)
      <4>1. Report(w) \in failed' /\ Report(w).item = worker[w].item
        BY <3>3 DEF GiveUp, Report
      <4>2. Fingerprint(worker[w].item) = canon'[c].fingerprint
        BY <1>1, <1>4, <3>1 DEF Resolved
      <4>3. QED BY <4>1, <4>2 DEF Reported
    <3>4. CASE CheckListing(w)
      BY <1>0, <1>4, <2>2, <3>1, <3>4 DEF CheckListing, Goto, Idle, Busy
    <3>5. CASE TouchListing(w) \/ AttachAgents(w)
      <4>1. worker[w].target \in DOMAIN listing /\ listing[worker[w].target].canonical = c
        BY <1>4, <3>1, <3>5 DEF TouchListing, AttachAgents, At, Resolved
      <4>2. QED BY <1>1, <4>1 DEF Used
    <3>6. ASSUME UpsertListing(w) \/ FormInsertListing(w), ~GiveUp(w)
          PROVE  Used(c)'
      <4>1. CASE ByWsCanonical(worker[w].ws, c) # {}
        BY <1>1, <4>1 DEF ByWsCanonical, Listings, Used
      <4>2. CASE ByWsCanonical(worker[w].ws, c) = {}
        <5>1. PICK attrs : listing' = Append(listing, ListingRow(worker[w].ws, c, attrs, worker[w].item))
          BY <1>0, <1>4, <3>1, <3>6, <4>2 DEF UpsertListing, FormInsertListing, ListingInsertAllowed
        <5>2. /\ Len(listing) + 1 \in DOMAIN listing'
              /\ listing'[Len(listing) + 1] = ListingRow(worker[w].ws, c, attrs, worker[w].item)
          BY <1>0, <5>1
        <5>3. QED BY <5>2 DEF ListingRow, Used
      <4>3. QED BY <4>1, <4>2
    <3>7. Fail(w) => GiveUp(w)
      BY DEF Fail
    <3>8. ~(FindCanonical(w) \/ CountCanonicals(w) \/ CreateCanonical(w) \/ FormFindCanonical(w) \/ FormCreateCanonical(w))
      BY <3>1 DEF At, ResolvedSteps, FindCanonical, CountCanonicals, CreateCanonical,
                  FormFindCanonical, FormCreateCanonical
    <3>9. QED BY <3>2, <3>3, <3>4, <3>5, <3>6, <3>7, <3>8 DEF IngestStep
  <2>3. QED BY <2>1, <2>2
<1>5. QED BY <1>2, <1>3, <1>4 DEF Used

\* A row that a step adds is used by the execution that added it.
LEMMA NewIsUsed ==
    ASSUME IngestInv, IngestInv', [Next]_vars, ~Restart, NEW c \in Canonicals', c \notin Canonicals
    PROVE  Used(c)'
<1>0. /\ canon \in Seq(CanonRows)
      /\ worker \in [Workers -> Busy \cup {Idle}]
      /\ Canonicals = 1..Len(canon)
      /\ Canonicals' = 1..Len(canon')
  BY AllCanonicals DEF IngestInv, IngestTypeOK, StoreTypeOK, Canonicals, CanonsConsistent
<1>1. canon' # canon
  BY <1>0
<1>2. PICK w \in Workers : CreateCanonical(w) \/ FormCreateCanonical(w)
  BY <1>1 DEF Next, Running, BeginItem, BeginForm, Begin, DeleteListing, vars, IngestStep, FindCanonical,
              CountCanonicals, CheckListing, TouchListing, UpsertListing, AttachAgents, FormFindCanonical,
              FormInsertListing, Fail
<1>3. worker[w] \in Busy
  BY <1>2, BusyWorker DEF IngestInv, CreateCanonical, FormCreateCanonical, At
<1>4. PICK code, pc : /\ canon' = Append(canon, CanonRow(Fingerprint(worker[w].item), code))
                      /\ pc \in Steps
                      /\ worker'[w] = [worker[w] EXCEPT !.pc = pc, !.canonical = Len(canon) + 1]
  BY <1>0, <1>1, <1>2 DEF CreateCanonical, FormCreateCanonical, Steps
<1>5. Len(canon') = Len(canon) + 1
  BY <1>0, <1>4
<1>6. c = Len(canon) + 1
  BY <1>0, <1>5
<1>7. worker'[w] # Idle /\ worker'[w].canonical = c
  BY <1>3, <1>4, <1>6 DEF Busy, Idle, Steps
<1>8. QED BY <1>7 DEF Used

(* A canonical without a listing is never there unnoticed: an execution is  *)
(* about to write its listing, or its failure was reported; only a process  *)
(* that stops leaves one that nothing tells of.                             *)
THEOREM NoOrphan == Spec => []OrphansReported
<1>1. Init => OrphansReported
  BY DEF Init, StoreInit, OrphansReported, Canonicals
<1>2. IngestInv /\ IngestInv' /\ OrphansReported /\ [Next]_vars => OrphansReported'
  <2> SUFFICES ASSUME IngestInv, IngestInv', OrphansReported, [Next]_vars,
                      restarts' = 0, NEW c \in Canonicals'
               PROVE  Used(c)' \/ Reported(c)'
    BY DEF OrphansReported, Used, Reported
  <2>1. restarts \in Nat
    BY IngestAssumption DEF IngestInv, IngestTypeOK
  <2>2. ~Restart
    BY <2>1 DEF Restart
  <2>3. restarts = 0
    BY <2>2 DEF Next, Running, BeginItem, BeginForm, Begin, DeleteListing, IngestStep, FindCanonical,
                CountCanonicals, CreateCanonical, CheckListing, TouchListing, UpsertListing, AttachAgents,
                FormFindCanonical, FormCreateCanonical, FormInsertListing, Fail, vars
  <2>4. CASE c \in Canonicals
    <3>1. Used(c) \/ Reported(c)
      BY <2>3, <2>4 DEF OrphansReported, Used, Reported
    <3>2. QED BY <2>2, <2>4, <3>1, StaysUsed
  <2>5. CASE c \notin Canonicals
    BY <2>2, <2>5, NewIsUsed
  <2>6. QED BY <2>4, <2>5
<1>3. QED
  BY <1>1, <1>2, Invariance, PTL DEF Spec

-----------------------------------------------------------------------------
(* Module DedupBackfill: what the live system does to the store *)

\* The statements ingestion, the form and the brokers run: one row is inserted,
\* if its constraints allow it, or one listing deleted.
CanonInserted ==
    /\ listing' = listing
    /\ \E fp \in Fingerprints \cup {NoValue}, code \in Nat :
          CanonInsertAllowed(fp, code) /\ canon' = Append(canon, CanonRow(fp, code))

ListingInserted ==
    /\ canon' = canon
    /\ \E ws \in Workspaces, c \in Nat, attrs \in Attributes, source \in Attributes :
          ListingInsertAllowed(ws, c) /\ listing' = Append(listing, ListingRow(ws, c, attrs, source))

ListingDeleted ==
    /\ canon' = canon
    /\ \E l \in Listings : listing' = [listing EXCEPT ![l].live = FALSE]

ListingAttached ==
    /\ canon' = canon
    /\ \E l \in Listings, known \in SUBSET Phones :
          listing' = [listing EXCEPT ![l] = WithPhones(listing[l], known)]

LEMMA Statements ==
    ASSUME IngestTypeOK, Running
    PROVE  UNCHANGED <<canon, listing>> \/ CanonInserted \/ ListingInserted
           \/ ListingDeleted \/ ListingAttached
<1>1. ASSUME NEW w \in Workers, NEW ws \in Workspaces, NEW a \in Attributes, NEW pc \in {"find", "formFind"},
             Begin(w, ws, a, pc)
      PROVE  UNCHANGED <<canon, listing>>
  BY <1>1 DEF Begin
<1>2. ASSUME NEW w \in Workers, IngestStep(w)
      PROVE  UNCHANGED <<canon, listing>> \/ CanonInserted \/ ListingInserted \/ ListingAttached
  <2>1. worker[w] \in Busy
    BY <1>2, StepBusy
  <2>2. /\ worker[w].ws \in Workspaces /\ worker[w].item \in Attributes
        /\ worker[w].canonical \in Nat /\ worker[w].code \in Nat /\ RandomCode \in Nat
        /\ Stored(worker[w].item) \in Attributes
        /\ [worker[w].item EXCEPT !.phones = {}] \in Attributes
        /\ Fingerprint(worker[w].item) \in Fingerprints \cup {NoValue}
    BY <2>1, StoredType, FormStored, FingerprintType DEF Busy, RandomCode
  <2>3. CASE CreateCanonical(w)
    BY <2>2, <2>3 DEF CreateCanonical, CanonInserted
  <2>4. CASE FormCreateCanonical(w)
    BY <2>2, <2>4 DEF FormCreateCanonical, CanonInserted
  <2>5. CASE UpsertListing(w)
    BY <2>2, <2>5 DEF UpsertListing, ListingInserted
  <2>6. CASE FormInsertListing(w)
    BY <2>2, <2>6 DEF FormInsertListing, ListingInserted
  <2>7. CASE AttachAgents(w)
    BY <2>7 DEF AttachAgents, ListingAttached
  <2>8. QED
    BY <1>2, <2>3, <2>4, <2>5, <2>6, <2>7
       DEF IngestStep, FindCanonical, CountCanonicals, CheckListing, TouchListing, FormFindCanonical, Fail
<1>3. ASSUME NEW l \in Listings, DeleteListing(l)
      PROVE  ListingDeleted
  BY <1>3 DEF DeleteListing, ListingDeleted
<1>4. ASSUME NEW w \in Workers, NEW ws \in Workspaces, NEW a \in Items,
             BeginItem(w, ws, a) \/ BeginForm(w, ws, a)
      PROVE  UNCHANGED <<canon, listing>>
  <2>1. a \in Attributes
    BY IngestAssumption
  <2>2. QED BY <1>1, <1>4, <2>1 DEF BeginItem, BeginForm
<1>5. QED
  BY <1>2, <1>3, <1>4 DEF Running

-----------------------------------------------------------------------------
(* Module DedupBackfill: the inductive invariant *)

LiveFingerprintsDiffer ==
    \A c1, c2 \in Canonicals :
        c1 # c2 /\ canon[c1].fingerprint # NoValue
        => canon[c1].fingerprint # canon[c2].fingerprint

\* What a sweep holds of a listing can be looked up, and the canonical it has
\* chosen carries the fingerprint, unless another sweep has stamped it since.
SweepSound(s) ==
    /\ sweep[s].pc \in {"lookup", "stamp", "conflict", "relink"} =>
        /\ sweep[s].cur \in Snapshots
        /\ Wanted(s) # NoValue
    /\ sweep[s].pc \in {"conflict", "relink"} =>
        /\ sweep[s].target \in DOMAIN canon
        /\ s \in raced \/ canon[sweep[s].target].fingerprint = Wanted(s)

SweepsSound == \A s \in Sweepers : SweepSound(s)

BackfillInv ==
    /\ BackfillTypeOK
    /\ LiveFingerprintsDiffer
    /\ NoDanglingListing
    /\ SweepsSound

-----------------------------------------------------------------------------
(* The store                                                               *)

\* Canonicals stay, with the fingerprints the sweeps have read.
Kept ==
    \A c \in DOMAIN canon :
        c \in DOMAIN canon' /\ canon'[c].fingerprint = canon[c].fingerprint

\* Every statement but the sweeps' own leaves the tables so.
LEMMA StatementsKeep ==
    ASSUME StoreTypeOK, LiveFingerprintsDiffer, NoDanglingListing,
           UNCHANGED <<canon, listing>> \/ CanonInserted \/ ListingInserted
           \/ ListingDeleted \/ ListingAttached
    PROVE  Kept /\ LiveFingerprintsDiffer' /\ NoDanglingListing'
<1>0. canon \in Seq(CanonRows) /\ listing \in Seq(ListingRows)
  BY DEF StoreTypeOK
<1>1. CASE UNCHANGED <<canon, listing>>
  BY <1>1 DEF Kept, LiveFingerprintsDiffer, NoDanglingListing, Canonicals, Listings
<1>2. CASE CanonInserted
  <2>1. PICK fp \in Fingerprints \cup {NoValue}, code \in Nat :
           CanonInsertAllowed(fp, code) /\ canon' = Append(canon, CanonRow(fp, code))
    BY <1>2 DEF CanonInserted
  <2>2. CanonRow(fp, code) \in CanonRows /\ CanonRow(fp, code).fingerprint = fp
    BY DEF CanonRow, CanonRows
  <2>3. /\ Len(canon') = Len(canon) + 1
        /\ DOMAIN canon' = 1..Len(canon')
        /\ \A c \in DOMAIN canon : c \in DOMAIN canon' /\ canon'[c] = canon[c]
        /\ canon'[Len(canon) + 1] = CanonRow(fp, code)
        /\ \A c \in DOMAIN canon' : c \in DOMAIN canon \/ c = Len(canon) + 1
    BY <1>0, <2>1, <2>2
  <2>4. Kept
    BY <2>3 DEF Kept
  <2>5. /\ Canonicals \subseteq Canonicals'
        /\ \A c \in Canonicals' : c \in Canonicals \/ c = Len(canon) + 1
    BY <2>3 DEF Canonicals
  <2>6. NoDanglingListing'
    BY <1>2, <2>5 DEF NoDanglingListing, CanonInserted, Listings
  <2>7. \A c \in Canonicals : fp # NoValue => canon[c].fingerprint # fp
    BY <2>1 DEF CanonInsertAllowed, ByFingerprint
  <2>8. \A c \in Canonicals : canon'[c].fingerprint = canon[c].fingerprint
    BY <2>3 DEF Canonicals
  <2>9. LiveFingerprintsDiffer'
    BY <2>2, <2>3, <2>5, <2>7, <2>8 DEF LiveFingerprintsDiffer
  <2>10. QED BY <2>4, <2>6, <2>9
<1>3. CASE ListingInserted
  <2>1. PICK ws \in Workspaces, c \in Nat, attrs \in Attributes, source \in Attributes :
           ListingInsertAllowed(ws, c) /\ listing' = Append(listing, ListingRow(ws, c, attrs, source))
    BY <1>3 DEF ListingInserted
  <2>2. ListingRow(ws, c, attrs, source) \in ListingRows /\ ListingRow(ws, c, attrs, source).canonical = c
    BY DEF ListingRow, ListingRows
  <2>3. /\ \A l \in DOMAIN listing : l \in DOMAIN listing' /\ listing'[l] = listing[l]
        /\ listing'[Len(listing) + 1] = ListingRow(ws, c, attrs, source)
        /\ \A l \in DOMAIN listing' : l \in DOMAIN listing \/ l = Len(listing) + 1
    BY <1>0, <2>1, <2>2
  <2>4. \A l \in Listings' : l \in Listings \/ l = Len(listing) + 1
    BY <2>3 DEF Listings
  <2>5. canon' = canon /\ Canonicals' = Canonicals /\ c \in Canonicals
    BY <1>3, <2>1 DEF ListingInserted, Canonicals, ListingInsertAllowed
  <2>6. NoDanglingListing'
    <3>1. \A l \in Listings : listing'[l].canonical \in Canonicals
      BY <2>3 DEF NoDanglingListing, Listings
    <3>2. QED BY <2>2, <2>3, <2>4, <2>5, <3>1 DEF NoDanglingListing
  <2>7. LiveFingerprintsDiffer' /\ Kept
    BY <2>5 DEF LiveFingerprintsDiffer, Kept
  <2>8. QED BY <2>6, <2>7
<1>4. CASE ListingDeleted
  <2>1. PICK l \in Listings : listing' = [listing EXCEPT ![l].live = FALSE]
    BY <1>4 DEF ListingDeleted
  <2>2. /\ DOMAIN listing' = DOMAIN listing
        /\ \A k \in DOMAIN listing : listing'[k].canonical = listing[k].canonical
        /\ \A k \in DOMAIN listing : listing'[k].live => listing[k].live
    BY <1>0, <2>1 DEF Listings, ListingRows
  <2>3. canon' = canon /\ Canonicals' = Canonicals /\ Listings' \subseteq Listings
    BY <1>4, <2>2 DEF ListingDeleted, Canonicals, Listings
  <2>4. NoDanglingListing'
    BY <2>2, <2>3 DEF NoDanglingListing, Listings
  <2>5. QED BY <2>3, <2>4 DEF Kept, LiveFingerprintsDiffer
<1>5. CASE ListingAttached
  <2>1. PICK l \in Listings, known \in SUBSET Phones :
           listing' = [listing EXCEPT ![l] = WithPhones(listing[l], known)]
    BY <1>5 DEF ListingAttached
  <2>2. l \in DOMAIN listing /\ listing[l] \in ListingRows
    BY <1>0 DEF Listings
  <2>3. /\ DOMAIN listing' = DOMAIN listing
        /\ \A k \in DOMAIN listing : listing'[k].canonical = listing[k].canonical
        /\ \A k \in DOMAIN listing : listing'[k].live = listing[k].live
    BY <1>0, <2>1, <2>2, PhonesAdded
  <2>4. canon' = canon /\ Canonicals' = Canonicals /\ Listings' = Listings
    BY <1>5, <2>3 DEF ListingAttached, Canonicals, Listings
  <2>5. NoDanglingListing'
    BY <2>3, <2>4 DEF NoDanglingListing, Listings
  <2>6. QED BY <2>4, <2>5 DEF Kept, LiveFingerprintsDiffer
<1>6. QED BY <1>1, <1>2, <1>3, <1>4, <1>5

\* A row put in the place of another.
LEMMA RowPut ==
    ASSUME NEW S, NEW q \in Seq(S), NEW k \in DOMAIN q, NEW row \in S
    PROVE  /\ [q EXCEPT ![k] = row] \in Seq(S)
           /\ DOMAIN [q EXCEPT ![k] = row] = DOMAIN q
           /\ [q EXCEPT ![k] = row][k] = row
           /\ \A i \in DOMAIN q : i # k => [q EXCEPT ![k] = row][i] = q[i]
  OBVIOUS

\* A live listing's row put in the place of the one it had.
LEMMA ListingPut ==
    ASSUME StoreTypeOK, LiveFingerprintsDiffer, NoDanglingListing, UNCHANGED canon,
           NEW l \in Listings, NEW row \in ListingRows, row.canonical \in Canonicals, row.live,
           listing' = [listing EXCEPT ![l] = row]
    PROVE  StoreTypeOK' /\ LiveFingerprintsDiffer' /\ NoDanglingListing'
<1>1. /\ listing \in Seq(ListingRows) /\ canon \in Seq(CanonRows)
      /\ l \in DOMAIN listing /\ listing[l].live
  BY DEF StoreTypeOK, Listings
<1>2. /\ listing' \in Seq(ListingRows)
      /\ DOMAIN listing' = DOMAIN listing
      /\ listing'[l] = row
      /\ \A k \in DOMAIN listing : k # l => listing'[k] = listing[k]
  BY <1>1, RowPut
<1>3. Canonicals' = Canonicals /\ Listings' = Listings
  BY <1>1, <1>2 DEF Canonicals, Listings
<1>4. NoDanglingListing'
  BY <1>2, <1>3 DEF NoDanglingListing, Listings
<1>5. QED
  BY <1>1, <1>2, <1>3, <1>4 DEF StoreTypeOK, LiveFingerprintsDiffer

\* A listing moved as the keys allow.
LEMMA MoveKeeps ==
    ASSUME StoreTypeOK, LiveFingerprintsDiffer, NoDanglingListing, UNCHANGED canon,
           NEW l \in Listings, NEW c \in Canonicals, NEW attrs \in Attributes,
           listing' = [listing EXCEPT ![l].attrs = attrs, ![l].canonical = c]
    PROVE  StoreTypeOK' /\ LiveFingerprintsDiffer' /\ NoDanglingListing'
<1>1. /\ listing \in Seq(ListingRows) /\ c \in Nat
      /\ l \in DOMAIN listing /\ listing[l] \in ListingRows /\ listing[l].live
  BY DEF StoreTypeOK, Listings, Canonicals
<1>2. PICK row : row = [listing[l] EXCEPT !.attrs = attrs, !.canonical = c]
  OBVIOUS
<1>3. row \in ListingRows /\ row.canonical = c /\ row.live
  BY <1>1, <1>2 DEF ListingRows
<1>4. listing' = [listing EXCEPT ![l] = row]
  <2>1. listing' = [listing EXCEPT ![l] = [listing[l] EXCEPT !.attrs = attrs, !.canonical = c]]
    BY <1>1 DEF ListingRows
  <2>2. QED BY <1>2, <2>1
<1>5. QED BY <1>3, <1>4, ListingPut

-----------------------------------------------------------------------------
(* The sweeps                                                              *)

\* The records a sweep goes through.
LEMMA SweepMoved ==
    ASSUME NEW s \in Sweeping, NEW pc \in SweepSteps
    PROVE  /\ [s EXCEPT !.pc = pc] \in Sweeping
           /\ [s EXCEPT !.pc = pc, !.cur = NoSnapshot, !.target = 0] \in Sweeping
           /\ \A c \in Nat : [s EXCEPT !.pc = pc, !.target = c] \in Sweeping
           /\ \A t \in s.todo :
                /\ [s EXCEPT !.todo = @ \ {t}] \in Sweeping
                /\ [s EXCEPT !.todo = @ \ {t}, !.cur = t, !.pc = pc] \in Sweeping
  BY DEF Sweeping

\* A sweep that takes a step is under way, and the others stand still.
LEMMA SweepBusy ==
    ASSUME BackfillTypeOK, NEW s \in Sweepers, SweepStep(s)
    PROVE  /\ sweep[s] \in Sweeping
           /\ \A t \in Sweepers \ {s} : sweep'[t] = sweep[t]
           /\ UNCHANGED <<worker, jobs, failed, restarts, sweeps, edits>>
<1>0. sweep \in [Sweepers -> Sweeping \cup {SweepIdle}]
  BY DEF BackfillTypeOK
<1>1. sweep[s].pc # "idle"
  BY DEF SweepStep, SweepAt, NextListing, Lookup, StampFingerprint, CheckConflict, Relink,
         CountOrphans, DeleteOrphan, FinishSweep, Recount
<1>2. sweep[s] \in Sweeping
  BY <1>0, <1>1 DEF SweepIdle
<1>3. \A t \in Sweepers \ {s} : sweep'[t] = sweep[t]
  BY <1>0 DEF SweepStep, NextListing, Lookup, StampFingerprint, CheckConflict, Relink, CountOrphans,
              DeleteOrphan, FinishSweep, Recount, Continue, SweepGoto, Choose
<1>4. UNCHANGED <<worker, jobs, failed, restarts, sweeps, edits>>
  BY DEF SweepStep, NextListing, Lookup, StampFingerprint, CheckConflict, Relink,
         CountOrphans, DeleteOrphan, FinishSweep, Recount
<1>5. QED BY <1>2, <1>3, <1>4

LEMMA WantedType ==
    ASSUME NEW s \in Sweepers, SweepSound(s), sweep[s].pc \in {"lookup", "stamp", "conflict", "relink"}
    PROVE  Wanted(s) \in Fingerprints /\ sweep[s].cur.attrs \in Attributes
<1>1. sweep[s].cur \in Snapshots /\ Wanted(s) # NoValue
  BY DEF SweepSound
<1>2. sweep[s].cur.attrs \in Attributes
  BY <1>1 DEF Snapshots
<1>3. QED BY <1>1, <1>2, FingerprintType DEF Wanted

\* The sweep's own record keeps its type.
LEMMA SweepStepTypes ==
    ASSUME BackfillInv, NEW s \in Sweepers, SweepStep(s)
    PROVE  sweep' \in [Sweepers -> Sweeping \cup {SweepIdle}] /\ raced' \subseteq Sweepers
<1>0. /\ sweep[s] \in Sweeping
      /\ sweep \in [Sweepers -> Sweeping \cup {SweepIdle}]
      /\ canon \in Seq(CanonRows)
      /\ raced \subseteq Sweepers
  BY SweepBusy DEF BackfillInv, BackfillTypeOK, IngestTypeOK, StoreTypeOK
<1>1. /\ Continue(s) => sweep' \in [Sweepers -> Sweeping \cup {SweepIdle}]
      /\ \A pc \in SweepSteps : SweepGoto(s, pc) => sweep' \in [Sweepers -> Sweeping \cup {SweepIdle}]
  <2>1. ASSUME NEW pc \in SweepSteps, SweepGoto(s, pc)
        PROVE  sweep' \in [Sweepers -> Sweeping \cup {SweepIdle}]
    <3>1. [sweep[s] EXCEPT !.pc = pc] \in Sweeping
      BY <1>0, SweepMoved
    <3>2. QED BY <1>0, <2>1, <3>1 DEF SweepGoto
  <2>2. ASSUME Continue(s)
        PROVE  sweep' \in [Sweepers -> Sweeping \cup {SweepIdle}]
    <3>1. [sweep[s] EXCEPT !.pc = "next", !.cur = NoSnapshot, !.target = 0] \in Sweeping
      BY <1>0, SweepMoved DEF SweepSteps
    <3>2. QED BY <1>0, <2>2, <3>1 DEF Continue
  <2>3. QED BY <2>1, <2>2
<1>2. sweep' \in [Sweepers -> Sweeping \cup {SweepIdle}]
  <2>1. CASE NextListing(s)
    <3>1. \A row \in sweep[s].todo :
             /\ [sweep[s] EXCEPT !.todo = @ \ {row}] \in Sweeping
             /\ [sweep[s] EXCEPT !.todo = @ \ {row}, !.cur = row, !.pc = "lookup"] \in Sweeping
      BY <1>0, SweepMoved DEF SweepSteps
    <3>2. QED BY <1>0, <2>1, <3>1 DEF NextListing
  <2>2. CASE Lookup(s)
    <3>1. \A c \in ByFingerprint(Wanted(s)) : c \in Nat
      BY <1>0 DEF ByFingerprint, Canonicals
    <3>2. ASSUME NEW c \in ByFingerprint(Wanted(s)), Choose(s, "conflict", c)
          PROVE  sweep' \in [Sweepers -> Sweeping \cup {SweepIdle}]
      <4>1. PICK new : new = [sweep[s] EXCEPT !.pc = "conflict", !.target = c]
        OBVIOUS
      <4>2. new \in Sweeping
        BY <1>0, <3>1, <4>1, SweepMoved DEF SweepSteps
      <4>3. sweep' = [sweep EXCEPT ![s] = new]
        BY <1>0, <3>2, <4>1 DEF Choose
      <4>4. QED BY <1>0, <4>2, <4>3
    <3>3. QED BY <1>1, <2>2, <3>2 DEF Lookup, SweepSteps
  <2>3. CASE Recount(s)
    BY <1>0, <2>3 DEF Recount
  <2>4. QED
    BY <1>1, <2>1, <2>2, <2>3
       DEF SweepStep, StampFingerprint, CheckConflict, Relink, CountOrphans, DeleteOrphan, FinishSweep,
           SweepSteps
<1>3. raced' \subseteq Sweepers
  BY <1>0 DEF SweepStep, NextListing, Lookup, StampFingerprint, CheckConflict, Relink, CountOrphans,
              DeleteOrphan, FinishSweep, Recount
<1>4. QED BY <1>2, <1>3

\* The store after a sweep's step: one canonical stamped or deleted, or one
\* listing moved.
LEMMA SweepStepStore ==
    ASSUME BackfillInv, NEW s \in Sweepers, SweepStep(s)
    PROVE  StoreTypeOK' /\ LiveFingerprintsDiffer' /\ NoDanglingListing'
<1>0. /\ sweep[s] \in Sweeping /\ StoreTypeOK
      /\ canon \in Seq(CanonRows) /\ listing \in Seq(ListingRows)
      /\ LiveFingerprintsDiffer /\ NoDanglingListing /\ SweepSound(s)
  BY SweepBusy DEF BackfillInv, BackfillTypeOK, IngestTypeOK, StoreTypeOK, SweepsSound
<1>1. CASE UNCHANGED <<canon, listing>>
  BY <1>0, <1>1 DEF StoreTypeOK, LiveFingerprintsDiffer, NoDanglingListing, Canonicals, Listings
<1>2. CASE StampFingerprint(s) /\ canon' # canon
  <2>0. PICK c, fp : c = sweep[s].cur.canonical /\ fp = Wanted(s)
    OBVIOUS
  <2>1. /\ c \in Canonicals /\ ByFingerprint(fp) = {} /\ fp \in Fingerprints
        /\ canon' = [canon EXCEPT ![c].fingerprint = fp]
        /\ listing' = listing
    BY <1>0, <1>2, <2>0, WantedType DEF StampFingerprint, SweepAt
  <2>2. c \in DOMAIN canon /\ canon[c] \in CanonRows
    BY <1>0, <2>1 DEF Canonicals
  <2>3. /\ [canon[c] EXCEPT !.fingerprint = fp] \in CanonRows
        /\ [canon[c] EXCEPT !.fingerprint = fp].fingerprint = fp
        /\ [canon[c] EXCEPT !.fingerprint = fp].live = canon[c].live
    BY <2>1, <2>2 DEF CanonRows
  <2>4. /\ canon' \in Seq(CanonRows)
        /\ DOMAIN canon' = DOMAIN canon
        /\ canon'[c].fingerprint = fp
        /\ \A d \in DOMAIN canon : d # c => canon'[d] = canon[d]
        /\ \A d \in DOMAIN canon : canon'[d].live = canon[d].live
    <3>1. PICK row : row = [canon[c] EXCEPT !.fingerprint = fp]
      OBVIOUS
    <3>2. canon' = [canon EXCEPT ![c] = row]
      BY <1>0, <2>1, <2>2, <3>1
    <3>3. row \in CanonRows /\ row.fingerprint = fp /\ row.live = canon[c].live
      BY <2>3, <3>1
    <3>4. QED BY <1>0, <2>2, <3>2, <3>3, RowPut
  <2>5. Canonicals' = Canonicals /\ Listings' = Listings
    BY <2>1, <2>4 DEF Canonicals, Listings
  <2>6. LiveFingerprintsDiffer'
    <3>1. \A d \in Canonicals : canon[d].fingerprint # fp
      BY <2>1 DEF ByFingerprint
    <3>2. \A d \in Canonicals : d # c => canon'[d].fingerprint = canon[d].fingerprint
      BY <2>4 DEF Canonicals
    <3>3. QED BY <1>0, <2>4, <2>5, <3>1, <3>2 DEF LiveFingerprintsDiffer
  <2>7. QED BY <1>0, <2>1, <2>4, <2>5, <2>6 DEF NoDanglingListing, StoreTypeOK
<1>3. CASE DeleteOrphan(s) /\ canon' # canon
  <2>0. PICK c : c = sweep[s].cur.canonical
    OBVIOUS
  <2>1. /\ c \in Canonicals /\ OfCanonical(c) = {}
        /\ canon' = [canon EXCEPT ![c].live = FALSE]
        /\ listing' = listing
    BY <1>3, <2>0 DEF DeleteOrphan
  <2>2. c \in DOMAIN canon /\ canon[c] \in CanonRows
    BY <1>0, <2>1 DEF Canonicals
  <2>3. [canon[c] EXCEPT !.live = FALSE] \in CanonRows /\ ~[canon[c] EXCEPT !.live = FALSE].live
    BY <2>2 DEF CanonRows
  <2>4. /\ canon' \in Seq(CanonRows)
        /\ DOMAIN canon' = DOMAIN canon
        /\ \A d \in DOMAIN canon : d # c => canon'[d] = canon[d]
        /\ ~canon'[c].live
    <3>1. PICK row : row = [canon[c] EXCEPT !.live = FALSE]
      OBVIOUS
    <3>2. canon' = [canon EXCEPT ![c] = row]
      BY <1>0, <2>1, <2>2, <3>1
    <3>3. row \in CanonRows /\ ~row.live
      BY <2>3, <3>1
    <3>4. QED BY <1>0, <2>2, <3>2, <3>3, RowPut
  <2>5. Canonicals' = Canonicals \ {c} /\ Listings' = Listings
    BY <2>1, <2>4 DEF Canonicals, Listings
  <2>6. LiveFingerprintsDiffer'
    <3>1. \A d \in Canonicals' : d \in Canonicals /\ canon'[d].fingerprint = canon[d].fingerprint
      BY <2>4, <2>5 DEF Canonicals
    <3>2. QED BY <1>0, <3>1 DEF LiveFingerprintsDiffer
  <2>7. NoDanglingListing'
    BY <1>0, <2>1, <2>5 DEF NoDanglingListing, OfCanonical
  <2>8. QED BY <1>0, <2>1, <2>4, <2>6, <2>7 DEF StoreTypeOK
<1>4. CASE Relink(s) /\ listing' # listing
  <2>0. PICK l, c : l = sweep[s].cur.id /\ c = sweep[s].target
    OBVIOUS
  <2>1. /\ l \in Listings /\ c \in Canonicals /\ canon' = canon
        /\ listing' = [listing EXCEPT ![l].canonical = c]
    BY <1>4, <2>0 DEF Relink, MoveAllowed
  <2>2. listing[l] \in ListingRows /\ l \in DOMAIN listing
    BY <1>0, <2>1 DEF Listings
  <2>3. listing[l].attrs \in Attributes
    BY <2>2 DEF ListingRows
  <2>4. [listing[l] EXCEPT !.canonical = c] = [listing[l] EXCEPT !.attrs = listing[l].attrs, !.canonical = c]
    BY <2>2 DEF ListingRows
  <2>5. listing' = [listing EXCEPT ![l].attrs = listing[l].attrs, ![l].canonical = c]
    BY <1>0, <2>1, <2>2, <2>4
  <2>6. QED BY <1>0, <2>1, <2>3, <2>5, MoveKeeps
<1>5. QED
  BY <1>1, <1>2, <1>3, <1>4
     DEF SweepStep, NextListing, Lookup, StampFingerprint, CheckConflict, Relink, CountOrphans,
         DeleteOrphan, FinishSweep, Recount

\* What another sweep has chosen is still right after a step, or it is raced.
LEMMA OtherSweepSound ==
    ASSUME BackfillInv, NEW s \in Sweepers, SweepStep(s), NEW t \in Sweepers, t # s
    PROVE  SweepSound(t)'
<1>0. /\ SweepSound(t) /\ sweep'[t] = sweep[t] /\ canon \in Seq(CanonRows)
      /\ sweep[t] \in Sweeping \cup {SweepIdle} /\ sweep[s] \in Sweeping /\ SweepSound(s)
  BY SweepBusy DEF BackfillInv, BackfillTypeOK, IngestTypeOK, StoreTypeOK, SweepsSound
<1>1. CASE StampFingerprint(s) /\ canon' # canon
  <2>0. PICK c, fp : c = sweep[s].cur.canonical /\ fp = Wanted(s)
    OBVIOUS
  <2>1. /\ c \in Canonicals
        /\ canon' = [canon EXCEPT ![c].fingerprint = fp]
        /\ raced' = raced \cup {u \in Sweepers \ {s} : sweep[u] # SweepIdle /\ sweep[u].target = c}
    BY <1>1, <2>0 DEF StampFingerprint
  <2>2. DOMAIN canon' = DOMAIN canon /\ \A d \in DOMAIN canon : d # c => canon'[d] = canon[d]
    BY <1>0, <2>1
  <2>3. ASSUME sweep[t].pc \in {"conflict", "relink"}
        PROVE  t \in raced' \/ canon'[sweep[t].target].fingerprint = Wanted(t)
    <3>1. sweep[t] # SweepIdle
      BY <2>3 DEF SweepIdle
    <3>2. CASE sweep[t].target = c
      BY <2>1, <3>1, <3>2
    <3>3. CASE sweep[t].target # c
      BY <1>0, <2>1, <2>2, <2>3, <3>3 DEF SweepSound
    <3>4. QED BY <3>2, <3>3
  <2>4. QED BY <1>0, <2>2, <2>3 DEF SweepSound, Wanted
<1>2. CASE /\ DOMAIN canon' = DOMAIN canon
           /\ \A d \in DOMAIN canon : canon'[d].fingerprint = canon[d].fingerprint
           /\ raced \ {s} \subseteq raced'
  BY <1>0, <1>2 DEF SweepSound, Wanted
<1>3. CASE DeleteOrphan(s)
  <2>1. /\ DOMAIN canon' = DOMAIN canon
        /\ \A d \in DOMAIN canon : canon'[d].fingerprint = canon[d].fingerprint
    <3>1. PICK c : c = sweep[s].cur.canonical
      OBVIOUS
    <3>2. CASE canon' = canon
      BY <3>2
    <3>3. CASE c \in Canonicals /\ canon' = [canon EXCEPT ![c].live = FALSE]
      <4>1. c \in DOMAIN canon /\ canon[c] \in CanonRows
        BY <1>0, <3>3 DEF Canonicals
      <4>2. PICK row : row = [canon[c] EXCEPT !.live = FALSE]
        OBVIOUS
      <4>3. row.fingerprint = canon[c].fingerprint
        BY <4>1, <4>2 DEF CanonRows
      <4>4. canon' = [canon EXCEPT ![c] = row]
        BY <1>0, <3>3, <4>1, <4>2
      <4>5. QED BY <4>1, <4>3, <4>4
    <3>4. QED BY <1>3, <3>1, <3>2, <3>3 DEF DeleteOrphan
  <2>2. QED BY <1>2, <1>3, <2>1 DEF DeleteOrphan
<1>4. \/ canon' = canon /\ raced \ {s} \subseteq raced'
      \/ StampFingerprint(s) /\ canon' # canon
      \/ DeleteOrphan(s)
  BY DEF SweepStep, NextListing, Lookup, StampFingerprint, CheckConflict, Relink, CountOrphans,
         FinishSweep, Recount
<1>5. QED BY <1>1, <1>2, <1>3, <1>4

\* And what the sweep itself takes along.
LEMMA OwnSweepSound ==
    ASSUME BackfillInv, NEW s \in Sweepers, SweepStep(s)
    PROVE  SweepSound(s)'
<1>0. /\ sweep[s] \in Sweeping /\ SweepSound(s)
      /\ sweep \in [Sweepers -> Sweeping \cup {SweepIdle}]
      /\ canon \in Seq(CanonRows)
  BY SweepBusy DEF BackfillInv, BackfillTypeOK, IngestTypeOK, StoreTypeOK, SweepsSound
<1>1. CASE sweep'[s].pc \notin {"lookup", "stamp", "conflict", "relink"}
  BY <1>1 DEF SweepSound
<1>2. CASE Continue(s)
  <2>1. sweep'[s].pc = "next"
    BY <1>0, <1>2 DEF Continue, Sweeping
  <2>2. QED BY <1>1, <2>1
<1>3. CASE NextListing(s)
  <2>1. PICK row \in sweep[s].todo :
           IF Fingerprint(row.attrs) = NoValue
             THEN sweep' = [sweep EXCEPT ![s].todo = @ \ {row}]
             ELSE sweep' = [sweep EXCEPT ![s].todo = @ \ {row}, ![s].cur = row, ![s].pc = "lookup"]
    BY <1>3 DEF NextListing
  <2>2. row \in Snapshots /\ sweep[s].pc = "next"
    BY <1>0, <1>3 DEF Sweeping, NextListing, SweepAt
  <2>3. CASE Fingerprint(row.attrs) = NoValue
    <3>1. sweep'[s] = [sweep[s] EXCEPT !.todo = @ \ {row}]
      BY <1>0, <2>1, <2>3
    <3>2. sweep'[s].pc = "next"
      BY <1>0, <2>2, <3>1 DEF Sweeping
    <3>3. QED BY <1>1, <3>2
  <2>4. CASE Fingerprint(row.attrs) # NoValue
    <3>1. sweep'[s] = [sweep[s] EXCEPT !.todo = @ \ {row}, !.cur = row, !.pc = "lookup"]
      BY <1>0, <2>1, <2>4
    <3>2. sweep'[s].pc = "lookup" /\ sweep'[s].cur = row
      BY <1>0, <3>1 DEF Sweeping
    <3>3. QED BY <2>2, <2>4, <3>2 DEF SweepSound, Wanted
  <2>5. QED BY <2>3, <2>4
<1>4. CASE Lookup(s)
  <2>0. sweep[s].pc = "lookup" /\ canon' = canon /\ raced' = raced \ {s}
    BY <1>4 DEF Lookup, SweepAt
  <2>1. CASE SweepGoto(s, "stamp")
    <3>1. sweep'[s].pc = "stamp" /\ sweep'[s].cur = sweep[s].cur
      BY <1>0, <2>1 DEF SweepGoto, Sweeping
    <3>2. QED BY <1>0, <2>0, <3>1 DEF SweepSound, Wanted
  <2>2. ASSUME NEW c \in ByFingerprint(Wanted(s)), Choose(s, "conflict", c)
        PROVE  SweepSound(s)'
    <3>1. sweep'[s].pc = "conflict" /\ sweep'[s].cur = sweep[s].cur /\ sweep'[s].target = c
      BY <1>0, <2>2 DEF Choose, Sweeping
    <3>2. c \in DOMAIN canon /\ canon[c].fingerprint = Wanted(s)
      BY DEF ByFingerprint, Canonicals
    <3>3. QED BY <1>0, <2>0, <3>1, <3>2 DEF SweepSound, Wanted
  <2>3. QED BY <1>2, <1>4, <2>1, <2>2 DEF Lookup
<1>5. CASE CheckConflict(s) /\ SweepGoto(s, "relink")
  <2>1. /\ sweep'[s].pc = "relink" /\ sweep'[s].cur = sweep[s].cur /\ sweep'[s].target = sweep[s].target
        /\ sweep[s].pc = "conflict" /\ canon' = canon /\ raced' = raced
    BY <1>0, <1>5 DEF CheckConflict, SweepGoto, Sweeping, SweepAt
  <2>2. QED BY <1>0, <2>1 DEF SweepSound, Wanted
<1>6. ASSUME NEW pc \in {"orphans", "delete", "recount"}, SweepGoto(s, pc)
      PROVE  SweepSound(s)'
  <2>1. sweep'[s].pc = pc
    BY <1>0, <1>6 DEF SweepGoto, Sweeping
  <2>2. QED BY <1>1, <2>1
<1>7. CASE Recount(s)
  <2>1. sweep'[s].pc = "idle"
    BY <1>0, <1>7 DEF Recount, SweepIdle
  <2>2. QED BY <1>1, <2>1
<1>8. QED
  BY <1>2, <1>3, <1>4, <1>5, <1>6, <1>7
     DEF SweepStep, StampFingerprint, CheckConflict, Relink, CountOrphans, DeleteOrphan, FinishSweep

LEMMA SweepStepSound ==
    ASSUME BackfillInv, NEW s \in Sweepers, SweepStep(s)
    PROVE  BackfillInv'
<1>1. SweepsSound'
  BY OwnSweepSound, OtherSweepSound DEF SweepsSound
<1>2. BackfillTypeOK'
  BY SweepBusy, SweepStepTypes, SweepStepStore DEF BackfillInv, BackfillTypeOK, IngestTypeOK
<1>3. QED BY <1>1, <1>2, SweepStepStore DEF BackfillInv

LEMMA StartSound ==
    ASSUME BackfillInv, NEW s \in Sweepers, StartSweep(s)
    PROVE  BackfillInv'
<1>0. /\ BackfillTypeOK /\ listing \in Seq(ListingRows) /\ SweepsSound
      /\ sweep \in [Sweepers -> Sweeping \cup {SweepIdle}]
      /\ LiveFingerprintsDiffer /\ NoDanglingListing
      /\ UNCHANGED <<canon, listing, worker, jobs, failed, restarts, edits, raced>>
  BY DEF BackfillInv, BackfillTypeOK, IngestTypeOK, StoreTypeOK, StartSweep
<1>1. PICK new : new = [pc |-> "next", todo |-> {Snapshot(l) : l \in Listings},
                        cur |-> NoSnapshot, target |-> 0]
  OBVIOUS
<1>2. ASSUME NEW l \in Listings
      PROVE  Snapshot(l) \in Snapshots
  <2>1. l \in DOMAIN listing /\ l \in Nat /\ listing[l] \in ListingRows
    BY <1>0 DEF Listings
  <2>2. listing[l].ws \in Workspaces /\ listing[l].canonical \in Nat /\ listing[l].attrs \in Attributes
    BY <2>1 DEF ListingRows
  <2>3. QED BY <2>1, <2>2 DEF Snapshot, Snapshots
<1>3. new \in Sweeping /\ new.pc = "next"
  BY <1>1, <1>2 DEF Sweeping, SweepSteps
<1>4. sweep' = [sweep EXCEPT ![s] = new]
  BY <1>1 DEF StartSweep
<1>5. BackfillTypeOK'
  <2>1. sweeps' \in 0..MaxSweeps
    BY <1>0, BackfillAssumption DEF StartSweep, BackfillTypeOK
  <2>2. QED BY <1>0, <1>3, <1>4, <2>1 DEF BackfillTypeOK, IngestTypeOK, StoreTypeOK
<1>6. SweepsSound'
  <2>1. sweep'[s].pc = "next" /\ \A t \in Sweepers \ {s} : sweep'[t] = sweep[t]
    BY <1>0, <1>3, <1>4
  <2>2. ASSUME NEW t \in Sweepers PROVE SweepSound(t)'
    <3>1. CASE t = s
      BY <2>1, <3>1 DEF SweepSound
    <3>2. CASE t # s
      <4>1. sweep'[t] = sweep[t] /\ SweepSound(t)
        BY <1>0, <2>1, <3>2 DEF SweepsSound
      <4>2. QED BY <1>0, <4>1 DEF SweepSound, Wanted
    <3>3. QED BY <3>1, <3>2
  <2>3. QED BY <2>2 DEF SweepsSound
<1>7. QED
  BY <1>0, <1>5, <1>6 DEF BackfillInv, LiveFingerprintsDiffer, NoDanglingListing, Canonicals, Listings

\* A step that leaves the canonicals where they were, and the sweeps with what
\* they held.
LEMMA SoundKept ==
    ASSUME SweepsSound, Kept, UNCHANGED <<sweep, raced>>
    PROVE  SweepsSound'
  BY DEF SweepsSound, SweepSound, Kept, Wanted

\* What others do meanwhile.
LEMMA OthersSound ==
    ASSUME BackfillInv, Others
    PROVE  BackfillInv'
<1>0. /\ BackfillTypeOK /\ IngestTypeOK /\ StoreTypeOK
      /\ LiveFingerprintsDiffer /\ NoDanglingListing /\ SweepsSound
  BY DEF BackfillInv, BackfillTypeOK, IngestTypeOK
<1>1. CASE Running /\ UNCHANGED <<sweep, sweeps, edits, raced>>
  <2>1. IngestTypeOK'
    BY <1>0, <1>1, TypeStep DEF Next
  <2>2. Kept /\ LiveFingerprintsDiffer' /\ NoDanglingListing'
    BY <1>0, <1>1, Statements, StatementsKeep
  <2>3. SweepsSound'
    BY <1>0, <1>1, <2>2, SoundKept
  <2>4. QED BY <1>0, <1>1, <2>1, <2>2, <2>3 DEF BackfillInv, BackfillTypeOK
<1>2. ASSUME NEW l \in Listings, NEW a \in Items, NEW c \in Canonicals, EditListing(l, a, c)
      PROVE  BackfillInv'
  <2>1. /\ listing' = [listing EXCEPT ![l].attrs = a, ![l].canonical = c]
        /\ UNCHANGED <<canon, worker, jobs, failed, restarts, sweep, sweeps, raced>>
        /\ a \in Attributes
    BY <1>2, IngestAssumption DEF EditListing
  <2>2. StoreTypeOK' /\ LiveFingerprintsDiffer' /\ NoDanglingListing'
    BY <1>0, <2>1, MoveKeeps
  <2>3. SweepsSound'
    BY <1>0, <2>1, SoundKept DEF Kept
  <2>4. edits' \in 0..MaxEdits
    BY <1>0, <1>2, BackfillAssumption DEF EditListing, BackfillTypeOK
  <2>5. BackfillTypeOK'
    BY <1>0, <2>1, <2>2, <2>4 DEF BackfillTypeOK, IngestTypeOK
  <2>6. QED BY <2>2, <2>3, <2>5 DEF BackfillInv
<1>3. QED BY <1>1, <1>2 DEF Others

LEMMA BackfillStep ==
    ASSUME BackfillInv, [BackfillNext]_backfillVars
    PROVE  BackfillInv'
<1>1. CASE UNCHANGED backfillVars
  BY <1>1 DEF backfillVars, BackfillInv, BackfillTypeOK, IngestTypeOK, StoreTypeOK, LiveFingerprintsDiffer,
              NoDanglingListing, Canonicals, Listings, SweepsSound, SweepSound, Wanted
<1>2. QED
  BY <1>1, SweepStepSound, StartSound, OthersSound DEF BackfillNext

(* The inductive invariant of the sweeps: live canonicals have different   *)
(* fingerprints, live listings have their canonical, and what a sweep has  *)
(* chosen is still right when it writes unless another has overtaken it.   *)
THEOREM BackfillInvariance == BackfillSpec => []BackfillInv
<1>1. BackfillInit => BackfillInv
  <2> SUFFICES ASSUME BackfillInit PROVE BackfillInv
    OBVIOUS
  <2>1. IngestTypeOK
    BY IngestAssumption DEF BackfillInit, Init, IngestTypeOK, StoreTypeOK, StoreInit, Failures
  <2>2. BackfillTypeOK
    BY <2>1, BackfillAssumption DEF BackfillInit, BackfillTypeOK
  <2>3. Canonicals = {} /\ Listings = {}
    BY DEF BackfillInit, Init, StoreInit, Canonicals, Listings
  <2>4. SweepsSound
    BY DEF BackfillInit, SweepsSound, SweepSound, SweepIdle
  <2>5. QED
    BY <2>2, <2>3, <2>4 DEF BackfillInv, LiveFingerprintsDiffer, NoDanglingListing
<1>2. BackfillInv /\ [BackfillNext]_backfillVars => BackfillInv'
  BY BackfillStep
<1>3. QED
  BY <1>1, <1>2, PTL DEF BackfillSpec

(* Types of the sweeps and of what runs beside them.                       *)
THEOREM BackfillTypes == BackfillSpec => []BackfillTypeOK
<1>1. BackfillInv => BackfillTypeOK
  BY DEF BackfillInv
<1>2. QED BY <1>1, BackfillInvariance, PTL

(* Whatever is ingested, entered, edited, moved or deleted during any      *)
(* number of sweeps, every live listing keeps a live canonical.            *)
THEOREM NothingDangles == BackfillSpec => []NoDanglingListing
<1>1. BackfillInv => NoDanglingListing
  BY DEF BackfillInv
<1>2. QED BY <1>1, BackfillInvariance, PTL

-----------------------------------------------------------------------------
(* Relinking                                                               *)

(* A sweep moves a listing only to a canonical with the fingerprint it     *)
(* computed for it, from one without, however stale the lookups are,       *)
(* unless another sweep restamped the target in between.                   *)
THEOREM RelinksFollow == BackfillSpec => RelinkFollowsFingerprint
<1>1. ASSUME BackfillInv, NEW s \in Sweepers, NEW l \in Listings, SweepStep(s),
             listing'[l].canonical # listing[l].canonical
      PROVE  /\ l = sweep[s].cur.id
             /\ s \in raced \/
                   /\ canon[listing'[l].canonical].fingerprint = Wanted(s)
                   /\ canon[listing[l].canonical].fingerprint # Wanted(s)
  <2>0. /\ listing \in Seq(ListingRows) /\ l \in DOMAIN listing /\ listing[l] \in ListingRows
        /\ SweepSound(s) /\ LiveFingerprintsDiffer /\ NoDanglingListing
    BY <1>1 DEF BackfillInv, BackfillTypeOK, IngestTypeOK, StoreTypeOK, Listings, SweepsSound
  <2>1. /\ Relink(s) /\ MoveAllowed(sweep[s].cur.id, sweep[s].target)
        /\ listing' = [listing EXCEPT ![sweep[s].cur.id].canonical = sweep[s].target]
    BY <1>1 DEF SweepStep, NextListing, Lookup, StampFingerprint, CheckConflict, Relink, CountOrphans,
                DeleteOrphan, FinishSweep, Recount
  <2>2. l = sweep[s].cur.id
    BY <1>1, <2>0, <2>1
  <2>3. listing'[l].canonical = sweep[s].target
    <3>1. [listing[l] EXCEPT !.canonical = sweep[s].target].canonical = sweep[s].target
      BY <2>0 DEF ListingRows
    <3>2. QED BY <2>0, <2>1, <2>2, <3>1
  <2>4. s \in raced \/ canon[sweep[s].target].fingerprint = Wanted(s)
    BY <2>0, <2>1 DEF SweepSound, Relink, SweepAt
  <2>5. Wanted(s) # NoValue
    BY <2>0, <2>1 DEF SweepSound, Relink, SweepAt
  <2>6. sweep[s].target \in Canonicals /\ listing[l].canonical \in Canonicals
    BY <1>1, <2>0, <2>1 DEF MoveAllowed, NoDanglingListing
  <2>7. CASE canon[sweep[s].target].fingerprint = Wanted(s)
    <3>1. canon[listing[l].canonical].fingerprint # Wanted(s)
      BY <1>1, <2>0, <2>3, <2>5, <2>6, <2>7 DEF LiveFingerprintsDiffer
    <3>2. QED BY <2>2, <2>3, <2>7, <3>1
  <2>8. QED BY <2>2, <2>4, <2>7
<1>2. BackfillInv =>
         \A s \in Sweepers, l \in Listings :
            /\ SweepStep(s)
            /\ listing'[l].canonical # listing[l].canonical
            => /\ l = sweep[s].cur.id
               /\ s \in raced \/
                     /\ canon[listing'[l].canonical].fingerprint = Wanted(s)
                     /\ canon[listing[l].canonical].fingerprint # Wanted(s)
  BY <1>1
<1>3. QED
  BY <1>2, BackfillInvariance, PTL DEF BackfillSpec, RelinkFollowsFingerprint

============================================================================
