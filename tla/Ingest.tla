------------------------------- MODULE Ingest -------------------------------
(***************************************************************************)
(* How listings enter the store.  Each worker is one execution of the body *)
(* of createFromAi's loop (one property of one message, for one workspace) *)
(* or of ListingsService.create (a broker's form).  Every database call is *)
(* a step of its own, so the reads of one worker interleave with the       *)
(* writes of the others: requests, the WhatsApp sockets and the            *)
(* subscription backfills all run concurrently in the one process.         *)
(***************************************************************************)
EXTENDS CanonicalStore

CONSTANTS
    Workers,        \* concurrent executions
    Items,          \* what the parser returns and brokers enter
    MaxJobs,        \* bound on the number of jobs begun in a behaviour
    MaxRestarts     \* bound on how often the process stops and starts again

ASSUME IngestAssumption ==
    /\ Items \subseteq Attributes
    /\ MaxJobs \in Nat /\ MaxRestarts \in Nat

VARIABLES
    worker,         \* the local state of each execution
    jobs,           \* jobs begun so far
    failed,         \* the failures reported: LISTING_CREATE_FAILED entries of the
                    \* ingestion log and, for forms, errors shown to the broker
    restarts        \* how often the process has stopped

vars == <<canon, listing, worker, jobs, failed, restarts>>

-----------------------------------------------------------------------------

Steps == {"find", "count", "create", "check", "touch", "upsert", "attach",
          "formFind", "formCreate", "formInsert"}

\* Steps at which an execution has found or made its canonical.
ResolvedSteps == {"check", "touch", "upsert", "attach", "formInsert"}

Idle == [pc |-> "idle"]

Busy == [pc : Steps, ws : Workspaces, item : Attributes,
         canonical : Nat, code : Nat, target : Nat]

Failures == [ws : Workspaces, item : Attributes, at : Steps]

\* Types: each execution of ingestListing is idle or holds its item and the
\* values it has read; the store's rows keep the schema's shape.
IngestTypeOK ==
    /\ StoreTypeOK
    /\ worker \in [Workers -> Busy \cup {Idle}]
    /\ jobs \in 0..MaxJobs
    /\ failed \subseteq Failures
    /\ restarts \in 0..MaxRestarts

Init ==
    /\ StoreInit
    /\ worker = [w \in Workers |-> Idle]
    /\ jobs = 0
    /\ failed = {}
    /\ restarts = 0

At(w, pc) == worker[w].pc = pc

Goto(w, pc) == worker' = [worker EXCEPT ![w].pc = pc]

Done(w) == worker' = [worker EXCEPT ![w] = Idle]

\* Mutant: the catch neither logs nor rethrows.
GiveUpSilently(w) == Done(w) /\ UNCHANGED failed

\* The catch of the loop body logs the item and gives it up; the form's error
\* goes back to the broker.
GiveUp(w) ==
    /\ failed' = failed \cup {[ws |-> worker[w].ws, item |-> worker[w].item, at |-> worker[w].pc]}
    /\ Done(w)

Begin(w, ws, item, pc) ==
    /\ At(w, "idle")
    /\ jobs < MaxJobs
    /\ jobs' = jobs + 1
    /\ worker' = [worker EXCEPT ![w] =
                    [pc |-> pc, ws |-> ws, item |-> item, canonical |-> 0, code |-> 0, target |-> 0]]
    /\ UNCHANGED <<canon, listing, failed, restarts>>

-----------------------------------------------------------------------------
(* createFromAi, with resolveOrCreateCanonical *)

BeginItem(w, ws, item) == Begin(w, ws, item, "find")

\* findUnique on the fingerprint; an item without one always gets a new row.
FindCanonical(w) ==
    LET fp == Fingerprint(worker[w].item) IN
    /\ At(w, "find")
    /\ \/ /\ fp # NoValue
          /\ \E c \in ByFingerprint(fp) :
                worker' = [worker EXCEPT ![w].pc = "check", ![w].canonical = c]
       \/ /\ fp = NoValue \/ ByFingerprint(fp) = {}
          /\ Goto(w, "count")
    /\ UNCHANGED <<canon, listing, jobs, failed, restarts>>

\* nextGlobalRefCode: a count, read before the insert that uses it.
CountCanonicals(w) ==
    /\ At(w, "count")
    /\ worker' = [worker EXCEPT ![w].pc = "create", ![w].code = NextGlobalRefCode]
    /\ UNCHANGED <<canon, listing, jobs, failed, restarts>>

CreateCanonical(w) ==
    LET fp == Fingerprint(worker[w].item)
        code == worker[w].code IN
    /\ At(w, "create")
    /\ \/ /\ CanonInsertAllowed(fp, code)
          /\ canon' = Append(canon, CanonRow(fp, code))
          /\ worker' = [worker EXCEPT ![w].pc = "check", ![w].canonical = Len(canon) + 1]
          /\ UNCHANGED failed
       \/ /\ ~CanonInsertAllowed(fp, code)
          /\ GiveUp(w)
          /\ UNCHANGED canon
    /\ UNCHANGED <<listing, jobs, restarts>>

\* findFirst on (workspace, canonical).
CheckListing(w) ==
    LET found == ByWsCanonical(worker[w].ws, worker[w].canonical) IN
    /\ At(w, "check")
    /\ \/ \E l \in found : worker' = [worker EXCEPT ![w].pc = "touch", ![w].target = l]
       \/ found = {} /\ Goto(w, "upsert")
    /\ UNCHANGED <<canon, listing, jobs, failed, restarts>>

\* lastSeenAt of the listing found; a row deleted meanwhile makes the update
\* throw.
TouchListing(w) ==
    /\ At(w, "touch")
    /\ IF worker[w].target \in Listings
         THEN Goto(w, "attach") /\ UNCHANGED failed
         ELSE GiveUp(w)
    /\ UNCHANGED <<canon, listing, jobs, restarts>>

\* Mutant: an item without a bedroom count is dropped after its canonical.
UpsertOnlyWithBhk(w) ==
    LET c == worker[w].canonical
        item == worker[w].item IN
    /\ At(w, "upsert")
    /\ IF item.bhk # NoValue /\ ListingInsertAllowed(worker[w].ws, c)
         THEN listing' = Append(listing, ListingRow(worker[w].ws, c, Stored(item), item))
         ELSE UNCHANGED listing
    /\ Done(w)
    /\ UNCHANGED <<canon, jobs, failed, restarts>>

\* The upsert on (workspace, canonical): it creates, or refreshes a row
\* another execution created since the check, or violates the foreign key.
\* (A price or an area it refuses is a failure of Fail.)
UpsertListing(w) ==
    LET ws == worker[w].ws
        c  == worker[w].canonical
        item == worker[w].item IN
    /\ At(w, "upsert")
    /\ \/ /\ ListingInsertAllowed(ws, c)
          /\ listing' = Append(listing, ListingRow(ws, c, Stored(item), item))
          /\ worker' = [worker EXCEPT ![w].pc = "attach", ![w].target = Len(listing) + 1]
          /\ UNCHANGED failed
       \/ /\ \E l \in ByWsCanonical(ws, c) :
                worker' = [worker EXCEPT ![w].pc = "attach", ![w].target = l]
          /\ UNCHANGED <<listing, failed>>
       \/ /\ c \notin Canonicals
          /\ GiveUp(w)
          /\ UNCHANGED listing
    /\ UNCHANGED <<canon, jobs, restarts>>

WithPhones(row, known) ==
    [row EXCEPT !.attrs = [row.attrs EXCEPT !.phones = row.attrs.phones \cup known]]

\* attachAgentsToListing: the agents of the contacts and of the text, with
\* whatever numbers they are known by, or none (module Agents has its steps).
\* A listing deleted meanwhile refuses an agent; without agents nobody notices.
AttachAgents(w) ==
    LET l == worker[w].target IN
    /\ At(w, "attach")
    /\ \/ /\ l \in Listings
          /\ \E known \in SUBSET Phones :
                listing' = [listing EXCEPT ![l] = WithPhones(listing[l], known)]
          /\ Done(w)
          /\ UNCHANGED failed
       \/ /\ l \notin Listings
          /\ GiveUp(w) \/ (Done(w) /\ UNCHANGED failed)
          /\ UNCHANGED listing
    /\ UNCHANGED <<canon, jobs, restarts>>

-----------------------------------------------------------------------------
(* ListingsService.create, with DedupService.resolveOrCreate.  The form has *)
(* a listing type, so there is always a fingerprint, the contacts in it;   *)
(* the attributes are stored as entered, and no agent is attached.  The    *)
(* canonical is created outside the transaction that holds the listing.    *)

BeginForm(w, ws, form) == form.place # NoValue /\ Begin(w, ws, form, "formFind")

FormFindCanonical(w) ==
    LET found == ByFingerprint(Fingerprint(worker[w].item)) IN
    /\ At(w, "formFind")
    /\ \/ \E c \in found :
            worker' = [worker EXCEPT ![w].pc = "formInsert", ![w].canonical = c]
       \/ found = {} /\ Goto(w, "formCreate")
    /\ UNCHANGED <<canon, listing, jobs, failed, restarts>>

FormCreateCanonical(w) ==
    LET fp == Fingerprint(worker[w].item) IN
    /\ At(w, "formCreate")
    /\ \/ /\ CanonInsertAllowed(fp, RandomCode)
          /\ canon' = Append(canon, CanonRow(fp, RandomCode))
          /\ worker' = [worker EXCEPT ![w].pc = "formInsert", ![w].canonical = Len(canon) + 1]
          /\ UNCHANGED failed
       \/ /\ ~CanonInsertAllowed(fp, RandomCode)
          /\ GiveUp(w)
          /\ UNCHANGED canon
    /\ UNCHANGED <<listing, jobs, restarts>>

FormInsertListing(w) ==
    LET ws == worker[w].ws
        c  == worker[w].canonical
        form == worker[w].item IN
    /\ At(w, "formInsert")
    /\ \/ /\ ListingInsertAllowed(ws, c)
          /\ listing' = Append(listing, ListingRow(ws, c, [form EXCEPT !.phones = {}], form))
          /\ Done(w)
          /\ UNCHANGED failed
       \/ /\ ~ListingInsertAllowed(ws, c)
          /\ GiveUp(w)
          /\ UNCHANGED listing
    /\ UNCHANGED <<canon, jobs, restarts>>

-----------------------------------------------------------------------------

\* DELETE of a listing by its broker.
DeleteListing(l) ==
    /\ l \in Listings
    /\ listing' = [listing EXCEPT ![l].live = FALSE]
    /\ UNCHANGED <<canon, worker, jobs, failed, restarts>>

\* Any step may fail: BigInt refuses a price with a fraction, the column an
\* area with one, and the database may not answer.
Fail(w) ==
    /\ worker[w] # Idle
    /\ GiveUp(w)
    /\ UNCHANGED <<canon, listing, jobs, restarts>>

IngestStep(w) ==
    \/ FindCanonical(w) \/ CountCanonicals(w) \/ CreateCanonical(w)
    \/ CheckListing(w)  \/ TouchListing(w)    \/ UpsertListing(w) \/ AttachAgents(w)
    \/ FormFindCanonical(w) \/ FormCreateCanonical(w) \/ FormInsertListing(w)
    \/ Fail(w)

\* The process stops and starts again: what was running is gone, without a
\* trace in the log, and nothing resumes it.
Restart ==
    /\ restarts < MaxRestarts
    /\ restarts' = restarts + 1
    /\ worker' = [w \in Workers |-> Idle]
    /\ UNCHANGED <<canon, listing, jobs, failed>>

\* What happens while the process runs.
Running ==
    \/ \E w \in Workers, ws \in Workspaces, a \in Items :
          BeginItem(w, ws, a) \/ BeginForm(w, ws, a)
    \/ \E w \in Workers : IngestStep(w)
    \/ \E l \in Listings : DeleteListing(l)

Next == Running \/ Restart

Spec == Init /\ [][Next]_vars

-----------------------------------------------------------------------------
(* Properties *)

\* A firm never holds two listings of one property: two live listings of a
\* workspace never come from items with the same fingerprint, whatever the
\* interleaving of ingestions, forms and deletions and wherever the process
\* stops.
\* (findUnique/create against @unique(fingerprint), then findFirst/upsert
\* against @@unique([workspaceId, canonicalPropertyId]).)
OneListingPerProperty ==
    \A l1, l2 \in Listings :
        /\ l1 # l2
        /\ listing[l1].ws = listing[l2].ws
        /\ Fingerprint(listing[l1].source) # NoValue
        => Fingerprint(listing[l1].source) # Fingerprint(listing[l2].source)

\* The code nextGlobalRefCode would hand out now is not taken, so an execution
\* that meets no rival can always create a canonical row.
NextCodeFree == ~CodeTaken(NextGlobalRefCode)

\* A canonical row that never had a listing is not there unnoticed: an
\* execution that resolved to it has yet to insert one, or one with its
\* fingerprint failed and was reported, after which the row stays for good.
\* (The two inserts are calls apart, in createFromAi and, despite its
\* transaction, in create; a process that stops in between reports nothing.)
OrphansReported ==
    restarts = 0 =>
    \A c \in Canonicals :
        \/ \E l \in DOMAIN listing : listing[l].canonical = c
        \/ \E w \in Workers :
              /\ worker[w] # Idle
              /\ worker[w].canonical = c
        \/ \E f \in failed : Fingerprint(f.item) = canon[c].fingerprint

\* Nothing is dropped silently while the process runs: when an execution is
\* through with its listing, its workspace has a live one on a canonical with
\* the item's fingerprint, or the failure is reported.
EndsListedOrLogged(w) ==
    /\ worker[w].pc \notin {"idle", "attach"}
    /\ worker'[w].pc \in {"idle", "attach"}
    => \/ [ws |-> worker[w].ws, item |-> worker[w].item, at |-> worker[w].pc] \in failed'
       \/ \E l \in Listings' :
             /\ listing'[l].ws = worker[w].ws
             /\ canon'[listing'[l].canonical].fingerprint = Fingerprint(worker[w].item)

ListedOrLogged == [][Restart \/ \A w \in Workers : EndsListedOrLogged(w)]_vars

-----------------------------------------------------------------------------
(* Why the properties hold: the inductive invariant.                        *)

\* Nothing in this module deletes a canonical or changes its fingerprint, and
\* codes never run ahead of the row count.
CanonsConsistent ==
    /\ \A c \in DOMAIN canon : canon[c].live /\ canon[c].refCode <= Len(canon)
    /\ \A c1, c2 \in DOMAIN canon :
          c1 # c2 /\ canon[c1].fingerprint # NoValue
          => canon[c1].fingerprint # canon[c2].fingerprint

\* A listing hangs on the canonical of the item it came from.
ListingsConsistent ==
    /\ \A l \in DOMAIN listing :
          /\ listing[l].canonical \in DOMAIN canon
          /\ canon[listing[l].canonical].fingerprint = Fingerprint(listing[l].source)
    /\ \A l1, l2 \in Listings :
          l1 # l2 /\ listing[l1].ws = listing[l2].ws
          => listing[l1].canonical # listing[l2].canonical

\* What an execution carries from one call to the next is still true when it
\* is used, except that its target may have been deleted.
Resolved(w) ==
    /\ worker[w].pc \in Steps \ ResolvedSteps => worker[w].canonical = 0
    /\ worker[w].pc = "create" => worker[w].code <= Len(canon) + 1
    /\ worker[w].pc \in ResolvedSteps =>
          /\ worker[w].canonical \in DOMAIN canon
          /\ canon[worker[w].canonical].fingerprint = Fingerprint(worker[w].item)
    /\ worker[w].pc \in {"touch", "attach"} =>
          /\ worker[w].target \in DOMAIN listing
          /\ listing[worker[w].target].ws = worker[w].ws
          /\ listing[worker[w].target].canonical = worker[w].canonical

WorkersResolved == \A w \in Workers : Resolved(w)

\* The inductive invariant: the types, the canonicals' and the listings' relations
\* and what each running execution knows of the rows it has chosen.
IngestInv == IngestTypeOK /\ CanonsConsistent /\ ListingsConsistent /\ WorkersResolved

=============================================================================
