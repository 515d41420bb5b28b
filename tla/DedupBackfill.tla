--------------------------- MODULE DedupBackfill ----------------------------
(***************************************************************************)
(* DedupService.runBackfill, the admin's sweep over every listing, running *)
(* against the live system: ingestion (module Ingest) and the brokers'     *)
(* edits go on while it walks a snapshot it read at the start.             *)
(*                                                                         *)
(* A sweep recomputes each listing's fingerprint from what is STORED, after *)
(* normalizeBhk and with the numbers of the agents attached, whereas       *)
(* ingestion and the form computed it from what they were given.  Nothing  *)
(* keeps two sweeps apart: each request of the admin runs one.             *)
(* listingCount is left out: no decision reads it.  So is the process      *)
(* stopping, which for a sweep is the same as going no further.            *)
(***************************************************************************)
EXTENDS Ingest

CONSTANTS
    Sweepers,       \* requests that may sweep at the same time
    MaxSweeps,      \* bound on the sweeps started
    MaxEdits        \* bound on the brokers' edits

ASSUME BackfillAssumption == MaxSweeps \in Nat /\ MaxEdits \in Nat

VARIABLES
    sweep,          \* the local state of each sweep
    sweeps, edits,  \* how many there have been
    raced           \* history: sweeps whose target was restamped since they chose it

backfillVars == <<canon, listing, worker, jobs, failed, restarts, sweep, sweeps, edits, raced>>

-----------------------------------------------------------------------------

SweepSteps == {"next", "lookup", "stamp", "conflict", "relink", "orphans", "delete", "recount"}

\* What the snapshot has of a listing.
Snapshots == [id : Nat, ws : Workspaces, canonical : Nat, attrs : Attributes]

Snapshot(l) ==
    [id |-> l, ws |-> listing[l].ws, canonical |-> listing[l].canonical, attrs |-> listing[l].attrs]

NoSnapshot == [id |-> 0]

SweepIdle == [pc |-> "idle"]

Sweeping == [pc : SweepSteps, todo : SUBSET Snapshots,
             cur : Snapshots \cup {NoSnapshot}, target : Nat]

\* Types: each sweep is idle or holds the listing it works on and the
\* canonical it chose; the store and the executions are typed as in Ingest.
BackfillTypeOK ==
    /\ IngestTypeOK
    /\ sweep \in [Sweepers -> Sweeping \cup {SweepIdle}]
    /\ sweeps \in 0..MaxSweeps
    /\ edits \in 0..MaxEdits
    /\ raced \subseteq Sweepers

BackfillInit ==
    /\ Init
    /\ sweep = [s \in Sweepers |-> SweepIdle]
    /\ sweeps = 0
    /\ edits = 0
    /\ raced = {}

SweepAt(s, pc) == sweep[s].pc = pc

SweepGoto(s, pc) == sweep' = [sweep EXCEPT ![s].pc = pc]

Choose(s, pc, c) == sweep' = [sweep EXCEPT ![s].pc = pc, ![s].target = c]

Continue(s) == sweep' = [sweep EXCEPT ![s].pc = "next", ![s].cur = NoSnapshot, ![s].target = 0]

Wanted(s) == Fingerprint(sweep[s].cur.attrs)

-----------------------------------------------------------------------------
(* runBackfill *)

StartSweep(s) ==
    /\ sweep[s] = SweepIdle
    /\ sweeps < MaxSweeps
    /\ sweeps' = sweeps + 1
    /\ sweep' = [sweep EXCEPT ![s] =
                    [pc |-> "next", todo |-> {Snapshot(l) : l \in Listings},
                     cur |-> NoSnapshot, target |-> 0]]
    /\ UNCHANGED <<canon, listing, worker, jobs, failed, restarts, edits, raced>>

\* The next listing of the snapshot, in the order the database returned them;
\* one whose attributes are all empty is skipped.
NextListing(s) ==
    /\ SweepAt(s, "next")
    /\ \E row \in sweep[s].todo :
          IF Fingerprint(row.attrs) = NoValue
            THEN sweep' = [sweep EXCEPT ![s].todo = @ \ {row}]
            ELSE sweep' = [sweep EXCEPT ![s].todo = @ \ {row}, ![s].cur = row, ![s].pc = "lookup"]
    /\ UNCHANGED <<canon, listing, worker, jobs, failed, restarts, sweeps, edits, raced>>

\* Mutant: any canonical of the place will do.
LookupByPlace(s) ==
    /\ SweepAt(s, "lookup")
    /\ \E c \in Canonicals :
          /\ canon[c].fingerprint # NoValue
          /\ canon[c].fingerprint[1] = Wanted(s)[1]
          /\ IF c = sweep[s].cur.canonical THEN Continue(s) ELSE Choose(s, "conflict", c)
    /\ raced' = raced \ {s}
    /\ UNCHANGED <<canon, listing, worker, jobs, failed, restarts, sweeps, edits>>

Lookup(s) ==
    LET found == ByFingerprint(Wanted(s)) IN
    /\ SweepAt(s, "lookup")
    /\ \/ found = {} /\ SweepGoto(s, "stamp")
       \/ sweep[s].cur.canonical \in found /\ Continue(s)
       \/ \E c \in found \ {sweep[s].cur.canonical} : Choose(s, "conflict", c)
    /\ raced' = raced \ {s}
    /\ UNCHANGED <<canon, listing, worker, jobs, failed, restarts, sweeps, edits>>

\* Mutant: the place alone is stamped.
StampPlace(s) ==
    LET c == sweep[s].cur.canonical IN
    /\ SweepAt(s, "stamp")
    /\ canon' = IF c \in Canonicals THEN [canon EXCEPT ![c].fingerprint = Wanted(s)[1]] ELSE canon
    /\ Continue(s)
    /\ UNCHANGED <<listing, worker, jobs, failed, restarts, sweeps, edits, raced>>

\* No canonical has the fingerprint: the one the listing pointed to when the
\* snapshot was read gets it, in place of the one it had.
StampFingerprint(s) ==
    LET c == sweep[s].cur.canonical IN
    /\ SweepAt(s, "stamp")
    /\ \/ /\ c \in Canonicals /\ ByFingerprint(Wanted(s)) = {}
          /\ canon' = [canon EXCEPT ![c].fingerprint = Wanted(s)]
          /\ raced' = raced \cup {t \in Sweepers \ {s} : sweep[t] # SweepIdle /\ sweep[t].target = c}
       \/ /\ c \notin Canonicals \/ ByFingerprint(Wanted(s)) # {}
          /\ UNCHANGED <<canon, raced>>
    /\ Continue(s)
    /\ UNCHANGED <<listing, worker, jobs, failed, restarts, sweeps, edits>>

\* The workspace already has a listing of the target: reported, left alone.
CheckConflict(s) ==
    /\ SweepAt(s, "conflict")
    /\ IF ByWsCanonical(sweep[s].cur.ws, sweep[s].target) \ {sweep[s].cur.id} # {}
         THEN Continue(s)
         ELSE SweepGoto(s, "relink")
    /\ UNCHANGED <<canon, listing, worker, jobs, failed, restarts, sweeps, edits, raced>>

\* What the keys allow: the listing and its new canonical are there, and no
\* other listing of the workspace is on it.
MoveAllowed(l, c) ==
    /\ l \in Listings
    /\ c \in Canonicals
    /\ ByWsCanonical(listing[l].ws, c) \subseteq {l}

\* Refused when the listing or the target is gone, or when the workspace has
\* listed the target since the check.
Relink(s) ==
    /\ SweepAt(s, "relink")
    /\ IF MoveAllowed(sweep[s].cur.id, sweep[s].target)
         THEN /\ listing' = [listing EXCEPT ![sweep[s].cur.id].canonical = sweep[s].target]
              /\ SweepGoto(s, "orphans")
         ELSE UNCHANGED listing /\ Continue(s)
    /\ UNCHANGED <<canon, worker, jobs, failed, restarts, sweeps, edits, raced>>

CountOrphans(s) ==
    /\ SweepAt(s, "orphans")
    /\ IF OfCanonical(sweep[s].cur.canonical) = {} THEN SweepGoto(s, "delete") ELSE Continue(s)
    /\ UNCHANGED <<canon, listing, worker, jobs, failed, restarts, sweeps, edits, raced>>

\* Mutant: no foreign key, the count alone is trusted.
DeleteCounted(s) ==
    /\ SweepAt(s, "delete")
    /\ canon' = [canon EXCEPT ![sweep[s].cur.canonical].live = FALSE]
    /\ Continue(s)
    /\ UNCHANGED <<listing, worker, jobs, failed, restarts, sweeps, edits, raced>>

\* The delete is refused by the foreign key of a listing, and by those of the
\* deals and duplicate links, which this module does not hold; the error is
\* swallowed.
DeleteOrphan(s) ==
    LET old == sweep[s].cur.canonical IN
    /\ SweepAt(s, "delete")
    /\ \/ /\ OfCanonical(old) = {}
          /\ old \in Canonicals
          /\ canon' = [canon EXCEPT ![old].live = FALSE]
       \/ UNCHANGED canon
    /\ Continue(s)
    /\ UNCHANGED <<listing, worker, jobs, failed, restarts, sweeps, edits, raced>>

FinishSweep(s) ==
    /\ SweepAt(s, "next")
    /\ sweep[s].todo = {}
    /\ SweepGoto(s, "recount")
    /\ UNCHANGED <<canon, listing, worker, jobs, failed, restarts, sweeps, edits, raced>>

\* recomputeListingCounts
Recount(s) ==
    /\ SweepAt(s, "recount")
    /\ sweep' = [sweep EXCEPT ![s] = SweepIdle]
    /\ UNCHANGED <<canon, listing, worker, jobs, failed, restarts, sweeps, edits, raced>>

SweepStep(s) ==
    \/ NextListing(s) \/ Lookup(s) \/ StampFingerprint(s) \/ CheckConflict(s) \/ Relink(s)
    \/ CountOrphans(s) \/ DeleteOrphan(s) \/ FinishSweep(s) \/ Recount(s)

-----------------------------------------------------------------------------

\* A broker's PATCH of a listing, the attachment or the loss of an agent, or
\* the return to an earlier version: any attribute, possibly to null; and, the
\* body of the PATCH and the version being written whole, its canonical.
EditListing(l, attrs, c) ==
    /\ MoveAllowed(l, c)
    /\ edits < MaxEdits
    /\ edits' = edits + 1
    /\ listing' = [listing EXCEPT ![l].attrs = attrs, ![l].canonical = c]
    /\ UNCHANGED <<canon, worker, jobs, failed, restarts, sweep, sweeps, raced>>

Others ==
    \/ Running /\ UNCHANGED <<sweep, sweeps, edits, raced>>
    \/ \E l \in Listings, a \in Items, c \in Canonicals : EditListing(l, a, c)

BackfillNext == Others \/ \E s \in Sweepers : StartSweep(s) \/ SweepStep(s)

BackfillSpec == BackfillInit /\ [][BackfillNext]_backfillVars

-----------------------------------------------------------------------------
(* Properties *)

\* Every live listing points to a live canonical row, although the sweeps
\* delete rows on the strength of a count they read a step earlier.
NoDanglingListing == \A l \in Listings : listing[l].canonical \in Canonicals

\* A sweep moves only the listing it works on, only to a canonical that carries
\* the fingerprint computed for it, and only if the one it leaves does not,
\* although the two lookups and the write are steps apart and the canonical it
\* leaves may not be the one it read; unless, in between, another sweep gave
\* the canonical it had chosen another fingerprint.
RelinkFollowsFingerprint ==
    [][\A s \in Sweepers, l \in Listings :
          /\ SweepStep(s)
          /\ listing'[l].canonical # listing[l].canonical
          => /\ l = sweep[s].cur.id
             /\ s \in raced \/
                   /\ canon[listing'[l].canonical].fingerprint = Wanted(s)
                   /\ canon[listing[l].canonical].fingerprint # Wanted(s)]_backfillVars

=============================================================================
