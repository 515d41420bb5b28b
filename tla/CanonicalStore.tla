--------------------------- MODULE CanonicalStore ---------------------------
(***************************************************************************)
(* The two Postgres tables at the heart of the CRM, CanonicalProperty (one *)
(* row per real-world property, shared by every firm) and WorkspaceListing *)
(* (one firm's view of a property), with the constraints the schema puts   *)
(* on them and the single statements the services run against them.        *)
(*                                                                         *)
(* A row's id is its position in the table's sequence: ids are uuids, so   *)
(* they are never reused, and a deleted row stays as a dead entry.  Of a   *)
(* listing only the attributes the fingerprint reads are kept: `place`     *)
(* stands for the ones stored as received (city, area, building, size),    *)
(* `bhk` for the ones rewritten on their way in: the bedroom count, which  *)
(* normalizeBhk rewrites, and with it the subtype and the listing type,    *)
(* mapped to enums.  `phones` stands, in an item or a form, for the        *)
(* contacts it came with; in a listing for what the sweep reads in their   *)
(* place, the phones of the agents attached to it.                         *)
(***************************************************************************)
EXTENDS Naturals, Sequences, FiniteSets

CONSTANTS
    Workspaces,     \* the firms
    Places,         \* values of the attributes stored as received
    BhkSpellings,   \* spellings of a bedroom count the AI parser may return
    Normal,         \* normalizeBhk, on spellings
    Phones,         \* contacts' numbers
    NoValue         \* null

ASSUME NormalAssumption ==
    /\ Normal \in [BhkSpellings -> BhkSpellings \cup {NoValue}]
    /\ NoValue \notin Places \cup BhkSpellings
    /\ NoValue \notin (Places \cup {NoValue}) \X (BhkSpellings \cup {NoValue}) \X SUBSET Phones

VARIABLES canon, listing

-----------------------------------------------------------------------------
(* Attributes and fingerprints *)

Attributes ==
    [place : Places \cup {NoValue}, bhk : BhkSpellings \cup {NoValue}, phones : SUBSET Phones]

Fingerprints == (Places \cup {NoValue}) \X (BhkSpellings \cup {NoValue}) \X SUBSET Phones

\* Both services join the attributes they are given with '|' and return no
\* fingerprint when nothing but separators is left.
Fingerprint(a) ==
    IF a.place = NoValue /\ a.bhk = NoValue /\ a.phones = {}
      THEN NoValue ELSE <<a.place, a.bhk, a.phones>>

NormalizeBhk(s) == IF s = NoValue THEN NoValue ELSE Normal[s]

\* What an ingested item looks like in the listing created from it, to which
\* no agent is attached yet.
Stored(item) == [place |-> item.place, bhk |-> NormalizeBhk(item.bhk), phones |-> {}]

-----------------------------------------------------------------------------
(* Rows *)

CanonRows == [fingerprint : Fingerprints \cup {NoValue}, refCode : Nat, live : BOOLEAN]

\* `source` is the item the listing was created from (the message's text and
\* the cached AI result keep it); the broker's edits change `attrs` only.
ListingRows ==
    [ws : Workspaces, canonical : Nat, attrs : Attributes,
     source : Attributes, live : BOOLEAN]

Canonicals == {c \in DOMAIN canon : canon[c].live}
Listings   == {l \in DOMAIN listing : listing[l].live}

ByFingerprint(fp)       == {c \in Canonicals : canon[c].fingerprint = fp}
ByWsCanonical(ws, c)    == {l \in Listings : listing[l].ws = ws /\ listing[l].canonical = c}
OfCanonical(c)          == {l \in Listings : listing[l].canonical = c}

\* A reference code drawn at random by the manual form: it collides with none.
RandomCode == 0

\* Mutant: the wrong table is counted.
NextCodeOfListings == Cardinality(Listings) + 1

\* PROP-<year>-<count + 1>, the year being fixed during a behaviour.
NextGlobalRefCode == Cardinality(Canonicals) + 1

CodeTaken(code) == code # RandomCode /\ \E c \in Canonicals : canon[c].refCode = code

\* Mutant: no @unique on the fingerprint.
CanonInsertUnguarded(fp, code) == ~CodeTaken(code)

\* @unique on fingerprint (nulls never collide) and on globalRefCode.
CanonInsertAllowed(fp, code) ==
    /\ fp # NoValue => ByFingerprint(fp) = {}
    /\ ~CodeTaken(code)

CanonRow(fp, code) == [fingerprint |-> fp, refCode |-> code, live |-> TRUE]

\* Mutant: no @@unique on (workspaceId, canonicalPropertyId).
ListingInsertUnguarded(ws, c) == c \in Canonicals

\* The foreign key to the canonical and @@unique([workspaceId, canonicalPropertyId]).
ListingInsertAllowed(ws, c) == c \in Canonicals /\ ByWsCanonical(ws, c) = {}

ListingRow(ws, c, attrs, source) ==
    [ws |-> ws, canonical |-> c, attrs |-> attrs, source |-> source, live |-> TRUE]

\* The two tables, in the order of insertion, hold rows of the schema's shape.
StoreTypeOK == canon \in Seq(CanonRows) /\ listing \in Seq(ListingRows)

StoreInit == canon = << >> /\ listing = << >>

=============================================================================
