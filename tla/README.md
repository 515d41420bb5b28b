# A verification of the PropAI broker CRM

The repository is a CRM for Indian property brokers. Listings arrive as WhatsApp
messages in broker groups, are parsed by an AI model, matched to real-world properties
that all firms share, and put in front of the firms that subscribe to the group; firms
then work their clients and deals on them. The backend is one NestJS process over one
Postgres database (through Prisma), the dashboard a Next.js application that calls it.
This directory models the backend, and the parts of the dashboard whose order of events
matters, in TLA+, checks the models with TLC and proves the central results with TLAPS.

Paths below are relative to `apps/backend/src/modules/` unless they say otherwise.

## 1. What makes the code hard

- **One process, many handlers.** A handler runs without interruption from one `await` to
  the next, and every database call is an `await`. Requests, WhatsApp sockets, timers and
  background jobs interleave at these points. With few exceptions the code uses no
  transaction and no conditional update: it reads, decides, and writes later.
- **The database's constraints do the real guarding**: unique keys and foreign keys refuse
  what a stale decision would otherwise commit. The models hold exactly those constraints.
- **In-memory state** (the WhatsApp session map, a tab's refresh queue) is shared by
  handlers and lost when the process stops or the tab is closed.
- **Others have their own pace**: WhatsApp, the payment gateway and its webhooks, the
  browser's cookies and timers.

## 2. Inventory

| Component | State | Operations | Interacts with | Hard behaviour | What makes it correct |
|---|---|---|---|---|---|
| Property store (`properties`, `listings`) | CanonicalProperty, WorkspaceListing rows | createFromAi, form create, edit, return to a version, delete | pipeline, sweep, deals, agents | find-then-create races; numbering by count; failure of one item of several | one listing per firm and property; nothing lost silently; no orphan without a report; a usable reference code |
| Dedup sweep (`dedup`) | the same rows; a snapshot | runBackfill | store | long walk over a stale snapshot, rewriting shared rows; another sweep doing the same | no dangling listing; relinks follow fingerprints |
| Deals (`deals`) | PropertyDeal, listing availability | create, updateStatus, updateFinancials | store | check on a read, unconditional write, second write elsewhere | the lifecycle; availability that says what the deals say |
| WhatsApp sessions (`ingestion`) | session map, sockets, timers, IngestionPhone | startSession, stop, add, remove, handlers | WhatsApp, database | reconnection, overlapping starts and closes, starts that fail, removal | one connection per active number, or a failure reported |
| Message pipeline and private groups (`ingestion`, `private-groups`) | IngestionGroup, GroupSubscription, Message, GlobalMessageCache, PrivateGroupRequest | handleMessage, subscribe, backfillWorkspace, syncGroups, createRequest, link by code | sessions, AI parser, store | lists of subscribers used after a long AI call; background backfill, by name and of limited size, beside live messages and renames; removal in two calls | a subscriber gets each message; nobody else does; a private group stays its owner's |
| Team (`team`, `onboarding`, `../auth`) | WorkspaceMember, WorkspaceInvite, seats | invite, accept, register, revoke, resend, role, remove | auth, billing | count-then-create; accept racing revoke; last owner; superadmins whom the guard passes | counted seats; members who were invited; an owner |
| Billing (`billing`, `onboarding`) | Subscription, Invoice, plan | selectPlan, create, verify, webhook, cancel, guard | gateway, team | repeated, late and reordered webhooks; handlers cut in two; receipts nobody ties to a payment | payments recorded; access with a cause; one trial |
| Authentication (`../auth`, dashboard `lib/api.ts`, `context/AuthContext.tsx`) | sessions, cookies, a tab's refresh state | login, refresh, logout, every call | all routes | one refresh for many calls; cookies shared by tabs | every call settles; nobody waits for a refresh that is over |
| Agents (`agents`, `properties`) | Agent, AgentPhone, ListingAgent | find or create on ingestion, create, update, merge, attach | store | chains of merges; merging while messages attach | resolution ends; listings keep their agent |
| Clients and share links (`clients`, `properties`, share dialog) | Client, ClientProperty, ClientShareToken | find or create by phone, tokens, share | store | three find-then-create; delete-then-create; answers out of order; failed shares swallowed | one client per number; a link that stays until replaced and shows what was sent; the receiver's number |
| Media (`media`) | Media, storage used | upload, confirm, purge | object store | quota checked before upload | use within quota |
| Others | - | AI parser, pre-classifier, collections, shortlists, settings, admin, public pages, figures, mail, legacy listener, dashboard pages | - | none that the models would reach | - |

`PROJECT.json` lists every component with its status and reason, and the hazards at their
lines. `expireTrials`, `purgeDeletedMedia`, `linkGroup`, `createFromPreClassified` and
`PropertiesService.mergeAgents` have no caller in the source.

## 3. Plan

In order of weight; all but `Media` are built.

1. `CanonicalStore`, `Ingest`: how listings enter. Proofs in `StoreProofs`.
2. `DedupBackfill` (extends `Ingest`): the sweep against the live system. Proofs in
   `StoreProofs` too.
3. `DealStatuses`, `DealLifecycle` (abstract), `Deals` (implements it). Proofs in `DealsProofs`.
4. `WaSession`: the connection of one WhatsApp number. Proofs in `WaSessionProofs`.
5. `Groups`: subscriptions, linking codes, message fan-out, background backfill. Proofs in
   `GroupsProofs`.
6. `Team`: seats, invites, owners, with registration by invite. Proofs in `TeamProofs`.
7. `Billing`: webhooks as a duplicating, reordering channel; the guard. Proofs in `BillingProofs`.
8. `ApiClient`: the dashboard's calls and the shared refresh. Proofs in `DashboardProofs`.
9. `Agents`: merge chains against ingestion. Proofs in `AgentsProofs`. `Clients`: share links
   against the dialog. Proofs in `DashboardProofs`.
10. `Media`: quota, confirmation, purge.
11. Proofs of every safety property a run checks: done. Left to prove is what the models do not
    state yet; `Media` would come first.

## 4. Modules and how they correspond to the code

A *request*, *task* or *execution* is a handler between two of its awaits: its `pc` names
the call it is about to make, its other fields what it has read. Serialised variants are
chosen in the initial state (`serial`, `prompt`, `careful`) and stay, so that one run checks
both what holds always and what holds when people act one at a time.

**`CanonicalStore`** - the two tables and their constraints. A row's position is its id
(uuids are never reused), deletion marks it dead. Of a listing's attributes only those the
fingerprint reads matter: `place` (kept as received), `bhk` (rewritten on the way in: "2 BHK"
and "2BHK" are stored alike and a text that names no number is dropped, but the fingerprint of
an ingested item is computed before the rewriting) and `phones` (of an item the numbers it came
with, of a stored listing those of its agents, which is what the sweep reads). `Normal` is the
rewriting, any idempotent function from spellings to spellings or nothing. The two fingerprint
functions (`properties.service.ts:268`, `dedup.service.ts:21`) agree on these.

**`Ingest`** - `Workers` executions of `createFromAi`'s loop body (steps `find`, `count`,
`create`, `check`, `touch`, `upsert`, `attach`) or of `ListingsService.create` (`formFind`,
`formCreate`, `formInsert`), each step one database call but for `attach`, whose steps are in
`Agents`: here it gives the listing any numbers. The form attaches no agent, though its
fingerprint has the contacts. `Fail` is any step that throws: a price or an area with a
fraction at the upsert (`properties.service.ts:102`), or the database. `failed` has what was
reported: the ingestion log's LISTING_CREATE_FAILED entries, the errors a form's broker sees.
`Restart` ends every execution where it stands. Prisma's `upsert` on a unique key is one step.
A listing's activity log and its reference code (random, checked by a unique key it practically
never meets) are left out.

**`DedupBackfill`** - `sweep` holds the local state of each `runBackfill` under way: the route
(`admin/admin.controller.ts:209`) keeps nothing from starting another. A step is one database
call; `Others` is the rest of the system: `Ingest!Running`, and `EditListing`, which stands for
edits and returns to an earlier version, both of which may write any column, the canonical
among them. `raced` is history: the sweeps whose chosen canonical another sweep has given
another fingerprint.

**`DealStatuses`, `DealLifecycle`, `Deals`** - `Deals` has one record per request in
flight, with what its first read told it. `held` (the statuses a deal has had, of which the
row keeps the dates of three), `setBy` (the last writer of availability), `raced` (deals with a
status written while another request was past its check of them) and `cut` (deals whose update
lost its second write to the end of the process) are history. `DealLifecycle!Journey` is the
transition map as a state machine in which a deal that was raced may follow any status it has
had, and no other deal may.

**`WaSession`** - one number: its row, its sockets, its entry in the session map, calls of
`startSession` between check and set, by caller, reconnect timers, close handlers, admin
requests, in any overlap. Baileys is external: a socket connects or not, dies at most once and
tells its handler, `end()` kills it. A start that throws is logged by `onModuleInit`, answered
to the admin by `addPhone`, and ends the process when the timer called it; so does the QR
branch without an entry (`ProcessEnds`). The QR code column is left out. The process serves
requests once `onModuleInit` is done. `races` counts the two things that may leave a socket
without its entry since the number was last at rest; `lost` remembers how the last work for the
number ended without a socket.

**`Groups`** - groups with their owner and name, subscriptions, linking codes, messages (a row
for each group and text, with the group's name of the day), texts in the cache. Tasks are
`handleMessage` (for a code: `upsertGroup`, `link`; for a message: `lookup`, `storeMessage`,
`parse`, `handOver` to one firm after the other), `backfillWorkspace`, `createRequest` and
`removeGroup`. `Subscribe` takes any group, as the route does. Syncs, additions by hand and
codes rename groups; a backfill reads the messages under the name of now, all of them or, when
there are more than `Limit` (500 in the code), some. `handed` stands for `createFromAi`, which
`Ingest` models; `excused` records what a firm may miss: messages being handled when it
subscribes, given up by the classifier or the parser, sent before a link, after which the code
starts no backfill, or beyond the limit.

**`Team`** - the members and invites of one firm, accounts, and the column `seatsUsed`.
`Manages` is the guard: an owner, or a SUPERADMIN, who may be any member. `SendInvite` and
`InviteMembers` are the two ways to invite (with their two ways of counting; the second is for
owners alone, `onboarding.service.ts:150`), `AcceptInvite` and `RegisterViaInvite` the two ways
to join; only the last step of joining and of removal is a transaction (`Admit`, `Forget`). An
account is `"own"` or `"invited"`: where it came from decides whether its holder has another
workspace to log into. An address stands for its lower-case form. `excused` is history: one
who was no owner demoted an owner, or there were two owners while requests may overlap.

**`Billing`** - the subscription row, the plan, invoices for each payment, and the gateway,
which is external: its subscriptions, the receipts it gives the browser, the webhooks it
repeats until they are answered. A webhook's handler is cut between its status write, its
second write and its answer. `VerifyPayment` takes any receipt with the gateway's signature:
one of a payment of the firm, or a `Stray`, which was sent before or is of another firm.
`Admitted(caller)` is the guard's decision; it reads the cookie only and passes staff. `prompt`
says that the gateway's posts arrive before it does anything else.

**`ApiClient`** - tabs sharing two cookies; each call of `api()` is a state machine (`new`,
`sent`, `refused`, then `refresh` or `queued`, `settled`), `refreshing` is `isRefreshing`,
the queue is the set of `queued` calls, `attempt` counts `tryRefresh`'s failures. Responses
may be lost or fail at any attempt.

**`Agents`** - agents by number, the phones they are found by, `mergedInto`, links to
listings. `FindAgent`, `SaveAgent` or `SavePhone` for each number, and `LinkAgent` are
ingestion's; `RefuseAgent` is a candidate, or a form, that names a number twice. `Merge` is a
transaction whose writes are one step, `MoveLinks` the one that a unique key may refuse.

**`Clients`** - clients by number, their listings, links made and links alive; the share
dialogs with their timers (`due`), the link shown (`url`) and the one in the message
(`final`); requests of the kinds `link` (typed), `own` (on the click), `share`, `fresh` (a
client's page) and `add`. A phone is the digits a page sends; those of `WithCode` were typed
with the country code, `Dial` is the number the message is opened for. `Fail` makes any requests
fail, one or all at once; `DeleteListing` takes a listing from under a share. `cut` and
`missed` are history: clients whose new link a failure prevented, listings a dialog could not
share.

**`MC...`** - constants and symmetry for TLC.

Definitions marked `Mutant` are plausible bugs used to test the properties: each property
fails when the definition below the mutant is replaced by it.

## 5. Runs

| Run | Bounds | Shows |
|---|---|---|
| `MCIngest` | 2 executions, 2 firms, 3 jobs, 2 spellings, 1 place, 1 number, 1 restart | `OneListingPerProperty`, `NextCodeFree`; until a restart `OrphansReported`; `ListedOrLogged` while the process runs; and the inductive invariant `IngestInv` |
| `MCDedupBackfill` | 2 firms, 1 execution, 2 jobs, 1 edit, 2 sweeps at once | `NoDanglingListing`, `RelinkFollowsFingerprint` |
| `MCDeals` | 1 listing, 2 deals, 2 requests, manual edits, restarts | `MilestonesComplete`, `AvailabilityHasCause`, the inductive invariant `DealsInv` |
| `MCDealsOne` | 1 listing, 2 canonicals, 1 deal, 2 financials, 3 requests, manual edits, restarts | `OverlappingJourney`, `LoneDealShown`, `ClosedDealKept` |
| `WaSession` | 2 additions, 2 removals, 2 connections lost, 1 failure, 1 restart | `Supervised`, `Reconnects`, `OneLiveSocket`; `StatusHonest`, `EntryIsTheSocket` where no start and no removal raced |
| `MCTeam` | founder and 1 other, 2 seats, 2 invites, 2 requests | `SeatsUsedCounts`, `MembersWereInvited`; `LastOwnerStays` unless excused; `SerialSeatsKept` |
| `MCBilling` | 1 gateway subscription, 3 payments, 2 lapses, 1 stray receipt, 1 restart, 2 requests | `PaymentNotLost`, `AccessHasCause`, `TrialOnce`; `StatusFollowsGateway` when deliveries are prompt and no receipt is a stray |
| `MCGroups` | 2 firms, 2 groups, 2 names, 2 texts, 2 tasks, 2 events, backfills of 1 row | `GroupsInv` (`OnlySubscribers`), `Caught`, `OwnerKept` |
| `MCApi` | 2 tabs of 2 calls, 1 of them a logout, 4 events | `ApiInv` (`QueueHasWaker`), and `CallsSettle` |
| `MCAgents` | 2 phones, 1 listing, 3 agents, 3 manual requests, 2 tasks | `AgentsInv` (`MergesEnd` when merges are made one at a time, `AttachedKept`) |
| `MCClients` | 2 numbers, 1 with the country code, 1 dialog, 2 listings, 2 requests, 3 clients, 3 links, 3 events, 1 failure | `ClientsInv` (`LinkKept`, `OneClientPerPhone`), `LinkShowsListings` |
| `MCClientsLink` | as `MCClients`, 4 events, no failure | **fails**: `SentLinkIsRecipients` |

`MCClientsLink` is a disagreement between the code and its comment. The dialog shows a link
"when phone is valid" (`ShareMultiplePropertiesModal.tsx:466`). When a valid number is typed
over another, the link of the former stays until the new answer arrives, and an answer is
shown whatever number it was asked for; a click in between sends the new number the former
client's portal link. (`AddToShortlistModal.tsx:66-90` has the same pattern.)

`LinkShowsListings` says what holds all the same: the link in a message is there until another
replaces it, its client has every listing of the message that was not deleted and whose share
did not fail (as long as its number has one client), and the message goes to that client when
brokers do not retype numbers and leave the code out.

Two handlers at once are enough for most races that these handlers run: each reads once or
twice before it writes, so that one rival's write falls into each gap, and a third handler
repeats a rival's part; `MCDealsOne` has three, for what two rivals of one update leave. Jobs,
invites, payments and events allow each thing to happen, be undone or repeated, and be met again. Two payments on one gateway subscription let a charge
be renewed after a lapse; a second gateway subscription of the firm is beyond `MCBilling`, and
covered by the theorems for all but `StatusFollowsGateway`, which is stated for one. `Limit` is 1
where the code has 500: two messages of a group are then too many for a backfill. Deadlock is
not checked: every model stops when its bounds are used up.

### Fairness

`Reconnects` needs weak fairness of `WaSession!Internal`, the steps the event loop owes once
an await is answered or a timer is due. Nothing is assumed of WhatsApp, of the admin, or of
restarts, which the bounds make finite; a number that loses its connection forever is not
covered by the property, which asks only for a new attempt, and a start that throws at start-up
or at an addition is not tried again: the property and `Supervised` name that case (`lost`).

`CallsSettle` needs weak fairness of each call's own steps (`ApiClient!Progress`): a fetch is
answered or fails, a timer fires, the promise's continuation runs. Nothing is assumed of
logins, of tokens running out or of what administrators do, which `MaxApiEvents` makes finite.
`Suspensions` is FALSE in `MCApi` for the reason given under known limits.

### Known limits

What one would like to hold and the code does not promise. The definitions named are in the
modules; TLC refutes them in the runs' own instances, or in the one described.

- **Store and sweep.** An item with a fractional price or area leaves its canonical without a
  listing (`properties.service.ts:102`): it is reported, and nothing repairs it. After a sweep
  `OneListingPerProperty` may fail: the sweep stamps a canonical with the fingerprint of stored
  attributes (`dedup.service.ts:155`), ingestion looks raw ones up. Two firms that store one
  property differently, or a form whose contacts no agent has, make sweeps give a shared
  canonical one fingerprint and then the other; of two sweeps at once the second may restamp
  the canonical that the first has chosen (`raced`). `NextCodeFree`: after an orphan is
  deleted, count + 1 may be a code that is taken (`properties.service.ts:303`).
- **Deals.** `Deals!OneActiveDeal`: DISPUTED is not counted as active (`deals.service.ts:144`)
  and may become so again; two creations at once may also both pass the check.
  `Deals!OneOutcome`: overlapping updates may give a deal one outcome after the other. A deal
  closed between a request's check and its write has its financials written all the same
  (`:252`), which `ClosedDealKept` excepts.
- **Sessions.** `WaSession!RemovedIsDown`: a removal ends the socket before it marks the number
  inactive (`ingestion.service.ts:492`), and the close handler reconnects it. Two additions may
  open two sockets (`:72`, `:90`), which `races` counts. A start that throws at start-up (`:56`)
  or at an addition (`:487`) is reported and not tried again: the number stays active, with no
  socket and no timer.
- **Groups.** The day of grace a private group has (`claimExpiresAt`) and `isPrivate` are looked
  at by the list of groups only; `subscribe` takes any group (`ingestion.service.ts:630`).
  Groups of one name share their messages in a backfill (`:228`), and a renamed group's earlier
  messages are missed by it; it reads 500 rows, the copies made by earlier ones among them
  (`:230`). A group linked by a code is not backfilled. A failed sync's retry returns at once
  (`:442`, `:464`).
- **Team.** Two requests at once may exceed the seats, or leave a firm without an owner; so may
  a superadmin among the members who is no owner, and demotes the only one (`team.service.ts:305`
  counts owners only when one demotes himself). Sending an expired invite again asks for no seat
  (`:393`). `createWorkspace` makes no subscription row, which comes with the plan or the first
  checkout; `googleAuth` does not lower-case the address, so that it may stand for two accounts.
- **Billing.** `Billing!PayerAdmitted`: with two gateway subscriptions in a firm's life the
  webhooks of the earlier change the row of the later (`billing.service.ts:181` reads the
  workspace only). `verifyPayment` ties a receipt neither to a payment nor to a firm
  (`:138`): a stray one makes the row active. The guard reads the cookie only, and lets pass
  requests that bring their token in a header, and staff (`billing.guard.ts:27`, `:45`).
- **Calls.** `ApiClient` with `Suspensions = TRUE`: a suspended workspace's calls are refused
  with 401, the refresh succeeds (`../auth/auth.service.ts:327` reads no workspace state), and
  the call is sent again, for as long as the suspension lasts (`lib/api.ts:49`): `CallsSettle`
  fails.
- **Agents.** Merging two agents of one listing always fails on a unique key; messages after a
  merge attach to the merged agent; overlapping merges, or a merge into an agent merged
  meanwhile, may close a circle. A candidate that names a number twice is refused by the unique
  index, and its listing gets no agent (`properties.service.ts:455`).
- **Clients.** Requests that overlap may give one number two clients, and a client two live
  links; two overlapping claims of a lead both succeed (`clients.service.ts:232`). A number
  typed with its country code and without is two clients. `Clients!MessageReaches`: the field
  asks for "+91 98200 00000" (`ShareMultiplePropertiesModal.tsx:677`), and the message is opened
  for `91` and whatever digits were typed (`:595`), so that a number typed as shown gets the
  code twice. (`PropertyDetails.tsx:25` adds it to numbers of ten digits only.) A share that
  fails is swallowed (`:590`) and the message sent; a later link of the client deletes the one
  in it (`clients.service.ts:515`, `:566`).

## 6. Proofs

Every safety invariant and action property of the passing runs is a theorem, for every value of
the constants that its assumptions admit. Theorems live in eight modules, each with the
inductive invariants it needs.

| Module | Assumes | Theorems |
|---|---|---|
| `StoreProofs` | `NormalAssumption`, `IngestAssumption`, for the sweep `BackfillAssumption` | `TypeCorrect`, `Invariance`, `OneListing`, `CodeFree`, `NothingLost`, `NoOrphan`; `BackfillInvariance`, `BackfillTypes`, `NothingDangles`, `RelinksFollow` |
| `DealsProofs` | `DealsAssumption` | `TypeCorrect`, `Invariance`, `Milestones`, `Causes`, `ImplementsJourney`, `ClosedKept`, `LoneDeals` |
| `WaSessionProofs` | `WaSessionAssumption` | `WaSessionTyped`, `NumberSupervised`, `SingleConnection`, `HonestStatus`, `EntryMatchesSocket` |
| `GroupsProofs` | `GroupsAssumption` | `Invariance`, `GroupsAreSafe`, `OwnersStay`, `SubscribersCaught` |
| `TeamProofs` | `TeamAssumption` | `Invariance`, `TypeCorrect`, `SeatsCounted`, `OnlyTheInvited`, `OwnerStays`, `SeatsKept` |
| `BillingProofs` | `BillingAssumption` | `Invariance`, `TypeCorrect`, `NoPaymentLost`, `AccessCaused`, `OneTrial`, `StatusFollows` |
| `AgentsProofs` | `AgentsAssumption` | `AgentsKept` |
| `DashboardProofs` | `ClientsAssumption`; for the calls `ApiAssumption` | `ClientsKept`, `MessagesShow`; `QueueWoken` |

The assumptions on constants are those the modules declare: bounds are natural numbers,
distinguished values differ from the others. No theorem assumes more. Where a property holds
but for races, failures or what a person did by hand, variables marked `history` record just
those (`raced`, `races`, `cut`, `excused`, `stray`), and the property names them. What people do
one at a time (`serial`, `prompt`, `careful`) is part of the property too: those flags are chosen
in the initial state and the theorems hold of both.

### The arguments

**The store.** None of the properties is inductive: whether an upsert makes a duplicate depends
on what the execution found three calls earlier. The strengthening `IngestInv` adds that
fingerprints of canonical rows differ and codes do not run ahead of the row count
(`CanonsConsistent`), that a listing hangs on the canonical of the item it came from and a firm
has one listing per canonical (`ListingsConsistent`), and that what an execution carries is still
true (`WorkersResolved`): its code is at most one past the rows, its canonical exists and carries
its item's fingerprint, its target, alive or not, is a listing of its firm on that canonical.
`NoOrphan` has an induction of its own over the same invariant, up to the first restart: each
canonical has had a listing, or is carried by an execution that is about to give it one
(`Used`), or the failure of its execution was reported (`Reported`); whichever step throws, the
last two leave no gap.

**The sweep** (any number of sweeps and edits). A snapshot goes stale as its sweep walks, so
`BackfillInv` says what stays true: no two live canonicals carry one fingerprint
(`LiveFingerprintsDiffer`, although sweeps stamp them: the stamp is refused by the unique key),
every listing has a live canonical, and what a sweep has computed and chosen holds when it is
written (`SweepsSound`): the canonical chosen by a lookup carries the fingerprint it was chosen
for, or another sweep has restamped it, which `raced` has recorded.

**Deals.** `DealsInv`: the statuses a deal has had are connected along the transition map, and a
status a request is about to write follows one of them, because history only grows.
`Milestones` reads the map backwards; `Causes` is a conjunct. `ChecksHold` adds that what a
request on a deal that was not raced has checked is still so: a write to the deal while another
request is past its check of it is what makes the deal raced. Hence `ImplementsJourney`, which
maps every step to a step of `DealLifecycle!Journey` or a stutter, and `ClosedKept`. `LoneDeals` needs
`ShownInv`: a deal's listing was there before it (`BornFirst`), a listing that neither a deal nor
a broker has touched is available (`Untouched`), and the only deal of a listing is shown, or the
request that changed it is about to show it, unless it was raced or cut or a broker has set the
availability since (`Shows`).

**A number's session.** `NumberSupervised` rests on `SupervisedInv`: the map's entry, which makes
a start skip, is for a live socket, or there is a death whose handler will still delete the entry
(`EntrySupervised`). `SingleConnection` is by a count (`LoadInv`): live sockets, deaths being
handled and starts past their check are together at most `races` + 1, and at most `races` where
the map has no entry and no start is under way. The last two theorems are about numbers
with `races = 0` (`LoneInv`): such a number is in one of four situations, at rest, live, its loss
being handled, a start under way, which determine its sockets, its entry, its timers and its
handlers, and every step leads from one to one.

**Groups.** That only subscribers are handed messages depends on lists read before a long call:
subscriptions are never forgotten, only marked (`SubscriptionsKept`), so a firm that was on the
list has subscribed (`HandlerSound`). That a backfill hands over no other group's messages, as long as no two groups
have had one name, needs that the names read earlier, and those on messages, are names the group
has had (`NamesSound`). That a private group stays its owner's needs that a subscriber's group has its
row (`SubscribedExist`), that a group is private just when it has an owner (`OwnerMatches`), and
that whoever is about to link holds a code and a group (`LinkSound`). `GroupsIInv` is their
conjunction; `GroupsAreSafe` and `OwnersStay` follow.
`SubscribersCaught` (when all handlers are done a subscriber has every message it may not miss)
rests on `CaughtInv`: a message's handler has every subscriber among its recipients, but those
that came since, for whom the message is excused (`Recipients`); a message that is not cached is
at the parser or was given up (`Parsing`), so that a backfill that skips it leaves it to its
handler; and what a subscriber has not been handed some task owes it (`Coming`). When all tasks
are idle nobody owes anything.

**The team.** `SeatsUsedCounts` is not inductive: that an admission adds a member needs that the
person has no row yet, and that a removal takes one needs that the row is there. `TeamIInv` adds
that a person has one row, that members have accounts, and that a request that joins holds an
invite to its own user; invites are never deleted, readdressed or made pending again
(`InvitesKept`), which carries what a request has read through the steps of others. `OwnersInv`
and `SeatsInv` build on it: a request that has counted the owners, or the seats, is alone when
requests come one at a time, so what it counted is what there is (`OwnersKept`,
`SeatsPromised`); where they overlap and there was never more than one owner, nobody can pass
the count (`OneOwner`). Both are up to the first demotion that nothing counts (`excused`). The
seats are counted over two sets that change in one step, members and usable invites; an
admission moves one from the second to the first.

**Billing.** `BillingIInv`: a webhook, queued or in a handler, speaks of something that has
happened at the gateway (`HookSound`); a request about to write a subscription's id is the only
one with it (`OneUpsert`); one that is about to answer a charge has written its invoice; the
row's status has its cause, a payment or a stray receipt (`RowSound`). `StatusFollows` adds
`Follows`, as long as no stray receipt was verified (`NoneStray`): a gateway that waits for
its deliveries leaves no webhook, receipt or handler that tells of a former state, and the row is
right but for a webhook still posted, which survives a restart in the middle of its handler.

**Agents.** That merges end is no property of one agent: a merge made far away may close the
circle. `AgentsIInv` says that there is an order of all agents in which every merge leads
upwards (`Ordered`), and that a merge under way is alone and finds both agents as it read them
(`LoneMerge`); a merge of two agents that were not merged then has an order again, with the source
and what leads to it moved below the target. Following as many merges as there are agents must
have come to an end, for each step goes up by one at least. `Follow` is a recursive function; that
it is defined, and what it yields, is shown by induction on the number of steps. (The library's
induction theorems take an operator as a parameter, which the provers cannot instantiate; the
induction here goes over the set of numbers for which the claim holds, by the least element of
its complement, from `NatLessThanWellFounded` and `WFMin`.)

**Clients.** `BookInv` has four parts. `Known` holds however requests overlap or fail: what a
request has found is in the tables, which lose no client, and a dialog asks for one link on a
click. `LinkKept`, itself a property, is preserved because a request that deletes links is about
to make one, unless it fails, which `cut` records. `Shows` says of each message sent, and of each
dialog that is sharing, that every listing is with the link's client, yet to be shared, being
shared, deleted or missed (`SentShows`, `Shared`); it too holds always. `Steady` holds while
brokers wait for answers: a dialog's request is about the number typed there. `Prudent` needs
besides that nothing failed: requests that may create are alone (`OneAtWork`), so a number not
found has no client still when it is created (`Unique`).

**The api client.** `QueueWoken`: the mark of a tab is up exactly while one call of it refreshes,
and only then do calls wait. `ApiInv` is inductive.

Only model-checked: the liveness properties `Reconnects` and `CallsSettle`, since liveness under
fairness is beyond the prover.

## 7. Not modelled

- The dashboard's pages, most of the repository's lines: they lay out rows, and send one
  request for each button. The models hold the two places where the browser keeps state that
  matters (`lib/api.ts`, the share dialog); the others have no step that could come in a
  wrong order.
- `Media`: files go to an external store, and the sizes that count come from the browser.
- Password reset, e-mail verification, Google sign-in; profile and settings edits; follow-ups,
  stages, notes, events and drafts of clients; collections and shortlists: single-row writes
  that nothing else reads before deciding.
- The AI parser, the pre-classifier and the wording of messages: functions of their input.
- `ingestManual`; hit counts, last-seen dates, `listingCount`, audit rows, mails.
- The process stopping during a sweep, which for the store is a sweep that goes no further;
  restarts in `Groups`, `Team` and `Agents`, where a request that stops is one that takes no
  further step; failures of single database calls elsewhere than in `Ingest`, `WaSession` (starts)
  and `Clients`.
- What administrators edit by hand, but for the suspension of a workspace.
- The components marked `not_modelled` in `PROJECT.json`, each with its reason. Reads that
  change nothing are nowhere modelled.
