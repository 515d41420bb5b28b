-------------------------------- MODULE Team --------------------------------
(***************************************************************************)
(* The members of one firm, its invites and its seats: TeamService, the    *)
(* invites of OnboardingService, and the registration through an invite of *)
(* AuthService.                                                            *)
(*                                                                         *)
(* A request is a handler between two of its database calls and knows what *)
(* it has read.  (The role that the token's strategy reads and the first   *)
(* read of the handler are one step.)  Only the last step of joining and   *)
(* of removal is a transaction.  Members are a set of rows; invites, which *)
(* are never deleted, a sequence.                                          *)
(***************************************************************************)
EXTENDS Naturals, Sequences, FiniteSets

CONSTANTS
    People,         \* the founder and those who may be invited, by e-mail
    Founder,
    Seats,          \* the subscription's seats
    PlanSeats,      \* seatsForPlan of the workspace's plan
    Requests,       \* slots for requests served at the same time
    Gone,           \* what a request holds whose member's row was deleted
    MaxInvites      \* bound on the number of invites

\* A plan that has lapsed is FREE, with one seat.
ASSUME TeamAssumption ==
    /\ Founder \in People
    /\ IsFiniteSet(People)
    /\ Seats \in Nat \ {0}
    /\ PlanSeats \in {1, Seats}
    /\ MaxInvites \in Nat
    /\ Gone \notin People

VARIABLES
    member,         \* WorkspaceMember rows of the firm
    invite,         \* WorkspaceInvite rows
    account,        \* who has an account, and whether with a firm of his own
    seatsUsed,      \* a column of the subscription
    request,        \* the requests in flight
    revived,        \* history, of serial requests: whether an expired invite was
                    \* sent again
    excused,        \* history: whether one who was no owner demoted an owner, or
                    \* there were two owners while requests may overlap
    serial          \* whether requests are served one at a time

vars ==
    <<member, invite, account, seatsUsed, request, excused, revived, serial>>

-----------------------------------------------------------------------------

\* VIEWER differs from BROKER in nothing here.
Roles == {"OWNER", "BROKER"}

MemberRows == [user : People, role : Roles, inviteId : Nat]

InviteRows == [email : People, role : Roles, status : {"PENDING", "ACCEPTED", "REVOKED"},
               expired : BOOLEAN]

Idle      == [pc |-> "idle"]
Inviting  == [pc : {"countPending", "checkMember", "revokeOld", "createInvite"},
              all : BOOLEAN, emails : SUBSET People, role : Roles, members : Nat]
Resending == [pc : {"extend"}, invite : Nat]
Joining   == [pc : {"checkMembership", "join", "registerJoin"}, user : People, invite : Nat]
Changing  == [pc : {"countOwners", "apply"}, target : People \cup {Gone},
              action : {"remove"} \cup Roles, override : BOOLEAN]

\* Types of the tables and of what each request has read.
TeamTypeOK ==
    /\ member \subseteq MemberRows
    /\ invite \in Seq(InviteRows)
    /\ account \in [People -> {"none", "own", "invited"}]
    /\ seatsUsed \in Nat
    /\ request \in [Requests -> {Idle} \cup Inviting \cup Resending \cup Joining \cup Changing]
    /\ {excused, revived, serial} \subseteq BOOLEAN

\* A firm as register and googleAuth make it, with a subscription of one seat
\* used.
Init ==
    /\ member = {[user |-> Founder, role |-> "OWNER", inviteId |-> 0]}
    /\ invite = << >>
    /\ account = [p \in People |-> IF p = Founder THEN "own" ELSE "none"]
    /\ seatsUsed = 1
    /\ request = [r \in Requests |-> Idle]
    /\ excused = FALSE /\ revived = FALSE
    /\ serial \in BOOLEAN

-----------------------------------------------------------------------------
(* What the handlers read *)

MemberUsers  == {m.user : m \in member}
Owners       == {m \in member : m.role = "OWNER"}
\* Owners who may be removed by requests of each other's at once.
HasRivals(rows) == ~serial /\ Cardinality({m \in rows : m.role = "OWNER"}) > 1
IsOwner(p)   == \E m \in Owners : m.user = p

\* RolesGuard lets an owner pass, and a SUPERADMIN whatever his role here.
\* Which accounts are SUPERADMIN is decided elsewhere: it may be any member.
Manages(p)   == p \in MemberUsers
Pending      == {i \in DOMAIN invite : invite[i].status = "PENDING"}
Usable       == {i \in Pending : ~invite[i].expired}
Row(p)       == {m \in member : m.user = p}

Quiet == \A r \in Requests : request[r] = Idle

Take(r, rec) ==
    /\ request[r] = Idle
    /\ serial => Quiet
    /\ request' = [request EXCEPT ![r] = rec]

Step(r, pc)   == request' = [request EXCEPT ![r].pc = pc]
Finish(r)     == request' = [request EXCEPT ![r] = Idle]
StepIf(ok, r, pc) == IF ok THEN Step(r, pc) ELSE Finish(r)

tables == <<member, invite, account, seatsUsed, excused, revived, serial>>

-----------------------------------------------------------------------------
(* Invites *)

\* sendInvite: one person is invited; the members are counted.
SendInvite(r, by, email, role) ==
    /\ Manages(by)
    /\ Take(r, [pc |-> "countPending", all |-> FALSE, emails |-> {email}, role |-> role, members |-> Cardinality(member)])
    /\ UNCHANGED tables

\* inviteMembers asks for an owner's own row, and no guard but the token's: he
\* invites several at once; the members are counted.
InviteMembers(r, by, emails) ==
    /\ IsOwner(by)
    /\ emails # {}
    /\ Take(r, [pc |-> "countPending", all |-> TRUE, emails |-> emails, role |-> "BROKER", members |-> Cardinality(member)])
    /\ UNCHANGED tables

\* The count has been used.
Proceed(ok, r, pc) ==
    IF ok THEN request' = [request EXCEPT ![r].pc = pc, ![r].members = 0] ELSE Finish(r)

\* Mutant: one more than there are seats.
CountPendingOffByOne(r) ==
    /\ request[r].pc = "countPending"
    /\ IF request[r].all
         THEN Proceed(request[r].members + Cardinality(Pending) + Cardinality(request[r].emails) <= PlanSeats,
                      r, "createInvite")
         ELSE Proceed(request[r].members + Cardinality(Usable) <= Seats, r, "checkMember")
    /\ UNCHANGED tables

\* The two seat checks; inviteMembers also counts the invites that expired.
CountPending(r) ==
    /\ request[r].pc = "countPending"
    /\ IF request[r].all
         THEN Proceed(request[r].members + Cardinality(Pending) + Cardinality(request[r].emails) <= PlanSeats,
                      r, "createInvite")
         ELSE Proceed(request[r].members + Cardinality(Usable) < Seats, r, "checkMember")
    /\ UNCHANGED tables

CheckMember(r) ==
    /\ request[r].pc = "checkMember"
    /\ StepIf(request[r].emails \cap MemberUsers = {}, r, "revokeOld")
    /\ UNCHANGED tables

RevokeOld(r) ==
    /\ request[r].pc = "revokeOld"
    /\ invite' = [i \in DOMAIN invite |->
                    IF i \in Pending /\ invite[i].email \in request[r].emails
                      THEN [invite[i] EXCEPT !.status = "REVOKED"] ELSE invite[i]]
    /\ Step(r, "createInvite")
    /\ UNCHANGED <<member, account, seatsUsed, excused, revived, serial>>

\* The key that inviteMembers upserts on is never stored: it always creates.
CreateInvite(r, email) ==
    /\ request[r].pc = "createInvite"
    /\ email \in request[r].emails
    /\ Len(invite) < MaxInvites
    /\ invite' = Append(invite, [email |-> email, role |-> request[r].role, status |-> "PENDING",
                                 expired |-> FALSE])
    /\ IF request[r].emails = {email} THEN Finish(r)
       ELSE request' = [request EXCEPT ![r].emails = @ \ {email}]
    /\ UNCHANGED <<member, account, seatsUsed, excused, revived, serial>>

\* revokeInvite writes whatever the status is; what it reads, that the row
\* exists, is always so.
RevokeInvite(by, i) ==
    /\ Manages(by)
    /\ serial => Quiet
    /\ i \in DOMAIN invite
    /\ invite' = [invite EXCEPT ![i].status = "REVOKED"]
    /\ UNCHANGED <<member, account, seatsUsed, request, excused, revived, serial>>

ResendInvite(r, by, i) ==
    /\ Manages(by)
    /\ i \in Pending
    /\ Take(r, [pc |-> "extend", invite |-> i])
    /\ UNCHANGED tables

\* An invite that had expired is usable again.
Extend(r) ==
    /\ request[r].pc = "extend"
    /\ invite' = [invite EXCEPT ![request[r].invite].expired = FALSE]
    /\ revived' = (revived \/ (serial /\ invite[request[r].invite].expired))
    /\ Finish(r)
    /\ UNCHANGED <<member, account, seatsUsed, excused, serial>>

\* The invite's expiry date passes.
Expire(i) ==
    /\ i \in Usable
    /\ invite' = [invite EXCEPT ![i].expired = TRUE]
    /\ UNCHANGED <<member, account, seatsUsed, request, excused, revived, serial>>

-----------------------------------------------------------------------------
(* Joining *)

\* The token's strategy asks for a membership: of this firm or of one's own.
LoggedIn(p) == account[p] = "own" \/ p \in MemberUsers

\* acceptInvite, where getInviteByToken and the e-mail let it pass.
AcceptInvite(r, p, i) ==
    /\ LoggedIn(p)
    /\ i \in Usable
    /\ invite[i].email = p
    /\ Take(r, [pc |-> "checkMembership", user |-> p, invite |-> i])
    /\ UNCHANGED tables

CheckMembership(r) ==
    /\ request[r].pc = "checkMembership"
    /\ StepIf(request[r].user \notin MemberUsers, r, "join")
    /\ UNCHANGED tables

\* Mutants: a status the enum does not have; the invite stays pending.
AdmitUsed(r) ==
    LET i == request[r].invite IN
    /\ member' = member \cup {[user |-> request[r].user,
                          role |-> invite[i].role, inviteId |-> i]}
    /\ invite' = [invite EXCEPT ![i].status = "USED"]
    /\ seatsUsed' = seatsUsed + 1
    /\ excused' = (excused \/ HasRivals(member'))

AdmitAgain(r) ==
    LET i == request[r].invite IN
    /\ member' = member \cup {[user |-> request[r].user,
                          role |-> invite[i].role, inviteId |-> i]}
    /\ seatsUsed' = seatsUsed + 1
    /\ excused' = (excused \/ HasRivals(member'))
    /\ UNCHANGED invite

\* What both transactions write.
Admit(r) ==
    LET i == request[r].invite IN
    /\ member' = member \cup {[user |-> request[r].user,
                          role |-> invite[i].role, inviteId |-> i]}
    /\ invite' = [invite EXCEPT ![i].status = "ACCEPTED"]
    /\ seatsUsed' = seatsUsed + 1
    /\ excused' = (excused \/ HasRivals(member'))

\* The transaction fails on the key (workspaceId, userId).  It does not read
\* the invite again: one revoked or used meanwhile still admits.
Join(r) ==
    /\ request[r].pc = "join"
    /\ Finish(r)
    /\ IF request[r].user \in MemberUsers THEN UNCHANGED <<member, invite, seatsUsed, excused>> ELSE Admit(r)
    /\ UNCHANGED <<account, revived, serial>>

\* registerViaInvite: invite and e-mail are checked, then the password hashed.
RegisterViaInvite(r, p, i) ==
    /\ i \in Usable
    /\ invite[i].email = p
    /\ account[p] = "none"
    /\ Take(r, [pc |-> "registerJoin", user |-> p, invite |-> i])
    /\ UNCHANGED tables

\* The transaction fails on the key of users' e-mails.
RegisterJoin(r) ==
    /\ request[r].pc = "registerJoin"
    /\ Finish(r)
    /\ IF account[request[r].user] # "none"
         THEN UNCHANGED <<member, invite, seatsUsed, excused, account>>
         ELSE /\ Admit(r)
              /\ account' = [account EXCEPT ![request[r].user] = "invited"]
    /\ UNCHANGED <<revived, serial>>

\* register and googleAuth: an account with a firm of its own.  (An address
\* stands for its lower-case form.)
SignUp(p) ==
    /\ account[p] = "none"
    /\ serial => Quiet
    /\ account' = [account EXCEPT ![p] = "own"]
    /\ UNCHANGED <<member, invite, seatsUsed, request, excused, revived, serial>>

-----------------------------------------------------------------------------
(* Roles and removal *)

\* Whether the owners are counted: an owner is removed, or demotes himself.
Guarded(by, m, action) ==
    \/ action = "remove" /\ m.role = "OWNER"
    \/ action = "BROKER" /\ m.user = by

\* Who is not an owner demotes one: nothing counts the owners.
Overrides(by, m, action) == ~IsOwner(by) /\ m.role = "OWNER" /\ action = "BROKER"

\* updateMemberRole (action is the new role) and removeMember: the row is read.
ChangeMember(r, by, m, action) ==
    /\ Manages(by)
    /\ Take(r, [pc |-> IF Guarded(by, m, action) THEN "countOwners" ELSE "apply",
                target |-> m.user, action |-> action, override |-> Overrides(by, m, action)])
    /\ UNCHANGED tables

\* Mutant: the owners are not counted.
CountOwnersAny(r) ==
    /\ request[r].pc = "countOwners"
    /\ Step(r, "apply")
    /\ UNCHANGED tables

CountOwners(r) ==
    /\ request[r].pc = "countOwners"
    /\ StepIf(Cardinality(Owners) > 1, r, "apply")
    /\ UNCHANGED tables

\* The write by id fails if the row is gone.
UpdateRole(r) ==
    /\ request[r].pc = "apply" /\ request[r].action # "remove"
    /\ member' = (member \ Row(request[r].target))
                 \cup {[m EXCEPT !.role = request[r].action] : m \in Row(request[r].target)}
    /\ excused' = (excused \/ request[r].override \/ HasRivals(member'))
    /\ Finish(r)
    /\ UNCHANGED <<invite, account, seatsUsed, revived, serial>>

\* r is done, and no other request's id finds the deleted row (a person who
\* joins again has a new one).
Forget(r, p) ==
    request' = [q \in Requests |->
        IF q = r THEN Idle
        ELSE IF request[q].pc \in {"countOwners", "apply"} /\ request[q].target = p
          THEN [request[q] EXCEPT !.target = Gone] ELSE request[q]]

\* Mutant: the seat is given back whether or not there was a row.
RemoveMemberAnyway(r) ==
    /\ request[r].pc = "apply" /\ request[r].action = "remove"
    /\ member' = member \ Row(request[r].target)
    /\ seatsUsed' = seatsUsed - 1
    /\ Forget(r, request[r].target)
    /\ UNCHANGED <<invite, account, excused, revived, serial>>

RemoveMember(r) ==
    /\ request[r].pc = "apply" /\ request[r].action = "remove"
    /\ member' = member \ Row(request[r].target)
    /\ seatsUsed' = IF Row(request[r].target) = {} THEN seatsUsed ELSE seatsUsed - 1
    /\ Forget(r, request[r].target)
    /\ UNCHANGED <<invite, account, excused, revived, serial>>

-----------------------------------------------------------------------------

Serve(r) ==
    \/ CountPending(r) \/ CheckMember(r) \/ RevokeOld(r)
    \/ \E p \in People : CreateInvite(r, p)
    \/ Extend(r)
    \/ CheckMembership(r) \/ Join(r) \/ RegisterJoin(r)
    \/ CountOwners(r) \/ UpdateRole(r) \/ RemoveMember(r)

Next ==
    \/ \E r \in Requests :
        \/ Serve(r)
        \/ \E by, p \in People, role \in Roles : SendInvite(r, by, p, role)
        \/ \E by \in People, emails \in SUBSET People : InviteMembers(r, by, emails)
        \/ \E by \in People, i \in DOMAIN invite : ResendInvite(r, by, i)
        \/ \E p \in People, i \in DOMAIN invite : AcceptInvite(r, p, i) \/ RegisterViaInvite(r, p, i)
        \/ \E by \in People, m \in member, action \in {"remove"} \cup Roles : ChangeMember(r, by, m, action)
    \/ \E by \in People, i \in DOMAIN invite : RevokeInvite(by, i)
    \/ \E i \in DOMAIN invite : Expire(i)
    \/ \E p \in People : SignUp(p)

Spec == Init /\ [][Next]_vars

-----------------------------------------------------------------------------
(* Properties *)

\* The seats the administrator is shown as used are the members there are, with
\* two requests removing one member, or one person joining twice, at once.
SeatsUsedCounts == seatsUsed = Cardinality(member)

\* Every member but the founder came by an invite to his own e-mail, and no
\* other member by the same; an invite that admitted someone is not pending
\* again, so that no seat is counted for it twice.
MembersWereInvited ==
    \A m \in member : m.inviteId # 0 =>
        /\ m.inviteId \in DOMAIN invite \ Pending
        /\ invite[m.inviteId].email = m.user
        /\ \A n \in member : n.inviteId = m.inviteId => n = m

\* "Cannot remove the only owner of a workspace": a firm is left without an
\* owner only in a race between owners, or where a superadmin who is none of
\* them demotes one.  Without that, requests of every kind, taken one at a
\* time, or overlapping while there is never more than one owner, leave it one.
LastOwnerStays == ~excused => Owners # {}

\* "Seat limit reached": taken one at a time, requests never promise more seats
\* than there are, unless an invite that had expired is sent again, which asks
\* for no seat.  Expiry itself comes at any time.
SerialSeatsKept == serial /\ ~revived => Cardinality(member) + Cardinality(Usable) <= Seats
=============================================================================
