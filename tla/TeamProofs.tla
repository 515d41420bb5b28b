----------------------------- MODULE TeamProofs -----------------------------
(***************************************************************************)
(* For every number of people, requests, seats and invites: the seats used *)
(* are the members there are, and no member came but by an invite of his   *)
(* own, used once.  As long as changes do not overlap a firm keeps an      *)
(* owner, and its seats suffice for its members and its invites.           *)
(***************************************************************************)
EXTENDS Team, FiniteSetTheorems, SequenceTheorems, TLAPS

RequestRows == {Idle} \cup Inviting \cup Resending \cup Joining \cup Changing

-----------------------------------------------------------------------------
(* The inductive invariant *)

\* A person has one row, and an account.
OneRowEach  == \A m, n \in member : m.user = n.user => m = n
AccountHeld == \A m \in member : account[m.user] # "none"

\* Requests hold invites that exist, and whoever joins holds his own.
RequestSound(r) ==
    /\ request[r].pc \in {"checkMembership", "join", "registerJoin"} =>
         /\ request[r].invite \in DOMAIN invite
         /\ invite[request[r].invite].email = request[r].user
    /\ request[r].pc \in {"checkMembership", "join"} => account[request[r].user] # "none"
    /\ request[r].pc = "extend" => request[r].invite \in DOMAIN invite
RequestsSound == \A r \in Requests : RequestSound(r)

TeamIInv ==
    /\ TeamTypeOK
    /\ IsFiniteSet(member)
    /\ SeatsUsedCounts
    /\ MembersWereInvited
    /\ OneRowEach
    /\ AccountHeld
    /\ RequestsSound

\* No step deletes an invite, readdresses it or makes it pending again.
InvitesKept ==
    /\ DOMAIN invite \subseteq DOMAIN invite'
    /\ \A i \in DOMAIN invite :
        /\ invite'[i].email = invite[i].email
        /\ invite[i].status # "PENDING" => invite'[i].status # "PENDING"

\* Nor does one take an account away.
AccountsKept == \A p \in People : account[p] # "none" => account'[p] # "none"

-----------------------------------------------------------------------------
(* Which kind of request is at which step *)

\* The program counter tells the kind of a request.
LEMMA KindOf ==
  ASSUME TeamTypeOK, NEW r \in Requests
  PROVE  /\ request[r].pc \in {"countPending", "checkMember", "revokeOld", "createInvite"}
              => request[r] \in Inviting
         /\ request[r].pc = "extend" => request[r] \in Resending
         /\ request[r].pc \in {"checkMembership", "join", "registerJoin"} => request[r] \in Joining
         /\ request[r].pc \in {"countOwners", "apply"} => request[r] \in Changing
  <1>1. request[r] \in {Idle} \cup Inviting \cup Resending \cup Joining \cup Changing
    BY DEF TeamTypeOK
  <1> QED BY <1>1 DEF Idle, Inviting, Resending, Joining, Changing

\* A record of r that is a request keeps the type of all.
LEMMA RequestType ==
  ASSUME TeamTypeOK, NEW r \in Requests, NEW rec \in RequestRows,
         request' = [request EXCEPT ![r] = rec]
  PROVE  /\ request' \in [Requests -> RequestRows]
         /\ request'[r] = rec
         /\ \A q \in Requests \ {r} : request'[q] = request[q]
  BY DEF TeamTypeOK, RequestRows

\* A request that does not move stays sound while the tables only grow.
LEMMA SoundAt ==
  ASSUME TeamTypeOK, RequestsSound, InvitesKept, AccountsKept, NEW q \in Requests,
         request'[q] = request[q]
  PROVE  RequestSound(q)'
  <1>1. RequestSound(q) BY DEF RequestsSound
  <1>2. request[q].pc \in {"checkMembership", "join"} => request[q].user \in People
    BY KindOf DEF Joining
  <1> QED BY <1>1, <1>2 DEF RequestSound, InvitesKept, AccountsKept

\* Members stay invited while only invites and accounts move on.
LEMMA MembersKept ==
  ASSUME TeamIInv, InvitesKept, AccountsKept, member' = member, seatsUsed' = seatsUsed
  PROVE  /\ SeatsUsedCounts' /\ MembersWereInvited' /\ OneRowEach' /\ AccountHeld'
         /\ IsFiniteSet(member)'
  <1>1. SeatsUsedCounts' /\ OneRowEach' /\ IsFiniteSet(member)'
    BY DEF TeamIInv, SeatsUsedCounts, OneRowEach
  <1>2. AccountHeld'
    BY DEF TeamIInv, TeamTypeOK, MemberRows, AccountHeld, AccountsKept
  <1>3. MembersWereInvited'
    BY DEF TeamIInv, MembersWereInvited, InvitesKept, Pending
  <1> QED BY <1>1, <1>2, <1>3

-----------------------------------------------------------------------------
(* The steps that leave the members alone *)

\* Invites and accounts move on, and with them the request r.
LEMMA GrowStep ==
  ASSUME TeamIInv, NEW r \in Requests, NEW rec \in RequestRows,
         request' = [request EXCEPT ![r] = rec], RequestSound(r)',
         member' = member, seatsUsed' = seatsUsed, InvitesKept, AccountsKept,
         invite' \in Seq(InviteRows), account' \in [People -> {"none", "own", "invited"}],
         {excused', revived', serial'} \subseteq BOOLEAN
  PROVE  TeamIInv'
  <1>1. request' \in [Requests -> RequestRows] /\ \A q \in Requests \ {r} : request'[q] = request[q]
    BY RequestType DEF TeamIInv
  <1>2. RequestsSound'
    BY <1>1, SoundAt DEF TeamIInv, RequestsSound
  <1>3. TeamTypeOK'
    BY <1>1 DEF TeamIInv, TeamTypeOK, RequestRows
  <1> QED BY <1>2, <1>3, MembersKept DEF TeamIInv

\* Only the request r moves on.
LEMMA MoveStep ==
  ASSUME TeamIInv, NEW r \in Requests, NEW rec \in RequestRows,
         request' = [request EXCEPT ![r] = rec], RequestSound(r)', UNCHANGED tables
  PROVE  TeamIInv'
  <1>1. InvitesKept /\ AccountsKept
    BY DEF tables, InvitesKept, AccountsKept
  <1>2. invite' \in Seq(InviteRows) /\ account' \in [People -> {"none", "own", "invited"}]
    BY DEF tables, TeamIInv, TeamTypeOK
  <1>3. {excused', revived', serial'} \subseteq BOOLEAN
    BY DEF tables, TeamIInv, TeamTypeOK
  <1> QED BY <1>1, <1>2, <1>3, GrowStep DEF tables

\* No request moves.
LEMMA TableStep ==
  ASSUME TeamIInv, UNCHANGED <<member, seatsUsed, request, excused, revived, serial>>,
         InvitesKept, AccountsKept,
         invite' \in Seq(InviteRows), account' \in [People -> {"none", "own", "invited"}]
  PROVE  TeamIInv'
  <1>1. RequestsSound'
    <2> SUFFICES ASSUME NEW q \in Requests PROVE RequestSound(q)'
      BY DEF RequestsSound
    <2>1. request'[q] = request[q] OBVIOUS
    <2> QED BY <2>1, SoundAt DEF TeamIInv
  <1>2. TeamTypeOK'
    BY DEF TeamIInv, TeamTypeOK
  <1> QED BY <1>1, <1>2, MembersKept DEF TeamIInv

\* A request that holds no invite is sound.
LEMMA PlainSound ==
  ASSUME TeamIInv, NEW r \in Requests, NEW rec \in RequestRows,
         request' = [request EXCEPT ![r] = rec],
         rec.pc \notin {"checkMembership", "join", "registerJoin", "extend"}
  PROVE  RequestSound(r)'
  <1>1. request'[r] = rec BY RequestType DEF TeamIInv
  <1> QED BY <1>1 DEF RequestSound

\* The requests as they are taken up.
LEMMA Taken ==
  ASSUME TeamIInv, NEW r \in Requests, NEW rec \in RequestRows, Take(r, rec), UNCHANGED tables,
         \/ rec.pc \notin {"checkMembership", "join", "registerJoin", "extend"}
         \/ /\ rec.invite \in DOMAIN invite
            /\ rec.pc # "extend" => invite[rec.invite].email = rec.user
            /\ rec.pc \in {"checkMembership", "join"} => account[rec.user] # "none"
  PROVE  TeamIInv'
  <1>1. request' = [request EXCEPT ![r] = rec] BY DEF Take
  <1>2. request'[r] = rec BY <1>1, RequestType DEF TeamIInv
  <1>3. RequestSound(r)' BY <1>1, <1>2, PlainSound DEF RequestSound, tables
  <1> QED BY <1>1, <1>3, MoveStep

\* A request that is done or refused.
LEMMA Finished ==
  ASSUME TeamIInv, NEW r \in Requests, Finish(r)
  PROVE  /\ Idle \in RequestRows
         /\ request' = [request EXCEPT ![r] = Idle]
         /\ RequestSound(r)'
  <1>1. Idle \in RequestRows BY DEF RequestRows
  <1>2. request' = [request EXCEPT ![r] = Idle] BY DEF Finish
  <1> QED BY <1>1, <1>2, PlainSound DEF Idle

LEMMA FinishStep ==
  ASSUME TeamIInv, NEW r \in Requests, Finish(r), UNCHANGED tables
  PROVE  TeamIInv'
  BY Finished, MoveStep

\* Types are finite: so are the counts.
LEMMA MemberCount == ASSUME TeamIInv PROVE Cardinality(member) \in Nat
  BY FS_CardinalityType DEF TeamIInv

LEMMA InvitingSteps ==
  ASSUME TeamIInv, NEW r \in Requests, CountPending(r) \/ CheckMember(r)
  PROVE  TeamIInv'
  <1>0. UNCHANGED tables BY DEF CountPending, CheckMember
  <1>1. request[r] \in Inviting BY KindOf DEF TeamIInv, CountPending, CheckMember
  <1>2. ASSUME NEW pc \in {"checkMember", "createInvite"}, NEW ok, Proceed(ok, r, pc)
        PROVE  TeamIInv'
    <2>1. CASE Finish(r) BY <2>1, <1>0, FinishStep
    <2>2. CASE request' = [request EXCEPT ![r].pc = pc, ![r].members = 0]
      <3> DEFINE rec == [request[r] EXCEPT !.pc = pc, !.members = 0]
      <3>1. rec \in Inviting BY <1>1 DEF Inviting
      <3>2. rec.pc = pc BY <1>1 DEF Inviting
      <3>3. request' = [request EXCEPT ![r] = rec] BY <2>2
      <3>4. rec \in RequestRows BY <3>1 DEF RequestRows
      <3> HIDE DEF rec
      <3>5. RequestSound(r)' BY <3>2, <3>3, <3>4, PlainSound
      <3> QED BY <1>0, <3>3, <3>4, <3>5, MoveStep
    <2> QED BY <1>2, <2>1, <2>2 DEF Proceed
  <1>3. ASSUME CheckMember(r) PROVE TeamIInv'
    <2>1. CASE Finish(r) BY <2>1, <1>0, FinishStep
    <2>2. CASE Step(r, "revokeOld")
      <3> DEFINE rec == [request[r] EXCEPT !.pc = "revokeOld"]
      <3>1. rec \in Inviting BY <1>1 DEF Inviting
      <3>2. rec.pc = "revokeOld" BY <1>1 DEF Inviting
      <3>3. request' = [request EXCEPT ![r] = rec] BY <2>2 DEF Step
      <3>4. rec \in RequestRows BY <3>1 DEF RequestRows
      <3> HIDE DEF rec
      <3>5. RequestSound(r)' BY <3>2, <3>3, <3>4, PlainSound
      <3> QED BY <1>0, <3>3, <3>4, <3>5, MoveStep
    <2> QED BY <1>3, <2>1, <2>2 DEF CheckMember, StepIf
  <1>4. ASSUME CountPending(r) PROVE TeamIInv'
    <2>1. CASE request[r].all BY <1>2, <1>4, <2>1 DEF CountPending
    <2>2. CASE ~request[r].all BY <1>2, <1>4, <2>2 DEF CountPending
    <2> QED BY <2>1, <2>2
  <1> QED BY <1>3, <1>4

-----------------------------------------------------------------------------
(* The steps that write invites and accounts *)

\* One invite is edited, keeping its address.
LEMMA InviteEdited ==
  ASSUME TeamIInv, NEW i \in DOMAIN invite, NEW row \in InviteRows,
         invite' = [invite EXCEPT ![i] = row], row.email = invite[i].email,
         row.status = "PENDING" => invite[i].status = "PENDING"
  PROVE  /\ invite' \in Seq(InviteRows)
         /\ DOMAIN invite' = DOMAIN invite
         /\ InvitesKept
  <1>1. invite \in Seq(InviteRows) BY DEF TeamIInv, TeamTypeOK
  <1>2. DOMAIN invite = 1 .. Len(invite) BY <1>1
  <1>3. invite' \in Seq(InviteRows) BY <1>1, <1>2, ExceptSeq
  <1>4. DOMAIN invite' = DOMAIN invite OBVIOUS
  <1>5. InvitesKept BY <1>4 DEF InvitesKept
  <1> QED BY <1>3, <1>4, <1>5

\* What any invite is.
LEMMA InviteType ==
  ASSUME TeamIInv, NEW i \in DOMAIN invite
  PROVE  invite[i] \in InviteRows
  <1>1. invite \in Seq(InviteRows) BY DEF TeamIInv, TeamTypeOK
  <1> QED BY <1>1

LEMMA RevokeOldStep ==
  ASSUME TeamIInv, NEW r \in Requests, RevokeOld(r)
  PROVE  TeamIInv'
  <1> DEFINE rec == [request[r] EXCEPT !.pc = "createInvite"]
  <1>1. request[r] \in Inviting BY KindOf DEF TeamIInv, RevokeOld
  <1>2. rec \in RequestRows /\ rec.pc = "createInvite" BY <1>1 DEF Inviting, RequestRows
  <1>3. request' = [request EXCEPT ![r] = rec] BY DEF RevokeOld, Step
  <1> HIDE DEF rec
  <1>4. RequestSound(r)' BY <1>2, <1>3, PlainSound
  <1>5. invite \in Seq(InviteRows) BY DEF TeamIInv, TeamTypeOK
  <1>6. invite' \in Seq(InviteRows)
    <2>1. Len(invite) \in Nat /\ DOMAIN invite = 1 .. Len(invite) BY <1>5
    <2>2. \A i \in DOMAIN invite : invite[i] \in InviteRows BY InviteType
    <2>3. \A i \in DOMAIN invite : [invite[i] EXCEPT !.status = "REVOKED"] \in InviteRows
      BY <2>2 DEF InviteRows
    <2>4. invite' \in [1 .. Len(invite) -> InviteRows] BY <2>1, <2>2, <2>3 DEF RevokeOld
    <2> QED BY <2>1, <2>4, SeqDef
  <1>7. InvitesKept /\ AccountsKept
    BY <1>5 DEF RevokeOld, InvitesKept, AccountsKept, InviteRows
  <1> QED BY <1>2, <1>3, <1>4, <1>6, <1>7, GrowStep DEF RevokeOld, TeamIInv, TeamTypeOK

LEMMA CreateInviteStep ==
  ASSUME TeamIInv, NEW r \in Requests, NEW p \in People, CreateInvite(r, p)
  PROVE  TeamIInv'
  <1>1. request[r] \in Inviting BY KindOf DEF TeamIInv, CreateInvite
  <1>2. invite \in Seq(InviteRows) BY DEF TeamIInv, TeamTypeOK
  <1> DEFINE row == [email |-> p, role |-> request[r].role, status |-> "PENDING", expired |-> FALSE]
  <1>3. row \in InviteRows BY <1>1 DEF Inviting, InviteRows
  <1>4. invite' = Append(invite, row) BY DEF CreateInvite
  <1> HIDE DEF row
  <1>5. invite' \in Seq(InviteRows) BY <1>2, <1>3, <1>4
  <1>6. InvitesKept BY <1>2, <1>3, <1>4 DEF InvitesKept
  <1>7. AccountsKept BY DEF CreateInvite, AccountsKept
  <1>8. \E rec \in RequestRows : request' = [request EXCEPT ![r] = rec] /\ RequestSound(r)'
    <2>1. CASE Finish(r) BY <2>1, Finished
    <2>2. CASE request' = [request EXCEPT ![r].emails = @ \ {p}]
      <3> DEFINE rec == [request[r] EXCEPT !.emails = @ \ {p}]
      <3>1. rec \in RequestRows BY <1>1 DEF Inviting, RequestRows
      <3>2. rec.pc = "createInvite" BY <1>1 DEF Inviting, CreateInvite
      <3>3. request' = [request EXCEPT ![r] = rec] BY <2>2
      <3> HIDE DEF rec
      <3> QED BY <3>1, <3>2, <3>3, PlainSound
    <2> QED BY <2>1, <2>2 DEF CreateInvite
  <1> QED BY <1>5, <1>6, <1>7, <1>8, GrowStep DEF CreateInvite, TeamIInv, TeamTypeOK

LEMMA ExtendStep ==
  ASSUME TeamIInv, NEW r \in Requests, Extend(r)
  PROVE  TeamIInv'
  <1>1. request[r] \in Resending BY KindOf DEF TeamIInv, Extend
  <1>2. invite \in Seq(InviteRows) BY DEF TeamIInv, TeamTypeOK
  <1>3. request[r].invite \in DOMAIN invite
    BY DEF TeamIInv, RequestsSound, RequestSound, Extend
  <1> DEFINE i == request[r].invite
             row == [invite[i] EXCEPT !.expired = FALSE]
  <1>4. invite[i] \in InviteRows BY <1>3, InviteType
  <1>5. invite' \in Seq(InviteRows) /\ InvitesKept
    <2>1. row \in InviteRows /\ row.email = invite[i].email /\ row.status = invite[i].status
      BY <1>4 DEF InviteRows
    <2>2. invite' = [invite EXCEPT ![i] = row] BY DEF Extend
    <2> HIDE DEF row
    <2> QED BY <1>3, <2>1, <2>2, InviteEdited
  <1>6. revived' \in BOOLEAN
    BY <1>4 DEF Extend, InviteRows, TeamIInv, TeamTypeOK
  <1>7. Idle \in RequestRows /\ request' = [request EXCEPT ![r] = Idle] /\ RequestSound(r)'
    BY Finished DEF Extend
  <1>8. AccountsKept BY DEF Extend, AccountsKept
  <1> QED BY <1>5, <1>6, <1>7, <1>8, GrowStep DEF Extend, TeamIInv, TeamTypeOK

LEMMA TableSteps ==
  ASSUME TeamIInv,
         \/ \E by \in People, i \in DOMAIN invite : RevokeInvite(by, i)
         \/ \E i \in DOMAIN invite : Expire(i)
         \/ \E p \in People : SignUp(p)
  PROVE  TeamIInv'
  <1>1. invite \in Seq(InviteRows) BY DEF TeamIInv, TeamTypeOK
  <1>2. account \in [People -> {"none", "own", "invited"}] BY DEF TeamIInv, TeamTypeOK
  <1>3. ASSUME NEW i \in DOMAIN invite, NEW row \in InviteRows,
               invite' = [invite EXCEPT ![i] = row], row.email = invite[i].email,
               row.status = "PENDING" => invite[i].status = "PENDING",
               UNCHANGED <<member, account, seatsUsed, request, excused, revived, serial>>
        PROVE  TeamIInv'
    <2>1. invite' \in Seq(InviteRows) /\ InvitesKept BY <1>3, InviteEdited
    <2>2. AccountsKept BY <1>3 DEF AccountsKept
    <2> QED BY <1>2, <1>3, <2>1, <2>2, TableStep
  <1>4. ASSUME NEW i \in DOMAIN invite, (\E by \in People : RevokeInvite(by, i)) \/ Expire(i)
        PROVE  TeamIInv'
    <2>1. invite[i] \in InviteRows BY InviteType
    <2>2. CASE \E by \in People : RevokeInvite(by, i)
      <3> DEFINE row == [invite[i] EXCEPT !.status = "REVOKED"]
      <3>1. row \in InviteRows /\ row.email = invite[i].email /\ row.status = "REVOKED"
        BY <2>1 DEF InviteRows
      <3>2. invite' = [invite EXCEPT ![i] = row] BY <2>2 DEF RevokeInvite
      <3> HIDE DEF row
      <3> QED BY <1>3, <2>2, <3>1, <3>2 DEF RevokeInvite
    <2>3. CASE Expire(i)
      <3> DEFINE row == [invite[i] EXCEPT !.expired = TRUE]
      <3>1. row \in InviteRows /\ row.email = invite[i].email /\ row.status = invite[i].status
        BY <2>1 DEF InviteRows
      <3>2. invite' = [invite EXCEPT ![i] = row] BY <2>3 DEF Expire
      <3> HIDE DEF row
      <3> QED BY <1>3, <2>3, <3>1, <3>2 DEF Expire
    <2> QED BY <1>4, <2>2, <2>3
  <1>5. CASE \E p \in People : SignUp(p)
    <2>1. account' \in [People -> {"none", "own", "invited"}] BY <1>2, <1>5 DEF SignUp
    <2>2. InvitesKept /\ AccountsKept
      BY <1>2, <1>5 DEF SignUp, InvitesKept, AccountsKept
    <2> QED BY <1>1, <1>5, <2>1, <2>2, TableStep DEF SignUp
  <1> QED BY <1>4, <1>5

-----------------------------------------------------------------------------
(* The steps that write members *)

\* A row of a person who had none, by an invite of his own.
LEMMA AdmitStep ==
  ASSUME TeamIInv, NEW r \in Requests, request[r] \in Joining, Admit(r), Finish(r),
         request[r].invite \in DOMAIN invite,
         invite[request[r].invite].email = request[r].user,
         request[r].user \notin MemberUsers,
         account' \in [People -> {"none", "own", "invited"}], AccountsKept,
         account'[request[r].user] # "none", UNCHANGED <<revived, serial>>
  PROVE  TeamIInv'
  <1> DEFINE i == request[r].invite
             p == request[r].user
             row == [user |-> p, role |-> invite[i].role, inviteId |-> i]
             new == [invite[i] EXCEPT !.status = "ACCEPTED"]
  <1>1. invite[i] \in InviteRows BY InviteType
  <1>2. new \in InviteRows /\ new.email = invite[i].email /\ new.status = "ACCEPTED"
    BY <1>1 DEF InviteRows
  <1>3. invite' = [invite EXCEPT ![i] = new] BY DEF Admit
  <1>4. member' = member \cup {row} BY DEF Admit
  <1>5. i \in Nat \ {0}
    <2>1. invite \in Seq(InviteRows) BY DEF TeamIInv, TeamTypeOK
    <2>2. DOMAIN invite = 1 .. Len(invite) /\ Len(invite) \in Nat BY <2>1
    <2> QED BY <2>2
  <1>6. row \in MemberRows /\ row.user = p /\ row.inviteId = i
    BY <1>1, <1>5 DEF InviteRows, MemberRows, Joining
  <1>7. invite'[i].email = p /\ invite'[i].status = "ACCEPTED" BY <1>2, <1>3
  <1> HIDE DEF new, row
  <1>8. invite' \in Seq(InviteRows) /\ DOMAIN invite' = DOMAIN invite /\ InvitesKept
    BY <1>2, <1>3, InviteEdited
  <1>9. row \notin member BY <1>6 DEF MemberUsers
  <1>10. Idle \in RequestRows /\ request' = [request EXCEPT ![r] = Idle] /\ RequestSound(r)'
    BY Finished
  <1>11. request' \in [Requests -> RequestRows] /\ \A q \in Requests \ {r} : request'[q] = request[q]
    BY <1>10, RequestType DEF TeamIInv
  <1>12. RequestsSound'
    BY <1>8, <1>10, <1>11, SoundAt DEF TeamIInv, RequestsSound
  <1>13. IsFiniteSet(member)' /\ SeatsUsedCounts'
    <2>1. IsFiniteSet(member) /\ seatsUsed = Cardinality(member)
      BY DEF TeamIInv, SeatsUsedCounts
    <2>2. IsFiniteSet(member') /\ Cardinality(member') = Cardinality(member) + 1
      BY <1>4, <1>9, <2>1, FS_AddElement
    <2> QED BY <2>1, <2>2 DEF SeatsUsedCounts, Admit
  <1>14. OneRowEach'
    BY <1>4, <1>6 DEF TeamIInv, OneRowEach, MemberUsers
  <1>15. AccountHeld'
    <2>1. \A m \in member : m.user \in People BY DEF TeamIInv, TeamTypeOK, MemberRows
    <2> QED BY <1>4, <1>6, <2>1 DEF TeamIInv, AccountHeld, AccountsKept
  <1>16. MembersWereInvited'
    <2>1. \A m \in member : m.inviteId # i
      BY <1>5 DEF TeamIInv, MembersWereInvited, MemberUsers
    <2>2. \A m \in member : m.inviteId # 0 =>
             m.inviteId \in DOMAIN invite' \ Pending' /\ invite'[m.inviteId].email = m.user
      BY <1>8 DEF TeamIInv, MembersWereInvited, InvitesKept, Pending
    <2>3. \A m, n \in member : m.inviteId # 0 /\ m.inviteId = n.inviteId => m = n
      BY DEF TeamIInv, MembersWereInvited
    <2>4. i \in DOMAIN invite' \ Pending' /\ invite'[i].email = p
      BY <1>7, <1>8 DEF Pending
    <2> QED BY <1>4, <1>6, <2>1, <2>2, <2>3, <2>4 DEF MembersWereInvited
  <1>17. seatsUsed' \in Nat /\ excused' \in BOOLEAN
    BY DEF Admit, TeamIInv, TeamTypeOK
  <1>18. member' \subseteq MemberRows BY <1>4, <1>6 DEF TeamIInv, TeamTypeOK
  <1>19. TeamTypeOK'
    BY <1>8, <1>11, <1>17, <1>18 DEF TeamIInv, TeamTypeOK, RequestRows
  <1> QED BY <1>12, <1>13, <1>14, <1>15, <1>16, <1>19 DEF TeamIInv

LEMMA JoiningSteps ==
  ASSUME TeamIInv, NEW r \in Requests, CheckMembership(r) \/ Join(r) \/ RegisterJoin(r)
  PROVE  TeamIInv'
  <1> DEFINE p == request[r].user
  <1>1. request[r] \in Joining
    BY KindOf DEF TeamIInv, CheckMembership, Join, RegisterJoin
  <1>2. /\ request[r].invite \in DOMAIN invite
        /\ invite[request[r].invite].email = p
        /\ request[r].pc # "registerJoin" => account[p] # "none"
    BY <1>1 DEF TeamIInv, RequestsSound, RequestSound, Joining
  <1>3. account \in [People -> {"none", "own", "invited"}] /\ p \in People
    BY <1>1 DEF TeamIInv, TeamTypeOK, Joining
  <1>4. CASE CheckMembership(r)
    <2>1. UNCHANGED tables BY <1>4 DEF CheckMembership
    <2>2. CASE Finish(r) BY <2>1, <2>2, FinishStep
    <2>3. CASE Step(r, "join")
      <3> DEFINE rec == [request[r] EXCEPT !.pc = "join"]
      <3>1. rec \in RequestRows BY <1>1 DEF Joining, RequestRows
      <3>2. rec.pc = "join" /\ rec.user = p /\ rec.invite = request[r].invite
        BY <1>1 DEF Joining
      <3>3. request' = [request EXCEPT ![r] = rec] BY <2>3 DEF Step
      <3>4. request'[r] = rec BY <3>1, <3>3, RequestType DEF TeamIInv
      <3>5. request[r].pc # "registerJoin" BY <1>4 DEF CheckMembership
      <3> HIDE DEF rec
      <3>6. RequestSound(r)' BY <1>2, <2>1, <3>2, <3>4, <3>5 DEF RequestSound, tables
      <3> QED BY <2>1, <3>1, <3>3, <3>6, MoveStep
    <2> QED BY <1>4, <2>2, <2>3 DEF CheckMembership, StepIf
  <1>5. CASE Join(r)
    <2>1. CASE p \in MemberUsers
      <3>1. Finish(r) /\ UNCHANGED tables BY <1>5, <2>1 DEF Join, tables
      <3> QED BY <3>1, FinishStep
    <2>2. CASE p \notin MemberUsers
      <3>1. Finish(r) /\ Admit(r) /\ UNCHANGED <<account, revived, serial>>
        BY <1>5, <2>2 DEF Join
      <3>2. account'[p] # "none" /\ AccountsKept
        BY <1>2, <1>5, <3>1 DEF Join, AccountsKept
      <3> QED BY <1>1, <1>2, <1>3, <2>2, <3>1, <3>2, AdmitStep
    <2> QED BY <2>1, <2>2
  <1>6. CASE RegisterJoin(r)
    <2>1. CASE account[p] # "none"
      <3>1. Finish(r) /\ UNCHANGED tables BY <1>6, <2>1 DEF RegisterJoin, tables
      <3> QED BY <3>1, FinishStep
    <2>2. CASE account[p] = "none"
      <3>1. Finish(r) /\ Admit(r) /\ UNCHANGED <<revived, serial>>
            /\ account' = [account EXCEPT ![p] = "invited"]
        BY <1>6, <2>2 DEF RegisterJoin
      <3>2. account' \in [People -> {"none", "own", "invited"}] /\ account'[p] # "none" /\ AccountsKept
        BY <1>3, <3>1 DEF AccountsKept
      <3>3. p \notin MemberUsers
        BY <2>2 DEF TeamIInv, AccountHeld, MemberUsers
      <3> QED BY <1>1, <1>2, <3>1, <3>2, <3>3, AdmitStep
    <2> QED BY <2>1, <2>2
  <1> QED BY <1>4, <1>5, <1>6

LEMMA CountOwnersStep ==
  ASSUME TeamIInv, NEW r \in Requests, CountOwners(r)
  PROVE  TeamIInv'
  <1>1. request[r] \in Changing BY KindOf DEF TeamIInv, CountOwners
  <1>2. UNCHANGED tables BY DEF CountOwners
  <1>3. CASE Finish(r) BY <1>2, <1>3, FinishStep
  <1>4. CASE Step(r, "apply")
    <2> DEFINE rec == [request[r] EXCEPT !.pc = "apply"]
    <2>1. rec \in RequestRows /\ rec.pc = "apply" BY <1>1 DEF Changing, RequestRows
    <2>2. request' = [request EXCEPT ![r] = rec] BY <1>4 DEF Step
    <2> HIDE DEF rec
    <2>3. RequestSound(r)' BY <2>1, <2>2, PlainSound
    <2> QED BY <1>2, <2>1, <2>2, <2>3, MoveStep
  <1> QED BY <1>3, <1>4 DEF CountOwners, StepIf

\* A person has no row or one.
LEMMA RowOf ==
  ASSUME TeamIInv, NEW p
  PROVE  Row(p) = {} \/ \E m \in member : m.user = p /\ Row(p) = {m}
  BY DEF TeamIInv, OneRowEach, Row

LEMMA UpdateRoleStep ==
  ASSUME TeamIInv, NEW r \in Requests, UpdateRole(r)
  PROVE  TeamIInv'
  <1> DEFINE p == request[r].target
             a == request[r].action
  <1>1. request[r] \in Changing BY KindOf DEF TeamIInv, UpdateRole
  <1>2. a \in Roles BY <1>1 DEF Changing, UpdateRole
  <1>3. Finish(r) BY DEF UpdateRole
  <1>4. Idle \in RequestRows /\ request' = [request EXCEPT ![r] = Idle] /\ RequestSound(r)'
    BY <1>3, Finished
  <1>5. CASE Row(p) = {}
    <2>1. member' = member BY <1>5 DEF UpdateRole
    <2>2. InvitesKept /\ AccountsKept BY DEF UpdateRole, InvitesKept, AccountsKept
    <2>3. {excused', revived', serial'} \subseteq BOOLEAN
      BY DEF UpdateRole, TeamIInv, TeamTypeOK
    <2> QED BY <1>4, <2>1, <2>2, <2>3, GrowStep DEF UpdateRole, TeamIInv, TeamTypeOK
  <1>6. ASSUME NEW m \in member, m.user = p, Row(p) = {m}
        PROVE  TeamIInv'
    <2> DEFINE new == [m EXCEPT !.role = a]
    <2>1. m \in MemberRows BY DEF TeamIInv, TeamTypeOK
    <2>2. new \in MemberRows /\ new.user = p /\ new.inviteId = m.inviteId
      BY <1>2, <1>6, <2>1 DEF MemberRows
    <2>3. member' = (member \ {m}) \cup {new} BY <1>6 DEF UpdateRole
    <2> HIDE DEF new
    <2>4. \A n \in member \ {m} : n.user # p BY <1>6 DEF Row
    <2>5. IsFiniteSet(member') /\ Cardinality(member') = Cardinality(member)
      <3>1. IsFiniteSet(member) BY DEF TeamIInv
      <3>2. IsFiniteSet(member \ {m}) /\ Cardinality(member \ {m}) = Cardinality(member) - 1
        BY <3>1, FS_RemoveElement
      <3>3. new \notin member \ {m} BY <2>2, <2>4
      <3>4. IsFiniteSet(member') /\ Cardinality(member') = Cardinality(member \ {m}) + 1
        BY <2>3, <3>2, <3>3, FS_AddElement
      <3> QED BY <3>1, <3>2, <3>4, FS_CardinalityType
    <2>6. SeatsUsedCounts' BY <2>5 DEF TeamIInv, SeatsUsedCounts, UpdateRole
    <2>7. OneRowEach' BY <2>2, <2>3, <2>4 DEF TeamIInv, OneRowEach
    <2>8. AccountHeld' BY <1>6, <2>2, <2>3 DEF TeamIInv, AccountHeld, UpdateRole
    <2>9. MembersWereInvited'
      <3>1. invite' = invite /\ Pending' = Pending BY DEF UpdateRole, Pending
      <3>2. \A n \in member' : \E o \in member : o.user = n.user /\ o.inviteId = n.inviteId
        BY <1>6, <2>2, <2>3
      <3>3. \A n, o \in member' : n.inviteId # 0 /\ n.inviteId = o.inviteId => n = o
        BY <2>2, <2>3 DEF TeamIInv, MembersWereInvited
      <3> QED BY <3>1, <3>2, <3>3 DEF TeamIInv, MembersWereInvited
    <2>10. request' \in [Requests -> RequestRows] /\ \A q \in Requests \ {r} : request'[q] = request[q]
      BY <1>4, RequestType DEF TeamIInv
    <2>11. RequestsSound'
      <3>1. InvitesKept /\ AccountsKept BY DEF UpdateRole, InvitesKept, AccountsKept
      <3> QED BY <1>4, <2>10, <3>1, SoundAt DEF TeamIInv, RequestsSound
    <2>12. member' \subseteq MemberRows BY <2>2, <2>3 DEF TeamIInv, TeamTypeOK
    <2>13. {excused', revived', serial'} \subseteq BOOLEAN
      BY DEF UpdateRole, TeamIInv, TeamTypeOK
    <2>14. TeamTypeOK'
      BY <2>10, <2>12, <2>13 DEF UpdateRole, TeamIInv, TeamTypeOK, RequestRows
    <2> QED BY <2>5, <2>6, <2>7, <2>8, <2>9, <2>11, <2>14 DEF TeamIInv
  <1> QED BY <1>5, <1>6, RowOf

LEMMA RemoveMemberStep ==
  ASSUME TeamIInv, NEW r \in Requests, RemoveMember(r)
  PROVE  TeamIInv'
  <1> DEFINE p == request[r].target
  <1>1. request' \in [Requests -> RequestRows]
    <2>1. \A q \in Requests : request[q].pc \in {"countOwners", "apply"} =>
             [request[q] EXCEPT !.target = Gone] \in RequestRows
      BY KindOf DEF TeamIInv, Changing, RequestRows
    <2>2. \A q \in Requests : request[q] \in RequestRows
      BY DEF TeamIInv, TeamTypeOK, RequestRows
    <2>3. Idle \in RequestRows BY DEF RequestRows
    <2> QED BY <2>1, <2>2, <2>3 DEF RemoveMember, Forget
  <1>2. InvitesKept /\ AccountsKept BY DEF RemoveMember, InvitesKept, AccountsKept
  <1>3. RequestsSound'
    <2> SUFFICES ASSUME NEW q \in Requests PROVE RequestSound(q)'
      BY DEF RequestsSound
    <2>1. CASE request'[q] = request[q] BY <1>2, <2>1, SoundAt DEF TeamIInv
    <2>2. CASE request'[q] = Idle BY <2>2 DEF RequestSound, Idle
    <2>3. CASE /\ request[q].pc \in {"countOwners", "apply"}
               /\ request'[q] = [request[q] EXCEPT !.target = Gone]
      <3>1. request[q] \in Changing BY <2>3, KindOf DEF TeamIInv
      <3>2. request'[q].pc = request[q].pc BY <2>3, <3>1 DEF Changing
      <3> QED BY <2>3, <3>2 DEF RequestSound
    <2> QED BY <2>1, <2>2, <2>3 DEF RemoveMember, Forget
  <1>4. member' = member \ Row(p) BY DEF RemoveMember
  <1>5. IsFiniteSet(member)' /\ SeatsUsedCounts' /\ seatsUsed' \in Nat
    <2>1. IsFiniteSet(member) /\ seatsUsed = Cardinality(member)
      BY DEF TeamIInv, SeatsUsedCounts
    <2>2. CASE Row(p) = {}
      <3>1. member' = member /\ seatsUsed' = seatsUsed
        BY <1>4, <2>2 DEF RemoveMember
      <3> QED BY <2>1, <3>1, MemberCount DEF SeatsUsedCounts
    <2>3. ASSUME NEW m \in member, Row(p) = {m}
          PROVE  IsFiniteSet(member') /\ seatsUsed' = Cardinality(member')
      <3>1. IsFiniteSet(member \ {m}) /\ Cardinality(member \ {m}) = Cardinality(member) - 1
        BY <2>1, FS_RemoveElement
      <3> QED BY <1>4, <2>1, <2>3, <3>1 DEF RemoveMember
    <2>4. IsFiniteSet(member') /\ seatsUsed' = Cardinality(member')
      BY <2>2, <2>3, RowOf, <1>4, <2>1 DEF RemoveMember
    <2> QED BY <2>4, FS_CardinalityType DEF SeatsUsedCounts
  <1>6. OneRowEach' BY <1>4 DEF TeamIInv, OneRowEach
  <1>7. AccountHeld' BY <1>4 DEF TeamIInv, AccountHeld, RemoveMember
  <1>8. MembersWereInvited' BY <1>4 DEF TeamIInv, MembersWereInvited, RemoveMember, Pending
  <1>9. TeamTypeOK'
    BY <1>1, <1>4, <1>5 DEF RemoveMember, TeamIInv, TeamTypeOK, RequestRows
  <1> QED BY <1>3, <1>5, <1>6, <1>7, <1>8, <1>9 DEF TeamIInv

-----------------------------------------------------------------------------
(* Every step *)

LEMMA TakingSteps ==
  ASSUME TeamIInv, NEW r \in Requests,
         \/ \E by, p \in People, role \in Roles : SendInvite(r, by, p, role)
         \/ \E by \in People, emails \in SUBSET People : InviteMembers(r, by, emails)
         \/ \E by \in People, i \in DOMAIN invite : ResendInvite(r, by, i)
         \/ \E p \in People, i \in DOMAIN invite : AcceptInvite(r, p, i) \/ RegisterViaInvite(r, p, i)
         \/ \E by \in People, m \in member, action \in {"remove"} \cup Roles : ChangeMember(r, by, m, action)
  PROVE  TeamIInv'
  <1>1. Cardinality(member) \in Nat BY MemberCount
  <1>2. CASE \E by, p \in People, role \in Roles : SendInvite(r, by, p, role)
    <2> PICK by, p \in People, role \in Roles : SendInvite(r, by, p, role) BY <1>2
    <2> DEFINE rec == [pc |-> "countPending", all |-> FALSE, emails |-> {p}, role |-> role,
                       members |-> Cardinality(member)]
    <2>1. rec \in RequestRows /\ rec.pc = "countPending" BY <1>1 DEF RequestRows, Inviting
    <2>2. Take(r, rec) /\ UNCHANGED tables BY DEF SendInvite
    <2> QED BY <2>1, <2>2, Taken
  <1>3. CASE \E by \in People, emails \in SUBSET People : InviteMembers(r, by, emails)
    <2> PICK by \in People, emails \in SUBSET People : InviteMembers(r, by, emails) BY <1>3
    <2> DEFINE rec == [pc |-> "countPending", all |-> TRUE, emails |-> emails, role |-> "BROKER",
                       members |-> Cardinality(member)]
    <2>1. rec \in RequestRows /\ rec.pc = "countPending" BY <1>1 DEF RequestRows, Inviting, Roles
    <2>2. Take(r, rec) /\ UNCHANGED tables BY DEF InviteMembers
    <2> QED BY <2>1, <2>2, Taken
  <1>4. CASE \E by \in People, i \in DOMAIN invite : ResendInvite(r, by, i)
    <2> PICK by \in People, i \in DOMAIN invite : ResendInvite(r, by, i) BY <1>4
    <2> DEFINE rec == [pc |-> "extend", invite |-> i]
    <2>1. i \in Nat
      <3>1. invite \in Seq(InviteRows) BY DEF TeamIInv, TeamTypeOK
      <3> QED BY <3>1
    <2>2. rec \in RequestRows /\ rec.pc = "extend" /\ rec.invite = i BY <2>1 DEF RequestRows, Resending
    <2>3. Take(r, rec) /\ UNCHANGED tables BY DEF ResendInvite
    <2> QED BY <2>2, <2>3, Taken
  <1>5. CASE \E p \in People, i \in DOMAIN invite : AcceptInvite(r, p, i) \/ RegisterViaInvite(r, p, i)
    <2> PICK p \in People, i \in DOMAIN invite : AcceptInvite(r, p, i) \/ RegisterViaInvite(r, p, i)
      BY <1>5
    <2> DEFINE rec(pc) == [pc |-> pc, user |-> p, invite |-> i]
    <2>1. i \in Nat
      <3>1. invite \in Seq(InviteRows) BY DEF TeamIInv, TeamTypeOK
      <3> QED BY <3>1
    <2>2. \A pc \in {"checkMembership", "registerJoin"} :
             rec(pc) \in RequestRows /\ rec(pc).pc = pc /\ rec(pc).user = p /\ rec(pc).invite = i
      BY <2>1 DEF RequestRows, Joining
    <2>3. CASE AcceptInvite(r, p, i)
      <3>1. /\ Take(r, rec("checkMembership")) /\ UNCHANGED tables
            /\ invite[i].email = p
        BY <2>3 DEF AcceptInvite
      <3>2. account[p] # "none"
        BY <2>3 DEF AcceptInvite, LoggedIn, MemberUsers, TeamIInv, AccountHeld
      <3> HIDE DEF rec
      <3> QED BY <2>2, <3>1, <3>2, Taken
    <2>4. CASE RegisterViaInvite(r, p, i)
      <3>1. Take(r, rec("registerJoin")) /\ UNCHANGED tables /\ invite[i].email = p
        BY <2>4 DEF RegisterViaInvite
      <3> HIDE DEF rec
      <3> QED BY <2>2, <3>1, Taken
    <2> QED BY <2>3, <2>4
  <1>6. CASE \E by \in People, m \in member, action \in {"remove"} \cup Roles : ChangeMember(r, by, m, action)
    <2> PICK by \in People, m \in member, action \in {"remove"} \cup Roles : ChangeMember(r, by, m, action)
      BY <1>6
    <2> DEFINE pc == IF Guarded(by, m, action) THEN "countOwners" ELSE "apply"
               override == Overrides(by, m, action)
               rec == [pc |-> pc, target |-> m.user, action |-> action, override |-> override]
    <2>1. m.user \in People /\ override \in BOOLEAN
      BY DEF TeamIInv, TeamTypeOK, MemberRows, Overrides
    <2>2. rec \in RequestRows /\ rec.pc \in {"countOwners", "apply"} BY <2>1 DEF RequestRows, Changing
    <2>3. Take(r, rec) /\ UNCHANGED tables BY DEF ChangeMember
    <2> HIDE DEF rec, override
    <2> QED BY <2>2, <2>3, Taken
  <1> QED BY <1>2, <1>3, <1>4, <1>5, <1>6

LEMMA TeamIInvInitially == Init => TeamIInv
  <1> SUFFICES ASSUME Init PROVE TeamIInv
    OBVIOUS
  <1> DEFINE founder == [user |-> Founder, role |-> "OWNER", inviteId |-> 0]
  <1>1. member = {founder} /\ founder \in MemberRows /\ founder.inviteId = 0 /\ founder.user = Founder
    BY TeamAssumption DEF Init, MemberRows, Roles
  <1> HIDE DEF founder
  <1>2. IsFiniteSet(member) /\ Cardinality(member) = 1 BY <1>1, FS_Singleton
  <1>3. TeamTypeOK
    <2>1. member \subseteq MemberRows BY <1>1
    <2>2. invite \in Seq(InviteRows) BY EmptySeq DEF Init
    <2>3. account \in [People -> {"none", "own", "invited"}] BY DEF Init
    <2>4. request \in [Requests -> RequestRows] BY DEF Init, RequestRows
    <2>5. seatsUsed \in Nat /\ {excused, revived, serial} \subseteq BOOLEAN BY DEF Init
    <2> QED BY <2>1, <2>2, <2>3, <2>4, <2>5 DEF TeamTypeOK, RequestRows
  <1>4. SeatsUsedCounts BY <1>2 DEF Init, SeatsUsedCounts
  <1>5. MembersWereInvited /\ OneRowEach BY <1>1 DEF MembersWereInvited, OneRowEach
  <1>6. AccountHeld BY <1>1, TeamAssumption DEF Init, AccountHeld
  <1>7. RequestsSound BY DEF Init, RequestsSound, RequestSound, Idle
  <1> QED BY <1>2, <1>3, <1>4, <1>5, <1>6, <1>7 DEF TeamIInv

LEMMA TeamIInvInductive == TeamIInv /\ [Next]_vars => TeamIInv'
  <1> SUFFICES ASSUME TeamIInv, [Next]_vars PROVE TeamIInv'
    OBVIOUS
  <1>1. ASSUME NEW r \in Requests, Serve(r) PROVE TeamIInv'
    BY <1>1, InvitingSteps, RevokeOldStep, CreateInviteStep, ExtendStep, JoiningSteps,
       CountOwnersStep, UpdateRoleStep, RemoveMemberStep DEF Serve
  <1>2. CASE UNCHANGED vars
    <2>1. UNCHANGED <<member, seatsUsed, request, excused, revived, serial>> /\ invite' = invite /\ account' = account
      BY <1>2 DEF vars
    <2>2. InvitesKept /\ AccountsKept BY <2>1 DEF InvitesKept, AccountsKept
    <2> QED BY <2>1, <2>2, TableStep DEF TeamIInv, TeamTypeOK
  <1> QED BY <1>1, <1>2, TakingSteps, TableSteps DEF Next

\* The inductive invariant holds.
THEOREM Invariance == Spec => []TeamIInv
  BY TeamIInvInitially, TeamIInvInductive, PTL DEF Spec

\* The type invariant holds.
THEOREM TypeCorrect == Spec => []TeamTypeOK
  <1>1. TeamIInv => TeamTypeOK BY DEF TeamIInv
  <1> QED BY Invariance, <1>1, PTL

\* However joins and removals overlap, the column of the seats used counts the
\* members.
THEOREM SeatsCounted == Spec => []SeatsUsedCounts
  <1>1. TeamIInv => SeatsUsedCounts BY DEF TeamIInv
  <1> QED BY Invariance, <1>1, PTL

\* However invites are sent, revoked and accepted, each member but the founder
\* came by one of his own, which admitted nobody else.
THEOREM OnlyTheInvited == Spec => []MembersWereInvited
  <1>1. TeamIInv => MembersWereInvited BY DEF TeamIInv
  <1> QED BY Invariance, <1>1, PTL

-----------------------------------------------------------------------------
(* Owners and seats, where requests are served one at a time or there are   *)
(* never two owners: what the requests in flight hold                       *)

\* Served one at a time, one request at most is in flight.
OneAtATime == serial => \A q, r \in Requests : request[q] # Idle /\ request[r] # Idle => q = r

\* Where requests overlap and nothing is excused there is one owner at most.
OneOwner == ~serial /\ ~excused => \A o, p \in Owners : o = p

\* A request about to demote an owner, asked by one who is none.
Overriding(r) == request[r].action = "BROKER" /\ request[r].override

\* A request about to demote or remove someone, and that overrides no owner,
\* leaves another owner.
OwnerLeft(r) ==
    request[r].pc = "apply" /\ request[r].action # "OWNER" /\ ~Overriding(r)
    => \E o \in Owners : o.user # request[r].target

OwnersKept == ~excused => Owners # {} /\ \A r \in Requests : OwnerLeft(r)

\* The members, and the seats promised to the invites in I, with n seats more.
SeatsFor(I, n) == Cardinality(member) + Cardinality(I) + n <= Seats

\* What a request has counted, or is about to fill, is still there.
SeatFree(r) ==
    /\ request[r].pc = "countPending" =>
         /\ request[r].members = Cardinality(member)
         /\ ~request[r].all => \E p \in People : request[r].emails = {p}
    /\ request[r].pc \in {"checkMember", "revokeOld", "createInvite"}
         => SeatsFor(Usable, Cardinality(request[r].emails))
    /\ request[r].pc \in {"checkMembership", "join", "registerJoin"}
         => SeatsFor(Usable \ {request[r].invite}, 1)

SeatsPromised == serial /\ ~revived => SeatsFor(Usable, 0) /\ \A r \in Requests : SeatFree(r)
-----------------------------------------------------------------------------
(* Which requests move *)

\* Who may ask takes a free slot, alone if requests are serial.
Taking(r) ==
    \/ \E by, p \in People, role \in Roles : SendInvite(r, by, p, role)
    \/ \E by \in People, emails \in SUBSET People : InviteMembers(r, by, emails)
    \/ \E by \in People, i \in DOMAIN invite : ResendInvite(r, by, i)
    \/ \E p \in People, i \in DOMAIN invite : AcceptInvite(r, p, i) \/ RegisterViaInvite(r, p, i)
    \/ \E by \in People, m \in member, action \in {"remove"} \cup Roles : ChangeMember(r, by, m, action)

\* A person's own steps, an owner's revocation and the clock take no slot.
Slotless ==
    \/ \E by \in People, i \in DOMAIN invite : RevokeInvite(by, i)
    \/ \E i \in DOMAIN invite : Expire(i)
    \/ \E p \in People : SignUp(p)

\* A request being served leaves the others, except that a removal may delete
\* the row another was to write.
LEMMA ServeOthers ==
  ASSUME TeamTypeOK, NEW r \in Requests, Serve(r)
  PROVE  /\ request[r] # Idle
         /\ serial' = serial
         /\ \A q \in Requests \ {r} :
              \/ request'[q] = request[q]
              \/ /\ request[q].pc \in {"countOwners", "apply"}
                 /\ request'[q] = [request[q] EXCEPT !.target = Gone]
  <1>1. request[r] # Idle /\ serial' = serial
    <2>1. CASE CountPending(r) \/ CheckMember(r) \/ RevokeOld(r)
      BY <2>1 DEF CountPending, CheckMember, RevokeOld, Idle, tables
    <2>2. ASSUME NEW p \in People, CreateInvite(r, p) PROVE request[r] # Idle /\ serial' = serial
      BY <2>2 DEF CreateInvite, Idle
    <2>3. CASE Extend(r) \/ CheckMembership(r) \/ Join(r) \/ RegisterJoin(r)
      BY <2>3 DEF Extend, CheckMembership, Join, RegisterJoin, Idle, tables
    <2>4. CASE CountOwners(r) \/ UpdateRole(r) \/ RemoveMember(r)
      BY <2>4 DEF CountOwners, UpdateRole, RemoveMember, Idle, tables
    <2> QED BY <2>1, <2>2, <2>3, <2>4 DEF Serve
  <1>3. ASSUME NEW q \in Requests \ {r}, ~RemoveMember(r) PROVE request'[q] = request[q]
    <2>1. \A rec : request' = [request EXCEPT ![r] = rec] => request'[q] = request[q]
      BY <1>3 DEF TeamTypeOK
    <2>2. ASSUME CountPending(r) PROVE request'[q] = request[q]
      BY <1>3, <2>2 DEF CountPending, Proceed, Finish, TeamTypeOK
    <2>3. ASSUME CheckMember(r) \/ CheckMembership(r) \/ CountOwners(r) PROVE request'[q] = request[q]
      BY <1>3, <2>3 DEF CheckMember, CheckMembership, CountOwners, StepIf, Step, Finish, TeamTypeOK
    <2>4. ASSUME RevokeOld(r) PROVE request'[q] = request[q]
      BY <1>3, <2>4 DEF RevokeOld, Step, TeamTypeOK
    <2>5. ASSUME NEW p \in People, CreateInvite(r, p) PROVE request'[q] = request[q]
      BY <1>3, <2>5 DEF CreateInvite, Finish, TeamTypeOK
    <2>6. ASSUME Extend(r) \/ Join(r) \/ RegisterJoin(r) \/ UpdateRole(r) PROVE request'[q] = request[q]
      BY <1>3, <2>1, <2>6 DEF Extend, Join, RegisterJoin, UpdateRole, Finish
    <2> QED BY <1>3, <2>2, <2>3, <2>4, <2>5, <2>6 DEF Serve
  <1>4. CASE RemoveMember(r) BY <1>1, <1>4 DEF RemoveMember, Forget
  <1> QED BY <1>1, <1>3, <1>4

\* A slot that is taken leaves the others and the tables.
LEMMA TakeOthers ==
  ASSUME TeamTypeOK, NEW r \in Requests, Taking(r)
  PROVE  /\ request[r] = Idle /\ (serial => Quiet)
         /\ UNCHANGED tables
         /\ \A q \in Requests \ {r} : request'[q] = request[q]
  <1>1. (\E rec : Take(r, rec)) /\ UNCHANGED tables
    BY DEF Taking, SendInvite, InviteMembers, ResendInvite, AcceptInvite, RegisterViaInvite, ChangeMember
  <1> QED BY <1>1 DEF Take, TeamTypeOK

\* The steps of the specification, by the request that makes them.
LEMMA WhoSteps ==
  ASSUME [Next]_vars
  PROVE  \/ \E r \in Requests : Serve(r) \/ Taking(r)
         \/ Slotless
         \/ UNCHANGED vars
  BY DEF Next, Taking, Slotless

\* Requests served one at a time stay so.
LEMMA AloneStep ==
  ASSUME TeamTypeOK, OneAtATime, [Next]_vars
  PROVE  OneAtATime'
  <1>1. ASSUME NEW r \in Requests, Serve(r) PROVE OneAtATime'
    <2>1. serial' = serial /\ request[r] # Idle BY <1>1, ServeOthers
    <2>2. \A q \in Requests \ {r} : request[q] = Idle => request'[q] = Idle
      BY <1>1, ServeOthers DEF Idle
    <2> QED BY <2>1, <2>2 DEF OneAtATime
  <1>2. ASSUME NEW r \in Requests, Taking(r) PROVE OneAtATime'
    <2>1. serial' = serial BY <1>2, TakeOthers DEF tables
    <2>2. serial => \A q \in Requests \ {r} : request'[q] = Idle
      BY <1>2, TakeOthers DEF Quiet
    <2> QED BY <2>1, <2>2 DEF OneAtATime
  <1>3. CASE Slotless \/ UNCHANGED vars
    BY <1>3 DEF Slotless, RevokeInvite, Expire, SignUp, vars, OneAtATime
  <1> QED BY <1>1, <1>2, <1>3, WhoSteps

-----------------------------------------------------------------------------
(* A firm keeps an owner *)

\* Two different elements make a set of more than one.
LEMMA TwoOrMore ==
  ASSUME NEW S, IsFiniteSet(S), NEW a \in S, NEW b \in S, a # b
  PROVE  Cardinality(S) > 1
  <1>1. IsFiniteSet(S \ {a}) /\ Cardinality(S \ {a}) = Cardinality(S) - 1 BY FS_RemoveElement
  <1>2. Cardinality(S \ {a}) # 0 BY <1>1, FS_EmptySet
  <1>3. Cardinality(S) \in Nat /\ Cardinality(S \ {a}) \in Nat BY <1>1, FS_CardinalityType
  <1> QED BY <1>1, <1>2, <1>3

\* A set of more than one has two different elements.
LEMMA ManyDiffer ==
  ASSUME NEW S, Cardinality(S) > 1
  PROVE  \E a, b \in S : a # b
  <1> SUFFICES ASSUME \A a, b \in S : a = b PROVE FALSE
    OBVIOUS
  <1>1. S = {} \/ \E a : S = {a} OBVIOUS
  <1>2. S # {} BY FS_EmptySet
  <1>3. \A a : S # {a} BY FS_Singleton
  <1> QED BY <1>1, <1>2, <1>3

\* A step keeps each owner an owner, whatever else it does to his row.
OwnersStay == \A o \in Owners : \E n \in Owners' : n.user = o.user

\* A request that another step leaves, or whose row it deleted, still leaves an
\* owner if the owners stay.
LEMMA OtherLeft ==
  ASSUME TeamIInv, OwnersStay, NEW q \in Requests, OwnerLeft(q),
         \/ request'[q] = request[q]
         \/ /\ request[q].pc \in {"countOwners", "apply"}
            /\ request'[q] = [request[q] EXCEPT !.target = Gone]
  PROVE  OwnerLeft(q)'
  <1> SUFFICES ASSUME request'[q].pc = "apply", request'[q].action # "OWNER",
                      ~Overriding(q)'
               PROVE  \E n \in Owners' : n.user # request'[q].target
    BY DEF OwnerLeft
  <1>1. request[q].pc = "apply" /\ request[q].action = request'[q].action
        /\ request[q].override = request'[q].override
        /\ request'[q].target \in {request[q].target, Gone}
    <2>1. CASE request'[q] = request[q] BY <2>1
    <2>2. CASE /\ request[q].pc \in {"countOwners", "apply"}
               /\ request'[q] = [request[q] EXCEPT !.target = Gone]
      <3>1. request[q] \in Changing BY <2>2, KindOf DEF TeamIInv
      <3> QED BY <2>2, <3>1 DEF Changing
    <2> QED BY <2>1, <2>2
  <1>2. PICK o \in Owners : o.user # request[q].target BY <1>1 DEF OwnerLeft, Overriding
  <1>3. o.user \in People BY DEF Owners, TeamIInv, TeamTypeOK, MemberRows
  <1>4. o.user # Gone BY <1>3, TeamAssumption
  <1>5. PICK n \in Owners' : n.user = o.user BY DEF OwnersStay
  <1> QED BY <1>1, <1>2, <1>4, <1>5

\* A step of r that keeps the owners, or leaves one while r is alone.
LEMMA OwnersKeptBy ==
  ASSUME TeamIInv, OneAtATime, OwnersKept, NEW r \in Requests, OwnerLeft(r)',
         serial' = serial, excused => excused',
         serial => request[r] # Idle \/ Quiet,
         OwnersStay \/ (serial /\ Owners' # {}),
         \A q \in Requests \ {r} :
            \/ request'[q] = request[q]
            \/ /\ request[q].pc \in {"countOwners", "apply"}
               /\ request'[q] = [request[q] EXCEPT !.target = Gone]
  PROVE  OwnersKept'
  <1> SUFFICES ASSUME ~excused'
               PROVE  Owners' # {} /\ \A q \in Requests : OwnerLeft(q)'
    BY DEF OwnersKept
  <1>1. Owners # {} /\ \A q \in Requests : OwnerLeft(q) BY DEF OwnersKept
  <1>2. CASE OwnersStay
    <2>1. Owners' # {} BY <1>1, <1>2 DEF OwnersStay
    <2>2. \A q \in Requests : OwnerLeft(q)' BY <1>1, <1>2, OtherLeft
    <2> QED BY <2>1, <2>2
  <1>3. CASE serial /\ Owners' # {}
    <2>1. \A q \in Requests \ {r} : request[q] = Idle
      BY <1>3 DEF OneAtATime, Quiet
    <2>2. \A q \in Requests \ {r} : request'[q].pc = "idle"
      BY <2>1 DEF Idle
    <2>3. \A q \in Requests \ {r} : OwnerLeft(q)' BY <2>2 DEF OwnerLeft
    <2> QED BY <1>3, <2>3
  <1> QED BY <1>2, <1>3

\* Who is left when one row is deleted or loses its role: the owner a request
\* had counted on; all the owners, where requests overlap and there is one.
LEMMA TargetSpared ==
  ASSUME TeamIInv, OneOwner, OwnersKept, ~excused, NEW r \in Requests,
         request[r].pc = "apply", request[r].action # "OWNER", ~Overriding(r),
         member \ Row(request[r].target) \subseteq member'
  PROVE  OwnersStay \/ (serial /\ Owners' # {})
  <1>1. PICK o \in Owners : o.user # request[r].target BY DEF OwnersKept, OwnerLeft
  <1>2. o \in Owners' BY <1>1 DEF Owners, Row
  <1>3. CASE ~serial BY <1>2, <1>3 DEF OneOwner, OwnersStay
  <1> QED BY <1>2, <1>3

\* The rows of a firm that has not two owners hold one at most.
LEMMA OneOfRows ==
  ASSUME NEW S, IsFiniteSet(S), Cardinality({m \in S : m.role = "OWNER"}) <= 1
  PROVE  \A o, p \in {m \in S : m.role = "OWNER"} : o = p
  <1> DEFINE T == {m \in S : m.role = "OWNER"}
  <1>1. IsFiniteSet(T) BY FS_Subset
  <1>2. ~(Cardinality(T) > 1) BY <1>1, FS_CardinalityType
  <1> QED BY <1>1, <1>2, TwoOrMore

\* The history takes note of rivals, and keeps it.
LEMMA OwnersSeen ==
  ASSUME excused \in BOOLEAN, excused' = (excused \/ HasRivals(member'))
  PROVE  (excused => excused') /\ (HasRivals(member') => excused')
  BY DEF HasRivals

\* The history tells whether a step that adds an owner makes two.
LEMMA OneOwnerStep ==
  ASSUME TeamIInv, TeamIInv', OneOwner, excused => excused', serial' = serial,
         member' \subseteq member \/ (HasRivals(member') => excused')
  PROVE  OneOwner'
  <1> SUFFICES ASSUME ~serial', ~excused' PROVE \A o, p \in Owners' : o = p
    BY DEF OneOwner
  <1>1. CASE member' \subseteq member BY <1>1 DEF OneOwner, Owners
  <1>2. CASE HasRivals(member') => excused'
    <2>1. IsFiniteSet(member') BY DEF TeamIInv
    <2>2. IsFiniteSet({m \in member' : m.role = "OWNER"}) BY <2>1, FS_Subset
    <2>3. Cardinality({m \in member' : m.role = "OWNER"}) <= 1
      BY <1>2, <2>2, FS_CardinalityType DEF HasRivals
    <2>4. \A o, p \in {m \in member' : m.role = "OWNER"} : o = p
      BY <2>1, <2>3, OneOfRows
    <2> QED BY <2>4 DEF Owners
  <1> QED BY <1>1, <1>2

\* A request that is done leaves owners as it leaves the rows.
LEMMA DoneLeaves ==
  ASSUME TeamTypeOK, NEW r \in Requests, Finish(r)
  PROVE  OwnerLeft(r)'
  <1>1. request'[r] = Idle BY DEF Finish, TeamTypeOK
  <1> QED BY <1>1 DEF OwnerLeft, Idle

\* Joining adds a row, and tells whether there are two owners.
LEMMA AdmitOwners ==
  ASSUME TeamIInv, NEW r \in Requests, Join(r) \/ RegisterJoin(r)
  PROVE  /\ Finish(r) /\ OwnersStay /\ (excused => excused')
         /\ member' \subseteq member \/ (HasRivals(member') => excused')
  <1>1. Finish(r) BY DEF Join, RegisterJoin
  <1>2. \/ member' = member /\ excused' = excused
        \/ member \subseteq member' /\ excused' = (excused \/ HasRivals(member'))
    BY DEF Join, RegisterJoin, Admit
  <1>3. member \subseteq member' BY <1>2
  <1>4. OwnersStay BY <1>3 DEF OwnersStay, Owners
  <1>5. excused \in BOOLEAN BY DEF TeamIInv, TeamTypeOK
  <1> QED BY <1>1, <1>2, <1>4, <1>5, OwnersSeen

\* A promotion keeps the owners.
LEMMA PromotionKeeps ==
  ASSUME TeamIInv, NEW r \in Requests, UpdateRole(r), request[r].action = "OWNER"
  PROVE  OwnersStay
  <1>1. ASSUME NEW o \in Owners PROVE \E n \in Owners' : n.user = o.user
    <2>1. o \in MemberRows /\ o \in member BY DEF Owners, TeamIInv, TeamTypeOK
    <2>2. CASE o \notin Row(request[r].target)
      BY <2>1, <2>2 DEF UpdateRole, Owners
    <2>3. CASE o \in Row(request[r].target)
      <3> DEFINE n == [o EXCEPT !.role = "OWNER"]
      <3>1. n.user = o.user /\ n.role = "OWNER" BY <2>1 DEF MemberRows
      <3>2. n \in member' BY <2>3 DEF UpdateRole
      <3> HIDE DEF n
      <3> QED BY <3>1, <3>2 DEF Owners
    <2> QED BY <2>2, <2>3
  <1> QED BY <1>1 DEF OwnersStay

\* Counting the owners before demoting or removing one leaves another: a person
\* has one row.
LEMMA CountedLeaves ==
  ASSUME TeamIInv, NEW r \in Requests, CountOwners(r)
  PROVE  OwnerLeft(r)'
  <1>1. request[r] \in Changing /\ UNCHANGED tables BY KindOf DEF TeamIInv, CountOwners
  <1>2. CASE Finish(r) BY <1>2, DoneLeaves DEF TeamIInv
  <1>3. CASE Cardinality(Owners) > 1 /\ Step(r, "apply")
    <2>1. PICK a, b \in Owners : a # b BY <1>3, ManyDiffer
    <2>2. a.user # b.user BY <2>1 DEF TeamIInv, OneRowEach, Owners
    <2>3. request'[r].target = request[r].target
      BY <1>1, <1>3 DEF Step, TeamIInv, TeamTypeOK, Changing
    <2>4. Owners' = Owners BY <1>1 DEF Owners, tables
    <2> QED BY <2>2, <2>3, <2>4 DEF OwnerLeft
  <1> QED BY <1>2, <1>3 DEF CountOwners, StepIf

\* What is asked of whoever is not counted: he is no owner, or not the owner who
\* asks, or the request overrides him.
LEMMA UncountedLeaves ==
  ASSUME TeamIInv, NEW r \in Requests, NEW by \in People, NEW m \in member,
         NEW action \in {"remove"} \cup Roles, ChangeMember(r, by, m, action),
         Owners # {}
  PROVE  OwnerLeft(r)'
  <1> DEFINE pc == IF Guarded(by, m, action) THEN "countOwners" ELSE "apply"
             override == Overrides(by, m, action)
             rec == [pc |-> pc, target |-> m.user, action |-> action, override |-> override]
  <1>1. request'[r] = rec /\ UNCHANGED tables BY DEF ChangeMember, Take, TeamIInv, TeamTypeOK
  <1>2. rec.pc = pc /\ rec.target = m.user /\ rec.action = action /\ rec.override = override OBVIOUS
  <1> HIDE DEF rec
  <1>3. Owners' = Owners BY <1>1 DEF Owners, tables
  <1>4. PICK o \in Owners : TRUE OBVIOUS
  <1>5. ASSUME m.role # "OWNER" PROVE o.user # m.user
    BY <1>5 DEF TeamIInv, OneRowEach, Owners
  <1>6. ASSUME pc = "apply", action = "remove" \/ (action = "BROKER" /\ ~override)
        PROVE  \E n \in Owners : n.user # m.user
    <2>1. ~Guarded(by, m, action) BY <1>6
    <2>2. CASE action = "remove"
      <3>1. m.role # "OWNER" BY <2>1, <2>2 DEF Guarded
      <3> QED BY <1>4, <1>5, <3>1
    <2>3. CASE action = "BROKER" /\ m.role # "OWNER" BY <1>4, <1>5, <2>3
    <2>4. CASE action = "BROKER" /\ IsOwner(by)
      <3>1. PICK n \in Owners : n.user = by BY <2>4 DEF IsOwner
      <3>2. m.user # by BY <2>1, <2>4 DEF Guarded
      <3> QED BY <3>1, <3>2
    <2> QED BY <1>6, <2>2, <2>3, <2>4 DEF Roles, Overrides
  <1> HIDE DEF pc, override
  <1>7. SUFFICES ASSUME request'[r].pc = "apply", request'[r].action # "OWNER", ~Overriding(r)'
                 PROVE  \E n \in Owners' : n.user # request'[r].target
    BY DEF OwnerLeft
  <1>8. pc = "apply" /\ action # "OWNER" /\ ~(action = "BROKER" /\ override)
    BY <1>1, <1>2, <1>7 DEF Overriding
  <1>9. CASE action = "BROKER"
    <2>1. \E n \in Owners : n.user # m.user BY <1>6, <1>8, <1>9
    <2> QED BY <1>1, <1>2, <1>3, <2>1
  <1>10. CASE action = "remove"
    <2>1. \E n \in Owners : n.user # m.user BY <1>6, <1>8, <1>10
    <2> QED BY <1>1, <1>2, <1>3, <2>1
  <1> QED BY <1>8, <1>9, <1>10 DEF Roles

\* No other request begins with a change of a member.
LEMMA TakingLeaves ==
  ASSUME TeamIInv, NEW r \in Requests, Taking(r), Owners # {}
  PROVE  OwnerLeft(r)'
  <1>1. ASSUME NEW rec, Take(r, rec), rec.pc # "apply" PROVE OwnerLeft(r)'
    BY <1>1 DEF Take, TeamIInv, TeamTypeOK, OwnerLeft
  <1>2. ASSUME NEW by \in People, NEW p \in People, NEW role \in Roles, SendInvite(r, by, p, role)
        PROVE  OwnerLeft(r)'
    BY <1>1, <1>2 DEF SendInvite
  <1>3. ASSUME NEW by \in People, NEW emails \in SUBSET People, InviteMembers(r, by, emails)
        PROVE  OwnerLeft(r)'
    BY <1>1, <1>3 DEF InviteMembers
  <1>4. ASSUME NEW by \in People, NEW i \in DOMAIN invite,
               ResendInvite(r, by, i) \/ AcceptInvite(r, by, i) \/ RegisterViaInvite(r, by, i)
        PROVE  OwnerLeft(r)'
    BY <1>1, <1>4 DEF ResendInvite, AcceptInvite, RegisterViaInvite
  <1> QED BY <1>2, <1>3, <1>4, UncountedLeaves DEF Taking

\* Nor does serving an invite change a member.
LEMMA InvitingLeaves ==
  ASSUME TeamTypeOK, NEW r \in Requests,
         \/ CountPending(r) \/ CheckMember(r) \/ RevokeOld(r) \/ Extend(r) \/ CheckMembership(r)
         \/ \E p \in People : CreateInvite(r, p)
  PROVE  OwnerLeft(r)'
  <1>1. ASSUME NEW pc, pc # "apply", request'[r] = [request[r] EXCEPT !.pc = pc],
               request[r] \in Inviting \cup Joining
        PROVE  OwnerLeft(r)'
    BY <1>1 DEF OwnerLeft, Inviting, Joining
  <1>2. CASE CountPending(r)
    <2>1. request[r] \in Inviting BY <1>2, KindOf DEF CountPending
    <2>2. CASE Finish(r) BY <2>2, DoneLeaves
    <2>3. ASSUME NEW pc \in {"createInvite", "checkMember"},
                 request' = [request EXCEPT ![r].pc = pc, ![r].members = 0]
          PROVE  OwnerLeft(r)'
      <3>1. request'[r].pc = pc BY <2>1, <2>3 DEF TeamTypeOK, Inviting
      <3> QED BY <3>1 DEF OwnerLeft
    <2> QED BY <1>2, <2>2, <2>3 DEF CountPending, Proceed
  <1>3. CASE CheckMember(r) \/ CheckMembership(r) \/ RevokeOld(r)
    <2>1. request[r] \in Inviting \cup Joining
      BY <1>3, KindOf DEF CheckMember, CheckMembership, RevokeOld
    <2>2. CASE Finish(r) BY <2>2, DoneLeaves
    <2>3. ASSUME NEW pc, pc # "apply", Step(r, pc) PROVE OwnerLeft(r)'
      BY <1>1, <2>1, <2>3 DEF Step, TeamTypeOK
    <2> QED BY <1>3, <2>2, <2>3 DEF CheckMember, CheckMembership, RevokeOld, StepIf
  <1>4. CASE Extend(r) BY <1>4, DoneLeaves DEF Extend
  <1>5. ASSUME NEW p \in People, CreateInvite(r, p)
        PROVE  OwnerLeft(r)'
    <2>1. request[r] \in Inviting /\ request[r].pc = "createInvite"
      BY <1>5, KindOf DEF CreateInvite
    <2>2. CASE Finish(r) BY <1>5, <2>2, DoneLeaves DEF CreateInvite
    <2>3. CASE request' = [request EXCEPT ![r].emails = @ \ {p}]
      <3>1. request'[r].pc = "createInvite" BY <2>1, <2>3 DEF TeamTypeOK, Inviting
      <3> QED BY <1>5, <3>1 DEF CreateInvite, OwnerLeft
    <2> QED BY <1>5, <2>2, <2>3 DEF CreateInvite
  <1> QED BY <1>2, <1>3, <1>4, <1>5

\* Every step keeps an owner, and at most one in a firm that never had two.
LEMMA OwnersStep ==
  ASSUME TeamIInv, TeamIInv', OneAtATime, OneOwner, OwnersKept, [Next]_vars
  PROVE  OneOwner' /\ OwnersKept'
  <1>t. TeamTypeOK /\ excused \in BOOLEAN /\ excused' \in BOOLEAN BY DEF TeamIInv, TeamTypeOK
  <1>s. member' = member => OwnersStay BY DEF OwnersStay, Owners
  <1>1. ASSUME NEW r \in Requests, Serve(r) PROVE OneOwner' /\ OwnersKept'
    <2>1. /\ request[r] # Idle /\ serial' = serial
          /\ \A q \in Requests \ {r} :
              \/ request'[q] = request[q]
              \/ /\ request[q].pc \in {"countOwners", "apply"}
                 /\ request'[q] = [request[q] EXCEPT !.target = Gone]
      BY <1>t, <1>1, ServeOthers
    <2>2. ASSUME OwnersStay \/ (serial /\ Owners' # {}), OwnerLeft(r)', excused => excused',
                 member' \subseteq member \/ (HasRivals(member') => excused')
          PROVE  OneOwner' /\ OwnersKept'
      BY <2>1, <2>2, OwnersKeptBy, OneOwnerStep
    <2>3. CASE \/ CountPending(r) \/ CheckMember(r) \/ RevokeOld(r) \/ Extend(r) \/ CheckMembership(r)
               \/ \E p \in People : CreateInvite(r, p)
      <3>1. OwnerLeft(r)' BY <1>t, <2>3, InvitingLeaves
      <3>2. member' = member /\ excused' = excused
        BY <2>3 DEF CountPending, CheckMember, RevokeOld, Extend, CheckMembership, CreateInvite, tables
      <3> QED BY <1>s, <1>t, <2>2, <3>1, <3>2
    <2>4. CASE CountOwners(r)
      <3>1. member' = member /\ excused' = excused BY <2>4 DEF CountOwners, tables
      <3>2. OwnerLeft(r)' BY <2>4, CountedLeaves
      <3> QED BY <1>s, <1>t, <2>2, <3>1, <3>2
    <2>5. CASE Join(r) \/ RegisterJoin(r)
      <3>1. OwnerLeft(r)' BY <1>t, <2>5, AdmitOwners, DoneLeaves
      <3> QED BY <2>2, <2>5, <3>1, AdmitOwners
    <2>6. CASE UpdateRole(r)
      <3>1. OwnerLeft(r)' BY <1>t, <2>6, DoneLeaves DEF UpdateRole
      <3>3. excused' = (excused \/ request[r].override \/ HasRivals(member')) BY <2>6 DEF UpdateRole
      <3>2. (excused => excused') /\ (HasRivals(member') => excused') BY <1>t, <3>3 DEF HasRivals
      <3>5. CASE request[r].action = "OWNER"
        BY <1>t, <2>2, <2>6, <3>1, <3>2, <3>5, PromotionKeeps
      <3>6. CASE request[r].action # "OWNER" /\ ~excused /\ ~Overriding(r)
        <4>1. member \ Row(request[r].target) \subseteq member' /\ request[r].pc = "apply"
          BY <2>6 DEF UpdateRole
        <4>2. OwnersStay \/ (serial /\ Owners' # {}) BY <3>6, <4>1, TargetSpared
        <4> QED BY <1>t, <2>2, <3>1, <3>2, <4>2
      <3>7. CASE excused \/ Overriding(r)
        <4>1. excused' BY <2>1, <3>2, <3>3, <3>7 DEF Overriding
        <4>2. OwnersKept' BY <4>1 DEF OwnersKept
        <4>3. OneOwner' BY <2>1, <3>2, OneOwnerStep
        <4> QED BY <4>2, <4>3
      <3> QED BY <3>5, <3>6, <3>7
    <2>7. CASE RemoveMember(r)
      <3>1. OwnerLeft(r)'
        <4>1. request'[r] = Idle BY <2>7 DEF RemoveMember, Forget
        <4> QED BY <4>1 DEF OwnerLeft, Idle
      <3>2. excused' = excused /\ member' = member \ Row(request[r].target)
            /\ request[r].pc = "apply" /\ request[r].action = "remove"
        BY <2>7 DEF RemoveMember
      <3>3. CASE ~excused /\ ~Overriding(r)
        <4>1. OwnersStay \/ (serial /\ Owners' # {}) BY <3>2, <3>3, TargetSpared
        <4> QED BY <1>t, <2>2, <3>1, <3>2, <4>1
      <3>4. CASE excused
        <4>1. excused' BY <2>1, <3>2, <3>4
        <4>2. OwnersKept' BY <4>1 DEF OwnersKept
        <4>3. OneOwner' BY <2>1, <3>2, OneOwnerStep
        <4> QED BY <4>2, <4>3
      <3>5. ~Overriding(r) BY <3>2 DEF Overriding
      <3> QED BY <3>3, <3>4, <3>5
    <2> QED BY <1>1, <2>3, <2>4, <2>5, <2>6, <2>7 DEF Serve
  <1>2. ASSUME NEW r \in Requests, Taking(r) PROVE OneOwner' /\ OwnersKept'
    <2>1. /\ serial => Quiet
          /\ member' = member /\ excused' = excused /\ serial' = serial
          /\ \A q \in Requests \ {r} : request'[q] = request[q]
      BY <1>t, <1>2, TakeOthers DEF tables
    <2>2. OwnersStay /\ (excused => excused') BY <1>s, <1>t, <2>1
    <2>3. OneOwner' BY <2>1, <2>2, OneOwnerStep
    <2>4. CASE ~excused
      <3>1. Owners # {} BY <2>4 DEF OwnersKept
      <3>2. OwnerLeft(r)' BY <1>2, <3>1, TakingLeaves
      <3> QED BY <2>1, <2>2, <2>3, <3>2, OwnersKeptBy
    <2>5. CASE excused
      <3>1. excused' BY <2>1, <2>5
      <3> QED BY <2>3, <3>1 DEF OwnersKept
    <2> QED BY <2>4, <2>5
  <1>3. CASE Slotless \/ UNCHANGED vars
    <2>1. UNCHANGED <<member, request, excused, serial>>
      BY <1>3 DEF Slotless, RevokeInvite, Expire, SignUp, vars
    <2>2. Owners' = Owners BY <2>1 DEF Owners
    <2> QED BY <2>1, <2>2 DEF OneOwner, OwnersKept, OwnerLeft, Overriding
  <1> QED BY <1>1, <1>2, <1>3, WhoSteps

\* What is proved of the owners, in one invariant.
OwnersInv == TeamIInv /\ OneAtATime /\ OneOwner /\ OwnersKept

LEMMA OwnersInvInitially == Init => OwnersInv
  <1> SUFFICES ASSUME Init PROVE OwnersInv
    OBVIOUS
  <1> DEFINE founder == [user |-> Founder, role |-> "OWNER", inviteId |-> 0]
  <1>1. Owners = {founder} BY DEF Init, Owners
  <1>2. \A r \in Requests : request[r] = Idle BY DEF Init
  <1>3. OneAtATime BY <1>2 DEF OneAtATime
  <1>4. OwnersKept BY <1>1, <1>2 DEF OwnersKept, OwnerLeft, Idle
  <1>5. OneOwner BY <1>1 DEF OneOwner
  <1> QED BY <1>3, <1>4, <1>5, TeamIInvInitially DEF OwnersInv

\* However many people, requests and invites: taken one at a time, or while
\* there was never more than one owner, and unless one who is no owner demotes
\* an owner, requests leave the firm an owner.
THEOREM OwnerStays == Spec => []LastOwnerStays
  <1>1. OwnersInv /\ [Next]_vars => OwnersInv'
    BY TeamIInvInductive, AloneStep, OwnersStep DEF OwnersInv, TeamIInv
  <1>2. OwnersInv => LastOwnerStays BY DEF OwnersInv, OwnersKept, LastOwnerStays
  <1> QED BY OwnersInvInitially, <1>1, <1>2, PTL DEF Spec

-----------------------------------------------------------------------------
(* Seats, where requests are served one at a time *)

\* A part of a finite set is finite and no larger.
LEMMA Fewer ==
  ASSUME NEW S, IsFiniteSet(S), NEW T, T \subseteq S
  PROVE  /\ IsFiniteSet(T) /\ Cardinality(T) \in Nat /\ Cardinality(S) \in Nat
         /\ Cardinality(T) <= Cardinality(S)
  <1>1. IsFiniteSet(T) /\ Cardinality(T) <= Cardinality(S) BY FS_Subset
  <1> QED BY <1>1, FS_CardinalityType

\* The invites there are, and with them the usable ones, are finitely many.
LEMMA InvitesFinite ==
  ASSUME TeamTypeOK
  PROVE  /\ IsFiniteSet(Pending) /\ Usable \subseteq Pending /\ IsFiniteSet(Usable)
         /\ Cardinality(Usable) \in Nat /\ Cardinality(Pending) \in Nat
         /\ Cardinality(Usable) <= Cardinality(Pending)
  <1>1. invite \in Seq(InviteRows) BY DEF TeamTypeOK
  <1>2. DOMAIN invite = 1 .. Len(invite) /\ Len(invite) \in Nat BY <1>1
  <1>3. IsFiniteSet(DOMAIN invite) BY <1>2, FS_Interval
  <1>4. Pending \subseteq DOMAIN invite /\ Usable \subseteq Pending BY DEF Pending, Usable
  <1>5. IsFiniteSet(Pending) BY <1>3, <1>4, Fewer
  <1> QED BY <1>4, <1>5, Fewer

\* What a request would fill stays free while members and usable invites only
\* get fewer.
LEMMA StillFree ==
  ASSUME TeamIInv, NEW q \in Requests, SeatFree(q),
         member' = member, Usable' \subseteq Usable, request'[q] = request[q]
  PROVE  SeatFree(q)'
  <1>1. IsFiniteSet(Usable) /\ Cardinality(member) \in Nat
    BY InvitesFinite, MemberCount DEF TeamIInv
  <1>2. Cardinality(Usable') <= Cardinality(Usable)
        /\ Cardinality(Usable') \in Nat /\ Cardinality(Usable) \in Nat
    BY <1>1, Fewer
  <1> DEFINE i == request[q].invite
  <1>3. Cardinality(Usable' \ {i}) <= Cardinality(Usable \ {i})
        /\ Cardinality(Usable' \ {i}) \in Nat /\ Cardinality(Usable \ {i}) \in Nat
    <2>1. IsFiniteSet(Usable \ {i}) /\ Usable' \ {i} \subseteq Usable \ {i} BY <1>1, Fewer
    <2> QED BY <2>1, Fewer
  <1>4. ASSUME request[q].pc = "countPending"
        PROVE  /\ request'[q].members = Cardinality(member')
               /\ ~request'[q].all => \E p \in People : request'[q].emails = {p}
    BY <1>4 DEF SeatFree
  <1>5. ASSUME request[q].pc \in {"checkMember", "revokeOld", "createInvite"}
        PROVE  Cardinality(member') + Cardinality(Usable') + Cardinality(request'[q].emails) <= Seats
    <2>1. request[q].emails \in SUBSET People BY <1>5, KindOf DEF TeamIInv, Inviting
    <2>2. Cardinality(request[q].emails) \in Nat BY <2>1, TeamAssumption, Fewer
    <2>3. Cardinality(member) + Cardinality(Usable) + Cardinality(request[q].emails) <= Seats
      BY <1>5 DEF SeatFree, SeatsFor
    <2> QED BY <1>1, <1>2, <2>2, <2>3, TeamAssumption
  <1>6. ASSUME request[q].pc \in {"checkMembership", "join", "registerJoin"}
        PROVE  Cardinality(member') + Cardinality(Usable' \ {i}) + 1 <= Seats
    <2>1. Cardinality(member) + Cardinality(Usable \ {i}) + 1 <= Seats
      BY <1>6 DEF SeatFree, SeatsFor
    <2> QED BY <1>1, <1>3, <2>1, TeamAssumption
  <1> QED BY <1>4, <1>5, <1>6 DEF SeatFree, SeatsFor

\* A request that is done holds no seat.
LEMMA DoneFree ==
  ASSUME NEW q \in Requests, request'[q] = Idle
  PROVE  SeatFree(q)'
  BY DEF SeatFree, Idle

\* Served alone, only the request that moves can hold a seat.
LEMMA AloneFree ==
  ASSUME TeamTypeOK, OneAtATime, serial, NEW r \in Requests, Serve(r) \/ Taking(r)
  PROVE  \A q \in Requests \ {r} : SeatFree(q)'
  <1> SUFFICES ASSUME NEW q \in Requests \ {r} PROVE request'[q] = Idle
    BY DoneFree
  <1>1. CASE Serve(r)
    <2>1. request[q] = Idle BY <1>1, ServeOthers DEF OneAtATime
    <2>2. request[q].pc = "idle" BY <2>1 DEF Idle
    <2> QED BY <1>1, <2>1, <2>2, ServeOthers
  <1>2. CASE Taking(r) BY <1>2, TakeOthers DEF Quiet
  <1> QED BY <1>1, <1>2

\* The numbers a request may be let through with.
LEMMA SeatsCompared ==
  ASSUME NEW m \in Nat, NEW p \in Nat, NEW u \in Nat, NEW e \in Nat, u <= p
  PROVE  /\ m + p + e <= PlanSeats => m + u + e <= Seats
         /\ m + u < Seats => m + u + 1 <= Seats
  BY TeamAssumption

\* The seat check lets a request through for seats that are free.
LEMMA CountPendingFree ==
  ASSUME TeamIInv, NEW r \in Requests, SeatFree(r), CountPending(r)
  PROVE  SeatFree(r)'
  <1>1. request[r] \in Inviting /\ request[r].pc = "countPending" BY KindOf DEF TeamIInv, CountPending
  <1>2. request[r].emails \in SUBSET People BY <1>1 DEF Inviting
  <1> DEFINE m == Cardinality(member)
             u == Cardinality(Usable)
             n == Cardinality(Pending)
             e == Cardinality(request[r].emails)
  <1>3. m \in Nat /\ u \in Nat /\ n \in Nat /\ u <= n /\ e \in Nat
    BY <1>2, InvitesFinite, MemberCount, TeamAssumption, Fewer DEF TeamIInv
  <1>4. request[r].members = m /\ (~request[r].all => \E p \in People : request[r].emails = {p})
    BY <1>1 DEF SeatFree
  <1>5. UNCHANGED <<member, invite>> BY DEF CountPending, tables
  <1>6. Usable' = Usable BY <1>5 DEF Usable, Pending
  <1>7. CASE Finish(r)
    <2>1. request'[r] = Idle BY <1>7 DEF Finish, TeamIInv, TeamTypeOK
    <2> QED BY <2>1, DoneFree
  <1>8. ASSUME m + u + e <= Seats, NEW pc \in {"createInvite", "checkMember"},
               request' = [request EXCEPT ![r].pc = pc, ![r].members = 0]
        PROVE  SeatFree(r)'
    <2>1. request'[r].pc = pc /\ request'[r].emails = request[r].emails
      BY <1>1, <1>8 DEF Inviting, TeamIInv, TeamTypeOK
    <2>2. Cardinality(member') + Cardinality(Usable') + Cardinality(request'[r].emails) <= Seats
      BY <1>5, <1>6, <1>8, <2>1
    <2> QED BY <2>1, <2>2 DEF SeatFree, SeatsFor
  <1>9. CASE request[r].all
    <2>1. CASE /\ m + n + e <= PlanSeats
               /\ request' = [request EXCEPT ![r].pc = "createInvite", ![r].members = 0]
      <3>1. m + u + e <= Seats BY <1>3, <2>1, SeatsCompared
      <3> QED BY <1>8, <2>1, <3>1
    <2> QED BY <1>4, <1>7, <1>9, <2>1 DEF CountPending, Proceed
  <1>10. CASE ~request[r].all
    <2>1. CASE /\ m + u < Seats
               /\ request' = [request EXCEPT ![r].pc = "checkMember", ![r].members = 0]
      <3>1. e = 1 BY <1>4, <1>10, FS_Singleton
      <3>2. m + u + e <= Seats BY <1>3, <2>1, <3>1, SeatsCompared
      <3> QED BY <1>8, <2>1, <3>2
    <2> QED BY <1>4, <1>7, <1>10, <2>1 DEF CountPending, Proceed
  <1> QED BY <1>9, <1>10

\* Checking the member and revoking older invites keep the seats asked for.
LEMMA InvitingFree ==
  ASSUME TeamIInv, NEW r \in Requests, SeatFree(r), CheckMember(r) \/ RevokeOld(r) \/ CheckMembership(r)
  PROVE  SeatFree(r)' /\ Usable' \subseteq Usable /\ member' = member
  <1>1. member' = member BY DEF CheckMember, RevokeOld, CheckMembership, tables
  <1>2. Usable' \subseteq Usable
    <2>1. CASE RevokeOld(r)
      <3>1. DOMAIN invite' = DOMAIN invite
        BY <2>1 DEF RevokeOld
      <3>2. ASSUME NEW i \in DOMAIN invite, i \in Usable' PROVE i \in Usable
        <4>1. invite[i] \in InviteRows BY InviteType
        <4>2. invite'[i] = invite[i] \/ invite'[i] = [invite[i] EXCEPT !.status = "REVOKED"]
          BY <2>1 DEF RevokeOld
        <4>3. [invite[i] EXCEPT !.status = "REVOKED"].status = "REVOKED"
          BY <4>1 DEF InviteRows
        <4> QED BY <3>1, <3>2, <4>2, <4>3 DEF Usable, Pending
      <3> QED BY <3>1, <3>2 DEF Usable, Pending
    <2>2. CASE CheckMember(r) \/ CheckMembership(r)
      <3>1. invite' = invite BY <2>2 DEF CheckMember, CheckMembership, tables
      <3> QED BY <3>1 DEF Usable, Pending
    <2> QED BY <2>1, <2>2
  <1>3. CASE Finish(r)
    <2>1. request'[r] = Idle BY <1>3 DEF Finish, TeamIInv, TeamTypeOK
    <2> QED BY <1>1, <1>2, <2>1, DoneFree
  <1>u. IsFiniteSet(Usable) /\ Cardinality(member) \in Nat
    BY InvitesFinite, MemberCount DEF TeamIInv
  <1>4. ASSUME request[r].pc \in {"checkMember", "revokeOld"},
               NEW pc \in {"revokeOld", "createInvite"}, Step(r, pc)
        PROVE  SeatFree(r)'
    <2>1. request[r] \in Inviting BY <1>4, KindOf DEF TeamIInv
    <2>2. request'[r].pc = pc /\ request'[r].emails = request[r].emails
      BY <1>4, <2>1 DEF Step, Inviting, TeamIInv, TeamTypeOK
    <2>3. Cardinality(request[r].emails) \in Nat BY <2>1, TeamAssumption, Fewer DEF Inviting
    <2>4. Cardinality(member) + Cardinality(Usable) + Cardinality(request[r].emails) <= Seats
      BY <1>4 DEF SeatFree, SeatsFor
    <2>5. Cardinality(Usable') <= Cardinality(Usable)
          /\ Cardinality(Usable') \in Nat /\ Cardinality(Usable) \in Nat
      BY <1>2, <1>u, Fewer
    <2>6. Cardinality(member') + Cardinality(Usable') + Cardinality(request'[r].emails) <= Seats
      BY <1>1, <1>u, <2>2, <2>3, <2>4, <2>5, TeamAssumption
    <2> QED BY <2>2, <2>6 DEF SeatFree, SeatsFor
  <1>5. ASSUME CheckMembership(r), Step(r, "join") PROVE SeatFree(r)'
    <2>1. request[r] \in Joining /\ request[r].pc = "checkMembership"
      BY <1>5, KindOf DEF TeamIInv, CheckMembership
    <2>2. request'[r].pc = "join" /\ request'[r].invite = request[r].invite
      BY <1>5, <2>1 DEF Step, Joining, TeamIInv, TeamTypeOK
    <2>3. invite' = invite BY <1>5 DEF CheckMembership, tables
    <2>4. Usable' = Usable BY <2>3 DEF Usable, Pending
    <2> QED BY <1>1, <2>1, <2>2, <2>4 DEF SeatFree, SeatsFor
  <1> QED BY <1>1, <1>2, <1>3, <1>4, <1>5 DEF CheckMember, RevokeOld, CheckMembership, StepIf

\* An invite created takes one of the seats free.
LEMMA CreateInviteFree ==
  ASSUME TeamIInv, NEW r \in Requests, SeatFree(r), NEW p \in People, CreateInvite(r, p)
  PROVE  SeatFree(r)' /\ SeatsFor(Usable, 0)'
  <1>1. request[r] \in Inviting /\ request[r].pc = "createInvite" BY KindOf DEF TeamIInv, CreateInvite
  <1> DEFINE E == request[r].emails
             k == Len(invite) + 1
  <1>2. E \in SUBSET People /\ p \in E BY <1>1 DEF Inviting, CreateInvite
  <1>3. IsFiniteSet(E) /\ Cardinality(E) \in Nat BY <1>2, TeamAssumption, Fewer
  <1>4. IsFiniteSet(E \ {p}) /\ Cardinality(E \ {p}) = Cardinality(E) - 1 BY <1>2, <1>3, FS_RemoveElement
  <1>5. Cardinality(E \ {p}) \in Nat BY <1>4, FS_CardinalityType
  <1>6. Usable' \subseteq Usable \cup {k}
    <2>1. invite \in Seq(InviteRows) BY DEF TeamIInv, TeamTypeOK
    <2> DEFINE row == [email |-> p, role |-> request[r].role, status |-> "PENDING", expired |-> FALSE]
    <2>2. invite' = Append(invite, row) BY DEF CreateInvite
    <2> HIDE DEF row
    <2>3. DOMAIN invite' = DOMAIN invite \cup {k} /\ \A i \in DOMAIN invite : invite'[i] = invite[i]
      BY <2>1, <2>2
    <2> QED BY <2>3 DEF Usable, Pending
  <1>7. IsFiniteSet(Usable) /\ Cardinality(member) \in Nat /\ Cardinality(Usable) \in Nat
    BY InvitesFinite, MemberCount DEF TeamIInv
  <1>8. Cardinality(Usable') <= Cardinality(Usable) + 1 /\ Cardinality(Usable') \in Nat
    <2>1. /\ IsFiniteSet(Usable \cup {k})
          /\ Cardinality(Usable \cup {k}) = IF k \in Usable THEN Cardinality(Usable) ELSE Cardinality(Usable) + 1
      BY <1>7, FS_AddElement
    <2>2. Cardinality(Usable') <= Cardinality(Usable \cup {k}) /\ Cardinality(Usable') \in Nat
          /\ Cardinality(Usable \cup {k}) \in Nat
      BY <1>6, <2>1, Fewer
    <2> QED BY <1>7, <2>1, <2>2
  <1>9. member' = member BY DEF CreateInvite
  <1>10. Cardinality(member) + Cardinality(Usable) + Cardinality(E) <= Seats
    BY <1>1 DEF SeatFree, SeatsFor
  <1>11. Cardinality(member') + Cardinality(Usable') + Cardinality(E \ {p}) <= Seats
    BY <1>3, <1>4, <1>5, <1>7, <1>8, <1>9, <1>10, TeamAssumption
  <1>12. SeatsFor(Usable, 0)'
    BY <1>5, <1>7, <1>8, <1>9, <1>11, TeamAssumption DEF SeatsFor
  <1>13. CASE Finish(r)
    <2>1. request'[r] = Idle BY <1>13 DEF Finish, TeamIInv, TeamTypeOK
    <2> QED BY <1>12, <2>1, DoneFree
  <1>14. CASE request' = [request EXCEPT ![r].emails = @ \ {p}]
    <2>1. request'[r].pc = "createInvite" /\ request'[r].emails = E \ {p}
      BY <1>1, <1>14 DEF Inviting, TeamIInv, TeamTypeOK
    <2>2. SeatFree(r)' BY <1>11, <2>1 DEF SeatFree, SeatsFor
    <2> QED BY <1>12, <2>2
  <1> QED BY <1>13, <1>14 DEF CreateInvite

\* Sending an invite again frees or takes no seat, unless it had expired.
LEMMA ExtendFree ==
  ASSUME TeamIInv, TeamIInv', NEW r \in Requests, Extend(r), serial, ~revived'
  PROVE  request'[r] = Idle /\ Usable' \subseteq Usable /\ member' = member
  <1> DEFINE i == request[r].invite
  <1>1. i \in DOMAIN invite BY DEF Extend, TeamIInv, RequestsSound, RequestSound
  <1>2. invite[i] \in InviteRows BY <1>1, InviteType
  <1>3. ~invite[i].expired
    <2>1. revived \in BOOLEAN /\ invite[i].expired \in BOOLEAN
      BY <1>2 DEF TeamIInv, TeamTypeOK, InviteRows
    <2>2. revived' = (revived \/ (serial /\ invite[i].expired)) BY DEF Extend
    <2> QED BY <2>1, <2>2
  <1>4. invite' = [invite EXCEPT ![i] = [invite[i] EXCEPT !.expired = FALSE]] BY <1>1 DEF Extend
  <1>5. [invite[i] EXCEPT !.expired = FALSE].status = invite[i].status BY <1>2 DEF InviteRows
  <1>6. \A j \in DOMAIN invite : j \in Usable' => j \in Usable
    BY <1>1, <1>3, <1>4, <1>5 DEF Usable, Pending
  <1>7. Usable' \subseteq DOMAIN invite BY <1>4 DEF Usable, Pending
  <1>8. request'[r] = Idle BY DEF Extend, Finish, TeamIInv, TeamTypeOK
  <1> QED BY <1>6, <1>7, <1>8 DEF Extend

\* Whoever joins fills the seat of the invite he came by.
LEMMA AdmitFree ==
  ASSUME TeamIInv, NEW r \in Requests, SeatFree(r), SeatsFor(Usable, 0), Join(r) \/ RegisterJoin(r)
  PROVE  request'[r] = Idle /\ SeatsFor(Usable, 0)'
  <1> DEFINE i == request[r].invite
             x == [user |-> request[r].user, role |-> invite[i].role, inviteId |-> i]
  <1>1. request'[r] = Idle BY DEF Join, RegisterJoin, Finish, TeamIInv, TeamTypeOK
  <1>2. CASE UNCHANGED <<member, invite>>
    <2>1. Usable' = Usable BY <1>2 DEF Usable, Pending
    <2> QED BY <1>1, <1>2, <2>1 DEF SeatsFor
  <1>3. CASE Admit(r)
    <2>1. IsFiniteSet(member) /\ IsFiniteSet(Usable) /\ Cardinality(member) \in Nat
      BY InvitesFinite, MemberCount DEF TeamIInv
    <2>2. member' = member \cup {x} BY <1>3 DEF Admit
    <2> HIDE DEF x
    <2>3. Cardinality(member') <= Cardinality(member) + 1 /\ Cardinality(member') \in Nat
      <3>1. /\ IsFiniteSet(member')
            /\ Cardinality(member') = IF x \in member THEN Cardinality(member) ELSE Cardinality(member) + 1
        BY <2>1, <2>2, FS_AddElement
      <3> QED BY <2>1, <3>1
    <2>4. i \in DOMAIN invite
      BY DEF Join, RegisterJoin, TeamIInv, RequestsSound, RequestSound
    <2>5. invite[i] \in InviteRows BY <2>4, InviteType
    <2>6. invite' = [invite EXCEPT ![i] = [invite[i] EXCEPT !.status = "ACCEPTED"]]
      BY <1>3, <2>4 DEF Admit
    <2>7. [invite[i] EXCEPT !.status = "ACCEPTED"].status = "ACCEPTED" BY <2>5 DEF InviteRows
    <2>8. Usable' \subseteq Usable \ {i} BY <2>4, <2>6, <2>7 DEF Usable, Pending
    <2>9. IsFiniteSet(Usable \ {i}) BY <2>1, Fewer
    <2>10. Cardinality(Usable') <= Cardinality(Usable \ {i})
           /\ Cardinality(Usable') \in Nat /\ Cardinality(Usable \ {i}) \in Nat
      BY <2>8, <2>9, Fewer
    <2>11. Cardinality(member) + Cardinality(Usable \ {i}) + 1 <= Seats
      BY DEF Join, RegisterJoin, SeatFree, SeatsFor
    <2>12. Cardinality(member') + Cardinality(Usable') + 0 <= Seats
      BY <2>1, <2>3, <2>10, <2>11, TeamAssumption
    <2> QED BY <1>1, <2>12 DEF SeatsFor
  <1> QED BY <1>2, <1>3 DEF Join, RegisterJoin

\* A change of role keeps the number of members; a removal makes it no larger.
LEMMA ChangeFree ==
  ASSUME TeamIInv, TeamIInv', NEW r \in Requests, SeatsFor(Usable, 0),
         CountOwners(r) \/ UpdateRole(r) \/ RemoveMember(r)
  PROVE  SeatFree(r)' /\ SeatsFor(Usable, 0)'
  <1>1. invite' = invite BY DEF CountOwners, UpdateRole, RemoveMember, tables
  <1>2. Usable' = Usable BY <1>1 DEF Usable, Pending
  <1>3. Cardinality(member') <= Cardinality(member)
        /\ Cardinality(member') \in Nat /\ Cardinality(member) \in Nat
    <2>1. Cardinality(member') \in Nat /\ Cardinality(member) \in Nat
          /\ seatsUsed' = Cardinality(member') /\ seatsUsed = Cardinality(member)
      BY MemberCount, FS_CardinalityType DEF TeamIInv, SeatsUsedCounts
    <2>2. seatsUsed' \in {seatsUsed, seatsUsed - 1}
      BY DEF CountOwners, UpdateRole, RemoveMember, tables
    <2> QED BY <2>1, <2>2
  <1>4. SeatsFor(Usable, 0)'
    <2>1. Cardinality(Usable) \in Nat BY InvitesFinite DEF TeamIInv
    <2>2. Cardinality(member) + Cardinality(Usable) + 0 <= Seats BY DEF SeatsFor
    <2>3. Cardinality(member') + Cardinality(Usable') + 0 <= Seats
      BY <1>2, <1>3, <2>1, <2>2, TeamAssumption
    <2> QED BY <2>3 DEF SeatsFor
  <1>5. request'[r].pc \in {"idle", "apply"}
    <2>1. request[r] \in Changing BY KindOf DEF TeamIInv, CountOwners, UpdateRole, RemoveMember
    <2>2. CASE CountOwners(r)
      BY <2>1, <2>2 DEF CountOwners, StepIf, Step, Finish, Changing, Idle, TeamIInv, TeamTypeOK
    <2>3. CASE UpdateRole(r) BY <2>3 DEF UpdateRole, Finish, Idle, TeamIInv, TeamTypeOK
    <2>4. CASE RemoveMember(r) BY <2>4 DEF RemoveMember, Forget, Idle
    <2> QED BY <2>2, <2>3, <2>4
  <1> QED BY <1>4, <1>5 DEF SeatFree

\* What a new request has counted is there; an invite taken up is usable.
LEMMA TakingFree ==
  ASSUME TeamIInv, NEW r \in Requests, SeatsFor(Usable, 0), Taking(r)
  PROVE  SeatFree(r)' /\ SeatsFor(Usable, 0)'
  <1>1. UNCHANGED tables BY TakeOthers DEF TeamIInv
  <1>2. member' = member /\ Usable' = Usable BY <1>1 DEF tables, Usable, Pending
  <1>3. SeatsFor(Usable, 0)' BY <1>2 DEF SeatsFor
  <1>4. ASSUME NEW rec, Take(r, rec) PROVE request'[r] = rec
    BY <1>4 DEF Take, TeamIInv, TeamTypeOK
  <1>5. ASSUME NEW by \in People, NEW p \in People, NEW role \in Roles, SendInvite(r, by, p, role)
        PROVE  SeatFree(r)'
    <2> DEFINE rec == [pc |-> "countPending", all |-> FALSE, emails |-> {p}, role |-> role,
                       members |-> Cardinality(member)]
    <2>1. request'[r] = rec BY <1>4, <1>5 DEF SendInvite
    <2>2. rec.pc = "countPending" /\ rec.members = Cardinality(member) /\ rec.emails = {p} OBVIOUS
    <2> HIDE DEF rec
    <2> QED BY <1>2, <2>1, <2>2 DEF SeatFree
  <1>6. ASSUME NEW by \in People, NEW emails \in SUBSET People, InviteMembers(r, by, emails)
        PROVE  SeatFree(r)'
    <2> DEFINE rec == [pc |-> "countPending", all |-> TRUE, emails |-> emails, role |-> "BROKER",
                       members |-> Cardinality(member)]
    <2>1. request'[r] = rec BY <1>4, <1>6 DEF InviteMembers
    <2>2. rec.pc = "countPending" /\ rec.members = Cardinality(member) /\ rec.all OBVIOUS
    <2> HIDE DEF rec
    <2> QED BY <1>2, <2>1, <2>2 DEF SeatFree
  <1>7. ASSUME NEW p \in People, NEW i \in DOMAIN invite, AcceptInvite(r, p, i) \/ RegisterViaInvite(r, p, i)
        PROVE  SeatFree(r)'
    <2>1. i \in Usable BY <1>7 DEF AcceptInvite, RegisterViaInvite
    <2>2. request'[r].pc \in {"checkMembership", "registerJoin"} /\ request'[r].invite = i
      BY <1>4, <1>7 DEF AcceptInvite, RegisterViaInvite
    <2>3. IsFiniteSet(Usable) /\ Cardinality(member) \in Nat /\ Cardinality(Usable) \in Nat
      BY InvitesFinite, MemberCount DEF TeamIInv
    <2>4. Cardinality(Usable \ {i}) = Cardinality(Usable) - 1 BY <2>1, <2>3, FS_RemoveElement
    <2>5. Cardinality(member) + Cardinality(Usable) + 0 <= Seats BY DEF SeatsFor
    <2>6. Cardinality(member') + Cardinality(Usable' \ {request'[r].invite}) + 1 <= Seats
      BY <1>2, <2>2, <2>3, <2>4, <2>5, TeamAssumption
    <2> QED BY <2>2, <2>6 DEF SeatFree, SeatsFor
  <1>8. ASSUME NEW by \in People, NEW i \in DOMAIN invite, ResendInvite(r, by, i)
        PROVE  SeatFree(r)'
    <2>1. request'[r].pc = "extend" BY <1>4, <1>8 DEF ResendInvite
    <2> QED BY <2>1 DEF SeatFree
  <1>9. ASSUME NEW by \in People, NEW m \in member, NEW action \in {"remove"} \cup Roles,
               ChangeMember(r, by, m, action)
        PROVE  SeatFree(r)'
    <2> DEFINE pc == IF Guarded(by, m, action) THEN "countOwners" ELSE "apply"
    <2>1. request'[r].pc = pc BY <1>4, <1>9 DEF ChangeMember
    <2> QED BY <2>1 DEF SeatFree
  <1> QED BY <1>3, <1>5, <1>6, <1>7, <1>8, <1>9 DEF Taking

\* An invite revoked or expired is not usable; nothing else changes its being so.
LEMMA SlotlessFree ==
  ASSUME TeamIInv, Slotless \/ UNCHANGED vars
  PROVE  /\ Usable' \subseteq Usable /\ member' = member /\ request' = request
         /\ revived' = revived /\ serial' = serial
  <1>1. ASSUME NEW i \in DOMAIN invite, NEW row \in InviteRows, invite' = [invite EXCEPT ![i] = row],
               row.status = "REVOKED" \/ row.expired
        PROVE  Usable' \subseteq Usable
    BY <1>1 DEF Usable, Pending
  <1>2. ASSUME NEW by \in People, NEW i \in DOMAIN invite, RevokeInvite(by, i)
        PROVE  Usable' \subseteq Usable
    <2> DEFINE row == [invite[i] EXCEPT !.status = "REVOKED"]
    <2>1. invite[i] \in InviteRows BY InviteType
    <2>2. row \in InviteRows /\ row.status = "REVOKED" BY <2>1 DEF InviteRows
    <2>3. invite' = [invite EXCEPT ![i] = row] BY <1>2 DEF RevokeInvite
    <2> HIDE DEF row
    <2> QED BY <1>1, <2>2, <2>3
  <1>3. ASSUME NEW i \in DOMAIN invite, Expire(i)
        PROVE  Usable' \subseteq Usable
    <2> DEFINE row == [invite[i] EXCEPT !.expired = TRUE]
    <2>1. invite[i] \in InviteRows BY InviteType
    <2>2. row \in InviteRows /\ row.expired BY <2>1 DEF InviteRows
    <2>3. invite' = [invite EXCEPT ![i] = row] BY <1>3 DEF Expire
    <2> HIDE DEF row
    <2> QED BY <1>1, <2>2, <2>3
  <1>4. ASSUME UNCHANGED vars \/ \E p \in People : SignUp(p) PROVE Usable' \subseteq Usable
    BY <1>4 DEF SignUp, vars, Usable, Pending
  <1>5. Usable' \subseteq Usable BY <1>2, <1>3, <1>4 DEF Slotless
  <1> QED BY <1>5 DEF Slotless, RevokeInvite, Expire, SignUp, vars

\* Members and usable invites that only get fewer keep their seats.
LEMMA StillSeated ==
  ASSUME TeamIInv, SeatsFor(Usable, 0), Usable' \subseteq Usable, member' = member
  PROVE  SeatsFor(Usable, 0)'
  <1>1. IsFiniteSet(Usable) /\ Cardinality(member) \in Nat
    BY InvitesFinite, MemberCount DEF TeamIInv
  <1>2. Cardinality(Usable') <= Cardinality(Usable)
        /\ Cardinality(Usable') \in Nat /\ Cardinality(Usable) \in Nat
    BY <1>1, Fewer
  <1>3. Cardinality(member) + Cardinality(Usable) + 0 <= Seats BY DEF SeatsFor
  <1>4. Cardinality(member') + Cardinality(Usable') + 0 <= Seats
    BY <1>1, <1>2, <1>3, TeamAssumption
  <1> QED BY <1>4 DEF SeatsFor

\* That an expired invite was sent again is never forgotten.
LEMMA RevivedKept ==
  ASSUME TeamIInv, [Next]_vars, ~revived'
  PROVE  ~revived
  <1>1. revived \in BOOLEAN BY DEF TeamIInv, TeamTypeOK
  <1>2. ASSUME NEW r \in Requests, Serve(r) PROVE ~revived
    <2>1. CASE Extend(r)
      <3>1. revived' = (revived \/ (serial /\ invite[request[r].invite].expired)) BY <2>1 DEF Extend
      <3> QED BY <1>1, <3>1
    <2>2. CASE CountPending(r) \/ CheckMember(r) \/ RevokeOld(r) \/ \E p \in People : CreateInvite(r, p)
      BY <2>2 DEF CountPending, CheckMember, RevokeOld, CreateInvite, tables
    <2>3. CASE CheckMembership(r) \/ Join(r) \/ RegisterJoin(r)
      BY <2>3 DEF CheckMembership, Join, RegisterJoin, tables
    <2>4. CASE CountOwners(r) \/ UpdateRole(r) \/ RemoveMember(r)
      BY <2>4 DEF CountOwners, UpdateRole, RemoveMember, tables
    <2> QED BY <1>2, <2>1, <2>2, <2>3, <2>4 DEF Serve
  <1>3. ASSUME NEW r \in Requests, Taking(r) PROVE ~revived
    BY <1>3, TakeOthers DEF tables, TeamIInv
  <1>4. CASE Slotless \/ UNCHANGED vars BY <1>4, SlotlessFree
  <1> QED BY <1>2, <1>3, <1>4, WhoSteps

\* Every step keeps the seats promised.
LEMMA SeatsStep ==
  ASSUME TeamIInv, TeamIInv', OneAtATime, SeatsPromised, [Next]_vars
  PROVE  SeatsPromised'
  <1> SUFFICES ASSUME serial', ~revived'
               PROVE  SeatsFor(Usable, 0)' /\ \A q \in Requests : SeatFree(q)'
    BY DEF SeatsPromised
  <1>t. TeamTypeOK BY DEF TeamIInv
  <1>s. serial
    <2>1. ASSUME NEW r \in Requests, Serve(r) PROVE serial BY <1>t, <2>1, ServeOthers
    <2>2. ASSUME NEW r \in Requests, Taking(r) PROVE serial BY <1>t, <2>2, TakeOthers DEF tables
    <2>3. CASE Slotless \/ UNCHANGED vars BY <2>3, SlotlessFree
    <2> QED BY <2>1, <2>2, <2>3, WhoSteps
  <1>0. SeatsFor(Usable, 0) /\ \A q \in Requests : SeatFree(q)
    BY <1>s, RevivedKept DEF SeatsPromised
  <1>1. ASSUME NEW r \in Requests, Serve(r) PROVE SeatsFor(Usable, 0)' /\ \A q \in Requests : SeatFree(q)'
    <2>1. \A q \in Requests \ {r} : SeatFree(q)' BY <1>t, <1>s, <1>1, AloneFree
    <2>2. SeatFree(r) BY <1>0
    <2>3. CASE CountPending(r)
      <3>1. SeatFree(r)' BY <2>2, <2>3, CountPendingFree
      <3>2. UNCHANGED <<member, invite>> BY <2>3 DEF CountPending, tables
      <3>3. Usable' = Usable BY <3>2 DEF Usable, Pending
      <3> QED BY <1>0, <2>1, <3>1, <3>2, <3>3, StillSeated
    <2>4. CASE CheckMember(r) \/ RevokeOld(r) \/ CheckMembership(r)
      BY <1>0, <2>1, <2>2, <2>4, InvitingFree, StillSeated
    <2>5. ASSUME NEW p \in People, CreateInvite(r, p)
          PROVE  SeatsFor(Usable, 0)' /\ \A q \in Requests : SeatFree(q)'
      BY <2>1, <2>2, <2>5, CreateInviteFree
    <2>6. CASE Extend(r) BY <1>0, <1>s, <2>1, <2>6, ExtendFree, DoneFree, StillSeated
    <2>7. CASE Join(r) \/ RegisterJoin(r) BY <1>0, <2>1, <2>2, <2>7, AdmitFree, DoneFree
    <2>8. CASE CountOwners(r) \/ UpdateRole(r) \/ RemoveMember(r)
      BY <1>0, <2>1, <2>8, ChangeFree
    <2> QED BY <1>1, <2>3, <2>4, <2>5, <2>6, <2>7, <2>8 DEF Serve
  <1>2. ASSUME NEW r \in Requests, Taking(r) PROVE SeatsFor(Usable, 0)' /\ \A q \in Requests : SeatFree(q)'
    BY <1>t, <1>s, <1>0, <1>2, AloneFree, TakingFree
  <1>3. CASE Slotless \/ UNCHANGED vars
    <2>1. Usable' \subseteq Usable /\ member' = member /\ request' = request
      BY <1>3, SlotlessFree
    <2>2. \A q \in Requests : SeatFree(q)' BY <1>0, <2>1, StillFree
    <2> QED BY <1>0, <2>1, <2>2, StillSeated
  <1> QED BY <1>1, <1>2, <1>3, WhoSteps

\* What is proved of the seats, in one invariant.
SeatsInv == TeamIInv /\ OneAtATime /\ SeatsPromised

LEMMA SeatsInvInitially == Init => SeatsInv
  <1> SUFFICES ASSUME Init PROVE SeatsInv
    OBVIOUS
  <1>1. Cardinality(member) = 1 BY FS_Singleton DEF Init
  <1>2. Usable = {} BY DEF Init, Usable, Pending
  <1>3. SeatsFor(Usable, 0) BY <1>1, <1>2, FS_EmptySet, TeamAssumption DEF SeatsFor
  <1>4. \A r \in Requests : request[r] = Idle BY DEF Init
  <1>5. SeatsPromised BY <1>3, <1>4 DEF SeatsPromised, SeatFree, Idle
  <1>6. OneAtATime BY <1>4 DEF OneAtATime
  <1> QED BY <1>5, <1>6, TeamIInvInitially DEF SeatsInv

\* However many people, requests, seats and invites: taken one at a time,
\* requests never promise more seats than there are, until an invite that had
\* expired is sent again.
THEOREM SeatsKept == Spec => []SerialSeatsKept
  <1>1. SeatsInv /\ [Next]_vars => SeatsInv'
    BY TeamIInvInductive, AloneStep, SeatsStep DEF SeatsInv, TeamIInv
  <1>2. SeatsInv => SerialSeatsKept
    <2> SUFFICES ASSUME SeatsInv, serial, ~revived PROVE Cardinality(member) + Cardinality(Usable) <= Seats
      BY DEF SerialSeatsKept
    <2>1. Cardinality(member) + Cardinality(Usable) + 0 <= Seats BY DEF SeatsInv, SeatsPromised, SeatsFor
    <2>2. Cardinality(member) \in Nat /\ Cardinality(Usable) \in Nat
      BY InvitesFinite, MemberCount DEF SeatsInv, TeamIInv
    <2> QED BY <2>1, <2>2
  <1> QED BY SeatsInvInitially, <1>1, <1>2, PTL DEF Spec
=============================================================================
