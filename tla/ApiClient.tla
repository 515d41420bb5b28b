----------------------------- MODULE ApiClient -----------------------------
(***************************************************************************)
(* A browser's calls to the backend: api() in each tab of the dashboard,   *)
(* which refreshes the access token on a 401, once for all the calls of    *)
(* the tab that meet one meanwhile, and the backend's side of it: the      *)
(* guard of every route, refresh, login and logout.  The tabs share the    *)
(* cookies; the promises of api() and its queue are a tab's own.           *)
(***************************************************************************)
EXTENDS Naturals

CONSTANTS
    ApiTabs,        \* tabs of the dashboard
    ApiRequests,    \* calls a tab makes
    Logouts,        \* those of them that are logouts
    MaxApiEvents,   \* bound on tokens running out, logins and what admins do
    Suspensions     \* whether workspaces are suspended

ASSUME ApiAssumption ==
    /\ Logouts \subseteq ApiRequests
    /\ MaxApiEvents \in Nat
    /\ Suspensions \in BOOLEAN

VARIABLES
    access,         \* the access_token cookie holds a token in force
    session,        \* so does the refresh_token cookie
    account,        \* the user's membership and workspace
    refreshing,     \* isRefreshing of each tab
    call,           \* the state of each call
    attempt,        \* the failed attempts of its tryRefresh
    apiEvents       \* number of events

apiVars == <<access, session, account, refreshing, call, attempt, apiEvents>>

-----------------------------------------------------------------------------

Calls == ApiTabs \X ApiRequests
Tab(c) == c[1]

States == {"new", "sent", "refused", "refresh", "granted", "queued", "settled"}

\* A call that runs its tab's refresh.
Refreshers(t) == {c \in Calls : Tab(c) = t /\ call[c] \in {"refresh", "granted"}}

\* The values of each variable.
ApiTypeOK ==
    /\ access \in BOOLEAN
    /\ session \in BOOLEAN
    /\ account \in {"active", "suspended", "removed"}
    /\ refreshing \in [ApiTabs -> BOOLEAN]
    /\ call \in [Calls -> States]
    /\ attempt \in [Calls -> 0..2]
    /\ apiEvents \in 0..MaxApiEvents

ApiInit ==
    /\ access \in BOOLEAN /\ session \in BOOLEAN
    /\ account = "active"
    /\ refreshing = [t \in ApiTabs |-> FALSE]
    /\ call = [c \in Calls |-> "new"]
    /\ attempt = [c \in Calls |-> 0]
    /\ apiEvents = 0

Cookies(granted) == access' = granted /\ session' = granted
Move(c, state)   == call' = [call EXCEPT ![c] = state]

-----------------------------------------------------------------------------
(* The backend *)

\* JwtAccessStrategy: the token, then the membership and the workspace.
Admits == access /\ account = "active"

\* refresh: the session, the user and a membership, but not the workspace's
\* state.  (A logout revokes no session: it looks for one by the user's id.)
Refreshes == session /\ account # "removed"

-----------------------------------------------------------------------------
(* api() *)

Send(c) ==
    /\ call[c] = "new"
    /\ Move(c, "sent")
    /\ UNCHANGED <<access, session, account, refreshing, attempt, apiEvents>>

\* An answer other than 401, or a network error, settles the call.
Answered(c) ==
    /\ call[c] = "sent"
    /\ Move(c, "settled")
    /\ \/ /\ Admits
          /\ IF c[2] \in Logouts THEN Cookies(FALSE) ELSE UNCHANGED <<access, session>>
       \/ UNCHANGED <<access, session>>
    /\ UNCHANGED <<account, refreshing, attempt, apiEvents>>

Refuse(c) ==
    /\ call[c] = "sent"
    /\ ~Admits
    /\ Move(c, "refused")
    /\ UNCHANGED <<access, session, account, refreshing, attempt, apiEvents>>

\* Mutant: isRefreshing is not looked at.
ReactAlone(c) ==
    /\ call[c] = "refused"
    /\ Move(c, "refresh")
    /\ refreshing' = [refreshing EXCEPT ![Tab(c)] = TRUE]
    /\ UNCHANGED <<access, session, account, attempt, apiEvents>>

\* The 401 has come back: join the refresh under way, or start one.
React(c) ==
    /\ call[c] = "refused"
    /\ IF refreshing[Tab(c)]
         THEN Move(c, "queued") /\ UNCHANGED refreshing
         ELSE Move(c, "refresh") /\ refreshing' = [refreshing EXCEPT ![Tab(c)] = TRUE]
    /\ UNCHANGED <<access, session, account, attempt, apiEvents>>

Grant(c) ==
    /\ call[c] = "refresh"
    /\ Refreshes
    /\ Move(c, "granted")
    /\ attempt' = [attempt EXCEPT ![c] = 0]
    /\ UNCHANGED <<access, session, account, refreshing, apiEvents>>

\* Mutant: the queue is drained only when the refresh succeeded.
EndRefreshKeepingQueue(c, state) ==
    /\ refreshing' = [refreshing EXCEPT ![Tab(c)] = FALSE]
    /\ call' = [d \in Calls |->
                  IF d = c THEN state
                  ELSE IF Tab(d) = Tab(c) /\ call[d] = "queued" /\ state = "sent" THEN "sent" ELSE call[d]]

\* drainQueue: everyone who waits calls again.
EndRefresh(c, state) ==
    /\ refreshing' = [refreshing EXCEPT ![Tab(c)] = FALSE]
    /\ call' = [d \in Calls |->
                  IF d = c THEN state
                  ELSE IF Tab(d) = Tab(c) /\ call[d] = "queued" THEN "sent" ELSE call[d]]

\* The new cookies arrive, whatever has become of the old ones.
Refreshed(c) ==
    /\ call[c] = "granted"
    /\ Cookies(TRUE)
    /\ EndRefresh(c, "sent")
    /\ UNCHANGED <<account, attempt, apiEvents>>

\* An attempt fails, refused or cut off: three do, and the call throws.
RefreshFails(c) ==
    /\ call[c] = "refresh"
    /\ IF attempt[c] < 2
         THEN attempt' = [attempt EXCEPT ![c] = @ + 1] /\ UNCHANGED <<call, refreshing>>
         ELSE attempt' = [attempt EXCEPT ![c] = 0] /\ EndRefresh(c, "settled")
    /\ UNCHANGED <<access, session, account, apiEvents>>

-----------------------------------------------------------------------------
(* What else happens *)

Event == apiEvents < MaxApiEvents /\ apiEvents' = apiEvents + 1

\* The access token runs out, after an hour; or the session, after 30 days.
AccessEnds ==
    /\ access /\ access' = FALSE
    /\ Event
    /\ UNCHANGED <<session, account, refreshing, call, attempt>>

SessionEnds ==
    /\ session /\ session' = FALSE
    /\ Event
    /\ UNCHANGED <<access, account, refreshing, call, attempt>>

Login ==
    /\ account = "active"
    /\ Cookies(TRUE)
    /\ Event
    /\ UNCHANGED <<account, refreshing, call, attempt>>

\* AuthContext's timer refreshes too, beside any refresh of api().
SilentRefresh ==
    /\ Refreshes
    /\ Cookies(TRUE)
    /\ Event
    /\ UNCHANGED <<account, refreshing, call, attempt>>

\* A member is removed or deactivated, a workspace suspended, or let back.
AccountChanges ==
    /\ account' \in {"active", "removed"} \cup (IF Suspensions THEN {"suspended"} ELSE {})
    /\ account' # account
    /\ Event
    /\ UNCHANGED <<access, session, refreshing, call, attempt>>

-----------------------------------------------------------------------------

\* What a call does once it is sent, the network's part included.
Progress(c) ==
    Answered(c) \/ Refuse(c) \/ React(c) \/ Grant(c) \/ Refreshed(c) \/ RefreshFails(c)

ApiNext ==
    \/ \E c \in Calls : Send(c) \/ Progress(c)
    \/ AccessEnds \/ SessionEnds \/ Login \/ SilentRefresh \/ AccountChanges

ApiSpec == ApiInit /\ [][ApiNext]_apiVars

\* A fetch ends, with an answer or an error, and promises are resumed.
FairApiSpec == ApiSpec /\ \A c \in Calls : WF_apiVars(Progress(c))

-----------------------------------------------------------------------------
(* Properties *)

\* At most one call refreshes at a time in each tab, the mark says so exactly,
\* and no call waits in the queue of a tab in which nothing will drain it.
QueueHasWaker ==
    \A t \in ApiTabs :
        /\ refreshing[t] <=> Refreshers(t) # {}
        /\ \A c, d \in Refreshers(t) : c = d
        /\ \A c \in Calls : Tab(c) = t /\ call[c] = "queued" => refreshing[t]

\* The types, and that queued calls will be woken.
ApiInv == ApiTypeOK /\ QueueHasWaker

\* Every call api() sends is resolved or rejected in the end, through refreshes
\* of its own, of other calls and of other tabs, failed or not.
CallsSettle == \A c \in Calls : call[c] = "sent" ~> call[c] = "settled"
=============================================================================
