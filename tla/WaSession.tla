------------------------------ MODULE WaSession ------------------------------
(***************************************************************************)
(* How IngestionService keeps one WhatsApp number connected: the entry of  *)
(* its `sessions` map, the sockets it opens, and the handlers, timers and  *)
(* admin requests that act on them, in any order.  Numbers do not share    *)
(* any of it, so the module follows a single one.                          *)
(*                                                                         *)
(* A step runs from one await to the next.  A socket is a Baileys socket,  *)
(* of which only this is used: it connects or not, reports its death once  *)
(* (to the close handler), and end() kills it.  A rejection that nothing   *)
(* catches ends the process.                                               *)
(***************************************************************************)
EXTENDS Naturals, Sequences, FiniteSets

CONSTANTS
    MaxAdds, MaxRemoves,    \* bounds on the admin's requests
    MaxDrops,               \* bound on the connections lost
    MaxFails,               \* bound on the calls refused
    MaxRestarts             \* bound on the process's restarts

ASSUME WaSessionAssumption == {MaxAdds, MaxRemoves, MaxDrops, MaxFails, MaxRestarts} \subseteq Nat

VARIABLES
    row,        \* the IngestionPhone row
    sockets,    \* every socket opened so far
    session,    \* the number's entry in the map
    starting,   \* executions of startSession between its check and its set, by caller
    timers,     \* reconnect timers running
    closers,    \* close handlers under way
    adding,     \* addPhone requests between their upsert and startSession
    removing,   \* removePhone requests under way, by what they do next
    boot,       \* whether onModuleInit is done
    races,      \* history: starts begun while another was between its check and its
                \* set, and entries deleted by a removal, since all was at rest
    lost,       \* history: how the last work for the number ended without a socket
    count       \* of each bounded event, so far

vars == <<row, sockets, session, starting, timers, closers, adding, removing, boot, races, lost, count>>
admin == <<adding, removing>>
history == <<races, lost>>

-----------------------------------------------------------------------------

SocketState == {"connecting", "open", "dead"}
Status      == {"CONNECTING", "QR_PENDING", "CONNECTED", "DISCONNECTED"}

\* Who calls startSession, and what each does with its failure: onModuleInit
\* logs it, addPhone answers with it, the timer leaves it to nobody.
Callers == {"boot", "add", "timer"}

NoSession == [socket |-> 0]
Sessions  == [socket : Nat \ {0}, status : Status]

Closers == [socket : Nat, pc : {"read", "act", "clear"}, active : BOOLEAN, loggedOut : BOOLEAN]

Events == {"add", "remove", "drop", "fail", "restart"}
Bound  == [add |-> MaxAdds, remove |-> MaxRemoves, drop |-> MaxDrops, fail |-> MaxFails,
           restart |-> MaxRestarts]

\* Types of the sessions, sockets, timers and handlers.
WaSessionTypeOK ==
    /\ row \in {"none", "active", "removed"}
    /\ sockets \in Seq(SocketState)
    /\ session \in Sessions \cup {NoSession}
    /\ starting \in [Callers -> Nat]
    /\ timers \in Nat /\ adding \in Nat /\ races \in Nat
    /\ closers \subseteq Closers
    /\ removing \in [{"delete", "update"} -> Nat]
    /\ boot \in {"reading", "starting", "up"}
    /\ lost \in {"no", "reported", "stale"}
    /\ count \in [Events -> Nat]

Init ==
    /\ row \in {"none", "active"}
    /\ sockets = << >>
    /\ session = NoSession
    /\ starting = [c \in Callers |-> 0]
    /\ timers = 0 /\ adding = 0 /\ races = 0
    /\ closers = {}
    /\ removing = [pc \in {"delete", "update"} |-> 0]
    /\ boot = "reading"
    /\ lost = "no"
    /\ count = [e \in Events |-> 0]

Alive == {s \in DOMAIN sockets : sockets[s] # "dead"}

InFlight == starting["boot"] + starting["add"] + starting["timer"]

Count(e) == count[e] < Bound[e] /\ count' = [count EXCEPT ![e] = @ + 1]

\* The handlers write the status of whatever entry the map holds.
WithStatus(st) == IF session = NoSession THEN NoSession ELSE [session EXCEPT !.status = st]

\* Something is under way that may start the number.
Working == InFlight + timers + adding > 0 \/ closers # {} \/ boot # "up"

\* The process ends, and starts again: everything but the row is lost.
ProcessEnds ==
    /\ sockets' = [s \in DOMAIN sockets |-> "dead"]
    /\ session' = NoSession
    /\ starting' = [c \in Callers |-> 0]
    /\ timers' = 0 /\ adding' = 0 /\ races' = 0
    /\ closers' = {}
    /\ removing' = [pc \in {"delete", "update"} |-> 0]
    /\ boot' = "reading"
    /\ lost' = "no"
    /\ UNCHANGED row

-----------------------------------------------------------------------------
(* startSession *)

AlreadyRunning == session # NoSession

Begun(c) ==
    /\ starting' = [starting EXCEPT ![c] = @ + 1]
    /\ races' = IF InFlight > 0 THEN races + 1 ELSE races

\* Mutant: no check.
StartSessionAnyway(c) == Begun(c)

\* The check; what follows it awaits the credentials and the version.
StartSession(c) == IF AlreadyRunning THEN UNCHANGED <<starting, races>> ELSE Begun(c)

\* Mutant: the entry is for the socket before.
EstablishOffByOne(c) ==
    /\ starting[c] > 0
    /\ starting' = [starting EXCEPT ![c] = @ - 1]
    /\ sockets' = Append(sockets, "connecting")
    /\ session' = [socket |-> Len(sockets), status |-> "CONNECTING"]
    /\ boot' = IF c = "boot" THEN "up" ELSE boot
    /\ lost' = "no"
    /\ UNCHANGED <<row, timers, closers, admin, races, count>>

\* The socket is made and the map's entry set, replacing one set meanwhile.
Establish(c) ==
    /\ starting[c] > 0
    /\ starting' = [starting EXCEPT ![c] = @ - 1]
    /\ sockets' = Append(sockets, "connecting")
    /\ session' = [socket |-> Len(sockets) + 1, status |-> "CONNECTING"]
    /\ boot' = IF c = "boot" THEN "up" ELSE boot
    /\ lost' = "no"
    /\ UNCHANGED <<row, timers, closers, admin, races, count>>

\* startSession throws.
FailStart(c) ==
    /\ starting[c] > 0
    /\ Count("fail")
    /\ \/ c = "timer" /\ ProcessEnds
       \/ /\ c # "timer"
          /\ starting' = [starting EXCEPT ![c] = @ - 1]
          /\ boot' = IF c = "boot" THEN "up" ELSE boot
          /\ lost' = "reported"
          /\ UNCHANGED <<row, sockets, session, timers, closers, admin, races>>

\* The process starts: onModuleInit connects the number if it is active.
Boot ==
    /\ boot = "reading"
    /\ IF row = "active" THEN StartSession("boot") /\ boot' = "starting"
                         ELSE UNCHANGED <<starting, races>> /\ boot' = "up"
    /\ UNCHANGED <<row, sockets, session, timers, closers, admin, lost, count>>

FireTimer ==
    /\ timers > 0
    /\ timers' = timers - 1
    /\ StartSession("timer")
    /\ UNCHANGED <<row, sockets, session, closers, admin, boot, lost, count>>

-----------------------------------------------------------------------------
(* connection.update *)

\* A connecting socket shows a QR code.  The handler dereferences the entry.
ShowQr(s) ==
    /\ s \in Alive /\ sockets[s] = "connecting"
    /\ \/ /\ session # NoSession
          /\ session' = WithStatus("QR_PENDING")
          /\ UNCHANGED <<row, sockets, starting, timers, closers, admin, boot, history>>
       \/ session = NoSession /\ ProcessEnds
    /\ UNCHANGED count

Opened(s) ==
    /\ s \in Alive /\ sockets[s] = "connecting"
    /\ sockets' = [sockets EXCEPT ![s] = "open"]
    /\ session' = WithStatus("CONNECTED")
    /\ UNCHANGED <<row, starting, timers, closers, admin, boot, history, count>>

\* Mutant: the entry is not marked.
DieUnmarked(s, loggedOut) ==
    /\ sockets' = [sockets EXCEPT ![s] = "dead"]
    /\ closers' = closers \cup {[socket |-> s, pc |-> "read", active |-> FALSE, loggedOut |-> loggedOut]}
    /\ UNCHANGED session

\* The socket is dead; its handler marks the entry and asks for the row.
Die(s, loggedOut) ==
    /\ sockets' = [sockets EXCEPT ![s] = "dead"]
    /\ closers' = closers \cup {[socket |-> s, pc |-> "read", active |-> FALSE, loggedOut |-> loggedOut]}
    /\ session' = WithStatus("DISCONNECTED")

Drop(s, loggedOut) ==
    /\ s \in Alive
    /\ Count("drop")
    /\ Die(s, loggedOut)
    /\ UNCHANGED <<row, starting, timers, admin, boot, history>>

ReadRow(k) ==
    /\ k.pc = "read"
    /\ closers' = (closers \ {k}) \cup {[k EXCEPT !.pc = "act", !.active = (row = "active")]}
    /\ UNCHANGED <<row, sockets, session, starting, timers, admin, boot, history, count>>

\* A number read as inactive has been added since.
Overlooked(k) == ~k.active /\ row = "active"

\* Mutants: the dead entry stays; a number logged out is not tried again.
ActOnCloseKeepingEntry(k) ==
    /\ k.pc = "act"
    /\ closers' = (closers \ {k}) \cup (IF k.active /\ k.loggedOut THEN {[k EXCEPT !.pc = "clear"]} ELSE {})
    /\ timers' = IF k.active /\ ~k.loggedOut THEN timers + 1 ELSE timers
    /\ lost' = IF Overlooked(k) THEN "stale" ELSE lost
    /\ UNCHANGED <<row, sockets, session, starting, admin, boot, races, count>>

ActOnCloseOnce(k) ==
    /\ k.pc = "act"
    /\ session' = NoSession
    /\ closers' = closers \ {k}
    /\ timers' = IF k.active /\ ~k.loggedOut THEN timers + 1 ELSE timers
    /\ lost' = IF Overlooked(k) THEN "stale" ELSE lost
    /\ UNCHANGED <<row, sockets, starting, admin, boot, races, count>>

\* The entry goes, whichever socket it is for.  A number read as active gets
\* a timer, after its credentials are cleared if it was logged out.
ActOnClose(k) ==
    /\ k.pc = "act"
    /\ session' = NoSession
    /\ closers' = (closers \ {k}) \cup (IF k.active /\ k.loggedOut THEN {[k EXCEPT !.pc = "clear"]} ELSE {})
    /\ timers' = IF k.active /\ ~k.loggedOut THEN timers + 1 ELSE timers
    /\ lost' = IF Overlooked(k) THEN "stale" ELSE lost
    /\ UNCHANGED <<row, sockets, starting, admin, boot, races, count>>

\* Mutant: the credentials are cleared and nothing reconnects.
ClearAuthOnly(k) ==
    /\ k.pc = "clear"
    /\ closers' = closers \ {k}
    /\ UNCHANGED <<row, sockets, session, starting, timers, admin, boot, history, count>>

ClearAuth(k) ==
    /\ k.pc = "clear"
    /\ closers' = closers \ {k}
    /\ timers' = timers + 1
    /\ UNCHANGED <<row, sockets, session, starting, admin, boot, history, count>>

-----------------------------------------------------------------------------
(* The admin's requests, served once onModuleInit is done, and the process *)

AddPhone ==
    /\ boot = "up"
    /\ Count("add")
    /\ row' = "active"
    /\ adding' = adding + 1
    /\ lost' = "no"
    /\ races' = IF Alive = {} /\ ~Working THEN 0 ELSE races
    /\ UNCHANGED <<sockets, session, starting, timers, closers, removing, boot>>

AddStarts ==
    /\ adding > 0
    /\ adding' = adding - 1
    /\ StartSession("add")
    /\ UNCHANGED <<row, sockets, session, timers, closers, removing, boot, lost, count>>

\* removePhone: stopSession's end(), then its delete, then the row.
RemovePhone ==
    /\ boot = "up"
    /\ row # "none"
    /\ Count("remove")
    /\ IF session = NoSession
         THEN /\ removing' = [removing EXCEPT !["update"] = @ + 1]
              /\ UNCHANGED <<sockets, closers, session>>
         ELSE /\ removing' = [removing EXCEPT !["delete"] = @ + 1]
              /\ IF session.socket \in Alive
                   THEN Die(session.socket, FALSE)
                   ELSE UNCHANGED <<sockets, closers, session>>
    /\ UNCHANGED <<row, starting, timers, adding, boot, history>>

RemoveDeletes ==
    /\ removing["delete"] > 0
    /\ session' = NoSession
    /\ removing' = [removing EXCEPT !["delete"] = @ - 1, !["update"] = @ + 1]
    /\ races' = IF session = NoSession THEN races ELSE races + 1
    /\ UNCHANGED <<row, sockets, starting, timers, closers, adding, boot, lost, count>>

\* The row is written, or the request fails and it stays as it is.
RemoveUpdates ==
    /\ removing["update"] > 0
    /\ removing' = [removing EXCEPT !["update"] = @ - 1]
    /\ \/ row' = "removed" /\ UNCHANGED count
       \/ Count("fail") /\ UNCHANGED row
    /\ UNCHANGED <<sockets, session, starting, timers, closers, adding, boot, history>>

\* A crash, a deployment, or a handler's own call refused by the database.
Restart == Count("restart") /\ ProcessEnds

-----------------------------------------------------------------------------

\* The steps the event loop owes: due timers and answered awaits.
Internal ==
    \/ Boot \/ FireTimer \/ AddStarts \/ RemoveDeletes \/ RemoveUpdates
    \/ \E c \in Callers : Establish(c)
    \/ \E k \in closers : ReadRow(k) \/ ActOnClose(k) \/ ClearAuth(k)

Next ==
    \/ Internal
    \/ AddPhone \/ RemovePhone \/ Restart
    \/ \E c \in Callers : FailStart(c)
    \/ \E s \in DOMAIN sockets : ShowQr(s) \/ Opened(s)
    \/ \E s \in DOMAIN sockets, loggedOut \in BOOLEAN : Drop(s, loggedOut)

Spec == Init /\ [][Next]_vars

\* Timers fire, the database answers and a process that ended is started again;
\* nothing is assumed of WhatsApp, of the admin or of when the process ends.
FairSpec == Spec /\ WF_vars(Internal)

-----------------------------------------------------------------------------
(* Properties *)

\* An active number is not dropped: it has a live socket, or something is under
\* way that will start it, or the start that failed was reported, by the log of
\* the boot or the answer to the admin.  There is one exception: a close
\* handler that had read the number as inactive when it was added again.
Supervised == row = "active" => Alive # {} \/ Working \/ lost # "no"

\* One number, one connection (a second would take every message twice),
\* through any connections lost, additions, removals and restarts.  Every
\* further one has its own cause: a start begun while another was between its
\* check and its set, or a removal that deleted an entry.
OneLiveSocket == Cardinality(Alive) <= 1 + races

\* Where there was no such cause, the status the admin sees is the status of a
\* connection there is, although handlers write it to whatever entry the map
\* holds.
StatusHonest ==
    races = 0 /\ session # NoSession /\ session.status = "CONNECTED"
    => sockets[session.socket] = "open"

\* Nor is there then a live socket but the one in the map (the QR branch
\* dereferences its entry, and would end the process), and at rest the map
\* holds no other.
EntryIsTheSocket ==
    races = 0 =>
        /\ Alive \subseteq {session.socket}
        /\ ~Working => Alive = {session.socket} \ {0}

\* An active number is in the end connected, or connecting, again, or its
\* start was refused as in Supervised.
Reconnects == row = "active" ~> (Alive # {} \/ row # "active" \/ lost # "no")

\* What the admin is asked before a removal, "Remove this phone and disconnect
\* the session?": when all is done a removed number has no connection.
RemovedIsDown == row = "removed" /\ ~Working => Alive = {}

=============================================================================
