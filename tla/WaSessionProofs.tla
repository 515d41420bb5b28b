--------------------------- MODULE WaSessionProofs ---------------------------
(***************************************************************************)
(* Proofs about one WhatsApp number's session, for any number of additions, *)
(* removals, connections lost, refused calls and restarts, however they    *)
(* overlap.                                                                *)
(***************************************************************************)
EXTENDS WaSession, FiniteSetTheorems, TLAPS

\* The handlers that have yet to delete the entry.
Deleters == {k \in closers : k.pc \in {"read", "act"}}

\* The map's entry is for a live socket, or a close handler that has not yet
\* deleted it is under way.
EntrySupervised == session # NoSession => session.socket \in Alive \/ Deleters # {}

SupervisedInv == WaSessionTypeOK /\ EntrySupervised /\ Supervised

\* Live sockets, deaths being handled and starts under way are one at most
\* together, and none when the map has no entry, but for the races counted.
Load == Cardinality(Alive) + Cardinality(Deleters) + InFlight

LoadBound ==
    /\ IsFiniteSet(closers)
    /\ Load <= races + 1
    /\ session = NoSession /\ InFlight = 0 => Load <= races

LoadInv == WaSessionTypeOK /\ LoadBound

\* Without races, the number is in one of four situations.
\* No session, and no start past its check.
Rest == InFlight = 0 /\ Deleters = {} /\ session = NoSession /\ Alive = {}

\* One socket, and the entry for it.
Live ==
    /\ InFlight = 0 /\ Deleters = {}
    /\ session # NoSession /\ Alive = {session.socket}
    /\ session.status = "CONNECTED" => sockets[session.socket] = "open"

\* The socket's death is being handled.
Closing ==
    /\ InFlight = 0 /\ Alive = {}
    /\ \E k \in Deleters : Deleters = {k}
    /\ session # NoSession /\ session.status = "DISCONNECTED"

\* One startSession is under way.
Starting == InFlight = 1 /\ Deleters = {} /\ session = NoSession /\ Alive = {}

Situation == Rest \/ Live \/ Closing \/ Starting

LoneInv == SupervisedInv /\ (races = 0 => Situation)

-----------------------------------------------------------------------------
(* What the steps do to the sockets and to the entry *)

\* A socket that dies leaves the live ones; the others keep their state.
LEMMA SocketDies ==
    ASSUME WaSessionTypeOK, NEW s \in Alive, sockets' = [sockets EXCEPT ![s] = "dead"]
    PROVE  sockets' \in Seq(SocketState) /\ Alive' = Alive \ {s}
  BY DEF WaSessionTypeOK, Alive, SocketState

\* A socket that opens is the live one it was.
LEMMA SocketOpens ==
    ASSUME WaSessionTypeOK, NEW s \in Alive, sockets' = [sockets EXCEPT ![s] = "open"]
    PROVE  sockets' \in Seq(SocketState) /\ Alive' = Alive /\ sockets'[s] = "open"
  BY DEF WaSessionTypeOK, Alive, SocketState

\* A new socket is live and numbered after the others.
LEMMA SocketIsMade ==
    ASSUME WaSessionTypeOK, sockets' = Append(sockets, "connecting")
    PROVE  /\ sockets' \in Seq(SocketState)
           /\ Alive' = Alive \cup {Len(sockets) + 1}
           /\ sockets'[Len(sockets) + 1] = "connecting"
           /\ Len(sockets) + 1 \in Nat \ {0}
  BY DEF WaSessionTypeOK, Alive, SocketState

\* Marking the entry neither makes one, removes it nor moves it to another socket.
LEMMA Marking ==
    ASSUME WaSessionTypeOK, NEW st \in Status, session' = WithStatus(st)
    PROVE  /\ session' \in Sessions \cup {NoSession}
           /\ session' = NoSession <=> session = NoSession
           /\ session'.socket = session.socket
           /\ session' # NoSession => session'.status = st
  BY DEF WaSessionTypeOK, WithStatus, Sessions, NoSession

\* The count of an event stays a number.
LEMMA Counting ==
    ASSUME WaSessionTypeOK, NEW e \in Events, Count(e)
    PROVE  count' \in [Events -> Nat]
  BY DEF WaSessionTypeOK, Count, Events

\* The starts under way are counted by caller.
LEMMA Flights ==
    ASSUME WaSessionTypeOK, NEW c \in Callers
    PROVE  /\ InFlight \in Nat /\ starting[c] <= InFlight
           /\ starting' = [starting EXCEPT ![c] = @ + 1] =>
                starting' \in [Callers -> Nat] /\ InFlight' = InFlight + 1
           /\ starting[c] > 0 /\ starting' = [starting EXCEPT ![c] = @ - 1] =>
                starting' \in [Callers -> Nat] /\ InFlight' = InFlight - 1
           /\ starting' = starting => InFlight' = InFlight
<1>1. /\ starting \in [Callers -> Nat]
      /\ starting["boot"] \in Nat /\ starting["add"] \in Nat /\ starting["timer"] \in Nat
      /\ c = "boot" \/ c = "add" \/ c = "timer"
  BY DEF WaSessionTypeOK, Callers
<1>2. InFlight \in Nat /\ starting[c] <= InFlight /\ starting[c] \in Nat
  BY <1>1 DEF InFlight
<1>3. ASSUME NEW n \in Nat, starting' = [starting EXCEPT ![c] = n]
      PROVE  starting' \in [Callers -> Nat] /\ InFlight' = InFlight + n - starting[c]
  <2>1. starting' \in [Callers -> Nat]
    BY <1>1, <1>3
  <2>2. /\ starting'[c] = n
        /\ \A d \in Callers : d # c => starting'[d] = starting[d]
    BY <1>1, <1>3
  <2>3. CASE c = "boot"
    <3>1. starting'["boot"] = n /\ starting'["add"] = starting["add"] /\ starting'["timer"] = starting["timer"]
      BY <2>2, <2>3 DEF Callers
    <3> QED BY <1>1, <2>1, <2>3, <3>1 DEF InFlight
  <2>4. CASE c = "add"
    <3>1. starting'["boot"] = starting["boot"] /\ starting'["add"] = n /\ starting'["timer"] = starting["timer"]
      BY <2>2, <2>4 DEF Callers
    <3> QED BY <1>1, <2>1, <2>4, <3>1 DEF InFlight
  <2>5. CASE c = "timer"
    <3>1. starting'["boot"] = starting["boot"] /\ starting'["add"] = starting["add"] /\ starting'["timer"] = n
      BY <2>2, <2>5 DEF Callers
    <3> QED BY <1>1, <2>1, <2>5, <3>1 DEF InFlight
  <2> QED BY <1>1, <2>3, <2>4, <2>5
<1>4. ASSUME starting' = [starting EXCEPT ![c] = @ + 1]
      PROVE  starting' \in [Callers -> Nat] /\ InFlight' = InFlight + 1
  <2>1. PICK n \in Nat : n = starting[c] + 1
    BY <1>2
  <2>2. starting' = [starting EXCEPT ![c] = n]
    BY <1>4, <2>1
  <2>3. starting' \in [Callers -> Nat] /\ InFlight' = InFlight + n - starting[c]
    BY <1>3, <2>2
  <2>4. InFlight + n - starting[c] = InFlight + 1
    BY <1>2, <2>1
  <2> QED BY <2>3, <2>4, Zenon
<1>5. ASSUME starting[c] > 0, starting' = [starting EXCEPT ![c] = @ - 1]
      PROVE  starting' \in [Callers -> Nat] /\ InFlight' = InFlight - 1
  <2>1. PICK n \in Nat : n = starting[c] - 1
    BY <1>2, <1>5
  <2>2. starting' = [starting EXCEPT ![c] = n]
    BY <1>5, <2>1
  <2>3. starting' \in [Callers -> Nat] /\ InFlight' = InFlight + n - starting[c]
    BY <1>3, <2>2
  <2>4. InFlight + n - starting[c] = InFlight - 1
    BY <1>2, <2>1
  <2> QED BY <2>3, <2>4, Zenon
<1>6. starting' = starting => InFlight' = InFlight
  BY DEF InFlight
<1> QED BY <1>2, <1>4, <1>5, <1>6

\* What startSession's check comes to.
LEMMA Checked ==
    ASSUME WaSessionTypeOK, NEW c \in Callers, StartSession(c)
    PROVE  /\ starting' \in [Callers -> Nat] /\ races' \in Nat /\ races <= races'
           /\ \/ session # NoSession /\ starting' = starting /\ InFlight' = InFlight /\ races' = races
              \/ /\ session = NoSession /\ InFlight' = InFlight + 1
                 /\ races' = IF InFlight > 0 THEN races + 1 ELSE races
<1>1. races \in Nat /\ InFlight \in Nat
  BY Flights DEF WaSessionTypeOK
<1>2. CASE session # NoSession
  BY <1>1, <1>2, Flights DEF StartSession, AlreadyRunning, WaSessionTypeOK
<1>3. CASE session = NoSession
  BY <1>1, <1>3, Flights DEF StartSession, AlreadyRunning, Begun
<1>4. QED BY <1>2, <1>3

\* The end of the process leaves nothing but the row.
LEMMA Ended ==
    ASSUME WaSessionTypeOK, ProcessEnds
    PROVE  /\ sockets' \in Seq(SocketState) /\ starting' \in [Callers -> Nat]
           /\ removing' \in [{"delete", "update"} -> Nat]
           /\ Alive' = {} /\ InFlight' = 0 /\ Deleters' = {} /\ closers' = {}
           /\ session' = NoSession /\ races' = 0
<1>1. sockets' \in Seq(SocketState) /\ Alive' = {}
  BY DEF WaSessionTypeOK, Alive, SocketState, ProcessEnds
<1>2. starting' \in [Callers -> Nat] /\ InFlight' = 0
  BY DEF ProcessEnds, InFlight, Callers
<1>3. QED BY <1>1, <1>2 DEF ProcessEnds, Deleters

\* What the death of a live socket leaves: the entry marked, a handler more.
LEMMA Death ==
    ASSUME WaSessionTypeOK, NEW s \in Alive, NEW out \in BOOLEAN, Die(s, out)
    PROVE  /\ sockets' \in Seq(SocketState) /\ Alive' = Alive \ {s}
           /\ session' \in Sessions \cup {NoSession}
           /\ session' = NoSession <=> session = NoSession
           /\ session'.socket = session.socket
           /\ session' # NoSession => session'.status = "DISCONNECTED"
           /\ closers' \subseteq Closers
           /\ \E k \in Closers : closers' = closers \cup {k} /\ Deleters' = Deleters \cup {k}
<1> DEFINE k == [socket |-> s, pc |-> "read", active |-> FALSE, loggedOut |-> out]
<1>1. s \in Nat
  BY DEF Alive, WaSessionTypeOK
<1>2. k \in Closers /\ k.pc = "read"
  BY <1>1 DEF Closers
<1>3. closers' = closers \cup {k} /\ closers \subseteq Closers
  BY DEF Die, WaSessionTypeOK
<1>4. "DISCONNECTED" \in Status /\ session' = WithStatus("DISCONNECTED")
  BY DEF Status, Die
<1>5. sockets' = [sockets EXCEPT ![s] = "dead"]
  BY DEF Die
<1>6. Deleters' = Deleters \cup {k}
  BY <1>2, <1>3 DEF Deleters
<1> QED
  BY <1>2, <1>3, <1>4, <1>5, <1>6, SocketDies, Marking

\* A row answered is kept in the handler, which goes on to act.
LEMMA RowAnswered ==
    ASSUME WaSessionTypeOK, NEW k \in closers, ReadRow(k)
    PROVE  /\ k \in Deleters
           /\ \E j \in Closers : /\ closers' = (closers \ {k}) \cup {j}
                                 /\ Deleters' = (Deleters \ {k}) \cup {j}
<1> DEFINE b == row = "active"
           j == [k EXCEPT !.pc = "act", !.active = b]
<1>1. b \in BOOLEAN
  OBVIOUS
<1>2. k \in Closers /\ closers' = (closers \ {k}) \cup {j} /\ k.pc = "read"
  BY DEF ReadRow, WaSessionTypeOK
<1>3. ASSUME NEW c \in BOOLEAN
      PROVE  /\ [k EXCEPT !.pc = "act", !.active = c] \in Closers
             /\ [k EXCEPT !.pc = "act", !.active = c].pc = "act"
  BY <1>2 DEF Closers
<1>4. j \in Closers /\ j.pc = "act"
  BY <1>1, <1>3, Zenon
<1>5. k \in Deleters
  BY <1>2 DEF Deleters
<1> HIDE DEF j
<1>6. Deleters' = (Deleters \ {k}) \cup {j}
  BY <1>2, <1>4 DEF Deleters
<1> QED
  BY <1>2, <1>4, <1>5, <1>6, Zenon

\* A handler that acts deletes the entry, and schedules a start if it read an
\* active number: at once, or after clearing the credentials.
LEMMA ActedOn ==
    ASSUME WaSessionTypeOK, NEW k \in closers, ActOnClose(k)
    PROVE  /\ k \in Deleters /\ Deleters' = Deleters \ {k}
           /\ session' = NoSession /\ timers' \in Nat
           /\ \/ ~k.active /\ closers' = closers \ {k}
              \/ closers' = closers \ {k} /\ timers' = timers + 1
              \/ \E j \in Closers : closers' = (closers \ {k}) \cup {j}
<1>1. k \in Closers /\ k.pc = "act" /\ timers \in Nat
  BY DEF WaSessionTypeOK, ActOnClose
<1>2. [k EXCEPT !.pc = "clear"] \in Closers /\ [k EXCEPT !.pc = "clear"].pc = "clear"
  BY <1>1 DEF Closers
<1>3. k \in Deleters /\ Deleters' = Deleters \ {k}
  BY <1>1, <1>2 DEF ActOnClose, Deleters
<1> QED
  BY <1>1, <1>2, <1>3 DEF ActOnClose

\* Credentials are cleared by a handler that has already deleted the entry.
LEMMA Cleared ==
    ASSUME WaSessionTypeOK, NEW k \in closers, ClearAuth(k)
    PROVE  Deleters' = Deleters /\ closers' = closers \ {k}
  BY DEF ClearAuth, Deleters

-----------------------------------------------------------------------------
(* Typing *)

\* Every step keeps the types.
LEMMA TypeStep ==
    ASSUME WaSessionTypeOK, [Next]_vars
    PROVE  WaSessionTypeOK'
<1> USE DEF admin, history
<1>a. ASSUME ProcessEnds, count' \in [Events -> Nat] PROVE WaSessionTypeOK'
  BY <1>a, Ended DEF WaSessionTypeOK, ProcessEnds
<1>b. "add" \in Callers /\ "timer" \in Callers /\ "boot" \in Callers
  BY DEF Callers
<1>1. CASE UNCHANGED vars
  BY <1>1 DEF WaSessionTypeOK, vars
<1>2. CASE Boot
  <2>1. starting' \in [Callers -> Nat] /\ races' \in Nat
    BY <1>2, <1>b, Checked DEF Boot, WaSessionTypeOK
  <2> QED
    BY <1>2, <2>1 DEF WaSessionTypeOK, Boot
<1>3. ASSUME NEW c \in Callers, Establish(c) PROVE WaSessionTypeOK'
  <2>1. sockets' = Append(sockets, "connecting") /\ session' = [socket |-> Len(sockets) + 1, status |-> "CONNECTING"]
    BY <1>3 DEF Establish
  <2>2. session' \in Sessions
    BY <2>1, SocketIsMade DEF Sessions, Status
  <2>3. starting' \in [Callers -> Nat]
    BY <1>3, Flights DEF Establish
  <2> QED
    BY <1>3, <2>1, <2>2, <2>3, SocketIsMade DEF WaSessionTypeOK, Establish
<1>4. CASE FireTimer
  <2>1. starting' \in [Callers -> Nat] /\ races' \in Nat
    BY <1>4, <1>b, Checked DEF FireTimer
  <2> QED
    BY <1>4, <2>1 DEF WaSessionTypeOK, FireTimer
<1>5. CASE AddStarts
  <2>1. starting' \in [Callers -> Nat] /\ races' \in Nat
    BY <1>5, <1>b, Checked DEF AddStarts
  <2> QED
    BY <1>5, <2>1 DEF WaSessionTypeOK, AddStarts
<1>6. CASE RemoveDeletes
  <2>1. removing' \in [{"delete", "update"} -> Nat] /\ races' \in Nat
    BY <1>6 DEF WaSessionTypeOK, RemoveDeletes
  <2> QED
    BY <1>6, <2>1 DEF WaSessionTypeOK, RemoveDeletes
<1>7. CASE RemoveUpdates
  <2>1. removing' \in [{"delete", "update"} -> Nat]
    BY <1>7 DEF WaSessionTypeOK, RemoveUpdates
  <2>2. count' \in [Events -> Nat]
    BY <1>7, Counting DEF RemoveUpdates, WaSessionTypeOK, Events
  <2> QED
    BY <1>7, <2>1, <2>2 DEF WaSessionTypeOK, RemoveUpdates
<1>8. ASSUME NEW k \in closers, ReadRow(k) PROVE WaSessionTypeOK'
  <2>1. closers' \subseteq Closers
    BY <1>8, RowAnswered DEF WaSessionTypeOK
  <2>2. UNCHANGED <<row, sockets, session, starting, timers, admin, boot, history, count>>
    BY <1>8 DEF ReadRow
  <2> QED
    BY <2>1, <2>2 DEF WaSessionTypeOK
<1>9. ASSUME NEW k \in closers, ActOnClose(k) PROVE WaSessionTypeOK'
  <2>1. closers' \subseteq Closers /\ timers' \in Nat /\ session' = NoSession
    BY <1>9, ActedOn DEF WaSessionTypeOK
  <2> QED
    BY <1>9, <2>1 DEF WaSessionTypeOK, ActOnClose
<1>10. ASSUME NEW k \in closers, ClearAuth(k) PROVE WaSessionTypeOK'
  BY <1>10 DEF WaSessionTypeOK, ClearAuth
<1>11. CASE AddPhone
  <2>1. count' \in [Events -> Nat]
    BY <1>11, Counting DEF AddPhone, Events
  <2>2. adding' \in Nat /\ races' \in Nat
    BY <1>11 DEF AddPhone, WaSessionTypeOK
  <2>3. /\ row' = "active" /\ lost' = "no"
        /\ UNCHANGED <<sockets, session, starting, timers, closers, removing, boot>>
    BY <1>11 DEF AddPhone
  <2> QED
    BY <2>1, <2>2, <2>3 DEF WaSessionTypeOK
<1>12. CASE RemovePhone
  <2>1. count' \in [Events -> Nat]
    BY <1>12, Counting DEF RemovePhone, Events
  <2>2. sockets' \in Seq(SocketState) /\ session' \in Sessions \cup {NoSession} /\ closers' \subseteq Closers
    BY <1>12, Death DEF RemovePhone, WaSessionTypeOK
  <2>3. removing' \in [{"delete", "update"} -> Nat]
    <3>1. PICK pc \in {"delete", "update"} : removing' = [removing EXCEPT ![pc] = @ + 1]
      BY <1>12 DEF RemovePhone
    <3> QED
      BY <3>1 DEF WaSessionTypeOK
  <2> QED
    BY <1>12, <2>1, <2>2, <2>3 DEF WaSessionTypeOK, RemovePhone
<1>13. CASE Restart
  BY <1>13, <1>a, Counting DEF Restart, Events
<1>14. ASSUME NEW s \in DOMAIN sockets, ShowQr(s) PROVE WaSessionTypeOK'
  <2>1. CASE session = NoSession
    BY <1>14, <2>1, <1>a DEF ShowQr, WaSessionTypeOK
  <2>2. CASE session # NoSession
    <3>1. session' = WithStatus("QR_PENDING") /\ "QR_PENDING" \in Status
      BY <1>14, <2>2 DEF ShowQr, Status
    <3>2. session' \in Sessions \cup {NoSession}
      BY <3>1, Marking
    <3>3. UNCHANGED <<row, sockets, starting, timers, closers, admin, boot, history, count>>
      BY <1>14, <2>2 DEF ShowQr
    <3> QED
      BY <3>2, <3>3 DEF WaSessionTypeOK
  <2> QED
    BY <2>1, <2>2
<1>15. ASSUME NEW s \in DOMAIN sockets, Opened(s) PROVE WaSessionTypeOK'
  <2>1. "CONNECTED" \in Status /\ session' = WithStatus("CONNECTED") /\ s \in Alive
        /\ sockets' = [sockets EXCEPT ![s] = "open"]
    BY <1>15 DEF Status, Opened
  <2> QED
    BY <1>15, <2>1, Marking, SocketOpens DEF WaSessionTypeOK, Opened
<1>16. ASSUME NEW s \in DOMAIN sockets, NEW out \in BOOLEAN, Drop(s, out) PROVE WaSessionTypeOK'
  <2>1. s \in Alive /\ Die(s, out) /\ Count("drop")
    BY <1>16 DEF Drop
  <2> QED
    BY <1>16, <2>1, Death, Counting DEF WaSessionTypeOK, Drop, Events
<1>17. ASSUME NEW c \in Callers, FailStart(c) PROVE WaSessionTypeOK'
  <2>1. count' \in [Events -> Nat]
    BY <1>17, Counting DEF FailStart, Events
  <2>2. CASE c = "timer"
    BY <1>17, <2>1, <2>2, <1>a DEF FailStart
  <2>3. CASE c # "timer"
    <3>1. starting' \in [Callers -> Nat]
      BY <1>17, <2>3, Flights DEF FailStart
    <3> QED
      BY <1>17, <2>1, <2>3, <3>1 DEF FailStart, WaSessionTypeOK
  <2> QED
    BY <2>2, <2>3
<1> QED
  BY <1>1, <1>2, <1>3, <1>4, <1>5, <1>6, <1>7, <1>8, <1>9, <1>10, <1>11, <1>12, <1>13, <1>14, <1>15, <1>16, <1>17
     DEF Next, Internal

\* The initial states are typed.
LEMMA TypeInit == Init => WaSessionTypeOK
  BY DEF Init, WaSessionTypeOK, SocketState

\* The session's types hold in every behaviour.
THEOREM WaSessionTyped == Spec => []WaSessionTypeOK
<1>1. WaSessionTypeOK /\ [Next]_vars => WaSessionTypeOK'
  BY TypeStep
<1> QED
  BY TypeInit, <1>1, PTL DEF Spec

-----------------------------------------------------------------------------
(* An active number is supervised *)

\* A start that is skipped leaves a number whose entry is supervised.
LEMMA SkippedStart ==
    ASSUME WaSessionTypeOK, EntrySupervised, NEW c \in Callers, StartSession(c)
    PROVE  Alive # {} \/ closers # {} \/ InFlight' > 0
<1>1. InFlight \in Nat
  BY Flights
<1> QED
  BY <1>1, Checked DEF EntrySupervised, Deleters

\* Numbers of which one is positive have a positive sum.
LEMMA PositiveSum ==
    ASSUME NEW a \in Nat, NEW b \in Nat, NEW c \in Nat
    PROVE  a + b + c > 0 <=> a > 0 \/ b > 0 \/ c > 0
  OBVIOUS

\* What is under way in the next state.
LEMMA StillWorking ==
    ASSUME WaSessionTypeOK'
    PROVE  InFlight' > 0 \/ timers' > 0 \/ adding' > 0 \/ closers' # {} \/ boot' # "up" => Working'
<1>1. InFlight' \in Nat
  BY DEF WaSessionTypeOK, InFlight, Callers
<1>2. InFlight' > 0 \/ timers' > 0 \/ adding' > 0 => InFlight' + timers' + adding' > 0
  BY <1>1, PositiveSum DEF WaSessionTypeOK
<1> QED
  BY <1>2 DEF Working

\* Every step keeps a number supervised.
LEMMA SupervisedStep ==
    ASSUME SupervisedInv, [Next]_vars
    PROVE  SupervisedInv'
<1>0. /\ WaSessionTypeOK /\ WaSessionTypeOK'
      /\ EntrySupervised /\ Supervised
  BY TypeStep DEF SupervisedInv
<1> DEFINE Goal == EntrySupervised' /\ Supervised'
<1> SUFFICES Goal
  BY <1>0 DEF SupervisedInv
<1>n. "add" \in Callers /\ "timer" \in Callers /\ "boot" \in Callers
  BY DEF Callers
<1>p. InFlight' > 0 \/ timers' > 0 \/ adding' > 0 \/ closers' # {} \/ boot' # "up" => Working'
  BY <1>0, StillWorking
<1>e. ASSUME ProcessEnds PROVE Goal
  <2>1. session' = NoSession /\ boot' = "reading"
    BY <1>e DEF ProcessEnds
  <2> QED
    BY <1>p, <2>1 DEF EntrySupervised, Supervised
\* A step that starts, or skips, one startSession.
<1>b. ASSUME UNCHANGED <<sockets, session, closers, row>>, NEW c \in Callers, StartSession(c) PROVE Goal
  <2>1. Alive # {} \/ closers # {} \/ InFlight' > 0
    BY <1>0, <1>b, SkippedStart
  <2>2. Alive' = Alive /\ closers' = closers /\ Deleters' = Deleters
    BY <1>b DEF Alive, Deleters
  <2> QED
    BY <1>0, <1>b, <1>p, <2>1, <2>2 DEF EntrySupervised, Supervised
\* The death of a socket leaves a handler that supervises what it had.
<1>c. ASSUME NEW s \in Alive, NEW out \in BOOLEAN, Die(s, out), row' = row PROVE Goal
  <2>1. PICK k \in Closers : closers' = closers \cup {k} /\ Deleters' = Deleters \cup {k}
    BY <1>0, <1>c, Death
  <2> QED
    BY <1>p, <2>1 DEF EntrySupervised, Supervised
<1>1. CASE UNCHANGED vars
  BY <1>0, <1>1 DEF vars, EntrySupervised, Supervised, Alive, Deleters, Working, InFlight
<1>2. CASE Boot
  <2>1. UNCHANGED <<sockets, session, closers, row>>
    BY <1>2 DEF Boot
  <2>2. CASE row = "active"
    BY <1>2, <1>b, <1>n, <2>1, <2>2 DEF Boot
  <2>3. CASE row # "active"
    BY <1>0, <2>1, <2>3 DEF EntrySupervised, Supervised, Alive, Deleters
  <2> QED
    BY <2>2, <2>3
<1>3. ASSUME NEW c \in Callers, Establish(c) PROVE Goal
  <2>1. sockets' = Append(sockets, "connecting") /\ session'.socket = Len(sockets) + 1
    BY <1>3 DEF Establish
  <2>2. Alive' = Alive \cup {Len(sockets) + 1}
    BY <1>0, <2>1, SocketIsMade
  <2> QED
    BY <2>1, <2>2 DEF EntrySupervised, Supervised
<1>4. CASE FireTimer
  BY <1>4, <1>b, <1>n DEF FireTimer
<1>5. CASE AddStarts
  BY <1>5, <1>b, <1>n DEF AddStarts
<1>6. CASE RemoveDeletes
  BY <1>0, <1>6 DEF RemoveDeletes, EntrySupervised, Supervised, Alive, Working, InFlight
<1>7. CASE RemoveUpdates
  BY <1>0, <1>7 DEF RemoveUpdates, EntrySupervised, Supervised, Alive, Deleters, Working, InFlight, history
<1>8. ASSUME NEW k \in closers, ReadRow(k) PROVE Goal
  <2>1. closers' # {} /\ Deleters' # {}
    BY <1>0, <1>8, RowAnswered
  <2> QED
    BY <1>p, <2>1 DEF EntrySupervised, Supervised
<1>9. ASSUME NEW k \in closers, ActOnClose(k) PROVE Goal
  <2>1. session' = NoSession /\ row' = row /\ timers \in Nat
    BY <1>0, <1>9 DEF ActOnClose, WaSessionTypeOK
  <2>2. CASE ~k.active
    BY <1>9, <2>1, <2>2 DEF ActOnClose, Overlooked, EntrySupervised, Supervised
  <2>3. CASE k.active
    <3>1. closers' # {} \/ timers' = timers + 1
      BY <1>9, <2>3 DEF ActOnClose
    <3> QED
      BY <1>p, <2>1, <3>1 DEF EntrySupervised, Supervised
  <2> QED
    BY <2>2, <2>3
<1>10. ASSUME NEW k \in closers, ClearAuth(k) PROVE Goal
  <2>1. timers \in Nat /\ timers' = timers + 1 /\ Deleters' = Deleters /\ session' = session /\ sockets' = sockets
    BY <1>0, <1>10, Cleared DEF ClearAuth, WaSessionTypeOK
  <2> QED
    BY <1>0, <1>p, <2>1 DEF EntrySupervised, Supervised, Alive
<1>11. CASE AddPhone
  <2>1. /\ adding \in Nat /\ adding' = adding + 1
        /\ closers' = closers /\ sockets' = sockets /\ session' = session
    BY <1>0, <1>11 DEF AddPhone, WaSessionTypeOK
  <2> QED
    BY <1>0, <1>p, <2>1 DEF EntrySupervised, Supervised, Alive, Deleters
<1>12. CASE RemovePhone
  <2>1. row' = row /\ UNCHANGED <<starting, timers, adding, boot, lost>>
    BY <1>12 DEF RemovePhone, history
  <2>2. CASE UNCHANGED <<sockets, closers, session>>
    BY <1>0, <2>1, <2>2 DEF EntrySupervised, Supervised, Alive, Deleters, Working, InFlight
  <2>3. CASE session.socket \in Alive /\ Die(session.socket, FALSE)
    BY <2>1, <2>3, <1>c
  <2> QED
    BY <1>12, <2>2, <2>3 DEF RemovePhone
<1>13. CASE Restart
  BY <1>13, <1>e DEF Restart
<1>14. ASSUME NEW s \in DOMAIN sockets, ShowQr(s) PROVE Goal
  <2>1. CASE ProcessEnds
    BY <1>e, <2>1
  <2>2. CASE session # NoSession /\ ~ProcessEnds
    <3>1. /\ session' = WithStatus("QR_PENDING") /\ "QR_PENDING" \in Status
          /\ UNCHANGED <<row, sockets, starting, timers, closers, admin, boot, history>>
      BY <1>14, <2>2 DEF ShowQr, Status
    <3>2. Alive' = Alive /\ Deleters' = Deleters /\ InFlight' = InFlight
      BY <3>1 DEF Alive, Deleters, InFlight
    <3>3. s \in Alive
      BY <1>14 DEF ShowQr
    <3> QED
      BY <1>0, <3>1, <3>2, <3>3, Marking DEF EntrySupervised, Supervised
  <2> QED
    BY <1>14, <2>1, <2>2 DEF ShowQr
<1>15. ASSUME NEW s \in DOMAIN sockets, Opened(s) PROVE Goal
  <2>1. s \in Alive /\ sockets' = [sockets EXCEPT ![s] = "open"] /\ closers' = closers
        /\ session' = WithStatus("CONNECTED") /\ "CONNECTED" \in Status
    BY <1>15 DEF Opened, Status
  <2>2. Alive' = Alive /\ Deleters' = Deleters
    BY <1>0, <2>1, SocketOpens DEF Deleters
  <2> QED
    BY <1>0, <2>1, <2>2, Marking DEF EntrySupervised, Supervised
<1>16. ASSUME NEW s \in DOMAIN sockets, NEW out \in BOOLEAN, Drop(s, out) PROVE Goal
  BY <1>16, <1>c DEF Drop
<1>17. ASSUME NEW c \in Callers, FailStart(c) PROVE Goal
  <2>1. CASE c # "timer"
    <3>1. lost' = "reported" /\ UNCHANGED <<sockets, session, closers>>
      BY <1>17, <2>1 DEF FailStart
    <3> QED
      BY <1>0, <3>1 DEF EntrySupervised, Supervised, Alive, Deleters
  <2>2. CASE c = "timer"
    BY <1>17, <1>e, <2>2 DEF FailStart
  <2> QED
    BY <2>1, <2>2
<1> QED
  BY <1>1, <1>2, <1>3, <1>4, <1>5, <1>6, <1>7, <1>8, <1>9, <1>10, <1>11, <1>12, <1>13, <1>14, <1>15, <1>16, <1>17
     DEF Next, Internal

\* The first boot supervises a number that is active.
LEMMA SupervisedInit == Init => SupervisedInv
<1> SUFFICES ASSUME Init PROVE SupervisedInv
  OBVIOUS
<1>1. EntrySupervised /\ Supervised
  BY DEF Init, EntrySupervised, Supervised, Working
<1> QED
  BY <1>1, TypeInit DEF SupervisedInv

\* An active number has a live socket or something under way that will start
\* it, unless its start was refused and reported, or a handler had read it as
\* inactive: whatever overlaps, for any number of requests, connections lost,
\* refused calls and restarts.
THEOREM NumberSupervised == Spec => []Supervised
<1>1. SupervisedInv /\ [Next]_vars => SupervisedInv'
  BY SupervisedStep
<1>2. SupervisedInv => Supervised
  BY DEF SupervisedInv
<1> QED
  BY SupervisedInit, <1>1, <1>2, PTL DEF Spec

-----------------------------------------------------------------------------
(* Every connection beyond the first has its race *)

\* The sockets are finitely many.
LEMMA LiveFinite ==
    ASSUME NEW q \in Seq(SocketState), NEW S, S \subseteq DOMAIN q
    PROVE  IsFiniteSet(S) /\ Cardinality(S) \in Nat
<1>1. S \subseteq 1..Len(q) /\ 1 \in Int /\ Len(q) \in Int
  OBVIOUS
<1>2. IsFiniteSet(1..Len(q))
  BY <1>1, FS_Interval
<1> QED
  BY <1>1, <1>2, FS_Subset, FS_CardinalityType

\* The sizes of the sets that make the load, now and next.
LEMMA Sizes ==
    ASSUME WaSessionTypeOK, IsFiniteSet(closers)
    PROVE  /\ IsFiniteSet(Alive) /\ Cardinality(Alive) \in Nat
           /\ IsFiniteSet(Deleters) /\ Cardinality(Deleters) \in Nat
           /\ InFlight \in Nat
<1>1. Alive \subseteq DOMAIN sockets /\ sockets \in Seq(SocketState)
  BY DEF Alive, WaSessionTypeOK
<1>2. Deleters \subseteq closers
  BY DEF Deleters
<1>3. InFlight \in Nat
  BY DEF WaSessionTypeOK, InFlight, Callers
<1> QED
  BY <1>1, <1>2, <1>3, LiveFinite, FS_Subset, FS_CardinalityType

LEMMA NextSizes ==
    ASSUME WaSessionTypeOK', IsFiniteSet(closers')
    PROVE  /\ IsFiniteSet(Alive') /\ Cardinality(Alive') \in Nat
           /\ IsFiniteSet(Deleters') /\ Cardinality(Deleters') \in Nat
           /\ InFlight' \in Nat
<1>1. Alive' \subseteq DOMAIN sockets' /\ sockets' \in Seq(SocketState)
  BY DEF Alive, WaSessionTypeOK
<1>2. Deleters' \subseteq closers'
  BY DEF Deleters
<1>3. InFlight' \in Nat
  BY DEF WaSessionTypeOK, InFlight, Callers
<1> QED
  BY <1>1, <1>2, <1>3, LiveFinite, FS_Subset, FS_CardinalityType

\* A load within its bound stays so, if it does not grow more than its bound.
LEMMA Arithmetic ==
    ASSUME NEW n \in Nat, NEW f \in Nat, NEW r \in Nat, NEW n1 \in Nat, NEW f1 \in Nat, NEW r1 \in Nat,
           NEW idle \in {0, 1}, NEW idle1 \in {0, 1},
           n <= r + 1, idle = 1 /\ f = 0 => n <= r,
           \/ n1 <= n /\ r1 >= r /\ (idle1 = 1 => idle = 1) /\ (f1 = 0 => f = 0)
           \/ n1 + 1 <= n /\ r1 >= r
           \/ n1 <= n /\ r1 >= r /\ idle1 = 0
           \/ n1 <= n /\ r1 = r + 1
           \/ n1 = n + 1 /\ idle = 1 /\ f1 > 0 /\ r1 = IF f > 0 THEN r + 1 ELSE r
           \/ n1 = 0
    PROVE  n1 <= r1 + 1 /\ (idle1 = 1 /\ f1 = 0 => n1 <= r1)
<1>1. CASE n1 <= n /\ r1 >= r /\ (idle1 = 1 => idle = 1) /\ (f1 = 0 => f = 0)
  BY <1>1
<1>2. CASE n1 + 1 <= n /\ r1 >= r
  BY <1>2
<1>3. CASE n1 <= n /\ r1 >= r /\ idle1 = 0
  BY <1>3
<1>4. CASE n1 <= n /\ r1 = r + 1
  BY <1>4
<1>5. CASE n1 = n + 1 /\ idle = 1 /\ f1 > 0 /\ r1 = IF f > 0 THEN r + 1 ELSE r
  BY <1>5
<1>6. CASE n1 = 0
  BY <1>6
<1> QED
  BY <1>1, <1>2, <1>3, <1>4, <1>5, <1>6

\* What the next state must show to keep within the bound.
LEMMA Bounded ==
    ASSUME LoadInv, WaSessionTypeOK', IsFiniteSet(closers'),
           \/ /\ Load' <= Load /\ races' >= races
              /\ session' = NoSession => session = NoSession
              /\ InFlight' = 0 => InFlight = 0
           \/ Load' + 1 <= Load /\ races' >= races
           \/ Load' <= Load /\ races' >= races /\ session' # NoSession
           \/ Load' <= Load /\ races' = races + 1
           \/ /\ Load' = Load + 1 /\ session = NoSession /\ InFlight' > 0
              /\ races' = IF InFlight > 0 THEN races + 1 ELSE races
           \/ Load' = 0
    PROVE  LoadInv'
<1>1. /\ Cardinality(Alive) \in Nat /\ Cardinality(Deleters) \in Nat /\ InFlight \in Nat /\ races \in Nat
      /\ Cardinality(Alive') \in Nat /\ Cardinality(Deleters') \in Nat /\ InFlight' \in Nat /\ races' \in Nat
  BY Sizes, NextSizes DEF LoadInv, LoadBound, WaSessionTypeOK
<1>2. PICK i, i1 : /\ i = IF session = NoSession THEN 1 ELSE 0
                   /\ i1 = IF session' = NoSession THEN 1 ELSE 0
  OBVIOUS
<1>3. Load <= races + 1 /\ (i = 1 /\ InFlight = 0 => Load <= races)
  BY <1>2 DEF LoadInv, LoadBound
<1>4. /\ Load = Cardinality(Alive) + Cardinality(Deleters) + InFlight
      /\ Load' = Cardinality(Alive') + Cardinality(Deleters') + InFlight'
  BY DEF Load
<1>5. Load \in Nat /\ Load' \in Nat
  BY <1>1, <1>4
<1>6. \/ Load' <= Load /\ races' >= races /\ (i1 = 1 => i = 1) /\ (InFlight' = 0 => InFlight = 0)
      \/ Load' + 1 <= Load /\ races' >= races
      \/ Load' <= Load /\ races' >= races /\ i1 = 0
      \/ Load' <= Load /\ races' = races + 1
      \/ Load' = Load + 1 /\ i = 1 /\ InFlight' > 0 /\ races' = IF InFlight > 0 THEN races + 1 ELSE races
      \/ Load' = 0
  BY <1>2, Zenon
<1>7. i \in {0, 1} /\ i1 \in {0, 1}
  BY <1>2
<1>8. PICK n, f, r, n1, f1, r1 : /\ n = Load /\ f = InFlight /\ r = races
                                 /\ n1 = Load' /\ f1 = InFlight' /\ r1 = races'
  OBVIOUS
<1>9. n1 <= r1 + 1 /\ (i1 = 1 /\ f1 = 0 => n1 <= r1)
  <2>1. /\ n \in Nat /\ f \in Nat /\ r \in Nat /\ n1 \in Nat /\ f1 \in Nat /\ r1 \in Nat
        /\ n <= r + 1 /\ (i = 1 /\ f = 0 => n <= r)
    BY <1>1, <1>3, <1>5, <1>8
  <2>2. \/ n1 <= n /\ r1 >= r /\ (i1 = 1 => i = 1) /\ (f1 = 0 => f = 0)
        \/ n1 + 1 <= n /\ r1 >= r
        \/ n1 <= n /\ r1 >= r /\ i1 = 0
        \/ n1 <= n /\ r1 = r + 1
        \/ n1 = n + 1 /\ i = 1 /\ f1 > 0 /\ r1 = IF f > 0 THEN r + 1 ELSE r
        \/ n1 = 0
    BY <1>6, <1>8, Zenon
  <2> QED
    BY <1>7, <2>1, <2>2, Arithmetic
<1>10. Load' <= races' + 1 /\ (i1 = 1 /\ InFlight' = 0 => Load' <= races')
  BY <1>8, <1>9
<1> QED
  BY <1>2, <1>10 DEF LoadInv, LoadBound

\* The load follows from its parts.
LEMMA LoadMoves ==
    ASSUME WaSessionTypeOK, WaSessionTypeOK', IsFiniteSet(closers), IsFiniteSet(closers')
    PROVE  /\ Load = Cardinality(Alive) + Cardinality(Deleters) + InFlight
           /\ Load' = Cardinality(Alive') + Cardinality(Deleters') + InFlight'
           /\ Cardinality(Alive) \in Nat /\ Cardinality(Deleters) \in Nat /\ InFlight \in Nat
           /\ Cardinality(Alive') \in Nat /\ Cardinality(Deleters') \in Nat /\ InFlight' \in Nat
<1>1. /\ Cardinality(Alive) \in Nat /\ Cardinality(Deleters) \in Nat /\ InFlight \in Nat
      /\ Cardinality(Alive') \in Nat /\ Cardinality(Deleters') \in Nat /\ InFlight' \in Nat
  BY Sizes, NextSizes
<1>2. /\ Load = Cardinality(Alive) + Cardinality(Deleters) + InFlight
      /\ Load' = Cardinality(Alive') + Cardinality(Deleters') + InFlight'
  BY DEF Load
<1> QED
  BY <1>1, <1>2, Zenon

\* Putting a handler in the place of another, or one more, or one less.
LEMMA Handlers ==
    ASSUME NEW S, IsFiniteSet(S)
    PROVE  /\ \A k : IsFiniteSet(S \cup {k}) /\ Cardinality(S \cup {k}) <= Cardinality(S) + 1
           /\ \A k \in S : IsFiniteSet(S \ {k}) /\ Cardinality(S \ {k}) = Cardinality(S) - 1
           /\ \A k \in S : \A j : Cardinality((S \ {k}) \cup {j}) <= Cardinality(S)
           /\ \A k, j : IsFiniteSet((S \ {k}) \cup {j}) /\ IsFiniteSet(S \ {k})
<1>1. Cardinality(S) \in Nat
  BY FS_CardinalityType
<1>2. \A k : IsFiniteSet(S \cup {k}) /\ Cardinality(S \cup {k}) <= Cardinality(S) + 1
  BY <1>1, FS_AddElement
<1>3. \A k \in S : IsFiniteSet(S \ {k}) /\ Cardinality(S \ {k}) = Cardinality(S) - 1
  BY FS_RemoveElement
<1>4. ASSUME NEW k, NEW j PROVE IsFiniteSet((S \ {k}) \cup {j}) /\ IsFiniteSet(S \ {k})
  <2>1. IsFiniteSet(S \ {k})
    BY FS_Subset
  <2> QED
    BY <2>1, FS_AddElement
<1>5. ASSUME NEW k \in S, NEW j PROVE Cardinality((S \ {k}) \cup {j}) <= Cardinality(S)
  <2>1. IsFiniteSet(S \ {k}) /\ Cardinality(S \ {k}) = Cardinality(S) - 1
    BY <1>3
  <2>2. \/ Cardinality((S \ {k}) \cup {j}) = Cardinality(S \ {k})
        \/ Cardinality((S \ {k}) \cup {j}) = Cardinality(S \ {k}) + 1
    BY <2>1, FS_AddElement
  <2> QED
    BY <1>1, <2>1, <2>2
<1> QED
  BY <1>2, <1>3, <1>4, <1>5

\* Every step keeps the load within its bound.
LEMMA LoadStep ==
    ASSUME LoadInv, [Next]_vars
    PROVE  LoadInv'
<1>0. WaSessionTypeOK /\ WaSessionTypeOK' /\ IsFiniteSet(closers)
  BY TypeStep DEF LoadInv, LoadBound
<1>n. "add" \in Callers /\ "timer" \in Callers /\ "boot" \in Callers
  BY DEF Callers
<1>r. /\ races \in Nat /\ InFlight \in Nat /\ InFlight' \in Nat /\ timers \in Nat
      /\ Cardinality(Alive) \in Nat /\ IsFiniteSet(Alive)
      /\ Cardinality(Deleters) \in Nat /\ IsFiniteSet(Deleters)
  BY <1>0, Sizes, Flights, <1>n DEF WaSessionTypeOK, InFlight, Callers
<1>e. ASSUME ProcessEnds PROVE LoadInv'
  <2>1. Alive' = {} /\ Deleters' = {} /\ InFlight' = 0 /\ closers' = {}
    BY <1>0, <1>e, Ended
  <2>2. Cardinality(Alive') = 0 /\ Cardinality(Deleters') = 0 /\ IsFiniteSet(closers')
    BY <2>1, FS_EmptySet
  <2>3. Load' = 0
    BY <2>1, <2>2 DEF Load
  <2> QED
    BY <1>0, <2>2, <2>3, Bounded
\* Nothing that the load counts moves.
<1>a. ASSUME Alive' = Alive, Deleters' = Deleters, InFlight' = InFlight, IsFiniteSet(closers'),
             session' = NoSession => session = NoSession, races' = races
      PROVE  LoadInv'
  <2>1. Load' <= Load
    BY <1>0, <1>a, <1>r, LoadMoves
  <2>2. races' >= races
    BY <1>a, <1>r
  <2> QED
    BY <1>0, <1>a, <1>r, <2>1, <2>2, Bounded
\* One startSession, or none.
<1>b. ASSUME UNCHANGED <<sockets, session, closers>>, NEW c \in Callers, StartSession(c)
      PROVE  LoadInv'
  <2>1. Alive' = Alive /\ Deleters' = Deleters /\ closers' = closers
    BY <1>b DEF Alive, Deleters
  <2>2. CASE session # NoSession /\ InFlight' = InFlight /\ races' = races
    BY <1>0, <1>a, <1>b, <2>1, <2>2
  <2>3. CASE /\ session = NoSession /\ InFlight' = InFlight + 1
             /\ races' = IF InFlight > 0 THEN races + 1 ELSE races
    <3>1. Load' = Load + 1 /\ InFlight' > 0
      BY <1>0, <1>r, <2>1, <2>3, LoadMoves
    <3> QED
      BY <1>0, <2>1, <2>3, <3>1, Bounded
  <2> QED
    BY <1>0, <1>b, <2>2, <2>3, Checked
<1>c. ASSUME NEW s \in Alive, NEW out \in BOOLEAN, Die(s, out), races' = races, starting' = starting
      PROVE  LoadInv'
  <2>1. PICK k \in Closers : closers' = closers \cup {k} /\ Deleters' = Deleters \cup {k}
    BY <1>0, <1>c, Death
  <2>2. IsFiniteSet(closers') /\ Cardinality(Deleters') <= Cardinality(Deleters) + 1
    BY <1>0, <1>r, <2>1, Handlers
  <2>3. Cardinality(Alive') = Cardinality(Alive) - 1
    <3>1. Alive' = Alive \ {s}
      BY <1>0, <1>c, Death
    <3> QED
      BY <1>r, <3>1, FS_RemoveElement
  <2>4. InFlight' = InFlight
    BY <1>c DEF InFlight
  <2>5. Load' <= Load
    BY <1>0, <2>2, <2>3, <2>4, LoadMoves
  <2>6. session' = NoSession <=> session = NoSession
    BY <1>0, <1>c, Death
  <2>7. races' >= races
    BY <1>r, <1>c
  <2> QED
    BY <1>0, <2>2, <2>4, <2>5, <2>6, <2>7, Bounded
<1>1. CASE UNCHANGED vars
  BY <1>0, <1>a, <1>1 DEF vars, Alive, Deleters, InFlight
<1>2. CASE Boot
  <2>1. CASE row = "active"
    BY <1>b, <1>n, <1>2, <2>1 DEF Boot
  <2>2. CASE row # "active"
    BY <1>0, <1>a, <1>2, <2>2 DEF Boot, Alive, Deleters, InFlight
  <2> QED
    BY <2>1, <2>2
<1>3. ASSUME NEW c \in Callers, Establish(c) PROVE LoadInv'
  <2>1. /\ sockets' = Append(sockets, "connecting") /\ closers' = closers /\ races' = races
        /\ session' = [socket |-> Len(sockets) + 1, status |-> "CONNECTING"]
        /\ starting[c] > 0 /\ starting' = [starting EXCEPT ![c] = @ - 1]
    BY <1>3 DEF Establish
  <2>2. Alive' = Alive \cup {Len(sockets) + 1} /\ Len(sockets) + 1 \in Nat \ {0}
    BY <1>0, <2>1, SocketIsMade
  <2>3. InFlight' = InFlight - 1
    BY <1>0, <2>1, Flights
  <2>4. Cardinality(Alive') <= Cardinality(Alive) + 1
    BY <1>r, <2>2, Handlers
  <2>5. Deleters' = Deleters
    BY <2>1 DEF Deleters
  <2>6. session' # NoSession
    BY <2>1, <2>2 DEF NoSession
  <2>7. Load' <= Load /\ races' >= races
    BY <1>0, <1>r, <2>1, <2>3, <2>4, <2>5, LoadMoves
  <2> QED
    BY <1>0, <2>1, <2>6, <2>7, Bounded
<1>4. CASE FireTimer
  BY <1>4, <1>b, <1>n DEF FireTimer
<1>5. CASE AddStarts
  BY <1>5, <1>b, <1>n DEF AddStarts
<1>6. CASE RemoveDeletes
  <2>1. Alive' = Alive /\ Deleters' = Deleters /\ InFlight' = InFlight /\ closers' = closers
    BY <1>6 DEF RemoveDeletes, Alive, Deleters, InFlight
  <2>2. CASE session = NoSession
    BY <1>0, <1>a, <1>6, <2>1, <2>2 DEF RemoveDeletes
  <2>3. CASE session # NoSession
    <3>1. Load' <= Load /\ races' = races + 1
      BY <1>0, <1>6, <1>r, <2>1, <2>3, LoadMoves DEF RemoveDeletes
    <3> QED
      BY <1>0, <2>1, <3>1, Bounded
  <2> QED
    BY <2>2, <2>3
<1>7. CASE RemoveUpdates
  BY <1>0, <1>a, <1>7 DEF RemoveUpdates, Alive, Deleters, InFlight, history
<1>8. ASSUME NEW k \in closers, ReadRow(k) PROVE LoadInv'
  <2>1. PICK j \in Closers : closers' = (closers \ {k}) \cup {j} /\ Deleters' = (Deleters \ {k}) \cup {j}
    BY <1>0, <1>8, RowAnswered
  <2>2. k \in Deleters
    BY <1>0, <1>8, RowAnswered
  <2>3. UNCHANGED <<sockets, session, starting, races>>
    BY <1>8 DEF ReadRow, history
  <2>4. IsFiniteSet(closers') /\ Cardinality(Deleters') <= Cardinality(Deleters)
    BY <1>0, <1>r, <2>1, <2>2, Handlers
  <2>5. Alive' = Alive /\ InFlight' = InFlight
    BY <2>3 DEF Alive, InFlight
  <2>6. Load' <= Load /\ races' >= races
    BY <1>0, <1>r, <2>3, <2>4, <2>5, LoadMoves
  <2> QED
    BY <1>0, <2>3, <2>4, <2>5, <2>6, Bounded
<1>9. ASSUME NEW k \in closers, ActOnClose(k) PROVE LoadInv'
  <2>1. k \in Deleters /\ Deleters' = Deleters \ {k}
    BY <1>0, <1>9, ActedOn
  <2>2. IsFiniteSet(closers')
    <3>1. closers' = closers \ {k} \/ \E j \in Closers : closers' = (closers \ {k}) \cup {j}
      BY <1>0, <1>9, ActedOn
    <3> QED
      BY <1>0, <3>1, Handlers
  <2>3. UNCHANGED <<sockets, starting, races>>
    BY <1>9 DEF ActOnClose
  <2>4. Cardinality(Deleters') = Cardinality(Deleters) - 1
    BY <1>r, <2>1, Handlers
  <2>5. Alive' = Alive /\ InFlight' = InFlight
    BY <2>3 DEF Alive, InFlight
  <2>6. Load' + 1 <= Load /\ races' >= races
    BY <1>0, <1>r, <2>2, <2>3, <2>4, <2>5, LoadMoves
  <2> QED
    BY <1>0, <2>2, <2>6, Bounded
<1>10. ASSUME NEW k \in closers, ClearAuth(k) PROVE LoadInv'
  <2>1. Deleters' = Deleters /\ IsFiniteSet(closers')
    BY <1>0, <1>10, Cleared, Handlers
  <2> QED
    BY <1>a, <1>10, <2>1 DEF ClearAuth, Alive, InFlight, history
<1>11. CASE AddPhone
  <2>1. UNCHANGED <<sockets, session, starting, closers>>
    BY <1>11 DEF AddPhone
  <2>2. Alive' = Alive /\ Deleters' = Deleters /\ InFlight' = InFlight
    BY <2>1 DEF Alive, Deleters, InFlight
  <2>3. CASE races' = races
    BY <1>0, <1>a, <2>1, <2>2, <2>3
  <2>4. CASE Alive = {} /\ ~Working
    <3>1. Alive = {} /\ Deleters = {} /\ InFlight = 0
      <4>1. timers \in Nat /\ adding \in Nat
        BY <1>0 DEF WaSessionTypeOK
      <4>2. InFlight = 0
        BY <1>r, <2>4, <4>1, PositiveSum DEF Working
      <4> QED
        BY <2>4, <4>2 DEF Working, Deleters
    <3>2. Cardinality(Alive') = 0 /\ Cardinality(Deleters') = 0 /\ InFlight' = 0
      BY <2>2, <3>1, FS_EmptySet
    <3>3. Load' = 0
      BY <3>2 DEF Load
    <3> QED
      BY <1>0, <2>1, <3>3, Bounded
  <2> QED
    BY <1>11, <2>3, <2>4 DEF AddPhone
<1>12. CASE RemovePhone
  <2>1. starting' = starting /\ races' = races
    BY <1>12 DEF RemovePhone, history
  <2>2. CASE UNCHANGED <<sockets, closers, session>>
    BY <1>0, <1>a, <2>1, <2>2 DEF Alive, Deleters, InFlight
  <2>3. CASE session.socket \in Alive /\ Die(session.socket, FALSE)
    BY <1>c, <2>1, <2>3
  <2> QED
    BY <1>12, <2>2, <2>3 DEF RemovePhone
<1>13. CASE Restart
  BY <1>13, <1>e DEF Restart
<1>14. ASSUME NEW s \in DOMAIN sockets, ShowQr(s) PROVE LoadInv'
  <2>1. CASE ProcessEnds
    BY <1>e, <2>1
  <2>2. CASE session # NoSession /\ ~ProcessEnds
    <3>1. /\ session' = WithStatus("QR_PENDING") /\ "QR_PENDING" \in Status
          /\ UNCHANGED <<sockets, starting, closers, races>>
      BY <1>14, <2>2 DEF ShowQr, Status, history
    <3> QED
      BY <1>0, <1>a, <3>1, Marking DEF Alive, Deleters, InFlight
  <2> QED
    BY <1>14, <2>1, <2>2 DEF ShowQr
<1>15. ASSUME NEW s \in DOMAIN sockets, Opened(s) PROVE LoadInv'
  <2>1. /\ s \in Alive /\ sockets' = [sockets EXCEPT ![s] = "open"]
        /\ session' = WithStatus("CONNECTED") /\ "CONNECTED" \in Status
        /\ UNCHANGED <<starting, closers, races>>
    BY <1>15 DEF Opened, Status, history
  <2>2. Alive' = Alive
    BY <1>0, <2>1, SocketOpens
  <2> QED
    BY <1>0, <1>a, <2>1, <2>2, Marking DEF Deleters, InFlight
<1>16. ASSUME NEW s \in DOMAIN sockets, NEW out \in BOOLEAN, Drop(s, out) PROVE LoadInv'
  BY <1>16, <1>c DEF Drop, history
<1>17. ASSUME NEW c \in Callers, FailStart(c) PROVE LoadInv'
  <2>1. CASE c # "timer"
    <3>1. /\ UNCHANGED <<sockets, session, closers, races>>
          /\ starting[c] > 0 /\ starting' = [starting EXCEPT ![c] = @ - 1]
      BY <1>17, <2>1 DEF FailStart
    <3>2. Alive' = Alive /\ Deleters' = Deleters
      BY <3>1 DEF Alive, Deleters
    <3>3. InFlight' = InFlight - 1
      BY <1>0, <3>1, Flights
    <3>4. Load' + 1 <= Load /\ races' >= races
      BY <1>0, <1>r, <3>1, <3>2, <3>3, LoadMoves
    <3> QED
      BY <1>0, <3>1, <3>4, Bounded
  <2>2. CASE c = "timer"
    BY <1>17, <1>e, <2>2 DEF FailStart
  <2> QED
    BY <2>1, <2>2
<1> QED
  BY <1>1, <1>2, <1>3, <1>4, <1>5, <1>6, <1>7, <1>8, <1>9, <1>10, <1>11, <1>12, <1>13, <1>14, <1>15, <1>16, <1>17
     DEF Next, Internal

\* The process starts with no load.
LEMMA LoadInit == Init => LoadInv
<1> SUFFICES ASSUME Init PROVE LoadInv
  OBVIOUS
<1>1. Alive = {} /\ Deleters = {} /\ InFlight = 0 /\ races = 0 /\ IsFiniteSet(closers)
  BY FS_EmptySet DEF Init, Alive, Deleters, InFlight, Callers
<1>2. Load = 0
  BY <1>1, FS_EmptySet DEF Load
<1> QED
  BY <1>1, <1>2, TypeInit DEF LoadInv, LoadBound

\* A number has at most one live socket, and one more for each start that was
\* begun while another was between its check and its set and for each entry that
\* a removal deleted: whatever else overlaps, and through any number of losses
\* and restarts.
THEOREM SingleConnection == Spec => []OneLiveSocket
<1>1. LoadInv /\ [Next]_vars => LoadInv'
  BY LoadStep
<1>2. LoadInv => OneLiveSocket
  <2> SUFFICES ASSUME LoadInv PROVE Cardinality(Alive) <= 1 + races
    BY DEF OneLiveSocket
  <2>1. Load <= races + 1 /\ Load = Cardinality(Alive) + Cardinality(Deleters) + InFlight
    BY DEF LoadInv, LoadBound, Load
  <2>2. Cardinality(Alive) \in Nat /\ Cardinality(Deleters) \in Nat /\ InFlight \in Nat /\ races \in Nat
    BY Sizes DEF LoadInv, LoadBound, WaSessionTypeOK
  <2> QED
    BY <2>1, <2>2
<1> QED
  BY LoadInit, <1>1, <1>2, PTL DEF Spec


-----------------------------------------------------------------------------
(* Without races *)

\* Every step that leaves no race counted leaves one of the four situations.
LEMMA SituationStep ==
    ASSUME LoneInv, [Next]_vars, races' = 0
    PROVE  Situation'
<1>0. WaSessionTypeOK /\ EntrySupervised /\ (races = 0 => Situation)
  BY DEF LoneInv, SupervisedInv
<1>n. "add" \in Callers /\ "timer" \in Callers /\ "boot" \in Callers
  BY DEF Callers
<1>r. InFlight \in Nat /\ races \in Nat /\ timers \in Nat /\ adding \in Nat
  BY <1>0, <1>n, Flights DEF WaSessionTypeOK
<1>s. ASSUME Alive # {}, races = 0 PROVE Live
  BY <1>0, <1>s DEF Situation, Rest, Closing, Starting
<1>f. ASSUME InFlight > 0, races = 0 PROVE Starting
  BY <1>0, <1>f DEF Situation, Rest, Closing, Live
<1>a. ASSUME UNCHANGED <<sockets, session, starting, races>>, Deleters' = Deleters
      PROVE  Situation'
  <2>1. Situation
    BY <1>0, <1>a
  <2>2. Alive' = Alive /\ InFlight' = InFlight
    BY <1>a DEF Alive, InFlight
  <2> QED
    BY <1>a, <2>1, <2>2 DEF Situation, Rest, Live, Closing, Starting
<1>e. ASSUME ProcessEnds PROVE Situation'
  BY <1>0, <1>e, Ended DEF Situation, Rest
<1>b. ASSUME UNCHANGED <<sockets, session, closers>>, NEW c \in Callers, StartSession(c)
      PROVE  Situation'
  <2>1. Alive' = Alive /\ Deleters' = Deleters
    BY <1>b DEF Alive, Deleters
  <2>2. races = 0
    BY <1>0, <1>b, <1>r, Checked
  <2>3. CASE session # NoSession /\ starting' = starting /\ races' = races
    BY <1>a, <1>b, <2>1, <2>3
  <2>4. CASE /\ session = NoSession /\ InFlight' = InFlight + 1
             /\ races' = IF InFlight > 0 THEN races + 1 ELSE races
    <3>1. InFlight = 0
      BY <1>r, <2>2, <2>4
    <3>2. Rest
      BY <1>0, <2>2, <2>4, <3>1 DEF Situation, Live, Closing, Starting
    <3> QED
      BY <1>b, <2>1, <2>4, <3>1, <3>2 DEF Situation, Rest, Starting
  <2> QED
    BY <1>0, <1>b, <2>3, <2>4, Checked
<1>c. ASSUME NEW s \in Alive, NEW out \in BOOLEAN, Die(s, out), races' = races, starting' = starting
      PROVE  Situation'
  <2>1. Live
    BY <1>c, <1>s
  <2>2. s = session.socket /\ Alive' = {}
    BY <1>0, <1>c, <2>1, Death DEF Live
  <2>3. \E k \in Deleters' : Deleters' = {k}
    BY <1>0, <1>c, <2>1, Death DEF Live
  <2>4. session' # NoSession /\ session'.status = "DISCONNECTED"
    BY <1>0, <1>c, <2>1, Death DEF Live
  <2>5. InFlight' = 0
    BY <1>c, <2>1 DEF Live, InFlight
  <2> QED
    BY <2>2, <2>3, <2>4, <2>5 DEF Situation, Closing
<1>1. CASE UNCHANGED vars
  BY <1>a, <1>1 DEF vars, Deleters
<1>2. CASE Boot
  <2>1. CASE row = "active"
    BY <1>b, <1>n, <1>2, <2>1 DEF Boot
  <2>2. CASE row # "active"
    BY <1>a, <1>2, <2>2 DEF Boot, Deleters
  <2> QED
    BY <2>1, <2>2
<1>3. ASSUME NEW c \in Callers, Establish(c) PROVE Situation'
  <2>1. /\ sockets' = Append(sockets, "connecting") /\ closers' = closers /\ races' = races
        /\ session' = [socket |-> Len(sockets) + 1, status |-> "CONNECTING"]
        /\ starting[c] > 0 /\ starting' = [starting EXCEPT ![c] = @ - 1]
    BY <1>3 DEF Establish
  <2>2. InFlight > 0 /\ InFlight' = InFlight - 1
    <3>1. starting[c] <= InFlight /\ starting[c] \in Nat
      BY <1>0, Flights DEF WaSessionTypeOK
    <3>2. InFlight > 0
      BY <1>r, <2>1, <3>1
    <3>3. InFlight' = InFlight - 1
      BY <1>0, <2>1, Flights
    <3> QED
      BY <3>2, <3>3
  <2>3. Starting
    BY <1>f, <2>1, <2>2
  <2>4. Alive' = Alive \cup {Len(sockets) + 1} /\ Len(sockets) + 1 \in Nat \ {0}
    BY <1>0, <2>1, SocketIsMade
  <2>5. Deleters' = {} /\ InFlight' = 0 /\ Alive' = {session'.socket}
    BY <2>1, <2>2, <2>3, <2>4 DEF Starting, Deleters
  <2>6. session' # NoSession /\ session'.status # "CONNECTED"
    BY <2>1, <2>4 DEF NoSession
  <2> QED
    BY <2>5, <2>6 DEF Situation, Live
<1>4. CASE FireTimer
  BY <1>4, <1>b, <1>n DEF FireTimer
<1>5. CASE AddStarts
  BY <1>5, <1>b, <1>n DEF AddStarts
<1>6. CASE RemoveDeletes
  <2>1. session = NoSession
    BY <1>6, <1>r DEF RemoveDeletes
  <2> QED
    BY <1>6, <1>a, <2>1 DEF RemoveDeletes, Deleters
<1>7. CASE RemoveUpdates
  BY <1>a, <1>7 DEF RemoveUpdates, Deleters, history
<1>8. ASSUME NEW k \in closers, ReadRow(k) PROVE Situation'
  <2>1. PICK j \in Closers : Deleters' = (Deleters \ {k}) \cup {j}
    BY <1>0, <1>8, RowAnswered
  <2>2. k \in Deleters /\ UNCHANGED <<sockets, session, starting, races>>
    BY <1>0, <1>8, RowAnswered DEF ReadRow, history
  <2>3. Closing
    BY <1>0, <2>2 DEF Situation, Rest, Live, Starting
  <2>4. Deleters' = {j}
    BY <2>1, <2>2, <2>3 DEF Closing
  <2>5. Alive' = {} /\ InFlight' = 0
    BY <2>2, <2>3 DEF Closing, Alive, InFlight
  <2> QED
    BY <2>2, <2>3, <2>4, <2>5 DEF Situation, Closing
<1>9. ASSUME NEW k \in closers, ActOnClose(k) PROVE Situation'
  <2>1. k \in Deleters /\ Deleters' = Deleters \ {k} /\ session' = NoSession
    BY <1>0, <1>9, ActedOn
  <2>2. UNCHANGED <<sockets, starting, races>>
    BY <1>9 DEF ActOnClose
  <2>3. Closing
    BY <1>0, <2>1, <2>2 DEF Situation, Rest, Live, Starting
  <2>4. Deleters' = {} /\ Alive' = {} /\ InFlight' = 0
    BY <2>1, <2>2, <2>3 DEF Closing, Alive, InFlight
  <2> QED
    BY <2>1, <2>4 DEF Situation, Rest
<1>10. ASSUME NEW k \in closers, ClearAuth(k) PROVE Situation'
  BY <1>0, <1>a, <1>10, Cleared DEF ClearAuth, history
<1>11. CASE AddPhone
  <2>1. UNCHANGED <<sockets, session, starting, closers>>
    BY <1>11 DEF AddPhone
  <2>2. CASE races' = races
    BY <1>a, <2>1, <2>2 DEF Deleters
  <2>3. CASE Alive = {} /\ ~Working
    <3>1. InFlight = 0 /\ closers = {}
      BY <1>r, <2>3, PositiveSum DEF Working
    <3>2. session = NoSession /\ Deleters = {}
      BY <1>0, <2>3, <3>1 DEF EntrySupervised, Deleters
    <3>3. Alive' = {} /\ Deleters' = {} /\ InFlight' = 0
      BY <2>1, <2>3, <3>1, <3>2 DEF Alive, Deleters, InFlight
    <3> QED
      BY <2>1, <3>2, <3>3 DEF Situation, Rest
  <2> QED
    BY <1>11, <2>2, <2>3 DEF AddPhone
<1>12. CASE RemovePhone
  <2>1. starting' = starting /\ races' = races
    BY <1>12 DEF RemovePhone, history
  <2>2. CASE UNCHANGED <<sockets, closers, session>>
    BY <1>a, <2>1, <2>2 DEF Deleters
  <2>3. CASE session.socket \in Alive /\ Die(session.socket, FALSE)
    BY <1>c, <2>1, <2>3
  <2> QED
    BY <1>12, <2>2, <2>3 DEF RemovePhone
<1>13. CASE Restart
  BY <1>13, <1>e DEF Restart
<1>14. ASSUME NEW s \in DOMAIN sockets, ShowQr(s) PROVE Situation'
  <2>1. CASE ProcessEnds
    BY <1>e, <2>1
  <2>2. CASE session # NoSession /\ ~ProcessEnds
    <3>1. /\ session' = WithStatus("QR_PENDING") /\ "QR_PENDING" \in Status /\ s \in Alive
          /\ UNCHANGED <<sockets, starting, closers, races>>
      BY <1>14, <2>2 DEF ShowQr, Status, history
    <3>2. Live
      BY <1>s, <3>1
    <3>3. Alive' = Alive /\ Deleters' = Deleters /\ InFlight' = InFlight
      BY <3>1 DEF Alive, Deleters, InFlight
    <3>4. session' # NoSession /\ session'.socket = session.socket /\ session'.status = "QR_PENDING"
      BY <1>0, <2>2, <3>1, Marking
    <3> QED
      BY <3>2, <3>3, <3>4 DEF Situation, Live
  <2> QED
    BY <1>14, <2>1, <2>2 DEF ShowQr
<1>15. ASSUME NEW s \in DOMAIN sockets, Opened(s) PROVE Situation'
  <2>1. /\ s \in Alive /\ sockets' = [sockets EXCEPT ![s] = "open"]
        /\ session' = WithStatus("CONNECTED") /\ "CONNECTED" \in Status
        /\ UNCHANGED <<starting, closers, races>>
    BY <1>15 DEF Opened, Status, history
  <2>2. Live
    BY <1>s, <2>1
  <2>3. Alive' = Alive /\ sockets'[s] = "open"
    BY <1>0, <2>1, SocketOpens
  <2>4. Deleters' = Deleters /\ InFlight' = InFlight
    BY <2>1 DEF Deleters, InFlight
  <2>5. session' # NoSession /\ session'.socket = session.socket
    BY <1>0, <2>1, <2>2, Marking DEF Live
  <2>6. s = session.socket
    BY <2>1, <2>2 DEF Live
  <2> QED
    BY <2>2, <2>3, <2>4, <2>5, <2>6 DEF Situation, Live
<1>16. ASSUME NEW s \in DOMAIN sockets, NEW out \in BOOLEAN, Drop(s, out) PROVE Situation'
  BY <1>16, <1>c DEF Drop, history
<1>17. ASSUME NEW c \in Callers, FailStart(c) PROVE Situation'
  <2>1. CASE c # "timer"
    <3>1. /\ UNCHANGED <<sockets, session, closers, races>>
          /\ starting[c] > 0 /\ starting' = [starting EXCEPT ![c] = @ - 1]
      BY <1>17, <2>1 DEF FailStart
    <3>2. InFlight > 0 /\ InFlight' = InFlight - 1
      <4>1. starting[c] <= InFlight /\ starting[c] \in Nat
        BY <1>0, Flights DEF WaSessionTypeOK
      <4>2. InFlight > 0
        BY <1>r, <3>1, <4>1
      <4>3. InFlight' = InFlight - 1
        BY <1>0, <3>1, Flights
      <4> QED
        BY <4>2, <4>3
    <3>3. Starting
      BY <1>f, <3>1, <3>2
    <3>4. Alive' = {} /\ Deleters' = {} /\ session' = NoSession /\ InFlight' = 0
      BY <3>1, <3>2, <3>3 DEF Starting, Alive, Deleters
    <3> QED
      BY <3>4 DEF Situation, Rest
  <2>2. CASE c = "timer"
    BY <1>17, <1>e, <2>2 DEF FailStart
  <2> QED
    BY <2>1, <2>2
<1> QED
  BY <1>1, <1>2, <1>3, <1>4, <1>5, <1>6, <1>7, <1>8, <1>9, <1>10, <1>11, <1>12, <1>13, <1>14, <1>15, <1>16, <1>17
     DEF Next, Internal

\* Every step keeps the number in a situation, unless it counts a race.
LEMMA LoneStep == LoneInv /\ [Next]_vars => LoneInv'
  BY SupervisedStep, SituationStep DEF LoneInv

\* The process starts at rest.
LEMMA LoneInit == Init => LoneInv
<1> SUFFICES ASSUME Init PROVE LoneInv
  OBVIOUS
<1>1. Alive = {} /\ Deleters = {} /\ InFlight = 0 /\ session = NoSession
  BY DEF Init, Alive, Deleters, InFlight, Callers
<1>2. Working
  BY DEF Init, Working
<1> QED
  BY <1>1, <1>2, TypeInit DEF LoneInv, SupervisedInv, EntrySupervised, Supervised, Situation, Rest

\* In each situation the status and the entry are what they should be.
LEMMA LoneImplies == LoneInv => StatusHonest /\ EntryIsTheSocket
<1> SUFFICES ASSUME LoneInv, races = 0
             PROVE  /\ session # NoSession /\ session.status = "CONNECTED" => sockets[session.socket] = "open"
                    /\ Alive \subseteq {session.socket}
                    /\ ~Working => Alive = {session.socket} \ {0}
  BY DEF StatusHonest, EntryIsTheSocket
<1>1. WaSessionTypeOK /\ Situation
  BY DEF LoneInv, SupervisedInv
<1>2. CASE Rest
  BY <1>2 DEF Rest, NoSession
<1>3. CASE Live
  BY <1>1, <1>3 DEF Live, WaSessionTypeOK, Sessions
<1>4. CASE Closing
  BY <1>4 DEF Closing, Deleters, Working
<1>5. CASE Starting
  <2>1. Working
    <3>1. InFlight = 1 /\ timers \in Nat /\ adding \in Nat
      BY <1>1, <1>5 DEF Starting, WaSessionTypeOK
    <3>2. InFlight + timers + adding > 0
      BY <3>1
    <3> QED
      BY <3>2 DEF Working
  <2> QED
    BY <1>5, <2>1 DEF Starting
<1> QED
  BY <1>1, <1>2, <1>3, <1>4, <1>5 DEF Situation

\* Where no race is counted, a number shown as connected has an open socket.
THEOREM HonestStatus == Spec => []StatusHonest
  BY LoneInit, LoneStep, LoneImplies, PTL DEF Spec

\* Where no race is counted, a live socket is the one in the map, and at rest
\* the map holds no other.
THEOREM EntryMatchesSocket == Spec => []EntryIsTheSocket
  BY LoneInit, LoneStep, LoneImplies, PTL DEF Spec
==============================================================================
