-------------------------- MODULE DashboardProofs --------------------------
(***************************************************************************)
(* Proofs about what the dashboard runs.  First clients, their links and   *)
(* the share dialog, of module Clients: what requests know of the tables   *)
(* and the links of the clients however requests overlap, and, for brokers *)
(* who wait for answers, one client for a number and what a message shows. *)
(*                                                                         *)
(* Then the api client, of module ApiClient, in any number of tabs: one    *)
(* refresh at a time in each, and no call queued where nothing will drain  *)
(* the queue.                                                              *)
(***************************************************************************)
EXTENDS Clients, ApiClient, TLAPS

-----------------------------------------------------------------------------
(* Clients: what requests know *)

Asking   == {"link", "own"}
HasFound == {"drop", "make", "lead", "answer"}

\* What a request knows is true of the tables, and it serves the dialog it is for.
TaskTrue(k) ==
    /\ task[k].tab \in Tabs <=> task[k].kind \in Asking \cup {"share"}
    /\ task[k].listing \in Listings <=> task[k].kind = "share"
    /\ task[k].link \in 0..Len(link)
    /\ task[k].pc \in HasFound => task[k].client \in Ids /\ client[task[k].client] = task[k].phone
    /\ task[k].pc \in {"check", "lead"} => task[k].kind = "share"
    /\ task[k].pc \in {"drop", "make"} => task[k].kind # "share"
    /\ task[k].pc = "answer" /\ task[k].kind \in Asking =>
         task[k].link # 0 /\ link[task[k].link] = task[k].client
    /\ task[k].kind = "own" => dialog[task[k].tab].pc = "link"
    /\ task[k].kind = "share" =>
         dialog[task[k].tab].pc = "share" /\ task[k].phone = dialog[task[k].tab].phone

\* A dialog asks for at most one link to send.
OwnAlone ==
    \A j, k \in Busy : task[j].kind = "own" /\ task[k].kind = "own" /\ task[j].tab = task[k].tab => j = k

DialogTrue(t) ==
    /\ dialog[t].url \in 0..Len(link) /\ dialog[t].final \in 0..Len(link)
    /\ dialog[t].due \/ dialog[t].pc \in {"link", "share"} => dialog[t].phone \in Phones
    /\ dialog[t].pc \in {"open", "link"} => dialog[t].rest = Listings

Known ==
    /\ ClientsTypeOK
    /\ \A k \in Busy : TaskTrue(k)
    /\ \A t \in Tabs : DialogTrue(t)
    /\ OwnAlone

-----------------------------------------------------------------------------
(* What a message shows *)

\* The link a dialog will send is of the only client that has the number typed.
Sole(t) ==
    /\ dialog[t].pc = "share" /\ dialog[t].final # 0
    /\ WithPhone(dialog[t].phone) = {link[dialog[t].final]}

\* A listing is yet to be shared, being shared or with the link's client, or it
\* cannot be.
Shared(t, l) ==
    \/ l \in dialog[t].rest \/ l \notin listed \/ <<t, l>> \in missed
    \/ <<link[dialog[t].final], l>> \in lead
    \/ \E k \in Busy :
         task[k].kind = "share" /\ task[k].tab = t /\ task[k].listing = l /\ task[k].pc # "answer"

SentShows ==
    \A m \in sent :
        WithPhone(m.phone) = {link[m.link]} =>
            \A l \in listed : <<m.tab, l>> \in missed \/ <<link[m.link], l>> \in lead

Shows == SentShows /\ \A t \in Tabs : Sole(t) => \A l \in Listings : Shared(t, l)

-----------------------------------------------------------------------------
(* What holds while brokers wait *)

\* A request for a dialog is about the number typed there,
TaskSteady(k) == task[k].tab \in Tabs => task[k].phone = dialog[task[k].tab].phone

\* ... and so are the link it shows and the one it sends.
DialogSteady(t) ==
    /\ dialog[t].url # 0 => client[link[dialog[t].url]] = dialog[t].phone
    /\ dialog[t].pc = "share" /\ dialog[t].final # 0 => client[link[dialog[t].final]] = dialog[t].phone

SentSteady == \A m \in sent : client[link[m.link]] = m.phone /\ m.to = Dial(m.phone)

Steady ==
    /\ SentSteady
    /\ \A k \in Busy : TaskSteady(k)
    /\ \A t \in Tabs : DialogSteady(t)

\* While no request fails: those that may create a client or a link come one at
\* a time,
OneAtWork ==
    \A j, k \in Busy : task[j].kind # "share" /\ task[k].kind # "share" => j = k

\* ... and one that is about to create a client is the first for its number.
TaskPrudent(k) ==
    /\ task[k].pc = "failed" => task[k].kind = "share"
    /\ task[k].pc = "create" => task[k].kind # "share" /\ WithPhone(task[k].phone) = {}

Unique == \A c, d \in Ids : client[c] = client[d] => c = d

Prudent ==
    /\ OneAtWork /\ Unique
    /\ \A k \in Busy : TaskPrudent(k)
    /\ \A t \in Tabs : dialog[t].pc = "share" => dialog[t].final # 0

BookInv ==
    /\ Known /\ LinkKept /\ Shows
    /\ careful => Steady
    /\ careful /\ faults = 0 => Prudent

-----------------------------------------------------------------------------
(* Requests and their slots *)

\* A request is not an empty slot.
LEMMA RequestNotIdle == \A rec \in Requests : rec # Idle /\ rec.pc # "idle"
  BY DEF Requests, Idle, Steps

\* The slots in use hold requests.
LEMMA BusyRequests ==
    ASSUME ClientsTypeOK
    PROVE  /\ Busy = {k \in Tasks : task[k] \in Requests}
           /\ \A k \in Tasks : task[k].pc # "idle" => k \in Busy
  BY RequestNotIdle DEF ClientsTypeOK, Busy, Idle

\* A slot taken or rewritten holds the request written, the others what they held.
LEMMA Written ==
    ASSUME ClientsTypeOK, NEW k \in Tasks, NEW rec \in Requests, task' = [task EXCEPT ![k] = rec]
    PROVE  /\ task' \in [Tasks -> Requests \cup {Idle}]
           /\ Busy' = Busy \cup {k}
           /\ task'[k] = rec
           /\ \A j \in Busy' \ {k} : j \in Busy /\ task'[j] = task[j]
  BY RequestNotIdle DEF ClientsTypeOK, Busy

\* A slot left is empty.
LEMMA Left ==
    ASSUME ClientsTypeOK, NEW k \in Tasks, Finish(k)
    PROVE  /\ task' \in [Tasks -> Requests \cup {Idle}]
           /\ Busy' = Busy \ {k}
           /\ \A j \in Busy' : task'[j] = task[j]
  BY DEF ClientsTypeOK, Busy, Finish

\* What a request is for does not change as it is taken further.
LEMMA Further ==
    ASSUME ClientsTypeOK, NEW k \in Busy, NEW p \in Steps, NEW c \in 0..MaxClients, NEW n \in 0..MaxLinks,
           task' = [task EXCEPT ![k] = [task[k] EXCEPT !.pc = p, !.client = c, !.link = n]]
    PROVE  /\ task' \in [Tasks -> Requests \cup {Idle}] /\ Busy' = Busy
           /\ task'[k].kind = task[k].kind /\ task'[k].tab = task[k].tab
           /\ task'[k].phone = task[k].phone /\ task'[k].listing = task[k].listing
           /\ task'[k].pc = p /\ task'[k].client = c /\ task'[k].link = n
           /\ \A j \in Busy \ {k} : task'[j] = task[j]
  <1>1. k \in Tasks /\ task[k] \in Requests
    BY BusyRequests DEF Busy
  <1>2. PICK rec : rec = [task[k] EXCEPT !.pc = p, !.client = c, !.link = n]
    OBVIOUS
  <1>3. /\ rec \in Requests
        /\ rec.kind = task[k].kind /\ rec.tab = task[k].tab /\ rec.phone = task[k].phone
        /\ rec.listing = task[k].listing /\ rec.pc = p /\ rec.client = c /\ rec.link = n
    BY <1>1, <1>2 DEF Requests
  <1>4. task' = [task EXCEPT ![k] = rec]
    BY <1>2
  <1>5. /\ task' \in [Tasks -> Requests \cup {Idle}] /\ Busy' = Busy \cup {k} /\ task'[k] = rec
        /\ \A j \in Busy' \ {k} : j \in Busy /\ task'[j] = task[j]
    BY <1>1, <1>3, <1>4, Written
  <1> QED BY <1>3, <1>5

\* Nor does it as it moves on with what it knows.
LEMMA Moved ==
    ASSUME ClientsTypeOK, NEW k \in Busy, NEW p \in Steps, task' = [task EXCEPT ![k].pc = p]
    PROVE  /\ task' \in [Tasks -> Requests \cup {Idle}] /\ Busy' = Busy
           /\ task'[k].kind = task[k].kind /\ task'[k].tab = task[k].tab
           /\ task'[k].phone = task[k].phone /\ task'[k].listing = task[k].listing
           /\ task'[k].pc = p /\ task'[k].client = task[k].client /\ task'[k].link = task[k].link
           /\ \A j \in Busy \ {k} : task'[j] = task[j]
  <1>1. k \in Tasks /\ task[k] \in Requests
    BY BusyRequests DEF Busy
  <1>2. PICK rec : rec = [task[k] EXCEPT !.pc = p]
    OBVIOUS
  <1>3. /\ rec \in Requests
        /\ rec.kind = task[k].kind /\ rec.tab = task[k].tab /\ rec.phone = task[k].phone
        /\ rec.listing = task[k].listing /\ rec.pc = p /\ rec.client = task[k].client /\ rec.link = task[k].link
    BY <1>1, <1>2 DEF Requests
  <1>4. task' = [task EXCEPT ![k] = rec]
    BY <1>1, <1>2 DEF ClientsTypeOK
  <1>5. /\ task' \in [Tasks -> Requests \cup {Idle}] /\ Busy' = Busy \cup {k} /\ task'[k] = rec
        /\ \A j \in Busy' \ {k} : j \in Busy /\ task'[j] = task[j]
    BY <1>1, <1>3, <1>4, Written
  <1> QED BY <1>3, <1>5

\* A new request is one, and true whatever the tables hold.
LEMMA NewRequest ==
    ASSUME ClientsTypeOK, ClientsAssumption, NEW kind \in {"link", "own", "fresh", "add", "share"},
           NEW tab \in Tabs \cup {NoOne}, NEW phone \in Phones
    PROVE  Request(kind, tab, phone) \in Requests
  BY DEF Request, Requests, Steps, ClientsAssumption

\* A row appended leaves the others as they were.
LEMMA Appended ==
    ASSUME NEW S, NEW s \in Seq(S), NEW x \in S
    PROVE  /\ Append(s, x) \in Seq(S)
           /\ Len(Append(s, x)) = Len(s) + 1 /\ Len(s) \in Nat
           /\ Append(s, x)[Len(s) + 1] = x
           /\ \A i \in 1..Len(s) : Append(s, x)[i] = s[i]
  OBVIOUS

-----------------------------------------------------------------------------
(* The knowledge every request and dialog keeps *)

\* The initial state is known.
LEMMA KnownInit == Init => Known
  <1> SUFFICES ASSUME Init PROVE Known
    OBVIOUS
  <1>1. /\ Busy = {}
        /\ \A t \in Tabs : /\ dialog[t].pc = "open" /\ dialog[t].url = 0 /\ dialog[t].final = 0
                           /\ ~dialog[t].due /\ dialog[t].rest = Listings
    BY DEF Init, Busy
  <1>0. 0 \in 0..MaxLinks /\ Listings \in SUBSET Listings
    BY ClientsAssumption DEF ClientsAssumption
  <1>2. dialog \in [Tabs -> Dialogs] /\ task \in [Tasks -> Requests \cup {Idle}]
    <2>1. [phone : {NoOne}, due : {FALSE}, url : {0}, pc : {"open"}, final : {0}, rest : {Listings}]
            \subseteq Dialogs
      BY <1>0 DEF Dialogs
    <2> QED BY <2>1 DEF Init
  <1>3. Len(client) = 0 /\ Len(link) = 0 /\ client \in Seq(Phones) /\ link \in Seq(Ids)
    BY DEF Init
  <1>4. ClientsTypeOK
    BY <1>2, <1>3, ClientsAssumption DEF Init, ClientsTypeOK, ClientsAssumption
  <1> QED BY <1>1, <1>3, <1>4 DEF Known, DialogTrue, OwnAlone

\* A step of a dialog alone.
LEMMA KnownDialog ==
    ASSUME Known, UNCHANGED <<rows, task>>, UNCHANGED <<cut, missed, faults, careful>>,
           events' \in 0..MaxEvents, sent' \subseteq Messages,
           NEW t \in Tabs, NEW d \in Dialogs, dialog' = [dialog EXCEPT ![t] = d],
           d.url \in 0..Len(link), d.final \in 0..Len(link),
           d.due \/ d.pc \in {"link", "share"} => d.phone \in Phones,
           d.pc \in {"open", "link"} => d.rest = Listings,
           dialog[t].pc = "link" => d.pc = "link",
           \A k \in Busy : task[k].kind = "share" => task[k].tab # t
    PROVE  Known'
  <1> USE DEF Known, rows
  <1>1. ClientsTypeOK'
    BY DEF ClientsTypeOK, Ids, Messages
  <1>2. \A s \in Tabs : dialog'[s] = IF s = t THEN d ELSE dialog[s]
    BY DEF ClientsTypeOK
  <1>3. \A s \in Tabs : DialogTrue(s)'
    BY <1>2 DEF DialogTrue
  <1>4. OwnAlone' /\ Busy' = Busy
    BY DEF OwnAlone, Busy
  <1>5. ASSUME NEW k \in Busy PROVE TaskTrue(k)'
    BY <1>2 DEF TaskTrue, Ids, Asking
  <1> QED BY <1>1, <1>3, <1>4, <1>5

\* The end of a request.
LEMMA KnownAnswer ==
    ASSUME Known, UNCHANGED <<rows, cut, sent>>, UNCHANGED <<events, faults, careful>>,
           missed' \subseteq Tabs \X Listings,
           dialog' \in [Tabs -> Dialogs],
           \A t \in Tabs : DialogTrue(t)',
           \A t \in Tabs : dialog'[t].phone = dialog[t].phone /\ (dialog[t].pc = "share" => dialog'[t].pc = "share"),
           NEW k \in Busy, Finish(k),
           \A t \in Tabs : dialog'[t].pc = "link" <=>
                             dialog[t].pc = "link" /\ ~(task[k].kind = "own" /\ task[k].tab = t)
    PROVE  Known'
  <1>1. k \in Tasks
    BY DEF Busy
  <1>2. /\ task' \in [Tasks -> Requests \cup {Idle}] /\ Busy' = Busy \ {k}
        /\ \A j \in Busy' : task'[j] = task[j]
    BY <1>1, Left DEF Known
  <1>3. ClientsTypeOK'
    BY <1>2 DEF Known, ClientsTypeOK, Ids, Messages, rows, past
  <1>4. ASSUME NEW j \in Busy' PROVE TaskTrue(j)'
    <2>1. j \in Busy /\ j # k /\ task'[j] = task[j] /\ TaskTrue(j)
      BY <1>2 DEF Known
    <2>2. task[j].kind = "own" => dialog'[task[j].tab].pc = "link"
      BY <2>1 DEF Known, OwnAlone, TaskTrue, Asking
    <2>3. task[j].kind = "share" =>
            dialog'[task[j].tab].pc = "share" /\ task[j].phone = dialog'[task[j].tab].phone
      BY <2>1 DEF TaskTrue
    <2> QED BY <2>1, <2>2, <2>3 DEF TaskTrue, Ids, rows
  <1>5. OwnAlone'
    BY <1>2 DEF Known, OwnAlone
  <1> QED BY <1>3, <1>4, <1>5 DEF Known

-----------------------------------------------------------------------------
(* The steps that write the tables *)

\* A client created is the number's that the request looked for.
LEMMA KnownCreate ==
    ASSUME Known, NEW k \in Tasks, CreateClient(k)
    PROVE  /\ Known'
           /\ Len(client') = Len(client) + 1 /\ client'[Len(client) + 1] = task[k].phone
           /\ \A c \in Ids : client'[c] = client[c]
  <1>1. k \in Busy /\ task[k] \in Requests /\ task[k].phone \in Phones
    BY BusyRequests DEF CreateClient, Known, Requests
  <1>2. /\ client' \in Seq(Phones) /\ Len(client') = Len(client) + 1 /\ Len(client) \in Nat
        /\ client'[Len(client) + 1] = task[k].phone
        /\ \A c \in Ids : client'[c] = client[c]
    BY <1>1, Appended DEF CreateClient, Known, ClientsTypeOK, Ids
  <1>3. Ids \subseteq Ids' /\ Len(client) + 1 \in Ids' /\ Len(client') <= MaxClients
    BY <1>2, ClientsAssumption DEF Ids, CreateClient, ClientsAssumption
  <1>4. PICK rec : rec = [task[k] EXCEPT !.pc = AfterFound(task[k].kind), !.client = Len(client) + 1]
    OBVIOUS
  <1>5. rec \in Requests /\ rec.pc \in Steps
    <2>1. AfterFound(task[k].kind) \in Steps /\ Len(client) + 1 \in 0..MaxClients
      BY <1>1, <1>2, <1>3 DEF AfterFound, Steps
    <2> QED BY <1>1, <1>4, <2>1 DEF Requests
  <1>6. /\ task' \in [Tasks -> Requests \cup {Idle}] /\ Busy' = Busy \cup {k} /\ task'[k] = rec
        /\ \A j \in Busy' \ {k} : j \in Busy /\ task'[j] = task[j]
    <2>1. task' = [task EXCEPT ![k] = rec]
      BY <1>1, <1>4 DEF CreateClient, Known, ClientsTypeOK
    <2> QED BY <1>5, <2>1, Written DEF Known
  <1>11. /\ rec.tab = task[k].tab /\ rec.kind = task[k].kind /\ rec.listing = task[k].listing
        /\ rec.link = task[k].link /\ rec.phone = task[k].phone /\ rec.client = Len(client) + 1
        /\ rec.pc = AfterFound(task[k].kind)
    BY <1>1, <1>4 DEF Requests
  <1>7. ClientsTypeOK'
    <2>1. link' \in Seq(Ids') /\ lead' \subseteq Ids' \X Listings /\ cut' \subseteq Ids'
      BY <1>3 DEF Known, ClientsTypeOK, CreateClient, past
    <2> QED BY <1>2, <1>3, <1>6, <2>1 DEF Known, ClientsTypeOK, CreateClient, Messages, past
  <1>8. ASSUME NEW j \in Busy' PROVE TaskTrue(j)'
    <2>1. CASE j = k
      <3>1. TaskTrue(k) /\ task[k].pc = "create"
        BY <1>1 DEF Known, CreateClient
      <3>3. /\ rec.pc \in {"check", "lead"} => task[k].kind = "share"
            /\ rec.pc \in {"drop", "make"} => task[k].kind # "share"
            /\ rec.pc = "answer" => task[k].kind \notin Asking
        BY <1>1, <1>11 DEF AfterFound, Requests, Asking
      <3> QED BY <1>2, <1>3, <1>6, <2>1, <3>1, <1>11, <3>3 DEF TaskTrue, CreateClient, Ids
    <2>2. CASE j # k
      <3>1. j \in Busy /\ task'[j] = task[j] /\ TaskTrue(j)
        BY <1>6, <2>2 DEF Known
      <3> QED BY <1>2, <1>3, <3>1 DEF TaskTrue, CreateClient, Ids, HasFound
    <2> QED BY <2>1, <2>2
  <1>9. OwnAlone'
    BY <1>1, <1>11, <1>6 DEF Known, OwnAlone
  <1>10. \A t \in Tabs : DialogTrue(t)'
    BY DEF Known, DialogTrue, CreateClient
  <1> QED BY <1>2, <1>7, <1>8, <1>9, <1>10 DEF Known

\* The links deleted are the client's.
LEMMA KnownDrop ==
    ASSUME Known, NEW k \in Tasks, DropLinks(k)
    PROVE  /\ Known' /\ Busy' = Busy /\ k \in Busy
           /\ task'[k].pc = "make" /\ task'[k].client = task[k].client /\ task'[k].phone = task[k].phone
           /\ task'[k].kind = task[k].kind /\ task'[k].tab = task[k].tab
           /\ \A j \in Busy \ {k} : task'[j] = task[j]
  <1>1. k \in Busy /\ task[k] \in Requests /\ TaskTrue(k) /\ task[k].pc = "drop"
    BY BusyRequests DEF DropLinks, Known
  <1>2. task' = [task EXCEPT ![k] = [task[k] EXCEPT !.pc = "make", !.client = task[k].client, !.link = task[k].link]]
    BY <1>1 DEF DropLinks, Requests
  <1>3. "make" \in Steps /\ task[k].client \in 0..MaxClients /\ task[k].link \in 0..MaxLinks
    BY <1>1 DEF Requests, Steps
  <1>4. /\ task' \in [Tasks -> Requests \cup {Idle}] /\ Busy' = Busy
        /\ task'[k].kind = task[k].kind /\ task'[k].tab = task[k].tab
        /\ task'[k].phone = task[k].phone /\ task'[k].listing = task[k].listing
        /\ task'[k].pc = "make" /\ task'[k].client = task[k].client /\ task'[k].link = task[k].link
        /\ \A j \in Busy \ {k} : task'[j] = task[j]
    BY <1>1, <1>2, <1>3, Further DEF Known
  <1>5. ClientsTypeOK'
    BY <1>4 DEF Known, ClientsTypeOK, DropLinks, Ids, Messages, past
  <1>6. ASSUME NEW j \in Busy PROVE TaskTrue(j)'
    BY <1>1, <1>4 DEF Known, TaskTrue, DropLinks, Ids, HasFound
  <1>7. OwnAlone' /\ \A t \in Tabs : DialogTrue(t)'
    BY <1>4 DEF Known, OwnAlone, DialogTrue, DropLinks
  <1> QED BY <1>1, <1>4, <1>5, <1>6, <1>7 DEF Known

\* The link made is the client's.
LEMMA KnownMake ==
    ASSUME Known, NEW k \in Tasks, MakeLink(k)
    PROVE  /\ Known' /\ Busy' = Busy /\ k \in Busy
           /\ task'[k].pc = "answer" /\ task'[k].client = task[k].client /\ task'[k].phone = task[k].phone
           /\ task'[k].kind = task[k].kind /\ task'[k].tab = task[k].tab
           /\ \A j \in Busy \ {k} : task'[j] = task[j]
           /\ Len(link') = Len(link) + 1 /\ link'[Len(link) + 1] = task[k].client
           /\ \A i \in 1..Len(link) : link'[i] = link[i]
  <1>1. k \in Busy /\ task[k] \in Requests /\ TaskTrue(k) /\ task[k].pc = "make"
    BY BusyRequests DEF MakeLink, Known
  <1>2. task[k].client \in Ids
    BY <1>1 DEF TaskTrue, HasFound
  <1>3. /\ link' \in Seq(Ids) /\ Len(link') = Len(link) + 1 /\ Len(link) \in Nat
        /\ link'[Len(link) + 1] = task[k].client
        /\ \A i \in 1..Len(link) : link'[i] = link[i]
    BY <1>2, Appended DEF MakeLink, Known, ClientsTypeOK
  <1>4. Len(link) + 1 \in 0..MaxLinks /\ Len(link') <= MaxLinks
    BY <1>3, ClientsAssumption DEF MakeLink, ClientsAssumption
  <1>5. task' = [task EXCEPT ![k] = [task[k] EXCEPT !.pc = "answer", !.client = task[k].client,
                                                    !.link = Len(link) + 1]]
    BY <1>1 DEF MakeLink, Requests
  <1>6. "answer" \in Steps /\ task[k].client \in 0..MaxClients
    BY <1>1 DEF Requests, Steps
  <1>7. /\ task' \in [Tasks -> Requests \cup {Idle}] /\ Busy' = Busy
        /\ task'[k].kind = task[k].kind /\ task'[k].tab = task[k].tab
        /\ task'[k].phone = task[k].phone /\ task'[k].listing = task[k].listing
        /\ task'[k].pc = "answer" /\ task'[k].client = task[k].client /\ task'[k].link = Len(link) + 1
        /\ \A j \in Busy \ {k} : task'[j] = task[j]
    BY <1>1, <1>4, <1>5, <1>6, Further DEF Known
  <1>8. ClientsTypeOK'
    <2>1. live' \subseteq 1..Len(link')
      BY <1>3 DEF Known, ClientsTypeOK, MakeLink
    <2>2. cut' \subseteq Ids /\ sent' \subseteq Messages'
      BY <1>3 DEF Known, ClientsTypeOK, MakeLink, Messages
    <2> QED BY <1>3, <1>4, <1>7, <2>1, <2>2 DEF Known, ClientsTypeOK, MakeLink, Ids
  <1>9. ASSUME NEW j \in Busy PROVE TaskTrue(j)'
    <2>0. TaskTrue(j)
      BY DEF Known
    <2>4. client' = client /\ dialog' = dialog
      BY DEF MakeLink
    <2>1. TaskTrue(j) /\ Ids' = Ids /\ client' = client /\ dialog' = dialog
      BY <2>0, <2>4 DEF Ids
    <2>2. CASE j = k
      BY <1>1, <1>2, <1>3, <1>7, <2>1, <2>2 DEF TaskTrue, HasFound
    <2>3. CASE j # k
      <3>1. task'[j] = task[j]
        BY <1>7, <2>3
      <3>2. task[j].link \in 0..Len(link') /\ (task[j].link # 0 => link'[task[j].link] = link[task[j].link])
        BY <1>3, <2>1 DEF TaskTrue
      <3> QED BY <2>1, <3>1, <3>2 DEF TaskTrue
    <2> QED BY <2>2, <2>3
  <1>10. OwnAlone'
    BY <1>7 DEF Known, OwnAlone
  <1>12. \A t \in Tabs : DialogTrue(t)'
    BY <1>3 DEF Known, DialogTrue, MakeLink
  <1> QED BY <1>1, <1>3, <1>7, <1>8, <1>9, <1>10, <1>12 DEF Known

\* A request moves on, or fails, and leaves all but the clients' listings alone.
LEMMA KnownMove ==
    ASSUME Known, NEW k \in Tasks, task[k].pc \in Steps, NEW p \in {"find", "answer", "failed"},
           task' = [task EXCEPT ![k].pc = p],
           p = "answer" => task[k].pc = "lead",
           UNCHANGED <<listed, client, link, live, dialog, past, events, faults, careful>>,
           lead' \subseteq Ids \X Listings
    PROVE  /\ Known' /\ Busy' = Busy /\ k \in Busy
           /\ task'[k].pc = p /\ task'[k].client = task[k].client /\ task'[k].phone = task[k].phone
           /\ task'[k].kind = task[k].kind /\ task'[k].tab = task[k].tab /\ task'[k].listing = task[k].listing
           /\ \A j \in Busy \ {k} : task'[j] = task[j]
  <1>1. k \in Busy /\ task[k] \in Requests /\ TaskTrue(k)
    BY BusyRequests DEF Known, Steps
  <1>2. p \in Steps
    BY DEF Steps
  <1>4. /\ task' \in [Tasks -> Requests \cup {Idle}] /\ Busy' = Busy
        /\ task'[k].kind = task[k].kind /\ task'[k].tab = task[k].tab
        /\ task'[k].phone = task[k].phone /\ task'[k].listing = task[k].listing
        /\ task'[k].pc = p /\ task'[k].client = task[k].client /\ task'[k].link = task[k].link
        /\ \A j \in Busy \ {k} : task'[j] = task[j]
    BY <1>1, <1>2, Moved DEF Known
  <1>5. ClientsTypeOK'
    BY <1>4 DEF Known, ClientsTypeOK, Ids, Messages, past
  <1>6. ASSUME NEW j \in Busy PROVE TaskTrue(j)'
    <2>1. TaskTrue(j) /\ client' = client /\ link' = link /\ dialog' = dialog
      BY DEF Known
    <2>2. CASE j = k
      BY <1>1, <1>4, <2>1, <2>2 DEF TaskTrue, Ids, HasFound, Asking
    <2>3. CASE j # k
      BY <1>4, <2>1, <2>3 DEF TaskTrue, Ids
    <2> QED BY <2>2, <2>3
  <1>7. OwnAlone' /\ \A t \in Tabs : DialogTrue(t)'
    BY <1>4 DEF Known, OwnAlone, DialogTrue
  <1> QED BY <1>1, <1>4, <1>5, <1>6, <1>7 DEF Known

\* The listing linked is the client's; if it is gone the request fails.
LEMMA KnownLead ==
    ASSUME Known, NEW k \in Tasks, LinkListing(k)
    PROVE  /\ Known' /\ Busy' = Busy /\ k \in Busy /\ task[k].kind = "share"
           /\ task'[k].pc \in {"answer", "failed"} /\ task'[k].phone = task[k].phone
           /\ task'[k].kind = task[k].kind /\ task'[k].tab = task[k].tab /\ task'[k].listing = task[k].listing
           /\ \A j \in Busy \ {k} : task'[j] = task[j]
           /\ lead \subseteq lead'
           /\ task'[k].pc = "answer" => <<task[k].client, task[k].listing>> \in lead'
  <1>1. k \in Busy /\ TaskTrue(k) /\ task[k].pc = "lead"
    BY BusyRequests DEF LinkListing, Known
  <1>2. /\ task[k].client \in Ids /\ task[k].listing \in Listings /\ task[k].kind = "share"
        /\ task[k].pc \in Steps /\ lead \subseteq Ids \X Listings
    BY <1>1 DEF TaskTrue, HasFound, Steps, Known, ClientsTypeOK
  <1>3. UNCHANGED <<listed, client, link, live, dialog, past, events, faults, careful>>
    BY DEF LinkListing
  <1>4. PICK p \in {"answer", "failed"} :
          /\ task' = [task EXCEPT ![k].pc = p]
          /\ lead' = IF p = "answer" THEN lead \cup {<<task[k].client, task[k].listing>>} ELSE lead
    BY DEF LinkListing
  <1>5. lead' \subseteq Ids \X Listings /\ lead \subseteq lead'
    BY <1>2, <1>4
  <1>6. /\ Known' /\ Busy' = Busy /\ k \in Busy
        /\ task'[k].pc = p /\ task'[k].client = task[k].client /\ task'[k].phone = task[k].phone
        /\ task'[k].kind = task[k].kind /\ task'[k].tab = task[k].tab /\ task'[k].listing = task[k].listing
        /\ \A j \in Busy \ {k} : task'[j] = task[j]
    BY <1>1, <1>2, <1>3, <1>4, <1>5, KnownMove
  <1> QED BY <1>2, <1>4, <1>5, <1>6

\* A share goes on, or fails.
LEMMA KnownCheck ==
    ASSUME Known, NEW k \in Tasks, CheckListing(k)
    PROVE  /\ Known' /\ Busy' = Busy /\ k \in Busy /\ task[k].kind = "share"
           /\ task'[k].pc \in {"find", "failed"} /\ task'[k].phone = task[k].phone
           /\ task'[k].kind = task[k].kind /\ task'[k].tab = task[k].tab /\ task'[k].listing = task[k].listing
           /\ \A j \in Busy \ {k} : task'[j] = task[j]
           /\ UNCHANGED <<rows, dialog, past>>
  <1>1. k \in Busy /\ TaskTrue(k) /\ task[k].pc = "check"
    BY BusyRequests DEF CheckListing, Known
  <1>2. task[k].kind = "share" /\ task[k].pc \in Steps /\ lead \subseteq Ids \X Listings
    BY <1>1 DEF TaskTrue, Steps, Known, ClientsTypeOK
  <1>3. UNCHANGED <<rows, dialog, past>> /\ UNCHANGED <<events, faults, careful>>
    BY DEF CheckListing
  <1>4. PICK p \in {"find", "failed"} : task' = [task EXCEPT ![k].pc = p]
    BY DEF CheckListing
  <1>5. UNCHANGED <<listed, client, link, live, dialog, past, events, faults, careful>> /\ lead' \subseteq Ids \X Listings
    BY <1>2, <1>3 DEF rows
  <1>6. /\ Known' /\ Busy' = Busy /\ k \in Busy
        /\ task'[k].pc = p /\ task'[k].client = task[k].client /\ task'[k].phone = task[k].phone
        /\ task'[k].kind = task[k].kind /\ task'[k].tab = task[k].tab /\ task'[k].listing = task[k].listing
        /\ \A j \in Busy \ {k} : task'[j] = task[j]
    BY <1>1, <1>2, <1>4, <1>5, KnownMove
  <1> QED BY <1>2, <1>3, <1>6

\* A listing deleted takes its rows along.
LEMMA KnownDelete ==
    ASSUME Known, NEW l \in Listings, DeleteListing(l)
    PROVE  /\ Known' /\ Busy' = Busy
           /\ UNCHANGED <<client, link, live, dialog, task, past, events, faults, careful>>
           /\ listed' \subseteq listed /\ \A r \in lead : r \in lead' \/ r[2] \notin listed'
  <1>1. /\ UNCHANGED <<client, link, live, dialog, task, past, events, faults, careful>>
        /\ listed' = listed \ {l} /\ lead' = {r \in lead : r[2] # l}
    BY DEF DeleteListing
  <1>2. ClientsTypeOK'
    BY <1>1 DEF Known, ClientsTypeOK, Ids, Messages, past
  <1>3. Busy' = Busy
    BY <1>1 DEF Busy
  <1>4. ASSUME NEW k \in Busy PROVE TaskTrue(k)'
    BY <1>1 DEF Known, TaskTrue, Ids
  <1>5. OwnAlone' /\ \A t \in Tabs : DialogTrue(t)'
    BY <1>1, <1>3 DEF Known, OwnAlone, DialogTrue
  <1> QED BY <1>1, <1>2, <1>3, <1>4, <1>5 DEF Known

\* Requests that fail leave failures, to dialogs only.
LEMMA KnownFail ==
    ASSUME Known, NEW K \in SUBSET Busy, Fail(K)
    PROVE  /\ Known' /\ Busy' \subseteq Busy
           /\ {task[k].client : k \in {h \in K : task[h].pc = "make"}} \subseteq Ids
           /\ \A k \in Busy \ K : k \in Busy' /\ task'[k] = task[k]
           /\ \A k \in Busy' : /\ task'[k].tab = task[k].tab /\ task'[k].kind = task[k].kind
                               /\ task'[k].listing = task[k].listing /\ task'[k].phone = task[k].phone
                               /\ k \in K => task'[k].pc = "failed"
           /\ \A k \in K : task[k].kind = "share" => k \in Busy'
  <1>1. \A k \in Busy : k \in Tasks /\ task[k] \in Requests /\ TaskTrue(k)
    BY BusyRequests DEF Known, Busy
  <1>2. ASSUME NEW k \in Tasks
        PROVE  /\ task'[k] \in Requests \cup {Idle}
               /\ k \in Busy' => /\ k \in Busy
                                 /\ task'[k].pc = "failed" \/ task'[k].pc = task[k].pc
                                 /\ task'[k].tab = task[k].tab /\ task'[k].kind = task[k].kind
                                 /\ task'[k].listing = task[k].listing /\ task'[k].link = task[k].link
                                 /\ task'[k].client = task[k].client /\ task'[k].phone = task[k].phone
                                 /\ k \in K => task'[k].pc = "failed"
               /\ k \in Busy \ K => k \in Busy' /\ task'[k] = task[k]
               /\ k \in K /\ task[k].tab # NoOne => k \in Busy'
    <2>1. task'[k] = IF k \notin K THEN task[k]
                     ELSE IF task[k].tab = NoOne THEN Idle
                     ELSE [task[k] EXCEPT !.pc = "failed"]
      BY DEF Fail
    <2>2. (k \in Busy' <=> task'[k] # Idle) /\ (k \in Busy <=> task[k] # Idle)
      BY DEF Busy
    <2>3. CASE k \in K /\ task[k].tab # NoOne
      <3>1. k \in Busy
        BY <2>3
      <3>2. task'[k] = [task[k] EXCEPT !.pc = "failed"]
        BY <2>1, <2>3
      <3>3. task'[k] \in Requests
        BY <1>1, <3>1, <3>2 DEF Requests, Steps
      <3>4. task'[k] # Idle
        BY <3>3, RequestNotIdle
      <3>5. /\ task'[k].pc = "failed"
            /\ task'[k].tab = task[k].tab /\ task'[k].kind = task[k].kind
            /\ task'[k].listing = task[k].listing /\ task'[k].link = task[k].link
            /\ task'[k].client = task[k].client /\ task'[k].phone = task[k].phone
        BY <1>1, <3>1, <3>2 DEF Requests
      <3> QED BY <2>2, <2>3, <3>1, <3>3, <3>4, <3>5
    <2>4. CASE k \in K /\ task[k].tab = NoOne
      BY <2>1, <2>2, <2>4
    <2>5. CASE k \notin K
      <3>1. task'[k] = task[k]
        BY <2>1, <2>5
      <3> QED BY <2>2, <2>5, <3>1 DEF Known, ClientsTypeOK
    <2> QED BY <2>3, <2>4, <2>5
  <1>3. {task[k].client : k \in {h \in K : task[h].pc = "make"}} \subseteq Ids
    BY <1>1 DEF TaskTrue, HasFound
  <1>4. ClientsTypeOK'
    <2>1. task' \in [Tasks -> Requests \cup {Idle}]
      BY <1>2 DEF Fail
    <2>2. cut' \subseteq Ids
      BY <1>3 DEF Known, ClientsTypeOK, Fail
    <2>3. faults' \in 0..MaxFaults
      BY ClientsAssumption DEF Known, ClientsTypeOK, Fail, ClientsAssumption
    <2> QED BY <2>1, <2>2, <2>3 DEF Known, ClientsTypeOK, Fail, Ids, Messages, rows
  <1>5. Busy' \subseteq Tasks
    BY DEF Busy
  <1>6. ASSUME NEW k \in Busy' PROVE TaskTrue(k)'
    <2>1. k \in Tasks /\ k \in Busy /\ TaskTrue(k)
      BY <1>1, <1>2, <1>5
    <2>2. client' = client /\ link' = link /\ dialog' = dialog
      BY DEF Fail, rows
    <2> QED BY <1>2, <2>1, <2>2 DEF TaskTrue, Ids, HasFound
  <1>7. OwnAlone'
    BY <1>2, <1>5 DEF Known, OwnAlone
  <1>8. \A t \in Tabs : DialogTrue(t)'
    BY DEF Known, DialogTrue, Fail, rows
  <1>9. ASSUME NEW k \in K, task[k].kind = "share" PROVE k \in Busy'
    <2>1. k \in Tasks /\ task[k].tab \in Tabs
      BY <1>1, <1>9 DEF TaskTrue
    <2>2. task[k].tab # NoOne
      BY <2>1, ClientsAssumption DEF ClientsAssumption
    <2> QED BY <1>2, <2>1, <2>2
  <1>10. \A k \in Busy \ K : k \in Busy' /\ task'[k] = task[k]
    BY <1>1, <1>2
  <1>11. \A k \in Busy' : /\ k \in Busy /\ task'[k].tab = task[k].tab /\ task'[k].kind = task[k].kind
                          /\ task'[k].listing = task[k].listing /\ task'[k].phone = task[k].phone
                          /\ k \in K => task'[k].pc = "failed"
    BY <1>2, <1>5
  <1> QED BY <1>3, <1>4, <1>6, <1>7, <1>8, <1>9, <1>10, <1>11 DEF Known

-----------------------------------------------------------------------------
(* The other steps of the requests *)

\* The client found has the number.
LEMMA KnownFind ==
    ASSUME Known, NEW k \in Tasks, FindClient(k)
    PROVE  /\ Known' /\ Busy' = Busy /\ k \in Busy
           /\ task'[k].phone = task[k].phone /\ task'[k].listing = task[k].listing
           /\ task'[k].kind = task[k].kind /\ task'[k].tab = task[k].tab
           /\ \/ WithPhone(task[k].phone) = {} /\ task'[k].pc = "create"
              \/ WithPhone(task[k].phone) # {} /\ task'[k].pc = AfterFound(task[k].kind)
           /\ \A j \in Busy \ {k} : task'[j] = task[j]
  <1>1. k \in Busy /\ task[k] \in Requests /\ TaskTrue(k) /\ task[k].pc = "find"
    BY BusyRequests DEF FindClient, Known
  <1>2. PICK p \in Steps, c \in 0..MaxClients :
          /\ task' = [task EXCEPT ![k] = [task[k] EXCEPT !.pc = p, !.client = c, !.link = task[k].link]]
          /\ \/ WithPhone(task[k].phone) = {} /\ p = "create"
             \/ c \in WithPhone(task[k].phone) /\ p = AfterFound(task[k].kind)
    <2>1. CASE WithPhone(task[k].phone) = {}
      <3>1. task' = [task EXCEPT ![k].pc = "create"]
        BY <2>1 DEF FindClient
      <3>2. task' = [task EXCEPT ![k] = [task[k] EXCEPT !.pc = "create", !.client = task[k].client,
                                                        !.link = task[k].link]]
        BY <1>1, <3>1 DEF Requests
      <3>3. "create" \in Steps /\ task[k].client \in 0..MaxClients
        BY <1>1 DEF Requests, Steps
      <3> QED BY <2>1, <3>2, <3>3
    <2>2. CASE WithPhone(task[k].phone) # {}
      <3>1. PICK c \in WithPhone(task[k].phone) :
              task' = [task EXCEPT ![k].pc = AfterFound(task[k].kind), ![k].client = c]
        BY <2>2 DEF FindClient
      <3>2. task' = [task EXCEPT ![k] = [task[k] EXCEPT !.pc = AfterFound(task[k].kind), !.client = c,
                                                        !.link = task[k].link]]
        BY <1>1, <3>1 DEF Requests, Known, ClientsTypeOK
      <3>3. AfterFound(task[k].kind) \in Steps
        BY <1>1 DEF Requests, Steps, AfterFound
      <3>4. c \in 0..MaxClients
        BY ClientsAssumption DEF WithPhone, Ids, Known, ClientsTypeOK, ClientsAssumption
      <3> QED BY <3>2, <3>3, <3>4
    <2> QED BY <2>1, <2>2
  <1>3. task[k].link \in 0..MaxLinks
    BY <1>1 DEF Requests
  <1>4. /\ task' \in [Tasks -> Requests \cup {Idle}] /\ Busy' = Busy
        /\ task'[k].kind = task[k].kind /\ task'[k].tab = task[k].tab
        /\ task'[k].phone = task[k].phone /\ task'[k].listing = task[k].listing
        /\ task'[k].pc = p /\ task'[k].client = c /\ task'[k].link = task[k].link
        /\ \A j \in Busy \ {k} : task'[j] = task[j]
    BY <1>1, <1>2, <1>3, Further DEF Known
  <1>5. ClientsTypeOK'
    BY <1>4 DEF Known, ClientsTypeOK, FindClient, Ids, Messages, rows, past
  <1>6. /\ p \in HasFound => c \in Ids /\ client[c] = task[k].phone
        /\ p \in {"check", "lead"} => task[k].kind = "share"
        /\ p \in {"drop", "make"} => task[k].kind # "share"
        /\ p = "answer" => task[k].kind \notin Asking
    BY <1>1, <1>2 DEF WithPhone, AfterFound, HasFound, Requests, Asking
  <1>7. ASSUME NEW j \in Busy PROVE TaskTrue(j)'
    BY <1>1, <1>4, <1>6 DEF Known, TaskTrue, FindClient, Ids, rows
  <1>8. OwnAlone' /\ \A t \in Tabs : DialogTrue(t)'
    BY <1>4 DEF Known, OwnAlone, DialogTrue, FindClient, rows
  <1>9. c \in WithPhone(task[k].phone) => WithPhone(task[k].phone) # {}
    OBVIOUS
  <1> QED BY <1>1, <1>2, <1>4, <1>5, <1>7, <1>8, <1>9 DEF Known

\* A request that starts knows nothing yet, or the client it is made for.
LEMMA KnownStart ==
    ASSUME Known, UNCHANGED <<rows, past>>, UNCHANGED <<faults, careful>>, events' \in 0..MaxEvents,
           NEW k \in Tasks, NEW rec \in Requests, Take(k, rec),
           \/ rec.pc = "find"
           \/ rec.pc = "check" /\ rec.kind = "share"
           \/ rec.pc = "drop" /\ rec.kind # "share" /\ rec.client \in Ids /\ client[rec.client] = rec.phone,
           rec.link = 0,
           rec.tab \in Tabs <=> rec.kind \in Asking \cup {"share"},
           rec.listing \in Listings <=> rec.kind = "share",
           dialog' \in [Tabs -> Dialogs],
           \A t \in Tabs : DialogTrue(t)',
           \A t \in Tabs : dialog'[t].pc = "link" <=> dialog[t].pc = "link" \/ (rec.kind = "own" /\ rec.tab = t),
           rec.kind = "own" => dialog[rec.tab].pc # "link",
           rec.kind = "share" => dialog'[rec.tab].pc = "share" /\ rec.phone = dialog'[rec.tab].phone,
           \A t \in Tabs : dialog'[t].phone = dialog[t].phone /\ (dialog[t].pc = "share" => dialog'[t].pc = "share")
    PROVE  /\ Known' /\ k \notin Busy /\ Busy' = Busy \cup {k} /\ task'[k] = rec
           /\ \A j \in Busy : task'[j] = task[j]
  <1>1. task' = [task EXCEPT ![k] = rec] /\ k \notin Busy
    BY DEF Take, Busy
  <1>2. /\ task' \in [Tasks -> Requests \cup {Idle}] /\ Busy' = Busy \cup {k} /\ task'[k] = rec
        /\ \A j \in Busy' \ {k} : j \in Busy /\ task'[j] = task[j]
    BY <1>1, Written DEF Known
  <1>3. client' = client /\ link' = link /\ Ids' = Ids /\ Len(link) \in Nat
    BY DEF rows, Ids, Known, ClientsTypeOK
  <1>4. TaskTrue(k)'
    BY <1>2, <1>3 DEF TaskTrue, HasFound, Asking
  <1>5. ClientsTypeOK'
    BY <1>2 DEF Known, ClientsTypeOK, Ids, Messages, rows, past
  <1>6. ASSUME NEW j \in Busy PROVE TaskTrue(j)'
    <2>1. task'[j] = task[j] /\ TaskTrue(j)
      BY <1>1, <1>2 DEF Known
    <2> QED BY <1>3, <2>1 DEF TaskTrue, Asking
  <1>7. OwnAlone'
    BY <1>2 DEF Known, OwnAlone, TaskTrue
  <1> QED BY <1>1, <1>2, <1>4, <1>5, <1>6, <1>7 DEF Known

\* The timer's request.
LEMMA KnownTimer ==
    ASSUME Known, NEW t \in Tabs, NEW k \in Tasks, TimerFires(t, k)
    PROVE  /\ Known' /\ k \notin Busy /\ Busy' = Busy \cup {k}
           /\ task'[k] = Request("link", t, dialog[t].phone) /\ dialog[t].phone \in Phones
           /\ \A j \in Busy : task'[j] = task[j]
  <1>1. PICK d : d = [dialog[t] EXCEPT !.due = FALSE]
    OBVIOUS
  <1>2. dialog[t] \in Dialogs /\ dialog[t].phone \in Phones /\ DialogTrue(t)
    BY DEF Known, ClientsTypeOK, DialogTrue, TimerFires
  <1>3. /\ d \in Dialogs /\ d.phone = dialog[t].phone /\ d.url = dialog[t].url /\ d.final = dialog[t].final
        /\ d.pc = dialog[t].pc /\ ~d.due /\ d.rest = dialog[t].rest
    BY <1>1, <1>2 DEF Dialogs
  <1>4. dialog' = [dialog EXCEPT ![t] = d]
    BY <1>1 DEF TimerFires
  <1>5. dialog' \in [Tabs -> Dialogs] /\ \A s \in Tabs : dialog'[s] = IF s = t THEN d ELSE dialog[s]
    BY <1>3, <1>4 DEF Known, ClientsTypeOK
  <1>6. \A s \in Tabs : DialogTrue(s)'
    BY <1>2, <1>3, <1>5 DEF Known, DialogTrue, TimerFires, rows
  <1>7. PICK rec : rec = Request("link", t, dialog[t].phone)
    OBVIOUS
  <1>8. rec \in Requests
    BY <1>2, <1>7, NewRequest, ClientsAssumption DEF Known
  <1>9. /\ rec.pc = "find" /\ rec.kind = "link" /\ rec.tab = t /\ rec.listing = NoOne /\ rec.link = 0
    BY <1>7 DEF Request
  <1>10. Take(k, rec)
    BY <1>7 DEF TimerFires, Start
  <1>11. UNCHANGED <<rows, past>> /\ UNCHANGED <<faults, careful>> /\ events' \in 0..MaxEvents
    BY DEF TimerFires, Known, ClientsTypeOK
  <1>12. NoOne \notin Listings
    BY ClientsAssumption DEF ClientsAssumption
  <1>13. \A s \in Tabs : dialog'[s].pc = "link" <=> dialog[s].pc = "link" \/ (rec.kind = "own" /\ rec.tab = s)
    BY <1>3, <1>5, <1>9
  <1>14. /\ Known' /\ k \notin Busy /\ Busy' = Busy \cup {k} /\ task'[k] = rec
         /\ \A j \in Busy : task'[j] = task[j]
    BY <1>3, <1>5, <1>6, <1>8, <1>9, <1>10, <1>11, <1>12, <1>13, KnownStart DEF Asking
  <1> QED BY <1>2, <1>7, <1>14

\* The request of a dialog that needs a link.
LEMMA KnownPress ==
    ASSUME Known, NEW t \in Tabs, NEW k \in Tasks, PressWithout(t, k)
    PROVE  /\ Known' /\ k \notin Busy /\ Busy' = Busy \cup {k}
           /\ task'[k] = Request("own", t, dialog[t].phone) /\ dialog[t].phone \in Phones
           /\ \A j \in Busy : task'[j] = task[j]
  <1>1. PICK d : d = [dialog[t] EXCEPT !.pc = "link"]
    OBVIOUS
  <1>2. dialog[t] \in Dialogs /\ dialog[t].phone \in Phones /\ dialog[t].pc = "open" /\ DialogTrue(t)
    BY DEF Known, ClientsTypeOK, Dialogs, PressWithout
  <1>3. /\ d \in Dialogs /\ d.phone = dialog[t].phone /\ d.url = dialog[t].url /\ d.final = dialog[t].final
        /\ d.pc = "link" /\ d.rest = dialog[t].rest
    BY <1>1, <1>2 DEF Dialogs
  <1>4. dialog' = [dialog EXCEPT ![t] = d]
    BY <1>1 DEF PressWithout
  <1>5. dialog' \in [Tabs -> Dialogs] /\ \A s \in Tabs : dialog'[s] = IF s = t THEN d ELSE dialog[s]
    BY <1>3, <1>4 DEF Known, ClientsTypeOK
  <1>6. \A s \in Tabs : DialogTrue(s)'
    BY <1>2, <1>3, <1>5 DEF Known, DialogTrue, PressWithout, rows
  <1>7. PICK rec : rec = Request("own", t, dialog[t].phone)
    OBVIOUS
  <1>8. rec \in Requests
    BY <1>2, <1>7, NewRequest, ClientsAssumption DEF Known
  <1>9. /\ rec.pc = "find" /\ rec.kind = "own" /\ rec.tab = t /\ rec.listing = NoOne /\ rec.link = 0
    BY <1>7 DEF Request
  <1>10. Take(k, rec)
    BY <1>7 DEF PressWithout, Start
  <1>11. UNCHANGED <<rows, past>> /\ UNCHANGED <<faults, careful>> /\ events' \in 0..MaxEvents
    BY DEF PressWithout, Known, ClientsTypeOK
  <1>12. NoOne \notin Listings
    BY ClientsAssumption DEF ClientsAssumption
  <1>13. \A s \in Tabs : dialog'[s].pc = "link" <=> dialog[s].pc = "link" \/ (rec.kind = "own" /\ rec.tab = s)
    BY <1>3, <1>5, <1>9
  <1>14. /\ Known' /\ k \notin Busy /\ Busy' = Busy \cup {k} /\ task'[k] = rec
         /\ \A j \in Busy : task'[j] = task[j]
    BY <1>2, <1>3, <1>5, <1>6, <1>8, <1>9, <1>10, <1>11, <1>12, <1>13, KnownStart DEF Asking
  <1> QED BY <1>2, <1>7, <1>14

\* The request that shares a listing.
LEMMA KnownShare ==
    ASSUME Known, NEW t \in Tabs, NEW k \in Tasks, NEW l \in Listings, ShareListing(t, k, l)
    PROVE  /\ Known' /\ k \notin Busy /\ Busy' = Busy \cup {k}
           /\ task'[k] = [Request("share", t, dialog[t].phone) EXCEPT !.pc = "check", !.listing = l]
           /\ dialog[t].phone \in Phones
           /\ \A j \in Busy : task'[j] = task[j]
  <1>1. PICK d : d = [dialog[t] EXCEPT !.rest = @ \ {l}]
    OBVIOUS
  <1>2. dialog[t] \in Dialogs /\ dialog[t].phone \in Phones /\ dialog[t].pc = "share" /\ DialogTrue(t)
    BY DEF Known, ClientsTypeOK, DialogTrue, ShareListing
  <1>3. /\ d \in Dialogs /\ d.phone = dialog[t].phone /\ d.url = dialog[t].url /\ d.final = dialog[t].final
        /\ d.pc = "share"
    BY <1>1, <1>2 DEF Dialogs
  <1>4. dialog' = [dialog EXCEPT ![t] = d]
    BY <1>1 DEF ShareListing
  <1>5. dialog' \in [Tabs -> Dialogs] /\ \A s \in Tabs : dialog'[s] = IF s = t THEN d ELSE dialog[s]
    BY <1>3, <1>4 DEF Known, ClientsTypeOK
  <1>6. \A s \in Tabs : DialogTrue(s)'
    BY <1>2, <1>3, <1>5 DEF Known, DialogTrue, ShareListing, rows
  <1>7. PICK rec : rec = [Request("share", t, dialog[t].phone) EXCEPT !.pc = "check", !.listing = l]
    OBVIOUS
  <1>8. rec \in Requests
    <2>1. Request("share", t, dialog[t].phone) \in Requests
      BY <1>2, NewRequest, ClientsAssumption DEF Known
    <2> QED BY <1>7, <2>1 DEF Requests, Steps
  <1>9. /\ rec.pc = "check" /\ rec.kind = "share" /\ rec.tab = t /\ rec.listing = l /\ rec.link = 0
        /\ rec.phone = dialog[t].phone
    BY <1>7 DEF Request
  <1>10. Take(k, rec)
    BY <1>7 DEF ShareListing
  <1>11. UNCHANGED <<rows, past>> /\ UNCHANGED <<faults, careful>> /\ events' \in 0..MaxEvents
    BY DEF ShareListing, Known, ClientsTypeOK
  <1>12. \A s \in Tabs : dialog'[s].pc = "link" <=> dialog[s].pc = "link" \/ (rec.kind = "own" /\ rec.tab = s)
    BY <1>2, <1>3, <1>5, <1>9
  <1>13. /\ Known' /\ k \notin Busy /\ Busy' = Busy \cup {k} /\ task'[k] = rec
         /\ \A j \in Busy : task'[j] = task[j]
    BY <1>2, <1>3, <1>5, <1>6, <1>8, <1>9, <1>10, <1>11, <1>12, KnownStart DEF Asking
  <1> QED BY <1>2, <1>7, <1>13

\* The requests of the other pages.
LEMMA KnownPage ==
    ASSUME Known, NEW k \in Tasks,
           \/ \E p \in Phones : AddClient(k, p)
           \/ \E c \in Ids : FreshLink(k, c)
    PROVE  /\ Known' /\ k \notin Busy /\ Busy' = Busy \cup {k}
           /\ task'[k] \in Requests /\ task'[k].kind \in {"add", "fresh"} /\ task'[k].pc \in {"find", "drop"}
           /\ \A j \in Busy : task'[j] = task[j]
           /\ UNCHANGED <<rows, past, dialog>> /\ UNCHANGED <<faults, careful>>
           /\ careful => Busy = {}
  <1>1. /\ UNCHANGED <<rows, past, dialog>> /\ UNCHANGED <<faults, careful>>
        /\ careful => Busy = {}
    BY DEF AddClient, FreshLink, Start
  <1>2. events' \in 0..MaxEvents
    <2>1. events < MaxEvents /\ events' = events + 1
      BY DEF AddClient, FreshLink, Act
    <2>2. events \in 0..MaxEvents /\ MaxEvents \in Nat
      BY ClientsAssumption DEF Known, ClientsTypeOK, ClientsAssumption
    <2> QED BY <2>1, <2>2
  <1>3. PICK rec \in Requests :
          /\ Take(k, rec)
          /\ rec.kind \in {"add", "fresh"} /\ rec.tab = NoOne /\ rec.listing = NoOne /\ rec.link = 0
          /\ rec.pc = "find" \/ (rec.pc = "drop" /\ rec.client \in Ids /\ client[rec.client] = rec.phone)
    <2>1. ASSUME NEW p \in Phones, AddClient(k, p)
          PROVE  \E rec \in Requests :
                   /\ Take(k, rec)
                   /\ rec.kind \in {"add", "fresh"} /\ rec.tab = NoOne /\ rec.listing = NoOne /\ rec.link = 0
                   /\ rec.pc = "find" \/ (rec.pc = "drop" /\ rec.client \in Ids /\ client[rec.client] = rec.phone)
      <3>1. PICK rec : rec = Request("add", NoOne, p)
        OBVIOUS
      <3>2. rec \in Requests
        BY <3>1, NewRequest, ClientsAssumption DEF Known
      <3>3. /\ rec.kind = "add" /\ rec.tab = NoOne /\ rec.listing = NoOne /\ rec.link = 0 /\ rec.pc = "find"
        BY <3>1 DEF Request
      <3>4. Take(k, rec)
        BY <2>1, <3>1 DEF AddClient, Start
      <3> QED BY <3>2, <3>3, <3>4
    <2>2. ASSUME NEW c \in Ids, FreshLink(k, c)
          PROVE  \E rec \in Requests :
                   /\ Take(k, rec)
                   /\ rec.kind \in {"add", "fresh"} /\ rec.tab = NoOne /\ rec.listing = NoOne /\ rec.link = 0
                   /\ rec.pc = "find" \/ (rec.pc = "drop" /\ rec.client \in Ids /\ client[rec.client] = rec.phone)
      <3>1. PICK rec : rec = [Request("fresh", NoOne, client[c]) EXCEPT !.pc = "drop", !.client = c]
        OBVIOUS
      <3>2. client[c] \in Phones /\ c \in 0..MaxClients
        BY ClientsAssumption DEF Known, ClientsTypeOK, Ids, ClientsAssumption
      <3>3. Request("fresh", NoOne, client[c]) \in Requests
        BY <3>2, NewRequest, ClientsAssumption DEF Known
      <3>4. rec \in Requests
        BY <3>1, <3>2, <3>3 DEF Requests, Steps
      <3>5. /\ rec.kind = "fresh" /\ rec.tab = NoOne /\ rec.listing = NoOne /\ rec.link = 0
            /\ rec.pc = "drop" /\ rec.client = c /\ rec.phone = client[c]
        BY <3>1 DEF Request
      <3>6. Take(k, rec)
        BY <2>2, <3>1 DEF FreshLink, Start
      <3> QED BY <3>4, <3>5, <3>6
    <2> QED BY <2>1, <2>2
  <1>4. NoOne \notin Listings /\ NoOne \notin Tabs
    BY ClientsAssumption DEF ClientsAssumption
  <1>5. dialog' \in [Tabs -> Dialogs] /\ \A t \in Tabs : DialogTrue(t)'
    BY <1>1 DEF Known, ClientsTypeOK, DialogTrue, rows
  <1>6. /\ rec.tab \in Tabs <=> rec.kind \in Asking \cup {"share"}
        /\ rec.listing \in Listings <=> rec.kind = "share"
    BY <1>3, <1>4 DEF Asking
  <1>7. UNCHANGED <<rows, past>> /\ dialog' = dialog
    BY <1>1
  <1>8. /\ Known' /\ k \notin Busy /\ Busy' = Busy \cup {k} /\ task'[k] = rec
        /\ \A j \in Busy : task'[j] = task[j]
    BY <1>1, <1>2, <1>3, <1>5, <1>6, <1>7, KnownStart
  <1> QED BY <1>1, <1>3, <1>8

\* Typing, pressing the button with a link there, opening WhatsApp, cancelling.
LEMMA KnownByHand ==
    ASSUME Known, NEW t \in Tabs,
           \/ \E p \in Phones \cup {NoOne} : Type(t, p)
           \/ PressWithLink(t) \/ OpenWhatsApp(t) \/ Cancel(t)
    PROVE  Known'
  <1>1. dialog[t] \in Dialogs /\ DialogTrue(t) /\ events \in 0..MaxEvents /\ MaxEvents \in Nat
    BY ClientsAssumption DEF Known, ClientsTypeOK, ClientsAssumption
  <1>2. 0 \in 0..Len(link) /\ 0 \in 0..MaxLinks
    BY ClientsAssumption DEF Known, ClientsTypeOK, ClientsAssumption
  <1>6. dialog[t].pc = "open" => \A k \in Busy : task[k].kind = "share" => task[k].tab # t
    BY DEF Known, TaskTrue
  <1>3. ASSUME NEW p \in Phones \cup {NoOne}, Type(t, p) PROVE Known'
    <2>1. PICK d : d = [dialog[t] EXCEPT !.phone = p, !.due = p # NoOne, !.url = IF p = NoOne THEN 0 ELSE @]
      OBVIOUS
    <2>2. /\ d \in Dialogs /\ d.phone = p /\ d.url = (IF p = NoOne THEN 0 ELSE dialog[t].url)
          /\ d.final = dialog[t].final /\ d.pc = dialog[t].pc /\ d.due = (p # NoOne)
          /\ d.rest = dialog[t].rest
      BY <1>1, <1>2, <2>1 DEF Dialogs
    <2>3. dialog' = [dialog EXCEPT ![t] = d] /\ dialog[t].pc = "open"
      BY <1>3, <2>1 DEF Type
    <2>4. events' \in 0..MaxEvents
      <3>1. events < MaxEvents /\ events' = events + 1
        BY <1>3 DEF Type, Act
      <3> QED BY <1>1, <3>1
    <2>5. sent' \subseteq Messages /\ UNCHANGED <<rows, task>> /\ UNCHANGED <<cut, missed, faults, careful>>
      BY <1>3 DEF Type, past, Known, ClientsTypeOK
    <2>6. /\ d.url \in 0..Len(link) /\ d.final \in 0..Len(link)
          /\ d.due \/ d.pc \in {"link", "share"} => d.phone \in Phones
          /\ d.rest = Listings
      BY <1>1, <1>2, <2>2, <2>3 DEF DialogTrue
    <2> QED BY <1>6, <2>2, <2>3, <2>4, <2>5, <2>6, KnownDialog
  <1>4. ASSUME PressWithLink(t) PROVE Known'
    <2>1. PICK d : d = [dialog[t] EXCEPT !.pc = "share", !.final = dialog[t].url]
      OBVIOUS
    <2>2. /\ d \in Dialogs /\ d.phone = dialog[t].phone /\ d.url = dialog[t].url
          /\ d.final = dialog[t].url /\ d.pc = "share"
      BY <1>1, <2>1 DEF Dialogs
    <2>3. dialog' = [dialog EXCEPT ![t] = d] /\ dialog[t].pc = "open" /\ dialog[t].phone \in Phones
      BY <1>1, <1>4, <2>1 DEF PressWithLink, Dialogs
    <2>4. sent' \subseteq Messages /\ UNCHANGED <<rows, task>> /\ UNCHANGED <<cut, missed, faults, careful>>
          /\ events' \in 0..MaxEvents
      BY <1>1, <1>4 DEF PressWithLink, past, Known, ClientsTypeOK
    <2>5. d.url \in 0..Len(link) /\ d.final \in 0..Len(link) /\ (d.due \/ d.pc \in {"link", "share"} => d.phone \in Phones)
      BY <1>1, <2>2, <2>3 DEF DialogTrue
    <2> QED BY <1>6, <2>2, <2>3, <2>4, <2>5, KnownDialog
  <1>5. ASSUME OpenWhatsApp(t) \/ Cancel(t) PROVE Known'
    <2>1. PICK d : d = [dialog[t] EXCEPT !.pc = "closed"]
      OBVIOUS
    <2>2. /\ d \in Dialogs /\ d.phone = dialog[t].phone /\ d.url = dialog[t].url
          /\ d.final = dialog[t].final /\ d.pc = "closed" /\ d.due = dialog[t].due
      BY <1>1, <2>1 DEF Dialogs
    <2>3. dialog' = [dialog EXCEPT ![t] = d] /\ dialog[t].pc \in {"open", "share"}
      <3>1. CASE OpenWhatsApp(t)
        BY <2>1, <3>1 DEF OpenWhatsApp
      <3>2. CASE Cancel(t)
        BY <2>1, <3>2 DEF Cancel
      <3> QED BY <1>5, <3>1, <3>2
    <2>4. sent' \subseteq Messages
      <3>1. sent \subseteq Messages
        BY DEF Known, ClientsTypeOK
      <3>2. CASE Cancel(t)
        BY <3>1, <3>2 DEF Cancel, past
      <3>3. CASE OpenWhatsApp(t)
        <4>1. Message(t) \subseteq Messages
          <5>1. dialog[t].phone \in Phones /\ dialog[t].final \in 0..Len(link)
            BY <1>1, <3>3 DEF OpenWhatsApp, DialogTrue
          <5> QED BY <1>2, <5>1 DEF Message, Messages, Dial
        <4> QED BY <3>1, <3>3, <4>1 DEF OpenWhatsApp
      <3> QED BY <1>5, <3>2, <3>3
    <2>7. \A k \in Busy : task[k].kind = "share" => task[k].tab # t
      BY <1>5, <1>6 DEF OpenWhatsApp, Cancel
    <2>5. UNCHANGED <<rows, task>> /\ UNCHANGED <<cut, missed, faults, careful>> /\ events' \in 0..MaxEvents
      BY <1>1, <1>5 DEF OpenWhatsApp, Cancel, past
    <2>6. d.url \in 0..Len(link) /\ d.final \in 0..Len(link) /\ (d.due \/ d.pc \in {"link", "share"} => d.phone \in Phones)
      BY <1>1, <2>2, <2>3 DEF DialogTrue
    <2> QED BY <2>2, <2>3, <2>4, <2>5, <2>6, <2>7, KnownDialog
  <1> QED BY <1>3, <1>4, <1>5

\* An answer shows its dialog what it asked for, or ends it.
LEMMA KnownAnswered ==
    ASSUME Known, NEW k \in Tasks, Answer(k)
    PROVE  /\ Known' /\ k \in Busy /\ Busy' = Busy \ {k}
           /\ \A j \in Busy' : task'[j] = task[j]
  <1>1. k \in Busy /\ task[k] \in Requests /\ TaskTrue(k) /\ task[k].pc \in {"answer", "failed"}
    BY BusyRequests DEF Answer, Known
  <1>2. Finish(k) /\ UNCHANGED <<rows, cut, sent>> /\ UNCHANGED <<events, faults, careful>>
    BY DEF Answer
  <1>6. missed' \subseteq Tabs \X Listings
    BY <1>1 DEF Answer, Known, ClientsTypeOK, TaskTrue
  <1>3. Busy' = Busy \ {k} /\ \A j \in Busy' : task'[j] = task[j]
    BY <1>2, Left DEF Known
  <1>4. CASE task[k].kind \notin Asking
    <2>1. dialog' = dialog
      BY <1>4 DEF Answer, Asking
    <2>2. /\ dialog' \in [Tabs -> Dialogs] /\ \A t \in Tabs : DialogTrue(t)'
          /\ task[k].kind # "own"
      BY <1>2, <1>4, <2>1 DEF Known, ClientsTypeOK, DialogTrue, rows, Asking
    <2> QED BY <1>1, <1>2, <1>3, <1>6, <2>1, <2>2, KnownAnswer
  <1>5. CASE task[k].kind \in Asking
    <2>1. PICK t \in Tabs, url \in 0..Len(link) :
            /\ t = task[k].tab
            /\ dialog' = [dialog EXCEPT ![t] =
                 IF task[k].kind = "own" THEN [dialog[t] EXCEPT !.pc = "share", !.final = url]
                 ELSE IF dialog[t].pc = "open" THEN [dialog[t] EXCEPT !.url = url] ELSE dialog[t]]
      <3>1. PICK t, url : t = task[k].tab /\ url = IF task[k].pc = "failed" THEN 0 ELSE task[k].link
        OBVIOUS
      <3>2. t \in Tabs /\ url \in 0..Len(link)
        BY <1>1, <1>5, <3>1 DEF TaskTrue, Known, ClientsTypeOK
      <3>3. CASE task[k].kind = "own"
        <4>1. dialog' = [dialog EXCEPT ![t].pc = "share", ![t].final = url]
          BY <3>1, <3>3 DEF Answer
        <4>2. dialog' = [dialog EXCEPT ![t] = [dialog[t] EXCEPT !.pc = "share", !.final = url]]
          BY <3>2, <4>1 DEF Known, ClientsTypeOK
        <4> QED BY <3>1, <3>2, <3>3, <4>2
      <3>4. CASE task[k].kind = "link"
        <4>1. dialog' = Show(t, url)
          BY <3>1, <3>4 DEF Answer
        <4>2. dialog = [dialog EXCEPT ![t] = dialog[t]]
          BY <3>2 DEF Known, ClientsTypeOK
        <4>3. CASE dialog[t].pc = "open"
          BY <3>1, <3>2, <3>4, <4>1, <4>3 DEF Show
        <4>4. CASE dialog[t].pc # "open"
          BY <3>1, <3>2, <3>4, <4>1, <4>2, <4>4 DEF Show
        <4> QED BY <4>3, <4>4
      <3> QED BY <1>5, <3>3, <3>4 DEF Asking
    <2>8. PICK d :
            /\ d = IF task[k].kind = "own" THEN [dialog[t] EXCEPT !.pc = "share", !.final = url]
                   ELSE IF dialog[t].pc = "open" THEN [dialog[t] EXCEPT !.url = url] ELSE dialog[t]
            /\ dialog' = [dialog EXCEPT ![t] = d]
      BY <2>1
    <2>2. dialog[t] \in Dialogs /\ DialogTrue(t) /\ url \in 0..MaxLinks
      BY ClientsAssumption DEF Known, ClientsTypeOK, ClientsAssumption
    <2>3. task[k].kind = "own" => dialog[t].pc = "link"
      BY <1>1, <2>1 DEF TaskTrue
    <2>4. /\ d \in Dialogs /\ d.phone = dialog[t].phone /\ d.url \in 0..Len(link)
          /\ d.final \in 0..Len(link) /\ d.due = dialog[t].due
          /\ d.rest = dialog[t].rest
          /\ d.pc = IF task[k].kind = "own" THEN "share" ELSE dialog[t].pc
      BY <2>2, <2>8 DEF Dialogs, DialogTrue
    <2>5. dialog' \in [Tabs -> Dialogs] /\ \A s \in Tabs : dialog'[s] = IF s = t THEN d ELSE dialog[s]
      BY <2>4, <2>8 DEF Known, ClientsTypeOK
    <2>6. \A s \in Tabs : DialogTrue(s)'
      BY <1>2, <2>2, <2>3, <2>4, <2>5 DEF Known, DialogTrue, rows
    <2>7. \A s \in Tabs : dialog'[s].pc = "link" <=>
                          dialog[s].pc = "link" /\ ~(task[k].kind = "own" /\ task[k].tab = s)
      BY <2>1, <2>4, <2>5
    <2>9. \A s \in Tabs : dialog'[s].phone = dialog[s].phone /\ (dialog[s].pc = "share" => dialog'[s].pc = "share")
      BY <2>4, <2>5
    <2> QED BY <1>1, <1>2, <1>3, <1>6, <2>5, <2>6, <2>7, <2>9, KnownAnswer
  <1> QED BY <1>4, <1>5

-----------------------------------------------------------------------------
(* The links *)

\* Requests that neither delete links nor make them leave the ones that do so
\* alone, or their failures are remembered.
LEMMA KeptByOthers ==
    ASSUME LinkKept, UNCHANGED <<link, live>>, cut \subseteq cut',
           \A k \in Busy : task[k].pc = "make" =>
               \/ k \in Busy' /\ task'[k].pc = "make" /\ task'[k].client = task[k].client
               \/ task[k].client \in cut'
    PROVE  LinkKept'
  <1> SUFFICES ASSUME NEW i \in 1..Len(link), i \notin live PROVE Replaced(i)'
    BY DEF LinkKept
  <1>1. Replaced(i)
    BY DEF LinkKept
  <1> QED BY <1>1 DEF Replaced, LinksOf

\* The deletion of a client's links leaves a request about to make one.
LEMMA KeptByDrop ==
    ASSUME Known, LinkKept, NEW k \in Tasks, DropLinks(k)
    PROVE  LinkKept'
  <1>1. /\ Busy' = Busy /\ k \in Busy /\ task'[k].pc = "make" /\ task'[k].client = task[k].client
        /\ \A j \in Busy \ {k} : task'[j] = task[j]
    BY KnownDrop
  <1>2. /\ task[k].pc = "drop" /\ live' = live \ LinksOf(task[k].client)
        /\ link' = link /\ cut' = cut
    BY DEF DropLinks, past
  <1> SUFFICES ASSUME NEW i \in 1..Len(link), i \notin live' PROVE Replaced(i)'
    BY <1>2 DEF LinkKept
  <1>3. CASE i \in live
    BY <1>1, <1>2, <1>3 DEF Replaced, LinksOf
  <1>4. CASE i \notin live
    BY <1>1, <1>2, <1>4 DEF LinkKept, Replaced, LinksOf
  <1> QED BY <1>3, <1>4

\* A link made replaces those of its client that are gone.
LEMMA KeptByMake ==
    ASSUME Known, LinkKept, NEW k \in Tasks, MakeLink(k)
    PROVE  LinkKept'
  <1>1. /\ Busy' = Busy /\ k \in Busy
        /\ \A j \in Busy \ {k} : task'[j] = task[j]
        /\ Len(link') = Len(link) + 1 /\ link'[Len(link) + 1] = task[k].client
        /\ \A i \in 1..Len(link) : link'[i] = link[i]
    BY KnownMake
  <1>2. live' = live \cup {Len(link) + 1} /\ cut' = cut \ {task[k].client}
    BY DEF MakeLink
  <1>3. Len(link) \in Nat
    BY DEF Known, ClientsTypeOK
  <1> SUFFICES ASSUME NEW i \in 1..Len(link'), i \notin live' PROVE Replaced(i)'
    BY DEF LinkKept
  <1>4. i \in 1..Len(link) /\ i \notin live /\ link'[i] = link[i]
    BY <1>1, <1>2, <1>3
  <1>5. CASE link[i] = task[k].client
    <2>1. Len(link) + 1 \in 1..Len(link') /\ link'[Len(link) + 1] = link'[i] /\ Len(link) + 1 > i
      BY <1>1, <1>3, <1>4, <1>5
    <2> QED BY <2>1 DEF Replaced, LinksOf
  <1>6. CASE link[i] # task[k].client
    <2>1. CASE \E j \in LinksOf(link[i]) : j > i
      <3>1. PICK j \in 1..Len(link) : link[j] = link[i] /\ j > i
        BY <2>1 DEF LinksOf
      <3>2. j \in 1..Len(link') /\ link'[j] = link'[i]
        BY <1>1, <1>3, <1>4, <3>1
      <3> QED BY <3>1, <3>2 DEF Replaced, LinksOf
    <2>2. CASE \E j \in Busy : task[j].pc = "make" /\ task[j].client = link[i]
      BY <1>1, <1>4, <1>6, <2>2 DEF Replaced
    <2>3. CASE link[i] \in cut
      BY <1>2, <1>4, <1>6, <2>3 DEF Replaced
    <2> QED BY <1>4, <2>1, <2>2, <2>3 DEF LinkKept, Replaced
  <1> QED BY <1>5, <1>6

\* A new link that a failure prevents is remembered.
LEMMA KeptByFail ==
    ASSUME Known, LinkKept, NEW K \in SUBSET Busy, Fail(K)
    PROVE  LinkKept'
  <1>1. \A k \in Busy \ K : k \in Busy' /\ task'[k] = task[k]
    BY KnownFail
  <1>2. /\ UNCHANGED <<link, live>>
        /\ cut' = cut \cup {task[k].client : k \in {h \in K : task[h].pc = "make"}}
    BY DEF Fail, rows
  <1>3. ASSUME NEW k \in Busy, task[k].pc = "make"
        PROVE  \/ k \in Busy' /\ task'[k].pc = "make" /\ task'[k].client = task[k].client
               \/ task[k].client \in cut'
    <2>1. CASE k \in K
      BY <1>2, <1>3, <2>1
    <2>2. CASE k \notin K
      BY <1>1, <1>3, <2>2
    <2> QED BY <2>1, <2>2
  <1>4. cut \subseteq cut'
    BY <1>2
  <1> QED BY <1>2, <1>3, <1>4, KeptByOthers

-----------------------------------------------------------------------------
(* What a message shows *)

\* Rows stay what they were, but for those of listings deleted.
RowsStay ==
    /\ Ids \subseteq Ids' /\ \A c \in Ids : client'[c] = client[c]
    /\ \A i \in 1..Len(link) : link'[i] = link[i]
    /\ listed' \subseteq listed /\ missed \subseteq missed'
    /\ \A r \in lead : r \in lead' \/ r[2] \notin listed'

\* A number's only client was the only one before.
LEMMA OnlyBefore ==
    ASSUME Known, RowsStay, NEW p, NEW c \in Ids, {d \in Ids' : client'[d] = p} = {c}
    PROVE  {d \in Ids : client[d] = p} = {c}
  BY DEF RowsStay

\* The links of dialogs and messages are rows, of clients that are.
LEMMA LinkRows == Known => \A i \in 1..Len(link) : link[i] \in Ids /\ client[link[i]] \in Phones
  BY DEF Known, ClientsTypeOK, Ids

\* What was sent stays true.
LEMMA SentStays ==
    ASSUME Known, SentShows, RowsStay, sent' = sent
    PROVE  SentShows'
  <1> SUFFICES ASSUME NEW m \in sent, WithPhone(m.phone)' = {link'[m.link]}, NEW l \in listed'
               PROVE  <<m.tab, l>> \in missed' \/ <<link'[m.link], l>> \in lead'
    BY DEF SentShows
  <1>1. m.link \in 1..Len(link) /\ link[m.link] \in Ids
    BY LinkRows DEF Known, ClientsTypeOK, Messages
  <1>2. link'[m.link] = link[m.link] /\ l \in listed
    BY <1>1 DEF RowsStay
  <1>3. WithPhone(m.phone) = {link[m.link]}
    BY <1>1, <1>2, OnlyBefore DEF WithPhone
  <1>4. <<m.tab, l>> \in missed \/ <<link[m.link], l>> \in lead
    BY <1>2, <1>3 DEF SentShows
  <1> QED BY <1>2, <1>4 DEF RowsStay

\* A listing stays shared while its request goes on, links it or fails.
LEMMA SharedStays ==
    ASSUME RowsStay, NEW t \in Tabs, NEW l \in Listings, Shared(t, l), dialog[t].final \in 1..Len(link),
           dialog'[t].final = dialog[t].final,
           l \in dialog[t].rest => l \in dialog'[t].rest,
           \A j \in Busy :
               task[j].kind = "share" /\ task[j].tab = t /\ task[j].listing = l /\ task[j].pc # "answer" =>
                   \/ /\ j \in Busy' /\ task'[j].kind = "share" /\ task'[j].tab = t /\ task'[j].listing = l
                      /\ task'[j].pc # "answer"
                   \/ <<t, l>> \in missed' \/ <<link[dialog[t].final], l>> \in lead'
    PROVE  Shared(t, l)'
  <1>1. link'[dialog'[t].final] = link[dialog[t].final]
    BY DEF RowsStay
  <1>2. <<link[dialog[t].final], l>> \in lead => <<link[dialog[t].final], l>> \in lead' \/ l \notin listed'
    BY DEF RowsStay
  <1>3. (l \notin listed => l \notin listed') /\ (<<t, l>> \in missed => <<t, l>> \in missed')
    BY DEF RowsStay
  <1> QED BY <1>1, <1>2, <1>3 DEF Shared

\* A step shows what it must, if each dialog that goes on sharing does.
LEMMA ShowsStep ==
    ASSUME Known, Shows, RowsStay, SentShows',
           \A t \in Tabs : dialog'[t].pc = "share" =>
               \/ dialog'[t].rest = Listings
               \/ /\ dialog[t].pc = "share"
                  /\ dialog'[t].phone = dialog[t].phone /\ dialog'[t].final = dialog[t].final
                  /\ Sole(t) => \A l \in Listings : Shared(t, l)'
    PROVE  Shows'
  <1> SUFFICES ASSUME NEW t \in Tabs, Sole(t)', NEW l \in Listings PROVE Shared(t, l)'
    BY DEF Shows
  <1>1. CASE dialog'[t].rest = Listings
    BY <1>1 DEF Shared
  <1>2. CASE /\ dialog[t].pc = "share"
             /\ dialog'[t].phone = dialog[t].phone /\ dialog'[t].final = dialog[t].final
             /\ Sole(t) => \A m \in Listings : Shared(t, m)'
    <2>1. dialog[t].final \in 1..Len(link)
      BY <1>2 DEF Sole, Known, DialogTrue
    <2>2. link'[dialog[t].final] = link[dialog[t].final] /\ link[dialog[t].final] \in Ids
      BY <2>1, LinkRows DEF RowsStay
    <2>3. {d \in Ids' : client'[d] = dialog[t].phone} = {link[dialog[t].final]}
      BY <1>2, <2>2 DEF Sole, WithPhone
    <2>4. PICK p : p = dialog[t].phone
      OBVIOUS
    <2>5. {d \in Ids : client[d] = p} = {link[dialog[t].final]}
      BY <2>2, <2>3, <2>4, OnlyBefore
    <2>6. Sole(t)
      BY <1>2, <2>1, <2>4, <2>5 DEF Sole, WithPhone
    <2> QED BY <1>2, <2>6
  <1> QED BY <1>1, <1>2 DEF Sole

\* A step that ends no request that shares, and no sharing.
LEMMA ShowsOn ==
    ASSUME Known, Shows, RowsStay, sent' = sent,
           \A t \in Tabs : dialog'[t].pc = "share" =>
               \/ dialog'[t].rest = Listings
               \/ /\ dialog[t].pc = "share" /\ dialog'[t].phone = dialog[t].phone
                  /\ dialog'[t].final = dialog[t].final /\ dialog'[t].rest = dialog[t].rest,
           \A j \in Busy : task[j].kind = "share" /\ task[j].pc # "answer" =>
               /\ j \in Busy' /\ task'[j].kind = "share" /\ task'[j].tab = task[j].tab
               /\ task'[j].listing = task[j].listing /\ task'[j].pc # "answer"
    PROVE  Shows'
  <1>1. SentShows'
    BY SentStays DEF Shows
  <1>2. ASSUME NEW t \in Tabs, Sole(t), NEW l \in Listings,
               dialog'[t].final = dialog[t].final, dialog'[t].rest = dialog[t].rest
        PROVE  Shared(t, l)'
    <2>1. Shared(t, l) /\ dialog[t].final \in 1..Len(link)
      BY <1>2 DEF Shows, Sole, Known, DialogTrue
    <2> QED BY <1>2, <2>1, SharedStays
  <1>3. ASSUME NEW t \in Tabs, dialog'[t].pc = "share"
        PROVE  \/ dialog'[t].rest = Listings
               \/ /\ dialog[t].pc = "share"
                  /\ dialog'[t].phone = dialog[t].phone /\ dialog'[t].final = dialog[t].final
                  /\ Sole(t) => \A l \in Listings : Shared(t, l)'
    BY <1>2, <1>3
  <1> QED BY <1>1, <1>3, ShowsStep

-----------------------------------------------------------------------------
(* The steps of the dialogs *)

\* What holds beside the tables and their links.
Promise ==
    /\ Shows
    /\ careful => Steady
    /\ careful /\ faults = 0 => Prudent

\* Rows left alone stay.
LEMMA RowsSame ==
    ASSUME UNCHANGED <<listed, client, lead, link>>, missed \subseteq missed'
    PROVE  RowsStay
  BY DEF RowsStay, Ids

\* The links dialogs have, while brokers wait.
LEMMA SteadyLinks ==
    ASSUME Known, Steady, NEW t \in Tabs
    PROVE  /\ dialog[t].url # 0 => dialog[t].url \in 1..Len(link) /\ client[link[dialog[t].url]] = dialog[t].phone
           /\ dialog[t].pc = "share" /\ dialog[t].final # 0 =>
                dialog[t].final \in 1..Len(link) /\ client[link[dialog[t].final]] = dialog[t].phone
  <1>1. DialogTrue(t) /\ DialogSteady(t) /\ Len(link) \in Nat
    BY DEF Known, ClientsTypeOK, Steady
  <1> QED BY <1>1 DEF DialogTrue, DialogSteady

\* What was sent stays the receiver's.
LEMMA SentSteadyStays ==
    ASSUME Known, SentSteady, RowsStay, sent' = sent
    PROVE  SentSteady'
  <1> SUFFICES ASSUME NEW m \in sent PROVE client'[link'[m.link]] = m.phone /\ m.to = Dial(m.phone)
    BY DEF SentSteady, Dial
  <1>1. m.link \in 1..Len(link) /\ link[m.link] \in Ids
    BY LinkRows DEF Known, ClientsTypeOK, Messages
  <1>2. client[link[m.link]] = m.phone /\ m.to = Dial(m.phone)
    BY DEF SentSteady
  <1>3. link'[m.link] = link[m.link] /\ client'[link[m.link]] = client[link[m.link]]
    BY <1>1 DEF RowsStay
  <1> QED BY <1>2, <1>3

\* Nobody retypes a number, and the links dialogs have are the numbers'.
LEMMA SteadyStep ==
    ASSUME Known, Steady, RowsStay, SentSteady',
           \A k \in Busy' : task'[k].tab \in Tabs =>
               \/ task'[k].phone = dialog'[task'[k].tab].phone
               \/ k \in Busy /\ task'[k].tab = task[k].tab /\ task'[k].phone = task[k].phone,
           \A t \in Tabs :
               /\ dialog'[t].phone = dialog[t].phone
               /\ dialog'[t].url # 0 =>
                    dialog'[t].url \in 1..Len(link) /\ client[link[dialog'[t].url]] = dialog[t].phone
               /\ dialog'[t].pc = "share" /\ dialog'[t].final # 0 =>
                    dialog'[t].final \in 1..Len(link) /\ client[link[dialog'[t].final]] = dialog[t].phone
    PROVE  Steady'
  <1>1. ASSUME NEW i \in 1..Len(link) PROVE client'[link'[i]] = client[link[i]]
    <2>1. link[i] \in Ids
      BY LinkRows
    <2> QED BY <2>1 DEF RowsStay
  <1>2. ASSUME NEW k \in Busy' PROVE TaskSteady(k)'
    <2>1. k \in Busy => TaskSteady(k)
      BY DEF Steady
    <2> QED BY <2>1 DEF TaskSteady
  <1>3. ASSUME NEW t \in Tabs PROVE DialogSteady(t)'
    BY <1>1 DEF DialogSteady
  <1> QED BY <1>2, <1>3 DEF Steady

\* Requests go on, without a failure or a client to create that was not there.
LEMMA PrudentOld ==
    ASSUME Prudent, client' = client, Busy' \subseteq Busy,
           \A k \in Busy' :
               /\ task'[k].kind = task[k].kind
               /\ task'[k].pc = "failed" => task[k].pc = "failed" \/ task[k].kind = "share"
               /\ task'[k].pc = "create" => task[k].pc = "create" /\ task'[k].phone = task[k].phone,
           \A t \in Tabs : dialog'[t].pc = "share" => dialog'[t].final # 0
    PROVE  Prudent'
  <1>1. OneAtWork' /\ Unique'
    BY DEF Prudent, OneAtWork, Unique, Ids
  <1>2. ASSUME NEW k \in Busy' PROVE TaskPrudent(k)'
    <2>1. TaskPrudent(k)
      BY DEF Prudent
    <2> QED BY <2>1 DEF TaskPrudent, WithPhone, Ids
  <1> QED BY <1>1, <1>2 DEF Prudent

\* One starts, alone or to share.
LEMMA PrudentNew ==
    ASSUME Prudent, client' = client,
           NEW n \in Tasks, n \notin Busy, Busy' = Busy \cup {n}, \A k \in Busy : task'[k] = task[k],
           task'[n].kind = "share" \/ Busy = {},
           task'[n].pc \notin {"failed", "create"},
           \A t \in Tabs : dialog'[t].pc = "share" => dialog'[t].final # 0
    PROVE  Prudent'
  <1>1. OneAtWork' /\ Unique'
    BY DEF Prudent, OneAtWork, Unique, Ids
  <1>2. ASSUME NEW k \in Busy' PROVE TaskPrudent(k)'
    <2>1. CASE k = n
      BY <2>1 DEF TaskPrudent
    <2>2. CASE k # n
      <3>1. TaskPrudent(k) /\ task'[k] = task[k]
        BY <2>2 DEF Prudent
      <3> QED BY <3>1 DEF TaskPrudent, WithPhone, Ids
    <2> QED BY <2>1, <2>2
  <1> QED BY <1>1, <1>2 DEF Prudent

\* Typing, in the dialog; and if brokers wait, for the first time or again what is there.
LEMMA PromiseType ==
    ASSUME Known, Promise, NEW t \in Tabs, NEW p \in Phones \cup {NoOne}, Type(t, p)
    PROVE  Promise'
  <1>1. /\ UNCHANGED <<listed, client, lead, link, task, missed, sent>> /\ UNCHANGED <<faults, careful>>
        /\ dialog[t].pc = "open" /\ (careful => Busy = {} /\ dialog[t].phone \in {NoOne, p})
        /\ dialog' = [dialog EXCEPT ![t].phone = p, ![t].due = p # NoOne, ![t].url = IF p = NoOne THEN 0 ELSE @]
    BY DEF Type, rows, past
  <1>2. /\ \A s \in Tabs \ {t} : dialog'[s] = dialog[s]
        /\ dialog'[t].phone = p /\ dialog'[t].pc = "open"
        /\ dialog'[t].url = IF p = NoOne THEN 0 ELSE dialog[t].url
    BY <1>1 DEF Known, ClientsTypeOK, Dialogs
  <1>3. RowsStay /\ Busy' = Busy
    BY <1>1, RowsSame DEF Busy
  <1>4. Shows'
    BY <1>1, <1>2, <1>3, ShowsOn DEF Promise
  <1>5. ASSUME careful PROVE Steady'
    <2>1. Steady
      BY <1>5 DEF Promise
    <2>2. SentSteady'
      BY <1>1, <1>3, <2>1, SentSteadyStays DEF Steady
    <2>3. ASSUME NEW s \in Tabs PROVE DialogSteady(s)'
      <3>1. CASE s # t
        BY <1>1, <1>2, <2>1, <3>1 DEF Steady, DialogSteady
      <3>2. CASE s = t
        <4>1. dialog[t].url # 0 => client[link[dialog[t].url]] = dialog[t].phone /\ dialog[t].phone \in Phones
          BY <2>1, SteadyLinks, LinkRows
        <4>2. NoOne \notin Phones
          BY ClientsAssumption DEF ClientsAssumption
        <4>3. dialog[t].url # 0 => dialog[t].phone = p
          BY <1>1, <1>5, <4>1, <4>2
        <4> QED BY <1>1, <1>2, <3>2, <4>1, <4>3 DEF DialogSteady
      <3> QED BY <3>1, <3>2
    <2> QED BY <1>1, <1>3, <1>5, <2>2, <2>3 DEF Steady
  <1>6. ASSUME careful, faults = 0 PROVE Prudent'
    <2>1. Prudent
      BY <1>6 DEF Promise
    <2>2. \A s \in Tabs : dialog'[s].pc = "share" => dialog'[s].final # 0
      BY <1>2, <2>1 DEF Prudent
    <2> QED BY <1>1, <1>3, <2>1, <2>2, PrudentOld
  <1> QED BY <1>1, <1>4, <1>5, <1>6 DEF Promise

\* The button pressed with a link there: nothing is shared yet.
LEMMA PromisePressWithLink ==
    ASSUME Known, Promise, NEW t \in Tabs, PressWithLink(t)
    PROVE  Promise'
  <1>1. /\ UNCHANGED <<listed, client, lead, link, task, missed, sent>> /\ UNCHANGED <<faults, careful>>
        /\ dialog[t].pc = "open" /\ dialog[t].url # 0
        /\ dialog' = [dialog EXCEPT ![t].pc = "share", ![t].final = dialog[t].url]
    BY DEF PressWithLink, rows, past
  <1>2. /\ \A s \in Tabs \ {t} : dialog'[s] = dialog[s]
        /\ dialog'[t].phone = dialog[t].phone /\ dialog'[t].url = dialog[t].url
        /\ dialog'[t].final = dialog[t].url /\ dialog'[t].rest = dialog[t].rest
    BY <1>1 DEF Known, ClientsTypeOK, Dialogs
  <1>3. RowsStay /\ Busy' = Busy
    BY <1>1, RowsSame DEF Busy
  <1>4. Shows'
    <2>1. dialog'[t].rest = Listings
      BY <1>1, <1>2 DEF Known, DialogTrue
    <2> QED BY <1>1, <1>2, <1>3, <2>1, ShowsOn DEF Promise
  <1>5. ASSUME careful PROVE Steady'
    <2>1. Steady
      BY <1>5 DEF Promise
    <2>2. SentSteady'
      BY <1>1, <1>3, <2>1, SentSteadyStays DEF Steady
    <2>3. ASSUME NEW s \in Tabs
          PROVE  /\ dialog'[s].phone = dialog[s].phone
                 /\ dialog'[s].url # 0 =>
                      dialog'[s].url \in 1..Len(link) /\ client[link[dialog'[s].url]] = dialog[s].phone
                 /\ dialog'[s].pc = "share" /\ dialog'[s].final # 0 =>
                      dialog'[s].final \in 1..Len(link) /\ client[link[dialog'[s].final]] = dialog[s].phone
      BY <1>2, <2>1, SteadyLinks
    <2> QED BY <1>1, <1>3, <2>1, <2>2, <2>3, SteadyStep
  <1>6. ASSUME careful, faults = 0 PROVE Prudent'
    <2>1. Prudent
      BY <1>6 DEF Promise
    <2>2. \A s \in Tabs : dialog'[s].pc = "share" => dialog'[s].final # 0
      BY <1>1, <1>2, <2>1 DEF Prudent
    <2> QED BY <1>1, <1>3, <2>1, <2>2, PrudentOld
  <1> QED BY <1>1, <1>4, <1>5, <1>6 DEF Promise

\* A dialog that closes, once WhatsApp has been opened or for nothing: when no
\* listing is left to share and no request shares one, all were shared that could.
LEMMA PromiseClose ==
    ASSUME Known, Promise, NEW t \in Tabs, OpenWhatsApp(t) \/ Cancel(t)
    PROVE  Promise'
  <1>1. /\ UNCHANGED <<listed, client, lead, link, task, missed>> /\ UNCHANGED <<faults, careful>>
        /\ dialog' = [dialog EXCEPT ![t].pc = "closed"]
    BY DEF OpenWhatsApp, Cancel, rows, past
  <1>2. /\ \A s \in Tabs \ {t} : dialog'[s] = dialog[s]
        /\ dialog'[t].phone = dialog[t].phone /\ dialog'[t].url = dialog[t].url /\ dialog'[t].pc = "closed"
    BY <1>1 DEF Known, ClientsTypeOK, Dialogs
  <1>3. RowsStay /\ Busy' = Busy
    BY <1>1, RowsSame DEF Busy
  <1>7. ASSUME NEW m \in sent', m \notin sent
        PROVE  /\ dialog[t].pc = "share" /\ dialog[t].rest = {} /\ dialog[t].final # 0
               /\ m.link = dialog[t].final /\ m.tab = t /\ m.phone = dialog[t].phone
               /\ m.to = Dial(dialog[t].phone)
               /\ \A k \in Busy : ~(task[k].kind = "share" /\ task[k].tab = t)
    <2>1. OpenWhatsApp(t)
      BY <1>7 DEF Cancel, past
    <2>2. m \in Message(t)
      BY <1>7, <2>1 DEF OpenWhatsApp
    <2> QED BY <2>1, <2>2 DEF OpenWhatsApp, Message
  <1>4. Shows'
    <2> SUFFICES ASSUME NEW m \in sent', WithPhone(m.phone)' = {link'[m.link]}, NEW l \in listed'
                 PROVE  <<m.tab, l>> \in missed \/ <<link[m.link], l>> \in lead
      <3>1. ASSUME NEW s \in Tabs, Sole(s)', NEW l \in Listings PROVE Shared(s, l)'
        <4>1. s # t /\ dialog'[s] = dialog[s]
          BY <1>2, <3>1 DEF Sole
        <4>2. Sole(s)
          BY <1>1, <3>1, <4>1 DEF Sole, WithPhone, Ids
        <4>3. Shared(s, l)
          BY <4>2 DEF Promise, Shows
        <4> QED BY <1>1, <1>3, <4>1, <4>3 DEF Shared
      <3> QED BY <1>1, <3>1 DEF Shows, SentShows
    <2>1. WithPhone(m.phone) = {link[m.link]} /\ l \in listed /\ l \in Listings
      BY <1>1 DEF WithPhone, Ids, Known, ClientsTypeOK
    <2>2. CASE m \in sent
      BY <2>1, <2>2 DEF Promise, Shows, SentShows
    <2>3. CASE m \notin sent
      <3>1. Sole(t)
        BY <1>7, <2>1, <2>3 DEF Sole
      <3>2. Shared(t, l)
        BY <2>1, <3>1 DEF Promise, Shows
      <3> QED BY <1>7, <2>1, <2>3, <3>2 DEF Shared
    <2> QED BY <2>2, <2>3
  <1>5. ASSUME careful PROVE Steady'
    <2>1. Steady
      BY <1>5 DEF Promise
    <2>2. ASSUME NEW m \in sent' PROVE client[link[m.link]] = m.phone /\ m.to = Dial(m.phone)
      <3>1. CASE m \in sent
        BY <2>1, <3>1 DEF Steady, SentSteady
      <3>2. CASE m \notin sent
        BY <1>7, <2>1, <3>2, SteadyLinks
      <3> QED BY <3>1, <3>2
    <2>3. SentSteady'
      BY <1>1, <2>2 DEF SentSteady, Dial
    <2>4. ASSUME NEW s \in Tabs
          PROVE  /\ dialog'[s].phone = dialog[s].phone
                 /\ dialog'[s].url # 0 =>
                      dialog'[s].url \in 1..Len(link) /\ client[link[dialog'[s].url]] = dialog[s].phone
                 /\ dialog'[s].pc = "share" /\ dialog'[s].final # 0 =>
                      dialog'[s].final \in 1..Len(link) /\ client[link[dialog'[s].final]] = dialog[s].phone
      BY <1>2, <2>1, SteadyLinks
    <2> QED BY <1>1, <1>3, <2>1, <2>3, <2>4, SteadyStep
  <1>6. ASSUME careful, faults = 0 PROVE Prudent'
    <2>1. Prudent
      BY <1>6 DEF Promise
    <2>2. \A s \in Tabs : dialog'[s].pc = "share" => dialog'[s].final # 0
      BY <1>2, <2>1 DEF Prudent
    <2> QED BY <1>1, <1>3, <2>1, <2>2, PrudentOld
  <1> QED BY <1>1, <1>4, <1>5, <1>6 DEF Promise

-----------------------------------------------------------------------------
(* The requests that start *)

\* A request for a dialog, or a page's, is about the number there; if brokers
\* wait it is the only one, but for those that share.
LEMMA PromiseStart ==
    ASSUME Known, Promise, UNCHANGED <<listed, client, lead, link, missed, sent>>, UNCHANGED <<faults, careful>>,
           NEW k \in Tasks, k \notin Busy, Busy' = Busy \cup {k}, \A j \in Busy : task'[j] = task[j],
           task'[k].pc \in {"check", "find", "drop"},
           task'[k].kind = "share" \/ (careful => Busy = {}),
           task'[k].tab \in Tabs => task'[k].phone = dialog'[task'[k].tab].phone,
           \A t \in Tabs : /\ dialog'[t].phone = dialog[t].phone /\ dialog'[t].url = dialog[t].url
                           /\ dialog'[t].final = dialog[t].final
                           /\ dialog'[t].pc = "share" => dialog[t].pc = "share",
           \A t \in Tabs : dialog'[t].pc = "share" =>
               \A l \in dialog[t].rest \ dialog'[t].rest :
                   task'[k].kind = "share" /\ task'[k].tab = t /\ task'[k].listing = l
    PROVE  Promise'
  <1>1. RowsStay
    BY RowsSame
  <1>2. Shows'
    <2>1. SentShows'
      BY <1>1, SentStays DEF Promise, Shows
    <2>2. ASSUME NEW t \in Tabs, dialog'[t].pc = "share", Sole(t), NEW l \in Listings
          PROVE  Shared(t, l)'
      <3>1. Shared(t, l) /\ dialog[t].final \in 1..Len(link)
        BY <2>2 DEF Promise, Shows, Sole, Known, DialogTrue
      <3>2. CASE l \in dialog[t].rest \ dialog'[t].rest
        BY <2>2, <3>2 DEF Shared
      <3>3. CASE l \in dialog[t].rest => l \in dialog'[t].rest
        <4>1. \A j \in Busy :
              task[j].kind = "share" /\ task[j].tab = t /\ task[j].listing = l /\ task[j].pc # "answer" =>
                  \/ /\ j \in Busy' /\ task'[j].kind = "share" /\ task'[j].tab = t /\ task'[j].listing = l
                     /\ task'[j].pc # "answer"
                  \/ <<t, l>> \in missed' \/ <<link[dialog[t].final], l>> \in lead'
          OBVIOUS
        <4> QED BY <1>1, <3>1, <3>3, <4>1, SharedStays
      <3> QED BY <3>2, <3>3
    <2>3. ASSUME NEW t \in Tabs, dialog'[t].pc = "share"
          PROVE  \/ dialog'[t].rest = Listings
                 \/ /\ dialog[t].pc = "share"
                    /\ dialog'[t].phone = dialog[t].phone /\ dialog'[t].final = dialog[t].final
                    /\ Sole(t) => \A l \in Listings : Shared(t, l)'
      BY <2>2, <2>3
    <2> QED BY <1>1, <2>1, <2>3, ShowsStep DEF Promise
  <1>3. ASSUME careful PROVE Steady'
    <2>1. Steady
      BY <1>3 DEF Promise
    <2>2. SentSteady'
      BY <1>1, <2>1, SentSteadyStays DEF Steady
    <2>3. ASSUME NEW s \in Tabs
          PROVE  /\ dialog'[s].phone = dialog[s].phone
                 /\ dialog'[s].url # 0 =>
                      dialog'[s].url \in 1..Len(link) /\ client[link[dialog'[s].url]] = dialog[s].phone
                 /\ dialog'[s].pc = "share" /\ dialog'[s].final # 0 =>
                      dialog'[s].final \in 1..Len(link) /\ client[link[dialog'[s].final]] = dialog[s].phone
      BY <2>1, SteadyLinks
    <2>4. \A j \in Busy' : task'[j].tab \in Tabs =>
             \/ task'[j].phone = dialog'[task'[j].tab].phone
             \/ j \in Busy /\ task'[j].tab = task[j].tab /\ task'[j].phone = task[j].phone
      OBVIOUS
    <2> QED BY <1>1, <2>1, <2>2, <2>3, <2>4, SteadyStep
  <1>4. ASSUME careful, faults = 0 PROVE Prudent'
    <2>1. Prudent
      BY <1>4 DEF Promise
    <2>2. \A s \in Tabs : dialog'[s].pc = "share" => dialog'[s].final # 0
      BY <2>1 DEF Prudent
    <2> QED BY <1>4, <2>1, <2>2, PrudentNew
  <1> QED BY <1>2, <1>3, <1>4 DEF Promise

\* The timer's.
LEMMA PromiseTimer ==
    ASSUME Known, Promise, NEW t \in Tabs, NEW k \in Tasks, TimerFires(t, k)
    PROVE  Promise'
  <1>1. /\ k \notin Busy /\ Busy' = Busy \cup {k} /\ dialog[t].phone \in Phones
        /\ task'[k] = Request("link", t, dialog[t].phone) /\ \A j \in Busy : task'[j] = task[j]
    BY KnownTimer
  <1>2. task'[k].kind = "link" /\ task'[k].pc = "find" /\ task'[k].tab = t /\ task'[k].phone = dialog[t].phone
    BY <1>1 DEF Request
  <1>3. /\ UNCHANGED <<listed, client, lead, link, missed, sent>> /\ UNCHANGED <<faults, careful>>
        /\ careful => Busy = {}
        /\ dialog' = [dialog EXCEPT ![t].due = FALSE]
    BY DEF TimerFires, Start, rows, past
  <1>4. \A s \in Tabs : /\ dialog'[s].phone = dialog[s].phone /\ dialog'[s].url = dialog[s].url
                        /\ dialog'[s].pc = dialog[s].pc /\ dialog'[s].final = dialog[s].final
                        /\ dialog'[s].rest = dialog[s].rest
    BY <1>3 DEF Known, ClientsTypeOK, Dialogs
  <1>5. task'[k].phone = dialog'[t].phone
    BY <1>2, <1>4
  <1>6. task'[k].tab \in Tabs => task'[k].phone = dialog'[task'[k].tab].phone
    BY <1>2, <1>5
  <1> QED BY <1>1, <1>2, <1>3, <1>4, <1>6, PromiseStart

\* That of the button.
LEMMA PromisePress ==
    ASSUME Known, Promise, NEW t \in Tabs, NEW k \in Tasks, PressWithout(t, k)
    PROVE  Promise'
  <1>1. /\ k \notin Busy /\ Busy' = Busy \cup {k} /\ dialog[t].phone \in Phones
        /\ task'[k] = Request("own", t, dialog[t].phone) /\ \A j \in Busy : task'[j] = task[j]
    BY KnownPress
  <1>2. task'[k].kind = "own" /\ task'[k].pc = "find" /\ task'[k].tab = t /\ task'[k].phone = dialog[t].phone
    BY <1>1 DEF Request
  <1>3. /\ UNCHANGED <<listed, client, lead, link, missed, sent>> /\ UNCHANGED <<faults, careful>>
        /\ careful => Busy = {}
        /\ dialog' = [dialog EXCEPT ![t].pc = "link"]
    BY DEF PressWithout, Start, rows, past
  <1>4. \A s \in Tabs : /\ dialog'[s].phone = dialog[s].phone /\ dialog'[s].url = dialog[s].url
                        /\ dialog'[s].pc = (IF s = t THEN "link" ELSE dialog[s].pc)
                        /\ dialog'[s].final = dialog[s].final /\ dialog'[s].rest = dialog[s].rest
    BY <1>3 DEF Known, ClientsTypeOK, Dialogs
  <1>5. task'[k].phone = dialog'[t].phone
    BY <1>2, <1>4
  <1>6. task'[k].tab \in Tabs => task'[k].phone = dialog'[task'[k].tab].phone
    BY <1>2, <1>5
  <1> QED BY <1>1, <1>2, <1>3, <1>4, <1>6, PromiseStart

\* The listing taken off the rest is on its way.
LEMMA PromiseShare ==
    ASSUME Known, Promise, NEW t \in Tabs, NEW k \in Tasks, NEW l \in Listings, ShareListing(t, k, l)
    PROVE  Promise'
  <1>1. /\ k \notin Busy /\ Busy' = Busy \cup {k}
        /\ task'[k] = [Request("share", t, dialog[t].phone) EXCEPT !.pc = "check", !.listing = l]
        /\ \A j \in Busy : task'[j] = task[j]
    BY KnownShare
  <1>2. /\ task'[k].kind = "share" /\ task'[k].pc = "check" /\ task'[k].tab = t /\ task'[k].listing = l
        /\ task'[k].phone = dialog[t].phone
    BY <1>1 DEF Request
  <1>3. /\ UNCHANGED <<listed, client, lead, link, missed, sent>> /\ UNCHANGED <<faults, careful>>
        /\ dialog' = [dialog EXCEPT ![t].rest = @ \ {l}]
    BY DEF ShareListing, rows, past
  <1>4. \A s \in Tabs : /\ dialog'[s].phone = dialog[s].phone /\ dialog'[s].url = dialog[s].url
                        /\ dialog'[s].pc = dialog[s].pc /\ dialog'[s].final = dialog[s].final
                        /\ dialog'[s].rest = (IF s = t THEN dialog[s].rest \ {l} ELSE dialog[s].rest)
    BY <1>3 DEF Known, ClientsTypeOK, Dialogs
  <1>5. task'[k].phone = dialog'[t].phone
    BY <1>2, <1>4
  <1>6. task'[k].tab \in Tabs => task'[k].phone = dialog'[task'[k].tab].phone
    BY <1>2, <1>5
  <1>7. \A s \in Tabs : \A m \in dialog[s].rest \ dialog'[s].rest : s = t /\ m = l
    BY <1>4
  <1> QED BY <1>1, <1>2, <1>3, <1>4, <1>6, <1>7, PromiseStart

\* Those of the clients' pages.
LEMMA PromisePage ==
    ASSUME Known, Promise, NEW k \in Tasks,
           \/ \E p \in Phones : AddClient(k, p)
           \/ \E c \in Ids : FreshLink(k, c)
    PROVE  Promise'
  <1>1. /\ Known' /\ k \notin Busy /\ Busy' = Busy \cup {k}
        /\ task'[k].kind \in {"add", "fresh"} /\ task'[k].pc \in {"find", "drop"}
        /\ \A j \in Busy : task'[j] = task[j]
        /\ UNCHANGED <<rows, past, dialog>> /\ UNCHANGED <<faults, careful>>
        /\ careful => Busy = {}
    BY KnownPage
  <1>2. task'[k].tab \notin Tabs
    <2>1. k \in Busy' /\ TaskTrue(k)'
      BY <1>1 DEF Known
    <2> QED BY <1>1, <2>1 DEF TaskTrue, Asking
  <1>3. UNCHANGED <<listed, client, lead, link, missed, sent, dialog>>
    BY <1>1 DEF rows, past
  <1>4. \A t \in Tabs : dialog[t].rest \ dialog'[t].rest = {}
    BY <1>3
  <1> QED BY <1>1, <1>2, <1>3, <1>4, PromiseStart

-----------------------------------------------------------------------------
(* The steps of the requests *)

\* A request that goes on, the dialogs as they were and the rows staying.
LEMMA PromiseOn ==
    ASSUME Known, Promise, RowsStay, UNCHANGED <<sent, dialog>>, UNCHANGED <<faults, careful>>,
           NEW k \in Busy, Busy' = Busy, \A j \in Busy \ {k} : task'[j] = task[j],
           task'[k].kind = task[k].kind, task'[k].tab = task[k].tab, task'[k].phone = task[k].phone,
           \/ task[k].kind # "share"
           \/ task'[k].listing = task[k].listing /\ (task'[k].pc = "answer" => task[k].pc = "answer"),
           careful /\ faults = 0 => Prudent'
    PROVE  Promise'
  <1>1. Shows'
    BY ShowsOn DEF Promise
  <1>2. ASSUME careful PROVE Steady'
    <2>1. Steady
      BY <1>2 DEF Promise
    <2>2. SentSteady'
      BY <2>1, SentSteadyStays DEF Steady
    <2>3. \A j \in Busy' : j \in Busy /\ task'[j].tab = task[j].tab /\ task'[j].phone = task[j].phone
      OBVIOUS
    <2>4. ASSUME NEW s \in Tabs
          PROVE  /\ dialog'[s].phone = dialog[s].phone
                 /\ dialog'[s].url # 0 =>
                      dialog'[s].url \in 1..Len(link) /\ client[link[dialog'[s].url]] = dialog[s].phone
                 /\ dialog'[s].pc = "share" /\ dialog'[s].final # 0 =>
                      dialog'[s].final \in 1..Len(link) /\ client[link[dialog'[s].final]] = dialog[s].phone
      BY <2>1, SteadyLinks
    <2> QED BY <2>1, <2>2, <2>3, <2>4, SteadyStep
  <1> QED BY <1>1, <1>2 DEF Promise

\* Is the listing there?
LEMMA PromiseCheck ==
    ASSUME Known, Promise, NEW k \in Tasks, CheckListing(k)
    PROVE  Promise'
  <1>1. /\ Busy' = Busy /\ k \in Busy /\ task[k].kind = "share"
        /\ task'[k].pc \in {"find", "failed"} /\ task'[k].phone = task[k].phone
        /\ task'[k].kind = task[k].kind /\ task'[k].tab = task[k].tab /\ task'[k].listing = task[k].listing
        /\ \A j \in Busy \ {k} : task'[j] = task[j]
        /\ UNCHANGED <<rows, dialog, past>>
    BY KnownCheck
  <1>2. UNCHANGED <<listed, client, lead, link, missed, sent, dialog>> /\ UNCHANGED <<faults, careful>>
    BY <1>1 DEF CheckListing, rows, past
  <1>3. RowsStay
    BY <1>2, RowsSame
  <1>4. ASSUME careful, faults = 0 PROVE Prudent'
    BY <1>1, <1>2, <1>4, PrudentOld DEF Promise, Prudent
  <1> QED BY <1>1, <1>2, <1>3, <1>4, PromiseOn

\* A dialog that shares has a client for the number, the one of its link.
LEMMA SharesKnown ==
    ASSUME Known, Steady, Prudent, NEW k \in Busy, task[k].kind = "share"
    PROVE  WithPhone(task[k].phone) # {}
  <1>1. PICK t \in Tabs : t = task[k].tab /\ dialog[t].pc = "share" /\ task[k].phone = dialog[t].phone
    BY DEF Known, TaskTrue
  <1>2. dialog[t].final \in 1..Len(link) /\ client[link[dialog[t].final]] = dialog[t].phone
    BY <1>1, SteadyLinks DEF Prudent
  <1>3. link[dialog[t].final] \in Ids
    BY <1>2, LinkRows
  <1> QED BY <1>1, <1>2, <1>3 DEF WithPhone

\* Is the client there?
LEMMA PromiseFind ==
    ASSUME Known, Promise, NEW k \in Tasks, FindClient(k)
    PROVE  Promise'
  <1>1. /\ Busy' = Busy /\ k \in Busy
        /\ task'[k].phone = task[k].phone /\ task'[k].listing = task[k].listing
        /\ task'[k].kind = task[k].kind /\ task'[k].tab = task[k].tab
        /\ \/ WithPhone(task[k].phone) = {} /\ task'[k].pc = "create"
           \/ WithPhone(task[k].phone) # {} /\ task'[k].pc = AfterFound(task[k].kind)
        /\ \A j \in Busy \ {k} : task'[j] = task[j]
    BY KnownFind
  <1>2. UNCHANGED <<listed, client, lead, link, missed, sent, dialog>> /\ UNCHANGED <<faults, careful>>
    BY DEF FindClient, rows, past
  <1>3. RowsStay
    BY <1>2, RowsSame
  <1>4. task[k].kind = "share" => task'[k].pc # "answer"
    BY <1>1 DEF AfterFound
  <1>5. ASSUME careful, faults = 0 PROVE Prudent'
    <2>1. Prudent /\ Steady
      BY <1>5 DEF Promise
    <2>2. OneAtWork' /\ Unique'
      BY <1>1, <1>2, <2>1 DEF Prudent, OneAtWork, Unique, Ids
    <2>3. ASSUME NEW j \in Busy PROVE TaskPrudent(j)'
      <3>1. TaskPrudent(j)
        BY <2>1 DEF Prudent
      <3>2. CASE j # k
        BY <1>1, <1>2, <3>1, <3>2 DEF TaskPrudent, WithPhone, Ids
      <3>3. CASE j = k
        <4>1. task'[k].pc # "failed"
          BY <1>1 DEF AfterFound
        <4>2. task'[k].pc = "create" => WithPhone(task[k].phone) = {}
          BY <1>1 DEF AfterFound
        <4>3. WithPhone(task[k].phone)' = WithPhone(task[k].phone)
          BY <1>1, <1>2 DEF WithPhone, Ids
        <4>4. task'[k].pc = "create" => task[k].kind # "share"
          BY <1>1, <2>1, <4>2, SharesKnown
        <4> QED BY <1>1, <3>3, <4>1, <4>2, <4>3, <4>4 DEF TaskPrudent
      <3> QED BY <3>2, <3>3
    <2> QED BY <1>1, <1>2, <2>1, <2>2, <2>3 DEF Prudent
  <1> QED BY <1>1, <1>2, <1>3, <1>4, <1>5, PromiseOn

\* If brokers wait, a client is created by the only request at work, for a
\* number without one.
LEMMA PromiseCreate ==
    ASSUME Known, Promise, NEW k \in Tasks, CreateClient(k)
    PROVE  Promise'
  <1>1. /\ Len(client') = Len(client) + 1 /\ client'[Len(client) + 1] = task[k].phone
        /\ \A c \in Ids : client'[c] = client[c]
    BY KnownCreate
  <1>2. k \in Busy /\ task[k] \in Requests /\ task[k].pc = "create" /\ Len(client) \in Nat
    BY BusyRequests DEF CreateClient, Known, ClientsTypeOK
  <1>3. UNCHANGED <<listed, lead, link, missed, sent, dialog>> /\ UNCHANGED <<faults, careful>>
    BY DEF CreateClient, past
  <1>4. /\ Busy' = Busy /\ task'[k].kind = task[k].kind /\ task'[k].tab = task[k].tab
        /\ task'[k].phone = task[k].phone /\ task'[k].listing = task[k].listing
        /\ task'[k].pc = AfterFound(task[k].kind)
        /\ \A j \in Busy \ {k} : task'[j] = task[j]
    <2>1. AfterFound(task[k].kind) \in Steps /\ Len(client) + 1 \in 0..MaxClients /\ task[k].link \in 0..MaxLinks
      BY <1>2, ClientsAssumption DEF AfterFound, Steps, Requests, CreateClient, ClientsAssumption
    <2>2. task' = [task EXCEPT ![k] = [task[k] EXCEPT !.pc = AfterFound(task[k].kind),
                                                      !.client = Len(client) + 1, !.link = task[k].link]]
      BY <1>2 DEF CreateClient, Requests, Known, ClientsTypeOK
    <2> QED BY <1>2, <2>1, <2>2, Further DEF Known
  <1>5. RowsStay
    BY <1>1, <1>2, <1>3 DEF RowsStay, Ids
  <1>6. /\ task'[k].pc \notin {"failed", "create"}
        /\ task[k].kind = "share" => task'[k].pc # "answer"
    BY <1>2, <1>4 DEF AfterFound, Requests
  <1>7. ASSUME careful, faults = 0 PROVE Prudent'
    <2>1. Prudent
      BY <1>7 DEF Promise
    <2>2. task[k].kind # "share" /\ WithPhone(task[k].phone) = {}
      BY <1>2, <2>1 DEF Prudent, TaskPrudent
    <2>3. Unique'
      <3>1. \A c \in Ids : client[c] # task[k].phone
        BY <2>2 DEF WithPhone
      <3> QED BY <1>1, <1>2, <2>1, <3>1 DEF Prudent, Unique, Ids
    <2>4. OneAtWork'
      BY <1>4, <2>1 DEF Prudent, OneAtWork
    <2>5. ASSUME NEW j \in Busy PROVE TaskPrudent(j)'
      <3>1. TaskPrudent(j)
        BY <2>1 DEF Prudent
      <3>2. CASE j = k
        BY <1>6, <3>2 DEF TaskPrudent
      <3>3. CASE j # k
        <4>1. task[j].pc # "create"
          BY <1>2, <2>1, <2>2, <3>1, <3>3 DEF Prudent, TaskPrudent, OneAtWork
        <4> QED BY <1>4, <3>1, <3>3, <4>1 DEF TaskPrudent
      <3> QED BY <3>2, <3>3
    <2> QED BY <1>3, <1>4, <2>1, <2>3, <2>4, <2>5 DEF Prudent
  <1> QED BY <1>2, <1>3, <1>4, <1>5, <1>6, <1>7, PromiseOn

\* The links of the client go ...
LEMMA PromiseDrop ==
    ASSUME Known, Promise, NEW k \in Tasks, DropLinks(k)
    PROVE  Promise'
  <1>1. /\ Busy' = Busy /\ k \in Busy
        /\ task'[k].pc = "make" /\ task'[k].phone = task[k].phone
        /\ task'[k].kind = task[k].kind /\ task'[k].tab = task[k].tab
        /\ \A j \in Busy \ {k} : task'[j] = task[j]
    BY KnownDrop
  <1>2. UNCHANGED <<listed, client, lead, link, missed, sent, dialog>> /\ UNCHANGED <<faults, careful>>
        /\ task[k].pc = "drop"
    BY DEF DropLinks, past
  <1>3. RowsStay /\ task[k].kind # "share"
    BY <1>1, <1>2, RowsSame DEF Known, TaskTrue
  <1>4. ASSUME careful, faults = 0 PROVE Prudent'
    BY <1>1, <1>2, <1>4, PrudentOld DEF Promise, Prudent
  <1> QED BY <1>1, <1>2, <1>3, <1>4, PromiseOn

\* ... and the new one comes.
LEMMA PromiseMake ==
    ASSUME Known, Promise, NEW k \in Tasks, MakeLink(k)
    PROVE  Promise'
  <1>1. /\ Busy' = Busy /\ k \in Busy
        /\ task'[k].pc = "answer" /\ task'[k].phone = task[k].phone
        /\ task'[k].kind = task[k].kind /\ task'[k].tab = task[k].tab
        /\ \A j \in Busy \ {k} : task'[j] = task[j]
        /\ \A i \in 1..Len(link) : link'[i] = link[i]
    BY KnownMake
  <1>2. UNCHANGED <<listed, client, lead, missed, sent, dialog>> /\ UNCHANGED <<faults, careful>>
        /\ task[k].pc = "make"
    BY DEF MakeLink
  <1>3. RowsStay /\ task[k].kind # "share"
    BY <1>1, <1>2 DEF RowsStay, Ids, Known, TaskTrue
  <1>4. ASSUME careful, faults = 0 PROVE Prudent'
    BY <1>1, <1>2, <1>4, PrudentOld DEF Promise, Prudent
  <1> QED BY <1>1, <1>2, <1>3, <1>4, PromiseOn

\* The listing goes to the number's only client, the one the link is for; or
\* its request fails.
LEMMA PromiseLead ==
    ASSUME Known, Promise, NEW k \in Tasks, LinkListing(k)
    PROVE  Promise'
  <1>1. /\ Busy' = Busy /\ k \in Busy /\ task[k].kind = "share"
        /\ task'[k].pc \in {"answer", "failed"} /\ task'[k].phone = task[k].phone
        /\ task'[k].kind = task[k].kind /\ task'[k].tab = task[k].tab /\ task'[k].listing = task[k].listing
        /\ \A j \in Busy \ {k} : task'[j] = task[j]
        /\ lead \subseteq lead'
        /\ task'[k].pc = "answer" => <<task[k].client, task[k].listing>> \in lead'
    BY KnownLead
  <1>2. UNCHANGED <<listed, client, link, missed, sent, dialog>> /\ UNCHANGED <<faults, careful>>
        /\ task[k].pc = "lead"
    BY DEF LinkListing, past
  <1>3. RowsStay
    BY <1>1, <1>2 DEF RowsStay, Ids
  <1>4. Shows'
    <2>1. SentShows'
      BY <1>2, <1>3, SentStays DEF Promise, Shows
    <2>2. ASSUME NEW t \in Tabs, Sole(t), NEW l \in Listings PROVE Shared(t, l)'
      <3>1. Shared(t, l) /\ dialog[t].final \in 1..Len(link)
        BY <2>2 DEF Promise, Shows, Sole, Known, DialogTrue
      <3>2. task[k].tab = t => task[k].client = link[dialog[t].final]
        <4>1. /\ task[k].client \in Ids /\ client[task[k].client] = task[k].phone
              /\ task[k].phone = dialog[task[k].tab].phone
          BY <1>1, <1>2 DEF Known, TaskTrue, HasFound
        <4>2. task[k].tab = t => task[k].client \in WithPhone(dialog[t].phone)
          BY <4>1 DEF WithPhone
        <4> QED BY <2>2, <4>2 DEF Sole
      <3>3. ASSUME NEW j \in Busy,
                   task[j].kind = "share", task[j].tab = t, task[j].listing = l, task[j].pc # "answer"
            PROVE  \/ /\ j \in Busy' /\ task'[j].kind = "share" /\ task'[j].tab = t /\ task'[j].listing = l
                      /\ task'[j].pc # "answer"
                   \/ <<link[dialog[t].final], l>> \in lead'
        <4>1. CASE j = k
          BY <1>1, <3>2, <3>3, <4>1
        <4>2. CASE j # k
          BY <1>1, <3>3, <4>2
        <4> QED BY <4>1, <4>2
      <3>4. \A j \in Busy :
              task[j].kind = "share" /\ task[j].tab = t /\ task[j].listing = l /\ task[j].pc # "answer" =>
                  \/ /\ j \in Busy' /\ task'[j].kind = "share" /\ task'[j].tab = t /\ task'[j].listing = l
                     /\ task'[j].pc # "answer"
                  \/ <<t, l>> \in missed' \/ <<link[dialog[t].final], l>> \in lead'
        BY <3>3
      <3>5. dialog'[t].final = dialog[t].final /\ dialog'[t].rest = dialog[t].rest
        BY <1>2
      <3> QED BY <1>3, <3>1, <3>4, <3>5, SharedStays
    <2>3. ASSUME NEW t \in Tabs, dialog'[t].pc = "share"
          PROVE  \/ dialog'[t].rest = Listings
                 \/ /\ dialog[t].pc = "share"
                    /\ dialog'[t].phone = dialog[t].phone /\ dialog'[t].final = dialog[t].final
                    /\ Sole(t) => \A l \in Listings : Shared(t, l)'
      BY <1>2, <2>2, <2>3
    <2> QED BY <1>3, <2>1, <2>3, ShowsStep DEF Promise
  <1>5. ASSUME careful PROVE Steady'
    <2>1. Steady
      BY <1>5 DEF Promise
    <2>2. SentSteady'
      BY <1>2, <1>3, <2>1, SentSteadyStays DEF Steady
    <2>3. \A j \in Busy' : j \in Busy /\ task'[j].tab = task[j].tab /\ task'[j].phone = task[j].phone
      BY <1>1
    <2>4. ASSUME NEW s \in Tabs
          PROVE  /\ dialog'[s].phone = dialog[s].phone
                 /\ dialog'[s].url # 0 =>
                      dialog'[s].url \in 1..Len(link) /\ client[link[dialog'[s].url]] = dialog[s].phone
                 /\ dialog'[s].pc = "share" /\ dialog'[s].final # 0 =>
                      dialog'[s].final \in 1..Len(link) /\ client[link[dialog'[s].final]] = dialog[s].phone
      BY <1>2, <2>1, SteadyLinks
    <2> QED BY <1>3, <2>1, <2>2, <2>3, <2>4, SteadyStep
  <1>6. ASSUME careful, faults = 0 PROVE Prudent'
    BY <1>1, <1>2, <1>6, PrudentOld DEF Promise, Prudent
  <1> QED BY <1>2, <1>4, <1>5, <1>6 DEF Promise

\* What an answer changes in the dialogs.
LEMMA AnswerShows ==
    ASSUME Known, NEW k \in Tasks, Answer(k), NEW t \in Tabs,
           NEW url, url = IF task[k].pc = "failed" THEN 0 ELSE task[k].link
    PROVE  /\ dialog'[t].phone = dialog[t].phone /\ dialog'[t].rest = dialog[t].rest
           /\ IF task[k].kind = "own" /\ task[k].tab = t
                THEN dialog'[t].pc = "share" /\ dialog'[t].final = url
                ELSE dialog'[t].pc = dialog[t].pc /\ dialog'[t].final = dialog[t].final
           /\ \/ dialog'[t].url = dialog[t].url
              \/ task[k].kind = "link" /\ task[k].tab = t /\ dialog'[t].url = url
  <1>1. dialog \in [Tabs -> Dialogs]
    BY DEF Known, ClientsTypeOK
  <1>2. CASE task[k].kind = "own"
    <2>1. dialog' = [dialog EXCEPT ![task[k].tab].pc = "share", ![task[k].tab].final = url]
      BY <1>2 DEF Answer
    <2> QED BY <1>1, <1>2, <2>1 DEF Dialogs
  <1>3. CASE task[k].kind = "link"
    <2>1. dialog' = Show(task[k].tab, url)
      BY <1>3 DEF Answer
    <2> QED BY <1>1, <1>3, <2>1 DEF Dialogs, Show
  <1>4. CASE task[k].kind \notin {"own", "link"}
    <2>1. dialog' = dialog
      BY <1>4 DEF Answer
    <2> QED BY <1>4, <2>1
  <1> QED BY <1>2, <1>3, <1>4

\* An answer, or a failure, reaches its dialog.
LEMMA PromiseAnswer ==
    ASSUME Known, Promise, NEW k \in Tasks, Answer(k)
    PROVE  Promise'
  <1>1. k \in Busy /\ Busy' = Busy \ {k} /\ \A j \in Busy' : task'[j] = task[j]
    BY KnownAnswered
  <1>2. /\ UNCHANGED <<listed, client, lead, link, sent>> /\ UNCHANGED <<faults, careful>>
        /\ task[k].pc \in {"answer", "failed"}
        /\ missed \subseteq missed'
        /\ task[k].kind = "share" /\ task[k].pc = "failed" => <<task[k].tab, task[k].listing>> \in missed'
    BY DEF Answer, rows
  <1>3. RowsStay
    BY <1>2, RowsSame
  <1>4. TaskTrue(k)
    BY <1>1 DEF Known
  <1>5. PICK url : url = IF task[k].pc = "failed" THEN 0 ELSE task[k].link
    OBVIOUS
  <1>6. \A t \in Tabs :
           /\ dialog'[t].phone = dialog[t].phone /\ dialog'[t].rest = dialog[t].rest
           /\ IF task[k].kind = "own" /\ task[k].tab = t
                THEN dialog'[t].pc = "share" /\ dialog'[t].final = url
                ELSE dialog'[t].pc = dialog[t].pc /\ dialog'[t].final = dialog[t].final
           /\ \/ dialog'[t].url = dialog[t].url
              \/ task[k].kind = "link" /\ task[k].tab = t /\ dialog'[t].url = url
    BY <1>5, AnswerShows
  <1>7. Shows'
    <2>1. SentShows'
      BY <1>2, <1>3, SentStays DEF Promise, Shows
    <2>2. ASSUME NEW t \in Tabs, ~(task[k].kind = "own" /\ task[k].tab = t), Sole(t), NEW l \in Listings
          PROVE  Shared(t, l)'
      <3>1. Shared(t, l) /\ dialog[t].final \in 1..Len(link)
        BY <2>2 DEF Promise, Shows, Sole, Known, DialogTrue
      <3>2. ASSUME NEW j \in Busy,
                   task[j].kind = "share", task[j].tab = t, task[j].listing = l, task[j].pc # "answer"
            PROVE  \/ /\ j \in Busy' /\ task'[j].kind = "share" /\ task'[j].tab = t /\ task'[j].listing = l
                      /\ task'[j].pc # "answer"
                   \/ <<t, l>> \in missed'
        BY <1>1, <1>2, <3>2
      <3>3. dialog'[t].final = dialog[t].final /\ dialog'[t].rest = dialog[t].rest
        BY <1>6, <2>2
      <3>4. \A j \in Busy :
              task[j].kind = "share" /\ task[j].tab = t /\ task[j].listing = l /\ task[j].pc # "answer" =>
                  \/ /\ j \in Busy' /\ task'[j].kind = "share" /\ task'[j].tab = t /\ task'[j].listing = l
                     /\ task'[j].pc # "answer"
                  \/ <<t, l>> \in missed' \/ <<link[dialog[t].final], l>> \in lead'
        BY <3>2
      <3> QED BY <1>3, <3>1, <3>3, <3>4, SharedStays
    <2>3. ASSUME NEW t \in Tabs, dialog'[t].pc = "share"
          PROVE  \/ dialog'[t].rest = Listings
                 \/ /\ dialog[t].pc = "share"
                    /\ dialog'[t].phone = dialog[t].phone /\ dialog'[t].final = dialog[t].final
                    /\ Sole(t) => \A l \in Listings : Shared(t, l)'
      <3>1. CASE task[k].kind = "own" /\ task[k].tab = t
        <4>1. dialog[t].rest = Listings
          BY <1>4, <3>1 DEF TaskTrue, Known, DialogTrue
        <4> QED BY <1>6, <4>1
      <3>2. CASE ~(task[k].kind = "own" /\ task[k].tab = t)
        BY <1>6, <2>2, <2>3, <3>2
      <3> QED BY <3>1, <3>2
    <2> QED BY <1>3, <2>1, <2>3, ShowsStep DEF Promise
  <1>8. ASSUME careful PROVE Steady'
    <2>1. Steady
      BY <1>8 DEF Promise
    <2>2. SentSteady'
      BY <1>2, <1>3, <2>1, SentSteadyStays DEF Steady
    <2>3. \A j \in Busy' : j \in Busy /\ task'[j].tab = task[j].tab /\ task'[j].phone = task[j].phone
      BY <1>1
    <2>4. task[k].kind \in Asking /\ url # 0 =>
            url \in 1..Len(link) /\ client[link[url]] = dialog[task[k].tab].phone
      <3> SUFFICES ASSUME task[k].kind \in Asking, url # 0
                   PROVE  url \in 1..Len(link) /\ client[link[url]] = dialog[task[k].tab].phone
        OBVIOUS
      <3>1. url = task[k].link /\ task[k].pc = "answer"
        BY <1>2, <1>5
      <3>2. /\ task[k].link \in 0..Len(link) /\ Len(link) \in Nat /\ link[task[k].link] = task[k].client
            /\ client[task[k].client] = task[k].phone /\ task[k].tab \in Tabs
        BY <1>4, <3>1 DEF TaskTrue, HasFound, Known, ClientsTypeOK
      <3>3. task[k].phone = dialog[task[k].tab].phone
        BY <1>1, <2>1, <3>2 DEF Steady, TaskSteady
      <3> QED BY <3>1, <3>2, <3>3
    <2>5. ASSUME NEW s \in Tabs
          PROVE  /\ dialog'[s].phone = dialog[s].phone
                 /\ dialog'[s].url # 0 =>
                      dialog'[s].url \in 1..Len(link) /\ client[link[dialog'[s].url]] = dialog[s].phone
                 /\ dialog'[s].pc = "share" /\ dialog'[s].final # 0 =>
                      dialog'[s].final \in 1..Len(link) /\ client[link[dialog'[s].final]] = dialog[s].phone
      <3>1. /\ dialog[s].url # 0 => dialog[s].url \in 1..Len(link) /\ client[link[dialog[s].url]] = dialog[s].phone
            /\ dialog[s].pc = "share" /\ dialog[s].final # 0 =>
                 dialog[s].final \in 1..Len(link) /\ client[link[dialog[s].final]] = dialog[s].phone
        BY <2>1, SteadyLinks
      <3>2. dialog'[s].phone = dialog[s].phone
        BY <1>6
      <3>3. dialog'[s].url # 0 =>
              dialog'[s].url \in 1..Len(link) /\ client[link[dialog'[s].url]] = dialog[s].phone
        BY <1>6, <2>4, <3>1 DEF Asking
      <3>4. dialog'[s].pc = "share" /\ dialog'[s].final # 0 =>
              dialog'[s].final \in 1..Len(link) /\ client[link[dialog'[s].final]] = dialog[s].phone
        <4>1. CASE task[k].kind = "own" /\ task[k].tab = s
          BY <1>6, <2>4, <4>1 DEF Asking
        <4>2. CASE ~(task[k].kind = "own" /\ task[k].tab = s)
          BY <1>6, <3>1, <4>2
        <4> QED BY <4>1, <4>2
      <3> QED BY <3>2, <3>3, <3>4
    <2> QED BY <1>3, <2>1, <2>2, <2>3, <2>5, SteadyStep
  <1>9. ASSUME careful, faults = 0 PROVE Prudent'
    <2>1. Prudent
      BY <1>9 DEF Promise
    <2>2. task[k].kind = "own" => url # 0
      BY <1>1, <1>2, <1>4, <1>5, <2>1 DEF Prudent, TaskPrudent, TaskTrue, Asking
    <2>3. \A t \in Tabs : dialog'[t].pc = "share" => dialog'[t].final # 0
      BY <1>6, <2>1, <2>2 DEF Prudent
    <2> QED BY <1>1, <1>2, <2>1, <2>3, PrudentOld
  <1> QED BY <1>2, <1>7, <1>8, <1>9 DEF Promise

\* A listing deleted is shared no more.
LEMMA PromiseDelete ==
    ASSUME Known, Promise, NEW l \in Listings, DeleteListing(l)
    PROVE  Promise'
  <1>1. /\ UNCHANGED <<client, link, missed, sent, dialog, task>> /\ UNCHANGED <<faults, careful>>
        /\ Busy' = Busy
        /\ listed' \subseteq listed /\ \A r \in lead : r \in lead' \/ r[2] \notin listed'
    BY KnownDelete DEF past
  <1>2. RowsStay
    BY <1>1 DEF RowsStay, Ids
  <1>3. Shows'
    BY <1>1, <1>2, ShowsOn DEF Promise
  <1>4. ASSUME careful PROVE Steady'
    <2>1. Steady
      BY <1>4 DEF Promise
    <2>2. SentSteady'
      BY <1>1, <1>2, <2>1, SentSteadyStays DEF Steady
    <2>3. \A t \in Tabs : DialogSteady(t)'
      BY <1>1, <2>1 DEF Steady, DialogSteady
    <2>4. \A k \in Busy : TaskSteady(k)'
      BY <1>1, <2>1 DEF Steady, TaskSteady
    <2> QED BY <1>1, <2>2, <2>3, <2>4 DEF Steady
  <1>5. ASSUME careful, faults = 0 PROVE Prudent'
    BY <1>1, <1>5, PrudentOld DEF Promise, Prudent
  <1> QED BY <1>1, <1>3, <1>4, <1>5 DEF Promise

\* Requests fail: those that share are counted when their dialog is told.
LEMMA PromiseFail ==
    ASSUME Known, Promise, NEW K \in SUBSET Busy, Fail(K)
    PROVE  Promise'
  <1>1. Busy' \subseteq Busy
    BY KnownFail
  <1>2. \A k \in Busy \ K : k \in Busy' /\ task'[k] = task[k]
    BY KnownFail
  <1>3. \A k \in Busy' : /\ task'[k].tab = task[k].tab /\ task'[k].kind = task[k].kind
                         /\ task'[k].listing = task[k].listing /\ task'[k].phone = task[k].phone
                         /\ k \in K => task'[k].pc = "failed"
    BY KnownFail
  <1>4. \A k \in K : task[k].kind = "share" => k \in Busy'
    BY KnownFail
  <1>5. UNCHANGED <<listed, client, lead, link, missed, sent, dialog>> /\ careful' = careful
    BY DEF Fail, rows
  <1>6. faults' # 0
    BY DEF Fail, Known, ClientsTypeOK
  <1>7. RowsStay
    BY <1>5, RowsSame
  <1>8. \A j \in Busy : task[j].kind = "share" /\ task[j].pc # "answer" =>
           /\ j \in Busy' /\ task'[j].kind = "share" /\ task'[j].tab = task[j].tab
           /\ task'[j].listing = task[j].listing /\ task'[j].pc # "answer"
    <2> SUFFICES ASSUME NEW j \in Busy, task[j].kind = "share", task[j].pc # "answer"
                 PROVE  /\ j \in Busy' /\ task'[j].kind = "share" /\ task'[j].tab = task[j].tab
                        /\ task'[j].listing = task[j].listing /\ task'[j].pc # "answer"
      OBVIOUS
    <2>1. CASE j \in K
      BY <1>3, <1>4, <2>1
    <2>2. CASE j \notin K
      BY <1>2, <2>2
    <2> QED BY <2>1, <2>2
  <1>9. Shows'
    BY <1>5, <1>7, <1>8, ShowsOn DEF Promise
  <1>10. ASSUME careful PROVE Steady'
    <2>1. Steady
      BY <1>10 DEF Promise
    <2>2. SentSteady'
      BY <1>5, <1>7, <2>1, SentSteadyStays DEF Steady
    <2>3. \A t \in Tabs : DialogSteady(t)'
      BY <1>5, <2>1 DEF Steady, DialogSteady
    <2>4. \A k \in Busy' : TaskSteady(k)'
      BY <1>1, <1>3, <1>5, <2>1 DEF Steady, TaskSteady
    <2> QED BY <2>2, <2>3, <2>4 DEF Steady
  <1> QED BY <1>5, <1>6, <1>9, <1>10 DEF Promise

-----------------------------------------------------------------------------
(* The theorems *)

\* Nothing is known, shared or sent at first.
LEMMA BookStart == Init => BookInv
  <1> SUFFICES ASSUME Init PROVE BookInv
    OBVIOUS
  <1>1. Known
    BY KnownInit
  <1>2. LinkKept
    BY DEF Init, LinkKept
  <1>3. /\ Busy = {} /\ sent = {} /\ Len(client) = 0
        /\ \A t \in Tabs : dialog[t].pc = "open" /\ dialog[t].url = 0 /\ dialog[t].rest = Listings
    BY DEF Init, Busy
  <1>4. Shows
    BY <1>3 DEF Shows, SentShows, Sole
  <1>5. Steady
    BY <1>3 DEF Steady, SentSteady, DialogSteady
  <1>6. Prudent
    BY <1>3 DEF Prudent, OneAtWork, Unique, Ids
  <1> QED BY <1>1, <1>2, <1>4, <1>5, <1>6 DEF BookInv

\* The invariant holds of every step, of whoever takes it.
LEMMA BookStep == BookInv /\ [Next]_vars => BookInv'
  <1> SUFFICES ASSUME BookInv, [Next]_vars
               PROVE  Known' /\ LinkKept' /\ Promise'
    BY DEF BookInv, Promise
  <1>0. Known /\ LinkKept /\ Promise
    BY DEF BookInv, Promise
  <1>1. ASSUME NEW t \in Tabs,
               \/ \E p \in Phones \cup {NoOne} : Type(t, p)
               \/ PressWithLink(t) \/ OpenWhatsApp(t) \/ Cancel(t)
        PROVE  Known' /\ LinkKept' /\ Promise'
    <2>1. Known'
      BY <1>0, <1>1, KnownByHand
    <2>2. UNCHANGED <<link, live, cut, task>>
      BY <1>1 DEF Type, PressWithLink, OpenWhatsApp, Cancel, rows, past
    <2>3. Busy' = Busy
      BY <2>2 DEF Busy
    <2>4. LinkKept'
      BY <1>0, <2>2, <2>3, KeptByOthers
    <2>5. Promise'
      BY <1>0, <1>1, PromiseType, PromisePressWithLink, PromiseClose
    <2> QED BY <2>1, <2>4, <2>5
  <1>2. ASSUME NEW t \in Tabs, NEW k \in Tasks,
               TimerFires(t, k) \/ PressWithout(t, k) \/ \E l \in Listings : ShareListing(t, k, l)
        PROVE  Known' /\ LinkKept' /\ Promise'
    <2>1. Known' /\ Busy' = Busy \cup {k} /\ \A j \in Busy : task'[j] = task[j]
      BY <1>0, <1>2, KnownTimer, KnownPress, KnownShare
    <2>2. UNCHANGED <<link, live, cut>>
      BY <1>2 DEF TimerFires, PressWithout, ShareListing, rows, past
    <2>3. LinkKept'
      BY <1>0, <2>1, <2>2, KeptByOthers
    <2>4. Promise'
      BY <1>0, <1>2, PromiseTimer, PromisePress, PromiseShare
    <2> QED BY <2>1, <2>3, <2>4
  <1>3. ASSUME NEW k \in Tasks, (\E p \in Phones : AddClient(k, p)) \/ \E c \in Ids : FreshLink(k, c)
        PROVE  Known' /\ LinkKept' /\ Promise'
    <2>1. /\ Known' /\ Busy' = Busy \cup {k} /\ \A j \in Busy : task'[j] = task[j]
          /\ UNCHANGED <<link, live, cut>>
      BY <1>0, <1>3, KnownPage DEF rows, past
    <2>2. LinkKept'
      BY <1>0, <2>1, KeptByOthers
    <2>3. Promise'
      BY <1>0, <1>3, PromisePage
    <2> QED BY <2>1, <2>2, <2>3
  <1>4. ASSUME NEW k \in Tasks, Answer(k)
        PROVE  Known' /\ LinkKept' /\ Promise'
    <2>1. Known' /\ Busy' = Busy \ {k} /\ \A j \in Busy' : task'[j] = task[j]
      BY <1>0, <1>4, KnownAnswered
    <2>2. UNCHANGED <<link, live, cut>> /\ task[k].pc # "make"
      BY <1>4 DEF Answer, rows
    <2>3. LinkKept'
      BY <1>0, <2>1, <2>2, KeptByOthers
    <2> QED BY <1>0, <1>4, <2>1, <2>3, PromiseAnswer
  <1>5. ASSUME NEW k \in Tasks, CheckListing(k) \/ FindClient(k) \/ LinkListing(k)
        PROVE  Known' /\ LinkKept' /\ Promise'
    <2>1. Known' /\ Busy' = Busy /\ \A j \in Busy \ {k} : task'[j] = task[j]
      BY <1>0, <1>5, KnownCheck, KnownFind, KnownLead
    <2>2. UNCHANGED <<link, live, cut>> /\ task[k].pc # "make"
      BY <1>5 DEF CheckListing, FindClient, LinkListing, rows, past
    <2>3. LinkKept'
      BY <1>0, <2>1, <2>2, KeptByOthers
    <2> QED BY <1>0, <1>5, <2>1, <2>3, PromiseCheck, PromiseFind, PromiseLead
  <1>6. ASSUME NEW k \in Tasks, CreateClient(k)
        PROVE  Known' /\ LinkKept' /\ Promise'
    <2>1. Known'
      BY <1>0, <1>6, KnownCreate
    <2>2. /\ UNCHANGED <<link, live, cut>> /\ task[k].pc = "create"
          /\ \A j \in Busy \ {k} : task'[j] = task[j]
      BY <1>0, <1>6 DEF CreateClient, Known, ClientsTypeOK, past, Busy
    <2>3. \A j \in Busy : task[j].pc = "make" => j \in Busy' /\ task'[j] = task[j]
      BY <2>2 DEF Busy
    <2>4. LinkKept'
      BY <1>0, <2>2, <2>3, KeptByOthers
    <2> QED BY <1>0, <1>6, <2>1, <2>4, PromiseCreate
  <1>7. ASSUME NEW k \in Tasks, DropLinks(k) \/ MakeLink(k)
        PROVE  Known' /\ LinkKept' /\ Promise'
    BY <1>0, <1>7, KnownDrop, KnownMake, KeptByDrop, KeptByMake, PromiseDrop, PromiseMake
  <1>8. ASSUME NEW l \in Listings, DeleteListing(l)
        PROVE  Known' /\ LinkKept' /\ Promise'
    <2>1. Known' /\ Busy' = Busy /\ UNCHANGED <<link, live, cut, task>>
      BY <1>0, <1>8, KnownDelete DEF past
    <2>2. LinkKept'
      BY <1>0, <2>1, KeptByOthers
    <2> QED BY <1>0, <1>8, <2>1, <2>2, PromiseDelete
  <1>9. ASSUME NEW K \in SUBSET Busy, Fail(K)
        PROVE  Known' /\ LinkKept' /\ Promise'
    BY <1>0, <1>9, KnownFail, KeptByFail, PromiseFail
  <1>10. ASSUME UNCHANGED vars
         PROVE  Known' /\ LinkKept' /\ Promise'
    <2>1. UNCHANGED <<listed, client, lead, link, live, dialog, task, cut, missed, sent, events, faults, careful>>
      BY <1>10 DEF vars, rows, past
    <2>2. Known'
      BY <1>0, <2>1 DEF Known, ClientsTypeOK, TaskTrue, DialogTrue, OwnAlone, Busy, Ids, Messages
    <2>3. Busy' = Busy
      BY <2>1 DEF Busy
    <2>4. LinkKept'
      BY <1>0, <2>1, <2>3, KeptByOthers
    <2>5. Shows'
      BY <1>0, <2>1, <2>3 DEF Promise, Shows, SentShows, Sole, Shared, WithPhone, Ids
    <2>6. careful => Steady'
      BY <1>0, <2>1, <2>3 DEF Promise, Steady, SentSteady, TaskSteady, DialogSteady, Dial
    <2>7. careful /\ faults = 0 => Prudent'
      BY <1>0, <2>1, <2>3 DEF Promise, Prudent, OneAtWork, Unique, TaskPrudent, WithPhone, Ids
    <2> QED BY <2>1, <2>2, <2>4, <2>5, <2>6, <2>7 DEF Promise
  <1> QED BY <1>1, <1>2, <1>3, <1>4, <1>5, <1>6, <1>7, <1>8, <1>9, <1>10 DEF Next

\* The invariant holds of every reachable state.
LEMMA BookAlways == Spec => []BookInv
  BY BookStart, BookStep, PTL DEF Spec

\* The tables and what requests know of them are well-formed; a link is there
\* until a later one of its client replaces it, or a failure prevents that one,
\* however the requests for links overlap and fail; and a number has one client,
\* if brokers wait for answers and no request fails.
THEOREM ClientsKept == Spec => []ClientsInv
  <1>1. BookInv => ClientsInv
    BY DEF BookInv, Known, Prudent, Unique, OneClientPerPhone, ClientsInv
  <1> QED BY <1>1, BookAlways, PTL

\* The link in a message is there until another replaces it; if it is of the only
\* client that has the number, the client has all the listings the dialog was
\* opened for but those deleted and those whose request failed, though each of
\* them is linked by a request of its own that looks the number up again; and if
\* brokers wait for answers and type numbers without the country code, the
\* message goes to that client.
THEOREM MessagesShow == Spec => []LinkShowsListings
  <1>1. BookInv => LinkShowsListings
    <2> SUFFICES ASSUME BookInv, NEW m \in sent
                 PROVE  /\ m.link \in live \/ Replaced(m.link)
                        /\ WithPhone(m.phone) = {link[m.link]} =>
                             \A l \in listed : <<m.tab, l>> \in missed \/ <<link[m.link], l>> \in lead
                        /\ careful /\ m.phone \notin WithCode => m.to = Reached(client[link[m.link]])
      BY DEF LinkShowsListings
    <2>1. m.link \in 1..Len(link)
      BY DEF BookInv, Known, ClientsTypeOK, Messages
    <2>2. m.link \in live \/ Replaced(m.link)
      BY <2>1 DEF BookInv, LinkKept
    <2>3. WithPhone(m.phone) = {link[m.link]} =>
            \A l \in listed : <<m.tab, l>> \in missed \/ <<link[m.link], l>> \in lead
      BY DEF BookInv, Shows, SentShows
    <2>4. careful /\ m.phone \notin WithCode => m.to = Reached(client[link[m.link]])
      BY DEF BookInv, Steady, SentSteady, Reached
    <2> QED BY <2>2, <2>3, <2>4
  <1> QED BY <1>1, BookAlways, PTL

-----------------------------------------------------------------------------
(* The api client *)

\* The tab of a call is a tab.
LEMMA TabType == \A c \in Calls : Tab(c) \in ApiTabs
  BY DEF Calls, Tab

\* A step of call c to a state in which it neither runs a refresh nor waits
\* for one, from one in which it did neither, changes nothing of the queue.
LEMMA MoveKeepsQueue ==
  ASSUME ApiInv, NEW c \in Calls, NEW s \in {"sent", "refused", "settled"},
         call[c] \in {"new", "sent", "refused"}, Move(c, s), refreshing' = refreshing
  PROVE  QueueHasWaker' /\ call' \in [Calls -> States]
  <1>1. call' \in [Calls -> States] /\ \A d \in Calls : call'[d] = IF d = c THEN s ELSE call[d]
    BY DEF ApiInv, ApiTypeOK, Move, States
  <1>2. \A t \in ApiTabs : Refreshers(t)' = Refreshers(t)
    BY <1>1 DEF Refreshers
  <1> QED BY <1>1, <1>2 DEF ApiInv, QueueHasWaker

\* The end of c's refresh empties the queue of its tab.
LEMMA EndRefreshKeepsQueue ==
  ASSUME ApiInv, NEW c \in Calls, NEW s \in {"sent", "settled"},
         call[c] \in {"refresh", "granted"}, EndRefresh(c, s)
  PROVE  /\ QueueHasWaker' /\ call' \in [Calls -> States]
         /\ refreshing' \in [ApiTabs -> BOOLEAN]
  <1> DEFINE t0 == Tab(c)
  <1>1. t0 \in ApiTabs BY TabType
  <1>2. \A d \in Calls : call'[d] =
          IF d = c THEN s ELSE IF Tab(d) = t0 /\ call[d] = "queued" THEN "sent" ELSE call[d]
    BY DEF EndRefresh
  <1>3. call' \in [Calls -> States]
    BY <1>2 DEF EndRefresh, ApiInv, ApiTypeOK, States
  <1>4. refreshing' \in [ApiTabs -> BOOLEAN] /\ \A t \in ApiTabs :
          refreshing'[t] = IF t = t0 THEN FALSE ELSE refreshing[t]
    BY <1>1 DEF EndRefresh, ApiInv, ApiTypeOK
  <1>5. c \in Refreshers(t0) BY DEF Refreshers
  <1>6. \A d \in Refreshers(t0) : d = c
    BY <1>1, <1>5 DEF ApiInv, QueueHasWaker
  <1>7. Refreshers(t0)' = {}
    BY <1>2, <1>6 DEF Refreshers
  <1>8. \A t \in ApiTabs : t # t0 => Refreshers(t)' = Refreshers(t)
    BY <1>2 DEF Refreshers
  <1>9. \A d \in Calls : Tab(d) = t0 => call'[d] # "queued"
    BY <1>2
  <1>10. \A d \in Calls : Tab(d) # t0 => (call'[d] = "queued") = (call[d] = "queued")
    BY <1>2
  <1> QED
    <2> SUFFICES ASSUME NEW t \in ApiTabs
                 PROVE  /\ refreshing'[t] <=> Refreshers(t)' # {}
                        /\ \A x, y \in Refreshers(t)' : x = y
                        /\ \A d \in Calls : Tab(d) = t /\ call'[d] = "queued" => refreshing'[t]
      BY <1>3, <1>4 DEF QueueHasWaker
    <2>1. CASE t = t0 BY <2>1, <1>4, <1>7, <1>9
    <2>2. CASE t # t0
      <3>1. refreshing'[t] = refreshing[t] /\ Refreshers(t)' = Refreshers(t)
        BY <2>2, <1>4, <1>8
      <3>2. \A d \in Calls : Tab(d) = t => (call'[d] = "queued") = (call[d] = "queued")
        BY <2>2, <1>10
      <3> QED BY <3>1, <3>2 DEF ApiInv, QueueHasWaker
    <2> QED BY <2>1, <2>2

\* The inductive step, one action at a time.
LEMMA ApiInvInductive == ApiInv /\ [ApiNext]_apiVars => ApiInv'
  <1> SUFFICES ASSUME ApiInv, [ApiNext]_apiVars PROVE ApiInv'
    OBVIOUS
  <1> USE ApiAssumption
  <1>1. CASE UNCHANGED apiVars
    BY <1>1 DEF apiVars, ApiInv, ApiTypeOK, QueueHasWaker, Refreshers
  <1>2. ASSUME NEW c \in Calls, Send(c) PROVE ApiInv'
    BY <1>2, MoveKeepsQueue DEF Send, ApiInv, ApiTypeOK
  <1>3. ASSUME NEW c \in Calls, Answered(c) PROVE ApiInv'
    <2>1. QueueHasWaker' /\ call' \in [Calls -> States]
      BY <1>3, MoveKeepsQueue DEF Answered
    <2> QED BY <1>3, <2>1 DEF Answered, Cookies, ApiInv, ApiTypeOK
  <1>4. ASSUME NEW c \in Calls, Refuse(c) PROVE ApiInv'
    BY <1>4, MoveKeepsQueue DEF Refuse, ApiInv, ApiTypeOK
  <1>5. ASSUME NEW c \in Calls, React(c) PROVE ApiInv'
    <2> DEFINE t0 == Tab(c)
    <2>1. t0 \in ApiTabs BY TabType
    <2>2. CASE refreshing[t0]
      <3>1. \A d \in Calls : call'[d] = IF d = c THEN "queued" ELSE call[d]
        BY <1>5, <2>2 DEF React, Move, ApiInv, ApiTypeOK
      <3>2. \A t \in ApiTabs : Refreshers(t)' = Refreshers(t)
        BY <1>5, <3>1 DEF Refreshers, React
      <3>3. call' \in [Calls -> States] /\ refreshing' = refreshing
        BY <1>5, <2>2 DEF React, Move, ApiInv, ApiTypeOK, States
      <3>4. QueueHasWaker'
        BY <2>1, <2>2, <3>1, <3>2, <3>3 DEF ApiInv, QueueHasWaker
      <3> QED BY <1>5, <3>3, <3>4 DEF React, ApiInv, ApiTypeOK
    <2>3. CASE ~refreshing[t0]
      <3>1. call' \in [Calls -> States] /\
            \A d \in Calls : call'[d] = IF d = c THEN "refresh" ELSE call[d]
        BY <1>5, <2>3 DEF React, Move, ApiInv, ApiTypeOK, States
      <3>2. refreshing' \in [ApiTabs -> BOOLEAN] /\
            \A t \in ApiTabs : refreshing'[t] = IF t = t0 THEN TRUE ELSE refreshing[t]
        BY <1>5, <2>1, <2>3 DEF React, ApiInv, ApiTypeOK
      <3>3. Refreshers(t0) = {}
        BY <2>1, <2>3 DEF ApiInv, QueueHasWaker
      <3>4. Refreshers(t0)' = {c}
        BY <3>1, <3>3 DEF Refreshers
      <3>5. \A t \in ApiTabs : t # t0 => Refreshers(t)' = Refreshers(t)
        BY <3>1 DEF Refreshers
      <3>6. QueueHasWaker'
        <4> SUFFICES ASSUME NEW t \in ApiTabs
                     PROVE  /\ refreshing'[t] <=> Refreshers(t)' # {}
                            /\ \A x, y \in Refreshers(t)' : x = y
                            /\ \A d \in Calls : Tab(d) = t /\ call'[d] = "queued" => refreshing'[t]
          BY <3>2 DEF QueueHasWaker
        <4>1. CASE t = t0 BY <4>1, <3>2, <3>4
        <4>2. CASE t # t0
          <5>1. refreshing'[t] = refreshing[t] /\ Refreshers(t)' = Refreshers(t)
            BY <4>2, <3>2, <3>5
          <5>2. \A d \in Calls : Tab(d) = t => (call'[d] = "queued") = (call[d] = "queued")
            BY <4>2, <3>1
          <5> QED BY <5>1, <5>2 DEF ApiInv, QueueHasWaker
        <4> QED BY <4>1, <4>2
      <3> QED BY <1>5, <3>1, <3>2, <3>6 DEF React, ApiInv, ApiTypeOK
    <2> QED BY <2>2, <2>3
  <1>6. ASSUME NEW c \in Calls, Grant(c) PROVE ApiInv'
    <2>1. call' \in [Calls -> States] /\
          \A d \in Calls : call'[d] = IF d = c THEN "granted" ELSE call[d]
      BY <1>6 DEF Grant, Move, ApiInv, ApiTypeOK, States
    <2>2. \A t \in ApiTabs : Refreshers(t)' = Refreshers(t)
      BY <1>6, <2>1 DEF Grant, Refreshers
    <2>3. QueueHasWaker'
      BY <1>6, <2>1, <2>2 DEF Grant, ApiInv, QueueHasWaker
    <2>4. attempt' \in [Calls -> 0..2]
      BY <1>6 DEF Grant, ApiInv, ApiTypeOK
    <2>5. UNCHANGED <<access, session, account, refreshing, apiEvents>>
      BY <1>6 DEF Grant
    <2> QED BY <2>1, <2>3, <2>4, <2>5 DEF ApiInv, ApiTypeOK
  <1>7. ASSUME NEW c \in Calls, Refreshed(c) PROVE ApiInv'
    <2>1. QueueHasWaker' /\ call' \in [Calls -> States] /\ refreshing' \in [ApiTabs -> BOOLEAN]
      BY <1>7, EndRefreshKeepsQueue DEF Refreshed
    <2> QED BY <1>7, <2>1 DEF Refreshed, Cookies, ApiInv, ApiTypeOK
  <1>8. ASSUME NEW c \in Calls, RefreshFails(c) PROVE ApiInv'
    <2>1. CASE attempt[c] < 2
      <3>1. attempt' \in [Calls -> 0..2]
        BY <1>8, <2>1 DEF RefreshFails, ApiInv, ApiTypeOK
      <3>2. QueueHasWaker'
        BY <1>8, <2>1 DEF RefreshFails, ApiInv, QueueHasWaker, Refreshers
      <3> QED BY <1>8, <2>1, <3>1, <3>2 DEF RefreshFails, ApiInv, ApiTypeOK
    <2>2. CASE ~(attempt[c] < 2)
      <3>1. QueueHasWaker' /\ call' \in [Calls -> States] /\ refreshing' \in [ApiTabs -> BOOLEAN]
        BY <1>8, <2>2, EndRefreshKeepsQueue DEF RefreshFails
      <3>2. attempt' \in [Calls -> 0..2]
        BY <1>8, <2>2 DEF RefreshFails, ApiInv, ApiTypeOK
      <3>3. UNCHANGED <<access, session, account, apiEvents>>
        BY <1>8 DEF RefreshFails
      <3> QED BY <3>1, <3>2, <3>3 DEF ApiInv, ApiTypeOK
    <2> QED BY <2>1, <2>2
  <1>9. CASE AccessEnds \/ SessionEnds \/ Login \/ SilentRefresh \/ AccountChanges
    <2>1. UNCHANGED <<refreshing, call, attempt>>
      BY <1>9 DEF AccessEnds, SessionEnds, Login, SilentRefresh, AccountChanges
    <2>2. QueueHasWaker'
      BY <2>1 DEF ApiInv, QueueHasWaker, Refreshers
    <2>3. apiEvents' \in 0..MaxApiEvents
      <3>1. Event
        BY <1>9 DEF AccessEnds, SessionEnds, Login, SilentRefresh, AccountChanges
      <3> QED BY <3>1 DEF Event, ApiInv, ApiTypeOK
    <2>4. access' \in BOOLEAN /\ session' \in BOOLEAN /\ account' \in {"active", "suspended", "removed"}
      BY <1>9 DEF AccessEnds, SessionEnds, Login, SilentRefresh, AccountChanges, Cookies, ApiInv, ApiTypeOK
    <2> QED BY <2>1, <2>2, <2>3, <2>4 DEF ApiInv, ApiTypeOK
  <1> QED BY <1>1, <1>2, <1>3, <1>4, <1>5, <1>6, <1>7, <1>8, <1>9 DEF ApiNext, Progress

\* However many tabs and calls: at most one refresh runs in a tab, isRefreshing
\* says whether one does, and every queued call has one to wake it.
THEOREM QueueWoken == ApiSpec => []ApiInv
  <1>1. ApiInit => ApiInv
    BY ApiAssumption, TabType
    DEF ApiInit, ApiInv, ApiTypeOK, QueueHasWaker, Refreshers, States
  <1> QED BY <1>1, ApiInvInductive, PTL DEF ApiSpec
=============================================================================
