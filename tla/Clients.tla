------------------------------ MODULE Clients -------------------------------
(***************************************************************************)
(* A workspace's clients, the listings shared with them and the links that *)
(* show them these listings, with the dialog that shares listings over     *)
(* WhatsApp.                                                               *)
(*                                                                         *)
(* A task is a request, in its handler between two of the handler's awaits *)
(* or on its way back to the dialog.  A phone is the digits every page     *)
(* sends: with the country code or without, these are two numbers to the   *)
(* backend.  Names, owners, events, follow-ups, stages and the expiry of   *)
(* links after a week, which decide nothing here, are left out.            *)
(***************************************************************************)
EXTENDS Naturals, Sequences, FiniteSets

CONSTANTS
    Phones,         \* clients' phone numbers, as digits
    WithCode,       \* those typed with the country code
    NoOne,          \* null: no number typed, no dialog
    Tabs,           \* openings of the share dialog
    Listings,       \* the listings the dialog was opened for
    Tasks,          \* slots for requests under way at the same time
    MaxClients,     \* bounds on the clients and links created,
    MaxLinks,
    MaxEvents,      \* on what people do
    MaxFaults       \* and on failures

ASSUME ClientsAssumption ==
    /\ {MaxClients, MaxLinks, MaxEvents, MaxFaults} \subseteq Nat
    /\ WithCode \subseteq Phones
    /\ NoOne \notin Phones \cup Tabs \cup Listings

VARIABLES
    listed,         \* the listings not deleted since
    client,         \* the number of each Client row
    lead,           \* ClientProperty rows: pairs of a client and a listing
    link,           \* the client of each link ever made
    live,           \* ClientShareToken rows: the links not deleted since
    dialog,         \* the share dialogs
    task,           \* requests under way
    cut,            \* history: clients whose new link a failure prevented
    missed,         \* history: listings a dialog could not share
    sent,           \* history: the messages with a link
    events, faults,
    careful         \* whether brokers wait for answers and do not retype numbers

rows  == <<listed, client, lead, link, live>>
past  == <<cut, missed, sent>>
vars  == <<rows, dialog, task, past, events, faults, careful>>

-----------------------------------------------------------------------------

Dialogs    == [phone : Phones \cup {NoOne}, due : BOOLEAN, url : 0..MaxLinks,
               pc : {"open", "link", "share", "closed"}, final : 0..MaxLinks, rest : SUBSET Listings]
Idle       == [pc |-> "idle"]
Steps      == {"check", "find", "create", "drop", "make", "lead", "answer", "failed"}
Requests   == [pc : Steps, kind : {"link", "own", "fresh", "add", "share"},
               tab : Tabs \cup {NoOne}, phone : Phones, listing : Listings \cup {NoOne},
               client : 0..MaxClients, link : 0..MaxLinks]

\* The number WhatsApp is opened for, and the one that reaches the client.
Dial(p)    == <<"91", p>>
Reached(p) == IF p \in WithCode THEN p ELSE Dial(p)

Messages == [link : 1..Len(link), tab : Tabs, phone : Phones, to : {"91"} \X Phones]

Ids == 1..Len(client)

\* The tables' types, the dialogs' state and what each request has read.
ClientsTypeOK ==
    /\ listed \subseteq Listings
    /\ client \in Seq(Phones) /\ Len(client) <= MaxClients
    /\ lead \subseteq Ids \X Listings
    /\ link \in Seq(Ids) /\ Len(link) <= MaxLinks
    /\ live \subseteq 1..Len(link)
    /\ dialog \in [Tabs -> Dialogs]
    /\ task \in [Tasks -> Requests \cup {Idle}]
    /\ cut \subseteq Ids
    /\ missed \subseteq Tabs \X Listings
    /\ sent \subseteq Messages
    /\ events \in 0..MaxEvents /\ faults \in 0..MaxFaults
    /\ careful \in BOOLEAN

Init ==
    /\ listed = Listings
    /\ client = << >> /\ lead = {} /\ link = << >> /\ live = {}
    /\ dialog \in [Tabs -> [phone : {NoOne}, due : {FALSE}, url : {0},
                            pc : {"open"}, final : {0}, rest : {Listings}]]
    /\ task = [k \in Tasks |-> Idle]
    /\ cut = {} /\ missed = {} /\ sent = {}
    /\ events = 0 /\ faults = 0
    /\ careful \in BOOLEAN

Request(kind, tab, phone) ==
    [pc |-> "find", kind |-> kind, tab |-> tab, phone |-> phone, listing |-> NoOne,
     client |-> 0, link |-> 0]

Act           == events < MaxEvents /\ events' = events + 1
Busy          == {k \in Tasks : task[k] # Idle}
Take(k, rec)  == task[k] = Idle /\ task' = [task EXCEPT ![k] = rec]
Start(k, rec) == Take(k, rec) /\ (careful => Busy = {})
Finish(k)     == task' = [task EXCEPT ![k] = Idle]

-----------------------------------------------------------------------------
(* The share dialog: ShareMultiplePropertiesModal *)

\* A number is typed, or the name beside it: a valid number sets the timer
\* again, another clears the link.  The link shown for the number before stays.
Type(t, p) ==
    /\ dialog[t].pc = "open"
    /\ careful => Busy = {} /\ dialog[t].phone \in {NoOne, p}
    /\ Act
    /\ dialog' = [dialog EXCEPT ![t].phone = p, ![t].due = p # NoOne,
                                ![t].url = IF p = NoOne THEN 0 ELSE @]
    /\ UNCHANGED <<rows, task, past, faults, careful>>

\* The timer asks for a link.  Nothing stops it when the dialog is closed.
TimerFires(t, k) ==
    /\ dialog[t].due
    /\ Start(k, Request("link", t, dialog[t].phone))
    /\ dialog' = [dialog EXCEPT ![t].due = FALSE]
    /\ UNCHANGED <<rows, past, events, faults, careful>>

\* "Share via WhatsApp": with the link shown, or one asked for now.
PressWithLink(t) ==
    /\ dialog[t].pc = "open" /\ dialog[t].phone # NoOne /\ dialog[t].url # 0
    /\ careful => Busy = {} /\ ~dialog[t].due
    /\ dialog' = [dialog EXCEPT ![t].pc = "share", ![t].final = dialog[t].url]
    /\ UNCHANGED <<rows, task, past, events, faults, careful>>

PressWithout(t, k) ==
    /\ dialog[t].pc = "open" /\ dialog[t].phone # NoOne /\ dialog[t].url = 0
    /\ careful => ~dialog[t].due
    /\ Start(k, Request("own", t, dialog[t].phone))
    /\ dialog' = [dialog EXCEPT ![t].pc = "link"]
    /\ UNCHANGED <<rows, past, events, faults, careful>>

\* The listings are shared all at once.  The number is the one of the click,
\* and a dialog that is sharing is taken to be left alone.
ShareListing(t, k, l) ==
    /\ dialog[t].pc = "share" /\ l \in dialog[t].rest
    /\ Take(k, [Request("share", t, dialog[t].phone) EXCEPT !.pc = "check", !.listing = l])
    /\ dialog' = [dialog EXCEPT ![t].rest = @ \ {l}]
    /\ UNCHANGED <<rows, past, events, faults, careful>>

\* The message (one without a link is of no interest here), whatever form the
\* number was typed in.
Message(t) ==
    {[link |-> i, tab |-> t, phone |-> dialog[t].phone, to |-> Dial(dialog[t].phone)] :
        i \in {dialog[t].final} \ {0}}

\* Mutant: the shares are not waited for.
OpenWhatsAppAtOnce(t) ==
    /\ dialog[t].pc = "share" /\ dialog[t].rest = {}
    /\ sent' = sent \cup Message(t)
    /\ dialog' = [dialog EXCEPT ![t].pc = "closed"]
    /\ UNCHANGED <<rows, task, cut, missed, events, faults, careful>>

\* WhatsApp opens once all are answered, whatever the answers.
OpenWhatsApp(t) ==
    /\ dialog[t].pc = "share" /\ dialog[t].rest = {}
    /\ ~\E k \in Busy : task[k].kind = "share" /\ task[k].tab = t
    /\ sent' = sent \cup Message(t)
    /\ dialog' = [dialog EXCEPT ![t].pc = "closed"]
    /\ UNCHANGED <<rows, task, cut, missed, events, faults, careful>>

Cancel(t) ==
    /\ dialog[t].pc = "open"
    /\ dialog' = [dialog EXCEPT ![t].pc = "closed"]
    /\ UNCHANGED <<rows, task, past, events, faults, careful>>

\* An answer reaches its dialog, in whatever order; 0 stands for a failure.
Show(t, url) ==
    IF dialog[t].pc = "open" THEN [dialog EXCEPT ![t].url = url] ELSE dialog

Answer(k) ==
    /\ task[k].pc \in {"answer", "failed"}
    /\ LET t   == task[k].tab
           url == IF task[k].pc = "failed" THEN 0 ELSE task[k].link IN
       CASE task[k].kind = "link" -> dialog' = Show(t, url)
         [] task[k].kind = "own"  -> dialog' = [dialog EXCEPT ![t].pc = "share", ![t].final = url]
         [] OTHER -> UNCHANGED dialog
    /\ missed' = IF task[k].kind = "share" /\ task[k].pc = "failed"
                   THEN missed \cup {<<task[k].tab, task[k].listing>>} ELSE missed
    /\ Finish(k)
    /\ UNCHANGED <<rows, cut, sent, events, faults, careful>>

-----------------------------------------------------------------------------
(* Other pages *)

\* PropertiesService.delete: the clients' rows of the listing go with it.
DeleteListing(l) ==
    /\ l \in listed
    /\ listed' = listed \ {l}
    /\ lead' = {r \in lead : r[2] # l}
    /\ UNCHANGED <<client, link, live, dialog, task, past, events, faults, careful>>

\* CreateClientModal
AddClient(k, p) ==
    /\ Act
    /\ Start(k, Request("add", NoOne, p))
    /\ UNCHANGED <<rows, dialog, past, faults, careful>>

\* ShareTokenModal, on the page of a client, whose number the link is sent to
FreshLink(k, c) ==
    /\ Act
    /\ Start(k, [Request("fresh", NoOne, client[c]) EXCEPT !.pc = "drop", !.client = c])
    /\ UNCHANGED <<rows, dialog, past, faults, careful>>

-----------------------------------------------------------------------------
(* The handlers *)

WithPhone(p) == {c \in Ids : client[c] = p}

\* What follows once the client is known.
AfterFound(kind) == CASE kind \in {"link", "own"} -> "drop" [] kind = "share" -> "lead" [] OTHER -> "answer"

\* PropertiesService.shareProperty: is the listing still there?
CheckListing(k) ==
    /\ task[k].pc = "check"
    /\ task' = [task EXCEPT ![k].pc = IF task[k].listing \in listed THEN "find" ELSE "failed"]
    /\ UNCHANGED <<rows, dialog, past, events, faults, careful>>

\* createShareTokenByPhone, getOrCreateClient and shareProperty look the
\* number up (when clients share it, any may be found) ...
FindClient(k) ==
    /\ task[k].pc = "find"
    /\ LET found == WithPhone(task[k].phone) IN
       IF found = {} THEN task' = [task EXCEPT ![k].pc = "create"]
       ELSE \E c \in found : task' = [task EXCEPT ![k].pc = AfterFound(task[k].kind), ![k].client = c]
    /\ UNCHANGED <<rows, dialog, past, events, faults, careful>>

\* ... and create the client otherwise.
CreateClient(k) ==
    /\ task[k].pc = "create"
    /\ Len(client) < MaxClients
    /\ client' = Append(client, task[k].phone)
    /\ task' = [task EXCEPT ![k].pc = AfterFound(task[k].kind), ![k].client = Len(client) + 1]
    /\ UNCHANGED <<listed, lead, link, live, dialog, past, events, faults, careful>>

LinksOf(c) == {i \in 1..Len(link) : link[i] = c}

\* Mutant: the links of the workspace are deleted.
DropAllLinks(k) ==
    /\ task[k].pc = "drop"
    /\ live' = {}
    /\ task' = [task EXCEPT ![k].pc = "make"]
    /\ UNCHANGED <<listed, client, lead, link, dialog, past, events, faults, careful>>

\* deleteMany of the client's links, then the new one.
DropLinks(k) ==
    /\ task[k].pc = "drop"
    /\ live' = live \ LinksOf(task[k].client)
    /\ task' = [task EXCEPT ![k].pc = "make"]
    /\ UNCHANGED <<listed, client, lead, link, dialog, past, events, faults, careful>>

MakeLink(k) ==
    /\ task[k].pc = "make"
    /\ Len(link) < MaxLinks
    /\ link' = Append(link, task[k].client)
    /\ live' = live \cup {Len(link) + 1}
    /\ cut' = cut \ {task[k].client}
    /\ task' = [task EXCEPT ![k].pc = "answer", ![k].link = Len(link) + 1]
    /\ UNCHANGED <<listed, client, lead, dialog, missed, sent, events, faults, careful>>

\* The upsert of the client's listing, which fails if the listing is gone by now.
LinkListing(k) ==
    /\ task[k].pc = "lead"
    /\ IF task[k].listing \in listed
         THEN /\ lead' = lead \cup {<<task[k].client, task[k].listing>>}
              /\ task' = [task EXCEPT ![k].pc = "answer"]
         ELSE /\ task' = [task EXCEPT ![k].pc = "failed"]
              /\ UNCHANGED lead
    /\ UNCHANGED <<listed, client, link, live, dialog, past, events, faults, careful>>

\* Requests fail, wherever they are, or their answers are lost: one, or all
\* those the process has when it stops.
Fail(K) ==
    /\ faults < MaxFaults
    /\ faults' = faults + 1
    /\ K # {}
    /\ cut' = cut \cup {task[k].client : k \in {h \in K : task[h].pc = "make"}}
    /\ task' = [k \in Tasks |->
                  IF k \notin K THEN task[k]
                  ELSE IF task[k].tab = NoOne THEN Idle
                  ELSE [task[k] EXCEPT !.pc = "failed"]]
    /\ UNCHANGED <<rows, dialog, missed, sent, events, careful>>

Next ==
    \/ \E t \in Tabs :
        \/ \E p \in Phones \cup {NoOne} : Type(t, p)
        \/ PressWithLink(t) \/ OpenWhatsApp(t) \/ Cancel(t)
        \/ \E k \in Tasks : TimerFires(t, k) \/ PressWithout(t, k) \/ \E l \in Listings : ShareListing(t, k, l)
    \/ \E k \in Tasks :
        \/ Answer(k) \/ CheckListing(k) \/ FindClient(k) \/ CreateClient(k) \/ DropLinks(k) \/ MakeLink(k) \/ LinkListing(k)
        \/ \E p \in Phones : AddClient(k, p)
        \/ \E c \in Ids : FreshLink(k, c)
    \/ \E l \in Listings : DeleteListing(l)
    \/ \E K \in SUBSET Busy : Fail(K)

Spec == Init /\ [][Next]_vars

-----------------------------------------------------------------------------
(* Properties *)

\* A link gave way to a later one of its client, or is about to; or the later
\* one was prevented.
Replaced(i) ==
    \/ \E j \in LinksOf(link[i]) : j > i
    \/ \E k \in Busy : task[k].pc = "make" /\ task[k].client = link[i]
    \/ link[i] \in cut

\* However requests for links overlap, a link is there until another replaces it.
LinkKept == \A i \in 1..Len(link) : i \in live \/ Replaced(i)

\* A number has one client, unless brokers press on before an answer is there.
OneClientPerPhone ==
    careful /\ faults = 0 => \A c, d \in Ids : client[c] = client[d] => c = d

\* A message's link shows what the message is about: it is there until another
\* replaces it, and if it is of the only client that has the number, the client
\* has the listings, which other requests linked: all that were not deleted,
\* and whose request did not fail.  The message goes to that client if brokers
\* do not retype numbers, and type them without the country code.
LinkShowsListings ==
    \A m \in sent :
        LET c == link[m.link] IN
        /\ m.link \in live \/ Replaced(m.link)
        /\ WithPhone(m.phone) = {c} =>
             \A l \in listed : <<m.tab, l>> \in missed \/ <<c, l>> \in lead
        /\ careful /\ m.phone \notin WithCode => m.to = Reached(client[c])

\* The types, the clients' identity and their links.
ClientsInv == ClientsTypeOK /\ LinkKept /\ OneClientPerPhone

\* The link in a message is its receiver's.
SentLinkIsRecipients == \A m \in sent : client[link[m.link]] = m.phone

\* The message goes to the number that was typed.
MessageReaches == \A m \in sent : m.to = Reached(m.phone)
=============================================================================
