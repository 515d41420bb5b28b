------------------------------- MODULE Groups -------------------------------
(***************************************************************************)
(* The WhatsApp groups one number listens to, who may see and who gets     *)
(* their messages: the group tables, private groups linked by a code       *)
(* posted in them, and IngestionService from a message's arrival to the    *)
(* firms it is handed to.                                                  *)
(*                                                                         *)
(* A task is a handler (of a message, of a request, or a backfill in the   *)
(* background) between two of its awaits.  What createFromAi makes of a    *)
(* message is module Ingest's subject: here a message is handed to a firm  *)
(* or not.  The copies of a message that backfills make, and that later    *)
(* backfills read and copy in turn, are identified with the message.       *)
(***************************************************************************)
EXTENDS Naturals, Sequences, FiniteSets

CONSTANTS
    Firms,          \* workspaces
    Groups,         \* WhatsApp groups, by jid
    Texts,          \* message texts
    Names,          \* group names
    Tasks,          \* slots for handlers running at the same time
    NoFirm,         \* the owner of a group that has none
    Limit,          \* messages a backfill reads of a group (500)
    MaxEvents       \* bound on messages, codes, unsubscriptions, removals and renamings

ASSUME GroupsAssumption ==
    /\ {Limit, MaxEvents} \subseteq Nat
    /\ NoFirm \notin Firms

VARIABLES
    group,          \* IngestionGroup rows
    named,          \* history: names the rows have had
    subscription,   \* GroupSubscription rows
    code,           \* PrivateGroupRequest rows
    message,        \* Message rows: group, text and the group's name as it came
    cached,         \* texts in the GlobalMessageCache
    copied,         \* messages with a copy
    handed,         \* history: messages handed to firms
    excused,        \* history: messages a firm may miss
    events,         \* number of what MaxEvents bounds
    task            \* handlers under way

vars == <<group, named, subscription, code, message, cached, copied, handed, excused, events, task>>

-----------------------------------------------------------------------------

\* (claimExpiresAt is read only by getAvailableGroups, which changes nothing.)
GroupRows == [name : Names, isPrivate : BOOLEAN, owner : Firms \cup {NoFirm}]
\* No row: a private group always has an owner.
NoGroup   == [isPrivate |-> TRUE, owner |-> NoFirm]

MessageRows == Groups \X Texts \X Names

\* "EXPIRED": so marked, or its date is past.  `group` is where the code was
\* posted, once it is linked.
CodeRows == [firm : Firms, status : {"PENDING", "LINKED", "EXPIRED"}, group : SUBSET Groups]

Idle       == [pc |-> "idle"]
Linking    == [pc : {"upsertGroup", "link"}, code : Nat, group : Groups]
Handling   == [pc : {"lookup", "storeMessage", "parse", "handOver"},
               group : Groups, name : Names, text : Texts, firms : SUBSET Firms, hit : BOOLEAN]
Backfill   == [pc : {"findSubscriptions", "findMessages", "handCached"}, firm : Firms,
               groups : SUBSET (Groups \X Names), messages : SUBSET MessageRows]
Requesting == [pc : {"createCode"}, firm : Firms]
Removing   == [pc : {"deleteGroup"}, group : Groups]

\* Types of the tables and of what each task has read.
GroupsTypeOK ==
    /\ group \in [Groups -> GroupRows \cup {NoGroup}]
    /\ named \subseteq Groups \X Names
    /\ subscription \in [Firms \X Groups -> {"none", "active", "inactive", "deleted"}]
    /\ code \in Seq(CodeRows)
    /\ message \subseteq MessageRows /\ copied \subseteq MessageRows
    /\ cached \subseteq Texts
    /\ handed \subseteq Firms \X Groups \X Texts
    /\ excused \subseteq Firms \X Groups \X Texts
    /\ events \in Nat
    /\ task \in [Tasks -> {Idle} \cup Linking \cup Handling \cup Backfill \cup Requesting \cup Removing]

Init ==
    /\ group = [g \in Groups |-> NoGroup]
    /\ subscription = [s \in Firms \X Groups |-> "none"]
    /\ code = << >>
    /\ named = {} /\ message = {} /\ cached = {} /\ copied = {}
    /\ handed = {} /\ excused = {}
    /\ events = 0
    /\ task = [k \in Tasks |-> Idle]

Take(k, rec) == task[k] = Idle /\ task' = [task EXCEPT ![k] = rec]
Go(k, rec)   == task' = [task EXCEPT ![k] = rec]
Finish(k)    == Go(k, Idle)

history == <<handed, excused, events>>

Count == events < MaxEvents /\ events' = events + 1

-----------------------------------------------------------------------------
(* Groups *)

Exists(g)      == group[g] # NoGroup
Subscribers(g) == {w \in Firms : subscription[<<w, g>>] = "active"}

\* The upserts of IngestionGroup rows: the row is made, or gets the name.
WithGroup(g, row) ==
    /\ group' = [group EXCEPT ![g] = IF Exists(g) THEN [@ EXCEPT !.name = row.name] ELSE row]
    /\ named' = named \cup {<<g, row.name>>}
    /\ IF Exists(g) /\ group[g].name # row.name THEN Count ELSE UNCHANGED events

\* syncGroups, with the group's subject; or addGroup, with any name.
SyncGroup(g, n) ==
    /\ WithGroup(g, [name |-> n, isPrivate |-> FALSE, owner |-> NoFirm])
    /\ UNCHANGED <<subscription, code, message, cached, copied, handed, excused, task>>

Messages(g) == {m \in message : m[1] = g}

\* The messages of g being handled, of which w may not be among the recipients.
InFlight(w, g) ==
    LET handlers == {k \in Tasks : /\ task[k].pc \in {"lookup", "storeMessage", "parse", "handOver"}
                                  /\ task[k].group = g} IN
    {<<w, g, task[k].text>> : k \in handlers}

\* History: who was no subscriber may miss these.
Excuse(w, g, missed) ==
    excused' = IF subscription[<<w, g>>] = "active" THEN excused ELSE excused \cup (missed \ handed)

\* subscribe: the row, whatever group is asked for, and a backfill in the
\* background.  (With the id of a group that has no row it fails.)
Subscribe(k, w, g) ==
    /\ Exists(g)
    /\ Take(k, [pc |-> "findSubscriptions", firm |-> w, groups |-> {}, messages |-> {}])
    /\ subscription' = [subscription EXCEPT ![<<w, g>>] = "active"]
    /\ Excuse(w, g, InFlight(w, g))
    /\ UNCHANGED <<group, named, code, message, cached, copied, handed, events>>

Unsubscribe(w, g) ==
    /\ subscription[<<w, g>>] = "active"
    /\ Count
    /\ subscription' = [subscription EXCEPT ![<<w, g>>] = "inactive"]
    /\ UNCHANGED <<group, named, code, message, cached, copied, handed, excused, task>>

\* removeGroup: the subscriptions, then the row.
RemoveGroup(k, g) ==
    /\ Exists(g)
    /\ Count
    /\ Take(k, [pc |-> "deleteGroup", group |-> g])
    /\ subscription' = [s \in Firms \X Groups |->
                          IF s[2] = g /\ subscription[s] # "none" THEN "deleted" ELSE subscription[s]]
    /\ UNCHANGED <<group, named, code, message, cached, copied, handed, excused>>

\* The delete fails on the foreign key of a subscription made meanwhile.
\* Whoever holds the deleted row's id (a linking task, another removal) will
\* fail with it.
DeleteGroup(k) ==
    /\ task[k].pc = "deleteGroup"
    /\ LET g == task[k].group IN
       IF \E w \in Firms : subscription[<<w, g>>] \in {"active", "inactive"}
         THEN Finish(k) /\ UNCHANGED group
         ELSE /\ group' = [group EXCEPT ![g] = NoGroup]
              /\ task' = [h \in Tasks |->
                    IF h = k \/ (task[h].pc \in {"link", "deleteGroup"} /\ task[h].group = g)
                      THEN Idle ELSE task[h]]
    /\ UNCHANGED <<named, subscription, code, message, cached, copied, history>>

-----------------------------------------------------------------------------
(* Private groups *)

\* createRequest: the firm's pending codes expire,
CreateRequest(k, w) ==
    /\ Count
    /\ Take(k, [pc |-> "createCode", firm |-> w])
    /\ code' = [c \in DOMAIN code |->
                  IF code[c].firm = w /\ code[c].status = "PENDING"
                    THEN [code[c] EXCEPT !.status = "EXPIRED"] ELSE code[c]]
    /\ UNCHANGED <<group, named, subscription, message, cached, copied, handed, excused>>

\* ... and a new one is made, that no row has.
CreateCode(k) ==
    /\ task[k].pc = "createCode"
    /\ code' = Append(code, [firm |-> task[k].firm, status |-> "PENDING", group |-> {}])
    /\ Finish(k)
    /\ UNCHANGED <<group, named, subscription, message, cached, copied, history>>

CodeExpires(c) ==
    /\ code[c].status = "PENDING"
    /\ code' = [code EXCEPT ![c].status = "EXPIRED"]
    /\ UNCHANGED <<group, named, subscription, message, cached, copied, history, task>>

\* The code is posted in a group: handleMessage finds it pending.
PostCode(k, c, g) ==
    /\ code[c].status = "PENDING"
    /\ Take(k, [pc |-> "upsertGroup", code |-> c, group |-> g])
    /\ UNCHANGED <<group, named, subscription, code, message, cached, copied, history>>

\* Mutant: the group is given to whoever posts a code.
UpsertGroupClaiming(k, n) ==
    /\ task[k].pc = "upsertGroup"
    /\ group' = [group EXCEPT ![task[k].group] =
                   [name |-> n, isPrivate |-> TRUE, owner |-> code[task[k].code].firm]]
    /\ named' = named \cup {<<task[k].group, n>>}
    /\ Go(k, [task[k] EXCEPT !.pc = "link"])
    /\ UNCHANGED <<subscription, code, message, cached, copied, history>>

\* A group that has a row keeps it, but for the name: the subject, or the jid
\* if that cannot be had.
UpsertGroup(k, n) ==
    /\ task[k].pc = "upsertGroup"
    /\ WithGroup(task[k].group, [name |-> n, isPrivate |-> TRUE, owner |-> code[task[k].code].firm])
    /\ Go(k, [task[k] EXCEPT !.pc = "link"])
    /\ UNCHANGED <<subscription, code, message, cached, copied, handed, excused>>

\* The transaction.  There is no backfill: what the group said before is excused.
Link(k) ==
    /\ task[k].pc = "link"
    /\ LET c == task[k].code
           g == task[k].group
           w == code[c].firm IN
       /\ code' = [code EXCEPT ![c].status = "LINKED", ![c].group = @ \cup {g}]
       /\ subscription' = [subscription EXCEPT ![<<w, g>>] = "active"]
       /\ Excuse(w, g, InFlight(w, g) \cup {<<w, g, m[2]>> : m \in Messages(g)})
    /\ Finish(k)
    /\ UNCHANGED <<group, named, message, cached, copied, handed, events>>

-----------------------------------------------------------------------------
(* Messages *)

\* handleMessage: the subscriptions are read, and the group's name with them.
Arrive(k, g, t) ==
    /\ Subscribers(g) # {}
    /\ Count
    /\ Take(k, [pc |-> "lookup", group |-> g, name |-> group[g].name, text |-> t,
                firms |-> Subscribers(g), hit |-> FALSE])
    /\ UNCHANGED <<group, named, subscription, code, message, cached, copied, handed, excused>>

LookUp(k) ==
    /\ task[k].pc = "lookup"
    /\ Go(k, [task[k] EXCEPT !.pc = "storeMessage", !.hit = task[k].text \in cached])
    /\ UNCHANGED <<group, named, subscription, code, message, cached, copied, history>>

\* One row for the group and the text, whoever gets it.  It keeps the name.
StoreMessage(k) ==
    /\ task[k].pc = "storeMessage"
    /\ message' = IF \E m \in message : m[1] = task[k].group /\ m[2] = task[k].text THEN message
                  ELSE message \cup {<<task[k].group, task[k].text, task[k].name>>}
    /\ Go(k, [task[k] EXCEPT !.pc = IF task[k].hit THEN "handOver" ELSE "parse"])
    /\ UNCHANGED <<group, named, subscription, code, cached, copied, history>>

\* Noise, or a parser that fails: the message is given up.
GiveUp(k) ==
    /\ task[k].pc = "parse"
    /\ excused' = excused \cup ((Firms \X {task[k].group} \X {task[k].text}) \ handed)
    /\ Finish(k)
    /\ UNCHANGED <<group, named, subscription, code, message, cached, copied, handed, events>>

\* The parser's answer is cached.
Cache(k) ==
    /\ task[k].pc = "parse"
    /\ cached' = cached \cup {task[k].text}
    /\ Go(k, [task[k] EXCEPT !.pc = "handOver"])
    /\ UNCHANGED <<group, named, subscription, code, message, copied, history>>

\* Mutant: the first firm's success ends the round.
HandOverOnce(k, w) ==
    /\ task[k].pc = "handOver"
    /\ w \in task[k].firms
    /\ handed' = handed \cup {<<w, task[k].group, task[k].text>>}
    /\ Finish(k)
    /\ UNCHANGED <<group, named, subscription, code, message, cached, copied, excused, events>>

\* createFromAi for the firms read on arrival, one after the other.
HandOver(k, w) ==
    /\ task[k].pc = "handOver"
    /\ w \in task[k].firms
    /\ handed' = handed \cup {<<w, task[k].group, task[k].text>>}
    /\ IF task[k].firms = {w} THEN Finish(k)
       ELSE Go(k, [task[k] EXCEPT !.firms = @ \ {w}])
    /\ UNCHANGED <<group, named, subscription, code, message, cached, copied, excused, events>>

\* backfillWorkspace: the firm's active subscriptions, with their groups' names,
FindSubscriptions(k) ==
    /\ task[k].pc = "findSubscriptions"
    /\ LET groups == {<<g, group[g].name>> :
                         g \in {h \in Groups : subscription[<<task[k].firm, h>>] = "active"}} IN
       IF groups = {} THEN Finish(k)
       ELSE Go(k, [task[k] EXCEPT !.pc = "findMessages", !.groups = groups])
    /\ UNCHANGED <<group, named, subscription, code, message, cached, copied, history>>

\* (The next message, the next group, or the end.)
Proceed(k, groups, messages) ==
    IF groups \cup messages = {} THEN Finish(k)
    ELSE Go(k, [task[k] EXCEPT !.pc = IF messages = {} THEN "findMessages" ELSE "handCached",
                               !.groups = groups, !.messages = messages])

\* What is saved under a name.
Named(n) == {m \in message : m[3] = n}

\* More than Limit rows may be: copies are rows too, and their number is not counted.
Crowded(n) == Cardinality(Named(n)) > Limit \/ Named(n) \cap copied # {}

\* What a backfill passes over as it reads `found`.
PassedOver(w, n, found) == {<<w, m[1], m[2]>> : m \in Named(n) \ found}

\* Mutant: the messages of every group.
FindAllMessages(k, p) ==
    /\ task[k].pc = "findMessages"
    /\ p \in task[k].groups
    /\ Proceed(k, task[k].groups \ {p}, message)
    /\ UNCHANGED <<group, named, subscription, code, message, cached, copied, history>>

\* ... the messages saved under the name of each, or the newest of them,
FindMessages(k, p) ==
    /\ task[k].pc = "findMessages"
    /\ p \in task[k].groups
    /\ \E found \in SUBSET Named(p[2]) :
        /\ found = Named(p[2]) \/ Crowded(p[2])
        /\ excused' = excused \cup (PassedOver(task[k].firm, p[2], found) \ handed)
        /\ Proceed(k, task[k].groups \ {p}, found)
    /\ UNCHANGED <<group, named, subscription, code, message, cached, copied, handed, events>>

\* ... and those of them that are in the cache by then, of which a copy is made.
\* (Those that gave the firm a listing are skipped.)
HandCached(k, m) ==
    /\ task[k].pc = "handCached"
    /\ m \in task[k].messages
    /\ IF m[2] \in cached
         THEN /\ handed' = handed \cup {<<task[k].firm, m[1], m[2]>>}
              /\ copied' = copied \cup {m}
         ELSE UNCHANGED <<handed, copied>>
    /\ Proceed(k, task[k].groups, task[k].messages \ {m})
    /\ UNCHANGED <<group, named, subscription, code, message, cached, excused, events>>

-----------------------------------------------------------------------------

Next ==
    \/ \E k \in Tasks :
        \/ DeleteGroup(k) \/ CreateCode(k) \/ Link(k)
        \/ LookUp(k) \/ StoreMessage(k) \/ GiveUp(k) \/ Cache(k)
        \/ FindSubscriptions(k)
        \/ \E w \in Firms : HandOver(k, w) \/ CreateRequest(k, w)
        \/ \E g \in Groups : RemoveGroup(k, g)
        \/ \E n \in Names : UpsertGroup(k, n)
        \/ \E p \in Groups \X Names : FindMessages(k, p)
        \/ \E w \in Firms, g \in Groups : Subscribe(k, w, g)
        \/ \E g \in Groups, t \in Texts : Arrive(k, g, t)
        \/ \E m \in message : HandCached(k, m)
        \/ \E c \in DOMAIN code, g \in Groups : PostCode(k, c, g)
    \/ \E g \in Groups, n \in Names : SyncGroup(g, n)
    \/ \E w \in Firms, g \in Groups : Unsubscribe(w, g)
    \/ \E c \in DOMAIN code : CodeExpires(c)

Spec == Init /\ [][Next]_vars

-----------------------------------------------------------------------------
(* Properties *)

\* No two groups have ever had the same name.
DistinctNames == \A p, q \in named : p[2] = q[2] => p[1] = q[1]

\* A group has had one name only.
NeverRenamed(g) == \A p, q \in named : p[1] = g /\ q[1] = g => p[2] = q[2]

\* A firm is handed only messages of groups it has subscribed to, though lists
\* of subscribers are used long after they were read and backfills go by name.
\* (With two groups of one name it is handed both groups' messages.)
OnlySubscribers ==
    DistinctNames => \A d \in handed : subscription[<<d[1], d[2]>>] # "none"

\* The types, and that private groups have an owner.
GroupsInv ==
    /\ GroupsTypeOK
    /\ OnlySubscribers
    /\ \A g \in Groups : Exists(g) => group[g].isPrivate = (group[g].owner # NoFirm)

\* "A second workspace posting a valid code should get their own subscription,
\* not steal the group": as long as it has its row a group keeps its owner.
OwnerKept == [][\A g \in Groups : Exists(g) /\ group'[g] # NoGroup =>
                  group'[g].owner = group[g].owner /\ group'[g].isPrivate = group[g].isPrivate]_group

\* Once all tasks are done a subscriber has been handed every message of the
\* group, sent before or after it subscribed: except those that were being
\* handled at that very time, those given up, those before a link, and those a
\* backfill passed over for the number of rows.  A group that was renamed may
\* miss more: backfills look for its messages under the name of the day.
Caught ==
    (\A k \in Tasks : task[k] = Idle) =>
        \A w \in Firms, m \in message :
            /\ subscription[<<w, m[1]>>] = "active"
            /\ m[2] \in cached
            /\ NeverRenamed(m[1])
            => <<w, m[1], m[2]>> \in handed \cup excused
=============================================================================
