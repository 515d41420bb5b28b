---------------------------- MODULE GroupsProofs ----------------------------
(***************************************************************************)
(* For any number of firms, groups, names, messages and handlers: messages *)
(* reach only firms that have subscribed, as long as no two groups share a *)
(* name; a group keeps its owner; and once all is quiet a subscriber has   *)
(* been handed every message of its groups that were never renamed, but    *)
(* for those it may miss.                                                  *)
(***************************************************************************)
EXTENDS Groups, SequenceTheorems, TLAPS

-----------------------------------------------------------------------------
(* The inductive invariant *)

\* A group with subscribers has its row: its removal deletes them first.
SubscribedExist ==
    \A w \in Firms, g \in Groups : subscription[<<w, g>>] \in {"active", "inactive"} => Exists(g)

OwnerMatches ==
    \A g \in Groups : Exists(g) => group[g].isPrivate = (group[g].owner # NoFirm)

\* Whoever is about to link has a code, and soon a group.
LinkSound(k) ==
    /\ task[k].pc \in {"upsertGroup", "link"} => task[k].code \in DOMAIN code
    /\ task[k].pc = "link" => Exists(task[k].group)

\* The rows' names are known to history, and those messages were saved under.
NamesSound ==
    /\ \A g \in Groups : Exists(g) => <<g, group[g].name>> \in named
    /\ \A m \in message : <<m[1], m[3]>> \in named

\* The firms a message is for, and the messages a backfill has found, were
\* subscribed to when they were read.
HandlerSound(k) ==
    /\ task[k].pc \in {"lookup", "storeMessage", "parse", "handOver"} =>
         /\ <<task[k].group, task[k].name>> \in named
         /\ \A w \in task[k].firms : subscription[<<w, task[k].group>>] # "none"
    /\ task[k].pc = "findSubscriptions" => task[k].messages = {}
    /\ task[k].pc \in {"findMessages", "handCached"} =>
         /\ task[k].groups \subseteq named
         /\ \A p \in task[k].groups : subscription[<<task[k].firm, p[1]>>] # "none"
         /\ DistinctNames => \A m \in task[k].messages : subscription[<<task[k].firm, m[1]>>] # "none"

TasksSound == \A k \in Tasks : LinkSound(k) /\ HandlerSound(k)

GroupsIInv ==
    /\ GroupsInv
    /\ SubscribedExist
    /\ NamesSound
    /\ TasksSound

-----------------------------------------------------------------------------
(* Types *)

TaskRows == {Idle} \cup Linking \cup Handling \cup Backfill \cup Requesting \cup Removing

\* The step a task is at tells its kind.
LEMMA KindOf ==
    ASSUME GroupsTypeOK, NEW k \in Tasks
    PROVE  /\ task[k] \in TaskRows
           /\ task[k].pc \in {"upsertGroup", "link"} => task[k] \in Linking
           /\ task[k].pc \in {"lookup", "storeMessage", "parse", "handOver"} => task[k] \in Handling
           /\ task[k].pc \in {"findSubscriptions", "findMessages", "handCached"} => task[k] \in Backfill
           /\ task[k].pc = "createCode" => task[k] \in Requesting
           /\ task[k].pc = "deleteGroup" => task[k] \in Removing
<1>1. task[k] \in TaskRows
  BY DEF GroupsTypeOK, TaskRows
<1>2. QED BY <1>1 DEF TaskRows, Idle, Linking, Handling, Backfill, Requesting, Removing

\* A task's record changes and the others stand still.
LEMMA TaskSet ==
    ASSUME GroupsTypeOK, NEW k \in Tasks, NEW rec \in TaskRows, task' = [task EXCEPT ![k] = rec]
    PROVE  /\ task' \in [Tasks -> TaskRows]
           /\ task'[k] = rec
           /\ \A h \in Tasks \ {k} : task'[h] = task[h]
  BY DEF GroupsTypeOK, TaskRows

\* The records a message and a backfill go through.
LEMMA HandlingMoved ==
    ASSUME NEW r \in Handling
    PROVE  /\ r.group \in Groups /\ r.name \in Names /\ r.text \in Texts /\ r.firms \subseteq Firms
           /\ \A pc \in {"lookup", "storeMessage", "parse", "handOver"} :
                LET moved == [r EXCEPT !.pc = pc] IN
                moved \in Handling /\ moved.firms = r.firms /\ moved.group = r.group /\ moved.name = r.name
           /\ \A b \in BOOLEAN :
                LET moved == [r EXCEPT !.pc = "storeMessage", !.hit = b] IN
                moved \in Handling /\ moved.firms = r.firms /\ moved.group = r.group /\ moved.name = r.name
           /\ \A w \in Firms :
                LET moved == [r EXCEPT !.firms = @ \ {w}] IN
                moved \in Handling /\ moved.firms = r.firms \ {w} /\ moved.group = r.group /\ moved.name = r.name
  BY DEF Handling

LEMMA BackfillMoved ==
    ASSUME NEW r \in Backfill, NEW groups \in SUBSET (Groups \X Names), NEW messages \in SUBSET MessageRows
    PROVE  /\ r.firm \in Firms /\ r.groups \subseteq Groups \X Names /\ r.messages \subseteq MessageRows
           /\ [r EXCEPT !.pc = "findMessages", !.groups = groups] \in Backfill
           /\ \A pc \in {"findMessages", "handCached"} :
                [r EXCEPT !.pc = pc, !.groups = groups, !.messages = messages] \in Backfill
  BY DEF Backfill

LEMMA InFlightType ==
    ASSUME GroupsTypeOK, NEW w \in Firms, NEW g \in Groups
    PROVE  InFlight(w, g) \subseteq Firms \X Groups \X Texts
<1>1. \A k \in Tasks : task[k].pc \in {"lookup", "storeMessage", "parse", "handOver"} => task[k].text \in Texts
  BY KindOf, HandlingMoved
<1>2. QED BY <1>1 DEF InFlight

\* Codes after a change of their rows.
LEMMA CodesTyped ==
    ASSUME GroupsTypeOK, NEW c \in DOMAIN code, NEW g \in Groups
    PROVE  /\ code[c] \in CodeRows /\ code[c].firm \in Firms
           /\ [code EXCEPT ![c].status = "EXPIRED"] \in Seq(CodeRows)
           /\ [code EXCEPT ![c].status = "LINKED", ![c].group = @ \cup {g}] \in Seq(CodeRows)
<1>1. code \in Seq(CodeRows) /\ code[c] \in CodeRows
  BY DEF GroupsTypeOK
<1>2. /\ [code[c] EXCEPT !.status = "EXPIRED"] \in CodeRows
      /\ [code[c] EXCEPT !.status = "LINKED", !.group = @ \cup {g}] \in CodeRows
      /\ code[c].firm \in Firms
  BY <1>1 DEF CodeRows
<1>3. [code EXCEPT ![c] = [code[c] EXCEPT !.status = "EXPIRED"]] \in Seq(CodeRows)
  BY <1>1, <1>2
<1>4. [code EXCEPT ![c] = [code[c] EXCEPT !.status = "LINKED", !.group = @ \cup {g}]] \in Seq(CodeRows)
  BY <1>1, <1>2
<1>5. [code EXCEPT ![c].status = "LINKED", ![c].group = @ \cup {g}]
        = [code EXCEPT ![c] = [code[c] EXCEPT !.status = "LINKED", !.group = @ \cup {g}]]
  BY <1>1 DEF CodeRows
<1>6. QED BY <1>1, <1>2, <1>3, <1>4, <1>5

\* A firm's codes expire.
LEMMA CodesExpired ==
    ASSUME GroupsTypeOK, NEW k \in Tasks, NEW w \in Firms, CreateRequest(k, w)
    PROVE  /\ code' \in Seq(CodeRows)
           /\ \A c \in DOMAIN code : /\ c \in DOMAIN code'
                                     /\ code'[c].firm = code[c].firm
                                     /\ code'[c].group = code[c].group
<1> DEFINE old == [c \in DOMAIN code |->
                     IF code[c].firm = w /\ code[c].status = "PENDING"
                       THEN [code[c] EXCEPT !.status = "EXPIRED"] ELSE code[c]]
<1>1. code \in Seq(CodeRows)
  BY DEF GroupsTypeOK
<1>2. ASSUME NEW c \in DOMAIN code
      PROVE  /\ code[c] \in CodeRows /\ old[c] \in CodeRows
             /\ old[c].firm = code[c].firm /\ old[c].group = code[c].group
  <2>1. code[c] \in CodeRows
    BY <1>1
  <2>2. /\ [code[c] EXCEPT !.status = "EXPIRED"] \in CodeRows
        /\ [code[c] EXCEPT !.status = "EXPIRED"].firm = code[c].firm
        /\ [code[c] EXCEPT !.status = "EXPIRED"].group = code[c].group
    BY <2>1 DEF CodeRows
  <2>3. QED BY <2>1, <2>2
<1>3. old \in Seq(CodeRows) /\ DOMAIN old = DOMAIN code
  <2>1. DOMAIN code = 1..Len(code) /\ Len(code) \in Nat
    BY <1>1
  <2>2. old \in [1..Len(code) -> CodeRows]
    BY <1>2, <2>1
  <2>3. QED BY <2>1, <2>2, SeqDef
<1>4. code' = old
  BY DEF CreateRequest
<1> HIDE DEF old
<1>5. QED BY <1>2, <1>3, <1>4

\* A new one is made.
LEMMA CodeMade ==
    ASSUME GroupsTypeOK, NEW w \in Firms,
           code' = Append(code, [firm |-> w, status |-> "PENDING", group |-> {}])
    PROVE  /\ code' \in Seq(CodeRows)
           /\ \A c \in DOMAIN code : c \in DOMAIN code' /\ code'[c] = code[c]
<1> DEFINE new == [firm |-> w, status |-> "PENDING", group |-> {}]
<1>1. code \in Seq(CodeRows) /\ new \in CodeRows
  BY DEF GroupsTypeOK, CodeRows
<1> HIDE DEF new
<1>2. code' = Append(code, new)
  BY DEF new
<1>3. QED BY <1>1, <1>2

-----------------------------------------------------------------------------
(* What steps leave true *)

\* Subscriptions are never forgotten, codes never withdrawn.
SubscriptionsKept ==
    \A s \in Firms \X Groups : subscription[s] # "none" => subscription'[s] # "none"

CodesKept ==
    \A c \in DOMAIN code :
        c \in DOMAIN code' /\ code'[c].firm = code[c].firm /\ code[c].group \subseteq code'[c].group

\* The types of what tasks change, and the names of messages.
DataOK ==
    /\ message \subseteq MessageRows /\ copied \subseteq MessageRows
    /\ cached \subseteq Texts
    /\ handed \subseteq Firms \X Groups \X Texts
    /\ excused \subseteq Firms \X Groups \X Texts
    /\ events \in Nat
    /\ \A m \in message : <<m[1], m[3]>> \in named

LEMMA DataTyped ==
    ASSUME GroupsIInv
    PROVE  DataOK
  BY DEF GroupsIInv, GroupsInv, GroupsTypeOK, NamesSound, DataOK

\* So a task that stands still keeps what it knows.
LEMMA StillSound ==
    ASSUME GroupsIInv, SubscriptionsKept, CodesKept, named \subseteq named',
           NEW h \in Tasks, task'[h] = task[h],
           task[h].pc = "link" => Exists(task[h].group)'
    PROVE  LinkSound(h)' /\ HandlerSound(h)'
<1>1. LinkSound(h) /\ HandlerSound(h) /\ GroupsTypeOK
  BY DEF GroupsIInv, TasksSound, GroupsInv
<1>2. LinkSound(h)'
  BY <1>1 DEF LinkSound, CodesKept
<1>3. HandlerSound(h)'
  <2>1. CASE task[h].pc \in {"lookup", "storeMessage", "parse", "handOver"}
    <3>1. task[h].firms \subseteq Firms /\ task[h].group \in Groups
      BY <1>1, <2>1, KindOf, HandlingMoved
    <3>2. /\ \A w \in task[h].firms : subscription[<<w, task[h].group>>] # "none"
          /\ <<task[h].group, task[h].name>> \in named
      BY <1>1, <2>1 DEF HandlerSound
    <3>3. \A w \in task[h].firms : subscription'[<<w, task[h].group>>] # "none"
      BY <3>1, <3>2 DEF SubscriptionsKept
    <3>4. <<task[h].group, task[h].name>> \in named'
      BY <3>2
    <3>5. QED BY <2>1, <3>3, <3>4 DEF HandlerSound
  <2>2. CASE task[h].pc \in {"findMessages", "handCached"}
    <3>1. /\ task[h].firm \in Firms /\ task[h].groups \subseteq Groups \X Names
          /\ task[h].messages \subseteq MessageRows
      BY <1>1, <2>2, KindOf DEF Backfill
    <3>2. /\ \A p \in task[h].groups : subscription'[<<task[h].firm, p[1]>>] # "none"
          /\ task[h].groups \subseteq named'
      <4>1. /\ \A p \in task[h].groups : subscription[<<task[h].firm, p[1]>>] # "none"
            /\ task[h].groups \subseteq named
        BY <1>1, <2>2 DEF HandlerSound
      <4>2. \A p \in task[h].groups : <<task[h].firm, p[1]>> \in Firms \X Groups
        BY <3>1
      <4>3. \A p \in task[h].groups : subscription'[<<task[h].firm, p[1]>>] # "none"
        BY <4>1, <4>2 DEF SubscriptionsKept
      <4>4. QED BY <4>1, <4>3
    <3>3. DistinctNames => \A m \in task[h].messages : subscription'[<<task[h].firm, m[1]>>] # "none"
      <4>1. SUFFICES ASSUME DistinctNames, NEW m \in task[h].messages
                     PROVE  subscription'[<<task[h].firm, m[1]>>] # "none"
        OBVIOUS
      <4>2. m \in MessageRows /\ m[1] \in Groups
        BY <3>1 DEF MessageRows
      <4>3. subscription[<<task[h].firm, m[1]>>] # "none"
        BY <1>1, <2>2, <4>1 DEF HandlerSound
      <4>4. <<task[h].firm, m[1]>> \in Firms \X Groups
        BY <3>1, <4>2
      <4>5. QED BY <4>3, <4>4 DEF SubscriptionsKept
    <3>4. QED BY <2>2, <3>2, <3>3 DEF HandlerSound, DistinctNames
  <2>3. task[h].pc = "findSubscriptions" => task[h].messages = {}
    BY <1>1 DEF HandlerSound
  <2>4. QED BY <2>1, <2>2, <2>3 DEF HandlerSound
<1>4. QED BY <1>2, <1>3

\* A task's step that leaves groups, subscriptions and codes alone.
LEMMA TaskStep ==
    ASSUME GroupsIInv, NEW k \in Tasks, NEW rec \in TaskRows, task' = [task EXCEPT ![k] = rec],
           UNCHANGED <<group, named, subscription, code>>, DataOK',
           OnlySubscribers', LinkSound(k)', HandlerSound(k)'
    PROVE  GroupsIInv'
<1>1. GroupsTypeOK /\ SubscribedExist /\ NamesSound
  BY DEF GroupsIInv, GroupsInv
<1>2. /\ task' \in [Tasks -> TaskRows] /\ task'[k] = rec
      /\ \A h \in Tasks \ {k} : task'[h] = task[h]
  BY <1>1, TaskSet
<1>3. GroupsTypeOK'
  BY <1>1, <1>2 DEF GroupsTypeOK, DataOK, TaskRows
<1>4. SubscriptionsKept /\ CodesKept
  BY DEF SubscriptionsKept, CodesKept
<1>5. TasksSound'
  <2>1. ASSUME NEW h \in Tasks, h # k PROVE LinkSound(h)' /\ HandlerSound(h)'
    <3>1. task[h].pc = "link" => Exists(task[h].group)'
      BY <1>2, <2>1 DEF GroupsIInv, TasksSound, LinkSound, Exists
    <3>2. QED BY <1>2, <1>4, <2>1, <3>1, StillSound
  <2>2. QED BY <2>1 DEF TasksSound
<1>6. SubscribedExist' /\ NamesSound' /\ OwnerMatches'
  <2>1. SubscribedExist'
    BY <1>1 DEF SubscribedExist, Exists
  <2>2. NamesSound'
    BY <1>1 DEF NamesSound, DataOK, Exists
  <2>3. OwnerMatches'
    BY DEF GroupsIInv, GroupsInv, OwnerMatches, Exists
  <2>4. QED BY <2>1, <2>2, <2>3
<1>7. QED BY <1>3, <1>5, <1>6 DEF GroupsIInv, GroupsInv, OwnerMatches

\* Nothing is handed over, and the task is done or of no one's concern.
LEMMA HandedKept ==
    ASSUME GroupsIInv, named \subseteq named', UNCHANGED handed, SubscriptionsKept
    PROVE  OnlySubscribers'
<1>1. handed \subseteq Firms \X Groups \X Texts /\ OnlySubscribers
  BY DEF GroupsIInv, GroupsInv, GroupsTypeOK
<1>2. QED BY <1>1 DEF OnlySubscribers, DistinctNames, SubscriptionsKept

LEMMA HandedMore ==
    ASSUME OnlySubscribers, UNCHANGED <<named, subscription>>, NEW w \in Firms, NEW g \in Groups, NEW t \in Texts,
           DistinctNames => subscription[<<w, g>>] # "none",
           handed' \subseteq handed \cup {<<w, g, t>>}
    PROVE  OnlySubscribers'
<1>1. SUFFICES ASSUME DistinctNames, NEW d \in handed \cup {<<w, g, t>>}
               PROVE  subscription[<<d[1], d[2]>>] # "none"
  BY DEF OnlySubscribers, DistinctNames
<1>2. CASE d \in handed
  BY <1>1, <1>2 DEF OnlySubscribers
<1>3. CASE d = <<w, g, t>>
  BY <1>1, <1>3
<1>4. QED BY <1>1, <1>2, <1>3

LEMMA IdleSound ==
    ASSUME NEW k \in Tasks, task'[k] = Idle
    PROVE  LinkSound(k)' /\ HandlerSound(k)'
  BY DEF Idle, LinkSound, HandlerSound

-----------------------------------------------------------------------------
(* Messages *)

\* A group with subscribers has a name.
LEMMA NameKnown ==
    ASSUME GroupsIInv, NEW g \in Groups, Subscribers(g) # {}
    PROVE  Exists(g) /\ group[g].name \in Names /\ <<g, group[g].name>> \in named
<1>1. Exists(g)
  BY DEF GroupsIInv, SubscribedExist, Subscribers
<1>2. <<g, group[g].name>> \in named
  BY <1>1 DEF GroupsIInv, NamesSound
<1>3. QED BY <1>1, <1>2 DEF GroupsIInv, GroupsInv, GroupsTypeOK

LEMMA ArriveStep ==
    ASSUME GroupsIInv, NEW k \in Tasks, NEW g \in Groups, NEW t \in Texts, Arrive(k, g, t)
    PROVE  GroupsIInv'
<1> DEFINE rec == [pc |-> "lookup", group |-> g, name |-> group[g].name, text |-> t,
                  firms |-> Subscribers(g), hit |-> FALSE]
<1>1. /\ task' = [task EXCEPT ![k] = rec]
      /\ UNCHANGED <<group, named, subscription, code, message, cached, copied, handed, excused>>
      /\ events' = events + 1
  BY DEF Arrive, Take, Count
<1>2. rec \in TaskRows /\ <<g, group[g].name>> \in named
  BY NameKnown DEF TaskRows, Handling, Subscribers, Arrive
<1>3. GroupsTypeOK
  BY DEF GroupsIInv, GroupsInv
<1>4. task'[k] = rec
  BY <1>1, <1>2, <1>3, TaskSet
<1>5. LinkSound(k)' /\ HandlerSound(k)'
  <2>1. /\ task'[k].pc = "lookup" /\ task'[k].group = g /\ task'[k].firms = Subscribers(g)
        /\ task'[k].name = group[g].name
    BY <1>4
  <2>2. \A w \in Subscribers(g) : subscription'[<<w, g>>] # "none"
    BY <1>1 DEF Subscribers
  <2>3. QED BY <1>1, <1>2, <2>1, <2>2 DEF LinkSound, HandlerSound
<1>6. OnlySubscribers'
  BY <1>1, HandedKept DEF SubscriptionsKept
<1> HIDE DEF rec
<1>7. DataOK'
  BY <1>1, <1>3, DataTyped DEF DataOK
<1>8. QED BY <1>1, <1>2, <1>5, <1>6, <1>7, TaskStep

\* A step of a message's handler that hands nothing over.
LEMMA HandlingStep ==
    ASSUME GroupsIInv, NEW k \in Tasks, task[k].pc \in {"lookup", "storeMessage", "parse", "handOver"},
           NEW rec \in Handling, rec.firms \subseteq task[k].firms, rec.group = task[k].group,
           rec.name = task[k].name,
           task' = [task EXCEPT ![k] = rec],
           UNCHANGED <<group, named, subscription, code>>, DataOK', OnlySubscribers'
    PROVE  GroupsIInv'
<1>1. GroupsTypeOK /\ HandlerSound(k) /\ rec \in TaskRows
  BY DEF GroupsIInv, GroupsInv, TasksSound, TaskRows
<1>2. task'[k] = rec
  BY <1>1, TaskSet
<1>3. LinkSound(k)' /\ HandlerSound(k)'
  BY <1>1, <1>2 DEF LinkSound, HandlerSound, Handling
<1>4. QED BY <1>1, <1>3, TaskStep

LEMMA MessageSteps ==
    ASSUME GroupsIInv, NEW k \in Tasks,
           LookUp(k) \/ StoreMessage(k) \/ Cache(k)
    PROVE  GroupsIInv'
<1>1. /\ GroupsTypeOK /\ task[k].pc \in {"lookup", "storeMessage", "parse", "handOver"}
      /\ UNCHANGED <<group, named, subscription, code, handed, excused, events>>
  BY DEF GroupsIInv, GroupsInv, LookUp, StoreMessage, Cache, history
<1>2. task[k] \in Handling
  BY <1>1, KindOf
<1>3. OnlySubscribers'
  BY <1>1, HandedKept DEF SubscriptionsKept
<1>4. DataOK'
  <2>1. task[k].group \in Groups /\ task[k].text \in Texts /\ task[k].name \in Names
    BY <1>2, HandlingMoved
  <2>2. <<task[k].group, task[k].name>> \in named
    BY <1>1 DEF GroupsIInv, TasksSound, HandlerSound
  <2>3. CASE LookUp(k)
    BY <1>1, <2>3, DataTyped DEF LookUp, DataOK
  <2>4. CASE StoreMessage(k)
    <3>1. \A m \in message' : m \in message \/ m = <<task[k].group, task[k].text, task[k].name>>
      BY <2>4 DEF StoreMessage
    <3>2. \A m \in message' : m \in MessageRows /\ <<m[1], m[3]>> \in named
      <4>1. PICK g \in Groups, t \in Texts, n \in Names :
               g = task[k].group /\ t = task[k].text /\ n = task[k].name
        BY <2>1
      <4>2. PICK m0 : m0 = <<g, t, n>>
        OBVIOUS
      <4>6. m0 \in MessageRows /\ <<m0[1], m0[3]>> \in named
        BY <2>2, <4>1, <4>2 DEF MessageRows
      <4>3. \A m \in message : m \in MessageRows /\ <<m[1], m[3]>> \in named
        BY DataTyped DEF DataOK
      <4>4. \A m \in message' : m \in message \/ m = m0
        BY <3>1, <4>1, <4>2
      <4>5. QED BY <4>3, <4>4, <4>6
    <3>3. UNCHANGED <<cached, copied>>
      BY <2>4 DEF StoreMessage
    <3>4. QED BY <1>1, <3>2, <3>3, DataTyped DEF DataOK
  <2>5. CASE Cache(k)
    BY <1>1, <2>1, <2>5, DataTyped DEF Cache, DataOK
  <2>6. QED BY <2>3, <2>4, <2>5
<1>5. \E rec \in Handling :
         /\ rec.firms = task[k].firms /\ rec.group = task[k].group /\ rec.name = task[k].name
         /\ task' = [task EXCEPT ![k] = rec]
  <2>1. CASE LookUp(k)
    <3> DEFINE rec == [task[k] EXCEPT !.pc = "storeMessage", !.hit = task[k].text \in cached]
    <3>1. rec \in Handling /\ rec.firms = task[k].firms /\ rec.group = task[k].group /\ rec.name = task[k].name
      <4>1. (task[k].text \in cached) \in BOOLEAN
        OBVIOUS
      <4>2. QED BY <1>2, <4>1, HandlingMoved, Zenon
    <3>2. task' = [task EXCEPT ![k] = rec]
      BY <2>1 DEF LookUp, Go
    <3> HIDE DEF rec
    <3>3. QED BY <3>1, <3>2
  <2>2. CASE StoreMessage(k)
    <3> DEFINE rec == [task[k] EXCEPT !.pc = IF task[k].hit THEN "handOver" ELSE "parse"]
    <3>1. rec \in Handling /\ rec.firms = task[k].firms /\ rec.group = task[k].group /\ rec.name = task[k].name
      BY <1>2 DEF Handling
    <3>2. task' = [task EXCEPT ![k] = rec]
      BY <2>2 DEF StoreMessage, Go
    <3> HIDE DEF rec
    <3>3. QED BY <3>1, <3>2
  <2>3. CASE Cache(k)
    <3> DEFINE rec == [task[k] EXCEPT !.pc = "handOver"]
    <3>1. rec \in Handling /\ rec.firms = task[k].firms /\ rec.group = task[k].group /\ rec.name = task[k].name
      BY <1>2 DEF Handling
    <3>2. task' = [task EXCEPT ![k] = rec]
      BY <2>3 DEF Cache, Go
    <3> HIDE DEF rec
    <3>3. QED BY <3>1, <3>2
  <2>4. QED BY <2>1, <2>2, <2>3
<1>6. QED BY <1>1, <1>3, <1>4, <1>5, HandlingStep

\* A message is given up.
LEMMA GiveUpStep ==
    ASSUME GroupsIInv, NEW k \in Tasks, GiveUp(k)
    PROVE  GroupsIInv'
<1>1. /\ GroupsTypeOK /\ task[k].pc = "parse" /\ task' = [task EXCEPT ![k] = Idle]
      /\ UNCHANGED <<group, named, subscription, code, message, cached, copied, handed, events>>
      /\ excused' = excused \cup ((Firms \X {task[k].group} \X {task[k].text}) \ handed)
  BY DEF GroupsIInv, GroupsInv, GiveUp, Finish, Go
<1>2. task[k].group \in Groups /\ task[k].text \in Texts
  BY <1>1, KindOf, HandlingMoved
<1>3. Idle \in TaskRows
  BY DEF TaskRows
<1>4. OnlySubscribers'
  BY <1>1, HandedKept DEF SubscriptionsKept
<1>5. LinkSound(k)' /\ HandlerSound(k)'
  BY <1>1, <1>3, TaskSet, IdleSound
<1>6. DataOK'
  BY <1>1, <1>2, DataTyped DEF DataOK
<1>7. QED BY <1>1, <1>3, <1>4, <1>5, <1>6, TaskStep

\* A message is handed to a firm read on arrival.
LEMMA HandOverStep ==
    ASSUME GroupsIInv, NEW k \in Tasks, NEW w \in Firms, HandOver(k, w)
    PROVE  GroupsIInv'
<1>1. /\ GroupsTypeOK /\ OnlySubscribers /\ HandlerSound(k)
      /\ task[k].pc = "handOver" /\ w \in task[k].firms
      /\ handed' = handed \cup {<<w, task[k].group, task[k].text>>}
      /\ UNCHANGED <<group, named, subscription, code, message, cached, copied, excused, events>>
  BY DEF GroupsIInv, GroupsInv, TasksSound, HandOver
<1>2. task[k] \in Handling /\ task[k].group \in Groups /\ task[k].text \in Texts
  BY <1>1, KindOf, HandlingMoved
<1>3. DataOK'
  BY <1>1, <1>2, DataTyped DEF DataOK
<1>4. OnlySubscribers'
  <2>1. subscription[<<w, task[k].group>>] # "none"
    BY <1>1 DEF HandlerSound
  <2>2. QED BY <1>1, <1>2, <2>1, HandedMore
<1>5. CASE task[k].firms = {w}
  <2>1. task' = [task EXCEPT ![k] = Idle] /\ Idle \in TaskRows
    BY <1>5 DEF HandOver, Finish, Go, TaskRows
  <2>2. LinkSound(k)' /\ HandlerSound(k)'
    BY <1>1, <2>1, TaskSet, IdleSound
  <2>3. QED BY <1>1, <1>3, <1>4, <2>1, <2>2, TaskStep
<1>6. CASE task[k].firms # {w}
  <2> DEFINE rec == [task[k] EXCEPT !.firms = @ \ {w}]
  <2>1. task' = [task EXCEPT ![k] = rec]
    BY <1>6 DEF HandOver, Go
  <2>2. rec \in Handling /\ rec.firms \subseteq task[k].firms /\ rec.group = task[k].group /\ rec.name = task[k].name
    BY <1>2 DEF Handling
  <2> HIDE DEF rec
  <2>3. QED BY <1>1, <1>3, <1>4, <2>1, <2>2, HandlingStep
<1>7. QED BY <1>5, <1>6

-----------------------------------------------------------------------------
(* Backfills *)

LEMMA FindSubscriptionsStep ==
    ASSUME GroupsIInv, NEW k \in Tasks, FindSubscriptions(k)
    PROVE  GroupsIInv'
<1> DEFINE groups == {<<g, group[g].name>> :
                        g \in {h \in Groups : subscription[<<task[k].firm, h>>] = "active"}}
<1>1. /\ GroupsTypeOK /\ HandlerSound(k) /\ task[k].pc = "findSubscriptions"
      /\ UNCHANGED <<group, named, subscription, code, message, cached, copied, handed, excused, events>>
  BY DEF GroupsIInv, GroupsInv, TasksSound, FindSubscriptions, history
<1>2. DataOK'
  BY <1>1, DataTyped DEF DataOK
<1>3. OnlySubscribers'
  BY <1>1, HandedKept DEF SubscriptionsKept
<1>4. CASE groups = {}
  <2>1. task' = [task EXCEPT ![k] = Idle] /\ Idle \in TaskRows
    BY <1>4 DEF FindSubscriptions, Finish, Go, TaskRows
  <2>2. LinkSound(k)' /\ HandlerSound(k)'
    BY <1>1, <2>1, TaskSet, IdleSound
  <2>3. QED BY <1>1, <1>2, <1>3, <2>1, <2>2, TaskStep
<1>5. CASE groups # {}
  <2> DEFINE rec == [task[k] EXCEPT !.pc = "findMessages", !.groups = groups]
  <2>1. task' = [task EXCEPT ![k] = rec]
    BY <1>5 DEF FindSubscriptions, Go
  <2>2. task[k] \in Backfill /\ task[k].messages = {}
    BY <1>1, KindOf DEF HandlerSound
  <2>0. /\ groups \subseteq named /\ groups \subseteq Groups \X Names
        /\ \A p \in groups : subscription'[<<task[k].firm, p[1]>>] # "none"
    <3>1. SUFFICES ASSUME NEW g \in Groups, subscription[<<task[k].firm, g>>] = "active"
                   PROVE  /\ <<g, group[g].name>> \in named /\ <<g, group[g].name>> \in Groups \X Names
                          /\ subscription'[<<task[k].firm, g>>] # "none"
      OBVIOUS
    <3>2. Subscribers(g) # {}
      BY <2>2, <3>1 DEF Subscribers, Backfill
    <3>3. QED BY <1>1, <3>1, <3>2, NameKnown
  <2>3. /\ rec \in Backfill /\ rec.pc = "findMessages" /\ rec.messages = {}
        /\ rec.groups = groups /\ rec.firm = task[k].firm
    <3> HIDE DEF groups
    <3>1. QED BY <2>0, <2>2 DEF Backfill
  <2>4. rec \in TaskRows
    BY <2>3 DEF TaskRows
  <2>5. groups \subseteq named' /\ \A p \in groups : subscription'[<<task[k].firm, p[1]>>] # "none"
    BY <1>1, <2>0
  <2> HIDE DEF rec, groups
  <2>6. LinkSound(k)' /\ HandlerSound(k)'
    <3>1. task'[k] = rec
      BY <1>1, <2>1, <2>4, TaskSet
    <3>2. QED BY <2>3, <2>5, <3>1 DEF LinkSound, HandlerSound
  <2>7. QED BY <1>1, <1>2, <1>3, <2>1, <2>4, <2>6, TaskStep
<1>6. QED BY <1>4, <1>5

\* A backfill goes on to its next message or group.
LEMMA ProceedStep ==
    ASSUME GroupsIInv, NEW k \in Tasks, task[k].pc \in {"findMessages", "handCached"},
           NEW groups \in SUBSET task[k].groups, NEW messages \in SUBSET MessageRows,
           DistinctNames => \A m \in messages : subscription[<<task[k].firm, m[1]>>] # "none",
           Proceed(k, groups, messages),
           UNCHANGED <<group, named, subscription, code>>, DataOK', OnlySubscribers'
    PROVE  GroupsIInv'
<1>1. GroupsTypeOK /\ HandlerSound(k)
  BY DEF GroupsIInv, GroupsInv, TasksSound
<1>3. CASE groups \cup messages = {}
  <2>1. task' = [task EXCEPT ![k] = Idle] /\ Idle \in TaskRows
    BY <1>3 DEF Proceed, Finish, Go, TaskRows
  <2>2. LinkSound(k)' /\ HandlerSound(k)'
    BY <1>1, <2>1, TaskSet, IdleSound
  <2>3. QED BY <2>1, <2>2, TaskStep
<1>4. CASE groups \cup messages # {}
  <2> DEFINE rec == [task[k] EXCEPT !.pc = IF messages = {} THEN "findMessages" ELSE "handCached",
                                    !.groups = groups, !.messages = messages]
  <2>1. task' = [task EXCEPT ![k] = rec]
    BY <1>4 DEF Proceed, Go
  <2>2. task[k] \in Backfill /\ groups \subseteq Groups \X Names
    BY <1>1, KindOf DEF Backfill
  <2>3. /\ rec \in Backfill /\ rec.pc \in {"findMessages", "handCached"}
        /\ rec.messages = messages /\ rec.groups = groups /\ rec.firm = task[k].firm
    BY <2>2 DEF Backfill
  <2>4. rec \in TaskRows
    BY <2>3 DEF TaskRows
  <2> HIDE DEF rec
  <2>5. groups \subseteq named' /\ \A p \in groups : subscription'[<<task[k].firm, p[1]>>] # "none"
    BY <1>1 DEF HandlerSound
  <2>6. LinkSound(k)' /\ HandlerSound(k)'
    <3>1. task'[k] = rec
      BY <1>1, <2>1, <2>4, TaskSet
    <3>2. DistinctNames' => \A m \in messages : subscription'[<<task[k].firm, m[1]>>] # "none"
      BY DEF DistinctNames
    <3>3. QED BY <2>3, <2>5, <3>1, <3>2 DEF LinkSound, HandlerSound
  <2>7. QED BY <2>1, <2>4, <2>6, TaskStep
<1>5. QED BY <1>3, <1>4

LEMMA FindMessagesStep ==
    ASSUME GroupsIInv, NEW k \in Tasks, NEW p \in Groups \X Names, FindMessages(k, p)
    PROVE  GroupsIInv'
<1>1. /\ GroupsTypeOK /\ HandlerSound(k) /\ task[k].pc = "findMessages" /\ p \in task[k].groups
      /\ UNCHANGED <<group, named, subscription, code, message, cached, copied, handed, events>>
  BY DEF GroupsIInv, GroupsInv, TasksSound, FindMessages
<1>2. PICK found \in SUBSET Named(p[2]) :
         /\ excused' = excused \cup (PassedOver(task[k].firm, p[2], found) \ handed)
         /\ Proceed(k, task[k].groups \ {p}, found)
  BY DEF FindMessages
<1>3. found \in SUBSET MessageRows /\ task[k].groups \ {p} \in SUBSET task[k].groups
  BY <1>1 DEF GroupsTypeOK, Named
<1>4. DistinctNames => \A m \in found : subscription[<<task[k].firm, m[1]>>] # "none"
  <2>1. subscription[<<task[k].firm, p[1]>>] # "none" /\ p \in named
    BY <1>1 DEF HandlerSound
  <2>2. \A m \in found : m[3] = p[2] /\ <<m[1], m[3]>> \in named
    BY <1>2, DataTyped DEF Named, DataOK
  <2>3. QED BY <2>1, <2>2 DEF DistinctNames
<1>5. OnlySubscribers'
  BY <1>1, HandedKept DEF SubscriptionsKept
<1>6. DataOK'
  <2>1. task[k].firm \in Firms
    BY <1>1, KindOf DEF Backfill
  <2>2. PassedOver(task[k].firm, p[2], found) \subseteq Firms \X Groups \X Texts
    BY <2>1, DataTyped DEF PassedOver, Named, DataOK, MessageRows
  <2>3. QED BY <1>1, <1>2, <2>2, DataTyped DEF DataOK
<1>7. QED BY <1>1, <1>2, <1>3, <1>4, <1>5, <1>6, ProceedStep

LEMMA HandCachedStep ==
    ASSUME GroupsIInv, NEW k \in Tasks, NEW m \in message, HandCached(k, m)
    PROVE  GroupsIInv'
<1>1. /\ GroupsTypeOK /\ OnlySubscribers /\ HandlerSound(k)
      /\ task[k].pc = "handCached" /\ m \in task[k].messages
      /\ handed' \subseteq handed \cup {<<task[k].firm, m[1], m[2]>>}
      /\ copied' \subseteq copied \cup {m}
      /\ Proceed(k, task[k].groups, task[k].messages \ {m})
      /\ UNCHANGED <<group, named, subscription, code, message, cached, excused, events>>
  BY DEF GroupsIInv, GroupsInv, TasksSound, HandCached
<1>2. task[k].firm \in Firms /\ task[k].messages \in SUBSET MessageRows
  BY <1>1, KindOf DEF Backfill
<1>3. m[1] \in Groups /\ m[2] \in Texts
  BY <1>1, <1>2 DEF MessageRows
<1>4. DataOK'
  BY <1>1, <1>2, <1>3, DataTyped DEF DataOK
<1>5. DistinctNames => \A n \in task[k].messages : subscription[<<task[k].firm, n[1]>>] # "none"
  BY <1>1 DEF HandlerSound
<1>6. OnlySubscribers'
  BY <1>1, <1>2, <1>3, <1>5, HandedMore
<1>7. task[k].messages \ {m} \in SUBSET MessageRows
  BY <1>2
<1>8. QED BY <1>1, <1>4, <1>5, <1>6, <1>7, ProceedStep

-----------------------------------------------------------------------------
(* The tables *)

\* A step that disturbs the tables, and perhaps some tasks.
LEMMA TableStep ==
    ASSUME GroupsIInv, named \subseteq named', SubscriptionsKept, CodesKept,
           GroupsTypeOK', OnlySubscribers', OwnerMatches', SubscribedExist', NamesSound',
           \A h \in Tasks : \/ task'[h] = task[h] /\ (task[h].pc = "link" => Exists(task[h].group)')
                            \/ LinkSound(h)' /\ HandlerSound(h)'
    PROVE  GroupsIInv'
<1>1. TasksSound'
  BY StillSound DEF TasksSound
<1>2. QED BY <1>1 DEF GroupsIInv, GroupsInv, OwnerMatches

\* What is common to the steps that do not touch codes, nor hand anything over.
LEMMA Facts ==
    ASSUME GroupsIInv
    PROVE  /\ GroupsTypeOK /\ OnlySubscribers /\ OwnerMatches
           /\ SubscribedExist /\ NamesSound
           /\ \A k \in Tasks : LinkSound(k) /\ HandlerSound(k)
           /\ \A g \in Groups : Exists(g) => group[g] \in GroupRows
           /\ NoFirm \notin Firms
  BY GroupsAssumption DEF GroupsIInv, GroupsInv, OwnerMatches, TasksSound, GroupsTypeOK, Exists

\* A group's row is made with its name, or gets another one.
LEMMA RowWritten ==
    ASSUME GroupsIInv, NEW g \in Groups, NEW row \in GroupRows, row.isPrivate = (row.owner # NoFirm),
           WithGroup(g, row)
    PROVE  /\ group' \in [Groups -> GroupRows \cup {NoGroup}] /\ named' \subseteq Groups \X Names
           /\ events' \in Nat
           /\ named \subseteq named' /\ <<g, group'[g].name>> \in named'
           /\ group'[g] # NoGroup /\ \A h \in Groups \ {g} : group'[h] = group[h]
           /\ \A h \in Groups : Exists(h) =>
                group'[h].owner = group[h].owner /\ group'[h].isPrivate = group[h].isPrivate
           /\ group'[g].isPrivate = (group'[g].owner # NoFirm)
<1> DEFINE new == IF Exists(g) THEN [group[g] EXCEPT !.name = row.name] ELSE row
<1>1. group' = [group EXCEPT ![g] = new] /\ named' = named \cup {<<g, row.name>>}
  BY DEF WithGroup
<1>2. events' \in Nat
  BY Facts DEF WithGroup, Count, GroupsTypeOK
<1>3. row.name \in Names
  BY DEF GroupRows
<1>4. /\ new \in GroupRows /\ new.name = row.name
      /\ Exists(g) => new.owner = group[g].owner /\ new.isPrivate = group[g].isPrivate
      /\ new.isPrivate = (new.owner # NoFirm)
  <2>1. CASE Exists(g)
    <3>1. group[g] \in GroupRows /\ group[g].isPrivate = (group[g].owner # NoFirm)
      BY <2>1, Facts DEF OwnerMatches
    <3>2. new = [group[g] EXCEPT !.name = row.name]
      BY <2>1
    <3>3. new \in GroupRows /\ new.name = row.name /\ new.owner = group[g].owner
      BY <1>3, <3>1, <3>2 DEF GroupRows
    <3>4. new.isPrivate = group[g].isPrivate
      BY <1>3, <3>1, <3>2 DEF GroupRows
    <3>5. QED BY <3>1, <3>3, <3>4
  <2>2. CASE ~Exists(g)
    BY <2>2
  <2>3. QED BY <2>1, <2>2
<1>5. new # NoGroup
  <2>1. new.owner = NoFirm => ~new.isPrivate
    BY <1>4
  <2>2. NoGroup.owner = NoFirm /\ NoGroup.isPrivate
    BY DEF NoGroup
  <2>3. QED BY <2>1, <2>2
<1> HIDE DEF new
<1>6. /\ group' \in [Groups -> GroupRows \cup {NoGroup}]
      /\ group'[g] = new /\ \A h \in Groups \ {g} : group'[h] = group[h]
  BY <1>1, <1>4, Facts DEF GroupsTypeOK
<1>7. \A h \in Groups : Exists(h) =>
        group'[h].owner = group[h].owner /\ group'[h].isPrivate = group[h].isPrivate
  BY <1>4, <1>6
<1>8. named \subseteq named' /\ <<g, group'[g].name>> \in named'
  BY <1>1, <1>4, <1>6
<1>9. named' \subseteq Groups \X Names
  BY <1>1, <1>3, Facts DEF GroupsTypeOK
<1>10. group'[g].isPrivate = (group'[g].owner # NoFirm)
  BY <1>4, <1>6
<1>11. QED BY <1>2, <1>5, <1>6, <1>7, <1>8, <1>9, <1>10

\* What a written row leaves true.
LEMMA RowSound ==
    ASSUME GroupsIInv, NEW g \in Groups, NEW row \in GroupRows, row.isPrivate = (row.owner # NoFirm),
           WithGroup(g, row), UNCHANGED <<subscription, message>>
    PROVE  /\ OwnerMatches' /\ SubscribedExist' /\ NamesSound'
           /\ \A h \in Groups : Exists(h) => Exists(h)'
           /\ Exists(g)'
<1>1. /\ named \subseteq named' /\ <<g, group'[g].name>> \in named'
      /\ group'[g] # NoGroup /\ \A h \in Groups \ {g} : group'[h] = group[h]
      /\ group'[g].isPrivate = (group'[g].owner # NoFirm)
  BY RowWritten
<1>2. Exists(g)' /\ \A h \in Groups : Exists(h) => Exists(h)'
  BY <1>1 DEF Exists
<1>3. OwnerMatches'
  <2>1. SUFFICES ASSUME NEW h \in Groups, group'[h] # NoGroup
                 PROVE  group'[h].isPrivate = (group'[h].owner # NoFirm)
    BY DEF OwnerMatches, Exists
  <2>2. CASE h = g
    BY <1>1, <2>2
  <2>3. CASE h # g
    BY <1>1, <2>1, <2>3, Facts DEF OwnerMatches, Exists
  <2>4. QED BY <2>2, <2>3
<1>4. SubscribedExist'
  BY <1>2, Facts DEF SubscribedExist
<1>5. NamesSound'
  <2>1. \A h \in Groups : group'[h] # NoGroup => <<h, group'[h].name>> \in named'
    BY <1>1, Facts DEF NamesSound, Exists
  <2>2. \A m \in message : <<m[1], m[3]>> \in named'
    BY <1>1, Facts DEF NamesSound
  <2>3. QED BY <2>1, <2>2 DEF NamesSound, Exists
<1>6. QED BY <1>2, <1>3, <1>4, <1>5

LEMMA SyncGroupStep ==
    ASSUME GroupsIInv, NEW g \in Groups, NEW n \in Names, SyncGroup(g, n)
    PROVE  GroupsIInv'
<1> DEFINE row == [name |-> n, isPrivate |-> FALSE, owner |-> NoFirm]
<1>1. /\ WithGroup(g, row)
      /\ UNCHANGED <<subscription, code, message, cached, copied, handed, excused, task>>
  BY DEF SyncGroup
<1>2. row \in GroupRows /\ row.isPrivate = (row.owner # NoFirm)
  BY DEF GroupRows
<1> HIDE DEF row
<1>3. /\ group' \in [Groups -> GroupRows \cup {NoGroup}] /\ named' \subseteq Groups \X Names
      /\ events' \in Nat /\ named \subseteq named'
  BY <1>1, <1>2, RowWritten
<1>4. GroupsTypeOK'
  BY <1>1, <1>3, Facts DEF GroupsTypeOK
<1>5. /\ OwnerMatches' /\ SubscribedExist' /\ NamesSound'
      /\ \A h \in Groups : Exists(h) => Exists(h)'
  BY <1>1, <1>2, RowSound
<1>6. SubscriptionsKept /\ CodesKept
  BY <1>1 DEF SubscriptionsKept, CodesKept
<1>7. OnlySubscribers'
  BY <1>1, <1>3, <1>6, HandedKept
<1>8. \A h \in Tasks : task[h].pc = "link" => Exists(task[h].group)'
  <2>1. SUFFICES ASSUME NEW h \in Tasks, task[h].pc = "link" PROVE Exists(task[h].group)'
    OBVIOUS
  <2>2. task[h].group \in Groups /\ Exists(task[h].group)
    BY <2>1, Facts, KindOf DEF LinkSound, Linking
  <2>3. PICK h0 \in Groups : h0 = task[h].group
    BY <2>2
  <2>4. Exists(h0)'
    BY <1>5, <2>2, <2>3
  <2>5. QED BY <1>1, <2>3, <2>4 DEF Exists
<1>9. QED BY <1>1, <1>3, <1>4, <1>5, <1>6, <1>7, <1>8, TableStep

\* Tasks stand still and groups do.
LEMMA LinksKept ==
    ASSUME GroupsIInv, UNCHANGED group, NEW h \in Tasks, task'[h] = task[h], task[h].pc = "link"
    PROVE  Exists(task[h].group)'
  BY Facts DEF LinkSound, Exists

LEMMA NamesKept ==
    ASSUME GroupsIInv, UNCHANGED <<group, named, message>>
    PROVE  NamesSound'
  BY Facts DEF NamesSound, Exists

\* What a firm may miss.
LEMMA ExcuseTyped ==
    ASSUME GroupsIInv, NEW w \in Firms, NEW g \in Groups, NEW missed \in SUBSET (Firms \X Groups \X Texts),
           Excuse(w, g, missed)
    PROVE  excused' \subseteq Firms \X Groups \X Texts
  BY Facts DEF Excuse, GroupsTypeOK

\* A subscription is set.
LEMMA SubscriptionSet ==
    ASSUME GroupsTypeOK, NEW w \in Firms, NEW g \in Groups, NEW status \in {"active", "inactive"},
           subscription' = [subscription EXCEPT ![<<w, g>>] = status]
    PROVE  /\ subscription' \in [Firms \X Groups -> {"none", "active", "inactive", "deleted"}]
           /\ SubscriptionsKept
           /\ subscription'[<<w, g>>] = status
           /\ \A v \in Firms, h \in Groups :
                <<v, h>> # <<w, g>> => subscription'[<<v, h>>] = subscription[<<v, h>>]
  BY DEF GroupsTypeOK, SubscriptionsKept

LEMMA SubscribeStep ==
    ASSUME GroupsIInv, NEW k \in Tasks, NEW w \in Firms, NEW g \in Groups, Subscribe(k, w, g)
    PROVE  GroupsIInv'
<1> DEFINE rec == [pc |-> "findSubscriptions", firm |-> w, groups |-> {}, messages |-> {}]
<1>1. /\ Exists(g)
      /\ task' = [task EXCEPT ![k] = rec]
      /\ subscription' = [subscription EXCEPT ![<<w, g>>] = "active"]
      /\ Excuse(w, g, InFlight(w, g))
      /\ UNCHANGED <<group, named, code, message, cached, copied, handed, events>>
  BY DEF Subscribe, Take
<1>2. rec \in TaskRows /\ rec.pc = "findSubscriptions" /\ rec.messages = {}
  BY DEF TaskRows, Backfill
<1> HIDE DEF rec
<1>4. /\ subscription' \in [Firms \X Groups -> {"none", "active", "inactive", "deleted"}]
      /\ SubscriptionsKept
      /\ \A v \in Firms, h \in Groups :
           <<v, h>> # <<w, g>> => subscription'[<<v, h>>] = subscription[<<v, h>>]
  BY <1>1, Facts, SubscriptionSet
<1>5. /\ task' \in [Tasks -> TaskRows] /\ task'[k] = rec
      /\ \A h \in Tasks \ {k} : task'[h] = task[h]
  BY <1>1, <1>2, Facts, TaskSet
<1>6. GroupsTypeOK'
  BY <1>1, <1>4, <1>5, Facts, InFlightType, ExcuseTyped DEF GroupsTypeOK, TaskRows
<1>7. OnlySubscribers' /\ CodesKept
  BY <1>1, <1>4, HandedKept DEF CodesKept
<1>9. OwnerMatches' /\ NamesSound'
  BY <1>1, Facts, NamesKept DEF OwnerMatches, Exists
<1>10. SubscribedExist'
  <2>1. SUFFICES ASSUME NEW v \in Firms, NEW h \in Groups, subscription'[<<v, h>>] \in {"active", "inactive"}
                 PROVE  Exists(h)
    BY <1>1 DEF SubscribedExist, Exists
  <2>2. CASE <<v, h>> = <<w, g>>
    BY <1>1, <2>2
  <2>3. CASE <<v, h>> # <<w, g>>
    BY <1>4, <2>1, <2>3, Facts DEF SubscribedExist
  <2>4. QED BY <2>2, <2>3
<1>11. LinkSound(k)' /\ HandlerSound(k)'
  BY <1>2, <1>5 DEF LinkSound, HandlerSound
<1>12. \A h \in Tasks \ {k} : task[h].pc = "link" => Exists(task[h].group)'
  BY <1>1, <1>5, LinksKept
<1>13. QED BY <1>1, <1>4, <1>5, <1>6, <1>7, <1>9, <1>10, <1>11, <1>12, TableStep

LEMMA UnsubscribeStep ==
    ASSUME GroupsIInv, NEW w \in Firms, NEW g \in Groups, Unsubscribe(w, g)
    PROVE  GroupsIInv'
<1>1. /\ subscription[<<w, g>>] = "active"
      /\ subscription' = [subscription EXCEPT ![<<w, g>>] = "inactive"]
      /\ events' = events + 1
      /\ UNCHANGED <<group, named, code, message, cached, copied, handed, excused, task>>
  BY DEF Unsubscribe, Count
<1>2. /\ subscription' \in [Firms \X Groups -> {"none", "active", "inactive", "deleted"}]
      /\ SubscriptionsKept /\ subscription'[<<w, g>>] = "inactive"
      /\ \A v \in Firms, h \in Groups :
           <<v, h>> # <<w, g>> => subscription'[<<v, h>>] = subscription[<<v, h>>]
  BY <1>1, Facts, SubscriptionSet
<1>3. GroupsTypeOK'
  BY <1>1, <1>2, Facts DEF GroupsTypeOK
<1>4. OnlySubscribers' /\ CodesKept
  BY <1>1, <1>2, HandedKept DEF CodesKept
<1>7. OwnerMatches' /\ NamesSound'
  BY <1>1, Facts, NamesKept DEF OwnerMatches, Exists
<1>8. SubscribedExist'
  <2>1. \A v \in Firms, h \in Groups :
          subscription'[<<v, h>>] \in {"active", "inactive"} => subscription[<<v, h>>] \in {"active", "inactive"}
    BY <1>1, <1>2
  <2>2. QED BY <1>1, <2>1, Facts DEF SubscribedExist, Exists
<1>9. \A h \in Tasks : task[h].pc = "link" => Exists(task[h].group)'
  BY <1>1, LinksKept
<1>10. QED BY <1>1, <1>2, <1>3, <1>4, <1>7, <1>8, <1>9, TableStep

LEMMA RemoveGroupStep ==
    ASSUME GroupsIInv, NEW k \in Tasks, NEW g \in Groups, RemoveGroup(k, g)
    PROVE  GroupsIInv'
<1> DEFINE rec == [pc |-> "deleteGroup", group |-> g]
<1>1. /\ task' = [task EXCEPT ![k] = rec]
      /\ subscription' = [s \in Firms \X Groups |->
                            IF s[2] = g /\ subscription[s] # "none" THEN "deleted" ELSE subscription[s]]
      /\ events' = events + 1
      /\ UNCHANGED <<group, named, code, message, cached, copied, handed, excused>>
  BY DEF RemoveGroup, Take, Count
<1>2. rec \in TaskRows /\ rec.pc = "deleteGroup"
  BY DEF TaskRows, Removing
<1> HIDE DEF rec
<1>3. /\ task' \in [Tasks -> TaskRows] /\ task'[k] = rec
      /\ \A h \in Tasks \ {k} : task'[h] = task[h]
  BY <1>1, <1>2, Facts, TaskSet
<1>4. subscription \in [Firms \X Groups -> {"none", "active", "inactive", "deleted"}]
  BY Facts DEF GroupsTypeOK
<1>5. /\ subscription' \in [Firms \X Groups -> {"none", "active", "inactive", "deleted"}]
      /\ SubscriptionsKept
  BY <1>1, <1>4 DEF SubscriptionsKept
<1>6. \A v \in Firms, h \in Groups :
        subscription'[<<v, h>>] \in {"active", "inactive"} => subscription'[<<v, h>>] = subscription[<<v, h>>]
  BY <1>1, <1>4
<1>7. GroupsTypeOK'
  BY <1>1, <1>3, <1>5, Facts DEF GroupsTypeOK, TaskRows
<1>8. OnlySubscribers' /\ CodesKept
  BY <1>1, <1>5, HandedKept DEF CodesKept
<1>10. OwnerMatches' /\ NamesSound' /\ SubscribedExist'
  BY <1>1, <1>6, Facts, NamesKept DEF OwnerMatches, SubscribedExist, Exists
<1>11. LinkSound(k)' /\ HandlerSound(k)'
  BY <1>2, <1>3 DEF LinkSound, HandlerSound
<1>12. \A h \in Tasks \ {k} : task[h].pc = "link" => Exists(task[h].group)'
  BY <1>1, <1>3, LinksKept
<1>13. QED BY <1>1, <1>3, <1>5, <1>7, <1>8, <1>10, <1>11, <1>12, TableStep

LEMMA DeleteGroupStep ==
    ASSUME GroupsIInv, NEW k \in Tasks, DeleteGroup(k)
    PROVE  GroupsIInv'
<1>1. /\ task[k].pc = "deleteGroup"
      /\ UNCHANGED <<named, subscription, code, message, cached, copied, handed, excused, events>>
  BY DEF DeleteGroup, history
<1>2. PICK g \in Groups : g = task[k].group
  BY <1>1, Facts, KindOf DEF Removing
<1>3. OnlySubscribers' /\ SubscriptionsKept /\ CodesKept
  BY <1>1, HandedKept DEF SubscriptionsKept, CodesKept
<1>4. CASE \E w \in Firms : subscription[<<w, g>>] \in {"active", "inactive"}
  <2>1. task' = [task EXCEPT ![k] = Idle] /\ Idle \in TaskRows /\ UNCHANGED group
    BY <1>2, <1>4 DEF DeleteGroup, Finish, Go, TaskRows
  <2>2. LinkSound(k)' /\ HandlerSound(k)'
    BY <2>1, Facts, TaskSet, IdleSound
  <2>3. DataOK'
    BY <1>1, Facts, DataTyped DEF DataOK
  <2>4. QED BY <1>1, <1>3, <2>1, <2>2, <2>3, TaskStep
<1>5. CASE ~ \E w \in Firms : subscription[<<w, g>>] \in {"active", "inactive"}
  <2>1. /\ group' = [group EXCEPT ![g] = NoGroup]
        /\ task' = [h \in Tasks |->
              IF h = k \/ (task[h].pc \in {"link", "deleteGroup"} /\ task[h].group = g)
                THEN Idle ELSE task[h]]
    BY <1>2, <1>5 DEF DeleteGroup
  <2>3. /\ group' \in [Groups -> GroupRows \cup {NoGroup}] /\ group'[g] = NoGroup
        /\ \A h \in Groups \ {g} : group'[h] = group[h]
    BY <1>2, <2>1, Facts DEF GroupsTypeOK
  <2>4. task' \in [Tasks -> TaskRows]
    <3>1. Idle \in TaskRows /\ \A h \in Tasks : task[h] \in TaskRows
      BY Facts, KindOf DEF TaskRows
    <3>2. QED BY <2>1, <3>1
  <2>5. GroupsTypeOK'
    BY <1>1, <2>1, <2>3, <2>4, Facts DEF GroupsTypeOK, TaskRows
  <2>7. OwnerMatches'
    <3>1. ~Exists(g)'
      BY <2>3 DEF Exists
    <3>2. \A h \in Groups \ {g} : Exists(h)' => group'[h].isPrivate = (group'[h].owner # NoFirm)
      BY <2>3, Facts DEF OwnerMatches, Exists
    <3>3. QED BY <3>1, <3>2 DEF OwnerMatches
  <2>8. SubscribedExist'
    <3>1. SUFFICES ASSUME NEW h \in Groups, NEW v \in Firms, subscription[<<v, h>>] \in {"active", "inactive"}
                   PROVE  Exists(h)'
      BY <1>1 DEF SubscribedExist
    <3>2. h # g
      BY <1>5, <3>1
    <3>3. QED BY <2>3, <3>1, <3>2, Facts DEF SubscribedExist, Exists
  <2>9. NamesSound'
    <3>1. \A h \in Groups : Exists(h)' => h # g /\ group'[h] = group[h]
      BY <2>3 DEF Exists
    <3>2. \A h \in Groups : Exists(h)' => <<h, group'[h].name>> \in named
      BY <2>3, <3>1, Facts DEF NamesSound, Exists
    <3>3. QED BY <1>1, <3>2, Facts DEF NamesSound
  <2>10. ASSUME NEW h \in Tasks
         PROVE  \/ task'[h] = task[h] /\ (task[h].pc = "link" => Exists(task[h].group)')
                \/ LinkSound(h)' /\ HandlerSound(h)'
    <3>1. CASE task'[h] = Idle
      BY <3>1, IdleSound
    <3>2. CASE task'[h] # Idle
      <4>1. task'[h] = task[h] /\ (task[h].pc = "link" => task[h].group # g)
        BY <2>1, <3>2
      <4>2. task[h].pc = "link" => task[h].group \in Groups /\ Exists(task[h].group)
        BY Facts, KindOf DEF LinkSound, Linking
      <4>3. QED BY <2>3, <4>1, <4>2 DEF Exists
    <3>3. QED BY <3>1, <3>2
  <2>11. QED BY <1>1, <1>3, <2>5, <2>7, <2>8, <2>9, <2>10, TableStep
<1>6. QED BY <1>4, <1>5

-----------------------------------------------------------------------------
(* Codes *)

\* Rows of the codes change, their firms and the groups they have linked not.
LEMMA CodeStep ==
    ASSUME GroupsIInv, UNCHANGED <<group, named, subscription, message, cached, copied, handed, excused, task>>,
           events' \in Nat, code' \in Seq(CodeRows), CodesKept
    PROVE  GroupsIInv'
<1>1. GroupsTypeOK'
  BY Facts DEF GroupsTypeOK
<1>2. OnlySubscribers' /\ SubscriptionsKept
  BY HandedKept DEF SubscriptionsKept
<1>4. OwnerMatches' /\ NamesSound' /\ SubscribedExist'
  BY Facts, NamesKept DEF OwnerMatches, SubscribedExist, Exists
<1>5. \A h \in Tasks : task[h].pc = "link" => Exists(task[h].group)'
  BY LinksKept
<1>6. QED BY <1>1, <1>2, <1>4, <1>5, TableStep

\* Codes change as a task's request is begun, or done.
LEMMA RequestStep ==
    ASSUME GroupsIInv, NEW k \in Tasks, NEW rec \in TaskRows, rec = Idle \/ rec.pc = "createCode",
           task' = [task EXCEPT ![k] = rec], events' \in Nat, code' \in Seq(CodeRows), CodesKept,
           UNCHANGED <<group, named, subscription, message, cached, copied, handed, excused>>
    PROVE  GroupsIInv'
<1>1. /\ task' \in [Tasks -> TaskRows] /\ task'[k] = rec
      /\ \A h \in Tasks \ {k} : task'[h] = task[h]
  BY Facts, TaskSet
<1>2. GroupsTypeOK'
  BY <1>1, Facts DEF GroupsTypeOK, TaskRows
<1>3. OnlySubscribers' /\ SubscriptionsKept
  BY HandedKept DEF SubscriptionsKept
<1>4. OwnerMatches' /\ NamesSound' /\ SubscribedExist'
  BY Facts, NamesKept DEF OwnerMatches, SubscribedExist, Exists
<1>5. LinkSound(k)' /\ HandlerSound(k)'
  BY <1>1 DEF LinkSound, HandlerSound, Idle
<1>6. \A h \in Tasks \ {k} : task[h].pc = "link" => Exists(task[h].group)'
  BY <1>1, LinksKept
<1>7. QED BY <1>1, <1>2, <1>3, <1>4, <1>5, <1>6, TableStep

LEMMA CreateRequestStep ==
    ASSUME GroupsIInv, NEW k \in Tasks, NEW w \in Firms, CreateRequest(k, w)
    PROVE  GroupsIInv'
<1>1. code' \in Seq(CodeRows) /\ CodesKept
  BY Facts, CodesExpired DEF CodesKept
<1>2. events' \in Nat
  BY Facts DEF CreateRequest, Count, GroupsTypeOK
<1> DEFINE rec == [pc |-> "createCode", firm |-> w]
<1>3. /\ UNCHANGED <<group, named, subscription, message, cached, copied, handed, excused>>
      /\ task' = [task EXCEPT ![k] = rec]
  BY DEF CreateRequest, Take
<1>4. rec \in TaskRows /\ rec.pc = "createCode"
  BY DEF TaskRows, Requesting
<1> HIDE DEF rec
<1>5. QED BY <1>1, <1>2, <1>3, <1>4, RequestStep

LEMMA CreateCodeStep ==
    ASSUME GroupsIInv, NEW k \in Tasks, CreateCode(k)
    PROVE  GroupsIInv'
<1>1. /\ task[k].pc = "createCode"
      /\ code' = Append(code, [firm |-> task[k].firm, status |-> "PENDING", group |-> {}])
      /\ task' = [task EXCEPT ![k] = Idle]
      /\ UNCHANGED <<group, named, subscription, message, cached, copied, handed, excused, events>>
  BY DEF CreateCode, Finish, Go, history
<1>2. PICK w \in Firms : w = task[k].firm
  BY <1>1, Facts, KindOf DEF Requesting
<1>3. code' \in Seq(CodeRows) /\ CodesKept
  BY <1>1, <1>2, Facts, CodeMade DEF CodesKept
<1>4. events' \in Nat /\ Idle \in TaskRows
  BY <1>1, Facts DEF GroupsTypeOK, TaskRows
<1>5. QED BY <1>1, <1>3, <1>4, RequestStep

LEMMA CodeExpiresStep ==
    ASSUME GroupsIInv, NEW c \in DOMAIN code, CodeExpires(c)
    PROVE  GroupsIInv'
<1>1. /\ code' = [code EXCEPT ![c].status = "EXPIRED"]
      /\ UNCHANGED <<group, named, subscription, message, cached, copied, handed, excused, events, task>>
  BY DEF CodeExpires, history
<1>2. code \in Seq(CodeRows)
  BY Facts DEF GroupsTypeOK
<1>3. code[c] \in CodeRows
  BY <1>2
<1> DEFINE row == [code[c] EXCEPT !.status = "EXPIRED"]
<1>4. row \in CodeRows /\ row.firm = code[c].firm /\ row.group = code[c].group
  BY <1>3 DEF CodeRows
<1>5. code' = [code EXCEPT ![c] = row]
  BY <1>1
<1> HIDE DEF row
<1>6. code' \in Seq(CodeRows) /\ CodesKept
  BY <1>2, <1>4, <1>5 DEF CodesKept
<1>7. events' \in Nat
  BY <1>1, Facts DEF GroupsTypeOK
<1>8. QED BY <1>1, <1>6, <1>7, CodeStep

LEMMA PostCodeStep ==
    ASSUME GroupsIInv, NEW k \in Tasks, NEW c \in DOMAIN code, NEW g \in Groups, PostCode(k, c, g)
    PROVE  GroupsIInv'
<1> DEFINE rec == [pc |-> "upsertGroup", code |-> c, group |-> g]
<1>1. /\ task' = [task EXCEPT ![k] = rec]
      /\ UNCHANGED <<group, named, subscription, code, message, cached, copied, handed, excused, events>>
  BY DEF PostCode, Take, history
<1>2. c \in Nat
  BY Facts DEF GroupsTypeOK
<1>3. rec \in TaskRows /\ rec.pc = "upsertGroup" /\ rec.code = c
  BY <1>2 DEF TaskRows, Linking
<1> HIDE DEF rec
<1>4. task'[k] = rec
  BY <1>1, <1>3, Facts, TaskSet
<1>5. LinkSound(k)' /\ HandlerSound(k)'
  BY <1>1, <1>3, <1>4 DEF LinkSound, HandlerSound
<1>6. OnlySubscribers'
  BY <1>1, HandedKept DEF SubscriptionsKept
<1>7. DataOK'
  BY <1>1, Facts, DataTyped DEF DataOK
<1>8. QED BY <1>1, <1>3, <1>5, <1>6, <1>7, TaskStep

LEMMA UpsertGroupStep ==
    ASSUME GroupsIInv, NEW k \in Tasks, NEW n \in Names, UpsertGroup(k, n)
    PROVE  GroupsIInv'
<1> DEFINE row == [name |-> n, isPrivate |-> TRUE, owner |-> code[task[k].code].firm]
           rec == [task[k] EXCEPT !.pc = "link"]
<1>1. task[k].pc = "upsertGroup" /\ task[k] \in Linking /\ task[k].code \in DOMAIN code
  BY Facts, KindOf DEF UpsertGroup, LinkSound
<1>2. PICK g \in Groups : g = task[k].group
  BY <1>1 DEF Linking
<1>3. /\ WithGroup(g, row)
      /\ task' = [task EXCEPT ![k] = rec]
      /\ UNCHANGED <<subscription, code, message, cached, copied, handed, excused>>
  BY <1>2 DEF UpsertGroup, Go
<1>4. row \in GroupRows /\ row.isPrivate = (row.owner # NoFirm)
  <2>1. code[task[k].code].firm \in Firms
    BY <1>1, <1>2, Facts, CodesTyped
  <2>2. QED BY <2>1, Facts DEF GroupRows
<1>5. rec \in TaskRows /\ rec.pc = "link" /\ rec.code = task[k].code /\ rec.group = g
  BY <1>2, <1>1 DEF TaskRows, Linking
<1> HIDE DEF row, rec
<1>6. /\ task' \in [Tasks -> TaskRows] /\ task'[k] = rec
      /\ \A h \in Tasks \ {k} : task'[h] = task[h]
  BY <1>3, <1>5, Facts, TaskSet
<1>7. /\ group' \in [Groups -> GroupRows \cup {NoGroup}] /\ named' \subseteq Groups \X Names
      /\ events' \in Nat /\ named \subseteq named'
  BY <1>3, <1>4, RowWritten
<1>8. /\ OwnerMatches' /\ SubscribedExist' /\ NamesSound'
      /\ Exists(g)' /\ \A h \in Groups : Exists(h) => Exists(h)'
  BY <1>3, <1>4, RowSound
<1>9. GroupsTypeOK'
  BY <1>3, <1>6, <1>7, Facts DEF GroupsTypeOK, TaskRows
<1>10. SubscriptionsKept /\ CodesKept
  BY <1>3 DEF SubscriptionsKept, CodesKept
<1>11. OnlySubscribers'
  BY <1>3, <1>7, <1>10, HandedKept
<1>12. LinkSound(k)' /\ HandlerSound(k)'
  BY <1>3, <1>1, <1>5, <1>6, <1>8 DEF LinkSound, HandlerSound, Exists
<1>13. \A h \in Tasks \ {k} : task[h].pc = "link" => Exists(task[h].group)'
  <2>1. SUFFICES ASSUME NEW h \in Tasks \ {k}, task[h].pc = "link" PROVE Exists(task[h].group)'
    OBVIOUS
  <2>2. task[h].group \in Groups /\ Exists(task[h].group)
    BY <2>1, Facts, KindOf DEF LinkSound, Linking
  <2>3. PICK h0 \in Groups : h0 = task[h].group
    BY <2>2
  <2>4. Exists(h0)'
    BY <1>8, <2>2, <2>3
  <2>5. task'[h] = task[h]
    BY <1>6
  <2>6. QED BY <2>3, <2>4, <2>5 DEF Exists
<1>14. QED BY <1>6, <1>7, <1>8, <1>9, <1>10, <1>11, <1>12, <1>13, TableStep

\* The code's firm subscribes.
LEMMA LinkStep ==
    ASSUME GroupsIInv, NEW k \in Tasks, Link(k)
    PROVE  GroupsIInv'
<1>1. task[k].pc = "link" /\ task[k] \in Linking /\ task[k].code \in DOMAIN code /\ Exists(task[k].group)
  BY Facts, KindOf DEF Link, LinkSound
<1>2. PICK c \in DOMAIN code : c = task[k].code
  BY <1>1
<1>3. PICK g \in Groups : g = task[k].group
  BY <1>1 DEF Linking
<1>4. PICK w \in Firms : w = code[c].firm
  BY Facts, CodesTyped, <1>3
<1>5. /\ code' = [code EXCEPT ![c].status = "LINKED", ![c].group = @ \cup {g}]
      /\ subscription' = [subscription EXCEPT ![<<w, g>>] = "active"]
      /\ Excuse(w, g, InFlight(w, g) \cup {<<w, g, m[2]>> : m \in Messages(g)})
      /\ task' = [task EXCEPT ![k] = Idle]
      /\ UNCHANGED <<group, named, message, cached, copied, handed, events>>
  BY <1>2, <1>3, <1>4 DEF Link, Finish, Go
<1>6. code \in Seq(CodeRows) /\ code[c] \in CodeRows
  BY Facts DEF GroupsTypeOK
<1> DEFINE row == [code[c] EXCEPT !.status = "LINKED", !.group = @ \cup {g}]
<1>7. row \in CodeRows /\ row.firm = w /\ row.group = code[c].group \cup {g}
  BY <1>4, <1>6 DEF CodeRows
<1>8. code' = [code EXCEPT ![c] = row]
  BY <1>5, <1>6 DEF CodeRows
<1> HIDE DEF row
<1>9. code' \in Seq(CodeRows) /\ CodesKept /\ c \in DOMAIN code' /\ code'[c] = row
  BY <1>4, <1>6, <1>7, <1>8 DEF CodesKept
<1>10. /\ subscription' \in [Firms \X Groups -> {"none", "active", "inactive", "deleted"}]
       /\ SubscriptionsKept
       /\ \A v \in Firms, h \in Groups :
            <<v, h>> # <<w, g>> => subscription'[<<v, h>>] = subscription[<<v, h>>]
  BY <1>5, Facts, SubscriptionSet
<1>11. Idle \in TaskRows
  BY DEF TaskRows
<1>12. /\ task' \in [Tasks -> TaskRows] /\ task'[k] = Idle
       /\ \A h \in Tasks \ {k} : task'[h] = task[h]
  BY <1>5, <1>11, Facts, TaskSet
<1>13. GroupsTypeOK'
  <2>1. InFlight(w, g) \cup {<<w, g, m[2]>> : m \in Messages(g)} \subseteq Firms \X Groups \X Texts
    BY Facts, InFlightType DEF GroupsTypeOK, Messages, MessageRows
  <2>2. excused' \subseteq Firms \X Groups \X Texts
    BY <1>5, <2>1, ExcuseTyped
  <2>3. QED BY <1>5, <1>9, <1>10, <1>12, <2>2, Facts DEF GroupsTypeOK, TaskRows
<1>14. OnlySubscribers'
  BY <1>5, <1>10, HandedKept
<1>16. OwnerMatches' /\ NamesSound'
  BY <1>5, Facts, NamesKept DEF OwnerMatches, Exists
<1>17. SubscribedExist'
  <2>1. SUFFICES ASSUME NEW v \in Firms, NEW h \in Groups, subscription'[<<v, h>>] \in {"active", "inactive"}
                 PROVE  Exists(h)
    BY <1>5 DEF SubscribedExist, Exists
  <2>2. CASE <<v, h>> = <<w, g>>
    BY <1>1, <1>3, <2>2
  <2>3. CASE <<v, h>> # <<w, g>>
    BY <1>10, <2>1, <2>3, Facts DEF SubscribedExist
  <2>4. QED BY <2>2, <2>3
<1>18. LinkSound(k)' /\ HandlerSound(k)'
  BY <1>12, IdleSound
<1>19. \A h \in Tasks \ {k} : task[h].pc = "link" => Exists(task[h].group)'
  BY <1>5, <1>12, LinksKept
<1>20. QED BY <1>5, <1>9, <1>10, <1>12, <1>13, <1>14, <1>16, <1>17, <1>18, <1>19, TableStep

-----------------------------------------------------------------------------
(* The theorems *)

LEMMA InitSound ==
    ASSUME Init PROVE GroupsIInv
<1>1. GroupsTypeOK
  <2>1. << >> \in Seq(CodeRows)
    OBVIOUS
  <2>2. QED BY <2>1 DEF Init, GroupsTypeOK
<1>2. OnlySubscribers /\ SubscribedExist /\ NamesSound
  BY DEF Init, OnlySubscribers, SubscribedExist, NamesSound, Exists
<1>3. OwnerMatches
  BY DEF Init, OwnerMatches, Exists
<1>4. TasksSound
  BY DEF Init, Idle, TasksSound, LinkSound, HandlerSound
<1>5. QED BY <1>1, <1>2, <1>3, <1>4 DEF GroupsIInv, GroupsInv, OwnerMatches

LEMMA StutterStep ==
    ASSUME GroupsIInv, UNCHANGED vars
    PROVE  GroupsIInv'
<1>1. UNCHANGED <<group, named, subscription, code, message, cached, copied, handed, excused, events, task>>
  BY DEF vars
<1>2. events' \in Nat /\ code' \in Seq(CodeRows) /\ CodesKept
  BY <1>1, Facts DEF GroupsTypeOK, CodesKept
<1>3. QED BY <1>1, <1>2, CodeStep

LEMMA NextStep ==
    ASSUME GroupsIInv, [Next]_vars
    PROVE  GroupsIInv'
<1>1. CASE UNCHANGED vars
  BY <1>1, StutterStep
<1>2. ASSUME NEW k \in Tasks,
             \/ DeleteGroup(k) \/ CreateCode(k) \/ Link(k)
             \/ LookUp(k) \/ StoreMessage(k) \/ GiveUp(k) \/ Cache(k)
             \/ FindSubscriptions(k)
      PROVE  GroupsIInv'
  BY <1>2, DeleteGroupStep, CreateCodeStep, LinkStep, MessageSteps, GiveUpStep, FindSubscriptionsStep
<1>3. ASSUME NEW k \in Tasks, NEW w \in Firms, HandOver(k, w) \/ CreateRequest(k, w)
      PROVE  GroupsIInv'
  BY <1>3, HandOverStep, CreateRequestStep
<1>4. ASSUME NEW k \in Tasks, NEW g \in Groups, RemoveGroup(k, g)
      PROVE  GroupsIInv'
  BY <1>4, RemoveGroupStep
<1>5. ASSUME NEW k \in Tasks, NEW w \in Firms, NEW g \in Groups, Subscribe(k, w, g)
      PROVE  GroupsIInv'
  BY <1>5, SubscribeStep
<1>6. ASSUME NEW k \in Tasks, NEW g \in Groups, NEW t \in Texts, Arrive(k, g, t)
      PROVE  GroupsIInv'
  BY <1>6, ArriveStep
<1>7. ASSUME NEW k \in Tasks, NEW m \in message, HandCached(k, m)
      PROVE  GroupsIInv'
  BY <1>7, HandCachedStep
<1>8. ASSUME NEW k \in Tasks, NEW c \in DOMAIN code, NEW g \in Groups, PostCode(k, c, g)
      PROVE  GroupsIInv'
  BY <1>8, PostCodeStep
<1>9. ASSUME NEW g \in Groups, NEW n \in Names, SyncGroup(g, n)
      PROVE  GroupsIInv'
  BY <1>9, SyncGroupStep
<1>10. ASSUME NEW k \in Tasks, NEW n \in Names, UpsertGroup(k, n)
       PROVE  GroupsIInv'
  BY <1>10, UpsertGroupStep
<1>11. ASSUME NEW w \in Firms, NEW g \in Groups, Unsubscribe(w, g)
       PROVE  GroupsIInv'
  BY <1>11, UnsubscribeStep
<1>12. ASSUME NEW c \in DOMAIN code, CodeExpires(c)
       PROVE  GroupsIInv'
  BY <1>12, CodeExpiresStep
<1>13. ASSUME NEW k \in Tasks, NEW p \in Groups \X Names, FindMessages(k, p)
       PROVE  GroupsIInv'
  BY <1>13, FindMessagesStep
<1>14. QED
  BY <1>1, <1>2, <1>3, <1>4, <1>5, <1>6, <1>7, <1>8, <1>9, <1>10, <1>11, <1>12, <1>13 DEF Next

\* The invariant holds of every behaviour.
THEOREM Invariance == Spec => []GroupsIInv
<1>1. Init => GroupsIInv
  BY InitSound
<1>2. GroupsIInv /\ [Next]_vars => GroupsIInv'
  BY NextStep
<1>3. QED BY <1>1, <1>2, PTL DEF Spec

\* Messages reach only firms that have subscribed, even those that unsubscribed
\* while handleMessage or backfillWorkspace was under way, as long as no two
\* groups have ever had the same name; and just the private groups have owners.
THEOREM GroupsAreSafe == Spec => []GroupsInv
<1>1. GroupsIInv => GroupsInv
  BY DEF GroupsIInv
<1>2. QED BY <1>1, Invariance, PTL

\* Owners are set only of a group without a row.
LEMMA OwnerStep ==
    ASSUME GroupsIInv, [Next]_vars
    PROVE  \A g \in Groups : Exists(g) /\ group'[g] # NoGroup =>
             group'[g].owner = group[g].owner /\ group'[g].isPrivate = group[g].isPrivate
<1> SUFFICES ASSUME NEW g \in Groups, Exists(g), group'[g] # NoGroup
             PROVE  group'[g].owner = group[g].owner /\ group'[g].isPrivate = group[g].isPrivate
  OBVIOUS
<1>1. group \in [Groups -> GroupRows \cup {NoGroup}]
  BY Facts DEF GroupsTypeOK
<1>2. CASE UNCHANGED group
  BY <1>2
<1>3. ASSUME NEW h \in Groups, NEW n \in Names, SyncGroup(h, n)
      PROVE  group'[g].owner = group[g].owner /\ group'[g].isPrivate = group[g].isPrivate
  <2> DEFINE row == [name |-> n, isPrivate |-> FALSE, owner |-> NoFirm]
  <2>1. WithGroup(h, row) /\ row \in GroupRows /\ row.isPrivate = (row.owner # NoFirm)
    BY <1>3 DEF SyncGroup, GroupRows
  <2> HIDE DEF row
  <2>2. QED BY <2>1, RowWritten
<1>4. ASSUME NEW k \in Tasks, NEW n \in Names, UpsertGroup(k, n)
      PROVE  group'[g].owner = group[g].owner /\ group'[g].isPrivate = group[g].isPrivate
  <2> DEFINE row == [name |-> n, isPrivate |-> TRUE, owner |-> code[task[k].code].firm]
  <2>1. task[k].pc = "upsertGroup" /\ task[k] \in Linking /\ task[k].code \in DOMAIN code
    BY <1>4, Facts, KindOf DEF UpsertGroup, LinkSound
  <2>2. PICK h \in Groups : h = task[k].group
    BY <2>1 DEF Linking
  <2>3. code[task[k].code].firm \in Firms
    BY <2>1, <2>2, Facts, CodesTyped
  <2>4. WithGroup(h, row) /\ row \in GroupRows /\ row.isPrivate = (row.owner # NoFirm)
    BY <1>4, <2>2, <2>3, Facts DEF UpsertGroup, GroupRows
  <2> HIDE DEF row
  <2>5. QED BY <2>4, RowWritten
<1>5. ASSUME NEW k \in Tasks, DeleteGroup(k)
      PROVE  group'[g] = group[g]
  <2>1. \/ UNCHANGED group
        \/ group' = [group EXCEPT ![task[k].group] = NoGroup]
    BY <1>5 DEF DeleteGroup
  <2>2. QED BY <1>1, <2>1
<1>6. \/ UNCHANGED group
      \/ \E k \in Tasks : DeleteGroup(k)
      \/ \E k \in Tasks, n \in Names : UpsertGroup(k, n)
      \/ \E h \in Groups, n \in Names : SyncGroup(h, n)
  BY DEF Next, vars, Link, LookUp, StoreMessage, GiveUp, Cache, FindSubscriptions, HandOver, RemoveGroup,
         FindMessages, Subscribe, Arrive, HandCached, PostCode, CreateRequest, CreateCode, Unsubscribe,
         CodeExpires
<1>7. QED BY <1>2, <1>3, <1>4, <1>5, <1>6

\* As long as it has its row a group keeps its owner.
THEOREM OwnersStay == Spec => OwnerKept
<1>1. ASSUME GroupsIInv, [Next]_vars
      PROVE  [\A g \in Groups : Exists(g) /\ group'[g] # NoGroup =>
                group'[g].owner = group[g].owner /\ group'[g].isPrivate = group[g].isPrivate]_group
  BY <1>1, OwnerStep
<1>2. QED BY <1>1, Invariance, PTL DEF Spec, OwnerKept

-----------------------------------------------------------------------------
(* The inductive invariant *)

Done(w, m) == <<w, m[1], m[2]>> \in handed \cup excused

\* The record r of a task is that of the message m's handler.
Handles(r, m) ==
    /\ r.pc \in {"lookup", "storeMessage", "parse", "handOver"}
    /\ r.group = m[1] /\ r.text = m[2]

\* The task has yet to come to the message m for the firm w.
Owes(r, w, m) ==
    \/ Handles(r, m) /\ w \in r.firms
    \/ r.pc = "findSubscriptions" /\ r.firm = w
    \/ /\ r.pc \in {"findMessages", "handCached"}
       /\ r.firm = w
       /\ <<m[1], m[3]>> \in r.groups \/ m \in r.messages

\* A handler has every subscriber among its recipients, but for those that came since.
Recipients ==
    \A k \in Tasks, w \in Firms, m \in MessageRows :
        Handles(task[k], m) /\ subscription[<<w, m[1]>>] = "active"
        => w \in task[k].firms \/ Done(w, m)

\* A message that is not cached is at the parser, or was given up.
Parsing ==
    \A m \in message :
        m[2] \notin cached
        => \/ \E k \in Tasks : Handles(task[k], m) /\ task[k].pc = "parse"
           \/ \A w \in Firms : Done(w, m)

\* What a subscriber of a group that keeps its name has not been handed, some
\* task will come to.
Coming ==
    \A w \in Firms, m \in message :
        subscription[<<w, m[1]>>] = "active" /\ NeverRenamed(m[1])
        => Done(w, m) \/ \E k \in Tasks : Owes(task[k], w, m)

\* Hits are of the cache; a backfill looks for messages when it has none left.
ReadSound(r) ==
    /\ r.pc \in {"lookup", "storeMessage", "parse", "handOver"} /\ r.hit => r.text \in cached
    /\ r.pc = "findMessages" => r.messages = {}

CaughtInv ==
    /\ Recipients
    /\ Parsing
    /\ Coming
    /\ \A k \in Tasks : ReadSound(task[k])
-----------------------------------------------------------------------------
(* What a step may do to it *)

Busy == {"lookup", "storeMessage", "parse", "handOver", "findSubscriptions", "findMessages", "handCached"}

\* What is done stays done, what is cached stays cached.
Progresses == handed \cup excused \subseteq handed' \cup excused' /\ cached \subseteq cached'

\* A group that was renamed stays so.
LEMMA RenamedKept ==
    ASSUME named \subseteq named'
    PROVE  \A g : NeverRenamed(g)' => NeverRenamed(g)
  BY DEF NeverRenamed

\* Only tasks that neither were nor become a message's handler or a backfill
\* move, and no one comes to subscribe.
LEMMA QuietStep ==
    ASSUME GroupsTypeOK, CaughtInv, named \subseteq named', UNCHANGED <<message, cached, handed, excused>>,
           \A s \in Firms \X Groups : subscription'[s] = "active" => subscription[s] = "active",
           \A h \in Tasks : task'[h] = task[h] \/ (task[h].pc \notin Busy /\ task'[h].pc \notin Busy)
    PROVE  CaughtInv'
<1>1. \A h \in Tasks : task[h].pc \in Busy \/ task'[h].pc \in Busy => task'[h] = task[h]
  OBVIOUS
<1>2. ASSUME NEW h \in Tasks, NEW w, NEW m
      PROVE  /\ Handles(task[h], m) \/ Handles(task'[h], m) => task'[h] = task[h]
             /\ Owes(task[h], w, m) => task'[h] = task[h]
  BY <1>1 DEF Handles, Owes, Busy
<1>3. Recipients'
  <2>1. SUFFICES ASSUME NEW h \in Tasks, NEW w \in Firms, NEW m \in MessageRows,
                        Handles(task'[h], m), subscription'[<<w, m[1]>>] = "active"
                 PROVE  w \in task'[h].firms \/ Done(w, m)'
    BY DEF Recipients
  <2>2. <<w, m[1]>> \in Firms \X Groups
    BY DEF MessageRows
  <2>3. subscription[<<w, m[1]>>] = "active" /\ task'[h] = task[h]
    BY <1>2, <2>1, <2>2
  <2>4. w \in task[h].firms \/ Done(w, m)
    BY <2>1, <2>3 DEF CaughtInv, Recipients
  <2>5. QED BY <2>3, <2>4 DEF Done
<1>4. Parsing'
  BY <1>2 DEF CaughtInv, Parsing, Done
<1>5. Coming'
  <2>1. SUFFICES ASSUME NEW w \in Firms, NEW m \in message, subscription'[<<w, m[1]>>] = "active", NeverRenamed(m[1])
                 PROVE  Done(w, m) \/ \E k \in Tasks : Owes(task'[k], w, m)
    BY RenamedKept DEF Coming, Done
  <2>2. subscription[<<w, m[1]>>] = "active"
    <3>1. m \in MessageRows
      BY DEF GroupsTypeOK
    <3>2. <<w, m[1]>> \in Firms \X Groups
      BY <2>1, <3>1 DEF MessageRows
    <3>3. QED BY <2>1, <3>2
  <2>3. QED BY <1>2, <2>1, <2>2 DEF CaughtInv, Coming
<1>6. \A h \in Tasks : ReadSound(task[h])'
  BY <1>1 DEF CaughtInv, ReadSound, Busy
<1>7. QED BY <1>3, <1>4, <1>5, <1>6 DEF CaughtInv

\* One task moves, from the record `old` to `new`.
LEMMA BusyStep ==
    ASSUME GroupsTypeOK, CaughtInv, Progresses, GroupsTypeOK', NEW k \in Tasks, NEW old, NEW new,
           task[k] = old, task'[k] = new, \A h \in Tasks \ {k} : task'[h] = task[h],
           message \subseteq message', named \subseteq named',
           \* whoever comes to subscribe: another's message is excused,
           \A w \in Firms, m \in MessageRows :
               subscription'[<<w, m[1]>>] = "active" /\ subscription[<<w, m[1]>>] # "active"
               => /\ m \in message' => Owes(new, w, m) \/ Done(w, m)'
                  /\ \A h \in Tasks \ {k} : Handles(task[h], m) => Done(w, m)',
           \* the messages that come to be stored are owed, and cached or at the parser,
           \A m \in message' \ message :
               /\ m[2] \notin cached' => Handles(new, m) /\ new.pc = "parse"
               /\ \A w \in Firms : subscription'[<<w, m[1]>>] = "active" => Owes(new, w, m) \/ Done(w, m)',
           \* what was owed still is, or is done,
           \A w \in Firms, m \in message :
               Owes(old, w, m) /\ subscription'[<<w, m[1]>>] = "active" /\ NeverRenamed(m[1])
               => Owes(new, w, m) \/ Done(w, m)' \/ \E h \in Tasks \ {k} : Owes(task[h], w, m),
           \* the recipients are the subscribers,
           \A w \in Firms, m \in MessageRows :
               Handles(new, m) /\ subscription'[<<w, m[1]>>] = "active" => w \in new.firms \/ Done(w, m)',
           \* and the parser answers or gives up.
           \A m \in message :
               Handles(old, m) /\ old.pc = "parse"
               => (Handles(new, m) /\ new.pc = "parse") \/ m[2] \in cached' \/ \A w \in Firms : Done(w, m)',
           ReadSound(new)'
    PROVE  CaughtInv'
<1>1. \A w, m : Done(w, m) => Done(w, m)'
  BY DEF Progresses, Done
<1>2. Recipients'
  <2>1. SUFFICES ASSUME NEW h \in Tasks, NEW w \in Firms, NEW m \in MessageRows,
                        Handles(task'[h], m), subscription'[<<w, m[1]>>] = "active"
                 PROVE  w \in task'[h].firms \/ Done(w, m)'
    BY DEF Recipients, Handles
  <2>2. CASE h = k
    BY <2>1, <2>2
  <2>3. CASE h # k /\ subscription[<<w, m[1]>>] = "active"
    BY <1>1, <2>1, <2>3 DEF CaughtInv, Recipients
  <2>4. CASE h # k /\ subscription[<<w, m[1]>>] # "active"
    BY <2>1, <2>4
  <2>5. QED BY <2>2, <2>3, <2>4
<1>3. Parsing'
  <2>1. SUFFICES ASSUME NEW m \in message', m[2] \notin cached'
                 PROVE  \/ \E h \in Tasks : Handles(task'[h], m) /\ task'[h].pc = "parse"
                        \/ \A w \in Firms : Done(w, m)'
    BY DEF Parsing, Handles, Done
  <2>2. CASE m \notin message
    BY <2>1, <2>2
  <2>3. CASE m \in message
    <3>1. m[2] \notin cached
      BY <2>1 DEF Progresses
    <3>2. \/ \E h \in Tasks : Handles(task[h], m) /\ task[h].pc = "parse"
          \/ \A w \in Firms : Done(w, m)
      BY <2>3, <3>1 DEF CaughtInv, Parsing
    <3>3. QED BY <1>1, <2>1, <2>3, <3>2
  <2>4. QED BY <2>2, <2>3
<1>4. Coming'
  <2>1. SUFFICES ASSUME NEW w \in Firms, NEW m \in message', subscription'[<<w, m[1]>>] = "active", NeverRenamed(m[1])
                 PROVE  Done(w, m)' \/ \E h \in Tasks : Owes(task'[h], w, m)
    BY RenamedKept DEF Coming, Owes, Handles
  <2>2. m \in MessageRows
    BY DEF GroupsTypeOK
  <2>3. CASE m \notin message
    BY <2>1, <2>3
  <2>4. CASE subscription[<<w, m[1]>>] # "active"
    BY <2>1, <2>2, <2>4
  <2>5. CASE m \in message /\ subscription[<<w, m[1]>>] = "active"
    <3>1. Done(w, m) \/ \E h \in Tasks : Owes(task[h], w, m)
      BY <2>1, <2>5 DEF CaughtInv, Coming
    <3>2. QED BY <1>1, <2>1, <2>5, <3>1
  <2>6. QED BY <2>3, <2>4, <2>5
<1>5. \A h \in Tasks : ReadSound(task[h])'
  <2>1. SUFFICES ASSUME NEW h \in Tasks PROVE ReadSound(task[h])'
    OBVIOUS
  <2>2. CASE h = k
    BY <2>2 DEF ReadSound
  <2>3. CASE h # k
    BY <2>3 DEF CaughtInv, ReadSound, Progresses
  <2>4. QED BY <2>2, <2>3
<1>6. QED BY <1>2, <1>3, <1>4, <1>5 DEF CaughtInv
-----------------------------------------------------------------------------
(* The steps *)

\* Requests about groups, pages and codes.
LEMMA QuietTables ==
    ASSUME GroupsIInv, CaughtInv,
           \/ \E g \in Groups, n \in Names : SyncGroup(g, n)
           \/ \E w \in Firms, g \in Groups : Unsubscribe(w, g)
           \/ \E c \in DOMAIN code : CodeExpires(c)
           \/ UNCHANGED vars
    PROVE  CaughtInv'
<1>1. UNCHANGED <<message, cached, handed, excused, task>>
  BY DEF SyncGroup, Unsubscribe, CodeExpires, vars, history
<1>2. \/ UNCHANGED subscription
      \/ \E w \in Firms, g \in Groups : subscription' = [subscription EXCEPT ![<<w, g>>] = "inactive"]
  BY DEF SyncGroup, Unsubscribe, CodeExpires, vars
<1>3. \A s \in Firms \X Groups : subscription'[s] = "active" => subscription[s] = "active"
  BY <1>2, Facts DEF GroupsTypeOK
<1>4. named \subseteq named'
  BY DEF SyncGroup, WithGroup, Unsubscribe, CodeExpires, vars
<1>5. QED BY <1>1, <1>3, <1>4, Facts, QuietStep

\* Tasks that handle no message.
LEMMA QuietTasks ==
    ASSUME GroupsIInv, CaughtInv, NEW k \in Tasks,
           \/ \E g \in Groups : RemoveGroup(k, g)
           \/ \E c \in DOMAIN code, g \in Groups : PostCode(k, c, g)
           \/ DeleteGroup(k)
           \/ CreateCode(k)
           \/ \E w \in Firms : CreateRequest(k, w)
           \/ \E n \in Names : UpsertGroup(k, n)
    PROVE  CaughtInv'
<1>1. UNCHANGED <<message, cached, handed, excused>>
  BY DEF RemoveGroup, PostCode, DeleteGroup, CreateCode, CreateRequest, UpsertGroup, history
<1>2. subscription \in [Firms \X Groups -> {"none", "active", "inactive", "deleted"}]
  BY Facts DEF GroupsTypeOK
<1>3. \A s \in Firms \X Groups : subscription'[s] = "active" => subscription[s] = "active"
  <2>1. CASE UNCHANGED subscription
    BY <2>1
  <2>2. ASSUME NEW g \in Groups, RemoveGroup(k, g)
        PROVE  \A s \in Firms \X Groups : subscription'[s] = "active" => subscription[s] = "active"
    BY <1>2, <2>2 DEF RemoveGroup
  <2>3. QED BY <2>1, <2>2 DEF PostCode, DeleteGroup, CreateCode, CreateRequest, UpsertGroup
<1>4. Idle.pc \notin Busy
  BY DEF Idle, Busy
<1>5. ASSUME NEW rec, rec.pc \notin Busy, task[k].pc \notin Busy, task' = [task EXCEPT ![k] = rec], NEW h \in Tasks
      PROVE  task'[h] = task[h] \/ (task[h].pc \notin Busy /\ task'[h].pc \notin Busy)
  BY <1>5, Facts DEF GroupsTypeOK
<1>6. ASSUME NEW h \in Tasks
      PROVE  task'[h] = task[h] \/ (task[h].pc \notin Busy /\ task'[h].pc \notin Busy)
  <2>1. ASSUME NEW g \in Groups, RemoveGroup(k, g)
        PROVE  task'[h] = task[h] \/ (task[h].pc \notin Busy /\ task'[h].pc \notin Busy)
    <3> DEFINE rec == [pc |-> "deleteGroup", group |-> g]
    <3>1. rec.pc \notin Busy /\ task[k].pc \notin Busy /\ task' = [task EXCEPT ![k] = rec]
      BY <1>4, <2>1 DEF RemoveGroup, Take, Busy
    <3> HIDE DEF rec
    <3>2. QED BY <1>5, <3>1
  <2>2. ASSUME NEW c \in DOMAIN code, NEW g \in Groups, PostCode(k, c, g)
        PROVE  task'[h] = task[h] \/ (task[h].pc \notin Busy /\ task'[h].pc \notin Busy)
    <3> DEFINE rec == [pc |-> "upsertGroup", code |-> c, group |-> g]
    <3>1. rec.pc \notin Busy /\ task[k].pc \notin Busy /\ task' = [task EXCEPT ![k] = rec]
      BY <1>4, <2>2 DEF PostCode, Take, Busy
    <3> HIDE DEF rec
    <3>2. QED BY <1>5, <3>1
  <2>3. ASSUME NEW n \in Names, UpsertGroup(k, n)
        PROVE  task'[h] = task[h] \/ (task[h].pc \notin Busy /\ task'[h].pc \notin Busy)
    <3> DEFINE rec == [task[k] EXCEPT !.pc = "link"]
    <3>1. task[k].pc = "upsertGroup" /\ task' = [task EXCEPT ![k] = rec] /\ task[k] \in Linking
      BY <2>3, Facts, KindOf DEF UpsertGroup, Go
    <3>2. rec.pc \notin Busy /\ task[k].pc \notin Busy
      BY <3>1 DEF Linking, Busy
    <3> HIDE DEF rec
    <3>3. QED BY <1>5, <3>1, <3>2
  <2>4. CASE DeleteGroup(k)
    <3>1. task[k].pc \notin Busy
      BY <2>4 DEF DeleteGroup, Busy
    <3>2. \/ task' = [task EXCEPT ![k] = Idle]
          \/ task' = [j \in Tasks |->
                        IF j = k \/ (task[j].pc \in {"link", "deleteGroup"} /\ task[j].group = task[k].group)
                          THEN Idle ELSE task[j]]
      BY <2>4 DEF DeleteGroup, Finish, Go
    <3>3. CASE task' = [task EXCEPT ![k] = Idle]
      BY <1>4, <1>5, <3>1, <3>3
    <3>4. CASE task' = [j \in Tasks |->
                          IF j = k \/ (task[j].pc \in {"link", "deleteGroup"} /\ task[j].group = task[k].group)
                            THEN Idle ELSE task[j]]
      <4>1. task'[h] = task[h] \/ ((h = k \/ task[h].pc \in {"link", "deleteGroup"}) /\ task'[h] = Idle)
        BY <3>4
      <4>2. QED BY <1>4, <3>1, <4>1 DEF Busy
    <3>5. QED BY <3>2, <3>3, <3>4
  <2>5. ASSUME NEW w \in Firms, CreateRequest(k, w)
        PROVE  task'[h] = task[h] \/ (task[h].pc \notin Busy /\ task'[h].pc \notin Busy)
    <3> DEFINE rec == [pc |-> "createCode", firm |-> w]
    <3>1. rec.pc \notin Busy /\ task[k].pc \notin Busy /\ task' = [task EXCEPT ![k] = rec]
      BY <1>4, <2>5 DEF CreateRequest, Take, Busy
    <3> HIDE DEF rec
    <3>2. QED BY <1>5, <3>1
  <2>6. CASE CreateCode(k)
    <3>1. task[k].pc \notin Busy /\ task' = [task EXCEPT ![k] = Idle]
      BY <2>6 DEF CreateCode, Finish, Go, Busy
    <3>2. QED BY <1>4, <1>5, <3>1
  <2>7. QED BY <2>1, <2>2, <2>3, <2>4, <2>5, <2>6
<1>7. named \subseteq named'
  BY DEF RemoveGroup, PostCode, DeleteGroup, CreateCode, CreateRequest, UpsertGroup, WithGroup
<1>8. QED BY <1>1, <1>3, <1>6, <1>7, Facts, QuietStep

\* No one comes to subscribe, and no message to be stored.
LEMMA HandlerStep ==
    ASSUME GroupsIInv, GroupsIInv', CaughtInv, Progresses, UNCHANGED <<named, subscription, message>>,
           NEW k \in Tasks, NEW new \in TaskRows, task' = [task EXCEPT ![k] = new],
           \A w \in Firms, m \in message :
               Owes(task[k], w, m) /\ subscription[<<w, m[1]>>] = "active" /\ NeverRenamed(m[1])
               => Owes(new, w, m) \/ Done(w, m)' \/ \E h \in Tasks \ {k} : Owes(task[h], w, m),
           \A w \in Firms, m \in MessageRows :
               Handles(new, m) /\ subscription[<<w, m[1]>>] = "active" => w \in new.firms \/ Done(w, m)',
           \A m \in message :
               Handles(task[k], m) /\ task[k].pc = "parse"
               => m[2] \in cached' \/ \A w \in Firms : Done(w, m)',
           ReadSound(new)'
    PROVE  CaughtInv'
<1>1. task'[k] = new /\ \A h \in Tasks \ {k} : task'[h] = task[h]
  BY Facts, TaskSet
<1>2. GroupsTypeOK /\ GroupsTypeOK'
  BY DEF GroupsIInv, GroupsInv
<1>3. PICK old : old = task[k]
  OBVIOUS
<1>4. QED BY <1>1, <1>2, <1>3, BusyStep
LEMMA IdleOwes ==
    /\ \A w, m : ~Handles(Idle, m) /\ ~Owes(Idle, w, m)
    /\ ReadSound(Idle) /\ ReadSound(Idle)' /\ Idle \in TaskRows
  BY DEF Handles, Owes, Idle, ReadSound, TaskRows

LEMMA CaughtArrive ==
    ASSUME GroupsIInv, GroupsIInv', CaughtInv, NEW k \in Tasks, NEW g \in Groups, NEW t \in Texts, Arrive(k, g, t)
    PROVE  CaughtInv'
<1> DEFINE new == [pc |-> "lookup", group |-> g, name |-> group[g].name, text |-> t,
                  firms |-> Subscribers(g), hit |-> FALSE]
<1>1. /\ task[k] = Idle /\ task' = [task EXCEPT ![k] = new]
      /\ UNCHANGED <<named, subscription, message, cached, handed, excused>>
  BY DEF Arrive, Take
<1>2. PICK r \in TaskRows : r = new
  BY NameKnown DEF TaskRows, Handling, Subscribers, Arrive
<1>3. r.group = g /\ r.firms = Subscribers(g) /\ r.hit = FALSE /\ r.pc = "lookup"
  BY <1>2
<1>4. Progresses
  BY <1>1 DEF Progresses
<1>5. \A w \in Firms, m \in MessageRows :
        Handles(r, m) /\ subscription[<<w, m[1]>>] = "active" => w \in r.firms
  BY <1>3 DEF Handles, Subscribers
<1>6. ReadSound(r)'
  BY <1>3 DEF ReadSound
<1> HIDE DEF new
<1>7. QED BY <1>1, <1>2, <1>4, <1>5, <1>6, IdleOwes, HandlerStep

\* A handler goes on with the same message, recipients and all.
LEMMA HandlerMoves ==
    ASSUME GroupsIInv, GroupsIInv', CaughtInv, Progresses, UNCHANGED <<named, subscription, message>>,
           NEW k \in Tasks, NEW new \in Handling, task' = [task EXCEPT ![k] = new],
           task[k] \in Handling, new.group = task[k].group, new.text = task[k].text,
           \A w \in task[k].firms : w \in new.firms \/ Done(w, <<new.group, new.text>>)',
           task[k].pc = "parse" => task[k].text \in cached',
           ReadSound(new)'
    PROVE  CaughtInv'
<1>1. \A m : Handles(new, m) <=> Handles(task[k], m)
  BY DEF Handles, Handling
<1>2. \A m : Handles(new, m) => new.group = m[1] /\ new.text = m[2]
  BY DEF Handles
<1>3. \A m : \A w \in Firms : Handles(new, m) /\ w \in task[k].firms => w \in new.firms \/ Done(w, m)'
  BY <1>2 DEF Done
<1>4. \A w \in Firms : \A m : Owes(task[k], w, m) => Owes(new, w, m) \/ Done(w, m)'
  BY <1>1, <1>3 DEF Owes, Handling
<1>5. \A w \in Firms, m \in MessageRows :
        Handles(new, m) /\ subscription[<<w, m[1]>>] = "active" => w \in new.firms \/ Done(w, m)'
  BY <1>1, <1>3 DEF CaughtInv, Recipients, Progresses, Done
<1>6. \A m : Handles(task[k], m) /\ task[k].pc = "parse" => m[2] \in cached'
  BY DEF Handles
<1>7. new \in TaskRows
  BY DEF TaskRows
<1>8. QED BY <1>4, <1>5, <1>6, <1>7, HandlerStep

LEMMA CaughtLookUp ==
    ASSUME GroupsIInv, GroupsIInv', CaughtInv, NEW k \in Tasks, LookUp(k)
    PROVE  CaughtInv'
<1>1. task[k].pc = "lookup" /\ task[k] \in Handling
  BY Facts, KindOf DEF LookUp
<1>2. UNCHANGED <<named, subscription, message, cached, handed, excused>>
  BY DEF LookUp, history
<1> DEFINE moved == [task[k] EXCEPT !.pc = "storeMessage", !.hit = task[k].text \in cached]
<1>3. /\ moved \in Handling /\ moved.group = task[k].group /\ moved.text = task[k].text
      /\ moved.firms = task[k].firms /\ moved.pc = "storeMessage"
  <2>1. (task[k].text \in cached) \in BOOLEAN
    OBVIOUS
  <2>2. moved \in Handling /\ moved.group = task[k].group /\ moved.firms = task[k].firms
    BY <1>1, <2>1, HandlingMoved, Zenon
  <2>3. moved.text = task[k].text /\ moved.pc = "storeMessage"
    BY <1>1 DEF Handling
  <2>4. QED BY <2>2, <2>3
<1>4. moved.hit => task[k].text \in cached
  BY <1>1 DEF Handling
<1>5. task' = [task EXCEPT ![k] = moved]
  BY DEF LookUp, Go
<1> HIDE DEF moved
<1>6. PICK new \in Handling : new = moved
  BY <1>3
<1>7. ReadSound(new)'
  BY <1>2, <1>3, <1>4, <1>6 DEF ReadSound
<1>8. QED BY <1>1, <1>2, <1>3, <1>5, <1>6, <1>7, HandlerMoves DEF Progresses

LEMMA CaughtCache ==
    ASSUME GroupsIInv, GroupsIInv', CaughtInv, NEW k \in Tasks, Cache(k)
    PROVE  CaughtInv'
<1>1. task[k].pc = "parse" /\ task[k] \in Handling
  BY Facts, KindOf DEF Cache
<1>2. UNCHANGED <<named, subscription, message, handed, excused>> /\ cached' = cached \cup {task[k].text}
  BY DEF Cache, history
<1> DEFINE moved == [task[k] EXCEPT !.pc = "handOver"]
<1>3. /\ moved \in Handling /\ moved.group = task[k].group /\ moved.text = task[k].text
      /\ moved.firms = task[k].firms /\ moved.pc = "handOver"
  BY <1>1 DEF Handling
<1>4. task' = [task EXCEPT ![k] = moved]
  BY DEF Cache, Go
<1> HIDE DEF moved
<1>5. PICK new \in Handling : new = moved
  BY <1>3
<1>6. ReadSound(new)'
  BY <1>2, <1>3, <1>5 DEF ReadSound
<1>7. QED BY <1>1, <1>2, <1>3, <1>4, <1>5, <1>6, HandlerMoves DEF Progresses

LEMMA CaughtHandOver ==
    ASSUME GroupsIInv, GroupsIInv', CaughtInv, NEW k \in Tasks, NEW w \in Firms, HandOver(k, w)
    PROVE  CaughtInv'
<1>1. task[k].pc = "handOver" /\ task[k] \in Handling /\ w \in task[k].firms
  BY Facts, KindOf DEF HandOver
<1>2. /\ UNCHANGED <<named, subscription, message, cached, excused>>
      /\ handed' = handed \cup {<<w, task[k].group, task[k].text>>}
  BY DEF HandOver
<1>3. Progresses
  BY <1>2 DEF Progresses
<1>4. \A m : Handles(task[k], m) => Done(w, m)'
  BY <1>2 DEF Handles, Done
<1>5. CASE task[k].firms = {w}
  <2>1. task' = [task EXCEPT ![k] = Idle]
    BY <1>5 DEF HandOver, Finish, Go
  <2>2. \A v \in Firms : \A m : Owes(task[k], v, m) => Done(v, m)'
    BY <1>1, <1>4, <1>5 DEF Owes, Handling
  <2>3. QED BY <1>1, <1>2, <1>3, <2>1, <2>2, IdleOwes, HandlerStep
<1>6. CASE task[k].firms # {w}
  <2> DEFINE moved == [task[k] EXCEPT !.firms = @ \ {w}]
  <2>1. /\ moved \in Handling /\ moved.group = task[k].group /\ moved.text = task[k].text
        /\ moved.firms = task[k].firms \ {w} /\ moved.pc = "handOver" /\ moved.hit = task[k].hit
    BY <1>1 DEF Handling
  <2>2. task' = [task EXCEPT ![k] = moved]
    BY <1>6 DEF HandOver, Go
  <2> HIDE DEF moved
  <2>3. PICK new \in Handling : new = moved
    BY <2>1
  <2>4. \A v \in task[k].firms : v \in new.firms \/ Done(v, <<new.group, new.text>>)'
    BY <1>2, <2>1, <2>3 DEF Done
  <2>5. ReadSound(new)'
    BY <1>1, <1>2, <2>1, <2>3 DEF ReadSound, CaughtInv
  <2>6. QED BY <1>1, <1>2, <1>3, <2>1, <2>2, <2>3, <2>4, <2>5, HandlerMoves
<1>7. QED BY <1>5, <1>6

LEMMA CaughtGiveUp ==
    ASSUME GroupsIInv, GroupsIInv', CaughtInv, NEW k \in Tasks, GiveUp(k)
    PROVE  CaughtInv'
<1>1. task[k].pc = "parse" /\ task[k] \in Handling
  BY Facts, KindOf DEF GiveUp
<1>2. /\ UNCHANGED <<named, subscription, message, cached, handed>>
      /\ excused' = excused \cup ((Firms \X {task[k].group} \X {task[k].text}) \ handed)
      /\ task' = [task EXCEPT ![k] = Idle]
  BY DEF GiveUp, Finish, Go
<1>3. Progresses
  BY <1>2 DEF Progresses
<1>4. \A w \in Firms : \A m : Handles(task[k], m) => Done(w, m)'
  BY <1>2 DEF Handles, Done
<1>5. \A w \in Firms : \A m : Owes(task[k], w, m) => Done(w, m)'
  BY <1>1, <1>4 DEF Owes, Handling
<1>6. QED BY <1>2, <1>3, <1>4, <1>5, IdleOwes, HandlerStep
LEMMA CaughtStoreMessage ==
    ASSUME GroupsIInv, GroupsIInv', CaughtInv, NEW k \in Tasks, StoreMessage(k)
    PROVE  CaughtInv'
<1>1. task[k].pc = "storeMessage" /\ task[k] \in Handling
  BY Facts, KindOf DEF StoreMessage
<1>2. PICK m0 \in MessageRows : m0 = <<task[k].group, task[k].text, task[k].name>>
  BY <1>1 DEF Handling, MessageRows
<1>3. /\ UNCHANGED <<named, subscription, cached, handed, excused>>
      /\ message \subseteq message' /\ message' \subseteq message \cup {m0}
  BY <1>2 DEF StoreMessage, history
<1> DEFINE moved == [task[k] EXCEPT !.pc = IF task[k].hit THEN "handOver" ELSE "parse"]
<1>4. /\ moved \in Handling /\ moved.group = task[k].group /\ moved.text = task[k].text
      /\ moved.firms = task[k].firms /\ moved.hit = task[k].hit
      /\ moved.pc = IF task[k].hit THEN "handOver" ELSE "parse"
  BY <1>1 DEF Handling
<1>5. task' = [task EXCEPT ![k] = moved]
  BY DEF StoreMessage, Go
<1> HIDE DEF moved
<1>6. PICK new \in Handling : new = moved
  BY <1>4
<1>7. /\ GroupsTypeOK /\ GroupsTypeOK' /\ new \in TaskRows
      /\ task'[k] = new /\ \A h \in Tasks \ {k} : task'[h] = task[h]
  BY <1>5, <1>6, Facts, TaskSet DEF GroupsIInv, GroupsInv, TaskRows
<1>8. \A m : Handles(new, m) <=> Handles(task[k], m)
  BY <1>1, <1>4, <1>6 DEF Handles
<1>9. task[k].hit => m0[2] \in cached
  BY <1>1, <1>2 DEF CaughtInv, ReadSound
<1>10. m0[2] \notin cached => Handles(new, m0) /\ new.pc = "parse"
  BY <1>1, <1>2, <1>4, <1>6, <1>9 DEF Handles
<1>11. Handles(task[k], m0)
  BY <1>1, <1>2 DEF Handles
<1>12. \A w \in Firms, m \in MessageRows :
         Handles(new, m) /\ subscription[<<w, m[1]>>] = "active" => w \in new.firms \/ Done(w, m)
  BY <1>4, <1>6, <1>8 DEF CaughtInv, Recipients
<1>13. \A w \in Firms : subscription[<<w, m0[1]>>] = "active" => Owes(new, w, m0) \/ Done(w, m0)
  BY <1>8, <1>11, <1>12 DEF Owes
<1>14. \A w \in Firms : \A m : Owes(task[k], w, m) => Owes(new, w, m)
  BY <1>1, <1>4, <1>6, <1>8 DEF Owes
<1>15. ReadSound(new)'
  BY <1>3, <1>1, <1>4, <1>6 DEF CaughtInv, ReadSound
<1>16. \A w, m : Done(w, m)' <=> Done(w, m)
  BY <1>3 DEF Done
<1>17. Progresses
  BY <1>3 DEF Progresses
<1>18. PICK old : old = task[k]
  OBVIOUS
<1>19. QED
  BY <1>1, <1>3, <1>7, <1>8, <1>10, <1>12, <1>13, <1>14, <1>15, <1>16, <1>17, <1>18, BusyStep

\* Who comes to subscribe: the messages being handled are excused, and the
\* others a task will come to, or they are excused too.
LEMMA CaughtJoins ==
    ASSUME GroupsIInv, GroupsIInv', CaughtInv, UNCHANGED <<named, message, cached, handed>>,
           NEW w \in Firms, NEW g \in Groups, NEW k \in Tasks, NEW new \in TaskRows,
           subscription' = [subscription EXCEPT ![<<w, g>>] = "active"],
           excused \subseteq excused',
           subscription[<<w, g>>] # "active" => InFlight(w, g) \subseteq handed \cup excused',
           task' = [task EXCEPT ![k] = new], task[k].pc \notin Busy,
           \A m : ~Handles(new, m),
           subscription[<<w, g>>] # "active" => \A m \in message : m[1] = g => Owes(new, w, m) \/ Done(w, m)',
           ReadSound(new)'
    PROVE  CaughtInv'
<1>1. /\ GroupsTypeOK /\ GroupsTypeOK'
      /\ task'[k] = new /\ \A h \in Tasks \ {k} : task'[h] = task[h]
  BY Facts, TaskSet DEF GroupsIInv, GroupsInv
<1>2. Progresses
  BY DEF Progresses
<1>3. \A v \in Firms, m \in MessageRows :
        subscription'[<<v, m[1]>>] = "active" /\ subscription[<<v, m[1]>>] # "active"
        => v = w /\ m[1] = g /\ subscription[<<w, g>>] # "active"
  BY <1>1 DEF GroupsTypeOK
<1>4. ASSUME NEW h \in Tasks, NEW m \in MessageRows, Handles(task[h], m), m[1] = g,
             subscription[<<w, g>>] # "active"
      PROVE  Done(w, m)'
  <2>1. <<w, g, task[h].text>> \in InFlight(w, g)
    BY <1>4 DEF Handles, InFlight
  <2>2. m[2] = task[h].text
    BY <1>4 DEF Handles
  <2>3. QED BY <1>4, <2>1, <2>2 DEF Done
<1>5. \A v, m : ~Owes(task[k], v, m) /\ ~Handles(task[k], m)
  BY DEF Owes, Handles, Busy
<1>6. PICK old : old = task[k]
  OBVIOUS
<1>7. QED BY <1>1, <1>2, <1>3, <1>4, <1>5, <1>6, BusyStep

LEMMA CaughtSubscribe ==
    ASSUME GroupsIInv, GroupsIInv', CaughtInv, NEW k \in Tasks, NEW w \in Firms, NEW g \in Groups,
           Subscribe(k, w, g)
    PROVE  CaughtInv'
<1> DEFINE rec == [pc |-> "findSubscriptions", firm |-> w, groups |-> {}, messages |-> {}]
<1>1. /\ UNCHANGED <<named, message, cached, handed>>
      /\ subscription' = [subscription EXCEPT ![<<w, g>>] = "active"]
      /\ excused \subseteq excused'
      /\ subscription[<<w, g>>] # "active" => InFlight(w, g) \subseteq handed \cup excused'
      /\ task[k] = Idle /\ task' = [task EXCEPT ![k] = rec]
  BY DEF Subscribe, Take, Excuse
<1>2. PICK new \in TaskRows : new = rec
  BY DEF TaskRows, Backfill
<1>3. new.pc = "findSubscriptions" /\ new.firm = w
  BY <1>2
<1>4. (\A m : ~Handles(new, m) /\ Owes(new, w, m)) /\ ReadSound(new)'
  BY <1>3 DEF Handles, Owes, ReadSound
<1>5. task[k].pc \notin Busy
  BY <1>1 DEF Idle, Busy
<1> HIDE DEF rec
<1>6. QED BY <1>1, <1>2, <1>4, <1>5, CaughtJoins

LEMMA CaughtLink ==
    ASSUME GroupsIInv, GroupsIInv', CaughtInv, NEW k \in Tasks, Link(k)
    PROVE  CaughtInv'
<1>1. task[k].pc = "link" /\ task[k] \in Linking /\ task[k].code \in DOMAIN code
  BY Facts, KindOf DEF Link, LinkSound
<1>2. PICK g \in Groups : g = task[k].group
  BY <1>1 DEF Linking
<1>3. PICK w \in Firms : w = code[task[k].code].firm
  BY <1>1, <1>2, Facts, CodesTyped
<1>4. /\ UNCHANGED <<named, message, cached, handed>>
      /\ subscription' = [subscription EXCEPT ![<<w, g>>] = "active"]
      /\ Excuse(w, g, InFlight(w, g) \cup {<<w, g, m[2]>> : m \in Messages(g)})
      /\ task' = [task EXCEPT ![k] = Idle]
  BY <1>2, <1>3 DEF Link, Finish, Go
<1>5. subscription[<<w, g>>] # "active" => \A m \in message : m[1] = g => Done(w, m)'
  <2>1. SUFFICES ASSUME subscription[<<w, g>>] # "active", NEW m \in message, m[1] = g
                 PROVE  Done(w, m)'
    OBVIOUS
  <2>2. <<w, g, m[2]>> \in {<<w, g, n[2]>> : n \in Messages(g)}
    BY <2>1 DEF Messages
  <2>3. QED BY <1>4, <2>1, <2>2 DEF Done, Excuse
<1>6. task[k].pc \notin Busy
  BY <1>1 DEF Busy
<1>7. /\ excused \subseteq excused'
      /\ subscription[<<w, g>>] # "active" => InFlight(w, g) \subseteq handed \cup excused'
  BY <1>4 DEF Excuse
<1>8. QED BY <1>4, <1>5, <1>6, <1>7, IdleOwes, CaughtJoins
\* Backfills handle nothing.
LEMMA BackfillHandles ==
    ASSUME NEW r \in Backfill
    PROVE  \A m : ~Handles(r, m)
  BY DEF Backfill, Handles

LEMMA CaughtFindSubscriptions ==
    ASSUME GroupsIInv, GroupsIInv', CaughtInv, NEW k \in Tasks, FindSubscriptions(k)
    PROVE  CaughtInv'
<1> DEFINE groups == {<<g, group[g].name>> :
                        g \in {h \in Groups : subscription[<<task[k].firm, h>>] = "active"}}
<1>1. /\ task[k].pc = "findSubscriptions" /\ task[k] \in Backfill
      /\ UNCHANGED <<named, subscription, message, cached, handed, excused>>
  BY Facts, KindOf DEF FindSubscriptions, history
<1>2. Progresses
  BY <1>1 DEF Progresses
<1>3. \A m : ~Handles(task[k], m)
  BY <1>1, BackfillHandles
<1>4. \A w, m : Owes(task[k], w, m) => w = task[k].firm
  BY <1>1, <1>3 DEF Owes
<1>5. \A m \in message : subscription[<<task[k].firm, m[1]>>] = "active" /\ NeverRenamed(m[1])
                        => <<m[1], m[3]>> \in groups
  <2>1. SUFFICES ASSUME NEW m \in message, subscription[<<task[k].firm, m[1]>>] = "active", NeverRenamed(m[1])
                 PROVE  <<m[1], m[3]>> \in groups
    OBVIOUS
  <2>2. m[1] \in Groups /\ task[k].firm \in Firms /\ <<m[1], m[3]>> \in named
    BY <1>1, DataTyped DEF DataOK, MessageRows, Backfill
  <2>3. Subscribers(m[1]) # {}
    BY <2>1, <2>2 DEF Subscribers
  <2>4. <<m[1], group[m[1]].name>> \in named
    BY <2>2, <2>3, NameKnown
  <2>5. m[3] = group[m[1]].name
    BY <2>1, <2>2, <2>4 DEF NeverRenamed
  <2>6. QED BY <2>1, <2>2, <2>5
<1>6. CASE groups = {}
  <2>1. task' = [task EXCEPT ![k] = Idle]
    BY <1>6 DEF FindSubscriptions, Finish, Go
  <2>2. \A w \in Firms, m \in message : Owes(task[k], w, m) /\ NeverRenamed(m[1]) => subscription[<<w, m[1]>>] # "active"
    BY <1>4, <1>5, <1>6
  <2> HIDE DEF groups
  <2>3. QED BY <1>1, <1>2, <1>3, <2>1, <2>2, IdleOwes, HandlerStep
<1>7. CASE groups # {}
  <2> DEFINE rec == [task[k] EXCEPT !.pc = "findMessages", !.groups = groups]
  <2>1. task' = [task EXCEPT ![k] = rec]
    BY <1>7 DEF FindSubscriptions, Go
  <2>2. task[k].messages = {}
    BY <1>1, Facts DEF HandlerSound
  <2>3. /\ rec \in Backfill /\ rec.pc = "findMessages" /\ rec.messages = {}
        /\ rec.groups = groups /\ rec.firm = task[k].firm
    <3>1. groups \subseteq Groups \X Names
      <4>1. SUFFICES ASSUME NEW g \in Groups, subscription[<<task[k].firm, g>>] = "active"
                     PROVE  <<g, group[g].name>> \in Groups \X Names
        OBVIOUS
      <4>2. Subscribers(g) # {}
        BY <1>1, <4>1 DEF Subscribers, Backfill
      <4>3. QED BY <4>2, NameKnown
    <3> HIDE DEF groups
    <3>2. QED BY <1>1, <2>2, <3>1 DEF Backfill
  <2> HIDE DEF rec
  <2>4. PICK new \in Backfill : new = rec
    BY <2>3
  <2>5. new \in TaskRows /\ ReadSound(new)' /\ \A m : ~Handles(new, m)
    BY <2>3, <2>4, BackfillHandles DEF TaskRows, ReadSound
  <2>6. \A w \in Firms, m \in message :
          Owes(task[k], w, m) /\ subscription[<<w, m[1]>>] = "active" /\ NeverRenamed(m[1]) => Owes(new, w, m)
    BY <1>4, <1>5, <2>3, <2>4 DEF Owes
  <2> HIDE DEF groups
  <2>7. QED BY <1>1, <1>2, <1>3, <2>1, <2>4, <2>5, <2>6, HandlerStep
<1>8. QED BY <1>6, <1>7

\* A backfill that goes on still covers what it was to come to, but for what is done.
LEMMA CaughtProceed ==
    ASSUME GroupsIInv, GroupsIInv', CaughtInv, Progresses, UNCHANGED <<named, subscription, message>>,
           NEW k \in Tasks, task[k] \in Backfill, task[k].pc \in {"findMessages", "handCached"},
           NEW w0 \in Firms, task[k].firm = w0,
           NEW groups \in SUBSET (Groups \X Names), NEW messages \in SUBSET MessageRows,
           Proceed(k, groups, messages),
           \A m \in message :
               <<m[1], m[3]>> \in task[k].groups \/ m \in task[k].messages
               => \/ <<m[1], m[3]>> \in groups \/ m \in messages
                  \/ subscription[<<w0, m[1]>>] = "active" =>
                       Done(w0, m)' \/ \E h \in Tasks \ {k} : Owes(task[h], w0, m)
    PROVE  CaughtInv'
<1>1. \A m : ~Handles(task[k], m)
  BY BackfillHandles
<1>2. \A w, m : Owes(task[k], w, m) => w = w0 /\ (<<m[1], m[3]>> \in task[k].groups \/ m \in task[k].messages)
  BY <1>1 DEF Owes
<1>3. CASE groups \cup messages = {}
  <2>1. task' = [task EXCEPT ![k] = Idle]
    BY <1>3 DEF Proceed, Finish, Go
  <2>2. \A w \in Firms, m \in message :
          Owes(task[k], w, m) /\ subscription[<<w, m[1]>>] = "active"
          => Done(w, m)' \/ \E h \in Tasks \ {k} : Owes(task[h], w, m)
    <3>1. SUFFICES ASSUME NEW w \in Firms, NEW m \in message,
                          Owes(task[k], w, m), subscription[<<w, m[1]>>] = "active"
                   PROVE  Done(w, m)' \/ \E h \in Tasks \ {k} : Owes(task[h], w, m)
      OBVIOUS
    <3>2. w = w0 /\ (<<m[1], m[3]>> \in task[k].groups \/ m \in task[k].messages)
      BY <1>2, <3>1
    <3>3. ~(<<m[1], m[3]>> \in groups \/ m \in messages)
      BY <1>3
    <3>4. QED BY <3>1, <3>2, <3>3
  <2>3. QED BY <1>1, <2>1, <2>2, IdleOwes, HandlerStep
<1>4. CASE groups \cup messages # {}
  <2> DEFINE rec == [task[k] EXCEPT !.pc = IF messages = {} THEN "findMessages" ELSE "handCached",
                                    !.groups = groups, !.messages = messages]
  <2>1. task' = [task EXCEPT ![k] = rec]
    BY <1>4 DEF Proceed, Go
  <2>2. /\ rec \in Backfill /\ rec.pc \in {"findMessages", "handCached"}
        /\ rec.pc = "findMessages" => messages = {}
        /\ rec.messages = messages /\ rec.groups = groups /\ rec.firm = w0
    BY DEF Backfill
  <2> HIDE DEF rec
  <2>3. PICK new \in Backfill : new = rec
    BY <2>2
  <2>4. new \in TaskRows /\ ReadSound(new)' /\ \A m : ~Handles(new, m)
    BY <2>2, <2>3, BackfillHandles DEF TaskRows, ReadSound
  <2>5. \A m : <<m[1], m[3]>> \in groups \/ m \in messages => Owes(new, w0, m)
    BY <2>2, <2>3 DEF Owes
  <2>6. \A w \in Firms, m \in message :
          Owes(task[k], w, m) /\ subscription[<<w, m[1]>>] = "active"
          => Owes(new, w, m) \/ Done(w, m)' \/ \E h \in Tasks \ {k} : Owes(task[h], w, m)
    <3>1. SUFFICES ASSUME NEW w \in Firms, NEW m \in message,
                          Owes(task[k], w, m), subscription[<<w, m[1]>>] = "active"
                   PROVE  Owes(new, w, m) \/ Done(w, m)' \/ \E h \in Tasks \ {k} : Owes(task[h], w, m)
      OBVIOUS
    <3>2. w = w0 /\ (<<m[1], m[3]>> \in task[k].groups \/ m \in task[k].messages)
      BY <1>2, <3>1
    <3>3. QED BY <2>5, <3>1, <3>2
  <2>7. QED BY <1>1, <2>1, <2>3, <2>4, <2>6, HandlerStep
<1>5. QED BY <1>3, <1>4

LEMMA CaughtFindMessages ==
    ASSUME GroupsIInv, GroupsIInv', CaughtInv, NEW k \in Tasks, NEW p \in Groups \X Names, FindMessages(k, p)
    PROVE  CaughtInv'
<1> DEFINE groups == task[k].groups \ {p}
<1>1. /\ task[k].pc = "findMessages" /\ task[k] \in Backfill
      /\ UNCHANGED <<named, subscription, message, cached, handed>>
  BY Facts, KindOf DEF FindMessages
<1>2. PICK messages \in SUBSET Named(p[2]) :
         /\ excused' = excused \cup (PassedOver(task[k].firm, p[2], messages) \ handed)
         /\ Proceed(k, groups, messages)
  BY DEF FindMessages
<1>3. groups \in SUBSET (Groups \X Names) /\ messages \in SUBSET MessageRows
  BY <1>1, Facts DEF GroupsTypeOK, Backfill, Named
<1>4. task[k].messages = {}
  BY <1>1 DEF CaughtInv, ReadSound
<1>5. Progresses
  BY <1>1, <1>2 DEF Progresses
<1>6. PICK w \in Firms : w = task[k].firm
  BY <1>1 DEF Backfill
<1>7. ASSUME NEW m \in message, <<m[1], m[3]>> \in task[k].groups \/ m \in task[k].messages
      PROVE  <<m[1], m[3]>> \in groups \/ m \in messages \/ Done(w, m)'
  <2>1. CASE <<m[1], m[3]>> # p
    BY <1>4, <1>7, <2>1
  <2>2. CASE <<m[1], m[3]>> = p /\ m \notin messages
    <3>1. m \in Named(p[2]) \ messages
      BY <2>2 DEF Named
    <3>2. <<w, m[1], m[2]>> \in PassedOver(w, p[2], messages)
      BY <3>1 DEF PassedOver
    <3>3. QED BY <1>1, <1>2, <1>6, <3>2 DEF Done
  <2>3. QED BY <2>1, <2>2
<1> HIDE DEF groups
<1>8. QED BY <1>1, <1>2, <1>3, <1>5, <1>6, <1>7, CaughtProceed

\* A message that is not cached when the backfill comes to it is at the parser,
\* with the firm among its recipients.
LEMMA CaughtHandCached ==
    ASSUME GroupsIInv, GroupsIInv', CaughtInv, NEW k \in Tasks, NEW n \in message, HandCached(k, n)
    PROVE  CaughtInv'
<1>1. /\ task[k].pc = "handCached" /\ task[k] \in Backfill /\ n \in task[k].messages
      /\ n[2] \in cached => handed' = handed \cup {<<task[k].firm, n[1], n[2]>>}
      /\ handed \subseteq handed'
      /\ Proceed(k, task[k].groups, task[k].messages \ {n})
      /\ UNCHANGED <<named, subscription, message, cached, excused>>
  BY Facts, KindOf DEF HandCached
<1>2. /\ task[k].groups \in SUBSET (Groups \X Names) /\ task[k].messages \ {n} \in SUBSET MessageRows
      /\ task[k].firm \in Firms /\ n \in MessageRows
  BY <1>1 DEF Backfill
<1>3. Progresses
  BY <1>1 DEF Progresses
<1>4. PICK w \in Firms : w = task[k].firm
  BY <1>2
<1>5. subscription[<<w, n[1]>>] = "active" => Done(w, n)' \/ \E h \in Tasks \ {k} : Owes(task[h], w, n)
  <2>1. CASE n[2] \in cached
    BY <1>1, <1>4, <2>1 DEF Done
  <2>2. CASE n[2] \notin cached
    <3>1. CASE \A v \in Firms : Done(v, n)
      BY <1>3, <3>1 DEF Done, Progresses
    <3>2. CASE \E h \in Tasks : Handles(task[h], n) /\ task[h].pc = "parse"
      <4>1. PICK h \in Tasks : Handles(task[h], n) /\ task[h].pc = "parse"
        BY <3>2
      <4>2. h # k
        BY <1>1, <4>1
      <4>3. subscription[<<w, n[1]>>] = "active" => w \in task[h].firms \/ Done(w, n)
        BY <1>2, <4>1 DEF CaughtInv, Recipients
      <4>4. QED BY <1>3, <4>1, <4>2, <4>3 DEF Owes, Done, Progresses
    <3>3. QED BY <2>2, <3>1, <3>2 DEF CaughtInv, Parsing
  <2>3. QED BY <2>1, <2>2
<1>6. \A m \in message :
        <<m[1], m[3]>> \in task[k].groups \/ m \in task[k].messages
        => \/ <<m[1], m[3]>> \in task[k].groups \/ m \in task[k].messages \ {n}
           \/ subscription[<<w, m[1]>>] = "active" =>
                Done(w, m)' \/ \E h \in Tasks \ {k} : Owes(task[h], w, m)
  BY <1>5
<1>7. QED BY <1>1, <1>2, <1>3, <1>4, <1>6, CaughtProceed

-----------------------------------------------------------------------------
(* The theorem *)

LEMMA CaughtInit ==
    ASSUME Init PROVE CaughtInv
<1>1. \A k \in Tasks : task[k] = Idle
  BY DEF Init
<1>2. Recipients /\ \A k \in Tasks : ReadSound(task[k])
  BY <1>1, IdleOwes DEF Recipients
<1>3. Parsing /\ Coming
  BY DEF Init, Parsing, Coming
<1>4. QED BY <1>2, <1>3 DEF CaughtInv

LEMMA CaughtNext ==
    ASSUME GroupsIInv, CaughtInv, [Next]_vars
    PROVE  CaughtInv'
<1> GroupsIInv'
  BY NextStep
<1>1. CASE \/ \E g \in Groups, n \in Names : SyncGroup(g, n)
           \/ \E w \in Firms, g \in Groups : Unsubscribe(w, g)
           \/ \E c \in DOMAIN code : CodeExpires(c)
           \/ UNCHANGED vars
  BY <1>1, QuietTables
<1>2. ASSUME NEW k \in Tasks,
             \/ \E g \in Groups : RemoveGroup(k, g)
             \/ \E c \in DOMAIN code, g \in Groups : PostCode(k, c, g)
             \/ DeleteGroup(k)
             \/ CreateCode(k)
             \/ \E w \in Firms : CreateRequest(k, w)
             \/ \E n \in Names : UpsertGroup(k, n)
      PROVE  CaughtInv'
  BY <1>2, QuietTasks
<1>3. ASSUME NEW k \in Tasks,
             Link(k) \/ LookUp(k) \/ StoreMessage(k) \/ GiveUp(k) \/ Cache(k) \/ FindSubscriptions(k)
      PROVE  CaughtInv'
  BY <1>3, CaughtLink, CaughtLookUp, CaughtStoreMessage, CaughtGiveUp, CaughtCache, CaughtFindSubscriptions
<1>4. ASSUME NEW k \in Tasks,
             \/ \E w \in Firms : HandOver(k, w)
             \/ \E p \in Groups \X Names : FindMessages(k, p)
             \/ \E w \in Firms, g \in Groups : Subscribe(k, w, g)
             \/ \E g \in Groups, t \in Texts : Arrive(k, g, t)
             \/ \E m \in message : HandCached(k, m)
      PROVE  CaughtInv'
  BY <1>4, CaughtHandOver, CaughtFindMessages, CaughtSubscribe, CaughtArrive, CaughtHandCached
<1>5. QED BY <1>1, <1>2, <1>3, <1>4 DEF Next

\* Once handleMessage and backfillWorkspace have come to rest, a subscriber has
\* been handed every message of a group that was never renamed, sent before or
\* after it subscribed: except those being handled at that very time, those
\* given up, those before a link and those passed over for their number.
THEOREM SubscribersCaught == Spec => []Caught
<1>1. Init => GroupsIInv /\ CaughtInv
  BY InitSound, CaughtInit
<1>2. GroupsIInv /\ CaughtInv /\ [Next]_vars => (GroupsIInv /\ CaughtInv)'
  BY NextStep, CaughtNext
<1>3. CaughtInv => Caught
  BY IdleOwes DEF CaughtInv, Coming, Caught, Done
<1>4. QED BY <1>1, <1>2, <1>3, PTL DEF Spec
=============================================================================
