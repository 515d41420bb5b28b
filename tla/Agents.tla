------------------------------- MODULE Agents -------------------------------
(***************************************************************************)
(* A workspace's agents, the phones they are recognised by and the         *)
(* listings they are linked to: found or created by every message          *)
(* ingested, created, edited and merged by hand.                           *)
(*                                                                         *)
(* A task is a handler between two of its awaits.  The writes of a         *)
(* transaction are one step, what it reads before them another: the        *)
(* database runs transactions at READ COMMITTED.  Names, and the merge log *)
(* that nothing reads, are left out.                                       *)
(***************************************************************************)
EXTENDS Naturals, FiniteSets

CONSTANTS
    Phones,         \* phone numbers
    Listings,       \* the workspace's listings
    Tasks,          \* slots for handlers running at the same time
    MaxAgents,      \* bound on the agents created
    MaxRequests     \* bound on the requests made by hand

ASSUME AgentsAssumption == {MaxAgents, MaxRequests} \subseteq Nat

VARIABLES
    created,        \* number of Agent rows, numbered 1..created
    phones,         \* AgentPhone rows of each agent
    mergedInto,     \* mergedIntoId of each agent, 0 for none (isMerged goes with it)
    link,           \* ListingAgent rows
    attached,       \* history: listings given an agent, and none taken off since
    requests,       \* number of requests made by hand
    task,           \* handlers under way
    careful         \* whether merges are made one at a time, from fresh lists

vars == <<created, phones, mergedInto, link, attached, requests, task, careful>>

-----------------------------------------------------------------------------

Agents    == 1..created
Numbers   == (SUBSET Phones) \ {{}}
Idle      == [pc |-> "idle"]
Attaching == [pc : {"save", "link"}, listing : Listings, phones : SUBSET Phones, agent : 0..MaxAgents]
Creating  == [pc : {"create"}, phones : Numbers]
Updating  == [pc : {"update"}, agent : 1..MaxAgents, phones : Numbers]
Merging   == [pc : {"merge"}, source : 1..MaxAgents, target : 1..MaxAgents, phones : SUBSET Phones]

\* The tables' types and what each task has read.
AgentsTypeOK ==
    /\ created \in 0..MaxAgents
    /\ phones \in [Agents -> SUBSET Phones]
    /\ mergedInto \in [Agents -> 0..created]
    /\ link \subseteq Listings \X Agents
    /\ attached \subseteq Listings
    /\ requests \in 0..MaxRequests
    /\ task \in [Tasks -> {Idle} \cup Attaching \cup Creating \cup Updating \cup Merging]
    /\ careful \in BOOLEAN

Init ==
    /\ created = 0
    /\ phones = << >> /\ mergedInto = << >>
    /\ link = {} /\ attached = {}
    /\ requests = 0
    /\ task = [k \in Tasks |-> Idle]
    /\ careful \in BOOLEAN

Take(k, rec) == task[k] = Idle /\ task' = [task EXCEPT ![k] = rec]
Go(k, rec)   == task' = [task EXCEPT ![k] = rec]
Finish(k)    == Go(k, Idle)
ByHand       == requests < MaxRequests /\ requests' = requests + 1

\* agentPhone.findFirst for each number: an agent that has one of them, merged
\* or not, or none.
Found(numbers) ==
    LET owners == {a \in Agents : phones[a] \cap numbers # {}} IN
    IF owners = {} THEN {0} ELSE owners

\* getResolvedAgent: where the merges lead, if they end.
Onward(a) == IF mergedInto[a] = 0 THEN a ELSE mergedInto[a]
Follow(a) ==
    LET f[k \in 0..created] == IF k = 0 THEN a ELSE Onward(f[k - 1])
    IN f[created]
Ends(a) == mergedInto[Follow(a)] = 0

NewAgent(numbers) ==
    /\ created < MaxAgents
    /\ created' = created + 1
    /\ phones' = [a \in 1..created + 1 |-> IF a \in Agents THEN phones[a] ELSE numbers]
    /\ mergedInto' = [a \in 1..created + 1 |-> IF a \in Agents THEN mergedInto[a] ELSE 0]

-----------------------------------------------------------------------------
(* Ingestion: attachAgentsToListing, for one candidate of the message *)

FindAgent(k, l, numbers) ==
    \E a \in Found(numbers) :
        /\ Take(k, [pc |-> "save", listing |-> l, phones |-> numbers, agent |-> a])
        /\ UNCHANGED <<created, phones, mergedInto, link, attached, requests, careful>>

\* No agent was found: a new one with the numbers ...
SaveAgent(k) ==
    /\ task[k].pc = "save" /\ task[k].agent = 0
    /\ NewAgent(task[k].phones)
    /\ Go(k, [task[k] EXCEPT !.pc = "link", !.agent = created + 1])
    /\ UNCHANGED <<link, attached, requests, careful>>

\* ... or none: the AI's contacts, like a form's numbers, may name one twice,
\* which breaks the unique index and ends the handler.
RefuseAgent(k) ==
    /\ \/ task[k].pc = "save" /\ task[k].agent = 0
       \/ task[k].pc = "create"
    /\ Finish(k)
    /\ UNCHANGED <<created, phones, mergedInto, link, attached, requests, careful>>

\* The agent found is given the numbers one by one.
SavePhone(k, p) ==
    /\ task[k].pc = "save" /\ task[k].agent # 0
    /\ p \in task[k].phones
    /\ phones' = [phones EXCEPT ![task[k].agent] = @ \cup {p}]
    /\ Go(k, [task[k] EXCEPT !.phones = @ \ {p}, !.pc = IF task[k].phones = {p} THEN "link" ELSE "save"])
    /\ UNCHANGED <<created, mergedInto, link, attached, requests, careful>>

\* The agent may have been merged since it was found, or long before.
LinkAgent(k) ==
    /\ task[k].pc = "link"
    /\ link' = link \cup {<<task[k].listing, task[k].agent>>}
    /\ attached' = attached \cup {task[k].listing}
    /\ Finish(k)
    /\ UNCHANGED <<created, phones, mergedInto, requests, careful>>

-----------------------------------------------------------------------------
(* By hand *)

\* createAgent returns the agent that has one of the numbers, or
FindForCreate(k, numbers) ==
    /\ Found(numbers) = {0}
    /\ ByHand
    /\ Take(k, [pc |-> "create", phones |-> numbers])
    /\ UNCHANGED <<created, phones, mergedInto, link, attached, careful>>

\* ... creates one.
CreateAgent(k) ==
    /\ task[k].pc = "create"
    /\ NewAgent(task[k].phones)
    /\ Finish(k)
    /\ UNCHANGED <<link, attached, requests, careful>>

\* updateAgent edits the agent the merges lead to.  (If they do not end neither
\* does the request.)
ResolveForUpdate(k, a, numbers) ==
    /\ Ends(a)
    /\ ByHand
    /\ Take(k, [pc |-> "update", agent |-> Follow(a), phones |-> numbers])
    /\ UNCHANGED <<created, phones, mergedInto, link, attached, careful>>

\* A number any other agent has, the merged ones too, is a conflict.
UpdateAgent(k) ==
    /\ task[k].pc = "update"
    /\ LET a   == task[k].agent
           add == task[k].phones \ phones[a] IN
       phones' = IF \E b \in Agents \ {a} : phones[b] \cap add # {} THEN phones
                 ELSE [phones EXCEPT ![a] = task[k].phones]
    /\ Finish(k)
    /\ UNCHANGED <<created, mergedInto, link, attached, requests, careful>>

\* attachAgent: an upsert, of whatever agent the page shows.
AttachAgent(l, a) ==
    /\ ByHand
    /\ link' = link \cup {<<l, a>>}
    /\ attached' = attached \cup {l}
    /\ UNCHANGED <<created, phones, mergedInto, task, careful>>

\* detachAgent: from here on the listing may have none.
DetachAgent(l, a) ==
    /\ <<l, a>> \in link
    /\ ByHand
    /\ link' = link \ {<<l, a>>}
    /\ attached' = attached \ {l}
    /\ UNCHANGED <<created, phones, mergedInto, task, careful>>

\* The list of agents, which the page and its search are made from.
Offered == {a \in Agents : mergedInto[a] = 0}

\* Mutant: an agent can be merged into itself.
CanMergeSelf(a, b) == mergedInto[a] = 0

\* mergeAgents: the source must not be merged; the target may be.
CanMerge(a, b) == a # b /\ mergedInto[a] = 0

\* The transaction reads both agents.
StartMerge(k, a, b) ==
    /\ CanMerge(a, b)
    /\ careful => b \in Offered /\ \A h \in Tasks : task[h].pc # "merge"
    /\ ByHand
    /\ Take(k, [pc |-> "merge", source |-> a, target |-> b, phones |-> phones[a]])
    /\ UNCHANGED <<created, phones, mergedInto, link, attached, careful>>

\* Each link of a becomes one of b.
MoveLinks(a, b) == {p \in link : p[2] # a} \cup {<<p[1], b>> : p \in {q \in link : q[2] = a}}

\* A listing linked with both breaks the unique index and fails the merge.
Merge(k) ==
    /\ task[k].pc = "merge"
    /\ LET a == task[k].source
           b == task[k].target IN
       IF \E l \in Listings : {<<l, a>>, <<l, b>>} \subseteq link
         THEN UNCHANGED <<phones, mergedInto, link>>
         ELSE /\ phones' = [phones EXCEPT ![b] = @ \cup task[k].phones]
              /\ link' = MoveLinks(a, b)
              /\ mergedInto' = [mergedInto EXCEPT ![a] = b]
    /\ Finish(k)
    /\ UNCHANGED <<created, attached, requests, careful>>

-----------------------------------------------------------------------------

Next ==
    \/ \E l \in Listings, a \in Agents : AttachAgent(l, a) \/ DetachAgent(l, a)
    \/ \E k \in Tasks :
        \/ SaveAgent(k) \/ RefuseAgent(k) \/ LinkAgent(k) \/ CreateAgent(k) \/ UpdateAgent(k) \/ Merge(k)
        \/ \E p \in Phones : SavePhone(k, p)
        \/ \E numbers \in Numbers :
            \/ \E l \in Listings : FindAgent(k, l, numbers)
            \/ \E a \in Agents : ResolveForUpdate(k, a, numbers)
            \/ FindForCreate(k, numbers)
        \/ \E a, b \in Agents : StartMerge(k, a, b)

Spec == Init /\ [][Next]_vars

-----------------------------------------------------------------------------
(* Properties *)

\* Following the merges ends, from every agent, as long as merges are made one
\* at a time and from fresh lists: nothing else looks at the target.
MergesEnd == careful => \A a \in Agents : Ends(a)

\* A listing that was given an agent keeps one until a broker takes one off it,
\* though merges move its links while messages add others and the same agents
\* are merged twice.
AttachedKept == \A l \in attached : \E a \in Agents : <<l, a>> \in link

\* The types, the end of merges and the listings' agents.
AgentsInv == AgentsTypeOK /\ MergesEnd /\ AttachedKept
=============================================================================
