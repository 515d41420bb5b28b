---------------------------- MODULE AgentsProofs ----------------------------
(***************************************************************************)
(* Proofs about a workspace's agents, for any number of them: their types, *)
(* the end of the merges and the listings' agents.                         *)
(*                                                                         *)
(* Merges made one at a time from fresh lists keep the agents in an order  *)
(* in which each is merged into a later one; a chain of merges then ends   *)
(* within as many steps as there are agents.                               *)
(***************************************************************************)
EXTENDS Agents, WellFoundedInduction, TLAPS

\* What the tasks hold is there.
TasksKnow ==
    \A k \in Tasks :
        /\ task[k].pc \in {"save", "link"} => task[k].agent \in 0..created
        /\ task[k].pc = "link" => task[k].agent # 0
        /\ task[k].pc = "update" => task[k].agent \in Agents
        /\ task[k].pc = "merge" =>
             task[k].source \in Agents /\ task[k].target \in Agents /\ task[k].source # task[k].target

\* A merge is alone, and both agents are as they were when it read them.
LoneMerge ==
    \A k \in Tasks : task[k].pc = "merge" =>
        /\ mergedInto[task[k].source] = 0 /\ mergedInto[task[k].target] = 0
        /\ \A h \in Tasks : task[h].pc = "merge" => h = k

\* An order of the agents in which merges lead upwards.
Upwards(ord) ==
    /\ ord \in [Agents -> Agents]
    /\ \A a, b \in Agents : ord[a] = ord[b] => a = b
    /\ \A a \in Agents : mergedInto[a] # 0 => ord[a] < ord[mergedInto[a]]

Ordered == \E ord \in [Agents -> Agents] : Upwards(ord)

AgentsIInv ==
    /\ AgentsTypeOK /\ TasksKnow /\ AttachedKept
    /\ careful => LoneMerge /\ Ordered

-----------------------------------------------------------------------------
(* Chains of merges *)

\* Induction on numbers, from the well-foundedness of their order.
LEMMA NumbersReached ==
    ASSUME NEW S, 0 \in S, \A n \in Nat : n \in S => n + 1 \in S
    PROVE  Nat \subseteq S
  <1> DEFINE Below == {p \in Nat \X Nat : p[1] < p[2]}
  <1> SUFFICES ASSUME Nat \ S # {} PROVE FALSE
    OBVIOUS
  <1>1. IsWellFoundedOn(Below, Nat)
    BY NatLessThanWellFounded DEF OpToRel
  <1>2. PICK n \in Nat \ S : \A m \in Nat \ S : ~ (<<m, n>> \in Below)
    <2>1. Nat \ S \subseteq Nat
      OBVIOUS
    <2> HIDE DEF Below
    <2> QED BY <1>1, <2>1, WFMin
  <1>3. n - 1 \in Nat /\ <<n - 1, n>> \in Below
    OBVIOUS
  <1> QED BY <1>2, <1>3

\* A chain of n merges from a.
Chain(f, a, n) == f = [k \in 0..n |-> IF k = 0 THEN a ELSE Onward(f[k - 1])]

\* A chain can be followed one merge further.
LEMMA ChainGrows ==
    ASSUME NEW f, NEW a, NEW n \in Nat, Chain(f, a, n)
    PROVE  \E g : Chain(g, a, n + 1)
  <1> DEFINE g == [k \in 0..n + 1 |-> IF k <= n THEN f[k] ELSE Onward(f[n])]
  <1>1. ASSUME NEW k \in 0..n + 1 PROVE g[k] = IF k = 0 THEN a ELSE Onward(g[k - 1])
    <2>1. CASE k = 0
      BY <2>1 DEF Chain
    <2>2. CASE k # 0 /\ k <= n
      <3>1. f[k] = Onward(f[k - 1])
        BY <2>2 DEF Chain
      <3>2. g[k] = f[k] /\ g[k - 1] = f[k - 1]
        BY <2>2
      <3> QED BY <2>2, <3>1, <3>2
    <2>3. CASE k = n + 1
      BY <2>3
    <2> QED BY <2>1, <2>2, <2>3
  <1>2. g = [k \in 0..n + 1 |-> g[k]]
    OBVIOUS
  <1> HIDE DEF g
  <1>3. g = [k \in 0..n + 1 |-> IF k = 0 THEN a ELSE Onward(g[k - 1])]
    BY <1>1, <1>2
  <1> QED BY <1>3 DEF Chain

\* There are chains of every length.
LEMMA ChainExists ==
    ASSUME NEW a
    PROVE  \A n \in Nat : \E f : Chain(f, a, n)
  <1> DEFINE S == {n \in Nat : \E f : Chain(f, a, n)}
  <1>1. 0 \in S
    <2>1. Chain([k \in 0..0 |-> a], a, 0)
      BY DEF Chain
    <2> QED BY <2>1
  <1>2. \A n \in Nat : n \in S => n + 1 \in S
    BY ChainGrows
  <1> HIDE DEF S
  <1>3. Nat \subseteq S
    BY <1>1, <1>2, NumbersReached
  <1> QED BY <1>3 DEF S

\* Follow follows one.
LEMMA FollowIsChain ==
    ASSUME created \in Nat, NEW a
    PROVE  \E f : Chain(f, a, created) /\ Follow(a) = f[created]
  <1>1. PICK f : f = [k \in 0..created |-> IF k = 0 THEN a ELSE Onward(f[k - 1])]
    BY ChainExists DEF Chain
  <1>2. PICK g : g = CHOOSE h : h = [k \in 0..created |-> IF k = 0 THEN a ELSE Onward(h[k - 1])]
    OBVIOUS
  <1>3. g = [k \in 0..created |-> IF k = 0 THEN a ELSE Onward(g[k - 1])]
    BY <1>1, <1>2
  <1>4. Follow(a) = g[created]
    BY <1>2 DEF Follow
  <1> QED BY <1>3, <1>4 DEF Chain

\* A chain of merges stays among the agents, and goes upwards until it ends.
LEMMA ChainStays ==
    ASSUME AgentsTypeOK, NEW a \in Agents, NEW f, Chain(f, a, created)
    PROVE  \A k \in 0..created : f[k] \in Agents
  <1> DEFINE S == {k \in Nat : k <= created => f[k] \in Agents}
  <1>1. created \in Nat
    BY DEF AgentsTypeOK
  <1>2. 0 \in S
    BY <1>1 DEF Chain
  <1>3. ASSUME NEW k \in Nat, k \in S, k + 1 <= created PROVE f[k + 1] \in Agents
    <2>1. f[k + 1] = Onward(f[k])
      BY <1>1, <1>3 DEF Chain
    <2>2. f[k] \in Agents
      BY <1>1, <1>3
    <2>3. mergedInto[f[k]] \in 0..created
      BY <2>2 DEF AgentsTypeOK
    <2> QED BY <1>1, <2>1, <2>2, <2>3 DEF Onward, Agents
  <1>4. \A k \in Nat : k \in S => k + 1 \in S
    BY <1>3
  <1> HIDE DEF S
  <1>5. Nat \subseteq S
    BY <1>2, <1>4, NumbersReached
  <1> QED BY <1>1, <1>5 DEF S

\* Along a chain of merges the order of the agents rises at every link.
LEMMA ChainRises ==
    ASSUME AgentsTypeOK, NEW a \in Agents, NEW f, Chain(f, a, created), NEW ord, Upwards(ord)
    PROVE  \A k \in 0..created : mergedInto[f[k]] = 0 \/ ord[f[k]] > k
  <1> DEFINE S == {k \in Nat : k <= created => mergedInto[f[k]] = 0 \/ ord[f[k]] > k}
  <1>1. created \in Nat
    BY DEF AgentsTypeOK
  <1>2. \A k \in 0..created : f[k] \in Agents /\ ord[f[k]] \in Agents
    BY ChainStays DEF Upwards
  <1>3. 0 \in S
    BY <1>1, <1>2 DEF Agents
  <1>4. ASSUME NEW k \in Nat, k \in S, k + 1 <= created
        PROVE  mergedInto[f[k + 1]] = 0 \/ ord[f[k + 1]] > k + 1
    <2>1. f[k + 1] = Onward(f[k]) /\ k \in 0..created /\ k + 1 \in 0..created
      BY <1>1, <1>4 DEF Chain
    <2>2. CASE mergedInto[f[k]] = 0
      BY <2>1, <2>2 DEF Onward
    <2>3. CASE mergedInto[f[k]] # 0
      <3>1. f[k + 1] = mergedInto[f[k]]
        BY <2>1, <2>3 DEF Onward
      <3>2. ord[f[k]] > k /\ ord[f[k]] < ord[f[k + 1]]
        BY <1>2, <1>4, <2>1, <2>3, <3>1 DEF Upwards
      <3> QED BY <1>2, <2>1, <3>2 DEF Agents
    <2> QED BY <2>2, <2>3
  <1>5. \A k \in Nat : k \in S => k + 1 \in S
    BY <1>4
  <1> HIDE DEF S
  <1>6. Nat \subseteq S
    BY <1>3, <1>5, NumbersReached
  <1> QED BY <1>1, <1>6 DEF S

\* getResolvedAgent returns an agent.
LEMMA FollowType ==
    ASSUME AgentsTypeOK, NEW a \in Agents
    PROVE  Follow(a) \in Agents
  <1>1. created \in Nat
    BY DEF AgentsTypeOK
  <1>2. PICK f : Chain(f, a, created) /\ Follow(a) = f[created]
    BY <1>1, FollowIsChain
  <1> QED BY <1>1, <1>2, ChainStays

\* ... and one that is not merged, if merges lead upwards.
LEMMA UpwardsEnds ==
    ASSUME AgentsTypeOK, Ordered, NEW a \in Agents
    PROVE  Ends(a)
  <1>1. created \in Nat
    BY DEF AgentsTypeOK
  <1>2. PICK ord : Upwards(ord)
    BY DEF Ordered
  <1>3. PICK f : Chain(f, a, created) /\ Follow(a) = f[created]
    BY <1>1, FollowIsChain
  <1>4. mergedInto[f[created]] = 0 \/ ord[f[created]] > created
    BY <1>1, <1>2, <1>3, ChainRises
  <1>5. f[created] \in Agents /\ ord[f[created]] \in Agents
    BY <1>1, <1>2, <1>3, ChainStays DEF Upwards
  <1> QED BY <1>1, <1>3, <1>4, <1>5 DEF Ends, Agents

-----------------------------------------------------------------------------
(* The order of the agents *)

\* A merge of two agents that are not merged: the target goes right above the
\* source, if it was below, and those between them move down.
LEMMA MergeOrdered ==
    ASSUME AgentsTypeOK, Ordered, NEW a \in Agents, NEW b \in Agents, a # b,
           mergedInto[a] = 0, mergedInto[b] = 0,
           created' = created, mergedInto' = [mergedInto EXCEPT ![a] = b]
    PROVE  Ordered'
  <1>1. PICK ord \in [Agents -> Agents] : Upwards(ord)
    BY DEF Ordered
  <1>2. created \in Nat /\ Agents' = Agents /\ mergedInto \in [Agents -> 0..created]
    <2>1. Agents' = Agents
      BY DEF Agents
    <2> QED BY <2>1 DEF AgentsTypeOK
  <1>3. \A c \in Agents : mergedInto'[c] = IF c = a THEN b ELSE mergedInto[c]
    BY <1>2
  <1>4. \A c \in Agents : ord[c] \in 1..created
    BY DEF Agents
  <1>5. CASE ord[a] < ord[b]
    <2>1. Upwards(ord)'
      BY <1>1, <1>2, <1>3, <1>5 DEF Upwards
    <2> QED BY <1>2, <2>1 DEF Ordered
  <1>6. CASE ~(ord[a] < ord[b])
    <2>1. ord[b] < ord[a]
      BY <1>1, <1>4, <1>6 DEF Upwards
    <2>2. PICK new : new = [c \in Agents |-> IF c = b THEN ord[a]
                                           ELSE IF ord[b] < ord[c] /\ ord[c] <= ord[a] THEN ord[c] - 1
                                           ELSE ord[c]]
      OBVIOUS
    <2>3. \A c \in Agents : new[c] = IF c = b THEN ord[a]
                                    ELSE IF ord[b] < ord[c] /\ ord[c] <= ord[a] THEN ord[c] - 1
                                    ELSE ord[c]
      BY <2>2
    <2>4. new \in [Agents -> Agents]
      <3>1. a \in 1..created /\ b \in 1..created
        BY DEF Agents
      <3>2. ASSUME NEW c \in Agents PROVE new[c] \in 1..created
        BY <1>2, <1>4, <2>1, <2>3, <3>1
      <3> QED BY <2>2, <3>2 DEF Agents
    <2>5. \A c, d \in Agents : ord[c] = ord[d] => c = d
      BY <1>1 DEF Upwards
    <2>6. ASSUME NEW c \in Agents, NEW d \in Agents, new[c] = new[d] PROVE c = d
      BY <1>2, <1>4, <2>1, <2>3, <2>5, <2>6
    <2>7. ASSUME NEW c \in Agents, mergedInto'[c] # 0 PROVE new[c] < new[mergedInto'[c]]
      <3>1. CASE c = a
        BY <1>2, <1>3, <1>4, <2>1, <2>3, <3>1
      <3>2. CASE c # a
        <4>1. PICK d \in Agents : d = mergedInto[c] /\ mergedInto'[c] = d /\ ord[c] < ord[d]
          <5>1. mergedInto'[c] = mergedInto[c] /\ mergedInto[c] # 0 /\ mergedInto[c] \in 0..created
            BY <1>2, <1>3, <2>7, <3>2
          <5>2. mergedInto[c] \in Agents
            BY <1>2, <5>1 DEF Agents
          <5> QED BY <1>1, <5>1, <5>2 DEF Upwards
        <4>2. c # b
          BY <1>3, <2>7, <3>2
        <4>3. ord[c] # ord[b] /\ ord[c] # ord[a]
          BY <2>5, <3>2, <4>2
        <4> QED BY <1>2, <1>4, <2>1, <2>3, <4>1, <4>2, <4>3
      <3> QED BY <3>1, <3>2
    <2>8. Upwards(new)'
      BY <1>2, <2>4, <2>6, <2>7 DEF Upwards
    <2> QED BY <1>2, <2>4, <2>8 DEF Ordered
  <1> QED BY <1>5, <1>6

\* A new agent is not merged: it goes last.
LEMMA NewAgentOrdered ==
    ASSUME AgentsTypeOK, Ordered, NEW numbers, NewAgent(numbers)
    PROVE  Ordered'
  <1>1. PICK ord \in [Agents -> Agents] : Upwards(ord)
    BY DEF Ordered
  <1>2. created \in Nat /\ created' = created + 1 /\ mergedInto \in [Agents -> 0..created]
    BY DEF AgentsTypeOK, NewAgent
  <1>3. \A a \in Agents' : mergedInto'[a] = IF a \in Agents THEN mergedInto[a] ELSE 0
    BY DEF NewAgent, Agents
  <1>4. Agents' = Agents \cup {created + 1} /\ created + 1 \notin Agents
    BY <1>2 DEF Agents
  <1>5. PICK new : new = [a \in Agents' |-> IF a \in Agents THEN ord[a] ELSE a]
    OBVIOUS
  <1>6. \A a \in Agents' : new[a] = IF a \in Agents THEN ord[a] ELSE a
    BY <1>5
  <1>7. new \in [Agents' -> Agents']
    BY <1>4, <1>5
  <1>8. ASSUME NEW a \in Agents', NEW b \in Agents', new[a] = new[b] PROVE a = b
    BY <1>1, <1>4, <1>6, <1>8 DEF Upwards
  <1>9. ASSUME NEW a \in Agents', mergedInto'[a] # 0 PROVE new[a] < new[mergedInto'[a]]
    <2>1. a \in Agents /\ mergedInto'[a] = mergedInto[a] /\ mergedInto[a] \in Agents
      BY <1>2, <1>3, <1>9 DEF Agents
    <2> QED BY <1>1, <1>4, <1>6, <1>9, <2>1 DEF Upwards
  <1>10. Upwards(new)'
    BY <1>7, <1>8, <1>9 DEF Upwards
  <1> QED BY <1>7, <1>10 DEF Ordered

-----------------------------------------------------------------------------
(* Tasks *)

Records == {Idle} \cup Attaching \cup Creating \cup Updating \cup Merging

\* What a task holds says what it is.
LEMMA RecordShapes ==
    ASSUME AgentsTypeOK, NEW k \in Tasks
    PROVE  /\ task[k].pc \in {"save", "link"} => task[k] \in Attaching
           /\ task[k].pc = "create" => task[k] \in Creating
           /\ task[k].pc = "update" => task[k] \in Updating
           /\ task[k].pc = "merge" => task[k] \in Merging
  BY DEF AgentsTypeOK, Idle, Attaching, Creating, Updating, Merging

\* A task goes to a record that is true of the tables, which lose no agent.
LEMMA GoKnows ==
    ASSUME AgentsTypeOK, TasksKnow, created' \in {created, created + 1},
           NEW k \in Tasks, NEW rec \in Records, Go(k, rec),
           rec.pc \in {"save", "link"} => rec.agent \in 0..created',
           rec.pc = "link" => rec.agent # 0,
           rec.pc = "update" => rec.agent \in 1..created,
           rec.pc = "merge" => rec.source \in 1..created /\ rec.target \in 1..created /\ rec.source # rec.target
    PROVE  /\ task' \in [Tasks -> Records] /\ TasksKnow'
           /\ \A h \in Tasks : task'[h] = IF h = k THEN rec ELSE task[h]
  <1>1. \A h \in Tasks : task'[h] = IF h = k THEN rec ELSE task[h]
    BY DEF Go, AgentsTypeOK
  <1>2. task' \in [Tasks -> Records]
    BY DEF Go, AgentsTypeOK, Records
  <1>3. created \in Nat
    BY DEF AgentsTypeOK
  <1>4. ASSUME NEW h \in Tasks
        PROVE  /\ task'[h].pc \in {"save", "link"} => task'[h].agent \in 0..created'
               /\ task'[h].pc = "link" => task'[h].agent # 0
               /\ task'[h].pc = "update" => task'[h].agent \in 1..created'
               /\ task'[h].pc = "merge" => /\ task'[h].source \in 1..created' /\ task'[h].target \in 1..created'
                                           /\ task'[h].source # task'[h].target
    <2>1. CASE h = k
      BY <1>1, <1>3, <2>1
    <2>2. CASE h # k
      <3>1. task'[h] = task[h]
        BY <1>1, <2>2
      <3>2. /\ task[h].pc \in {"save", "link"} => task[h].agent \in 0..created
            /\ task[h].pc = "link" => task[h].agent # 0
            /\ task[h].pc = "update" => task[h].agent \in 1..created
            /\ task[h].pc = "merge" => /\ task[h].source \in 1..created /\ task[h].target \in 1..created
                                       /\ task[h].source # task[h].target
        BY DEF TasksKnow, Agents
      <3> QED BY <1>3, <3>1, <3>2
    <2> QED BY <2>1, <2>2
  <1> QED BY <1>1, <1>2, <1>4 DEF TasksKnow, Agents

\* Taking a task is going there from idleness.
LEMMA TakeGoes ==
    ASSUME NEW k \in Tasks, NEW rec, Take(k, rec)
    PROVE  Go(k, rec) /\ task[k].pc = "idle"
  BY DEF Take, Go, Idle

\* Merges under way stay alone while no merge starts or is carried out.
LEMMA LoneMergeStays ==
    ASSUME AgentsTypeOK, TasksKnow, LoneMerge, NEW k \in Tasks, NEW rec,
           \A h \in Tasks : task'[h] = IF h = k THEN rec ELSE task[h],
           rec.pc # "merge",
           \A a \in Agents : mergedInto'[a] = mergedInto[a]
    PROVE  LoneMerge'
  BY DEF LoneMerge, TasksKnow

\* A new agent leaves the others as they are.
LEMMA NewAgentType ==
    ASSUME AgentsTypeOK, NEW numbers \in SUBSET Phones, NewAgent(numbers)
    PROVE  /\ created' \in 0..MaxAgents /\ created' = created + 1 /\ created \in Nat
           /\ phones' \in [Agents' -> SUBSET Phones]
           /\ mergedInto' \in [Agents' -> 0..created']
           /\ Agents \subseteq Agents' /\ \A a \in Agents : mergedInto'[a] = mergedInto[a]
  <1>1. /\ created \in Nat /\ created' = created + 1 /\ created' \in 0..MaxAgents
        /\ Agents' = 1..created + 1
    BY AgentsAssumption DEF AgentsTypeOK, NewAgent, AgentsAssumption, Agents
  <1>2. phones' \in [Agents' -> SUBSET Phones]
    BY <1>1 DEF AgentsTypeOK, NewAgent
  <1>3. mergedInto' \in [Agents' -> 0..created']
    <2>1. \A a \in Agents : mergedInto[a] \in 0..created'
      BY <1>1 DEF AgentsTypeOK
    <2> QED BY <1>1, <2>1 DEF NewAgent
  <1>4. Agents \subseteq Agents'
    BY <1>1 DEF Agents
  <1>5. \A a \in Agents : mergedInto'[a] = mergedInto[a]
    BY <1>1, <1>4 DEF NewAgent
  <1> QED BY <1>1, <1>2, <1>3, <1>4, <1>5

-----------------------------------------------------------------------------
(* The steps *)

\* Steps that start a task and leave the tables alone.
LEMMA StartStep ==
    ASSUME AgentsIInv, NEW k \in Tasks, NEW rec \in Records, Take(k, rec),
           UNCHANGED <<created, phones, mergedInto, link, attached, careful>>, requests' \in 0..MaxRequests,
           rec.pc \in {"save", "link"} => rec.agent \in 0..created,
           rec.pc # "link",
           rec.pc = "update" => rec.agent \in 1..created,
           rec.pc = "merge" => rec.source \in 1..created /\ rec.target \in 1..created /\ rec.source # rec.target,
           careful /\ rec.pc = "merge" => /\ mergedInto[rec.source] = 0 /\ mergedInto[rec.target] = 0
                                          /\ \A h \in Tasks : task[h].pc # "merge"
    PROVE  AgentsIInv'
  <1>1. Go(k, rec) /\ task[k].pc = "idle" /\ created' \in {created, created + 1}
    BY TakeGoes
  <1>2. /\ task' \in [Tasks -> Records] /\ TasksKnow'
        /\ \A h \in Tasks : task'[h] = IF h = k THEN rec ELSE task[h]
    BY <1>1, GoKnows DEF AgentsIInv
  <1>3. AgentsTypeOK'
    BY <1>2 DEF AgentsIInv, AgentsTypeOK, Agents, Records
  <1>4. AttachedKept'
    BY DEF AgentsIInv, AttachedKept, Agents
  <1>5. Ordered => Ordered'
    BY DEF Ordered, Upwards, Agents
  <1>6. careful => LoneMerge'
    <2>1. CASE rec.pc # "merge"
      BY <1>2, <2>1, LoneMergeStays DEF AgentsIInv
    <2>2. CASE rec.pc = "merge"
      BY <1>2, <2>2 DEF AgentsIInv, LoneMerge
    <2> QED BY <2>1, <2>2
  <1> QED BY <1>2, <1>3, <1>4, <1>5, <1>6 DEF AgentsIInv

\* An upsert finds an agent with one of the numbers, or none.
LEMMA FindAgentStep ==
    ASSUME AgentsIInv, NEW k \in Tasks, NEW l \in Listings, NEW numbers \in Numbers, FindAgent(k, l, numbers)
    PROVE  AgentsIInv'
  <1>1. PICK a \in Found(numbers) :
          /\ Take(k, [pc |-> "save", listing |-> l, phones |-> numbers, agent |-> a])
          /\ UNCHANGED <<created, phones, mergedInto, link, attached, requests, careful>>
    BY DEF FindAgent
  <1>2. a \in 0..created /\ a \in 0..MaxAgents
    BY AgentsAssumption DEF Found, Agents, AgentsIInv, AgentsTypeOK, AgentsAssumption
  <1>3. PICK rec : rec = [pc |-> "save", listing |-> l, phones |-> numbers, agent |-> a]
    OBVIOUS
  <1>4. rec \in Records /\ rec.pc = "save" /\ rec.agent = a
    BY <1>2, <1>3 DEF Records, Attaching, Numbers
  <1>5. requests' \in 0..MaxRequests
    BY <1>1 DEF AgentsIInv, AgentsTypeOK
  <1> QED BY <1>1, <1>2, <1>3, <1>4, <1>5, StartStep

\* A request made by hand is counted.
LEMMA ByHandType == AgentsTypeOK /\ ByHand => requests' \in 0..MaxRequests
  BY AgentsAssumption DEF AgentsTypeOK, ByHand, AgentsAssumption

\* A creation by hand finds no agent with the numbers.
LEMMA FindForCreateStep ==
    ASSUME AgentsIInv, NEW k \in Tasks, NEW numbers \in Numbers, FindForCreate(k, numbers)
    PROVE  AgentsIInv'
  <1>1. /\ Take(k, [pc |-> "create", phones |-> numbers])
        /\ UNCHANGED <<created, phones, mergedInto, link, attached, careful>> /\ requests' \in 0..MaxRequests
    BY ByHandType DEF FindForCreate, AgentsIInv
  <1>2. PICK rec : rec = [pc |-> "create", phones |-> numbers]
    OBVIOUS
  <1>3. rec \in Records /\ rec.pc = "create"
    BY <1>2 DEF Records, Creating
  <1> QED BY <1>1, <1>2, <1>3, StartStep

\* An update starts at the end of its agent's merges.
LEMMA ResolveStep ==
    ASSUME AgentsIInv, NEW k \in Tasks, NEW a \in Agents, NEW numbers \in Numbers,
           ResolveForUpdate(k, a, numbers)
    PROVE  AgentsIInv'
  <1>1. /\ Take(k, [pc |-> "update", agent |-> Follow(a), phones |-> numbers])
        /\ UNCHANGED <<created, phones, mergedInto, link, attached, careful>> /\ requests' \in 0..MaxRequests
    BY ByHandType DEF ResolveForUpdate, AgentsIInv
  <1>2. Follow(a) \in Agents
    BY FollowType DEF AgentsIInv
  <1>3. Follow(a) \in 1..created /\ Follow(a) \in 1..MaxAgents
    BY <1>2, AgentsAssumption DEF Agents, AgentsIInv, AgentsTypeOK, AgentsAssumption
  <1>4. PICK rec : rec = [pc |-> "update", agent |-> Follow(a), phones |-> numbers]
    OBVIOUS
  <1>5. rec \in Records /\ rec.pc = "update" /\ rec.agent = Follow(a)
    BY <1>3, <1>4 DEF Records, Updating
  <1> QED BY <1>1, <1>3, <1>4, <1>5, StartStep

\* A merge reads the agent it is to merge, which has not been merged.
LEMMA StartMergeStep ==
    ASSUME AgentsIInv, NEW k \in Tasks, NEW a \in Agents, NEW b \in Agents, StartMerge(k, a, b)
    PROVE  AgentsIInv'
  <1>1. /\ Take(k, [pc |-> "merge", source |-> a, target |-> b, phones |-> phones[a]])
        /\ UNCHANGED <<created, phones, mergedInto, link, attached, careful>> /\ requests' \in 0..MaxRequests
        /\ a # b /\ mergedInto[a] = 0
        /\ careful => mergedInto[b] = 0 /\ \A h \in Tasks : task[h].pc # "merge"
    BY ByHandType DEF StartMerge, CanMerge, Offered, AgentsIInv
  <1>2. a \in 1..created /\ b \in 1..created /\ a \in 1..MaxAgents /\ b \in 1..MaxAgents /\ phones[a] \in SUBSET Phones
    BY AgentsAssumption DEF Agents, AgentsIInv, AgentsTypeOK, AgentsAssumption
  <1>3. PICK rec : rec = [pc |-> "merge", source |-> a, target |-> b, phones |-> phones[a]]
    OBVIOUS
  <1>4. rec \in Records /\ rec.pc = "merge" /\ rec.source = a /\ rec.target = b
    BY <1>2, <1>3 DEF Records, Merging
  <1> QED BY <1>1, <1>2, <1>3, <1>4, StartStep

\* A new agent is merged into none.
LEMMA SaveStep ==
    ASSUME AgentsIInv, NEW k \in Tasks, SaveAgent(k)
    PROVE  AgentsIInv'
  <1>1. task[k] \in Attaching /\ task[k].pc = "save" /\ task[k].agent = 0
    BY RecordShapes DEF SaveAgent, AgentsIInv
  <1>2. UNCHANGED <<link, attached, requests, careful>> /\ created \in Nat
    BY DEF SaveAgent, AgentsIInv, AgentsTypeOK
  <1>3. PICK rec : rec = [task[k] EXCEPT !.pc = "link", !.agent = created + 1]
    OBVIOUS
  <1>4. NewAgent(task[k].phones) /\ Go(k, rec)
    BY <1>3 DEF SaveAgent
  <1>5. task[k].phones \in SUBSET Phones
    BY <1>1 DEF Attaching
  <1>6. /\ created' \in 0..MaxAgents /\ created' = created + 1
        /\ phones' \in [Agents' -> SUBSET Phones] /\ mergedInto' \in [Agents' -> 0..created']
        /\ Agents \subseteq Agents' /\ \A a \in Agents : mergedInto'[a] = mergedInto[a]
    BY <1>4, <1>5, NewAgentType DEF AgentsIInv
  <1>7. rec \in Records /\ rec.pc = "link" /\ rec.agent = created + 1
    BY <1>1, <1>2, <1>3, <1>6, AgentsAssumption DEF Records, Attaching, AgentsAssumption
  <1>8. /\ task' \in [Tasks -> Records] /\ TasksKnow'
        /\ \A h \in Tasks : task'[h] = IF h = k THEN rec ELSE task[h]
    BY <1>2, <1>4, <1>6, <1>7, GoKnows DEF AgentsIInv
  <1>9. AgentsTypeOK'
    <2>1. link' \subseteq Listings \X Agents'
      BY <1>2, <1>6 DEF AgentsIInv, AgentsTypeOK
    <2> QED BY <1>2, <1>6, <1>8, <2>1 DEF AgentsIInv, AgentsTypeOK, Records
  <1>10. AttachedKept'
    BY <1>2, <1>6 DEF AgentsIInv, AttachedKept
  <1>11. careful => LoneMerge' /\ Ordered'
    BY <1>4, <1>6, <1>7, <1>8, LoneMergeStays, NewAgentOrdered DEF AgentsIInv
  <1> QED BY <1>2, <1>8, <1>9, <1>10, <1>11 DEF AgentsIInv

\* The agent found is given a number.
LEMMA PhoneStep ==
    ASSUME AgentsIInv, NEW k \in Tasks, NEW p \in Phones, SavePhone(k, p)
    PROVE  AgentsIInv'
  <1>1. task[k] \in Attaching /\ task[k].pc = "save" /\ task[k].agent \in 0..created /\ task[k].agent # 0
    BY RecordShapes DEF SavePhone, AgentsIInv, TasksKnow
  <1>2. UNCHANGED <<created, mergedInto, link, attached, requests, careful>> /\ created \in Nat
    BY DEF SavePhone, AgentsIInv, AgentsTypeOK
  <1>3. PICK rec : rec = [task[k] EXCEPT !.phones = @ \ {p}, !.pc = IF task[k].phones = {p} THEN "link" ELSE "save"]
    OBVIOUS
  <1>4. Go(k, rec) /\ phones' = [phones EXCEPT ![task[k].agent] = @ \cup {p}]
    BY <1>3 DEF SavePhone
  <1>5. rec \in Records /\ rec.pc \in {"save", "link"} /\ rec.agent = task[k].agent
    BY <1>1, <1>3 DEF Records, Attaching
  <1>6. /\ task' \in [Tasks -> Records] /\ TasksKnow'
        /\ \A h \in Tasks : task'[h] = IF h = k THEN rec ELSE task[h]
    BY <1>1, <1>2, <1>4, <1>5, GoKnows DEF AgentsIInv
  <1>7. Agents' = Agents
    BY <1>2 DEF Agents
  <1>8. phones' \in [Agents -> SUBSET Phones]
    BY <1>4 DEF AgentsIInv, AgentsTypeOK
  <1>9. AgentsTypeOK'
    BY <1>2, <1>6, <1>7, <1>8 DEF AgentsIInv, AgentsTypeOK, Records
  <1>10. AttachedKept' /\ (Ordered => Ordered')
    BY <1>2, <1>7 DEF AgentsIInv, AttachedKept, Ordered, Upwards
  <1>11. careful => LoneMerge'
    BY <1>2, <1>5, <1>6, LoneMergeStays DEF AgentsIInv
  <1> QED BY <1>2, <1>6, <1>9, <1>10, <1>11 DEF AgentsIInv

\* Steps that end a task and make and merge no agent.
LEMMA EndStep ==
    ASSUME AgentsIInv, NEW k \in Tasks, Finish(k),
           UNCHANGED <<created, mergedInto, requests, careful>>,
           phones' \in [Agents -> SUBSET Phones],
           link' \subseteq Listings \X Agents, attached' \subseteq Listings, AttachedKept'
    PROVE  AgentsIInv'
  <1>1. /\ Go(k, Idle) /\ Idle \in Records /\ Idle.pc = "idle" /\ created' \in {created, created + 1}
    BY DEF Finish, Records, Idle
  <1>2. /\ task' \in [Tasks -> Records] /\ TasksKnow'
        /\ \A h \in Tasks : task'[h] = IF h = k THEN Idle ELSE task[h]
    BY <1>1, GoKnows DEF AgentsIInv
  <1>3. Agents' = Agents
    BY DEF Agents
  <1>4. AgentsTypeOK'
    BY <1>2, <1>3 DEF AgentsIInv, AgentsTypeOK, Records
  <1>5. Ordered => Ordered'
    BY <1>3 DEF Ordered, Upwards
  <1>6. careful => LoneMerge'
    BY <1>1, <1>2, LoneMergeStays DEF AgentsIInv
  <1> QED BY <1>2, <1>4, <1>5, <1>6 DEF AgentsIInv

\* A refused agent changes no table.
LEMMA RefuseStep ==
    ASSUME AgentsIInv, NEW k \in Tasks, RefuseAgent(k)
    PROVE  AgentsIInv'
  <1>1. Finish(k) /\ UNCHANGED <<created, phones, mergedInto, link, attached, requests, careful>>
    BY DEF RefuseAgent
  <1>2. /\ phones' \in [Agents -> SUBSET Phones] /\ link' \subseteq Listings \X Agents
        /\ attached' \subseteq Listings
    BY <1>1 DEF AgentsIInv, AgentsTypeOK
  <1>3. AttachedKept'
    BY <1>1 DEF AgentsIInv, AttachedKept, Agents
  <1> QED BY <1>1, <1>2, <1>3, EndStep

\* A listing is attached to the agent saved.
LEMMA LinkStep ==
    ASSUME AgentsIInv, NEW k \in Tasks, LinkAgent(k)
    PROVE  AgentsIInv'
  <1>1. task[k] \in Attaching /\ task[k].agent \in Agents
    BY RecordShapes DEF LinkAgent, AgentsIInv, TasksKnow, AgentsTypeOK, Agents
  <1>2. /\ Finish(k) /\ UNCHANGED <<created, phones, mergedInto, requests, careful>>
        /\ link' = link \cup {<<task[k].listing, task[k].agent>>}
        /\ attached' = attached \cup {task[k].listing}
    BY DEF LinkAgent
  <1>3. task[k].listing \in Listings
    BY <1>1 DEF Attaching
  <1>4. /\ phones' \in [Agents -> SUBSET Phones] /\ link' \subseteq Listings \X Agents
        /\ attached' \subseteq Listings
    BY <1>1, <1>2, <1>3 DEF AgentsIInv, AgentsTypeOK
  <1>5. AttachedKept'
    BY <1>1, <1>2 DEF AgentsIInv, AttachedKept, Agents
  <1> QED BY <1>2, <1>4, <1>5, EndStep

\* An update writes numbers and leaves merges and links alone.
LEMMA UpdateStep ==
    ASSUME AgentsIInv, NEW k \in Tasks, UpdateAgent(k)
    PROVE  AgentsIInv'
  <1>1. task[k] \in Updating
    BY RecordShapes DEF UpdateAgent, AgentsIInv
  <1>2. /\ Finish(k) /\ UNCHANGED <<created, mergedInto, link, attached, requests, careful>>
        /\ \/ phones' = phones
           \/ phones' = [phones EXCEPT ![task[k].agent] = task[k].phones]
    BY DEF UpdateAgent
  <1>3. task[k].phones \in SUBSET Phones
    BY <1>1 DEF Updating, Numbers
  <1>4. /\ phones' \in [Agents -> SUBSET Phones] /\ link' \subseteq Listings \X Agents
        /\ attached' \subseteq Listings
    BY <1>2, <1>3 DEF AgentsIInv, AgentsTypeOK
  <1>5. AttachedKept'
    BY <1>2 DEF AgentsIInv, AttachedKept, Agents
  <1> QED BY <1>2, <1>4, <1>5, EndStep

\* An agent created comes last in the order, merged into none.
LEMMA CreateStep ==
    ASSUME AgentsIInv, NEW k \in Tasks, CreateAgent(k)
    PROVE  AgentsIInv'
  <1>1. task[k] \in Creating
    BY RecordShapes DEF CreateAgent, AgentsIInv
  <1>2. /\ NewAgent(task[k].phones) /\ Go(k, Idle) /\ UNCHANGED <<link, attached, requests, careful>>
        /\ Idle \in Records /\ Idle.pc = "idle"
    BY DEF CreateAgent, Finish, Records, Idle
  <1>3. task[k].phones \in SUBSET Phones
    BY <1>1 DEF Creating, Numbers
  <1>4. /\ created' \in 0..MaxAgents /\ created' = created + 1
        /\ phones' \in [Agents' -> SUBSET Phones] /\ mergedInto' \in [Agents' -> 0..created']
        /\ Agents \subseteq Agents' /\ \A a \in Agents : mergedInto'[a] = mergedInto[a]
    BY <1>2, <1>3, NewAgentType DEF AgentsIInv
  <1>5. /\ task' \in [Tasks -> Records] /\ TasksKnow'
        /\ \A h \in Tasks : task'[h] = IF h = k THEN Idle ELSE task[h]
    BY <1>2, <1>4, GoKnows DEF AgentsIInv
  <1>6. AgentsTypeOK'
    <2>1. link' \subseteq Listings \X Agents'
      BY <1>2, <1>4 DEF AgentsIInv, AgentsTypeOK
    <2> QED BY <1>2, <1>4, <1>5, <2>1 DEF AgentsIInv, AgentsTypeOK, Records
  <1>7. AttachedKept'
    BY <1>2, <1>4 DEF AgentsIInv, AttachedKept
  <1>8. careful => LoneMerge' /\ Ordered'
    BY <1>2, <1>4, <1>5, LoneMergeStays, NewAgentOrdered DEF AgentsIInv
  <1> QED BY <1>2, <1>5, <1>6, <1>7, <1>8 DEF AgentsIInv

\* A merge points an unmerged agent at another, with no path back.
LEMMA MergeStep ==
    ASSUME AgentsIInv, NEW k \in Tasks, Merge(k)
    PROVE  AgentsIInv'
  <1>1. PICK a \in Agents, b \in Agents : a = task[k].source /\ b = task[k].target /\ a # b
    BY DEF Merge, AgentsIInv, TasksKnow
  <1>2. task[k] \in Merging /\ task[k].pc = "merge"
    BY RecordShapes DEF Merge, AgentsIInv
  <1>3. Finish(k) /\ UNCHANGED <<created, attached, requests, careful>>
    BY DEF Merge
  <1>4. CASE UNCHANGED <<phones, mergedInto, link>>
    <2>1. phones' \in [Agents -> SUBSET Phones] /\ link' \subseteq Listings \X Agents /\ attached' \subseteq Listings
      BY <1>3, <1>4 DEF AgentsIInv, AgentsTypeOK
    <2>2. AttachedKept'
      BY <1>3, <1>4 DEF AgentsIInv, AttachedKept, Agents
    <2> QED BY <1>3, <1>4, <2>1, <2>2, EndStep
  <1>5. CASE /\ phones' = [phones EXCEPT ![b] = @ \cup task[k].phones]
             /\ link' = MoveLinks(a, b)
             /\ mergedInto' = [mergedInto EXCEPT ![a] = b]
    <2>1. /\ Go(k, Idle) /\ Idle \in Records /\ Idle.pc = "idle" /\ created' \in {created, created + 1}
      BY <1>3 DEF Finish, Records, Idle
    <2>2. /\ task' \in [Tasks -> Records] /\ TasksKnow'
          /\ \A h \in Tasks : task'[h] = IF h = k THEN Idle ELSE task[h]
      BY <2>1, GoKnows DEF AgentsIInv
    <2>3. Agents' = Agents
      BY <1>3 DEF Agents
    <2>4. phones' \in [Agents -> SUBSET Phones]
      <3>1. task[k].phones \in SUBSET Phones
        BY <1>2 DEF Merging
      <3> QED BY <1>5, <3>1 DEF AgentsIInv, AgentsTypeOK
    <2>5. mergedInto' \in [Agents -> 0..created]
      <3>1. b \in 0..created
        BY DEF Agents
      <3> QED BY <1>5, <3>1 DEF AgentsIInv, AgentsTypeOK
    <2>6. link' \subseteq Listings \X Agents
      BY <1>5 DEF MoveLinks, AgentsIInv, AgentsTypeOK
    <2>7. AgentsTypeOK'
      BY <1>3, <2>2, <2>3, <2>4, <2>5, <2>6 DEF AgentsIInv, AgentsTypeOK, Records
    <2>8. AttachedKept'
      <3> SUFFICES ASSUME NEW l \in attached PROVE \E c \in Agents : <<l, c>> \in link'
        BY <1>3, <2>3 DEF AttachedKept
      <3>1. PICK c \in Agents : <<l, c>> \in link
        BY DEF AgentsIInv, AttachedKept
      <3>2. CASE c = a
        <4>1. <<l, b>> \in MoveLinks(a, b)
          BY <3>1, <3>2 DEF MoveLinks
        <4> QED BY <1>5, <4>1
      <3>3. CASE c # a
        <4>1. <<l, c>> \in MoveLinks(a, b)
          BY <3>1, <3>3 DEF MoveLinks
        <4> QED BY <1>5, <4>1
      <3> QED BY <3>2, <3>3
    <2>9. ASSUME careful PROVE LoneMerge' /\ Ordered'
      <3>1. /\ mergedInto[a] = 0 /\ mergedInto[b] = 0
            /\ \A h \in Tasks : task[h].pc = "merge" => h = k
        BY <1>1, <1>2, <2>9 DEF AgentsIInv, LoneMerge
      <3>2. Ordered'
        BY <1>1, <1>3, <1>5, <2>9, <3>1, MergeOrdered DEF AgentsIInv
      <3>3. \A h \in Tasks : task'[h].pc # "merge"
        BY <2>1, <2>2, <3>1
      <3> QED BY <3>2, <3>3 DEF LoneMerge
    <2> QED BY <1>3, <2>2, <2>7, <2>8, <2>9 DEF AgentsIInv
  <1> QED BY <1>1, <1>4, <1>5 DEF Merge

\* A broker attaches an agent to a listing by hand, or takes one off it.
LEMMA ByHandStep ==
    ASSUME AgentsIInv, NEW l \in Listings, NEW a \in Agents, AttachAgent(l, a) \/ DetachAgent(l, a)
    PROVE  AgentsIInv'
  <1>1. /\ UNCHANGED <<created, phones, mergedInto, task, careful>> /\ requests' \in 0..MaxRequests
        /\ Agents' = Agents
        /\ \/ link' = link \cup {<<l, a>>} /\ attached' = attached \cup {l}
           \/ link' = link \ {<<l, a>>} /\ attached' = attached \ {l}
    BY ByHandType DEF AttachAgent, DetachAgent, AgentsIInv, Agents
  <1>2. AgentsTypeOK'
    BY <1>1 DEF AgentsIInv, AgentsTypeOK
  <1>3. AttachedKept'
    BY <1>1 DEF AgentsIInv, AttachedKept
  <1>4. TasksKnow' /\ (LoneMerge => LoneMerge') /\ (Ordered => Ordered')
    BY <1>1 DEF AgentsIInv, TasksKnow, LoneMerge, Ordered, Upwards
  <1> QED BY <1>1, <1>2, <1>3, <1>4 DEF AgentsIInv

-----------------------------------------------------------------------------
(* The theorem *)

\* The invariant holds at first.
LEMMA AgentsStart == Init => AgentsIInv
  <1> SUFFICES ASSUME Init PROVE AgentsIInv
    OBVIOUS
  <1>1. created = 0 /\ Agents = {} /\ \A k \in Tasks : task[k].pc = "idle"
    BY DEF Init, Agents, Idle
  <1>2. phones \in [Agents -> SUBSET Phones] /\ mergedInto \in [Agents -> 0..created]
    BY <1>1 DEF Init
  <1>3. AgentsTypeOK
    BY <1>1, <1>2, AgentsAssumption DEF Init, AgentsTypeOK, AgentsAssumption
  <1>4. Ordered
    <2>1. << >> \in [Agents -> Agents]
      BY <1>1
    <2>2. Upwards(<< >>)
      BY <1>1, <2>1 DEF Upwards
    <2> QED BY <2>1, <2>2 DEF Ordered
  <1> QED BY <1>1, <1>3, <1>4 DEF Init, AgentsIInv, TasksKnow, LoneMerge, AttachedKept

\* The invariant is inductive.
LEMMA AgentsStep == AgentsIInv /\ [Next]_vars => AgentsIInv'
  <1> SUFFICES ASSUME AgentsIInv, [Next]_vars PROVE AgentsIInv'
    OBVIOUS
  <1>1. CASE UNCHANGED vars
    <2>1. UNCHANGED <<created, phones, mergedInto, link, attached, requests, task, careful>> /\ Agents' = Agents
      BY <1>1 DEF vars, Agents
    <2> QED BY <2>1 DEF AgentsIInv, AgentsTypeOK, TasksKnow, LoneMerge, Ordered, Upwards, AttachedKept
  <1>2. ASSUME NEW l \in Listings, NEW a \in Agents, AttachAgent(l, a) \/ DetachAgent(l, a) PROVE AgentsIInv'
    BY <1>2, ByHandStep
  <1>3. ASSUME NEW k \in Tasks,
               SaveAgent(k) \/ RefuseAgent(k) \/ LinkAgent(k) \/ CreateAgent(k) \/ UpdateAgent(k) \/ Merge(k)
        PROVE  AgentsIInv'
    BY <1>3, SaveStep, RefuseStep, LinkStep, CreateStep, UpdateStep, MergeStep
  <1>4. ASSUME NEW k \in Tasks, NEW numbers \in Numbers,
               \/ \E l \in Listings : FindAgent(k, l, numbers)
               \/ \E a \in Agents : ResolveForUpdate(k, a, numbers)
               \/ FindForCreate(k, numbers)
        PROVE  AgentsIInv'
    BY <1>4, FindAgentStep, ResolveStep, FindForCreateStep
  <1>5. ASSUME NEW k \in Tasks, NEW a \in Agents, NEW b \in Agents, StartMerge(k, a, b) PROVE AgentsIInv'
    BY <1>5, StartMergeStep
  <1>6. ASSUME NEW k \in Tasks, NEW p \in Phones, SavePhone(k, p) PROVE AgentsIInv'
    BY <1>6, PhoneStep
  <1> QED BY <1>1, <1>2, <1>3, <1>4, <1>5, <1>6 DEF Next

\* For any number of agents, tasks and requests: the tables are well-formed,
\* following the merges ends from every agent if they are made one at a time
\* from fresh lists, and a listing that was given an agent keeps one until a
\* broker takes one off it.
THEOREM AgentsKept == Spec => []AgentsInv
  <1>1. AgentsIInv => AgentsInv
    BY UpwardsEnds DEF AgentsIInv, AgentsInv, MergesEnd
  <1>2. Spec => []AgentsIInv
    BY AgentsStart, AgentsStep, PTL DEF Spec
  <1> QED BY <1>1, <1>2, PTL
=============================================================================
