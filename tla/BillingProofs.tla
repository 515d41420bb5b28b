--------------------------- MODULE BillingProofs ---------------------------
(***************************************************************************)
(* For every number of requests, payments, gateway subscriptions and       *)
(* restarts: no payment is lost, access and its refusal have their causes  *)
(* at the gateway, a firm has one trial, and the row of a firm with one    *)
(* subscription there follows it.                                          *)
(***************************************************************************)
EXTENDS Billing, SequenceTheorems, TLAPS

RequestRows == {Idle} \cup Selecting \cup Subscribing \cup Verifying \cup Receiving \cup Cancelling

Ended == {"halted", "cancelled"}

-----------------------------------------------------------------------------
(* The inductive invariant *)

\* What makes a row active: a payment, or a stray receipt.
Paid == count["payment"] > 0 \/ count["stray"] > 0

\* What a webhook says has happened.
HookSound(h) ==
    /\ h.event = "charged" => h.payment \in 1..count["payment"]
    /\ h.event \in Ended => h.payment \in DOMAIN gateway /\ gateway[h.payment].state \in Ended

\* What a request relies on; only the answer to a charge relies on its invoice.
RequestSound(r) ==
    /\ request[r].pc = "upsert" =>
         /\ request[r].gatewayId \in DOMAIN gateway
         /\ gateway[request[r].gatewayId].state = "created"
    /\ request[r].pc = "gatewayCancel" => request[r].gatewayId \in DOMAIN gateway
    /\ request[r].pc \in {"activate", "paidPlan"} => Paid
    /\ request[r].pc \in {"webhook", "webhookThen", "answer"} => HookSound(request[r].hook)
    /\ request[r].pc = "answer" /\ request[r].hook.event = "charged"
         => invoices[request[r].hook.payment] > 0

\* No two requests have created the same subscription at the gateway.
OneUpsert ==
    \A q, r \in Requests :
        /\ request[q].pc = "upsert" /\ request[r].pc = "upsert"
        /\ request[q].gatewayId = request[r].gatewayId
        => q = r

\* The row's status has its cause.
RowSound ==
    /\ sub.gatewayId # 0 => sub.gatewayId \in DOMAIN gateway
    /\ sub.status = "none" => sub.trial = "none"
    /\ sub.status = "ACTIVE" => Paid
    /\ sub.status = "CANCELLED" => \E g \in DOMAIN gateway : gateway[g].state \in Ended

BillingIInv ==
    /\ BillingTypeOK
    /\ count["payment"] <= MaxPayments
    /\ receipts # {} => Paid
    /\ \A h \in hooks : HookSound(h)
    /\ \A r \in Requests : RequestSound(r)
    /\ OneUpsert
    /\ RowSound
    /\ PaymentNotLost

\* What every step keeps.
Kept ==
    /\ DOMAIN gateway \subseteq DOMAIN gateway'
    /\ \A g \in DOMAIN gateway : gateway[g].state \in Ended => gateway'[g].state \in Ended
    /\ count["payment"] <= count'["payment"]
    /\ count["stray"] <= count'["stray"]
    /\ count'["payment"] <= MaxPayments
    /\ \A p \in 1..MaxPayments : invoices[p] > 0 => invoices'[p] > 0

-----------------------------------------------------------------------------
(* Which kind of request is at which step *)

LEMMA KindOf ==
  ASSUME BillingTypeOK, NEW r \in Requests
  PROVE  /\ request[r] \in RequestRows
         /\ request[r].pc \in {"gatewayCreate", "upsert"} => request[r] \in Subscribing
         /\ request[r].pc \in {"activate", "paidPlan"} => request[r] \in Verifying
         /\ request[r].pc \in {"webhook", "webhookThen", "answer"} => request[r] \in Receiving
         /\ request[r].pc = "gatewayCancel" => request[r] \in Cancelling
  <1>1. request[r] \in RequestRows BY DEF BillingTypeOK, RequestRows
  <1> QED BY <1>1 DEF RequestRows, Idle, Selecting, Subscribing, Verifying, Receiving, Cancelling

\* A record of r that is a request keeps the type of all.
LEMMA RequestType ==
  ASSUME BillingTypeOK, NEW r \in Requests, NEW rec \in RequestRows,
         request' = [request EXCEPT ![r] = rec]
  PROVE  /\ request' \in [Requests -> RequestRows]
         /\ request'[r] = rec
         /\ \A q \in Requests \ {r} : request'[q] = request[q]
  BY DEF BillingTypeOK, RequestRows

LEMMA CountType == BillingTypeOK => count["payment"] \in Nat /\ count["stray"] \in Nat
  BY DEF BillingTypeOK, Events

\* What a webhook says stays true.
LEMMA HookKept ==
  ASSUME BillingTypeOK, BillingTypeOK', Kept, NEW h, HookSound(h)
  PROVE  HookSound(h)'
  <1>1. count["payment"] \in Nat /\ count'["payment"] \in Nat
    BY CountType DEF BillingTypeOK, Events
  <1> QED BY <1>1 DEF HookSound, Kept

\* A request that does not move stays sound, unless its subscription is taken.
LEMMA SoundAt ==
  ASSUME BillingIInv, BillingTypeOK', Kept, NEW q \in Requests, request'[q] = request[q],
         request[q].pc = "upsert" => gateway'[request[q].gatewayId].state = "created"
  PROVE  RequestSound(q)'
  <1>1. RequestSound(q) BY DEF BillingIInv
  <1>2. /\ count["payment"] \in Nat /\ count'["payment"] \in Nat
        /\ count["stray"] \in Nat /\ count'["stray"] \in Nat
    BY CountType DEF BillingIInv, BillingTypeOK, Events
  <1>3. HookSound(request[q].hook) => HookSound(request[q].hook)'
    BY HookKept DEF BillingIInv
  <1>4. HookSound(request[q].hook) /\ request[q].hook.event = "charged"
          => request[q].hook.payment \in 1..MaxPayments
    BY <1>2, BillingAssumption DEF HookSound, BillingIInv
  <1>5. Paid => Paid' BY <1>2 DEF Paid, Kept
  <1>6. (request[q].pc = "upsert" => request[q].gatewayId \in DOMAIN gateway')
        /\ (request[q].pc = "gatewayCancel" => request[q].gatewayId \in DOMAIN gateway')
    BY <1>1 DEF RequestSound, Kept
  <1>7. request[q].pc \in {"webhook", "webhookThen", "answer"} => HookSound(request[q].hook)'
    BY <1>1, <1>3 DEF RequestSound
  <1>8. request[q].pc = "answer" /\ request[q].hook.event = "charged"
         => invoices'[request[q].hook.payment] > 0
    BY <1>1, <1>4 DEF RequestSound, Kept
  <1>9. request[q].pc \in {"activate", "paidPlan"} => Paid'
    BY <1>1, <1>5 DEF RequestSound
  <1> QED BY <1>6, <1>7, <1>8, <1>9 DEF RequestSound, HookSound, Paid

-----------------------------------------------------------------------------
(* What an action has to show *)

\* The request r moves on; whoever is about to offer another subscription finds
\* it as it was created.
LEMMA RequestsKept ==
  ASSUME BillingIInv, BillingTypeOK', Kept, NEW r \in Requests, NEW rec \in RequestRows,
         request' = [request EXCEPT ![r] = rec], RequestSound(r)',
         \A g \in DOMAIN gateway :
            gateway[g].state = "created" =>
              gateway'[g].state = "created" \/ (request[r].pc = "upsert" /\ request[r].gatewayId = g),
         rec.pc = "upsert" => rec.gatewayId \notin DOMAIN gateway
  PROVE  (\A q \in Requests : RequestSound(q)') /\ OneUpsert'
  <1>1. request'[r] = rec /\ \A q \in Requests \ {r} : request'[q] = request[q]
    BY RequestType DEF BillingIInv
  <1>2. \A q \in Requests : request[q].pc = "upsert" =>
           request[q].gatewayId \in DOMAIN gateway /\ gateway[request[q].gatewayId].state = "created"
    BY DEF BillingIInv, RequestSound
  <1>3. ASSUME NEW q \in Requests \ {r} PROVE RequestSound(q)'
    <2>1. request[q].pc = "upsert" => gateway'[request[q].gatewayId].state = "created"
      BY <1>2 DEF BillingIInv, OneUpsert
    <2> QED BY <1>1, <2>1, SoundAt
  <1>4. OneUpsert'
    BY <1>1, <1>2 DEF BillingIInv, OneUpsert
  <1> QED BY <1>3, <1>4

\* No request moves.
LEMMA RequestsStill ==
  ASSUME BillingIInv, BillingTypeOK', Kept, request' = request,
         \A g \in DOMAIN gateway : gateway[g].state = "created" => gateway'[g].state = "created"
  PROVE  (\A q \in Requests : RequestSound(q)') /\ OneUpsert'
  <1>1. ASSUME NEW q \in Requests PROVE RequestSound(q)'
    <2>1. request[q].pc = "upsert" => gateway'[request[q].gatewayId].state = "created"
      BY DEF BillingIInv, RequestSound
    <2> QED BY <2>1, SoundAt
  <1> QED BY <1>1 DEF BillingIInv, OneUpsert

\* The row stays sound while it is not written.
LEMMA RowKept ==
  ASSUME BillingIInv, BillingTypeOK', Kept, sub'.status = sub.status, sub'.gatewayId = sub.gatewayId,
         sub.status = "none" => sub'.trial = sub.trial
  PROVE  RowSound'
  <1>1. /\ count["payment"] \in Nat /\ count'["payment"] \in Nat
        /\ count["stray"] \in Nat /\ count'["stray"] \in Nat
    BY CountType DEF BillingIInv, BillingTypeOK, Events
  <1>2. (sub'.gatewayId # 0 => sub'.gatewayId \in DOMAIN gateway') /\ (sub'.status = "none" => sub'.trial = "none")
    BY DEF BillingIInv, RowSound, Kept
  <1>3. sub'.status = "ACTIVE" => Paid'
    BY <1>1 DEF BillingIInv, RowSound, Kept, Paid
  <1>4. sub'.status = "CANCELLED" => \E g \in DOMAIN gateway' : gateway'[g].state \in Ended
    BY DEF BillingIInv, RowSound, Kept
  <1> QED BY <1>2, <1>3, <1>4 DEF RowSound, Paid

\* Without a payment: what is on an invoice or posted stays so.
LEMMA PaymentsKept ==
  ASSUME BillingIInv, BillingTypeOK', Kept, count'["payment"] = count["payment"], hooks \subseteq hooks'
  PROVE  PaymentNotLost'
  <1>1. count["payment"] \in Nat BY CountType DEF BillingIInv
  <1>2. \A p \in 1..count["payment"] : p \in 1..MaxPayments BY <1>1, BillingAssumption DEF BillingIInv
  <1> QED BY <1>1, <1>2 DEF BillingIInv, PaymentNotLost, Kept

\* Nothing of the gateway's changes but requests, row or plan, and the stray
\* receipts are counted.
LEMMA StrayStep ==
  ASSUME BillingIInv, NEW r \in Requests, NEW rec \in RequestRows,
         request' = [request EXCEPT ![r] = rec], RequestSound(r)', rec.pc # "upsert",
         sub' \in Subscriptions, plan' \in {"FREE", "INDIVIDUAL"}, RowSound',
         UNCHANGED <<invoices, gateway, hooks, prompt>>, receipts' \subseteq receipts,
         count' \in [Events -> Nat], count'["payment"] = count["payment"],
         count["stray"] <= count'["stray"]
  PROVE  BillingIInv'
  <1>0. count["payment"] \in Nat /\ count["stray"] \in Nat /\ count'["stray"] \in Nat
    BY CountType DEF BillingIInv, Events
  <1>1. BillingTypeOK'
    <2>1. request' \in [Requests -> RequestRows] BY RequestType DEF BillingIInv
    <2> QED BY <2>1 DEF BillingIInv, BillingTypeOK, RequestRows
  <1>2. Kept BY <1>0 DEF BillingIInv, Kept
  <1>3. (\A q \in Requests : RequestSound(q)') /\ OneUpsert' BY <1>1, <1>2, RequestsKept
  <1>4. \A h \in hooks' : HookSound(h)' BY <1>1, <1>2, HookKept DEF BillingIInv
  <1>5. PaymentNotLost' BY <1>1, <1>2, PaymentsKept
  <1>6. (receipts' # {} => Paid') /\ count'["payment"] <= MaxPayments
    BY <1>0 DEF BillingIInv, Paid
  <1> QED BY <1>1, <1>3, <1>4, <1>5, <1>6 DEF BillingIInv

LEMMA QuietStep ==
  ASSUME BillingIInv, NEW r \in Requests, NEW rec \in RequestRows,
         request' = [request EXCEPT ![r] = rec], RequestSound(r)', rec.pc # "upsert",
         sub' \in Subscriptions, plan' \in {"FREE", "INDIVIDUAL"}, RowSound',
         UNCHANGED <<invoices, gateway, hooks, count, prompt>>, receipts' \subseteq receipts
  PROVE  BillingIInv'
  <1>1. count \in [Events -> Nat] BY DEF BillingIInv, BillingTypeOK
  <1>2. count["payment"] \in Nat /\ count["stray"] \in Nat BY CountType DEF BillingIInv
  <1>3. count'["payment"] = count["payment"] /\ count["stray"] <= count'["stray"] BY <1>2
  <1> QED BY <1>1, <1>3, StrayStep

-----------------------------------------------------------------------------
(* Trials, requests taken up, and the row's writers *)

\* A request that relies on nothing is sound.
LEMMA PlainSound ==
  ASSUME BillingIInv, NEW r \in Requests, NEW rec \in RequestRows,
         request' = [request EXCEPT ![r] = rec],
         rec.pc \in {"idle", "createTrial", "gatewayCreate"}
  PROVE  RequestSound(r)'
  <1>1. request'[r] = rec BY RequestType DEF BillingIInv
  <1> QED BY <1>1 DEF RequestSound

LEMMA Finished ==
  ASSUME BillingIInv, NEW r \in Requests, Finish(r)
  PROVE  /\ Idle \in RequestRows /\ Idle.pc = "idle"
         /\ request' = [request EXCEPT ![r] = Idle]
         /\ RequestSound(r)'
  <1>1. Idle \in RequestRows /\ Idle.pc = "idle" BY DEF RequestRows, Idle
  <1>2. request' = [request EXCEPT ![r] = Idle] BY DEF Finish
  <1> QED BY <1>1, <1>2, PlainSound

\* A row that is not written stays sound, when the gateway is not either.
LEMMA RowSame ==
  ASSUME BillingIInv, UNCHANGED <<sub, gateway, count>>
  PROVE  RowSound' /\ sub' \in Subscriptions
  BY DEF BillingIInv, RowSound, Paid, BillingTypeOK

LEMMA TakingSteps ==
  ASSUME BillingIInv, NEW r \in Requests,
         \/ SelectPlan(r) \/ CreateSubscription(r) \/ CancelSubscription(r)
         \/ \E g \in receipts \cup {Stray} : VerifyPayment(r, g)
         \/ \E h \in hooks : ReceiveHook(r, h)
  PROVE  BillingIInv'
  <1>0. plan \in {"FREE", "INDIVIDUAL"} BY DEF BillingIInv, BillingTypeOK
  <1>1. CASE SelectPlan(r)
    <2> DEFINE rec == [pc |-> "createTrial"]
    <2>1. rec \in RequestRows /\ rec.pc = "createTrial" BY DEF RequestRows, Selecting
    <2>2. request' = [request EXCEPT ![r] = rec] BY <1>1 DEF SelectPlan, Take
    <2> HIDE DEF rec
    <2>3. RequestSound(r)' BY <2>1, <2>2, PlainSound
    <2>4. UNCHANGED <<sub, invoices, gateway, hooks, receipts, count, prompt>> /\ plan' = "INDIVIDUAL"
      BY <1>1 DEF SelectPlan, theirs
    <2> QED BY <2>1, <2>2, <2>3, <2>4, RowSame, QuietStep
  <1>2. CASE CreateSubscription(r)
    <2> DEFINE rec == [pc |-> "gatewayCreate", gatewayId |-> 0]
    <2>1. rec \in RequestRows /\ rec.pc = "gatewayCreate" BY DEF RequestRows, Subscribing
    <2>2. request' = [request EXCEPT ![r] = rec] BY <1>2 DEF CreateSubscription, Take
    <2> HIDE DEF rec
    <2>3. RequestSound(r)' BY <2>1, <2>2, PlainSound
    <2>4. UNCHANGED <<sub, plan, invoices, gateway, hooks, receipts, count, prompt>>
      BY <1>2 DEF CreateSubscription, theirs
    <2> QED BY <1>0, <2>1, <2>2, <2>3, <2>4, RowSame, QuietStep
  <1>3. CASE CancelSubscription(r)
    <2> DEFINE rec == [pc |-> "gatewayCancel", gatewayId |-> sub.gatewayId]
    <2>1. sub.gatewayId \in Nat BY DEF BillingIInv, BillingTypeOK, Subscriptions
    <2>2. rec \in RequestRows /\ rec.pc = "gatewayCancel" /\ rec.gatewayId = sub.gatewayId
      BY <2>1 DEF RequestRows, Cancelling
    <2>3. request' = [request EXCEPT ![r] = rec] BY <1>3 DEF CancelSubscription, Take
    <2> HIDE DEF rec
    <2>4. UNCHANGED <<sub, plan, invoices, gateway, hooks, receipts, count, prompt>>
      BY <1>3 DEF CancelSubscription, theirs
    <2>5. sub.gatewayId \in DOMAIN gateway BY <1>3 DEF CancelSubscription, BillingIInv, RowSound
    <2>6. request'[r] = rec BY <2>2, <2>3, RequestType DEF BillingIInv
    <2>7. RequestSound(r)' BY <2>2, <2>4, <2>5, <2>6 DEF RequestSound
    <2> QED BY <1>0, <2>2, <2>3, <2>4, <2>7, RowSame, QuietStep
  <1>4. CASE \E g \in receipts \cup {Stray} : VerifyPayment(r, g)
    <2> DEFINE rec == [pc |-> "activate"]
    <2>1. rec \in RequestRows /\ rec.pc = "activate" BY DEF RequestRows, Verifying
    <2>2. request' = [request EXCEPT ![r] = rec] BY <1>4 DEF VerifyPayment, Take
    <2> HIDE DEF rec
    <2>3. UNCHANGED <<sub, plan, invoices, gateway, hooks, prompt>> /\ receipts' \subseteq receipts
          /\ \/ count' = count /\ receipts # {}
             \/ count' = [count EXCEPT !["stray"] = @ + 1]
      BY <1>4 DEF VerifyPayment, Count
    <2>4. request'[r] = rec BY <2>1, <2>2, RequestType DEF BillingIInv
    <2>5. /\ count' \in [Events -> Nat] /\ count'["payment"] = count["payment"]
          /\ count["stray"] <= count'["stray"] /\ Paid'
      <3>1. count \in [Events -> Nat] /\ "stray" \in Events BY DEF BillingIInv, BillingTypeOK, Events
      <3>2. CASE count' = count /\ receipts # {} BY <3>1, <3>2 DEF BillingIInv, Paid, Events
      <3>3. CASE count' = [count EXCEPT !["stray"] = @ + 1] BY <3>1, <3>3 DEF Paid, Events
      <3> QED BY <2>3, <3>2, <3>3
    <2>6. RequestSound(r)' BY <2>1, <2>4, <2>5 DEF RequestSound
    <2>7. RowSound'
      <3>1. Paid => Paid' BY <2>5
      <3> QED BY <2>3, <3>1 DEF BillingIInv, RowSound
    <2>8. sub' \in Subscriptions BY <2>3 DEF BillingIInv, BillingTypeOK
    <2> QED BY <1>0, <2>1, <2>2, <2>3, <2>5, <2>6, <2>7, <2>8, StrayStep
  <1>5. CASE \E h \in hooks : ReceiveHook(r, h)
    <2> PICK h \in hooks : ReceiveHook(r, h) BY <1>5
    <2> DEFINE rec == [pc |-> "webhook", hook |-> h]
    <2>1. h \in Hooks BY DEF BillingIInv, BillingTypeOK
    <2>2. rec \in RequestRows /\ rec.pc = "webhook" /\ rec.hook = h
      BY <2>1 DEF RequestRows, Receiving
    <2>3. request' = [request EXCEPT ![r] = rec] BY DEF ReceiveHook, Take
    <2> HIDE DEF rec
    <2>4. UNCHANGED <<sub, plan, invoices, gateway, hooks, receipts, count, prompt>>
      BY DEF ReceiveHook, theirs
    <2>5. request'[r] = rec BY <2>2, <2>3, RequestType DEF BillingIInv
    <2>6. HookSound(h)' BY <2>4 DEF BillingIInv, HookSound
    <2>7. RequestSound(r)' BY <2>2, <2>5, <2>6 DEF RequestSound, HookSound
    <2> QED BY <1>0, <2>2, <2>3, <2>4, <2>7, RowSame, QuietStep
  <1> QED BY <1>1, <1>2, <1>3, <1>4, <1>5

\* The request r goes on to a step that relies on what it has already.
LEMMA RowWriters ==
  ASSUME BillingIInv, NEW r \in Requests,
         CreateTrial(r) \/ Activate(r) \/ PaidPlan(r) \/ WriteStatus(r)
  PROVE  BillingIInv'
  <1>0. sub \in Subscriptions /\ plan \in {"FREE", "INDIVIDUAL"} BY DEF BillingIInv, BillingTypeOK
  <1>1. RequestSound(r) /\ RowSound BY DEF BillingIInv
  <1>2. CASE CreateTrial(r)
    <2>1. UNCHANGED <<plan, invoices, gateway, hooks, receipts, count, prompt>> /\ Finish(r)
      BY <1>2 DEF CreateTrial, theirs
    <2>2. Idle \in RequestRows /\ Idle.pc # "upsert" /\ request' = [request EXCEPT ![r] = Idle] /\ RequestSound(r)'
      BY <2>1, Finished
    <2>3. sub' \in Subscriptions BY <1>0, <1>2 DEF CreateTrial, Subscriptions, SubscriptionStatus
    <2>4. RowSound'
      <3>1. CASE sub' = sub BY <2>1, <3>1, RowSame
      <3>2. CASE sub' = [status |-> "TRIALING", trial |-> "running", gatewayId |-> 0]
        BY <3>2 DEF RowSound
      <3> QED BY <1>2, <3>1, <3>2 DEF CreateTrial
    <2> QED BY <1>0, <2>1, <2>2, <2>3, <2>4, QuietStep
  <1>3. CASE Activate(r) /\ sub.status # "none"
    <2> DEFINE rec == [request[r] EXCEPT !.pc = "paidPlan"]
    <2>1. UNCHANGED <<plan, invoices, gateway, hooks, receipts, count, prompt>>
      BY <1>3 DEF Activate, theirs
    <2>2. request[r] \in Verifying /\ Paid BY <1>1, <1>3, KindOf DEF BillingIInv, Activate, RequestSound
    <2>3. rec \in RequestRows /\ rec.pc = "paidPlan" BY <2>2 DEF Verifying, RequestRows
    <2>4. request' = [request EXCEPT ![r] = rec] BY <1>3 DEF Activate, Step
    <2> HIDE DEF rec
    <2>5. request'[r] = rec BY <2>3, <2>4, RequestType DEF BillingIInv
    <2>6. RequestSound(r)' BY <2>1, <2>2, <2>3, <2>5 DEF RequestSound, Paid
    <2>7. sub' = [sub EXCEPT !.status = "ACTIVE"] BY <1>3 DEF Activate
    <2>8. sub' \in Subscriptions /\ sub'.status = "ACTIVE" /\ sub'.gatewayId = sub.gatewayId
      BY <1>0, <2>7 DEF Subscriptions, SubscriptionStatus
    <2>9. RowSound' BY <1>1, <2>1, <2>2, <2>8 DEF RowSound, Paid
    <2> QED BY <1>0, <2>1, <2>3, <2>4, <2>6, <2>8, <2>9, QuietStep
  <1>4. CASE PaidPlan(r)
    <2>1. UNCHANGED <<sub, invoices, gateway, hooks, receipts, count, prompt>> /\ Finish(r) /\ plan' = "INDIVIDUAL"
      BY <1>4 DEF PaidPlan, theirs
    <2>2. Idle \in RequestRows /\ Idle.pc # "upsert" /\ request' = [request EXCEPT ![r] = Idle] /\ RequestSound(r)'
      BY <2>1, Finished
    <2> QED BY <2>1, <2>2, RowSame, QuietStep
  <1>5. CASE WriteStatus(r)
    <2> DEFINE h == request[r].hook
               pc == IF h.event = "pending" THEN "answer" ELSE "webhookThen"
               rec == [request[r] EXCEPT !.pc = pc]
    <2>1. UNCHANGED <<plan, invoices, gateway, hooks, receipts, count, prompt>>
      BY <1>5 DEF WriteStatus, theirs
    <2>2. request[r] \in Receiving /\ HookSound(h)
      BY <1>1, <1>5, KindOf DEF BillingIInv, WriteStatus, RequestSound
    <2>3. h \in Hooks BY <2>2 DEF Receiving
    <2>4. rec \in RequestRows /\ rec.pc = pc /\ rec.hook = h BY <2>2 DEF Receiving, RequestRows
    <2>5. request' = [request EXCEPT ![r] = rec] BY <1>5 DEF WriteStatus, Step
    <2> HIDE DEF rec
    <2>6. request'[r] = rec BY <2>4, <2>5, RequestType DEF BillingIInv
    <2>7. HookSound(h)' BY <2>1, <2>2, <2>4, <2>6 DEF HookSound
    <2>8. pc \in {"answer", "webhookThen"} /\ (pc = "answer" => h.event = "pending")
      OBVIOUS
    <2>9. RequestSound(r)'
      BY <2>1, <2>2, <2>4, <2>6, <2>8 DEF RequestSound, HookSound
    <2>10. sub' = [sub EXCEPT !.status = HookStatus[h.event]] BY <1>5 DEF WriteStatus
    <2>11. h.event \in {"charged", "halted", "cancelled", "pending"} BY <2>3 DEF Hooks
    <2>12. /\ HookStatus[h.event] \in {"ACTIVE", "PAST_DUE", "CANCELLED"}
           /\ HookStatus[h.event] = "ACTIVE" => h.event = "charged"
           /\ HookStatus[h.event] = "CANCELLED" => h.event \in Ended
      BY <2>11 DEF HookStatus, Ended
    <2>13. /\ sub' \in Subscriptions /\ sub'.gatewayId = sub.gatewayId
           /\ sub'.status = HookStatus[h.event]
      BY <1>0, <2>10, <2>12 DEF Subscriptions, SubscriptionStatus
    <2>14. h.event = "charged" => Paid
      BY <2>2, CountType DEF HookSound, Paid, BillingIInv
    <2>15. RowSound'
      BY <1>1, <2>1, <2>2, <2>12, <2>13, <2>14 DEF RowSound, HookSound, Paid
    <2> QED BY <1>0, <2>1, <2>4, <2>5, <2>8, <2>9, <2>13, <2>15, QuietStep
  <1>6. CASE Activate(r) /\ sub.status = "none"
    <2>1. UNCHANGED <<sub, plan, invoices, gateway, hooks, receipts, count, prompt>> /\ Finish(r)
      BY <1>6 DEF Activate, theirs
    <2>2. Idle \in RequestRows /\ Idle.pc # "upsert" /\ request' = [request EXCEPT ![r] = Idle] /\ RequestSound(r)'
      BY <2>1, Finished
    <2> QED BY <1>0, <2>1, <2>2, RowSame, QuietStep
  <1> QED BY <1>2, <1>3, <1>4, <1>5, <1>6

-----------------------------------------------------------------------------
(* Steps that touch the gateway's side *)

LEMMA GeneralStep ==
  ASSUME BillingIInv, BillingTypeOK', Kept,
         (\A q \in Requests : RequestSound(q)') /\ OneUpsert', RowSound', PaymentNotLost',
         \A h \in hooks' \ hooks : HookSound(h)', receipts' # {} => Paid'
  PROVE  BillingIInv'
  <1>1. \A h \in hooks' : HookSound(h)' BY HookKept DEF BillingIInv
  <1>2. count'["payment"] <= MaxPayments BY DEF Kept
  <1> QED BY <1>1, <1>2 DEF BillingIInv

\* One subscription at the gateway is edited.
LEMMA GatewayEdited ==
  ASSUME BillingIInv, NEW g \in DOMAIN gateway, NEW row \in GatewaySubs,
         gateway' = [gateway EXCEPT ![g] = row], gateway[g].state \in Ended => row.state \in Ended
  PROVE  /\ gateway' \in Seq(GatewaySubs)
         /\ DOMAIN gateway' = DOMAIN gateway
         /\ \A k \in DOMAIN gateway : gateway[k].state \in Ended => gateway'[k].state \in Ended
         /\ \A k \in DOMAIN gateway \ {g} : gateway'[k] = gateway[k]
         /\ gateway'[g] = row
  <1>1. gateway \in Seq(GatewaySubs) BY DEF BillingIInv, BillingTypeOK
  <1>2. DOMAIN gateway = 1 .. Len(gateway) BY <1>1
  <1>3. gateway' \in Seq(GatewaySubs) BY <1>1, <1>2, ExceptSeq
  <1> QED BY <1>3

LEMMA GatewayType ==
  ASSUME BillingIInv, NEW g \in DOMAIN gateway
  PROVE  gateway[g] \in GatewaySubs /\ g \in Nat \ {0}
  <1>1. gateway \in Seq(GatewaySubs) BY DEF BillingIInv, BillingTypeOK
  <1> QED BY <1>1

LEMMA GatewayCreateStep ==
  ASSUME BillingIInv, NEW r \in Requests, GatewayCreate(r)
  PROVE  BillingIInv'
  <1>0. UNCHANGED <<sub, plan, invoices, hooks, receipts, count, prompt>> BY DEF GatewayCreate
  <1>1. CASE Finish(r) /\ UNCHANGED gateway
    <2>1. Idle \in RequestRows /\ Idle.pc # "upsert" /\ request' = [request EXCEPT ![r] = Idle] /\ RequestSound(r)'
      BY <1>1, Finished
    <2>2. plan \in {"FREE", "INDIVIDUAL"} BY DEF BillingIInv, BillingTypeOK
    <2> QED BY <1>0, <1>1, <2>1, <2>2, RowSame, QuietStep
  <1>2. CASE /\ gateway' = Append(gateway, [state |-> "created", ending |-> FALSE])
             /\ request' = [request EXCEPT ![r] = [pc |-> "upsert", gatewayId |-> Len(gateway) + 1]]
    <2> DEFINE row == [state |-> "created", ending |-> FALSE]
               rec == [pc |-> "upsert", gatewayId |-> Len(gateway) + 1]
    <2>1. gateway \in Seq(GatewaySubs) /\ Len(gateway) \in Nat /\ DOMAIN gateway = 1 .. Len(gateway)
      <3>1. gateway \in Seq(GatewaySubs) BY DEF BillingIInv, BillingTypeOK
      <3> QED BY <3>1
    <2>2. row \in GatewaySubs /\ row.state = "created" BY DEF GatewaySubs
    <2>3. rec \in RequestRows /\ rec.pc = "upsert" /\ rec.gatewayId = Len(gateway) + 1
      BY <2>1 DEF RequestRows, Subscribing
    <2>4. gateway' = Append(gateway, row) /\ request' = [request EXCEPT ![r] = rec] BY <1>2
    <2> HIDE DEF row, rec
    <2>5. /\ gateway' \in Seq(GatewaySubs) /\ DOMAIN gateway' = 1 .. Len(gateway) + 1
          /\ \A k \in DOMAIN gateway : gateway'[k] = gateway[k]
          /\ gateway'[Len(gateway) + 1] = row
      BY <2>1, <2>2, <2>4, AppendProperties
    <2>6. DOMAIN gateway \subseteq DOMAIN gateway' /\ Len(gateway) + 1 \in DOMAIN gateway' \ DOMAIN gateway
      BY <2>1, <2>5
    <2>7. request' \in [Requests -> RequestRows] /\ request'[r] = rec
      BY <2>3, <2>4, RequestType DEF BillingIInv
    <2>8. BillingTypeOK'
      BY <1>0, <2>5, <2>6, <2>7 DEF BillingIInv, BillingTypeOK, RequestRows
    <2>9. Kept
      <3>1. count["payment"] \in Nat /\ count["stray"] \in Nat BY CountType DEF BillingIInv
      <3> QED BY <1>0, <2>5, <2>6, <3>1 DEF BillingIInv, Kept
    <2>10. RequestSound(r)' BY <2>2, <2>3, <2>5, <2>6, <2>7 DEF RequestSound
    <2>11. (\A q \in Requests : RequestSound(q)') /\ OneUpsert'
      BY <2>3, <2>4, <2>5, <2>6, <2>8, <2>9, <2>10, RequestsKept
    <2>12. RowSound' BY <1>0, <2>8, <2>9, RowKept
    <2>13. PaymentNotLost' BY <1>0, <2>8, <2>9, PaymentsKept
    <2>14. receipts' # {} => Paid' BY <1>0 DEF BillingIInv, Paid
    <2> QED BY <1>0, <2>8, <2>9, <2>11, <2>12, <2>13, <2>14, GeneralStep
  <1> QED BY <1>1, <1>2 DEF GatewayCreate

LEMMA UpsertStep ==
  ASSUME BillingIInv, NEW r \in Requests, Upsert(r)
  PROVE  BillingIInv'
  <1> DEFINE g == request[r].gatewayId
             row == [gateway[g] EXCEPT !.state = "offered"]
  <1>1. g \in DOMAIN gateway /\ gateway[g].state = "created" /\ request[r].pc = "upsert"
    BY DEF BillingIInv, RequestSound, Upsert
  <1>2. gateway[g] \in GatewaySubs /\ g \in Nat \ {0} BY <1>1, GatewayType
  <1>3. row \in GatewaySubs /\ row.state = "offered" BY <1>2 DEF GatewaySubs
  <1>4. gateway' = [gateway EXCEPT ![g] = row] BY DEF Upsert
  <1>5. UNCHANGED <<plan, invoices, hooks, receipts, count, prompt>> BY DEF Upsert
  <1> HIDE DEF row
  <1>6. /\ gateway' \in Seq(GatewaySubs) /\ DOMAIN gateway' = DOMAIN gateway
        /\ \A k \in DOMAIN gateway : gateway[k].state \in Ended => gateway'[k].state \in Ended
        /\ \A k \in DOMAIN gateway \ {g} : gateway'[k] = gateway[k]
    BY <1>1, <1>3, <1>4, GatewayEdited DEF Ended
  <1>7. Idle \in RequestRows /\ Idle.pc # "upsert" /\ request' = [request EXCEPT ![r] = Idle] /\ RequestSound(r)'
    BY Finished DEF Upsert
  <1>8. request' \in [Requests -> RequestRows] BY <1>7, RequestType DEF BillingIInv
  <1>9. sub \in Subscriptions BY DEF BillingIInv, BillingTypeOK
  <1>10. CASE sub.status = "none"
    <2>1. sub' = [status |-> "TRIALING", trial |-> "running", gatewayId |-> g] BY <1>10 DEF Upsert
    <2>2. sub' \in Subscriptions /\ sub'.gatewayId = g /\ sub'.status = "TRIALING"
      BY <1>2, <2>1 DEF Subscriptions, SubscriptionStatus
    <2>3. BillingTypeOK' BY <1>5, <1>6, <1>8, <2>2 DEF BillingIInv, BillingTypeOK, RequestRows
    <2>4. Kept
      <3>1. count["payment"] \in Nat /\ count["stray"] \in Nat BY CountType DEF BillingIInv
      <3> QED BY <1>5, <1>6, <3>1 DEF BillingIInv, Kept
    <2>5. RowSound' BY <1>1, <1>6, <2>2 DEF RowSound
    <2>6. (\A q \in Requests : RequestSound(q)') /\ OneUpsert'
      BY <1>1, <1>6, <1>7, <2>3, <2>4, RequestsKept
    <2>7. PaymentNotLost' BY <1>5, <2>3, <2>4, PaymentsKept
    <2>8. receipts' # {} => Paid' BY <1>5 DEF BillingIInv, Paid
    <2> QED BY <1>5, <2>3, <2>4, <2>5, <2>6, <2>7, <2>8, GeneralStep
  <1>11. CASE sub.status # "none"
    <2>1. sub' = [sub EXCEPT !.gatewayId = g] BY <1>11 DEF Upsert
    <2>2. sub' \in Subscriptions /\ sub'.gatewayId = g /\ sub'.status = sub.status
      BY <1>2, <1>9, <2>1 DEF Subscriptions
    <2>3. BillingTypeOK' BY <1>5, <1>6, <1>8, <2>2 DEF BillingIInv, BillingTypeOK, RequestRows
    <2>4. Kept
      <3>1. count["payment"] \in Nat /\ count["stray"] \in Nat BY CountType DEF BillingIInv
      <3> QED BY <1>5, <1>6, <3>1 DEF BillingIInv, Kept
    <2>5. RowSound'
      <3>1. (sub'.status = "ACTIVE" => Paid') BY <1>5, <2>2 DEF BillingIInv, RowSound, Paid
      <3>2. sub'.status = "CANCELLED" => \E k \in DOMAIN gateway' : gateway'[k].state \in Ended
        BY <1>6, <2>2 DEF BillingIInv, RowSound
      <3> QED BY <1>1, <1>6, <1>11, <2>2, <3>1, <3>2 DEF RowSound, Paid
    <2>6. (\A q \in Requests : RequestSound(q)') /\ OneUpsert'
      BY <1>1, <1>6, <1>7, <2>3, <2>4, RequestsKept
    <2>7. PaymentNotLost' BY <1>5, <2>3, <2>4, PaymentsKept
    <2>8. receipts' # {} => Paid' BY <1>5 DEF BillingIInv, Paid
    <2> QED BY <1>5, <2>3, <2>4, <2>5, <2>6, <2>7, <2>8, GeneralStep
  <1> QED BY <1>10, <1>11

LEMMA GatewayCancelStep ==
  ASSUME BillingIInv, NEW r \in Requests, GatewayCancel(r)
  PROVE  BillingIInv'
  <1> DEFINE g == request[r].gatewayId
             row == [gateway[g] EXCEPT !.ending = TRUE]
  <1>1. g \in DOMAIN gateway /\ request[r].pc = "gatewayCancel"
    BY DEF BillingIInv, RequestSound, GatewayCancel
  <1>2. gateway[g] \in GatewaySubs BY <1>1, GatewayType
  <1>3. row \in GatewaySubs /\ row.state = gateway[g].state BY <1>2 DEF GatewaySubs
  <1>4. gateway' = [gateway EXCEPT ![g] = row] \/ gateway' = gateway BY DEF GatewayCancel
  <1>5. UNCHANGED <<sub, plan, invoices, hooks, receipts, count, prompt>> BY DEF GatewayCancel
  <1> HIDE DEF row
  <1>6. /\ gateway' \in Seq(GatewaySubs) /\ DOMAIN gateway' = DOMAIN gateway
        /\ \A k \in DOMAIN gateway : gateway'[k].state = gateway[k].state
    <2>1. CASE gateway' = [gateway EXCEPT ![g] = row]
      <3>1. /\ gateway' \in Seq(GatewaySubs) /\ DOMAIN gateway' = DOMAIN gateway /\ gateway'[g] = row
            /\ \A k \in DOMAIN gateway \ {g} : gateway'[k] = gateway[k]
        BY <1>1, <1>3, <2>1, GatewayEdited
      <3> QED BY <1>3, <3>1
    <2>2. CASE gateway' = gateway BY <2>2 DEF BillingIInv, BillingTypeOK
    <2> QED BY <1>4, <2>1, <2>2
  <1>7. Idle \in RequestRows /\ Idle.pc # "upsert" /\ request' = [request EXCEPT ![r] = Idle] /\ RequestSound(r)'
    BY Finished DEF GatewayCancel
  <1>8. request' \in [Requests -> RequestRows] BY <1>7, RequestType DEF BillingIInv
  <1>9. BillingTypeOK' BY <1>5, <1>6, <1>8 DEF BillingIInv, BillingTypeOK, RequestRows
  <1>10. Kept
    <2>1. count["payment"] \in Nat /\ count["stray"] \in Nat BY CountType DEF BillingIInv
    <2> QED BY <1>5, <1>6, <2>1 DEF BillingIInv, Kept
  <1>11. (\A q \in Requests : RequestSound(q)') /\ OneUpsert'
    BY <1>6, <1>7, <1>9, <1>10, RequestsKept
  <1>12. RowSound' BY <1>5, <1>9, <1>10, RowKept
  <1>13. PaymentNotLost' BY <1>5, <1>9, <1>10, PaymentsKept
  <1>14. receipts' # {} => Paid' BY <1>5 DEF BillingIInv, Paid
  <1> QED BY <1>5, <1>9, <1>10, <1>11, <1>12, <1>13, <1>14, GeneralStep

LEMMA WriteInvoiceOrPlanStep ==
  ASSUME BillingIInv, NEW r \in Requests, WriteInvoiceOrPlan(r)
  PROVE  BillingIInv'
  <1> DEFINE h == request[r].hook
             rec == [request[r] EXCEPT !.pc = "answer"]
  <1>1. request[r] \in Receiving /\ HookSound(h)
    BY KindOf DEF BillingIInv, RequestSound, WriteInvoiceOrPlan
  <1>2. rec \in RequestRows /\ rec.pc = "answer" /\ rec.hook = h BY <1>1 DEF Receiving, RequestRows
  <1>3. request' = [request EXCEPT ![r] = rec] BY DEF WriteInvoiceOrPlan, Step
  <1> HIDE DEF rec
  <1>4. request' \in [Requests -> RequestRows] /\ request'[r] = rec
    BY <1>2, <1>3, RequestType DEF BillingIInv
  <1>5. UNCHANGED <<sub, gateway, hooks, receipts, count, prompt>> BY DEF WriteInvoiceOrPlan, theirs
  <1>6. count["payment"] \in Nat /\ count["stray"] \in Nat BY CountType DEF BillingIInv
  <1>7. h.event = "charged" => h.payment \in 1..MaxPayments
    BY <1>1, <1>6, BillingAssumption DEF HookSound, BillingIInv
  <1>8. invoices \in [1..MaxPayments -> Nat] /\ plan \in {"FREE", "INDIVIDUAL"}
    BY DEF BillingIInv, BillingTypeOK
  <1>9. /\ invoices' \in [1..MaxPayments -> Nat] /\ plan' \in {"FREE", "INDIVIDUAL"}
        /\ \A p \in 1..MaxPayments : invoices[p] > 0 => invoices'[p] > 0
        /\ h.event = "charged" => invoices'[h.payment] > 0
    <2>1. CASE h.event = "charged"
      <3>1. invoices' = [invoices EXCEPT ![h.payment] = @ + 1] /\ plan' = plan
        BY <2>1 DEF WriteInvoiceOrPlan
      <3> QED BY <1>7, <1>8, <2>1, <3>1
    <2>2. CASE h.event # "charged" BY <1>8, <2>2 DEF WriteInvoiceOrPlan
    <2> QED BY <2>1, <2>2
  <1>10. BillingTypeOK' BY <1>4, <1>5, <1>9 DEF BillingIInv, BillingTypeOK, RequestRows
  <1>11. Kept BY <1>5, <1>6, <1>9 DEF BillingIInv, Kept
  <1>12. RequestSound(r)'
    <2>1. HookSound(request[r].hook)' BY <1>1, <1>2, <1>4, <1>5 DEF HookSound
    <2>2. request'[r].hook.event = "charged" => invoices'[request'[r].hook.payment] > 0
      BY <1>2, <1>4, <1>9
    <2> QED BY <1>2, <1>4, <2>1, <2>2 DEF RequestSound, HookSound
  <1>13. (\A q \in Requests : RequestSound(q)') /\ OneUpsert'
    BY <1>2, <1>3, <1>5, <1>10, <1>11, <1>12, RequestsKept
  <1>14. RowSound' BY <1>5, <1>10, <1>11, RowKept
  <1>15. PaymentNotLost' BY <1>5, <1>10, <1>11, PaymentsKept
  <1>16. receipts' # {} => Paid' BY <1>5 DEF BillingIInv, Paid
  <1> QED BY <1>5, <1>10, <1>11, <1>13, <1>14, <1>15, <1>16, GeneralStep

LEMMA AnswerStep ==
  ASSUME BillingIInv, NEW r \in Requests, Answer(r)
  PROVE  BillingIInv'
  <1> DEFINE h == request[r].hook
  <1>1. RequestSound(r) /\ request[r].pc = "answer" BY DEF BillingIInv, Answer
  <1>2. UNCHANGED <<sub, plan, invoices, gateway, receipts, count, prompt>> /\ hooks' = hooks \ {h}
    BY DEF Answer
  <1>3. Idle \in RequestRows /\ Idle.pc # "upsert" /\ request' = [request EXCEPT ![r] = Idle] /\ RequestSound(r)'
    BY Finished DEF Answer
  <1>4. request' \in [Requests -> RequestRows] BY <1>3, RequestType DEF BillingIInv
  <1>5. BillingTypeOK' BY <1>2, <1>4 DEF BillingIInv, BillingTypeOK, RequestRows
  <1>6. Kept
    <2>1. count["payment"] \in Nat /\ count["stray"] \in Nat BY CountType DEF BillingIInv
    <2> QED BY <1>2, <2>1 DEF BillingIInv, Kept
  <1>7. (\A q \in Requests : RequestSound(q)') /\ OneUpsert'
    BY <1>2, <1>3, <1>5, <1>6, RequestsKept
  <1>8. RowSound' BY <1>2, <1>5, <1>6, RowKept
  <1>9. PaymentNotLost'
    <2> SUFFICES ASSUME NEW p \in 1..count["payment"]
                 PROVE  invoices[p] > 0 \/ [event |-> "charged", payment |-> p] \in hooks'
      BY <1>2 DEF PaymentNotLost
    <2>1. CASE h = [event |-> "charged", payment |-> p]
      BY <1>1, <2>1 DEF RequestSound
    <2>2. CASE h # [event |-> "charged", payment |-> p]
      BY <1>2, <2>2 DEF BillingIInv, PaymentNotLost
    <2> QED BY <2>1, <2>2
  <1>10. receipts' # {} => Paid' BY <1>2 DEF BillingIInv, Paid
  <1> QED BY <1>2, <1>5, <1>6, <1>7, <1>8, <1>9, <1>10, GeneralStep

\* A payment, posted with its number.
LEMMA PayStep ==
  ASSUME BillingIInv, NEW g \in DOMAIN gateway, Pay(g),
         gateway[g].state \in {"offered", "active", "pending"},
         UNCHANGED <<sub, plan, invoices, request, prompt>>,
         receipts' \subseteq receipts \cup {g}
  PROVE  BillingIInv'
  <1> DEFINE row == [gateway[g] EXCEPT !.state = "active"]
             n == count["payment"] + 1
             h == [event |-> "charged", payment |-> n]
  <1>1. gateway[g] \in GatewaySubs BY GatewayType
  <1>2. row \in GatewaySubs /\ row.state = "active" BY <1>1 DEF GatewaySubs
  <1>3. gateway' = [gateway EXCEPT ![g] = row] BY DEF Pay
  <1> HIDE DEF row
  <1>4. /\ gateway' \in Seq(GatewaySubs) /\ DOMAIN gateway' = DOMAIN gateway
        /\ \A k \in DOMAIN gateway : gateway[k].state \in Ended => gateway'[k].state \in Ended
        /\ \A k \in DOMAIN gateway \ {g} : gateway'[k] = gateway[k]
    BY <1>2, <1>3, GatewayEdited DEF Ended
  <1>5. count["payment"] \in Nat /\ count["stray"] \in Nat BY CountType DEF BillingIInv
  <1>6. count \in [Events -> Nat] BY DEF BillingIInv, BillingTypeOK
  <1>7. count["payment"] < MaxPayments /\ count' = [count EXCEPT !["payment"] = @ + 1]
    BY DEF Pay, Count, Bound
  <1>8. count' \in [Events -> Nat] /\ count'["payment"] = n /\ count'["stray"] = count["stray"]
    BY <1>6, <1>7 DEF Events
  <1>9. n \in Nat /\ n > 0 /\ n <= MaxPayments BY <1>5, <1>7, BillingAssumption
  <1>10. hooks' = hooks \cup {h} BY DEF Pay, Post
  <1>11. h \in Hooks BY <1>9 DEF Hooks
  <1>12. BillingTypeOK'
    <2>1. hooks' \subseteq Hooks BY <1>10, <1>11 DEF BillingIInv, BillingTypeOK
    <2>2. receipts' \subseteq DOMAIN gateway' BY <1>4 DEF BillingIInv, BillingTypeOK
    <2> QED BY <1>4, <1>8, <2>1, <2>2 DEF BillingIInv, BillingTypeOK
  <1>13. Kept BY <1>4, <1>5, <1>8, <1>9 DEF Kept
  <1>14. (\A q \in Requests : RequestSound(q)') /\ OneUpsert'
    BY <1>4, <1>12, <1>13, RequestsStill
  <1>15. RowSound' BY <1>12, <1>13, RowKept
  <1>16. PaymentNotLost'
    <2> SUFFICES ASSUME NEW p \in 1..n
                 PROVE  invoices[p] > 0 \/ [event |-> "charged", payment |-> p] \in hooks'
      BY <1>8 DEF PaymentNotLost
    <2>1. CASE p = n BY <1>10, <2>1
    <2>2. CASE p # n
      <3>1. p \in 1..count["payment"] BY <1>5, <2>2
      <3> QED BY <1>10, <3>1 DEF BillingIInv, PaymentNotLost
    <2> QED BY <2>1, <2>2
  <1>17. \A k \in hooks' \ hooks : HookSound(k)'
    <2>1. n \in 1..count'["payment"] BY <1>8, <1>9
    <2> SUFFICES ASSUME NEW k, k = h PROVE HookSound(k)'
      BY <1>10
    <2>2. k.event = "charged" /\ k.payment = n OBVIOUS
    <2> QED BY <2>1, <2>2 DEF HookSound, Ended
  <1>18. Paid' BY <1>8, <1>9 DEF Paid
  <1> QED BY <1>12, <1>13, <1>14, <1>15, <1>16, <1>17, <1>18, GeneralStep

LEMMA LapseStep ==
  ASSUME BillingIInv, NEW g \in DOMAIN gateway, NEW from \in {"active", "pending"},
         NEW event \in {"pending", "halted", "cancelled"}, Lapse(g, from, event)
  PROVE  BillingIInv'
  <1> DEFINE row == [gateway[g] EXCEPT !.state = event]
             h == [event |-> event, payment |-> g]
  <1>1. gateway[g] \in GatewaySubs /\ g \in Nat BY GatewayType
  <1>2. row \in GatewaySubs /\ row.state = event BY <1>1 DEF GatewaySubs
  <1>3. gateway' = [gateway EXCEPT ![g] = row] /\ gateway[g].state = from BY DEF Lapse
  <1> HIDE DEF row
  <1>4. /\ gateway' \in Seq(GatewaySubs) /\ DOMAIN gateway' = DOMAIN gateway
        /\ \A k \in DOMAIN gateway : gateway[k].state \in Ended => gateway'[k].state \in Ended
        /\ \A k \in DOMAIN gateway \ {g} : gateway'[k] = gateway[k]
        /\ gateway'[g] = row
    BY <1>2, <1>3, GatewayEdited DEF Ended
  <1>5. count["payment"] \in Nat /\ count["stray"] \in Nat BY CountType DEF BillingIInv
  <1>6. count \in [Events -> Nat] BY DEF BillingIInv, BillingTypeOK
  <1>7. count' = [count EXCEPT !["lapse"] = @ + 1] BY DEF Lapse, Count
  <1>8. /\ count' \in [Events -> Nat] /\ count'["payment"] = count["payment"]
        /\ count'["stray"] = count["stray"]
    BY <1>6, <1>7 DEF Events
  <1>9. hooks' = hooks \cup {h} /\ h \in Hooks BY <1>1 DEF Lapse, Post, Hooks
  <1>10. UNCHANGED <<sub, plan, invoices, receipts, request, prompt>> BY DEF Lapse
  <1>11. BillingTypeOK'
    <2>1. hooks' \subseteq Hooks BY <1>9 DEF BillingIInv, BillingTypeOK
    <2> QED BY <1>4, <1>8, <1>10, <2>1 DEF BillingIInv, BillingTypeOK
  <1>12. Kept BY <1>4, <1>5, <1>8, <1>10 DEF BillingIInv, Kept
  <1>13. (\A q \in Requests : RequestSound(q)') /\ OneUpsert'
    BY <1>3, <1>4, <1>10, <1>11, <1>12, RequestsStill
  <1>14. RowSound' BY <1>10, <1>11, <1>12, RowKept
  <1>15. PaymentNotLost' BY <1>8, <1>9, <1>10 DEF BillingIInv, PaymentNotLost
  <1>16. \A k \in hooks' \ hooks : HookSound(k)'
    <2> SUFFICES ASSUME NEW k, k = h PROVE HookSound(k)'
      BY <1>9
    <2>1. k.event = event /\ k.payment = g OBVIOUS
    <2> QED BY <1>2, <1>4, <2>1 DEF HookSound, Ended
  <1>17. receipts' # {} => Paid' BY <1>8, <1>10 DEF BillingIInv, Paid
  <1> QED BY <1>11, <1>12, <1>13, <1>14, <1>15, <1>16, <1>17, GeneralStep

\* The row's trial, the receipts or the running requests are gone.
LEMMA LossStep ==
  ASSUME BillingIInv, TrialEnds \/ Restart \/ \E g \in DOMAIN gateway : CloseBrowser(g)
  PROVE  BillingIInv'
  <1>1. count["payment"] \in Nat /\ count["stray"] \in Nat /\ count \in [Events -> Nat]
    BY CountType DEF BillingIInv, BillingTypeOK
  <1>2. UNCHANGED <<plan, invoices, gateway, hooks, prompt>> /\ receipts' \subseteq receipts
    BY DEF TrialEnds, Restart, CloseBrowser, theirs
  <1>3. /\ count' \in [Events -> Nat] /\ count'["payment"] = count["payment"]
        /\ count'["stray"] = count["stray"]
    <2>1. CASE Restart BY <1>1, <2>1 DEF Restart, Count, Events
    <2>2. CASE TrialEnds \/ \E g \in DOMAIN gateway : CloseBrowser(g)
      BY <1>1, <2>2 DEF TrialEnds, CloseBrowser
    <2> QED BY <2>1, <2>2
  <1>4. request' = request \/ request' = [r \in Requests |-> Idle]
    BY DEF TrialEnds, Restart, CloseBrowser
  <1>5. request' \in [Requests -> RequestRows]
    BY <1>4 DEF BillingIInv, BillingTypeOK, RequestRows
  <1>6. /\ sub' \in Subscriptions /\ sub'.status = sub.status /\ sub'.gatewayId = sub.gatewayId
        /\ sub.status = "none" => sub'.trial = sub.trial
    <2>1. sub \in Subscriptions /\ (sub.status = "none" => sub.trial = "none")
      BY DEF BillingIInv, BillingTypeOK, RowSound
    <2>2. CASE TrialEnds BY <2>1, <2>2 DEF TrialEnds, Subscriptions
    <2>3. CASE Restart \/ \E g \in DOMAIN gateway : CloseBrowser(g)
      BY <2>1, <2>3 DEF Restart, CloseBrowser
    <2> QED BY <2>2, <2>3
  <1>7. BillingTypeOK' BY <1>2, <1>3, <1>5, <1>6 DEF BillingIInv, BillingTypeOK, RequestRows
  <1>8. Kept BY <1>1, <1>2, <1>3 DEF BillingIInv, Kept
  <1>9. (\A q \in Requests : RequestSound(q)') /\ OneUpsert'
    <2>1. CASE request' = request BY <1>2, <1>7, <1>8, <2>1, RequestsStill
    <2>2. CASE request' = [r \in Requests |-> Idle]
      BY <2>2 DEF RequestSound, OneUpsert, Idle
    <2> QED BY <1>4, <2>1, <2>2
  <1>10. RowSound' BY <1>6, <1>7, <1>8, RowKept
  <1>11. PaymentNotLost' BY <1>2, <1>3 DEF BillingIInv, PaymentNotLost
  <1>12. receipts' # {} => Paid' BY <1>2, <1>3 DEF BillingIInv, Paid
  <1> QED BY <1>2, <1>7, <1>8, <1>9, <1>10, <1>11, <1>12, GeneralStep

-----------------------------------------------------------------------------
(* Every step *)

LEMMA GatewaySteps ==
  ASSUME BillingIInv, NEW g \in DOMAIN gateway,
         \/ Checkout(g) \/ Renew(g)
         \/ Lapse(g, "active", "pending") \/ Lapse(g, "pending", "halted")
         \/ \E from \in {"active", "pending"} : Lapse(g, from, "cancelled")
  PROVE  BillingIInv'
  <1>1. CASE Checkout(g) BY <1>1, PayStep DEF Checkout
  <1>2. CASE Renew(g) BY <1>2, PayStep DEF Renew
  <1>3. CASE \E from \in {"active", "pending"}, event \in {"pending", "halted", "cancelled"} :
               Lapse(g, from, event)
    BY <1>3, LapseStep
  <1> QED BY <1>1, <1>2, <1>3

LEMMA BillingIInvInitially == Init => BillingIInv
  <1> SUFFICES ASSUME Init PROVE BillingIInv
    OBVIOUS
  <1>1. BillingTypeOK
    <2>1. sub \in Subscriptions /\ plan \in {"FREE", "INDIVIDUAL"}
      BY DEF Init, Subscriptions, SubscriptionStatus
    <2>2. gateway \in Seq(GatewaySubs) BY EmptySeq DEF Init
    <2>3. request \in [Requests -> RequestRows] BY DEF Init, RequestRows
    <2>4. invoices \in [1..MaxPayments -> Nat] /\ count \in [Events -> Nat] BY DEF Init
    <2>5. hooks \subseteq Hooks /\ receipts \subseteq DOMAIN gateway /\ prompt \in BOOLEAN BY DEF Init
    <2> QED BY <2>1, <2>2, <2>3, <2>4, <2>5 DEF BillingTypeOK, RequestRows
  <1>2. count["payment"] = 0 BY DEF Init, Events
  <1>3. count["payment"] <= MaxPayments BY <1>2, BillingAssumption
  <1>4. (\A r \in Requests : RequestSound(r)) /\ OneUpsert BY DEF Init, RequestSound, OneUpsert, Idle
  <1>5. RowSound BY DEF Init, RowSound
  <1>6. PaymentNotLost BY <1>2 DEF PaymentNotLost
  <1>7. (receipts # {} => Paid) /\ \A h \in hooks : HookSound(h) BY DEF Init
  <1> QED BY <1>1, <1>3, <1>4, <1>5, <1>6, <1>7 DEF BillingIInv

LEMMA BillingIInvInductive == BillingIInv /\ [Next]_vars => BillingIInv'
  <1> SUFFICES ASSUME BillingIInv, [Next]_vars PROVE BillingIInv'
    OBVIOUS
  <1>1. ASSUME NEW r \in Requests, Serve(r) \/ Answer(r) PROVE BillingIInv'
    BY <1>1, RowWriters, GatewayCreateStep, UpsertStep, GatewayCancelStep, WriteInvoiceOrPlanStep,
       AnswerStep DEF Serve
  <1>2. CASE UNCHANGED vars
    <2>1. UNCHANGED <<sub, plan, invoices, gateway, hooks, receipts, request, count, prompt>>
      BY <1>2 DEF vars
    <2>2. BillingTypeOK' BY <2>1 DEF BillingIInv, BillingTypeOK
    <2>3. Kept
      <3>1. count["payment"] \in Nat /\ count["stray"] \in Nat BY CountType DEF BillingIInv
      <3> QED BY <2>1, <3>1 DEF BillingIInv, Kept
    <2>4. (\A q \in Requests : RequestSound(q)') /\ OneUpsert' BY <2>1, <2>2, <2>3, RequestsStill
    <2>5. RowSound' BY <2>1, RowSame
    <2>6. PaymentNotLost' BY <2>1, <2>2, <2>3, PaymentsKept
    <2>7. receipts' # {} => Paid' BY <2>1 DEF BillingIInv, Paid
    <2> QED BY <2>1, <2>2, <2>3, <2>4, <2>5, <2>6, <2>7, GeneralStep
  <1>3. CASE Next BY <1>1, <1>3, TakingSteps, GatewaySteps, LossStep DEF Next
  <1> QED BY <1>2, <1>3

\* The inductive invariant holds.
THEOREM Invariance == Spec => []BillingIInv
  BY BillingIInvInitially, BillingIInvInductive, PTL DEF Spec

\* The type invariant holds.
THEOREM TypeCorrect == Spec => []BillingTypeOK
  <1>1. BillingIInv => BillingTypeOK BY DEF BillingIInv
  <1> QED BY Invariance, <1>1, PTL

\* Whatever is repeated, reordered or cut short by a restart, each payment is
\* on an invoice or its webhook still posted.
THEOREM NoPaymentLost == Spec => []PaymentNotLost
  <1>1. BillingIInv => PaymentNotLost BY DEF BillingIInv
  <1> QED BY Invariance, <1>1, PTL

\* A firm whose browsers are let in after its trial has paid, or sent a stray
\* receipt; one whose row is cancelled had a subscription fail or end.
THEOREM AccessCaused == Spec => []AccessHasCause
  <1>1. BillingIInv => AccessHasCause
    <2> SUFFICES ASSUME BillingIInv PROVE AccessHasCause
      OBVIOUS
    <2>1. RowSound BY DEF BillingIInv
    <2> QED BY <2>1 DEF RowSound, AccessHasCause, Admitted, Browser, Paid, Ended
  <1> QED BY Invariance, <1>1, PTL

\* A firm has one trial.
THEOREM OneTrial == Spec => TrialOnce
  <1> DEFINE Once == sub.status # "none" =>
                       /\ sub.trial = "over" => sub'.trial = "over"
                       /\ sub'.status = "TRIALING" => sub.status = "TRIALING"
  <1>1. BillingTypeOK /\ [Next]_vars => [Once]_sub
    <2> SUFFICES ASSUME BillingTypeOK, Next, sub.status # "none" PROVE Once \/ sub' = sub
      BY DEF vars
    <2>1. sub \in Subscriptions BY DEF BillingTypeOK
    <2>2. ASSUME NEW r \in Requests, WriteStatus(r) PROVE Once
      <3>1. request[r] \in Receiving BY <2>2, KindOf DEF WriteStatus
      <3>2. request[r].hook.event \in {"charged", "halted", "cancelled", "pending"}
        BY <3>1 DEF Receiving, Hooks
      <3>3. HookStatus[request[r].hook.event] # "TRIALING" BY <3>2 DEF HookStatus
      <3>4. sub' = [sub EXCEPT !.status = HookStatus[request[r].hook.event]]
        BY <2>2 DEF WriteStatus
      <3> QED BY <2>1, <3>3, <3>4 DEF Subscriptions
    <2>3. ASSUME NEW r \in Requests, CreateTrial(r) \/ Upsert(r) \/ Activate(r) PROVE Once \/ sub' = sub
      BY <2>1, <2>3 DEF CreateTrial, Upsert, Activate, Subscriptions
    <2>4. CASE TrialEnds BY <2>1, <2>4 DEF TrialEnds, Subscriptions
    <2>5. ASSUME NEW r \in Requests,
                 \/ GatewayCreate(r) \/ PaidPlan(r) \/ GatewayCancel(r) \/ WriteInvoiceOrPlan(r) \/ Answer(r)
                 \/ SelectPlan(r) \/ CreateSubscription(r) \/ CancelSubscription(r)
                 \/ \E g \in receipts \cup {Stray} : VerifyPayment(r, g)
                 \/ \E h \in hooks : ReceiveHook(r, h)
          PROVE  sub' = sub
      BY <2>5 DEF GatewayCreate, PaidPlan, GatewayCancel, WriteInvoiceOrPlan, Answer, SelectPlan,
                  CreateSubscription, CancelSubscription, VerifyPayment, ReceiveHook
    <2>6. ASSUME NEW g \in DOMAIN gateway,
                 \/ Checkout(g) \/ Renew(g) \/ CloseBrowser(g)
                 \/ \E from, event \in {"active", "pending", "halted", "cancelled"} : Lapse(g, from, event)
          PROVE  sub' = sub
      BY <2>6 DEF Checkout, Renew, CloseBrowser, Lapse
    <2>7. CASE Restart BY <2>7 DEF Restart
    <2> QED BY <2>2, <2>3, <2>4, <2>5, <2>6, <2>7 DEF Next, Serve
  <1> QED BY TypeCorrect, <1>1, PTL DEF Spec, TrialOnce

-----------------------------------------------------------------------------
(* The row follows the gateway *)

Told == Len(gateway) = 1 /\ gateway[1].state \in DOMAIN Reflected

\* The webhook says what the gateway's subscription is now.
Tells(h) == Told /\ HookStatus[h.event] = Reflected[gateway[1].state]

Right == Told /\ sub.status = Reflected[gateway[1].state]

Live == Told /\ gateway[1].state = "active"

\* What a request is about to write, or has written.
Writes(rec) ==
    /\ rec.pc \in {"webhook", "webhookThen", "answer"} => Tells(rec.hook)
    /\ rec.pc \in {"webhookThen", "answer"} => Right
    /\ rec.pc = "activate" => Live

\* As the gateway waits for the firm, nothing under way is out of date; and the
\* row is right but for a webhook that is still posted.
Follows ==
    /\ \A h \in hooks : Tells(h)
    /\ \A r \in Requests : Writes(request[r])
    /\ receipts # {} => Live
    /\ Told => Right \/ hooks # {}

\* That a stray receipt was sent is not forgotten.
LEMMA StraysCounted ==
  ASSUME BillingTypeOK, [Next]_vars, count'["stray"] = 0
  PROVE  count["stray"] = 0
  <1>1. count \in [Events -> Nat] BY DEF BillingTypeOK
  <1>2. count' = count \/ \E e \in Events : Count(e)
    <2>1. ASSUME NEW r \in Requests, Serve(r) \/ Answer(r) PROVE count' = count
      BY <2>1 DEF Serve, CreateTrial, GatewayCreate, Upsert, Activate, PaidPlan, GatewayCancel,
                  WriteStatus, WriteInvoiceOrPlan, Answer
    <2>2. ASSUME NEW r \in Requests,
                 \/ SelectPlan(r) \/ CreateSubscription(r) \/ CancelSubscription(r)
                 \/ \E g \in receipts \cup {Stray} : VerifyPayment(r, g)
                 \/ \E h \in hooks : ReceiveHook(r, h)
          PROVE  count' = count \/ \E e \in Events : Count(e)
      BY <2>2 DEF SelectPlan, CreateSubscription, CancelSubscription, VerifyPayment, ReceiveHook, Events
    <2>3. ASSUME NEW g \in DOMAIN gateway,
                 \/ Checkout(g) \/ Renew(g) \/ CloseBrowser(g)
                 \/ Lapse(g, "active", "pending") \/ Lapse(g, "pending", "halted")
                 \/ \E from \in {"active", "pending"} : Lapse(g, from, "cancelled")
          PROVE  count' = count \/ \E e \in Events : Count(e)
      BY <2>3 DEF Checkout, Renew, Pay, Lapse, CloseBrowser, Events
    <2>4. CASE TrialEnds \/ Restart \/ UNCHANGED vars
      BY <2>4 DEF TrialEnds, Restart, vars, Events
    <2> QED BY <2>1, <2>2, <2>3, <2>4 DEF Next
  <1>3. ASSUME NEW e \in Events, Count(e) PROVE count["stray"] = 0
    BY <1>1, <1>3 DEF Count, Events
  <1> QED BY <1>2, <1>3

FollowInv == prompt /\ Len(gateway) <= 1 => Follows

LEMMA GatewaySeq == BillingIInv => gateway \in Seq(GatewaySubs) /\ Len(gateway) \in Nat /\ DOMAIN gateway = 1 .. Len(gateway)
  <1> SUFFICES ASSUME BillingIInv PROVE gateway \in Seq(GatewaySubs) /\ Len(gateway) \in Nat /\ DOMAIN gateway = 1 .. Len(gateway)
    OBVIOUS
  <1>1. gateway \in Seq(GatewaySubs) BY DEF BillingIInv, BillingTypeOK
  <1> QED BY <1>1

\* A row that is right keeps its status, or gets one that is right.
LEMMA RightKept ==
  ASSUME Right, UNCHANGED gateway, sub'.status = sub.status \/ sub.status = "none"
  PROVE  Right'
  <1>1. Reflected[gateway[1].state] # "none" BY DEF Right, Told, Reflected
  <1> QED BY <1>1 DEF Right, Told

\* A request moves, while the gateway's subscription stays as it is.
LEMMA FollowStep ==
  ASSUME FollowInv, NEW r \in Requests, NEW rec,
         request \in [Requests -> RequestRows], request' = [request EXCEPT ![r] = rec],
         Len(gateway') = Len(gateway), gateway'[1].state = gateway[1].state, prompt' = prompt,
         receipts' \subseteq receipts, hooks' \subseteq hooks,
         Follows => /\ Writes(rec)'
                    /\ Right => Right'
                    /\ hooks' = hooks \/ Right'
  PROVE  FollowInv'
  <1> SUFFICES ASSUME Follows PROVE Follows'
    BY DEF FollowInv
  <1>1. (Told' <=> Told) /\ (Live' <=> Live) BY DEF Told, Live
  <1>2. ASSUME NEW h, Tells(h) PROVE Tells(h)'
    BY <1>1, <1>2 DEF Tells
  <1>3. ASSUME NEW h \in hooks' PROVE Tells(h)'
    <2>1. Tells(h) BY <1>3 DEF Follows
    <2> QED BY <1>2, <2>1 DEF Tells
  <1>4. ASSUME NEW q \in Requests PROVE Writes(request[q])'
    <2>1. CASE q = r
      <3>1. request'[q] = rec BY <2>1
      <3> QED BY <3>1 DEF Writes, Tells
    <2>2. CASE q # r
      <3>1. request'[q] = request[q] BY <2>2
      <3>2. Writes(request[q]) BY DEF Follows
      <3>3. request[q].pc \in {"webhook", "webhookThen", "answer"} => Tells(request[q].hook)'
        BY <1>1, <3>1, <3>2 DEF Writes, Tells
      <3> QED BY <1>1, <3>1, <3>2, <3>3 DEF Writes, Tells
    <2> QED BY <2>1, <2>2
  <1>5. receipts' # {} => Live' BY <1>1 DEF Follows
  <1>6. Told' => Right' \/ hooks' # {} BY <1>1 DEF Follows
  <1> QED BY <1>3, <1>4, <1>5, <1>6 DEF Follows

\* Nothing is told before or after.
LEMMA UntoldStep ==
  ASSUME FollowInv, NEW r \in Requests, NEW rec,
         request \in [Requests -> RequestRows], request' = [request EXCEPT ![r] = rec],
         rec.pc \in {"idle", "upsert"}, UNCHANGED <<hooks, receipts, prompt>>,
         Len(gateway') <= 1 => Len(gateway) <= 1 /\ ~Told /\ ~Told'
  PROVE  FollowInv'
  <1> SUFFICES ASSUME Follows, ~Told, ~Told' PROVE Follows'
    BY DEF FollowInv
  <1>1. ~Live /\ ~Right BY DEF Live, Right
  <1>2. hooks' = {} /\ receipts' = {} BY <1>1 DEF Follows, Tells
  <1>3. ASSUME NEW q \in Requests PROVE Writes(request[q])'
    <2>1. request'[q] = rec \/ request'[q] = request[q] OBVIOUS
    <2>2. request[q].pc \notin {"webhook", "webhookThen", "answer", "activate"}
      BY <1>1 DEF Follows, Writes, Tells
    <2> QED BY <2>1, <2>2 DEF Writes
  <1> QED BY <1>2, <1>3 DEF Follows

LEMMA TakersFollow ==
  ASSUME BillingIInv, FollowInv, NEW r \in Requests, count'["stray"] = 0,
         \/ SelectPlan(r) \/ CreateSubscription(r) \/ CancelSubscription(r)
         \/ \E g \in receipts \cup {Stray} : VerifyPayment(r, g)
         \/ \E h \in hooks : ReceiveHook(r, h)
  PROVE  FollowInv'
  <1>1. request \in [Requests -> RequestRows] BY DEF BillingIInv, BillingTypeOK, RequestRows
  <1>2. UNCHANGED <<sub, gateway, hooks, prompt>> /\ receipts' \subseteq receipts
    BY DEF SelectPlan, CreateSubscription, CancelSubscription, VerifyPayment, ReceiveHook, theirs
  <1>3. Right => Right' BY <1>2 DEF Right, Told
  <1>4. ASSUME NEW rec, request' = [request EXCEPT ![r] = rec], Follows => Writes(rec)'
        PROVE  FollowInv'
    BY <1>1, <1>2, <1>3, <1>4, FollowStep
  <1>5. CASE SelectPlan(r) \/ CreateSubscription(r) \/ CancelSubscription(r)
    <2>1. ASSUME NEW rec, Take(r, rec), rec.pc \in {"createTrial", "gatewayCreate", "gatewayCancel"}
          PROVE  FollowInv'
      <3>1. Writes(rec)' BY <2>1 DEF Writes
      <3> QED BY <1>4, <2>1, <3>1 DEF Take
    <2>2. CASE SelectPlan(r) BY <2>1, <2>2 DEF SelectPlan
    <2>3. CASE CreateSubscription(r) BY <2>1, <2>3 DEF CreateSubscription
    <2>4. CASE CancelSubscription(r)
      <3> PICK id : id = sub.gatewayId OBVIOUS
      <3>1. Take(r, [pc |-> "gatewayCancel", gatewayId |-> id]) BY <2>4 DEF CancelSubscription
      <3> QED BY <2>1, <3>1
    <2> QED BY <1>5, <2>2, <2>3, <2>4
  <1>6. CASE \E g \in receipts \cup {Stray} : VerifyPayment(r, g)
    <2>1. request' = [request EXCEPT ![r] = [pc |-> "activate"]] /\ receipts # {}
      <3>1. count \in [Events -> Nat] BY DEF BillingIInv, BillingTypeOK
      <3>2. ~VerifyPayment(r, Stray) BY <3>1 DEF VerifyPayment, Count, Events
      <3> QED BY <1>6, <3>2 DEF VerifyPayment, Take
    <2>2. Follows => Live BY <2>1 DEF Follows
    <2>3. Follows => Writes([pc |-> "activate"])' BY <1>2, <2>2 DEF Writes, Live, Told
    <2> QED BY <1>4, <2>1, <2>3
  <1>7. CASE \E h \in hooks : ReceiveHook(r, h)
    <2> PICK h \in hooks : ReceiveHook(r, h) BY <1>7
    <2> DEFINE rec == [pc |-> "webhook", hook |-> h]
    <2>1. request' = [request EXCEPT ![r] = rec] BY DEF ReceiveHook, Take
    <2>2. rec.pc = "webhook" /\ rec.hook = h OBVIOUS
    <2> HIDE DEF rec
    <2>3. Follows => Tells(h) BY DEF Follows
    <2>4. Follows => Writes(rec)' BY <1>2, <2>2, <2>3 DEF Writes, Tells, Told
    <2> QED BY <1>4, <2>1, <2>4
  <1> QED BY <1>5, <1>6, <1>7

\* A request that ends writes no more.
LEMMA FinishersFollow ==
  ASSUME BillingIInv, FollowInv, NEW r \in Requests, Finish(r),
         Len(gateway') = Len(gateway), gateway'[1].state = gateway[1].state, prompt' = prompt,
         receipts' \subseteq receipts, hooks' \subseteq hooks,
         Follows => (Right => Right') /\ (hooks' = hooks \/ Right')
  PROVE  FollowInv'
  <1>1. request \in [Requests -> RequestRows] BY DEF BillingIInv, BillingTypeOK, RequestRows
  <1>2. request' = [request EXCEPT ![r] = Idle] BY DEF Finish
  <1>3. Writes(Idle)' BY DEF Writes, Idle
  <1> QED BY <1>1, <1>2, <1>3, FollowStep

LEMMA EndersFollow ==
  ASSUME BillingIInv, FollowInv, NEW r \in Requests,
         CreateTrial(r) \/ PaidPlan(r) \/ GatewayCancel(r) \/ Answer(r)
  PROVE  FollowInv'
  <1>0. gateway \in Seq(GatewaySubs) /\ Len(gateway) \in Nat /\ DOMAIN gateway = 1 .. Len(gateway)
    BY GatewaySeq
  <1>1. CASE CreateTrial(r)
    <2>1. UNCHANGED <<gateway, hooks, receipts, prompt>> /\ Finish(r)
      BY <1>1 DEF CreateTrial, theirs
    <2>2. sub'.status = sub.status \/ sub.status = "none" BY <1>1 DEF CreateTrial
    <2> QED BY <2>1, <2>2, RightKept, FinishersFollow
  <1>2. CASE PaidPlan(r)
    <2>1. UNCHANGED <<sub, gateway, hooks, receipts, prompt>> /\ Finish(r)
      BY <1>2 DEF PaidPlan, theirs
    <2> QED BY <2>1, RightKept, FinishersFollow
  <1>3. CASE GatewayCancel(r)
    <2> DEFINE g == request[r].gatewayId
    <2>1. UNCHANGED <<sub, hooks, receipts, prompt>> /\ Finish(r) BY <1>3 DEF GatewayCancel
    <2>2. g \in DOMAIN gateway BY <1>3 DEF BillingIInv, RequestSound, GatewayCancel
    <2>3. gateway' = [gateway EXCEPT ![g].ending = TRUE] \/ gateway' = gateway
      BY <1>3 DEF GatewayCancel
    <2>4. Len(gateway') = Len(gateway) BY <1>0, <2>3
    <2>5. gateway[g] \in GatewaySubs BY <2>2, GatewayType
    <2>6. [gateway[g] EXCEPT !.ending = TRUE].state = gateway[g].state BY <2>5 DEF GatewaySubs
    <2>7. gateway'[1].state = gateway[1].state
      <3>1. 1 \in DOMAIN gateway BY <1>0, <2>2
      <3>2. CASE g = 1 BY <2>2, <2>3, <2>6, <3>2
      <3>3. CASE g # 1 BY <2>3, <3>1, <3>3
      <3> QED BY <3>2, <3>3
    <2>8. Right => Right' BY <2>1, <2>4, <2>7 DEF Right, Told
    <2> QED BY <2>1, <2>4, <2>7, <2>8, FinishersFollow
  <1>4. CASE Answer(r)
    <2>1. UNCHANGED <<sub, gateway, receipts, prompt>> /\ Finish(r) /\ hooks' \subseteq hooks
          /\ request[r].pc = "answer"
      BY <1>4 DEF Answer
    <2>2. Follows => Right BY <2>1 DEF Follows, Writes
    <2>3. Right => Right' BY <2>1, RightKept
    <2> QED BY <2>1, <2>2, <2>3, FinishersFollow
  <1> QED BY <1>1, <1>2, <1>3, <1>4

LEMMA WritersFollow ==
  ASSUME BillingIInv, FollowInv, NEW r \in Requests,
         Activate(r) \/ WriteStatus(r) \/ WriteInvoiceOrPlan(r)
  PROVE  FollowInv'
  <1>1. request \in [Requests -> RequestRows] BY DEF BillingIInv, BillingTypeOK, RequestRows
  <1>2. UNCHANGED <<gateway, hooks, receipts, prompt>>
    BY DEF Activate, WriteStatus, WriteInvoiceOrPlan, theirs
  <1>3. sub \in Subscriptions BY DEF BillingIInv, BillingTypeOK
  <1>4. ASSUME NEW rec, request' = [request EXCEPT ![r] = rec], Follows => Writes(rec)' /\ (Right => Right')
        PROVE  FollowInv'
    BY <1>1, <1>2, <1>4, FollowStep
  <1>5. CASE Activate(r) /\ sub.status # "none"
    <2> PICK rec : rec = [request[r] EXCEPT !.pc = "paidPlan"] OBVIOUS
    <2>1. request' = [request EXCEPT ![r] = rec] BY <1>5 DEF Activate, Step
    <2>2. request[r] \in Verifying BY <1>5, KindOf DEF BillingIInv, Activate
    <2>3. rec.pc = "paidPlan" BY <2>2 DEF Verifying
    <2>4. Writes(rec)' BY <2>3 DEF Writes
    <2>5. Follows => Live BY <1>5 DEF Follows, Writes, Activate
    <2>6. sub'.status = "ACTIVE" BY <1>3, <1>5 DEF Activate, Subscriptions
    <2>7. Live => Right' BY <1>2, <2>6 DEF Live, Right, Told, Reflected
    <2> QED BY <1>4, <2>1, <2>4, <2>5, <2>7
  <1>6. CASE WriteStatus(r)
    <2> PICK h : h = request[r].hook OBVIOUS
    <2> PICK pc : pc = IF h.event = "pending" THEN "answer" ELSE "webhookThen" OBVIOUS
    <2> PICK rec : rec = [request[r] EXCEPT !.pc = pc] OBVIOUS
    <2>1. request' = [request EXCEPT ![r] = rec] BY <1>6 DEF WriteStatus, Step
    <2>2. request[r] \in Receiving BY <1>6, KindOf DEF BillingIInv, WriteStatus
    <2>3. rec.hook = h /\ rec.pc \in {"webhookThen", "answer"} BY <2>2 DEF Receiving
    <2>4. Follows => Tells(h) BY <1>6 DEF Follows, Writes, WriteStatus
    <2>5. sub'.status = HookStatus[h.event] BY <1>3, <1>6 DEF WriteStatus, Subscriptions
    <2>6. Tells(h) => Right' BY <1>2, <2>5 DEF Tells, Right, Told
    <2>7. Follows => Writes(rec)'
      BY <1>2, <2>3, <2>4, <2>6 DEF Writes, Tells, Told
    <2> QED BY <1>4, <2>1, <2>4, <2>6, <2>7
  <1>7. CASE WriteInvoiceOrPlan(r)
    <2> PICK h : h = request[r].hook OBVIOUS
    <2> PICK rec : rec = [request[r] EXCEPT !.pc = "answer"] OBVIOUS
    <2>1. request' = [request EXCEPT ![r] = rec] /\ sub' = sub
      BY <1>7 DEF WriteInvoiceOrPlan, Step
    <2>2. request[r] \in Receiving BY <1>7, KindOf DEF BillingIInv, WriteInvoiceOrPlan
    <2>3. rec.hook = h /\ rec.pc = "answer" BY <2>2 DEF Receiving
    <2>4. Follows => Tells(h) /\ Right
      BY <1>7 DEF Follows, Writes, WriteInvoiceOrPlan
    <2>5. Right => Right' BY <1>2, <2>1, RightKept
    <2>6. Follows => Writes(rec)' BY <1>2, <2>3, <2>4, <2>5 DEF Writes, Tells, Told
    <2> QED BY <1>4, <2>1, <2>5, <2>6
  <1>8. CASE Activate(r) /\ sub.status = "none"
    <2>1. request' = [request EXCEPT ![r] = Idle] /\ sub' = sub BY <1>8 DEF Activate, Finish
    <2>2. Writes(Idle)' BY DEF Writes, Idle
    <2>3. Right => Right' BY <1>2, <2>1, RightKept
    <2> QED BY <1>4, <2>1, <2>2, <2>3
  <1> QED BY <1>5, <1>6, <1>7, <1>8

\* The gateway has only a subscription nobody has paid for, or none.
LEMMA OpenersFollow ==
  ASSUME BillingIInv, FollowInv, NEW r \in Requests, GatewayCreate(r) \/ Upsert(r)
  PROVE  FollowInv'
  <1>0. gateway \in Seq(GatewaySubs) /\ Len(gateway) \in Nat /\ DOMAIN gateway = 1 .. Len(gateway)
    BY GatewaySeq
  <1>1. request \in [Requests -> RequestRows] BY DEF BillingIInv, BillingTypeOK, RequestRows
  <1>2. CASE GatewayCreate(r)
    <2>1. CASE Finish(r) /\ UNCHANGED gateway
      <3>1. UNCHANGED <<sub, gateway, hooks, receipts, prompt>> BY <1>2, <2>1 DEF GatewayCreate
      <3> QED BY <2>1, <3>1, RightKept, FinishersFollow
    <2>2. CASE /\ gateway' = Append(gateway, [state |-> "created", ending |-> FALSE])
               /\ request' = [request EXCEPT ![r] = [pc |-> "upsert", gatewayId |-> Len(gateway) + 1]]
      <3> DEFINE row == [state |-> "created", ending |-> FALSE]
                 rec == [pc |-> "upsert", gatewayId |-> Len(gateway) + 1]
      <3>1. gateway' = Append(gateway, row) /\ request' = [request EXCEPT ![r] = rec] BY <2>2
      <3>2. rec.pc = "upsert" /\ row.state = "created" OBVIOUS
      <3>3. row \in GatewaySubs BY DEF GatewaySubs
      <3> HIDE DEF row, rec
      <3>4. Len(gateway') = Len(gateway) + 1 /\ gateway'[Len(gateway) + 1] = row
        BY <1>0, <3>1, <3>3, AppendProperties
      <3>5. Len(gateway') <= 1 => Len(gateway) = 0 /\ gateway'[1] = row BY <1>0, <3>4
      <3>6. Len(gateway') <= 1 => Len(gateway) <= 1 /\ ~Told /\ ~Told'
        BY <3>2, <3>5 DEF Told, Reflected
      <3>7. UNCHANGED <<hooks, receipts, prompt>> BY <1>2 DEF GatewayCreate
      <3> QED BY <1>1, <3>1, <3>2, <3>6, <3>7, UntoldStep
    <2> QED BY <1>2, <2>1, <2>2 DEF GatewayCreate
  <1>3. CASE Upsert(r)
    <2> DEFINE g == request[r].gatewayId
    <2>1. g \in DOMAIN gateway /\ gateway[g].state = "created" BY <1>3 DEF BillingIInv, RequestSound, Upsert
    <2>2. gateway' = [gateway EXCEPT ![g].state = "offered"] /\ UNCHANGED <<hooks, receipts, prompt>>
      BY <1>3 DEF Upsert
    <2>3. gateway[g] \in GatewaySubs BY <2>1, GatewayType
    <2>4. [gateway[g] EXCEPT !.state = "offered"].state = "offered" BY <2>3 DEF GatewaySubs
    <2>5. Len(gateway') = Len(gateway) /\ gateway'[g].state = "offered" BY <1>0, <2>1, <2>2, <2>4
    <2>6. Len(gateway') <= 1 => Len(gateway) = 1 /\ g = 1 BY <1>0, <2>1, <2>5
    <2>7. Len(gateway') <= 1 => Len(gateway) <= 1 /\ ~Told /\ ~Told'
      BY <2>1, <2>5, <2>6 DEF Told, Reflected
    <2>8. request' = [request EXCEPT ![r] = Idle] /\ Idle.pc = "idle" BY <1>3 DEF Upsert, Finish, Idle
    <2> QED BY <1>1, <2>2, <2>7, <2>8, UntoldStep
  <1> QED BY <1>2, <1>3

\* The gateway posts what has become of its subscription, with all dealt with
\* that it had posted before.
LEMMA PostFollows ==
  ASSUME BillingIInv, FollowInv, GatewayMayAct, NEW g \in DOMAIN gateway, NEW state, NEW n,
         NEW event \in {"charged", "pending", "halted", "cancelled"},
         state \in DOMAIN Reflected, HookStatus[event] = Reflected[state],
         gateway' = [gateway EXCEPT ![g].state = state], Post(event, n),
         UNCHANGED <<sub, request, prompt>>,
         receipts' \subseteq receipts \cup (IF state = "active" THEN {g} ELSE {})
  PROVE  FollowInv'
  <1> DEFINE h == [event |-> event, payment |-> n]
  <1>0. gateway \in Seq(GatewaySubs) /\ Len(gateway) \in Nat /\ DOMAIN gateway = 1 .. Len(gateway)
    BY GatewaySeq
  <1>1. gateway[g] \in GatewaySubs BY GatewayType
  <1>2. [gateway[g] EXCEPT !.state = state].state = state BY <1>1 DEF GatewaySubs
  <1>3. Len(gateway') = Len(gateway) /\ gateway'[g].state = state BY <1>0, <1>2
  <1> SUFFICES ASSUME prompt, Len(gateway) = 1, g = 1 PROVE Follows'
    BY <1>0, <1>3 DEF FollowInv
  <1>4. hooks = {} /\ receipts = {} /\ \A r \in Requests : request[r] = Idle
    BY DEF GatewayMayAct
  <1>5. Told' /\ gateway'[1].state = state BY <1>3 DEF Told
  <1>6. hooks' = {h} /\ h.event = event BY <1>4 DEF Post
  <1> HIDE DEF h
  <1>7. Tells(h)' BY <1>5, <1>6 DEF Tells
  <1>8. \A r \in Requests : Writes(request[r])' BY <1>4 DEF Writes, Idle
  <1>9. receipts' # {} => Live' BY <1>4, <1>5 DEF Live
  <1> QED BY <1>6, <1>7, <1>8, <1>9 DEF Follows, Tells

LEMMA GatewayFollows ==
  ASSUME BillingIInv, FollowInv, NEW g \in DOMAIN gateway,
         \/ Checkout(g) \/ Renew(g)
         \/ \E from, event \in {"active", "pending", "halted", "cancelled"} :
              event # "active" /\ Lapse(g, from, event)
  PROVE  FollowInv'
  <1>1. CASE Checkout(g) \/ Renew(g)
    <2>1. /\ GatewayMayAct /\ UNCHANGED <<sub, request, prompt>>
          /\ receipts' \subseteq receipts \cup {g}
          /\ gateway' = [gateway EXCEPT ![g].state = "active"]
          /\ Post("charged", count["payment"] + 1)
      BY <1>1 DEF Checkout, Renew, Pay
    <2>2. HookStatus["charged"] = Reflected["active"] /\ "active" \in DOMAIN Reflected
      BY DEF HookStatus, Reflected
    <2> PICK n : n = count["payment"] + 1 OBVIOUS
    <2>3. Post("charged", n) BY <2>1
    <2> QED BY <2>1, <2>2, <2>3, PostFollows
  <1>2. ASSUME NEW from, NEW event \in {"pending", "halted", "cancelled"}, Lapse(g, from, event)
        PROVE  FollowInv'
    <2>1. /\ GatewayMayAct /\ UNCHANGED <<sub, request, prompt>>
          /\ receipts' = receipts
          /\ gateway' = [gateway EXCEPT ![g].state = event]
          /\ Post(event, g)
      BY <1>2 DEF Lapse
    <2>2. HookStatus[event] = Reflected[event] /\ event \in DOMAIN Reflected
      BY DEF HookStatus, Reflected
    <2> QED BY <2>1, <2>2, PostFollows
  <1> QED BY <1>1, <1>2

LEMMA LossFollows ==
  ASSUME BillingIInv, FollowInv,
         TrialEnds \/ Restart \/ (\E g \in DOMAIN gateway : CloseBrowser(g)) \/ UNCHANGED vars
  PROVE  FollowInv'
  <1>1. UNCHANGED <<gateway, hooks, prompt>> /\ receipts' \subseteq receipts
    BY DEF TrialEnds, Restart, CloseBrowser, theirs, vars
  <1>2. sub'.status = sub.status
    <2>1. sub \in Subscriptions BY DEF BillingIInv, BillingTypeOK
    <2>2. CASE TrialEnds BY <2>1, <2>2 DEF TrialEnds, Subscriptions
    <2> QED BY <2>2 DEF Restart, CloseBrowser, vars
  <1>3. \A r \in Requests : request'[r] = request[r] \/ request'[r] = Idle
    BY DEF TrialEnds, Restart, CloseBrowser, vars
  <1> SUFFICES ASSUME Follows PROVE Follows'
    BY <1>1 DEF FollowInv
  <1>4. (Told' <=> Told) /\ (Right' <=> Right) /\ (Live' <=> Live)
    BY <1>1, <1>2 DEF Told, Right, Live
  <1>5. ASSUME NEW h PROVE Tells(h)' <=> Tells(h)
    BY <1>1, <1>4 DEF Tells
  <1>6. \A h \in hooks' : Tells(h)' BY <1>1, <1>4 DEF Follows, Tells
  <1>7. ASSUME NEW r \in Requests PROVE Writes(request[r])'
    <2>1. Writes(request[r]) BY DEF Follows
    <2>2. CASE request'[r] = request[r]
      <3>1. Tells(request[r].hook) => Tells(request[r].hook)' BY <1>1, <1>4, <2>2 DEF Tells
      <3> QED BY <1>4, <2>1, <2>2, <3>1 DEF Writes
    <2>3. CASE request'[r] = Idle BY <2>3 DEF Writes, Idle
    <2> QED BY <1>3, <2>2, <2>3
  <1> QED BY <1>1, <1>4, <1>6, <1>7 DEF Follows

LEMMA FollowInvStep ==
  ASSUME BillingIInv, FollowInv, count'["stray"] = 0, [Next]_vars
  PROVE  FollowInv'
  <1>1. ASSUME NEW r \in Requests, Serve(r) \/ Answer(r) PROVE FollowInv'
    BY <1>1, EndersFollow, WritersFollow, OpenersFollow DEF Serve
  <1>2. ASSUME NEW g \in DOMAIN gateway,
               \/ Lapse(g, "active", "pending") \/ Lapse(g, "pending", "halted")
               \/ \E from \in {"active", "pending"} : Lapse(g, from, "cancelled")
        PROVE  FollowInv'
    BY <1>2, GatewayFollows
  <1>3. ASSUME NEW g \in DOMAIN gateway, Checkout(g) \/ Renew(g) PROVE FollowInv'
    BY <1>3, GatewayFollows
  <1> QED BY <1>1, <1>2, <1>3, TakersFollow, LossFollows DEF Next

LEMMA FollowInvInitially == Init => FollowInv
  <1> SUFFICES ASSUME Init PROVE Follows
    BY DEF FollowInv
  <1>1. Len(gateway) = 0 BY DEF Init
  <1> QED BY <1>1 DEF Init, Follows, Told, Writes, Idle

\* Where no receipt went astray.
NoneStray == count["stray"] = 0 => FollowInv

\* Once all that was posted is dealt with, in time, the row of a firm with one
\* subscription at the gateway, and no stray receipt, says what the gateway
\* does: through restarts in the middle of handlers, webhooks posted again and
\* receipts never sent.
THEOREM StatusFollows == Spec => []StatusFollowsGateway
  <1>1. BillingIInv /\ NoneStray => StatusFollowsGateway
    BY DEF NoneStray, FollowInv, Follows, StatusFollowsGateway, Settled, Told, Right
  <1>2. BillingIInv /\ NoneStray /\ [Next]_vars => NoneStray'
    <2> SUFFICES ASSUME BillingIInv, NoneStray, [Next]_vars, count'["stray"] = 0 PROVE FollowInv'
      BY DEF NoneStray
    <2>1. count["stray"] = 0 BY StraysCounted DEF BillingIInv
    <2> QED BY <2>1, FollowInvStep DEF NoneStray
  <1>3. Init => NoneStray BY FollowInvInitially DEF NoneStray
  <1>4. Spec => []NoneStray BY <1>2, <1>3, Invariance, PTL DEF Spec
  <1> QED BY Invariance, <1>1, <1>4, PTL
=============================================================================
