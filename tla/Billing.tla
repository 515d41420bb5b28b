------------------------------ MODULE Billing ------------------------------
(***************************************************************************)
(* The subscription of one firm: OnboardingService.selectPlan,             *)
(* BillingService, and what BillingGuard makes of the row.                 *)
(*                                                                         *)
(* The payment gateway is modelled from how the code uses it.  It keeps    *)
(* subscriptions of its own, takes payments, hands the browser a signed    *)
(* receipt of the first one, and posts webhooks, again until they are      *)
(* answered, in no particular order unless `prompt`.                       *)
(*                                                                         *)
(* A request is a handler between two of its calls to the database or to   *)
(* the gateway.  The process may stop at any of them.                      *)
(***************************************************************************)
EXTENDS Naturals, Sequences, FiniteSets

CONSTANTS
    Requests,       \* slots for requests served at the same time
    MaxGateway,     \* bound on the gateway's subscriptions
    MaxPayments,    \* bound on the payments
    MaxLapses,      \* bound on the payments that fail and subscriptions that end
    MaxStrays,      \* bound on the receipts verified that no payment of now stands behind
    MaxRestarts     \* bound on the restarts of the process

ASSUME BillingAssumption ==
    {MaxGateway, MaxPayments, MaxLapses, MaxStrays, MaxRestarts} \subseteq Nat

VARIABLES
    sub,            \* the Subscription row
    plan,           \* a column of the workspace
    invoices,       \* for each payment, the Invoice rows written for it
    gateway,        \* the gateway's subscriptions
    hooks,          \* webhooks not answered yet
    receipts,       \* gateway subscriptions whose receipt the browser has yet to send
    request,        \* the requests in flight
    count,          \* of each bounded event, so far
    prompt          \* whether what the gateway posts arrives in time

vars == <<sub, plan, invoices, gateway, hooks, receipts, request, count, prompt>>

-----------------------------------------------------------------------------

SubscriptionStatus == {"none", "TRIALING", "ACTIVE", "PAST_DUE", "CANCELLED"}

\* trialEndsAt counts as the trial that has not ended, or has; `cancelledAt`
\* decides nothing and is left out.
Subscriptions == [status : SubscriptionStatus, trial : {"none", "running", "over"}, gatewayId : Nat]

GatewaySubs == [state : {"created", "offered", "active", "pending", "halted", "cancelled"}, ending : BOOLEAN]

Hooks == [event : {"charged", "halted", "cancelled", "pending"}, payment : Nat]

Idle        == [pc |-> "idle"]
Selecting   == [pc : {"createTrial"}]
Subscribing == [pc : {"gatewayCreate", "upsert"}, gatewayId : Nat]
Verifying   == [pc : {"activate", "paidPlan"}]
Receiving   == [pc : {"webhook", "webhookThen", "answer"}, hook : Hooks]
Cancelling  == [pc : {"gatewayCancel"}, gatewayId : Nat]

Events == {"payment", "lapse", "stray", "restart"}
Bound  == [payment |-> MaxPayments, lapse |-> MaxLapses, stray |-> MaxStrays, restart |-> MaxRestarts]

\* Types of the row, of the gateway's side and of the requests.
BillingTypeOK ==
    /\ sub \in Subscriptions
    /\ plan \in {"FREE", "INDIVIDUAL"}
    /\ invoices \in [1..MaxPayments -> Nat]
    /\ gateway \in Seq(GatewaySubs)
    /\ hooks \subseteq Hooks
    /\ receipts \subseteq DOMAIN gateway
    /\ request \in [Requests -> {Idle} \cup Selecting \cup Subscribing \cup Verifying
                                       \cup Receiving \cup Cancelling]
    /\ count \in [Events -> Nat]
    /\ prompt \in BOOLEAN

\* createWorkspace, or registration with the trial begun.
Init ==
    /\ \/ sub = [status |-> "none", trial |-> "none", gatewayId |-> 0] /\ plan = "FREE"
       \/ sub = [status |-> "TRIALING", trial |-> "running", gatewayId |-> 0] /\ plan = "INDIVIDUAL"
    /\ invoices = [p \in 1..MaxPayments |-> 0]
    /\ gateway = << >>
    /\ hooks = {} /\ receipts = {}
    /\ request = [r \in Requests |-> Idle]
    /\ count = [e \in Events |-> 0]
    /\ prompt \in BOOLEAN

Count(e) == count[e] < Bound[e] /\ count' = [count EXCEPT ![e] = @ + 1]

Take(r, rec)  == request[r] = Idle /\ request' = [request EXCEPT ![r] = rec]
Step(r, pc)   == request' = [request EXCEPT ![r].pc = pc]
Finish(r)     == request' = [request EXCEPT ![r] = Idle]

theirs == <<gateway, hooks, receipts>>

\* Who asks: with the token in the cookie or not (then in the header, or not at
\* all), and staff of the platform or not.
Callers == [cookie : BOOLEAN, staff : BOOLEAN]
Browser == [cookie |-> TRUE, staff |-> FALSE]

\* BillingGuard reads the cookie only, and passes staff; a firm without a row
\* is let in.
Admitted(caller) ==
    \/ ~caller.cookie \/ caller.staff
    \/ sub.status \in {"none", "ACTIVE"}
    \/ sub.status = "TRIALING" /\ sub.trial # "over"

-----------------------------------------------------------------------------
(* Trials *)

SelectPlan(r) ==
    /\ sub.status = "none"
    /\ Take(r, [pc |-> "createTrial"])
    /\ plan' = "INDIVIDUAL"
    /\ UNCHANGED <<sub, invoices, theirs, count, prompt>>

\* Mutant: the row is written over.
CreateTrialAnyway(r) ==
    /\ request[r].pc = "createTrial"
    /\ Finish(r)
    /\ sub' = [status |-> "TRIALING", trial |-> "running", gatewayId |-> 0]
    /\ UNCHANGED <<plan, invoices, theirs, count, prompt>>

\* The insert fails on the key (workspaceId).
CreateTrial(r) ==
    /\ request[r].pc = "createTrial"
    /\ Finish(r)
    /\ sub' = IF sub.status = "none"
                THEN [status |-> "TRIALING", trial |-> "running", gatewayId |-> 0] ELSE sub
    /\ UNCHANGED <<plan, invoices, theirs, count, prompt>>

\* Fourteen days pass.
TrialEnds ==
    /\ sub.trial = "running"
    /\ sub' = [sub EXCEPT !.trial = "over"]
    /\ UNCHANGED <<plan, invoices, theirs, request, count, prompt>>

-----------------------------------------------------------------------------
(* Subscribing *)

CreateSubscription(r) ==
    /\ sub.status # "ACTIVE"
    /\ Take(r, [pc |-> "gatewayCreate", gatewayId |-> 0])
    /\ UNCHANGED <<sub, plan, invoices, theirs, count, prompt>>

\* The gateway may refuse, which ends the request.
GatewayCreate(r) ==
    /\ request[r].pc = "gatewayCreate"
    /\ \/ /\ Len(gateway) < MaxGateway
          /\ gateway' = Append(gateway, [state |-> "created", ending |-> FALSE])
          /\ request' = [request EXCEPT ![r] = [pc |-> "upsert", gatewayId |-> Len(gateway) + 1]]
       \/ Finish(r) /\ UNCHANGED gateway
    /\ UNCHANGED <<sub, plan, invoices, hooks, receipts, count, prompt>>

\* Mutant: the row is active once the checkout is open.
UpsertActive(r) ==
    /\ request[r].pc = "upsert"
    /\ sub' = [status |-> "ACTIVE", trial |-> IF sub.status = "none" THEN "running" ELSE sub.trial,
               gatewayId |-> request[r].gatewayId]
    /\ gateway' = [gateway EXCEPT ![request[r].gatewayId].state = "offered"]
    /\ Finish(r)
    /\ UNCHANGED <<plan, invoices, hooks, receipts, count, prompt>>

\* The browser is given the checkout of the gateway's new subscription.  The
\* row's id of an earlier one is overwritten.
Upsert(r) ==
    /\ request[r].pc = "upsert"
    /\ sub' = IF sub.status = "none"
                THEN [status |-> "TRIALING", trial |-> "running", gatewayId |-> request[r].gatewayId]
                ELSE [sub EXCEPT !.gatewayId = request[r].gatewayId]
    /\ gateway' = [gateway EXCEPT ![request[r].gatewayId].state = "offered"]
    /\ Finish(r)
    /\ UNCHANGED <<plan, invoices, hooks, receipts, count, prompt>>

\* No gateway subscription: the receipt is one sent before, or of another firm.
Stray == 0

\* verifyPayment asks for the gateway's signature and nothing else; the row
\* becomes active, then the plan.
VerifyPayment(r, g) ==
    /\ g \in receipts \cup {Stray}
    /\ Take(r, [pc |-> "activate"])
    /\ IF g = Stray THEN Count("stray") ELSE UNCHANGED count
    /\ receipts' = receipts \ {g}
    /\ UNCHANGED <<sub, plan, invoices, gateway, hooks, prompt>>

\* The write fails without a row.
Activate(r) ==
    /\ request[r].pc = "activate"
    /\ IF sub.status = "none" THEN Finish(r) /\ UNCHANGED sub
       ELSE sub' = [sub EXCEPT !.status = "ACTIVE"] /\ Step(r, "paidPlan")
    /\ UNCHANGED <<plan, invoices, theirs, count, prompt>>

PaidPlan(r) ==
    /\ request[r].pc = "paidPlan"
    /\ plan' = "INDIVIDUAL"
    /\ Finish(r)
    /\ UNCHANGED <<sub, invoices, theirs, count, prompt>>

\* cancelSubscription: the gateway ends the subscription with its period; the
\* row keeps its status.
CancelSubscription(r) ==
    /\ sub.gatewayId # 0
    /\ Take(r, [pc |-> "gatewayCancel", gatewayId |-> sub.gatewayId])
    /\ UNCHANGED <<sub, plan, invoices, theirs, count, prompt>>

GatewayCancel(r) ==
    /\ request[r].pc = "gatewayCancel"
    /\ gateway' = IF gateway[request[r].gatewayId].state \in {"active", "pending"}
                    THEN [gateway EXCEPT ![request[r].gatewayId].ending = TRUE] ELSE gateway
    /\ Finish(r)
    /\ UNCHANGED <<sub, plan, invoices, hooks, receipts, count, prompt>>

-----------------------------------------------------------------------------
(* handleWebhook: two writes, then the answer *)

\* Mutant: the webhook is taken off before its work is done.
ReceiveHookAnswered(r, h) ==
    /\ h \in hooks
    /\ Take(r, [pc |-> "webhook", hook |-> h])
    /\ hooks' = hooks \ {h}
    /\ UNCHANGED <<sub, plan, invoices, gateway, receipts, count, prompt>>

ReceiveHook(r, h) ==
    /\ h \in hooks
    /\ Take(r, [pc |-> "webhook", hook |-> h])
    /\ UNCHANGED <<sub, plan, invoices, theirs, count, prompt>>

\* Mutants: a status the enum does not have; a failed payment still counts as one.
HookStatusHalted == [e \in {"charged", "halted", "cancelled", "pending"} |->
    CASE e = "charged" -> "ACTIVE"
      [] e = "pending" -> "PAST_DUE"
      [] e = "halted"  -> "HALTED"
      [] OTHER         -> "CANCELLED"]

HookStatusKept == [e \in {"charged", "halted", "cancelled", "pending"} |->
    CASE e = "charged" -> "ACTIVE"
      [] e = "pending" -> "ACTIVE"
      [] OTHER         -> "CANCELLED"]

\* The gateway's subscription the event is about is not looked at.
HookStatus == [e \in {"charged", "halted", "cancelled", "pending"} |->
    CASE e = "charged" -> "ACTIVE"
      [] e = "pending" -> "PAST_DUE"
      [] OTHER         -> "CANCELLED"]

WriteStatus(r) ==
    /\ request[r].pc = "webhook"
    /\ sub' = [sub EXCEPT !.status = HookStatus[request[r].hook.event]]
    /\ Step(r, IF request[r].hook.event = "pending" THEN "answer" ELSE "webhookThen")
    /\ UNCHANGED <<plan, invoices, theirs, count, prompt>>

WriteInvoiceOrPlan(r) ==
    /\ request[r].pc = "webhookThen"
    /\ LET h == request[r].hook IN
       IF h.event = "charged"
         THEN invoices' = [invoices EXCEPT ![h.payment] = @ + 1] /\ UNCHANGED plan
         ELSE plan' = "FREE" /\ UNCHANGED invoices
    /\ Step(r, "answer")
    /\ UNCHANGED <<sub, theirs, count, prompt>>

\* Answered: not posted again, as one is that the process stops before.
Answer(r) ==
    /\ request[r].pc = "answer"
    /\ hooks' = hooks \ {request[r].hook}
    /\ Finish(r)
    /\ UNCHANGED <<sub, plan, invoices, gateway, receipts, count, prompt>>

-----------------------------------------------------------------------------
(* The gateway, the browser and the process *)

\* When prompt, all that was posted has been dealt with, and browsers closed.
GatewayMayAct == prompt => hooks = {} /\ receipts = {} /\ \A r \in Requests : request[r] = Idle

Post(event, payment) == hooks' = hooks \cup {[event |-> event, payment |-> payment]}

Pay(g) ==
    /\ Count("payment")
    /\ gateway' = [gateway EXCEPT ![g].state = "active"]
    /\ Post("charged", count["payment"] + 1)

Checkout(g) ==
    /\ GatewayMayAct
    /\ gateway[g].state = "offered"
    /\ Pay(g)
    /\ receipts' = receipts \cup {g}
    /\ UNCHANGED <<sub, plan, invoices, request, prompt>>

\* A renewal, or the retry of one that failed.
Renew(g) ==
    /\ GatewayMayAct
    /\ gateway[g].state \in {"active", "pending"}
    /\ Pay(g)
    /\ UNCHANGED <<sub, plan, invoices, receipts, request, prompt>>

Lapse(g, from, event) ==
    /\ GatewayMayAct
    /\ gateway[g].state = from
    /\ event = "cancelled" => gateway[g].ending
    /\ gateway' = [gateway EXCEPT ![g].state = event]
    /\ Post(event, g)
    /\ Count("lapse")
    /\ UNCHANGED <<sub, plan, invoices, receipts, request, prompt>>

\* The page is closed before it has sent the receipt.
CloseBrowser(g) ==
    /\ g \in receipts
    /\ receipts' = receipts \ {g}
    /\ UNCHANGED <<sub, plan, invoices, gateway, hooks, request, count, prompt>>

Restart ==
    /\ Count("restart")
    /\ request' = [r \in Requests |-> Idle]
    /\ UNCHANGED <<sub, plan, invoices, theirs, prompt>>

-----------------------------------------------------------------------------

Serve(r) ==
    \/ CreateTrial(r) \/ GatewayCreate(r) \/ Upsert(r) \/ Activate(r) \/ PaidPlan(r)
    \/ GatewayCancel(r) \/ WriteStatus(r) \/ WriteInvoiceOrPlan(r)

Next ==
    \/ \E r \in Requests :
        \/ Serve(r) \/ Answer(r)
        \/ SelectPlan(r) \/ CreateSubscription(r) \/ CancelSubscription(r)
        \/ \E g \in receipts \cup {Stray} : VerifyPayment(r, g)
        \/ \E h \in hooks : ReceiveHook(r, h)
    \/ \E g \in DOMAIN gateway :
        \/ Checkout(g) \/ Renew(g) \/ CloseBrowser(g)
        \/ Lapse(g, "active", "pending") \/ Lapse(g, "pending", "halted")
        \/ \E from \in {"active", "pending"} : Lapse(g, from, "cancelled")
    \/ TrialEnds
    \/ Restart

Spec == Init /\ [][Next]_vars

-----------------------------------------------------------------------------
(* Properties *)

\* A firm whose browsers are let in after its trial has paid, or has sent a
\* receipt that stands for no payment of now; and one whose row is cancelled had
\* a subscription fail or end: whatever is lost, repeated or out of order.
AccessHasCause ==
    /\ sub.trial = "over" /\ Admitted(Browser) => count["payment"] > 0 \/ count["stray"] > 0
    /\ sub.status = "CANCELLED" => \E g \in DOMAIN gateway : gateway[g].state \in {"halted", "cancelled"}

\* "prevents trial reset exploit": a firm has one trial, although the row is
\* looked for and created by calls of several requests.
TrialOnce == [][sub.status # "none" =>
                  /\ sub.trial = "over" => sub'.trial = "over"
                  /\ sub'.status = "TRIALING" => sub.status = "TRIALING"]_sub

Settled == hooks = {} /\ receipts = {} /\ \A r \in Requests : request[r] = Idle

\* What the row should say of the gateway's subscription.
Reflected == [active |-> "ACTIVE", pending |-> "PAST_DUE", halted |-> "CANCELLED", cancelled |-> "CANCELLED"]

\* With deliveries in time, one subscription at the gateway in the firm's life
\* and no stray receipt, the row says what the gateway does, through restarts in
\* the middle of handlers and receipts never sent.  (With two, see PayerAdmitted.)
StatusFollowsGateway ==
    prompt /\ Settled /\ count["stray"] = 0 /\ Len(gateway) = 1 /\ gateway[1].state \in DOMAIN Reflected
    => sub.status = Reflected[gateway[1].state]

\* A payment is on an invoice, or its webhook is still to be answered: the
\* process may stop between the two writes and answers may be lost, a payment
\* is not.
PaymentNotLost ==
    \A p \in 1..count["payment"] :
        invoices[p] > 0 \/ [event |-> "charged", payment |-> p] \in hooks

\* "Active subscription required.": a firm is shut out only without one.
PayerAdmitted ==
    prompt /\ Settled /\ (\E g \in DOMAIN gateway : gateway[g].state = "active") => Admitted(Browser)
=============================================================================
