----------------------------- MODULE Subscriptions -----------------------------
(***************************************************************************)
(* What one customer pays at Stripe, and what the webhooks make of it      *)
(* (stripe.go:765, churn.go:112, referrals.go:105): credits, the           *)
(* subscription columns of the user's row, the referral reward.  Stripe    *)
(* sends an event until it is answered, perhaps twice, in any order; the   *)
(* webhook answers 200 whatever its statements did, so only a restart      *)
(* leaves an event unanswered.                                             *)
(*                                                                         *)
(* "creator" stands for the creator and pro plans: unlimited_api, and an   *)
(* allowance that the checkout grants first and each renewal's invoice     *)
(* after it.  "credits" stands for the credit plans, whose invoices grant  *)
(* the first period as well.  Amounts are left out.  The customer's id is  *)
(* stored before the first checkout, so every statement finds the row.     *)
(***************************************************************************)
EXTENDS Naturals, Sequences

CONSTANTS
  Products,      \* what may be paid for, each once
  Kind,          \* "creator", "credits" or "purchase"
  MaxPeriods,    \* bound: renewals of a subscription
  Hooks,         \* webhook requests being handled
  Customers      \* bound: what a customer buys, whether events come one by one in
                 \* the order they were made, and how much else may go wrong

ASSUME KindAssumption == Kind \in [Products -> {"creator", "credits", "purchase"}]
ASSUME PeriodAssumption == MaxPeriods \in Nat
ASSUME CustomerAssumption ==
  Customers \subseteq [buys : SUBSET Products, inOrder : BOOLEAN, mishaps : Nat]

VARIABLES
  customer,
  plan,        \* Stripe: status and paid period of each product
  outbox,      \* Stripe: the events, in the order it made them
  answered,    \* Stripe: those answered with 200
  sessions,    \* stripe_checkout_sessions
  columns,     \* users: subscription_status, subscription_plan, unlimited_api
  referral,    \* the referral that brought the customer
  hook,        \* the handlers
  granted,     \* history: how often each payment was credited
  rewards,     \* history: how often the referral was
  withheld,    \* history: renewals credited to nobody
  failed,      \* history: statements that failed
  mishaps      \* bound: those, answered events sent again, and restarts

stripe == <<plan, outbox, answered>>
books == <<sessions, columns, referral, granted, rewards, withheld>>
troubles == <<failed, mishaps>>
subVars == <<customer, stripe, books, hook, troubles>>

Subscribed == {p \in Products : Kind[p] # "purchase"}
Payments == Products \X (0 .. MaxPeriods)
WasPaid(pay) == plan[pay[1]].st # "none" /\ pay[2] <= plan[pay[1]].period

Event == [type : {"checkout", "changed", "invoice"}, of : Products, period : 0 .. MaxPeriods,
          status : {"active", "past_due", "canceled"}]
HookPC == {"idle", "retrieve", "save", "lookup", "grant", "award", "write"}
IdleHook == [pc |-> "idle", ev |-> 0, status |-> "active"]

SubTypeOK ==
  /\ customer \in Customers
  /\ plan \in [Products -> [st : {"none", "active", "past_due", "canceled"}, period : 0 .. MaxPeriods]]
  /\ outbox \in Seq(Event)
  /\ answered \subseteq DOMAIN outbox
  /\ sessions \subseteq {"checkout", "invoice"} \X Payments
  /\ columns \in [status : {"none", "active", "past_due", "canceled"},
                  plan : {"none", "creator", "credits"}, unlimited : BOOLEAN]
  /\ referral \in {"pending", "rewarded"}
  /\ granted \in [Payments -> Nat] /\ rewards \in Nat
  /\ withheld \subseteq Payments
  /\ hook \in [Hooks -> [pc : HookPC, ev : Nat, status : {"active", "past_due", "canceled"}]]
  /\ \A h \in Hooks : hook[h].pc # "idle" => hook[h].ev \in DOMAIN outbox
  /\ failed \in BOOLEAN /\ mishaps \in 0 .. customer.mishaps

SubInit ==
  /\ customer \in Customers
  /\ plan = [p \in Products |-> [st |-> "none", period |-> 0]]
  /\ outbox = <<>> /\ answered = {}
  /\ sessions = {}
  /\ columns = [status |-> "none", plan |-> "none", unlimited |-> FALSE]
  /\ referral = "pending"
  /\ hook = [h \in Hooks |-> IdleHook]
  /\ granted = [pay \in Payments |-> 0] /\ rewards = 0 /\ withheld = {}
  /\ failed = FALSE /\ mishaps = 0

--------------------------------------------------------------------------------
\* The customer and Stripe

Changed(p, status) == [type |-> "changed", of |-> p, period |-> 0, status |-> status]
Checkout(p) == [type |-> "checkout", of |-> p, period |-> 0, status |-> "active"]
Invoice(p, period) == [type |-> "invoice", of |-> p, period |-> period, status |-> "active"]

StripeSends(events) == outbox' = outbox \o events

\* Handlers have no say in what follows.
Apart == UNCHANGED <<customer, answered, books, hook, troubles>>

Pay(p) ==
  /\ p \in customer.buys /\ plan[p].st = "none"
  /\ plan' = [plan EXCEPT ![p].st = "active"]
  /\ StripeSends(IF p \in Subscribed THEN <<Changed(p, "active"), Invoice(p, 0), Checkout(p)>>
                              ELSE <<Checkout(p)>>)
  /\ Apart

\* Stripe repeats an event for some days, a period is a month at least.
PeriodOver(p) ==
  /\ p \in Subscribed /\ plan[p].st \in {"active", "past_due"}
  /\ \A i \in DOMAIN outbox : outbox[i].of = p => i \in answered

Renew(p) ==
  /\ PeriodOver(p) /\ plan[p].period < MaxPeriods
  /\ plan' = [plan EXCEPT ![p] = [st |-> "active", period |-> @.period + 1]]
  /\ StripeSends(<<Changed(p, "active"), Invoice(p, plan[p].period + 1)>>)
  /\ Apart

RenewalFails(p) ==
  /\ PeriodOver(p) /\ plan[p].st = "active"
  /\ plan' = [plan EXCEPT ![p].st = "past_due"]
  /\ StripeSends(<<Changed(p, "past_due")>>)
  /\ Apart

\* customer.subscription.deleted
End(p) ==
  /\ p \in Subscribed /\ plan[p].st \in {"active", "past_due"}
  /\ plan' = [plan EXCEPT ![p].st = "canceled"]
  /\ StripeSends(<<Changed(p, "canceled")>>)
  /\ Apart

--------------------------------------------------------------------------------
\* handleStripeWebhook

Unanswered == DOMAIN outbox \ answered
About(h) == outbox[hook[h].ev]
HookAt(h, pc) == hook[h].pc = pc
HookGoto(h, pc) == hook' = [hook EXCEPT ![h].pc = pc] /\ UNCHANGED answered
Answer(h) ==
  /\ hook' = [hook EXCEPT ![h] = IdleHook]
  /\ answered' = answered \cup {hook[h].ev}

\* A statement that failed may have been done: its answer was lost.
Mishap == mishaps < customer.mishaps /\ mishaps' = mishaps + 1
StatementFails == Mishap /\ failed' = TRUE

MayDeliver(i) ==
  IF customer.inOrder THEN (\A k \in Unanswered : i <= k) /\ (\A h \in Hooks : HookAt(h, "idle"))
             ELSE TRUE

\* A slip: the invoice of a creator's first period is credited like the others.
FirstStepOfAll(e) ==
  CASE e.type = "changed" -> "write"
    [] e.type = "invoice" -> "lookup"
    [] OTHER -> IF e.of \in Subscribed THEN "retrieve" ELSE "grant"

\* A slip: no plan's first invoice is credited.
FirstStepOfRenewals(e) ==
  CASE e.type = "changed" -> "write"
    [] e.type = "invoice" -> IF e.period = 0 THEN "idle" ELSE "lookup"
    [] OTHER -> IF e.of \in Subscribed THEN "retrieve" ELSE "grant"

\* The checkout has credited a creator's first period (churn.go:134).
FirstStep(e) ==
  CASE e.type = "changed" -> "write"
    [] e.type = "invoice" -> IF Kind[e.of] = "creator" /\ e.period = 0 THEN "idle" ELSE "lookup"
    [] OTHER -> IF e.of \in Subscribed THEN "retrieve" ELSE "grant"

Take(h, i) ==
  LET pc == FirstStep(outbox[i])
  IN IF pc = "idle"
     THEN answered' = answered \cup {i} /\ UNCHANGED hook
     ELSE hook' = [hook EXCEPT ![h] = [pc |-> pc, ev |-> i, status |-> "active"]] /\ UNCHANGED answered

\* An event being handled may be sent again as well: its answer was late.
Deliver(h) ==
  /\ HookAt(h, "idle")
  /\ \E i \in Unanswered : MayDeliver(i) /\ Take(h, i)
  /\ UNCHANGED <<customer, plan, outbox, books, troubles>>

Repeat(h) ==
  /\ HookAt(h, "idle") /\ ~customer.inOrder
  /\ \E i \in answered : Take(h, i)
  /\ Mishap
  /\ UNCHANGED <<customer, plan, outbox, books, failed>>

\* retrieveSubscription, for what may have changed since; an error means active.
Retrieve(h) ==
  /\ HookAt(h, "retrieve")
  /\ \E status \in {plan[About(h).of].st, "active"} :
       hook' = [hook EXCEPT ![h] = [pc |-> "save", ev |-> @.ev, status |-> status]]
  /\ UNCHANGED <<customer, stripe, books, troubles>>

\* A slip: unlimited_api is left as it was.
MirroredStatusOnly(p, status) ==
  columns' = [columns EXCEPT !.status = status, !.plan = Kind[p]]

\* UpdateStripeSubscription and UpdateStripeSubscriptionBySubscriptionID, whose
\* WHERE clause is satisfied by the customer's id alone.
Mirrored(p, status) ==
  columns' = [status |-> status, plan |-> Kind[p],
              unlimited |-> status = "active" /\ Kind[p] = "creator"]

\* Without the columns nothing is granted either.
Save(h) ==
  /\ HookAt(h, "save")
  /\ LET p == About(h).of
     IN \/ /\ Mirrored(p, hook[h].status)
           /\ HookGoto(h, IF Kind[p] = "creator" THEN "grant" ELSE "award")
           /\ UNCHANGED troubles
        \/ /\ Mirrored(p, hook[h].status) \/ UNCHANGED columns
           /\ StatementFails /\ Answer(h)
  /\ UNCHANGED <<customer, plan, outbox, sessions, referral, granted, rewards, withheld>>

\* handleStripeSubscriptionUpdated
Write(h) ==
  /\ HookAt(h, "write")
  /\ \/ Mirrored(About(h).of, About(h).status) /\ (StatementFails \/ UNCHANGED troubles)
     \/ StatementFails /\ UNCHANGED columns
  /\ Answer(h)
  /\ UNCHANGED <<customer, plan, outbox, sessions, referral, granted, rewards, withheld>>

\* processStripeInvoicePaid: a creator's renewal looks at the plan in the row.
Lookup(h) ==
  /\ HookAt(h, "lookup")
  /\ LET e == About(h)
         other == Kind[e.of] = "creator" /\ columns.plan = "credits"
     IN \/ ~other /\ HookGoto(h, "grant") /\ UNCHANGED <<withheld, troubles>>
        \/ other /\ Answer(h) /\ withheld' = withheld \cup {<<e.of, e.period>>} /\ UNCHANGED troubles
        \/ StatementFails /\ Answer(h) /\ UNCHANGED withheld
  /\ UNCHANGED <<customer, plan, outbox, sessions, columns, referral, granted, rewards>>

PaymentOf(e) == <<e.of, e.period>>
KeyOf(e) == <<e.type, PaymentOf(e)>>

\* CreditStripeCheckout: one transaction, ON CONFLICT DO NOTHING.
CreditStripeCheckout(e) ==
  /\ sessions' = sessions \cup {KeyOf(e)}
  /\ granted' = IF KeyOf(e) \in sessions THEN granted
                ELSE [granted EXCEPT ![PaymentOf(e)] = @ + 1]

\* A subscription's checkout goes on whatever became of the credits, a purchase
\* only if they were new.
Grant(h) ==
  /\ HookAt(h, "grant")
  /\ LET e == About(h)
         subscription == e.type = "checkout" /\ e.of \in Subscribed
     IN \/ /\ CreditStripeCheckout(e) /\ UNCHANGED troubles
           /\ IF subscription \/ (e.type = "checkout" /\ KeyOf(e) \notin sessions)
              THEN HookGoto(h, "award") ELSE Answer(h)
        \/ /\ StatementFails
           /\ CreditStripeCheckout(e) \/ UNCHANGED <<sessions, granted>>
           /\ IF subscription THEN HookGoto(h, "award") ELSE Answer(h)
  /\ UNCHANGED <<customer, plan, outbox, columns, referral, rewards, withheld>>

\* RewardReferral
Award(h) ==
  /\ HookAt(h, "award")
  /\ \/ /\ referral' = "rewarded"
        /\ rewards' = IF referral = "pending" THEN rewards + 1 ELSE rewards
        /\ StatementFails \/ UNCHANGED troubles
     \/ StatementFails /\ UNCHANGED <<referral, rewards>>
  /\ Answer(h)
  /\ UNCHANGED <<customer, plan, outbox, sessions, columns, granted, withheld>>

RestartHooks ==
  /\ Mishap
  /\ hook' = [h \in Hooks |-> IdleHook]
  /\ UNCHANGED <<customer, stripe, books, failed>>

--------------------------------------------------------------------------------
HookStep(h) == Retrieve(h) \/ Save(h) \/ Write(h) \/ Lookup(h) \/ Grant(h) \/ Award(h)

SubNext ==
  \/ \E p \in Products : Pay(p) \/ Renew(p) \/ RenewalFails(p) \/ End(p)
  \/ \E h \in Hooks : Deliver(h) \/ Repeat(h) \/ HookStep(h)
  \/ RestartHooks

SubSpec == SubInit /\ [][SubNext]_subVars

--------------------------------------------------------------------------------
\* Properties

\* Which of the two keys a payment is credited under.
Key(pay) ==
  <<IF pay[2] = 0 /\ Kind[pay[1]] # "credits" THEN "checkout" ELSE "invoice", pay>>

\* What Stripe tells is about payments that were made.
EventsTrue ==
  /\ \A p \in Products : plan[p].st = "none" => plan[p].period = 0
  /\ \A i \in DOMAIN outbox :
       /\ WasPaid(PaymentOf(outbox[i]))
       /\ outbox[i].type = "checkout" => outbox[i].period = 0
       /\ outbox[i].type # "checkout" => outbox[i].of \in Subscribed

\* A payment was credited if its key is there; no other key ever is.
KeysHeld ==
  /\ \A pay \in Payments : granted[pay] = IF Key(pay) \in sessions THEN 1 ELSE 0
  /\ \A key \in sessions : WasPaid(key[2])

\* What a handler may rely on where it stands.
HookReady(h) ==
  LET e == About(h)
  IN /\ hook[h].pc \in {"retrieve", "save"} => e.type = "checkout" /\ e.of \in Subscribed
     /\ hook[h].pc = "write" => e.type = "changed"
     /\ hook[h].pc = "lookup" => e.type = "invoice"
     /\ hook[h].pc \in {"lookup", "grant"} => KeyOf(e) = Key(PaymentOf(e))
     /\ hook[h].pc = "award" =>
          KeyOf(e) # Key(PaymentOf(e)) \/ failed \/ granted[PaymentOf(e)] = 1

\* The inductive invariant.
WebhookInv ==
  /\ SubTypeOK /\ EventsTrue /\ KeysHeld
  /\ \A h \in Hooks : HookReady(h)
  /\ rewards = IF referral = "pending" THEN 0 ELSE 1

\* Credits are granted for payments only and at most once, although the first
\* period of a subscription is told by two events with two keys, each of which
\* may come twice, at once, and after a restart; and so is the referral's reward.
CreditedOnce ==
  /\ \A pay \in Payments : granted[pay] <= 1 /\ (granted[pay] = 1 => WasPaid(pay))
  /\ rewards <= 1

\* A payment is not lost, in whatever order, how often and across how many
\* restarts its events come: it has been credited, or an event that credits it
\* is not answered yet and will be sent again.  Excepted by name: a statement that
\* failed, since the event is answered all the same, and a creator's renewal
\* while the row shows a credit plan.
PaymentNotLost ==
  \A pay \in Payments :
    WasPaid(pay) => \/ granted[pay] = 1 \/ failed \/ pay \in withheld
                    \/ \E i \in Unanswered : KeyOf(outbox[i]) = Key(pay)

\* All has been said and done, in order.
Caught == customer.inOrder /\ Unanswered = {} /\ ~failed

\* The row mirrors the subscription of a customer who has had one, also when it
\* changed while its checkout was being handled.
SoleSubscriptionMirrored ==
  \A p \in Subscribed :
    /\ Caught /\ plan[p].st # "none"
    /\ \A q \in Subscribed \ {p} : plan[q].st = "none"
    => /\ columns.status = plan[p].st
       /\ columns.unlimited <=> plan[p].st = "active" /\ Kind[p] = "creator"

\* "stores subscription state and mirrors active access to unlimited_api"
\* (db.go:1248): whoever has an active creator subscription has unlimited_api.
AccessFollowsSubscription ==
  Caught /\ (\E p \in Products : Kind[p] = "creator" /\ plan[p].st = "active") => columns.unlimited
================================================================================
