----------------------------- MODULE PaymentsProofs -----------------------------
(***************************************************************************)
(* Theorems about Subscriptions, for whatever is sold, any number of       *)
(* periods, handlers and mishaps, and events in any order; about           *)
(* AutoTopup, for every set of users and runs, every length of the pause,  *)
(* all settings and all bounds; about Winback, for any number of           *)
(* processes, recipients and e-mails, of leases that run out and of slips; *)
(* and about the systems of MCPayments side by side.                       *)
(***************************************************************************)
EXTENDS MCPayments, FiniteSetTheorems, TLAPS

(* ---------------------------------------------- subscriptions, webhooks -- *)

USE KindAssumption, PeriodAssumption, CustomerAssumption

\* What appending does to a sequence.
LEMMA Appended ==
  ASSUME NEW S, NEW s \in Seq(S), NEW t \in Seq(S)
  PROVE  /\ s \o t \in Seq(S)
         /\ DOMAIN s \subseteq DOMAIN (s \o t)
         /\ \A i \in DOMAIN s : (s \o t)[i] = s[i]
         /\ \A i \in DOMAIN (s \o t) : i \notin DOMAIN s => \E k \in DOMAIN t : (s \o t)[i] = t[k]
         /\ \A k \in DOMAIN t : \E i \in DOMAIN (s \o t) : i \notin DOMAIN s /\ (s \o t)[i] = t[k]
<1>1. /\ s \o t \in Seq(S) /\ Len(s \o t) = Len(s) + Len(t)
      /\ Len(s) \in Nat /\ Len(t) \in Nat
      /\ DOMAIN s = 1 .. Len(s) /\ DOMAIN t = 1 .. Len(t)
      /\ DOMAIN (s \o t) = 1 .. Len(s) + Len(t)
  OBVIOUS
<1>2. \A i \in 1 .. Len(s) + Len(t) :
        (s \o t)[i] = IF i <= Len(s) THEN s[i] ELSE t[i - Len(s)]
  OBVIOUS
<1>3. ASSUME NEW i \in DOMAIN (s \o t), i \notin DOMAIN s
      PROVE  \E k \in DOMAIN t : (s \o t)[i] = t[k]
  <2>1. i - Len(s) \in DOMAIN t /\ (s \o t)[i] = t[i - Len(s)]
    BY <1>1, <1>2, <1>3
  <2> QED BY <2>1
<1>4. ASSUME NEW k \in DOMAIN t
      PROVE  \E i \in DOMAIN (s \o t) : i \notin DOMAIN s /\ (s \o t)[i] = t[k]
  <2>1. /\ Len(s) + k \in DOMAIN (s \o t) /\ Len(s) + k \notin DOMAIN s
        /\ (s \o t)[Len(s) + k] = t[k]
    BY <1>1, <1>2
  <2> QED BY <2>1
<1> QED BY <1>1, <1>2, <1>3, <1>4

LEMMA EventAt ==
  ASSUME SubTypeOK, NEW i \in DOMAIN outbox
  PROVE  /\ outbox[i] \in Event
         /\ outbox[i].of \in Products /\ outbox[i].period \in 0 .. MaxPeriods
         /\ PaymentOf(outbox[i]) \in Payments
<1>1. outbox[i] \in Event
  BY DEF SubTypeOK
<1>2. outbox[i].of \in Products /\ outbox[i].period \in 0 .. MaxPeriods
  BY <1>1 DEF Event
<1> QED BY <1>1, <1>2 DEF PaymentOf, Payments

--------------------------------------------------------------------------------
\* Steps of the customer and of Stripe

\* They change one product's row and append events that are true of it.
Told(p, row, events) ==
  /\ plan' = [plan EXCEPT ![p] = row]
  /\ StripeSends(events)
  /\ Apart

LEMMA ToldIsTrue ==
  ASSUME WebhookInv, NEW p \in Products,
         NEW row \in [st : {"active", "past_due", "canceled"}, period : 0 .. MaxPeriods],
         row.period >= plan[p].period,
         NEW events \in Seq(Event), Told(p, row, events),
         \A k \in DOMAIN events :
           /\ events[k].of = p /\ events[k].period <= row.period
           /\ events[k].type = "checkout" => events[k].period = 0
           /\ events[k].type # "checkout" => p \in Subscribed
  PROVE  WebhookInv'
<1> USE DEF WebhookInv
<1>1. /\ outbox \in Seq(Event) /\ plan \in [Products -> [st : {"none", "active", "past_due", "canceled"}, period : 0 .. MaxPeriods]]
      /\ outbox' = outbox \o events
      /\ UNCHANGED <<customer, answered, sessions, columns, referral, granted, rewards, withheld, hook, failed, mishaps>>
  BY DEF SubTypeOK, Told, StripeSends, Apart, books, troubles
<1>2. /\ outbox' \in Seq(Event)
      /\ DOMAIN outbox \subseteq DOMAIN outbox'
      /\ \A i \in DOMAIN outbox : outbox'[i] = outbox[i]
      /\ \A i \in DOMAIN outbox' : i \notin DOMAIN outbox => \E k \in DOMAIN events : outbox'[i] = events[k]
  BY <1>1, Appended
<1>3. /\ plan' \in [Products -> [st : {"none", "active", "past_due", "canceled"}, period : 0 .. MaxPeriods]]
      /\ \A q \in Products : plan'[q] = IF q = p THEN row ELSE plan[q]
  BY <1>1 DEF Told
<1>4. SubTypeOK'
  BY <1>1, <1>2, <1>3 DEF SubTypeOK
<1>5. ASSUME NEW pay \in Payments, WasPaid(pay)
      PROVE  WasPaid(pay)'
  <2>1. pay[1] \in Products /\ pay[2] \in Nat
    BY DEF Payments
  <2>2. plan[p].period \in Nat /\ row.period \in Nat /\ row.st # "none"
    BY <1>1
  <2> QED BY <1>3, <1>5, <2>1, <2>2 DEF WasPaid
<1>6. EventsTrue'
  <2>1. \A q \in Products : plan'[q].st = "none" => plan'[q].period = 0
    BY <1>3 DEF EventsTrue
  <2>2. ASSUME NEW i \in DOMAIN outbox'
        PROVE  /\ WasPaid(PaymentOf(outbox[i]))'
               /\ outbox'[i].type = "checkout" => outbox'[i].period = 0
               /\ outbox'[i].type # "checkout" => outbox'[i].of \in Subscribed
    <3>1. CASE i \in DOMAIN outbox
      <4>1. PaymentOf(outbox[i]) \in Payments
        BY <3>1, EventAt
      <4>2. PaymentOf(outbox[i])' = PaymentOf(outbox[i])
        BY <1>2, <3>1 DEF PaymentOf
      <4> QED BY <1>2, <1>5, <3>1, <4>1, <4>2 DEF EventsTrue, WasPaid
    <3>2. CASE i \notin DOMAIN outbox
      <4>1. PICK k \in DOMAIN events : outbox'[i] = events[k]
        BY <1>2, <3>2
      <4> QED BY <1>3, <4>1 DEF WasPaid, PaymentOf
    <3> QED BY <3>1, <3>2
  <2> QED BY <2>1, <2>2 DEF EventsTrue
<1>7. KeysHeld'
  <2>1. \A key \in sessions : key[2] \in Payments
    BY DEF SubTypeOK
  <2> QED BY <1>1, <1>5, <2>1 DEF KeysHeld, Key
<1>8. ASSUME NEW h \in Hooks
      PROVE  HookReady(h)'
  <2>1. hook[h].pc # "idle" => About(h)' = About(h)
    BY <1>1, <1>2 DEF About, SubTypeOK
  <2>2. hook[h].pc # "idle" => HookReady(h)'
    BY <1>1, <2>1 DEF HookReady, KeyOf, PaymentOf, Key
  <2> QED BY <1>1, <2>2 DEF HookReady
<1> QED BY <1>1, <1>4, <1>6, <1>7, <1>8

LEMMA ToldKeeps ==
  ASSUME WebhookInv, PaymentNotLost, NEW p \in Products,
         NEW row \in [st : {"active", "past_due", "canceled"}, period : 0 .. MaxPeriods],
         NEW events \in Seq(Event), Told(p, row, events),
         \A n \in 0 .. row.period :
           \/ WasPaid(<<p, n>>)
           \/ \E k \in DOMAIN events : KeyOf(events[k]) = Key(<<p, n>>)
  PROVE  PaymentNotLost'
<1> USE DEF WebhookInv
<1>1. /\ outbox \in Seq(Event) /\ plan \in [Products -> [st : {"none", "active", "past_due", "canceled"}, period : 0 .. MaxPeriods]]
      /\ answered \subseteq DOMAIN outbox
      /\ outbox' = outbox \o events
      /\ UNCHANGED <<answered, granted, withheld, failed>>
  BY DEF SubTypeOK, Told, StripeSends, Apart, books, troubles
<1>2. /\ DOMAIN outbox \subseteq DOMAIN outbox'
      /\ \A i \in DOMAIN outbox : outbox'[i] = outbox[i]
      /\ \A k \in DOMAIN events : \E i \in DOMAIN outbox' : i \notin DOMAIN outbox /\ outbox'[i] = events[k]
  BY <1>1, Appended
<1>3. \A q \in Products : plan'[q] = IF q = p THEN row ELSE plan[q]
  BY <1>1 DEF Told
<1>4. SUFFICES ASSUME NEW pay \in Payments, WasPaid(pay)', ~failed, pay \notin withheld, granted[pay] # 1
               PROVE  \E i \in Unanswered' : KeyOf(outbox'[i]) = Key(pay)
  BY <1>1 DEF PaymentNotLost, KeyOf, PaymentOf, Key
<1>5. CASE WasPaid(pay)
  <2>1. PICK i \in Unanswered : KeyOf(outbox[i]) = Key(pay)
    BY <1>4, <1>5 DEF PaymentNotLost
  <2> QED BY <1>1, <1>2, <2>1 DEF Unanswered
<1>6. CASE ~WasPaid(pay)
  <2>1. pay[1] = p /\ pay[2] \in 0 .. row.period /\ pay = <<p, pay[2]>>
    BY <1>1, <1>3, <1>4, <1>6 DEF WasPaid, Payments
  <2>2. PICK k \in DOMAIN events : KeyOf(events[k]) = Key(pay)
    BY <1>6, <2>1
  <2>3. PICK i \in DOMAIN outbox' : i \notin DOMAIN outbox /\ outbox'[i] = events[k]
    BY <1>2
  <2> QED BY <1>1, <2>2, <2>3 DEF Unanswered
<1> QED BY <1>5, <1>6

\* The customer and Stripe keep the invariant and what was paid.
LEMMA StripeKeeps ==
  ASSUME WebhookInv, NEW p \in Products,
         Pay(p) \/ Renew(p) \/ RenewalFails(p) \/ End(p)
  PROVE  WebhookInv' /\ (PaymentNotLost => PaymentNotLost')
<1>1. plan[p] \in [st : {"none", "active", "past_due", "canceled"}, period : 0 .. MaxPeriods]
  BY DEF WebhookInv, SubTypeOK
<1>2. plan[p] = [st |-> plan[p].st, period |-> plan[p].period]
  BY <1>1
<1>3. /\ Checkout(p) \in Event /\ Invoice(p, 0) \in Event
      /\ \A st \in {"active", "past_due", "canceled"} : Changed(p, st) \in Event
      /\ \A n \in 0 .. MaxPeriods : Invoice(p, n) \in Event
  BY DEF Checkout, Invoice, Changed, Event
<1>4. CASE Pay(p)
  <2> DEFINE row == [st |-> "active", period |-> 0]
             events == IF p \in Subscribed THEN <<Changed(p, "active"), Invoice(p, 0), Checkout(p)>>
                                            ELSE <<Checkout(p)>>
  <2>1. plan[p].st = "none" /\ plan[p].period = 0
    BY <1>4 DEF Pay, WebhookInv, EventsTrue
  <2>2. /\ row \in [st : {"active", "past_due", "canceled"}, period : 0 .. MaxPeriods]
        /\ row.period >= plan[p].period
    BY <2>1
  <2>3. events \in Seq(Event) /\ Told(p, row, events)
    <3>1. [plan[p] EXCEPT !.st = "active"] = row
      BY <1>1, <2>1
    <3>2. plan' = [plan EXCEPT ![p] = row]
      BY <1>4, <3>1 DEF Pay
    <3>3. events \in Seq(Event)
      BY <1>3
    <3>4. StripeSends(events) /\ Apart
      BY <1>4 DEF Pay
    <3> QED BY <3>2, <3>3, <3>4 DEF Told
  <2>4. \A k \in DOMAIN events :
          /\ events[k].of = p /\ events[k].period <= row.period
          /\ events[k].type = "checkout" => events[k].period = 0
          /\ events[k].type # "checkout" => p \in Subscribed
    BY DEF Checkout, Invoice, Changed
  <2>5. \E k \in DOMAIN events : KeyOf(events[k]) = Key(<<p, 0>>)
    <3>1. CASE p \in Subscribed
      <4>1. 2 \in DOMAIN events /\ 3 \in DOMAIN events
            /\ events[2] = Invoice(p, 0) /\ events[3] = Checkout(p)
        BY <3>1
      <4>2. KeyOf(events[2]) = Key(<<p, 0>>) \/ KeyOf(events[3]) = Key(<<p, 0>>)
        BY <4>1 DEF KeyOf, Key, PaymentOf, Checkout, Invoice
      <4> QED BY <4>1, <4>2
    <3>2. CASE p \notin Subscribed
      <4>1. 1 \in DOMAIN events /\ events[1] = Checkout(p) /\ Kind[p] = "purchase"
        BY <3>2 DEF Subscribed
      <4> QED BY <4>1 DEF KeyOf, Key, PaymentOf, Checkout
    <3> QED BY <3>1, <3>2
  <2>6. WebhookInv'
    <3> HIDE DEF row, events
    <3> QED BY <2>2, <2>3, <2>4, ToldIsTrue
  <2>7. \A n \in 0 .. row.period : \E k \in DOMAIN events : KeyOf(events[k]) = Key(<<p, n>>)
    BY <2>5
  <2>8. PaymentNotLost => PaymentNotLost'
    <3> HIDE DEF row, events
    <3> QED BY <2>2, <2>3, <2>7, ToldKeeps
  <2> QED BY <2>6, <2>8
<1>5. CASE Renew(p)
  <2> DEFINE row == [st |-> "active", period |-> plan[p].period + 1]
             events == <<Changed(p, "active"), Invoice(p, plan[p].period + 1)>>
  <2>1. /\ p \in Subscribed /\ plan[p].st # "none"
        /\ plan[p].period < MaxPeriods /\ plan[p].period + 1 \in 0 .. MaxPeriods
    BY <1>1, <1>5 DEF Renew, PeriodOver
  <2>2. /\ row \in [st : {"active", "past_due", "canceled"}, period : 0 .. MaxPeriods]
        /\ row.period >= plan[p].period
    BY <1>1, <2>1
  <2>3. events \in Seq(Event) /\ Told(p, row, events)
    BY <1>3, <1>5, <2>1 DEF Renew, Told
  <2>4. \A k \in DOMAIN events :
          /\ events[k].of = p /\ events[k].period <= row.period
          /\ events[k].type = "checkout" => events[k].period = 0
          /\ events[k].type # "checkout" => p \in Subscribed
    BY <1>1, <2>1 DEF Invoice, Changed
  <2>5. \A n \in 0 .. row.period :
          WasPaid(<<p, n>>) \/ \E k \in DOMAIN events : KeyOf(events[k]) = Key(<<p, n>>)
    <3>1. /\ 2 \in DOMAIN events
          /\ KeyOf(events[2]) = Key(<<p, plan[p].period + 1>>)
      BY <1>1 DEF KeyOf, Key, PaymentOf, Invoice
    <3>2. \A n \in 0 .. row.period : n <= plan[p].period \/ n = plan[p].period + 1
      BY <1>1
    <3> QED BY <2>1, <3>1, <3>2 DEF WasPaid
  <2>6. WebhookInv'
    <3> HIDE DEF row, events
    <3> QED BY <2>2, <2>3, <2>4, ToldIsTrue
  <2>7. PaymentNotLost => PaymentNotLost'
    <3> HIDE DEF row, events
    <3> QED BY <2>2, <2>3, <2>5, ToldKeeps
  <2> QED BY <2>6, <2>7
<1>6. CASE RenewalFails(p) \/ End(p)
  <2>1. PICK st \in {"past_due", "canceled"} :
          /\ plan[p].st # "none"
          /\ plan' = [plan EXCEPT ![p].st = st]
          /\ StripeSends(<<Changed(p, st)>>) /\ Apart /\ p \in Subscribed
    BY <1>6 DEF RenewalFails, End, PeriodOver
  <2> DEFINE row == [st |-> st, period |-> plan[p].period]
             events == <<Changed(p, st)>>
  <2>2. /\ row \in [st : {"active", "past_due", "canceled"}, period : 0 .. MaxPeriods]
        /\ row.period >= plan[p].period
    BY <1>1
  <2>3. events \in Seq(Event) /\ Told(p, row, events)
    <3>1. [plan[p] EXCEPT !.st = st] = row
      BY <1>1
    <3>2. plan' = [plan EXCEPT ![p] = row]
      BY <2>1, <3>1
    <3>3. events \in Seq(Event)
      BY <1>3
    <3> QED BY <2>1, <3>2, <3>3 DEF Told
  <2>4. \A k \in DOMAIN events :
          /\ events[k].of = p /\ events[k].period <= row.period
          /\ events[k].type = "checkout" => events[k].period = 0
          /\ events[k].type # "checkout" => p \in Subscribed
    BY <1>1, <2>1 DEF Changed
  <2>5. \A n \in 0 .. row.period : WasPaid(<<p, n>>)
    BY <1>1, <2>1 DEF WasPaid
  <2>6. WebhookInv'
    <3> HIDE DEF row, events
    <3> QED BY <2>2, <2>3, <2>4, ToldIsTrue
  <2>7. PaymentNotLost => PaymentNotLost'
    <3> HIDE DEF row, events
    <3> QED BY <2>2, <2>3, <2>5, ToldKeeps
  <2> QED BY <2>6, <2>7
<1> QED BY <1>4, <1>5, <1>6

--------------------------------------------------------------------------------
\* Steps of the handlers

Statuses == {"active", "past_due", "canceled"}

LEMMA MishapTypes ==
  ASSUME SubTypeOK
  PROVE  /\ Mishap => mishaps' \in 0 .. customer.mishaps
         /\ StatementFails => failed' = TRUE
<1>1. customer.mishaps \in Nat /\ mishaps \in Nat
  BY DEF SubTypeOK
<1> QED BY <1>1 DEF Mishap, StatementFails

\* Who does not move loses nothing.
LEMMA OthersReady ==
  ASSUME WebhookInv, NEW q \in Hooks,
         UNCHANGED outbox, hook'[q] = hook[q], failed => failed',
         \A pay \in Payments : granted[pay] = 1 => granted'[pay] = 1
  PROVE  HookReady(q)'
<1>1. HookReady(q) /\ SubTypeOK
  BY DEF WebhookInv
<1>2. CASE hook[q].pc = "idle"
  BY <1>2 DEF HookReady
<1>3. CASE hook[q].pc # "idle"
  <2>1. hook[q].ev \in DOMAIN outbox
    BY <1>1, <1>3 DEF SubTypeOK
  <2>2. PaymentOf(About(q)) \in Payments
    BY <1>1, <2>1, EventAt DEF About
  <2>3. About(q)' = About(q)
    BY DEF About
  <2> QED BY <1>1, <2>2, <2>3 DEF HookReady, KeyOf, PaymentOf, Key
<1> QED BY <1>2, <1>3

\* What answering an event leaves of the payments that are not granted.
LEMMA StillDue ==
  ASSUME WebhookInv, PaymentNotLost, NEW h \in Hooks,
         UNCHANGED <<plan, outbox>>, failed => failed', withheld \subseteq withheld',
         \A pay \in Payments : granted[pay] = 1 => granted'[pay] = 1,
         NEW i, answered' = answered \cup {i},
         \A pay \in Payments :
           KeyOf(outbox[i]) = Key(pay) => granted'[pay] = 1 \/ failed' \/ pay \in withheld'
  PROVE  PaymentNotLost'
<1> SUFFICES ASSUME NEW pay \in Payments, WasPaid(pay), granted'[pay] # 1, ~failed', pay \notin withheld'
             PROVE  \E k \in Unanswered' : KeyOf(outbox[k]) = Key(pay)
  BY DEF PaymentNotLost, WasPaid, KeyOf, PaymentOf, Key
<1>1. PICK k \in Unanswered : KeyOf(outbox[k]) = Key(pay)
  BY DEF PaymentNotLost
<1>2. k # i
  BY <1>1
<1> QED BY <1>1, <1>2 DEF Unanswered

\* The same of a step that answers nothing.
LEMMA NoneAnswered ==
  ASSUME PaymentNotLost, UNCHANGED <<plan, outbox, answered>>,
         failed => failed', withheld \subseteq withheld',
         \A pay \in Payments : granted[pay] = 1 => granted'[pay] = 1
  PROVE  PaymentNotLost'
BY DEF PaymentNotLost, WasPaid, KeyOf, PaymentOf, Key, Unanswered

\* The first step of an event that is credited leads to the key of its payment.
LEMMA FirstStepRight ==
  ASSUME SubTypeOK, EventsTrue, NEW i \in DOMAIN outbox
  PROVE  LET e == outbox[i]
             pc == FirstStep(e)
         IN /\ pc \in HookPC \ {"save", "award"}
            /\ pc = "idle" => KeyOf(e) # Key(PaymentOf(e)) /\ e.type = "invoice"
            /\ pc = "retrieve" => e.type = "checkout" /\ e.of \in Subscribed
            /\ pc = "write" => e.type = "changed"
            /\ pc = "lookup" => e.type = "invoice"
            /\ pc \in {"lookup", "grant"} => KeyOf(e) = Key(PaymentOf(e))
<1>1. outbox[i].type \in {"checkout", "changed", "invoice"}
  BY EventAt DEF Event
<1>2. outbox[i].of \in Products /\ outbox[i].period \in 0 .. MaxPeriods
  BY EventAt
<1>3. /\ outbox[i].type = "checkout" => outbox[i].period = 0
      /\ outbox[i].type # "checkout" => outbox[i].of \in Subscribed
  BY DEF EventsTrue
<1>4. CASE outbox[i].type = "changed"
  BY <1>4 DEF FirstStep, HookPC
<1>5. CASE outbox[i].type = "invoice"
  BY <1>2, <1>3, <1>5 DEF FirstStep, HookPC, KeyOf, Key, PaymentOf, Subscribed
<1>6. CASE outbox[i].type = "checkout"
  BY <1>2, <1>3, <1>6 DEF FirstStep, HookPC, KeyOf, Key, PaymentOf, Subscribed
<1> QED BY <1>1, <1>4, <1>5, <1>6

LEMMA TakeKeeps ==
  ASSUME WebhookInv, NEW h \in Hooks, NEW i \in DOMAIN outbox, Take(h, i),
         UNCHANGED <<customer, plan, outbox, books, failed>>, mishaps' \in 0 .. customer.mishaps
  PROVE  WebhookInv' /\ (PaymentNotLost => PaymentNotLost')
<1> DEFINE e == outbox[i]
           pc == FirstStep(e)
<1>1. SubTypeOK /\ EventsTrue /\ UNCHANGED <<sessions, columns, referral, granted, rewards, withheld>>
  BY DEF WebhookInv, books
<1>2. /\ pc \in HookPC \ {"save", "award"}
      /\ pc = "idle" => KeyOf(e) # Key(PaymentOf(e)) /\ e.type = "invoice"
      /\ pc = "retrieve" => e.type = "checkout" /\ e.of \in Subscribed
      /\ pc = "write" => e.type = "changed"
      /\ pc = "lookup" => e.type = "invoice"
      /\ pc \in {"lookup", "grant"} => KeyOf(e) = Key(PaymentOf(e))
  BY <1>1, FirstStepRight
<1> HIDE DEF pc
<1>3. \/ pc = "idle" /\ answered' = answered \cup {i} /\ UNCHANGED hook
      \/ pc # "idle" /\ hook' = [hook EXCEPT ![h] = [pc |-> pc, ev |-> i, status |-> "active"]] /\ UNCHANGED answered
  BY DEF Take, pc
<1>5. i \in Nat
  BY <1>1 DEF SubTypeOK
<1>6. SubTypeOK'
  <2>1. [pc |-> pc, ev |-> i, status |-> "active"]
          \in [pc : HookPC, ev : Nat, status : Statuses]
    BY <1>2, <1>5 DEF Statuses
  <2>2. hook' \in [Hooks -> [pc : HookPC, ev : Nat, status : Statuses]]
    BY <1>1, <1>3, <2>1 DEF SubTypeOK, Statuses
  <2>3. \A q \in Hooks : hook'[q].pc # "idle" => hook'[q].ev \in DOMAIN outbox
    <3>1. \A q \in Hooks : hook'[q] = hook[q]
                          \/ hook'[q] = [pc |-> pc, ev |-> i, status |-> "active"]
      <4>1. DOMAIN hook = Hooks
        BY <1>1 DEF SubTypeOK
      <4> QED BY <1>3, <4>1
    <3>2. \A q \in Hooks : hook[q].pc # "idle" => hook[q].ev \in DOMAIN outbox
      BY <1>1 DEF SubTypeOK
    <3> QED BY <3>1, <3>2
  <2>4. answered' \subseteq DOMAIN outbox
    BY <1>1, <1>3 DEF SubTypeOK
  <2> QED BY <1>1, <2>2, <2>3, <2>4 DEF SubTypeOK, Statuses
<1>7. EventsTrue' /\ KeysHeld'
  BY <1>1 DEF WebhookInv, EventsTrue, KeysHeld, WasPaid, PaymentOf, Key
<1>8. ASSUME NEW q \in Hooks
      PROVE  HookReady(q)'
  <2>1. CASE hook'[q] = hook[q]
    BY <1>1, <2>1, OthersReady
  <2>2. CASE hook'[q] # hook[q]
    <3>1. hook'[q] = [pc |-> pc, ev |-> i, status |-> "active"]
      BY <1>1, <1>3, <2>2 DEF SubTypeOK
    <3>2. hook'[q].pc = pc /\ About(q)' = e
      BY <3>1 DEF About
    <3> QED BY <1>2, <3>2 DEF HookReady, KeyOf, PaymentOf, Key
  <2> QED BY <2>1, <2>2
<1>9. WebhookInv'
  BY <1>1, <1>6, <1>7, <1>8 DEF WebhookInv
<1>10. ASSUME PaymentNotLost
       PROVE  PaymentNotLost'
  <2>1. CASE pc # "idle"
    BY <1>1, <1>3, <1>10, <2>1, NoneAnswered
  <2>2. CASE pc = "idle"
    <3>1. \A pay \in Payments : KeyOf(e) # Key(pay)
      BY <1>2, <2>2 DEF KeyOf, Key
    <3> QED BY <1>1, <1>3, <1>10, <2>2, <3>1, StillDue
  <2> QED BY <2>1, <2>2
<1> QED BY <1>9, <1>10

\* One handler moves on, with its event or without.
Moved(h) ==
  /\ hook' \in [Hooks -> [pc : HookPC, ev : Nat, status : Statuses]]
  /\ hook'[h].pc # "idle" => hook'[h].ev = hook[h].ev
  /\ \A q \in Hooks \ {h} : hook'[q] = hook[q]
  /\ answered' \subseteq DOMAIN outbox

LEMMA GotoMoves ==
  ASSUME SubTypeOK, NEW h \in Hooks, NEW pc \in HookPC, HookGoto(h, pc)
  PROVE  Moved(h) /\ hook'[h].pc = pc /\ UNCHANGED answered
<1>1. hook \in [Hooks -> [pc : HookPC, ev : Nat, status : Statuses]]
  BY DEF SubTypeOK, Statuses
<1>2. hook' = [hook EXCEPT ![h] = [hook[h] EXCEPT !.pc = pc]] /\ UNCHANGED answered
  BY DEF HookGoto
<1>3. [hook[h] EXCEPT !.pc = pc] = [pc |-> pc, ev |-> hook[h].ev, status |-> hook[h].status]
  BY <1>1
<1>4. hook' = [hook EXCEPT ![h] = [pc |-> pc, ev |-> hook[h].ev, status |-> hook[h].status]]
  BY <1>2, <1>3
<1>5. [pc |-> pc, ev |-> hook[h].ev, status |-> hook[h].status]
        \in [pc : HookPC, ev : Nat, status : Statuses]
  BY <1>1
<1>6. answered \subseteq DOMAIN outbox
  BY DEF SubTypeOK
<1> QED BY <1>1, <1>2, <1>4, <1>5, <1>6 DEF Moved

LEMMA AnswerMoves ==
  ASSUME SubTypeOK, NEW h \in Hooks, hook[h].pc # "idle", Answer(h)
  PROVE  Moved(h) /\ hook'[h].pc = "idle" /\ answered' = answered \cup {hook[h].ev}
<1>1. hook \in [Hooks -> [pc : HookPC, ev : Nat, status : Statuses]]
  BY DEF SubTypeOK, Statuses
<1>2. IdleHook \in [pc : HookPC, ev : Nat, status : Statuses] /\ IdleHook.pc = "idle"
  BY DEF IdleHook, HookPC, Statuses
<1>3. hook[h].ev \in DOMAIN outbox /\ answered \subseteq DOMAIN outbox
  BY DEF SubTypeOK
<1> QED BY <1>1, <1>2, <1>3 DEF Moved, Answer

\* What is left to show of a step of a handler.
LEMMA MoveKeeps ==
  ASSUME WebhookInv, NEW h \in Hooks, hook[h].pc # "idle", Moved(h),
         UNCHANGED <<customer, plan, outbox>>,
         failed' \in BOOLEAN, failed => failed', mishaps' \in 0 .. customer.mishaps,
         columns' \in [status : {"none", "active", "past_due", "canceled"},
                       plan : {"none", "creator", "credits"}, unlimited : BOOLEAN],
         withheld' \subseteq Payments,
         \/ UNCHANGED <<sessions, granted>>
         \/ /\ CreditStripeCheckout(About(h))
            /\ KeyOf(About(h)) = Key(PaymentOf(About(h))),
         \/ UNCHANGED <<referral, rewards>>
         \/ /\ referral' = "rewarded"
            /\ rewards' = IF referral = "pending" THEN rewards + 1 ELSE rewards,
         SubTypeOK /\ (\A pay \in Payments : granted[pay] = 1 => granted'[pay] = 1) => HookReady(h)'
  PROVE  WebhookInv' /\ (\A pay \in Payments : granted[pay] = 1 => granted'[pay] = 1)
<1> USE DEF WebhookInv
<1> DEFINE e == About(h)
           pay == PaymentOf(e)
<1>1. hook[h].ev \in DOMAIN outbox /\ \A q \in Hooks : hook[q].pc # "idle" => hook[q].ev \in DOMAIN outbox
  BY DEF SubTypeOK
<1>2. pay \in Payments /\ e \in Event
  BY <1>1, EventAt DEF About
<1>3. WasPaid(pay)
  BY <1>1 DEF EventsTrue, About
<1>4. /\ granted \in [Payments -> Nat] /\ sessions \subseteq {"checkout", "invoice"} \X Payments
      /\ rewards \in Nat /\ referral \in {"pending", "rewarded"}
  BY DEF SubTypeOK
<1>5. /\ granted' \in [Payments -> Nat] /\ sessions' \subseteq {"checkout", "invoice"} \X Payments
      /\ \A p \in Payments : granted'[p] = IF Key(p) \in sessions' THEN 1 ELSE 0
      /\ \A key \in sessions' : WasPaid(key[2])
      /\ \A p \in Payments : granted[p] = 1 => granted'[p] = 1
  <2>1. CASE UNCHANGED <<sessions, granted>>
    BY <1>4, <2>1 DEF KeysHeld
  <2>2. CASE CreditStripeCheckout(e) /\ KeyOf(e) = Key(pay)
    <3>1. /\ Key(pay) \in {"checkout", "invoice"} \X Payments /\ Key(pay)[2] = pay
          /\ \A p \in Payments : Key(p) = Key(pay) <=> p = pay
      BY <1>2 DEF Key
    <3>2. sessions' = sessions \cup {Key(pay)}
      BY <2>2 DEF CreditStripeCheckout
    <3>3. CASE Key(pay) \in sessions
      <4>1. granted' = granted /\ sessions' = sessions
        BY <2>2, <3>2, <3>3 DEF CreditStripeCheckout
      <4> QED BY <1>4, <4>1 DEF KeysHeld
    <3>4. CASE Key(pay) \notin sessions
      <4>1. granted[pay] = 0
        BY <1>2, <3>4 DEF KeysHeld
      <4>2. granted' = [granted EXCEPT ![pay] = 1]
        BY <2>2, <3>4, <4>1 DEF CreditStripeCheckout
      <4> HIDE DEF pay
      <4>3. \A p \in Payments : granted'[p] = IF p = pay THEN 1 ELSE granted[p]
        BY <1>2, <1>4, <4>2
      <4>4. granted' \in [Payments -> Nat]
        BY <1>2, <1>4, <4>2
      <4> QED BY <1>2, <1>3, <1>4, <3>1, <3>2, <4>1, <4>3, <4>4 DEF KeysHeld
    <3> QED BY <3>3, <3>4
  <2> QED BY <2>1, <2>2
<1>6. /\ rewards' \in Nat /\ referral' \in {"pending", "rewarded"}
      /\ rewards' = IF referral' = "pending" THEN 0 ELSE 1
  BY <1>4
<1>7. \A q \in Hooks : hook'[q].pc # "idle" => hook'[q].ev \in DOMAIN outbox
  BY <1>1 DEF Moved
<1>8. SubTypeOK'
  <2>1. hook' \in [Hooks -> [pc : HookPC, ev : Nat, status : Statuses]] /\ answered' \subseteq DOMAIN outbox
    BY DEF Moved
  <2> QED BY <1>5, <1>6, <1>7, <2>1 DEF SubTypeOK, Statuses
<1>9. EventsTrue'
  BY DEF EventsTrue, WasPaid, PaymentOf
<1>10. KeysHeld'
  BY <1>5 DEF KeysHeld, WasPaid, Key
<1>11. ASSUME NEW q \in Hooks
       PROVE  HookReady(q)'
  <2>1. CASE q = h
    BY <1>5, <2>1
  <2>2. CASE q # h
    BY <1>5, <2>2, OthersReady DEF Moved
  <2> QED BY <2>1, <2>2
<1> QED BY <1>5, <1>6, <1>8, <1>9, <1>10, <1>11

\* What the row's columns may be set to.
LEMMA MirrorTypes ==
  ASSUME NEW p \in Products, p \in Subscribed, NEW st \in Statuses, Mirrored(p, st)
  PROVE  columns' \in [status : {"none", "active", "past_due", "canceled"},
                       plan : {"none", "creator", "credits"}, unlimited : BOOLEAN]
<1>1. Kind[p] \in {"creator", "credits"}
  BY DEF Subscribed
<1>2. (st = "active" /\ Kind[p] = "creator") \in BOOLEAN
  OBVIOUS
<1> QED BY <1>1, <1>2 DEF Mirrored, Statuses

LEMMA SameEvent ==
  ASSUME NEW h \in Hooks, UNCHANGED outbox, hook'[h].ev = hook[h].ev
  PROVE  About(h)' = About(h)
BY DEF About

LEMMA Credited ==
  ASSUME SubTypeOK, KeysHeld, NEW e, PaymentOf(e) \in Payments,
         CreditStripeCheckout(e), KeyOf(e) = Key(PaymentOf(e))
  PROVE  granted'[PaymentOf(e)] = 1
<1> DEFINE pay == PaymentOf(e)
<1>1. granted \in [Payments -> Nat] /\ pay \in Payments
  BY DEF SubTypeOK
<1>2. CASE KeyOf(e) \in sessions
  BY <1>2 DEF CreditStripeCheckout, KeysHeld
<1>3. CASE KeyOf(e) \notin sessions
  <2>1. granted[pay] = 0
    BY <1>3 DEF KeysHeld
  <2>2. granted' = [granted EXCEPT ![pay] = 1]
    BY <1>3, <2>1 DEF CreditStripeCheckout
  <2> HIDE DEF pay
  <2>3. granted'[pay] = 1
    BY <1>1, <2>2
  <2> QED BY <2>3 DEF pay
<1> QED BY <1>2, <1>3

\* An event that was answered is settled for every payment it had the key of.
LEMMA AnswerKeeps ==
  ASSUME WebhookInv, PaymentNotLost, NEW h \in Hooks, hook[h].pc # "idle",
         UNCHANGED <<plan, outbox>>, failed => failed', withheld \subseteq withheld',
         \A pay \in Payments : granted[pay] = 1 => granted'[pay] = 1,
         answered' = answered \cup {hook[h].ev},
         LET pay == PaymentOf(About(h))
         IN \/ KeyOf(About(h)) # Key(pay)
            \/ granted'[pay] = 1 \/ failed' \/ pay \in withheld'
  PROVE  PaymentNotLost'
<1>1. \A p \in Payments : KeyOf(About(h)) = Key(p) => p = PaymentOf(About(h))
  BY DEF KeyOf, Key
<1> QED BY <1>1, StillDue DEF About

LEMMA HookKeeps ==
  ASSUME WebhookInv, NEW h \in Hooks, HookStep(h)
  PROVE  WebhookInv' /\ (PaymentNotLost => PaymentNotLost')
<1> DEFINE e == About(h)
           pay == PaymentOf(e)
           Kept == \A p \in Payments : granted[p] = 1 => granted'[p] = 1
<1>1. SubTypeOK /\ HookReady(h)
  BY DEF WebhookInv
<1>2. /\ failed \in BOOLEAN /\ mishaps \in 0 .. customer.mishaps /\ withheld \subseteq Payments
      /\ columns \in [status : {"none", "active", "past_due", "canceled"},
                      plan : {"none", "creator", "credits"}, unlimited : BOOLEAN]
      /\ plan \in [Products -> [st : {"none", "active", "past_due", "canceled"}, period : 0 .. MaxPeriods]]
  BY <1>1 DEF SubTypeOK
<1>3. hook[h].pc # "idle"
  BY DEF HookStep, Retrieve, Save, Write, Lookup, Grant, Award, HookAt
<1>4. hook[h].ev \in DOMAIN outbox
  BY <1>1, <1>3 DEF SubTypeOK
<1>5. e.of \in Products /\ pay \in Payments /\ e \in Event
  BY <1>1, <1>4, EventAt DEF About
<1>6. /\ e.type = "checkout" => e.period = 0
      /\ e.type # "checkout" => e.of \in Subscribed
      /\ KeyOf(e) = <<e.type, pay>>
  BY <1>4 DEF WebhookInv, EventsTrue, About, KeyOf
<1>7. StatementFails => failed' = TRUE /\ mishaps' \in 0 .. customer.mishaps
  BY <1>1, MishapTypes DEF StatementFails
<1> DEFINE Troubled == failed' \in BOOLEAN /\ (failed => failed') /\ mishaps' \in 0 .. customer.mishaps
<1>8. StatementFails \/ UNCHANGED troubles => Troubled
  <2>1. CASE StatementFails
    BY <1>7, <2>1
  <2>2. CASE UNCHANGED troubles
    <3>1. failed' = failed /\ mishaps' = mishaps
      BY <2>2 DEF troubles
    <3> QED BY <1>2, <3>1
  <2> QED BY <2>1, <2>2
<1>9. CASE Retrieve(h)
  <2>1. /\ hook[h].pc = "retrieve" /\ UNCHANGED <<customer, plan, outbox, answered>>
        /\ UNCHANGED <<sessions, columns, referral, granted, rewards, withheld, failed, mishaps>>
    BY <1>9 DEF Retrieve, HookAt, stripe, books, troubles
  <2>2. PICK st \in {plan[e.of].st, "active"} :
          hook' = [hook EXCEPT ![h] = [pc |-> "save", ev |-> hook[h].ev, status |-> st]]
    BY <1>9 DEF Retrieve
  <2>3. plan[e.of].st # "none" /\ st \in Statuses
    <3>1. plan[e.of].st # "none"
      BY <1>4 DEF WebhookInv, EventsTrue, WasPaid, PaymentOf, About
    <3> QED BY <1>2, <1>5, <3>1 DEF Statuses
  <2>4. Moved(h) /\ hook'[h].pc = "save" /\ hook'[h].ev = hook[h].ev
    <3>1. hook \in [Hooks -> [pc : HookPC, ev : Nat, status : Statuses]] /\ answered \subseteq DOMAIN outbox
      BY <1>1 DEF SubTypeOK, Statuses
    <3>2. [pc |-> "save", ev |-> hook[h].ev, status |-> st] \in [pc : HookPC, ev : Nat, status : Statuses]
      BY <2>3, <3>1 DEF HookPC
    <3> QED BY <2>1, <2>2, <3>1, <3>2 DEF Moved
  <2>5. HookReady(h)'
    <3>1. e' = e
      BY <2>1, <2>4, SameEvent
    <3> QED BY <1>1, <2>1, <2>4, <3>1 DEF HookReady
  <2>6. WebhookInv' /\ Kept
    BY <1>2, <1>3, <2>1, <2>4, <2>5, MoveKeeps
  <2> QED BY <2>1, <2>6, NoneAnswered
<1>10. CASE Save(h)
  <2>1. /\ hook[h].pc = "save" /\ UNCHANGED <<customer, plan, outbox>>
        /\ UNCHANGED <<sessions, referral, granted, rewards, withheld>>
        /\ e.type = "checkout" /\ e.of \in Subscribed /\ hook[h].status \in Statuses
    <3>1. hook[h].status \in Statuses
      BY <1>1 DEF SubTypeOK, Statuses
    <3> QED BY <1>1, <1>10, <3>1 DEF Save, HookAt, HookReady
  <2>2. Mirrored(e.of, hook[h].status) \/ UNCHANGED columns
    BY <1>10 DEF Save
  <2>3. columns' \in [status : {"none", "active", "past_due", "canceled"},
                      plan : {"none", "creator", "credits"}, unlimited : BOOLEAN]
    BY <1>2, <1>5, <2>1, <2>2, MirrorTypes
  <2>4. CASE HookGoto(h, IF Kind[e.of] = "creator" THEN "grant" ELSE "award") /\ UNCHANGED troubles
    <3> DEFINE pc == IF Kind[e.of] = "creator" THEN "grant" ELSE "award"
    <3>1. Moved(h) /\ hook'[h].pc = pc /\ UNCHANGED answered /\ pc \in {"grant", "award"}
      BY <1>1, <2>4, GotoMoves DEF HookPC
    <3>2. e' = e
      BY <2>1, <3>1, SameEvent DEF Moved
    <3>3. /\ Kind[e.of] = "creator" => KeyOf(e) = Key(pay)
          /\ Kind[e.of] # "creator" => KeyOf(e) # Key(pay)
      BY <1>5, <1>6, <2>1 DEF Key, PaymentOf, Subscribed
    <3>4. HookReady(h)'
      BY <3>1, <3>2, <3>3 DEF HookReady, KeyOf, PaymentOf, Key
    <3>5. WebhookInv' /\ Kept
      BY <1>2, <1>3, <2>1, <2>3, <2>4, <3>1, <3>4, MoveKeeps DEF troubles
    <3> QED BY <2>1, <2>4, <3>1, <3>5, NoneAnswered DEF troubles
  <2>5. CASE StatementFails /\ Answer(h)
    <3>1. Moved(h) /\ hook'[h].pc = "idle" /\ answered' = answered \cup {hook[h].ev}
      BY <1>1, <1>3, <2>5, AnswerMoves
    <3>2. WebhookInv' /\ Kept
      BY <1>2, <1>3, <1>7, <2>1, <2>3, <2>5, <3>1, MoveKeeps DEF HookReady
    <3> QED BY <1>3, <1>7, <2>1, <2>5, <3>1, <3>2, AnswerKeeps
  <2> QED BY <1>10, <2>4, <2>5 DEF Save
<1>11. CASE Write(h)
  <2>1. /\ hook[h].pc = "write" /\ UNCHANGED <<customer, plan, outbox>>
        /\ UNCHANGED <<sessions, referral, granted, rewards, withheld>>
        /\ e.type = "changed" /\ Answer(h)
    BY <1>1, <1>11 DEF Write, HookAt, HookReady
  <2>2. Mirrored(e.of, e.status) \/ UNCHANGED columns
    BY <1>11 DEF Write
  <2>3. columns' \in [status : {"none", "active", "past_due", "canceled"},
                      plan : {"none", "creator", "credits"}, unlimited : BOOLEAN]
    <3>1. e.of \in Subscribed /\ e.status \in Statuses
      BY <1>5, <1>6, <2>1 DEF Event, Statuses
    <3> QED BY <1>2, <1>5, <2>2, <3>1, MirrorTypes
  <2>4. StatementFails \/ UNCHANGED troubles
    BY <1>11 DEF Write
  <2>5. failed' \in BOOLEAN /\ (failed => failed') /\ mishaps' \in 0 .. customer.mishaps
    BY <1>8, <2>4
  <2>6. Moved(h) /\ hook'[h].pc = "idle" /\ answered' = answered \cup {hook[h].ev}
    BY <1>1, <1>3, <2>1, AnswerMoves
  <2>7. WebhookInv' /\ Kept
    BY <1>2, <1>3, <2>1, <2>3, <2>5, <2>6, MoveKeeps DEF HookReady
  <2>8. KeyOf(e) # Key(pay)
    BY <2>1 DEF KeyOf, Key
  <2> QED BY <1>3, <2>1, <2>5, <2>6, <2>7, <2>8, AnswerKeeps
<1>12. CASE Lookup(h)
  <2>1. /\ hook[h].pc = "lookup" /\ UNCHANGED <<customer, plan, outbox>>
        /\ UNCHANGED <<sessions, columns, referral, granted, rewards>>
        /\ KeyOf(e) = Key(pay)
    BY <1>1, <1>12 DEF Lookup, HookAt, HookReady
  <2>2. CASE HookGoto(h, "grant") /\ UNCHANGED <<withheld, troubles>>
    <3>1. Moved(h) /\ hook'[h].pc = "grant" /\ UNCHANGED answered
      BY <1>1, <2>2, GotoMoves DEF HookPC
    <3>2. e' = e
      BY <2>1, <3>1, SameEvent DEF Moved
    <3>3. HookReady(h)'
      BY <2>1, <3>1, <3>2 DEF HookReady, KeyOf, PaymentOf, Key
    <3>4. WebhookInv' /\ Kept
      BY <1>2, <1>3, <2>1, <2>2, <3>1, <3>3, MoveKeeps DEF troubles
    <3> QED BY <2>1, <2>2, <3>1, <3>4, NoneAnswered DEF troubles
  <2>3. CASE /\ Answer(h)
             /\ \/ withheld' = withheld \cup {pay} /\ UNCHANGED troubles
                \/ StatementFails /\ UNCHANGED withheld
    <3>1. /\ failed' \in BOOLEAN /\ (failed => failed') /\ mishaps' \in 0 .. customer.mishaps
          /\ withheld' \subseteq Payments /\ withheld \subseteq withheld'
          /\ failed' \/ pay \in withheld'
      BY <1>2, <1>5, <1>7, <1>8, <2>3
    <3>2. Moved(h) /\ hook'[h].pc = "idle" /\ answered' = answered \cup {hook[h].ev}
      BY <1>1, <1>3, <2>3, AnswerMoves
    <3>3. WebhookInv' /\ Kept
      BY <1>2, <1>3, <2>1, <3>1, <3>2, MoveKeeps DEF HookReady
    <3> QED BY <1>3, <2>1, <3>1, <3>2, <3>3, AnswerKeeps
  <2> QED BY <1>12, <2>2, <2>3 DEF Lookup, PaymentOf
<1>13. CASE Grant(h)
  <2>1. /\ hook[h].pc = "grant" /\ UNCHANGED <<customer, plan, outbox>>
        /\ UNCHANGED <<columns, referral, rewards, withheld>>
        /\ KeyOf(e) = Key(pay)
    BY <1>1, <1>13 DEF Grant, HookAt, HookReady
  <2>2. /\ CreditStripeCheckout(e) \/ UNCHANGED <<sessions, granted>>
        /\ HookGoto(h, "award") \/ Answer(h)
        /\ \/ CreditStripeCheckout(e) /\ UNCHANGED troubles
           \/ StatementFails
    BY <1>13 DEF Grant
  <2>3. granted'[pay] = 1 \/ failed'
    BY <1>5, <1>7, <2>1, <2>2, Credited DEF WebhookInv
  <2>4. failed' \in BOOLEAN /\ (failed => failed') /\ mishaps' \in 0 .. customer.mishaps
    BY <1>8, <2>2
  <2>5. CASE HookGoto(h, "award")
    <3>1. Moved(h) /\ hook'[h].pc = "award" /\ UNCHANGED answered
      BY <1>1, <2>5, GotoMoves DEF HookPC
    <3>2. e' = e
      BY <2>1, <3>1, SameEvent DEF Moved
    <3>3. HookReady(h)'
      BY <2>3, <3>1, <3>2 DEF HookReady, PaymentOf
    <3>4. WebhookInv' /\ Kept
      BY <1>2, <1>3, <2>1, <2>2, <2>4, <3>1, <3>3, MoveKeeps
    <3> QED BY <2>1, <2>4, <3>1, <3>4, NoneAnswered
  <2>6. CASE Answer(h)
    <3>1. Moved(h) /\ hook'[h].pc = "idle" /\ answered' = answered \cup {hook[h].ev}
      BY <1>1, <1>3, <2>6, AnswerMoves
    <3>2. WebhookInv' /\ Kept
      BY <1>2, <1>3, <2>1, <2>2, <2>4, <3>1, MoveKeeps DEF HookReady
    <3> QED BY <1>3, <2>1, <2>3, <2>4, <3>1, <3>2, AnswerKeeps
  <2> QED BY <2>2, <2>5, <2>6
<1>14. CASE Award(h)
  <2>1. /\ hook[h].pc = "award" /\ UNCHANGED <<customer, plan, outbox>>
        /\ UNCHANGED <<sessions, columns, granted, withheld>>
        /\ KeyOf(e) # Key(pay) \/ failed \/ granted[pay] = 1
        /\ Answer(h)
        /\ \/ UNCHANGED <<referral, rewards>>
           \/ /\ referral' = "rewarded"
              /\ rewards' = IF referral = "pending" THEN rewards + 1 ELSE rewards
        /\ StatementFails \/ UNCHANGED troubles
    BY <1>1, <1>14 DEF Award, HookAt, HookReady
  <2>2. failed' \in BOOLEAN /\ (failed => failed') /\ mishaps' \in 0 .. customer.mishaps
    BY <1>8, <2>1
  <2>3. Moved(h) /\ hook'[h].pc = "idle" /\ answered' = answered \cup {hook[h].ev}
    BY <1>1, <1>3, <2>1, AnswerMoves
  <2>4. WebhookInv' /\ Kept
    BY <1>2, <1>3, <2>1, <2>2, <2>3, MoveKeeps DEF HookReady
  <2> QED BY <1>3, <2>1, <2>2, <2>3, <2>4, AnswerKeeps
<1> QED BY <1>9, <1>10, <1>11, <1>12, <1>13, <1>14 DEF HookStep

LEMMA RestartKeeps ==
  ASSUME WebhookInv, RestartHooks
  PROVE  WebhookInv' /\ (PaymentNotLost => PaymentNotLost')
<1>1. /\ UNCHANGED <<customer, plan, outbox, answered>>
      /\ UNCHANGED <<sessions, columns, referral, granted, rewards, withheld, failed>>
      /\ Mishap /\ hook' = [h \in Hooks |-> IdleHook]
  BY DEF RestartHooks, stripe, books
<1>2. mishaps' \in 0 .. customer.mishaps
  BY <1>1, MishapTypes DEF WebhookInv
<1>3. /\ IdleHook \in [pc : HookPC, ev : Nat, status : {"active", "past_due", "canceled"}]
      /\ IdleHook.pc = "idle"
  BY DEF IdleHook, HookPC
<1>4. SubTypeOK'
  BY <1>1, <1>2, <1>3 DEF WebhookInv, SubTypeOK
<1>5. EventsTrue' /\ KeysHeld'
  BY <1>1 DEF WebhookInv, EventsTrue, KeysHeld, WasPaid, PaymentOf, Key
<1>6. \A h \in Hooks : HookReady(h)'
  BY <1>1, <1>3 DEF HookReady
<1>7. PaymentNotLost => PaymentNotLost'
  BY <1>1, NoneAnswered
<1>8. rewards' = IF referral' = "pending" THEN 0 ELSE 1
  BY <1>1 DEF WebhookInv
<1> QED BY <1>4, <1>5, <1>6, <1>7, <1>8 DEF WebhookInv

LEMMA SubInitHolds ==
  ASSUME SubInit
  PROVE  WebhookInv /\ PaymentNotLost
<1>1. customer.mishaps \in Nat
  BY DEF SubInit
<1>2. /\ IdleHook \in [pc : HookPC, ev : Nat, status : {"active", "past_due", "canceled"}]
      /\ IdleHook.pc = "idle"
  BY DEF IdleHook, HookPC
<1>3. outbox \in Seq(Event) /\ DOMAIN outbox = {}
  BY DEF SubInit
<1>4. plan \in [Products -> [st : {"none", "active", "past_due", "canceled"}, period : 0 .. MaxPeriods]]
  BY DEF SubInit
<1>5. granted \in [Payments -> Nat] /\ \A pay \in Payments : granted[pay] = 0
  BY DEF SubInit
<1>6. SubTypeOK
  <2>1. /\ hook \in [Hooks -> [pc : HookPC, ev : Nat, status : {"active", "past_due", "canceled"}]]
        /\ \A h \in Hooks : hook[h].pc = "idle"
    BY <1>2 DEF SubInit
  <2>2. columns \in [status : {"none", "active", "past_due", "canceled"},
                     plan : {"none", "creator", "credits"}, unlimited : BOOLEAN]
    BY DEF SubInit
  <2>3. /\ customer \in Customers /\ answered \subseteq DOMAIN outbox /\ withheld \subseteq Payments
        /\ sessions \subseteq {"checkout", "invoice"} \X Payments
        /\ referral \in {"pending", "rewarded"} /\ rewards \in Nat
    BY DEF SubInit
  <2>4. mishaps \in 0 .. customer.mishaps
    BY <1>1 DEF SubInit
  <2>5. failed \in BOOLEAN
    BY DEF SubInit
  <2> QED BY <1>3, <1>4, <1>5, <2>1, <2>2, <2>3, <2>4, <2>5 DEF SubTypeOK
<1>7. EventsTrue /\ KeysHeld
  BY <1>3, <1>5 DEF SubInit, EventsTrue, KeysHeld
<1>8. \A h \in Hooks : HookReady(h)
  BY <1>2 DEF SubInit, HookReady
<1>9. PaymentNotLost
  BY DEF SubInit, PaymentNotLost, WasPaid, Payments
<1> QED BY <1>6, <1>7, <1>8, <1>9 DEF WebhookInv, SubInit

LEMMA SubStep ==
  ASSUME WebhookInv, [SubNext]_subVars
  PROVE  WebhookInv' /\ (PaymentNotLost => PaymentNotLost')
<1>1. ASSUME NEW p \in Products, Pay(p) \/ Renew(p) \/ RenewalFails(p) \/ End(p)
      PROVE  WebhookInv' /\ (PaymentNotLost => PaymentNotLost')
  BY <1>1, StripeKeeps
<1>2. ASSUME NEW h \in Hooks, Deliver(h)
      PROVE  WebhookInv' /\ (PaymentNotLost => PaymentNotLost')
  <2>1. PICK i \in DOMAIN outbox : Take(h, i)
    BY <1>2 DEF Deliver, Unanswered
  <2>2. UNCHANGED <<customer, plan, outbox, books, failed>> /\ mishaps' \in 0 .. customer.mishaps
    BY <1>2 DEF Deliver, troubles, WebhookInv, SubTypeOK
  <2> QED BY <2>1, <2>2, TakeKeeps
<1>3. ASSUME NEW h \in Hooks, Repeat(h)
      PROVE  WebhookInv' /\ (PaymentNotLost => PaymentNotLost')
  <2>1. PICK i \in DOMAIN outbox : Take(h, i)
    BY <1>3 DEF Repeat, WebhookInv, SubTypeOK
  <2>2. UNCHANGED <<customer, plan, outbox, books, failed>> /\ mishaps' \in 0 .. customer.mishaps
    BY <1>3, MishapTypes DEF Repeat, WebhookInv
  <2> QED BY <2>1, <2>2, TakeKeeps
<1>4. ASSUME NEW h \in Hooks, HookStep(h)
      PROVE  WebhookInv' /\ (PaymentNotLost => PaymentNotLost')
  BY <1>4, HookKeeps
<1>5. CASE RestartHooks
  BY <1>5, RestartKeeps
<1>6. CASE UNCHANGED subVars
  <2>1. /\ UNCHANGED <<customer, plan, outbox, answered, hook>>
        /\ UNCHANGED <<sessions, columns, referral, granted, rewards, withheld, failed, mishaps>>
    BY <1>6 DEF subVars, stripe, books, troubles
  <2>2. SubTypeOK' /\ EventsTrue' /\ KeysHeld'
    BY <2>1 DEF WebhookInv, SubTypeOK, EventsTrue, KeysHeld, WasPaid, PaymentOf, Key
  <2>3. \A h \in Hooks : HookReady(h)'
    BY <2>1, OthersReady
  <2> QED BY <2>1, <2>2, <2>3, NoneAnswered DEF WebhookInv
<1> QED BY <1>1, <1>2, <1>3, <1>4, <1>5, <1>6 DEF SubNext

--------------------------------------------------------------------------------
\* The row of a customer with one subscription

\* The last that Stripe told of a subscription's status.
ToldOf(p, i) == outbox[i].type = "changed" /\ outbox[i].of = p
LastTold(p, i) ==
  /\ i \in DOMAIN outbox /\ ToldOf(p, i)
  /\ \A k \in DOMAIN outbox : k > i => ~ToldOf(p, k)

\* It is what Stripe has; a checkout told of after it is of an active one.
StatusTold ==
  /\ \A p \in Subscribed : plan[p].st # "none" => \E i \in DOMAIN outbox : LastTold(p, i)
  /\ \A p \in Products, i \in DOMAIN outbox : LastTold(p, i) =>
       /\ outbox[i].status = plan[p].st
       /\ \A k \in DOMAIN outbox :
            k > i /\ outbox[k].type = "checkout" /\ outbox[k].of = p => plan[p].st = "active"

\* One handler at a time, with the oldest event that is not answered.
OneByOne ==
  customer.inOrder =>
    /\ \A h \in Hooks : hook[h].pc # "idle" =>
         /\ hook[h].ev \in Unanswered /\ \A k \in Unanswered : hook[h].ev <= k
         /\ \A g \in Hooks : hook[g].pc # "idle" => g = h
    /\ \A i \in answered, k \in DOMAIN outbox : k <= i => k \in answered

\* What a handler retrieved has been overtaken only by what is still to come.
Retrieved ==
  \A h \in Hooks :
    /\ hook[h].pc \in {"lookup", "grant", "award"} => About(h).type # "changed"
    /\ hook[h].pc = "save" =>
         \A i \in DOMAIN outbox : LastTold(About(h).of, i) /\ i < hook[h].ev => hook[h].status = "active"

\* The row shows what was told last, once that is answered.
Sole(p) == plan[p].st # "none" /\ \A q \in Subscribed \ {p} : plan[q].st = "none"
Mirrors(p) == /\ columns.status = plan[p].st
              /\ columns.unlimited <=> plan[p].st = "active" /\ Kind[p] = "creator"
ToldShown ==
  customer.inOrder /\ ~failed =>
    \A p \in Subscribed, i \in answered : Sole(p) /\ LastTold(p, i) => Mirrors(p)

MirrorInv == StatusTold /\ OneByOne /\ Retrieved /\ ToldShown

\* Stripe tells the new status first, and of a checkout while it is active.
LEMMA ToldMirrors ==
  ASSUME WebhookInv, MirrorInv, NEW p \in Products,
         NEW row, row.st # "none", NEW events \in Seq(Event), Told(p, row, events),
         \A k \in DOMAIN events :
           /\ events[k].of = p
           /\ events[k].type = "checkout" => row.st = "active"
           /\ events[k].type = "changed" => p \in Subscribed /\ k = 1,
         p \in Subscribed =>
           1 \in DOMAIN events /\ events[1].type = "changed" /\ events[1].status = row.st
  PROVE  MirrorInv'
<1> DEFINE n == Len(outbox)
           m == Len(events)
<1>1. /\ outbox \in Seq(Event)
      /\ plan \in [Products -> [st : {"none", "active", "past_due", "canceled"}, period : 0 .. MaxPeriods]]
      /\ answered \subseteq DOMAIN outbox
      /\ \A h \in Hooks : hook[h].pc # "idle" => hook[h].ev \in DOMAIN outbox
      /\ \A i \in DOMAIN outbox : outbox[i].type # "checkout" => outbox[i].of \in Subscribed
  BY DEF WebhookInv, SubTypeOK, EventsTrue
<1>2. /\ outbox' = outbox \o events
      /\ UNCHANGED <<customer, answered, columns, hook, failed>>
  BY DEF Told, StripeSends, Apart, books, troubles
<1>3. /\ n \in Nat /\ m \in Nat
      /\ DOMAIN outbox = 1 .. n /\ DOMAIN events = 1 .. m /\ DOMAIN outbox' = 1 .. n + m
      /\ \A i \in 1 .. n : outbox'[i] = outbox[i]
      /\ \A i \in 1 .. n + m : i > n => i - n \in DOMAIN events /\ outbox'[i] = events[i - n]
  BY <1>1, <1>2
<1> HIDE DEF n, m
<1>4. \A q \in Products : plan'[q] = IF q = p THEN row ELSE plan[q]
  BY <1>1 DEF Told
<1>5. ASSUME NEW q, q # p, NEW i
      PROVE  LastTold(q, i)' <=> LastTold(q, i)
  <2>1. \A k \in 1 .. n + m : ToldOf(q, k)' <=> k \in 1 .. n /\ ToldOf(q, k)
    BY <1>3, <1>5 DEF ToldOf
  <2> QED BY <1>3, <2>1 DEF LastTold
<1>6. ASSUME p \in Subscribed
      PROVE  \A i : LastTold(p, i)' <=> i = n + 1
  <2>1. ASSUME NEW i, i = n + 1
        PROVE  i \in DOMAIN outbox' /\ ToldOf(p, i)'
    <3>1. i \in 1 .. n + m /\ i > n /\ i - n = 1
      BY <1>3, <1>6, <2>1
    <3>2. outbox'[i] = events[1]
      BY <1>3, <3>1
    <3>3. events[1].type = "changed" /\ events[1].of = p
      BY <1>6
    <3> QED BY <1>3, <3>1, <3>2, <3>3 DEF ToldOf
  <2>2. ASSUME NEW k \in DOMAIN outbox', k > n + 1
        PROVE  ~ToldOf(p, k)'
    <3>1. k - n \in DOMAIN events /\ outbox'[k] = events[k - n] /\ k - n # 1
      BY <1>3, <2>2
    <3> QED BY <3>1 DEF ToldOf
  <2>3. n + 1 \in Nat /\ DOMAIN outbox' \subseteq Nat
    BY <1>3
  <2> QED BY <2>1, <2>2, <2>3 DEF LastTold
<1>7. ASSUME p \notin Subscribed, NEW i
      PROVE  ~LastTold(p, i)'
  <2>1. ASSUME NEW k \in DOMAIN outbox', outbox'[k].type = "changed"
        PROVE  outbox'[k].of # p
    <3>1. CASE k <= n
      BY <1>1, <1>3, <1>7, <2>1, <3>1
    <3>2. CASE k > n
      BY <1>3, <1>7, <2>1, <3>2
    <3> QED BY <1>3, <3>1, <3>2
  <2> QED BY <2>1 DEF LastTold, ToldOf
<1>8. StatusTold'
  <2>1. ASSUME NEW q \in Subscribed, plan'[q].st # "none"
        PROVE  \E i \in DOMAIN outbox' : LastTold(q, i)'
    <3>1. CASE q = p
      BY <1>3, <1>6, <2>1, <3>1 DEF LastTold
    <3>2. CASE q # p
      <4>1. PICK i \in DOMAIN outbox : LastTold(q, i)
        BY <1>4, <2>1, <3>2 DEF MirrorInv, StatusTold, Subscribed
      <4> QED BY <1>3, <1>5, <3>2, <4>1 DEF LastTold
    <3> QED BY <3>1, <3>2
  <2>2. ASSUME NEW q \in Products, NEW i \in DOMAIN outbox', LastTold(q, i)'
        PROVE  /\ outbox'[i].status = plan'[q].st
               /\ \A k \in DOMAIN outbox' :
                    k > i /\ outbox'[k].type = "checkout" /\ outbox'[k].of = q => plan'[q].st = "active"
    <3>1. CASE q = p
      <4>1. p \in Subscribed /\ i = n + 1
        BY <1>6, <1>7, <2>2, <3>1
      <4>2. outbox'[i].status = row.st
        BY <1>3, <4>1
      <4> QED BY <1>3, <1>4, <3>1, <4>1, <4>2
    <3>2. CASE q # p
      <4>1. LastTold(q, i) /\ i \in 1 .. n
        BY <1>3, <1>5, <2>2, <3>2 DEF LastTold
      <4>2. ASSUME NEW k \in DOMAIN outbox', outbox'[k].of = q
            PROVE  k \in 1 .. n /\ outbox'[k] = outbox[k]
        <5>1. k <= n
          BY <1>3, <3>2, <4>2
        <5> QED BY <1>3, <5>1
      <4> QED BY <1>3, <1>4, <3>2, <4>1, <4>2 DEF MirrorInv, StatusTold
    <3> QED BY <3>1, <3>2
  <2> QED BY <2>1, <2>2 DEF StatusTold
<1>9. OneByOne'
  <2>1. \A k \in Unanswered' : k \in Unanswered \/ k > n
    BY <1>2, <1>3 DEF Unanswered
  <2>2. Unanswered \subseteq Unanswered' /\ Unanswered' \subseteq Nat
    BY <1>2, <1>3 DEF Unanswered
  <2>3. SUFFICES ASSUME customer.inOrder
                 PROVE  /\ \A h \in Hooks : hook[h].pc # "idle" =>
                             /\ hook[h].ev \in Unanswered' /\ \A k \in Unanswered' : hook[h].ev <= k
                             /\ \A g \in Hooks : hook[g].pc # "idle" => g = h
                        /\ \A i \in answered, k \in DOMAIN outbox' : k <= i => k \in answered
    BY <1>2 DEF OneByOne
  <2>4. ASSUME NEW h \in Hooks, hook[h].pc # "idle"
        PROVE  /\ hook[h].ev \in Unanswered' /\ \A k \in Unanswered' : hook[h].ev <= k
               /\ \A g \in Hooks : hook[g].pc # "idle" => g = h
    <3>1. hook[h].ev \in Unanswered /\ \A k \in Unanswered : hook[h].ev <= k
      BY <2>3, <2>4 DEF MirrorInv, OneByOne
    <3>2. hook[h].ev \in 1 .. n
      BY <1>1, <1>3, <2>4
    <3> QED BY <1>3, <2>1, <2>2, <2>3, <2>4, <3>1, <3>2 DEF MirrorInv, OneByOne
  <2>5. ASSUME NEW i \in answered, NEW k \in DOMAIN outbox', k <= i
        PROVE  k \in answered
    <3>1. k \in DOMAIN outbox
      BY <1>1, <1>3, <2>5
    <3> QED BY <2>3, <2>5, <3>1 DEF MirrorInv, OneByOne
  <2> QED BY <2>4, <2>5
<1>10. Retrieved'
  <2>1. ASSUME NEW h \in Hooks, hook[h].pc # "idle"
        PROVE  hook[h].ev \in 1 .. n /\ About(h)' = About(h)
    BY <1>1, <1>2, <1>3, <2>1 DEF About
  <2>2. ASSUME NEW h \in Hooks, hook[h].pc = "save",
               NEW i \in DOMAIN outbox', LastTold(About(h).of, i)', i < hook[h].ev
        PROVE  hook[h].status = "active"
    <3>1. hook[h].ev \in 1 .. n /\ About(h)' = About(h)
      BY <2>1, <2>2
    <3>2. i \in 1 .. n /\ i # n + 1
      BY <1>3, <2>2, <3>1
    <3> DEFINE q == About(h).of
    <3>3. LastTold(q, i)'
      BY <2>2, <3>1 DEF LastTold, ToldOf
    <3>4. q # p /\ LastTold(q, i)
      BY <1>5, <1>6, <1>7, <3>1, <3>2, <3>3
    <3> QED BY <1>3, <2>2, <3>2, <3>4 DEF MirrorInv, Retrieved
  <2> QED BY <1>2, <2>1, <2>2 DEF MirrorInv, Retrieved
<1>11. ToldShown'
  <2>1. SUFFICES ASSUME customer.inOrder, ~failed, NEW q \in Subscribed, NEW i \in answered,
                        Sole(q)', LastTold(q, i)'
                 PROVE  Mirrors(q)'
    BY <1>2 DEF ToldShown
  <2>2. i # n + 1
    BY <1>1, <1>3
  <2>3. q # p /\ LastTold(q, i)
    BY <1>5, <1>6, <2>1, <2>2
  <2>4. p \notin Subscribed
    BY <1>4, <2>1, <2>3 DEF Sole, Subscribed
  <2>5. Sole(q) /\ plan'[q] = plan[q]
    BY <1>4, <2>1, <2>3, <2>4 DEF Sole, Subscribed
  <2> QED BY <1>2, <2>1, <2>3, <2>5 DEF MirrorInv, ToldShown, Mirrors
<1> QED BY <1>8, <1>9, <1>10, <1>11 DEF MirrorInv

LEMMA StripeMirrors ==
  ASSUME WebhookInv, MirrorInv, NEW p \in Products,
         Pay(p) \/ Renew(p) \/ RenewalFails(p) \/ End(p)
  PROVE  MirrorInv'
<1>1. /\ plan[p] \in [st : {"none", "active", "past_due", "canceled"}, period : 0 .. MaxPeriods]
      /\ plan[p] = [st |-> plan[p].st, period |-> plan[p].period]
  BY DEF WebhookInv, SubTypeOK
<1>2. /\ Checkout(p) \in Event /\ Invoice(p, 0) \in Event
      /\ \A st \in {"active", "past_due", "canceled"} : Changed(p, st) \in Event
      /\ \A n \in 0 .. MaxPeriods : Invoice(p, n) \in Event
  BY DEF Checkout, Invoice, Changed, Event
<1>3. CASE Pay(p)
  <2> DEFINE row == [plan[p] EXCEPT !.st = "active"]
             events == IF p \in Subscribed THEN <<Changed(p, "active"), Invoice(p, 0), Checkout(p)>>
                                            ELSE <<Checkout(p)>>
  <2>1. row.st = "active"
    BY <1>1
  <2>2. events \in Seq(Event) /\ Told(p, row, events)
    <3>1. events \in Seq(Event)
      BY <1>2
    <3>2. plan' = [plan EXCEPT ![p] = row] /\ StripeSends(events) /\ Apart
      BY <1>3 DEF Pay
    <3> QED BY <3>1, <3>2 DEF Told
  <2>3. \A k \in DOMAIN events :
          /\ events[k].of = p
          /\ events[k].type = "changed" => p \in Subscribed /\ k = 1
    BY DEF Checkout, Invoice, Changed
  <2>4. p \in Subscribed =>
          1 \in DOMAIN events /\ events[1].type = "changed" /\ events[1].status = "active"
    BY DEF Changed
  <2> HIDE DEF row, events
  <2> QED BY <2>1, <2>2, <2>3, <2>4, ToldMirrors
<1>4. CASE Renew(p)
  <2> DEFINE row == [st |-> "active", period |-> plan[p].period + 1]
             events == <<Changed(p, "active"), Invoice(p, plan[p].period + 1)>>
  <2>1. p \in Subscribed /\ plan[p].period + 1 \in 0 .. MaxPeriods
    BY <1>1, <1>4 DEF Renew, PeriodOver
  <2>2. row.st = "active" /\ events \in Seq(Event) /\ Told(p, row, events)
    BY <1>2, <1>4, <2>1 DEF Renew, Told
  <2>3. /\ \A k \in DOMAIN events : events[k].of = p /\ (events[k].type = "changed" => k = 1)
        /\ 1 \in DOMAIN events /\ events[1].type = "changed" /\ events[1].status = "active"
    BY DEF Invoice, Changed
  <2> HIDE DEF row, events
  <2> QED BY <2>1, <2>2, <2>3, ToldMirrors
<1>5. CASE RenewalFails(p) \/ End(p)
  <2>1. PICK st \in {"past_due", "canceled"} :
          /\ plan' = [plan EXCEPT ![p].st = st]
          /\ StripeSends(<<Changed(p, st)>>) /\ Apart /\ p \in Subscribed
    BY <1>5 DEF RenewalFails, End, PeriodOver
  <2> DEFINE row == [plan[p] EXCEPT !.st = st]
             events == <<Changed(p, st)>>
  <2>2. row.st = st /\ st # "none" /\ events \in Seq(Event) /\ Told(p, row, events)
    BY <1>1, <1>2, <2>1 DEF Told
  <2>3. /\ \A k \in DOMAIN events : events[k].of = p /\ events[k].type = "changed" /\ k = 1
        /\ 1 \in DOMAIN events /\ events[1].status = st
    BY DEF Changed
  <2> HIDE DEF row, events
  <2> QED BY <2>1, <2>2, <2>3, ToldMirrors
<1> QED BY <1>3, <1>4, <1>5

\* Handlers leave Stripe's books alone.
LEMMA NothingTold ==
  ASSUME StatusTold, UNCHANGED <<plan, outbox>>
  PROVE  StatusTold' /\ \A p, i : LastTold(p, i)' <=> LastTold(p, i)
BY DEF StatusTold, LastTold, ToldOf

LEMMA TakeMirrors ==
  ASSUME WebhookInv, MirrorInv, NEW h \in Hooks, HookAt(h, "idle"),
         NEW i \in DOMAIN outbox, customer.inOrder => i \in Unanswered /\ MayDeliver(i),
         Take(h, i), UNCHANGED <<customer, plan, outbox, books, failed>>
  PROVE  MirrorInv'
<1> DEFINE pc == FirstStep(outbox[i])
<1>1. SubTypeOK /\ EventsTrue /\ UNCHANGED columns /\ DOMAIN hook = Hooks
  BY DEF WebhookInv, SubTypeOK, books
<1>2. /\ pc # "save" /\ pc # "award"
      /\ pc = "idle" => outbox[i].type = "invoice"
      /\ pc = "lookup" => outbox[i].type = "invoice"
      /\ pc = "grant" => outbox[i].type # "changed"
  BY <1>1, FirstStepRight DEF KeyOf, Key
<1> HIDE DEF pc
<1>3. \/ pc = "idle" /\ answered' = answered \cup {i} /\ UNCHANGED hook
      \/ pc # "idle" /\ hook' = [hook EXCEPT ![h] = [pc |-> pc, ev |-> i, status |-> "active"]] /\ UNCHANGED answered
  BY DEF Take, pc
<1>4. \A q \in Hooks : hook'[q] = hook[q]
                       \/ (q = h /\ pc # "idle" /\ hook'[q] = [pc |-> pc, ev |-> i, status |-> "active"])
  <2>1. hook' = hook \/ (pc # "idle" /\ hook' = [hook EXCEPT ![h] = [pc |-> pc, ev |-> i, status |-> "active"]])
    BY <1>3
  <2> QED BY <1>1, <2>1
<1>5. i \in Nat /\ DOMAIN outbox \subseteq Nat
  BY <1>1 DEF SubTypeOK
<1>6. StatusTold' /\ \A p, k : LastTold(p, k)' <=> LastTold(p, k)
  BY NothingTold DEF MirrorInv
<1>7. OneByOne'
  <2>1. SUFFICES ASSUME customer.inOrder
                 PROVE  OneByOne'
    BY DEF OneByOne
  <2>2. /\ i \in Unanswered /\ \A k \in Unanswered : i <= k
        /\ \A q \in Hooks : hook[q].pc = "idle"
        /\ \A j \in answered, k \in DOMAIN outbox : k <= j => k \in answered
    BY <2>1 DEF MayDeliver, HookAt, MirrorInv, OneByOne
  <2>3. CASE pc = "idle"
    <3>1. \A j \in answered', k \in DOMAIN outbox : k <= j => k \in answered'
      <4>1. ASSUME NEW k \in DOMAIN outbox, k <= i
            PROVE  k \in answered'
        BY <1>3, <1>5, <2>2, <2>3, <4>1 DEF Unanswered
      <4> QED BY <1>3, <2>2, <2>3, <4>1
    <3> QED BY <1>3, <2>2, <2>3, <3>1 DEF OneByOne
  <2>4. CASE pc # "idle"
    <3>1. UNCHANGED answered /\ UNCHANGED Unanswered
      BY <1>3, <2>4 DEF Unanswered
    <3>2. \A q \in Hooks : hook'[q].pc # "idle" => q = h /\ hook'[q].ev = i
      BY <1>4, <2>2
    <3> QED BY <2>2, <3>1, <3>2 DEF OneByOne
  <2> QED BY <2>3, <2>4
<1>8. Retrieved'
  <2>1. ASSUME NEW q \in Hooks
        PROVE  /\ hook'[q].pc \in {"lookup", "grant", "award"} => About(q)'.type # "changed"
               /\ hook'[q].pc = "save" =>
                    \A k \in DOMAIN outbox' :
                      LastTold(About(q).of, k)' /\ k < hook'[q].ev => hook'[q].status = "active"
    <3>1. CASE hook'[q] = hook[q]
      BY <1>6, <3>1 DEF MirrorInv, Retrieved, About, LastTold, ToldOf
    <3>2. CASE pc # "idle" /\ hook'[q] = [pc |-> pc, ev |-> i, status |-> "active"]
      BY <1>2, <3>2 DEF About
    <3> QED BY <1>4, <3>1, <3>2
  <2> QED BY <2>1 DEF Retrieved
<1>9. ToldShown'
  <2>1. \A p, k : k \in answered' /\ LastTold(p, k) => k \in answered
    BY <1>2, <1>3 DEF LastTold, ToldOf
  <2> QED BY <1>1, <1>6, <2>1 DEF MirrorInv, ToldShown, Sole, Mirrors
<1> QED BY <1>6, <1>7, <1>8, <1>9 DEF MirrorInv

\* What a handler's step does to the row, and when.
LEMMA HookStepDoes ==
  ASSUME WebhookInv, NEW h \in Hooks, HookStep(h)
  PROVE  LET e == About(h)
         IN /\ hook[h].pc # "idle" /\ UNCHANGED <<customer, plan, outbox>> /\ (failed => failed')
            /\ \A q \in Hooks \ {h} : hook'[q] = hook[q]
            /\ \/ hook'[h].pc # "idle" /\ hook'[h].ev = hook[h].ev /\ UNCHANGED answered
               \/ hook'[h].pc = "idle" /\ answered' = answered \cup {hook[h].ev}
            /\ hook'[h].pc = "save" =>
                 e.type = "checkout" /\ hook'[h].status \in {plan[e.of].st, "active"}
            /\ hook'[h].pc \in {"lookup", "grant", "award"} =>
                 e.type = "checkout" \/ hook[h].pc \in {"lookup", "grant", "award"}
            /\ \/ failed'
               \/ hook[h].pc \in {"retrieve", "lookup", "grant", "award"} /\ UNCHANGED columns
               \/ hook[h].pc = "save" /\ Mirrored(e.of, hook[h].status) /\ UNCHANGED answered
               \/ hook[h].pc = "write" /\ Mirrored(e.of, e.status)
<1>1. SubTypeOK /\ HookReady(h) /\ DOMAIN hook = Hooks
  BY DEF WebhookInv, SubTypeOK
<1>2. StatementFails => failed'
  BY DEF StatementFails
<1>3. ASSUME NEW pc \in HookPC, HookGoto(h, pc)
      PROVE  /\ \A q \in Hooks \ {h} : hook'[q] = hook[q]
             /\ hook'[h].pc = pc /\ UNCHANGED answered
             /\ pc # "idle" => hook'[h].ev = hook[h].ev
  BY <1>1, <1>3, GotoMoves DEF Moved
<1>4. ASSUME hook[h].pc # "idle", Answer(h)
      PROVE  /\ \A q \in Hooks \ {h} : hook'[q] = hook[q]
             /\ hook'[h].pc = "idle" /\ answered' = answered \cup {hook[h].ev}
  BY <1>1, <1>4, AnswerMoves DEF Moved
<1>5. CASE Retrieve(h)
  <2>1. /\ hook[h].pc = "retrieve" /\ UNCHANGED <<customer, plan, outbox, answered, columns, failed>>
        /\ About(h).type = "checkout"
    BY <1>1, <1>5 DEF Retrieve, HookAt, HookReady, stripe, books, troubles
  <2>2. PICK st \in {plan[About(h).of].st, "active"} :
          hook' = [hook EXCEPT ![h] = [pc |-> "save", ev |-> hook[h].ev, status |-> st]]
    BY <1>5 DEF Retrieve
  <2>3. /\ hook'[h] = [pc |-> "save", ev |-> hook[h].ev, status |-> st]
        /\ \A q \in Hooks \ {h} : hook'[q] = hook[q]
    BY <1>1, <2>2
  <2> QED BY <2>1, <2>2, <2>3
<1>6. CASE Save(h)
  <2>1. /\ hook[h].pc = "save" /\ UNCHANGED <<customer, plan, outbox>>
        /\ About(h).type = "checkout"
    BY <1>1, <1>6 DEF Save, HookAt, HookReady
  <2>2. CASE /\ HookGoto(h, IF Kind[About(h).of] = "creator" THEN "grant" ELSE "award")
             /\ Mirrored(About(h).of, hook[h].status) /\ UNCHANGED troubles
    <3>1. PICK pc \in {"grant", "award"} : HookGoto(h, pc)
      BY <2>2
    <3>2. /\ \A q \in Hooks \ {h} : hook'[q] = hook[q]
          /\ hook'[h].pc = pc /\ UNCHANGED answered /\ hook'[h].ev = hook[h].ev
      BY <1>3, <3>1 DEF HookPC
    <3> QED BY <2>1, <2>2, <3>2 DEF troubles
  <2>3. CASE StatementFails /\ Answer(h)
    BY <1>2, <1>4, <2>1, <2>3
  <2> QED BY <1>6, <2>2, <2>3 DEF Save
<1>7. CASE Write(h)
  <2>1. /\ hook[h].pc = "write" /\ UNCHANGED <<customer, plan, outbox>> /\ Answer(h)
        /\ \/ failed'
           \/ Mirrored(About(h).of, About(h).status) /\ UNCHANGED failed
    BY <1>2, <1>7 DEF Write, HookAt, troubles
  <2> QED BY <1>4, <2>1
<1>8. CASE Lookup(h)
  <2>1. /\ hook[h].pc = "lookup" /\ UNCHANGED <<customer, plan, outbox, columns>>
        /\ failed' \/ UNCHANGED failed
        /\ HookGoto(h, "grant") \/ Answer(h)
    BY <1>2, <1>8 DEF Lookup, HookAt, troubles
  <2> QED BY <1>3, <1>4, <2>1 DEF HookPC
<1>9. CASE Grant(h)
  <2>1. /\ hook[h].pc = "grant" /\ UNCHANGED <<customer, plan, outbox, columns>>
        /\ failed' \/ UNCHANGED failed
        /\ HookGoto(h, "award") \/ Answer(h)
    BY <1>2, <1>9 DEF Grant, HookAt, troubles
  <2> QED BY <1>3, <1>4, <2>1 DEF HookPC
<1>10. CASE Award(h)
  <2>1. /\ hook[h].pc = "award" /\ UNCHANGED <<customer, plan, outbox, columns>>
        /\ failed' \/ UNCHANGED failed
        /\ Answer(h)
    BY <1>2, <1>10 DEF Award, HookAt, troubles
  <2> QED BY <1>4, <2>1
<1> QED BY <1>5, <1>6, <1>7, <1>8, <1>9, <1>10 DEF HookStep

\* What a handler writes is what was told last, unless more is to come.
LEMMA HookMirrors ==
  ASSUME WebhookInv, MirrorInv, NEW h \in Hooks, HookStep(h)
  PROVE  MirrorInv'
<1> DEFINE e == About(h)
           ev == hook[h].ev
<1>1. /\ hook[h].pc # "idle" /\ UNCHANGED <<customer, plan, outbox>> /\ (failed => failed')
      /\ \A q \in Hooks \ {h} : hook'[q] = hook[q]
      /\ \/ hook'[h].pc # "idle" /\ hook'[h].ev = ev /\ UNCHANGED answered
         \/ hook'[h].pc = "idle" /\ answered' = answered \cup {ev}
      /\ hook'[h].pc = "save" => e.type = "checkout" /\ hook'[h].status \in {plan[e.of].st, "active"}
      /\ hook'[h].pc \in {"lookup", "grant", "award"} =>
           e.type = "checkout" \/ hook[h].pc \in {"lookup", "grant", "award"}
      /\ \/ failed'
         \/ hook[h].pc \in {"retrieve", "lookup", "grant", "award"} /\ UNCHANGED columns
         \/ hook[h].pc = "save" /\ Mirrored(e.of, hook[h].status) /\ UNCHANGED answered
         \/ hook[h].pc = "write" /\ Mirrored(e.of, e.status)
  BY HookStepDoes
<1>2. /\ SubTypeOK /\ HookReady(h) /\ EventsTrue /\ DOMAIN outbox \subseteq Nat
      /\ ev \in DOMAIN outbox /\ e = outbox[ev] /\ answered \subseteq DOMAIN outbox
  BY <1>1 DEF WebhookInv, SubTypeOK, About
<1>3. /\ e.of \in Products /\ plan[e.of].st # "none"
      /\ e.type # "checkout" => e.of \in Subscribed
      /\ hook[h].pc \in {"retrieve", "save"} => e.type = "checkout" /\ e.of \in Subscribed
      /\ hook[h].pc = "write" => e.type = "changed"
      /\ hook[h].pc \in {"lookup", "grant", "award"} => e.type # "changed"
  <2>1. e.of \in Products /\ plan[e.of].st # "none" /\ (e.type # "checkout" => e.of \in Subscribed)
    BY <1>2, EventAt DEF EventsTrue, WasPaid, PaymentOf
  <2> QED BY <1>2, <2>1 DEF HookReady, MirrorInv, Retrieved
<1>4. StatusTold' /\ \A p, k : LastTold(p, k)' <=> LastTold(p, k)
  BY <1>1, NothingTold DEF MirrorInv
<1>5. ASSUME customer.inOrder
      PROVE  /\ ev \in Unanswered /\ \A k \in Unanswered : ev <= k
             /\ \A q \in Hooks : hook[q].pc # "idle" => q = h
             /\ \A i \in answered, k \in DOMAIN outbox : k <= i => k \in answered
             /\ \A i \in answered : i < ev
  <2>1. /\ ev \in Unanswered /\ \A k \in Unanswered : ev <= k
        /\ \A q \in Hooks : hook[q].pc # "idle" => q = h
        /\ \A i \in answered, k \in DOMAIN outbox : k <= i => k \in answered
    BY <1>1, <1>5 DEF MirrorInv, OneByOne
  <2>2. ASSUME NEW i \in answered
        PROVE  i < ev
    <3>1. i \in Nat /\ ev \in Nat /\ ~(ev <= i)
      BY <1>2, <2>1 DEF Unanswered
    <3> HIDE DEF ev
    <3> QED BY <3>1
  <2> QED BY <2>1, <2>2
<1>6. OneByOne'
  <2>1. SUFFICES ASSUME customer.inOrder
                 PROVE  OneByOne'
    BY <1>1 DEF OneByOne
  <2>2. /\ ev \in Unanswered /\ \A k \in Unanswered : ev <= k
        /\ \A q \in Hooks \ {h} : hook'[q].pc = "idle"
        /\ \A i \in answered, k \in DOMAIN outbox : k <= i => k \in answered
    BY <1>1, <1>5, <2>1
  <2>3. CASE hook'[h].pc # "idle" /\ hook'[h].ev = ev /\ UNCHANGED answered
    BY <1>1, <2>2, <2>3 DEF OneByOne, Unanswered
  <2>4. CASE hook'[h].pc = "idle" /\ answered' = answered \cup {ev}
    <3>1. ASSUME NEW k \in DOMAIN outbox, k <= ev
          PROVE  k \in answered'
      <4>1. CASE k \in answered
        BY <2>4, <4>1
      <4>2. CASE k \notin answered
        <5>1. ev <= k /\ k \in Nat /\ ev \in Nat
          BY <1>2, <2>2, <4>2 DEF Unanswered
        <5>2. k = ev
          <6> HIDE DEF ev
          <6> QED BY <3>1, <5>1
        <5> QED BY <2>4, <5>2
      <4> QED BY <4>1, <4>2
    <3>2. \A q \in Hooks : hook'[q].pc = "idle"
      BY <2>2, <2>4
    <3>3. \A i \in answered', k \in DOMAIN outbox : k <= i => k \in answered'
      BY <2>2, <2>4, <3>1
    <3> QED BY <1>1, <3>2, <3>3 DEF OneByOne
  <2> QED BY <1>1, <2>3, <2>4
<1>7. Retrieved'
  <2>1. ASSUME NEW q \in Hooks
        PROVE  /\ hook'[q].pc \in {"lookup", "grant", "award"} => About(q)'.type # "changed"
               /\ hook'[q].pc = "save" =>
                    \A k \in DOMAIN outbox' :
                      LastTold(About(q).of, k)' /\ k < hook'[q].ev => hook'[q].status = "active"
    <3>1. CASE q # h
      <4>1. hook'[q] = hook[q]
        BY <1>1, <3>1
      <4> QED BY <1>1, <4>1 DEF MirrorInv, Retrieved, About, LastTold, ToldOf
    <3>2. CASE q = h
      <4>1. hook'[h].pc # "idle" => hook'[h].ev = ev /\ About(h)' = e
        BY <1>1, <1>2 DEF About
      <4>2. hook'[h].pc \in {"lookup", "grant", "award"} => About(h)'.type # "changed"
        BY <1>1, <1>3, <4>1
      <4>3. ASSUME hook'[h].pc = "save", NEW k \in DOMAIN outbox', LastTold(About(h).of, k)', k < hook'[h].ev
            PROVE  hook'[h].status = "active"
        <5>1. /\ e.type = "checkout" /\ k \in DOMAIN outbox /\ k < ev
              /\ hook'[h].status \in {plan[e.of].st, "active"}
          BY <1>1, <4>1, <4>3
        <5>2. LastTold(e.of, k)
          BY <1>1, <4>1, <4>3 DEF LastTold, ToldOf
        <5>3. plan[e.of].st = "active"
          BY <1>2, <1>3, <5>1, <5>2 DEF MirrorInv, StatusTold
        <5> QED BY <5>1, <5>3
      <4> QED BY <3>2, <4>2, <4>3
    <3> QED BY <3>1, <3>2
  <2> QED BY <2>1 DEF Retrieved
<1>8. ToldShown'
  <2>1. SUFFICES ASSUME customer.inOrder, ~failed', NEW p \in Subscribed, NEW i \in answered',
                        Sole(p), LastTold(p, i)
                 PROVE  Mirrors(p)'
    BY <1>1, <1>4 DEF ToldShown, Sole
  <2>2. e.of \in Subscribed => e.of = p
    BY <1>3, <2>1 DEF Sole
  <2>3. i \in answered => i < ev /\ Mirrors(p)
    BY <1>1, <1>5, <2>1 DEF MirrorInv, ToldShown
  <2>4. i \in answered \/ (i = ev /\ answered' = answered \cup {ev})
    BY <1>1, <2>1
  <2>5. outbox[i].type = "changed" /\ outbox[i].of = p /\ outbox[i].status = plan[p].st
    BY <2>1 DEF LastTold, ToldOf, MirrorInv, StatusTold, Subscribed
  <2>6. CASE hook[h].pc \in {"retrieve", "lookup", "grant", "award"} /\ UNCHANGED columns
    <3>1. i \in answered
      BY <1>2, <1>3, <2>4, <2>5, <2>6
    <3> QED BY <1>1, <2>3, <2>6, <3>1 DEF Mirrors
  <2>7. CASE hook[h].pc = "save" /\ Mirrored(e.of, hook[h].status) /\ UNCHANGED answered
    <3>1. i \in answered /\ i < ev /\ e.of = p /\ e.type = "checkout"
      BY <1>3, <2>1, <2>2, <2>3, <2>7
    <3>2. hook[h].status = "active"
      BY <1>2, <2>1, <2>7, <3>1 DEF MirrorInv, Retrieved, LastTold
    <3>3. plan[p].st = "active"
      BY <1>2, <1>3, <2>1, <3>1 DEF MirrorInv, StatusTold, LastTold
    <3> QED BY <1>1, <2>7, <3>1, <3>2, <3>3 DEF Mirrors, Mirrored
  <2>8. CASE hook[h].pc = "write" /\ Mirrored(e.of, e.status)
    <3>1. e.type = "changed" /\ e.of = p
      BY <1>3, <2>2, <2>8
    <3>2. ~(i < ev)
      BY <1>2, <2>1, <3>1 DEF LastTold, ToldOf
    <3>3. e.status = plan[p].st
      BY <1>2, <2>3, <2>4, <2>5, <3>2
    <3> QED BY <1>1, <2>8, <3>1, <3>3 DEF Mirrors, Mirrored
  <2> QED BY <1>1, <2>1, <2>6, <2>7, <2>8
<1> QED BY <1>4, <1>6, <1>7, <1>8 DEF MirrorInv

LEMMA MirrorStep ==
  ASSUME WebhookInv, MirrorInv, [SubNext]_subVars
  PROVE  MirrorInv'
<1>1. ASSUME NEW p \in Products, Pay(p) \/ Renew(p) \/ RenewalFails(p) \/ End(p)
      PROVE  MirrorInv'
  BY <1>1, StripeMirrors
<1>2. ASSUME NEW h \in Hooks, Deliver(h)
      PROVE  MirrorInv'
  <2>1. PICK i \in DOMAIN outbox : i \in Unanswered /\ MayDeliver(i) /\ Take(h, i)
    BY <1>2 DEF Deliver, Unanswered
  <2>2. HookAt(h, "idle") /\ UNCHANGED <<customer, plan, outbox, books, failed>>
    BY <1>2 DEF Deliver, troubles
  <2> QED BY <2>1, <2>2, TakeMirrors
<1>3. ASSUME NEW h \in Hooks, Repeat(h)
      PROVE  MirrorInv'
  <2>1. PICK i \in DOMAIN outbox : Take(h, i)
    BY <1>3 DEF Repeat, WebhookInv, SubTypeOK
  <2>2. HookAt(h, "idle") /\ ~customer.inOrder /\ UNCHANGED <<customer, plan, outbox, books, failed>>
    BY <1>3 DEF Repeat
  <2> QED BY <2>1, <2>2, TakeMirrors
<1>4. ASSUME NEW h \in Hooks, HookStep(h)
      PROVE  MirrorInv'
  BY <1>4, HookMirrors
<1>5. CASE RestartHooks
  <2>1. /\ UNCHANGED <<customer, plan, outbox, answered, columns, failed>>
        /\ \A h \in Hooks : hook'[h].pc = "idle"
    BY <1>5 DEF RestartHooks, IdleHook, stripe, books
  <2>2. StatusTold' /\ \A p, k : LastTold(p, k)' <=> LastTold(p, k)
    BY <2>1, NothingTold DEF MirrorInv
  <2>3. OneByOne' /\ Retrieved'
    BY <2>1 DEF MirrorInv, OneByOne, Retrieved
  <2>4. ToldShown'
    BY <2>1, <2>2 DEF MirrorInv, ToldShown, Sole, Mirrors
  <2> QED BY <2>2, <2>3, <2>4 DEF MirrorInv
<1>6. CASE UNCHANGED subVars
  <2>1. UNCHANGED <<customer, plan, outbox, answered, columns, failed, hook>>
    BY <1>6 DEF subVars, stripe, books, troubles
  <2>2. StatusTold' /\ \A p, k : LastTold(p, k)' <=> LastTold(p, k)
    BY <2>1, NothingTold DEF MirrorInv
  <2>3. OneByOne'
    BY <2>1 DEF MirrorInv, OneByOne, Unanswered
  <2>4. Retrieved'
    BY <2>1 DEF MirrorInv, Retrieved, About, LastTold, ToldOf
  <2>5. ToldShown'
    BY <2>1, <2>2 DEF MirrorInv, ToldShown, Sole, Mirrors
  <2> QED BY <2>2, <2>3, <2>4, <2>5 DEF MirrorInv
<1> QED BY <1>1, <1>2, <1>3, <1>4, <1>5, <1>6 DEF SubNext

\* Once every event is answered, the last that was told is.
LEMMA CaughtIsShown ==
  ASSUME WebhookInv, MirrorInv
  PROVE  SoleSubscriptionMirrored
<1>1. SUFFICES ASSUME NEW p \in Subscribed, Caught, plan[p].st # "none",
                      \A q \in Subscribed \ {p} : plan[q].st = "none"
               PROVE  Mirrors(p)
  BY DEF SoleSubscriptionMirrored, Mirrors
<1>2. PICK i \in DOMAIN outbox : LastTold(p, i)
  BY <1>1 DEF MirrorInv, StatusTold
<1>3. i \in answered
  BY <1>1, <1>2 DEF Caught, Unanswered
<1> QED BY <1>1, <1>2, <1>3 DEF MirrorInv, ToldShown, Sole, Caught

--------------------------------------------------------------------------------
\* The inductive invariant: the key a payment is credited under is stored exactly
\* when it was credited, and every handler holds an event of a payment that was
\* made, with the right one of the two keys where it is about to credit it
\* (handleStripeWebhook, processStripeInvoicePaid, CreditStripeCheckout).
THEOREM WebhookInvariant == SubSpec => []WebhookInv
<1>1. SubInit => WebhookInv
  BY SubInitHolds
<1>2. WebhookInv /\ [SubNext]_subVars => WebhookInv'
  BY SubStep
<1> QED BY <1>1, <1>2, PTL DEF SubSpec

LEMMA OnceCredited ==
    WebhookInv => CreditedOnce
<1> SUFFICES ASSUME WebhookInv
             PROVE  CreditedOnce
  OBVIOUS
<1>1. ASSUME NEW pay \in Payments
      PROVE  granted[pay] <= 1 /\ (granted[pay] = 1 => WasPaid(pay))
  <2>1. granted[pay] = IF Key(pay) \in sessions THEN 1 ELSE 0
    BY DEF WebhookInv, KeysHeld
  <2>2. Key(pay) \in sessions => WasPaid(pay)
    BY DEF WebhookInv, KeysHeld, Key
  <2> QED BY <2>1, <2>2
<1>2. rewards <= 1
  BY DEF WebhookInv
<1> QED BY <1>1, <1>2 DEF CreditedOnce

\* No payment is credited twice and nothing is credited that was not paid; the
\* referral is rewarded at most once (CreditStripeCheckout, RewardReferral).
THEOREM CreditedOnceAlways == SubSpec => []CreditedOnce
<1> QED BY OnceCredited, WebhookInvariant, PTL

\* A payment whose statements did not fail is credited, or an event that credits
\* it is still to be answered (handleStripeWebhook answers 200 last).
THEOREM PaymentNeverLost == SubSpec => []PaymentNotLost
<1>1. SubInit => WebhookInv /\ PaymentNotLost
  BY SubInitHolds
<1>2. WebhookInv /\ PaymentNotLost /\ [SubNext]_subVars => (WebhookInv /\ PaymentNotLost)'
  BY SubStep
<1> QED BY <1>1, <1>2, PTL DEF SubSpec

LEMMA MirrorShows ==
    WebhookInv /\ MirrorInv => SoleSubscriptionMirrored
BY CaughtIsShown

LEMMA MirrorStarts ==
    SubInit => WebhookInv /\ MirrorInv
<1>1. SubInit => WebhookInv
  BY SubInitHolds
<1>2. ASSUME SubInit
      PROVE  MirrorInv
  <2>1. /\ DOMAIN outbox = {} /\ answered = {}
        /\ \A p \in Products : plan[p].st = "none"
        /\ \A h \in Hooks : hook[h].pc = "idle"
    BY <1>2 DEF SubInit, IdleHook
  <2> QED BY <2>1 DEF MirrorInv, StatusTold, OneByOne, Retrieved, ToldShown, Subscribed
<1> QED BY <1>1, <1>2

\* Of a customer with one subscription, whose events come in order and whose
\* statements did not fail, the row shows the status that Stripe has and the access
\* it gives once all is answered: a checkout saves only what was told before it or
\* what a later event writes again (stripe.go:881, stripe.go:940).  MirrorInv is the
\* strengthening: the last status told is Stripe's, events are handled one by one,
\* and the row shows the last one once answered.
THEOREM SoleSubscriptionIsMirrored == SubSpec => []SoleSubscriptionMirrored
<1>1. WebhookInv /\ MirrorInv /\ [SubNext]_subVars => (WebhookInv /\ MirrorInv)'
  BY SubStep, MirrorStep
<1> QED BY MirrorStarts, <1>1, MirrorShows, PTL DEF SubSpec

(* --------------------------------------------------- automatic top-ups -- *)

USE BucketAssumption, SettingsAssumption, LimitAssumption, NoUserAssumption

\* The initial states satisfy the invariant.
LEMMA InitInvariant == Init => RunsInv
<1> SUFFICES ASSUME Init PROVE RunsInv
  OBVIOUS
<1>1. TypeOK
  BY DEF Init, TypeOK, Setting, ChargeRow, Payment, Run, RunPC, IdleRun, Times, Never
<1>2. OneRunPerUser /\ BookedIsDeposited
  BY DEF Init, OneRunPerUser, BookedIsDeposited, IdleRun
<1>3. \A r \in Runs : RunReady(r)
  BY DEF Init, RunReady, IdleRun
<1> QED
  BY <1>1, <1>2, <1>3 DEF RunsInv

--------------------------------------------------------------------------------
\* Steps of one run leave the others what they rely on

\* Nothing a run of u relies on has changed against it.
Kept(u) ==
  /\ lastAt'[u] = lastAt[u] /\ charge'[u] = charge[u] /\ payments[u] \subseteq payments'[u]
  /\ booked'[u] = booked[u] /\ deposited'[u] = deposited[u]

\* A run that stands still stays ready while its user's rows are kept.
LEMMA OthersKeep ==
  ASSUME RunsInv, NEW q \in Runs, run'[q] = run[q], now' \in Times, now <= now',
         run[q].pc = "idle" \/ Kept(run[q].user)
  PROVE  RunReady(q)'
<1>1. CASE run[q].pc = "idle"
  BY <1>1 DEF RunsInv, RunReady
<1>2. CASE Kept(run[q].user) /\ run[q].pc # "idle"
  <2>1. run[q].user \in Users
    BY <1>2 DEF RunsInv, TypeOK, RunReady, Run
  <2>2. /\ lastAt[run[q].user] \in Nat /\ charge[run[q].user].at \in Nat
        /\ now \in Nat /\ now' \in Nat
    BY <2>1 DEF RunsInv, TypeOK, ChargeRow, Times, Never
  <2> QED
    BY <1>2, <2>1, <2>2 DEF RunsInv, RunReady, Kept
<1> QED
  BY <1>1, <1>2 DEF RunsInv, RunReady

\* A step of run r that changes only the rows of its own user.
LEMMA OwnRowsOnly ==
  ASSUME RunsInv, NEW r \in Runs, run[r].pc # "idle", now' = now, inFlight' = inFlight,
         NEW s, run' = [run EXCEPT ![r] = s], s.user = run[r].user,
         \A u \in Users \ {run[r].user} : Kept(u)
  PROVE  OneRunPerUser' /\ (\A q \in Runs \ {r} : RunReady(q)') /\ run'[r] = s
<1>0. run \in [Runs -> Run] /\ now \in Times /\ run[r].user \in Users
  BY DEF RunsInv, TypeOK, RunReady, Run
<1>1. run'[r] = s /\ \A q \in Runs : run'[q].user = run[q].user
  BY <1>0
<1>2. OneRunPerUser'
  BY <1>1 DEF RunsInv, OneRunPerUser
<1>3. ASSUME NEW q \in Runs \ {r} PROVE RunReady(q)'
  <2>1. run'[q] = run[q]
    BY <1>0
  <2>2. CASE run[q].pc = "idle"
    BY <2>1, <2>2, <1>0, OthersKeep DEF Times
  <2>3. CASE run[q].pc # "idle"
    <3>1. run[q].user \in Users \ {run[r].user}
      BY <1>0, <2>3 DEF RunsInv, TypeOK, RunReady, Run, OneRunPerUser
    <3> QED
      BY <3>1, <2>1, <1>0, OthersKeep DEF Times
  <2> QED
    BY <2>2, <2>3
<1> QED
  BY <1>1, <1>2, <1>3

\* The step of run r to another pc.
LEMMA GotoForm ==
  ASSUME RunsInv, NEW r \in Runs, run[r].pc # "idle", NEW pc \in RunPC, Goto(r, pc),
         now' = now, inFlight' = inFlight, \A u \in Users \ {run[r].user} : Kept(u)
  PROVE  /\ OneRunPerUser' /\ \A q \in Runs \ {r} : RunReady(q)'
         /\ run' \in [Runs -> Run]
         /\ run'[r].pc = pc /\ run'[r].user = run[r].user /\ run'[r].amount = run[r].amount
<1> DEFINE t == [run[r] EXCEPT !.pc = pc]
<1>0. run \in [Runs -> Run] /\ run[r] \in Run
  BY DEF RunsInv, TypeOK
<1>1. t \in Run /\ t.pc = pc /\ t.user = run[r].user /\ t.amount = run[r].amount
  BY <1>0 DEF Run
<1>2. run' = [run EXCEPT ![r] = t]
  BY <1>0 DEF Goto
<1>3. OneRunPerUser' /\ (\A q \in Runs \ {r} : RunReady(q)') /\ run'[r] = t
  BY <1>1, <1>2, OwnRowsOnly
<1> QED
  BY <1>0, <1>1, <1>2, <1>3

\* Every step of a run keeps the invariant.
LEMMA RunSteps ==
  ASSUME RunsInv, NEW r \in Runs, RunStep(r)
  PROVE  RunsInv'
<1> DEFINE s == run[r]
           u == s.user
<1>0. /\ TypeOK /\ RunReady(r) /\ BookedIsDeposited /\ s \in Run
  BY DEF RunsInv, TypeOK
<1>t. s.pc # "idle" => u \in Users
  BY <1>0 DEF RunReady, Run
<1>l. \A q \in Runs : run[q].pc # "idle" => run[q].user # NoUser
  BY DEF RunsInv, RunReady
<1>1. CASE ReadUser(r)
  <2>1. /\ s.pc = "user" /\ u \in Users /\ now' = now /\ inFlight' = inFlight
        /\ UNCHANGED <<settings, credits, deposited, booked, lastAt, charge, payments, faults, crashes>>
    BY <1>1, <1>t DEF ReadUser, At, account
  <2>2. \A v \in Users : Kept(v)
    BY <2>1 DEF Kept
  <2>3. CASE Goto(r, "exit")
    <3>1. /\ OneRunPerUser' /\ \A q \in Runs \ {r} : RunReady(q)'
          /\ run' \in [Runs -> Run] /\ run'[r].pc = "exit" /\ run'[r].user = u
      BY <2>1, <2>2, <2>3, GotoForm DEF RunPC
    <3> QED
      BY <3>1, <2>1, <1>0, <1>l DEF RunsInv, TypeOK, BookedIsDeposited, RunReady
  <2>4. CASE Due(u) /\ run' = [run EXCEPT ![r].pc = "last", ![r].amount = settings[u].amount]
    <3> DEFINE t == [s EXCEPT !.pc = "last", !.amount = settings[u].amount]
    <3>1. settings[u].amount \in Amounts
      BY <1>0, <2>1 DEF TypeOK, Setting
    <3>2. t \in Run /\ t.user = u /\ t.pc = "last" /\ t.amount \in Amounts
      BY <3>1, <1>0 DEF Run, RunPC
    <3>3. run' = [run EXCEPT ![r] = t]
      BY <2>4, <1>0 DEF TypeOK
    <3>4. OneRunPerUser' /\ (\A q \in Runs \ {r} : RunReady(q)') /\ run'[r] = t
      BY <2>1, <2>2, <3>2, <3>3, OwnRowsOnly
    <3>5. RunReady(r)'
      <4>1. run'[r].pc = "last" /\ run'[r].user = u /\ run'[r].amount \in Amounts
        BY <3>2, <3>4
      <4>2. lastAt[u] < now /\ u # NoUser
        BY <2>1, <2>4, <1>l DEF Due
      <4> HIDE DEF t
      <4> QED
        BY <2>1, <4>1, <4>2 DEF RunReady
    <3>6. TypeOK'
      BY <2>1, <3>2, <3>3, <1>0 DEF TypeOK
    <3> QED
      BY <3>4, <3>5, <3>6, <2>1, <1>0 DEF RunsInv, BookedIsDeposited
  <2> QED
    BY <2>3, <2>4, <1>1 DEF ReadUser
<1>2. CASE LastAutotopupCharge(r)
  <2>1. /\ s.pc = "last" /\ u \in Users /\ now' = now /\ inFlight' = inFlight
        /\ UNCHANGED <<settings, credits, deposited, booked, lastAt, charge, payments, faults, crashes>>
    BY <1>2, <1>t DEF LastAutotopupCharge, At, account
  <2>2. \A v \in Users : Kept(v)
    BY <2>1 DEF Kept
  <2>3. CASE Goto(r, "exit")
    <3>1. /\ OneRunPerUser' /\ \A q \in Runs \ {r} : RunReady(q)'
          /\ run' \in [Runs -> Run] /\ run'[r].pc = "exit" /\ run'[r].user = u
      BY <2>1, <2>2, <2>3, GotoForm DEF RunPC
    <3> QED
      BY <3>1, <2>1, <1>0, <1>l DEF RunsInv, TypeOK, BookedIsDeposited, RunReady
  <2>4. CASE ~PausedByFailure(u) /\ run' = [run EXCEPT ![r].pc = "charge", ![r].key = idempotencyKey]
    <3> DEFINE t == [s EXCEPT !.pc = "charge", !.key = idempotencyKey]
    <3>1. idempotencyKey \in Nat
      BY <1>0 DEF TypeOK, Times, idempotencyKey
    <3>2. t \in Run /\ t.user = u /\ t.pc = "charge" /\ t.amount = s.amount
      BY <3>1, <1>0 DEF Run, RunPC
    <3>3. run' = [run EXCEPT ![r] = t]
      BY <2>4, <1>0 DEF TypeOK
    <3>4. OneRunPerUser' /\ (\A q \in Runs \ {r} : RunReady(q)') /\ run'[r] = t
      BY <2>1, <2>2, <3>2, <3>3, OwnRowsOnly
    <3>5. RunReady(r)'
      <4>1. run'[r].pc = "charge" /\ run'[r].user = u /\ run'[r].amount = s.amount
        BY <3>2, <3>4
      <4>2. charge[u].status # "failed" \/ charge[u].at + Bucket <= now
        BY <2>1, <2>4, <1>0 DEF PausedByFailure, TypeOK, ChargeRow, Times, Never
      <4> HIDE DEF t
      <4> QED
        BY <2>1, <4>1, <4>2, <1>0, <1>l DEF RunReady
    <3>6. TypeOK'
      BY <2>1, <3>2, <3>3, <1>0 DEF TypeOK
    <3> QED
      BY <3>4, <3>5, <3>6, <2>1, <1>0 DEF RunsInv, BookedIsDeposited
  <2> QED
    BY <2>3, <2>4, <1>2 DEF LastAutotopupCharge
<1>3. CASE chargeOffSession(r)
  <2>1. /\ s.pc = "charge" /\ u \in Users /\ now' = now /\ inFlight' = inFlight
        /\ UNCHANGED <<settings, credits, deposited, booked, lastAt, charge, crashes>>
    BY <1>3, <1>t DEF chargeOffSession, At, account
  <2>2. /\ \A v \in Users : payments[v] \subseteq payments'[v]
        /\ payments' \in [Users -> SUBSET Payment]
        /\ faults' \in 0 .. MaxFaults
    <3>1. PICK answer \in {"succeeded", "declined", "error"} :
            \/ StripeAnswers(u, s.key, s.amount, answer)
            \/ UNCHANGED payments
      BY <1>3 DEF chargeOffSession
    <3>2. CASE payments' = payments
      BY <3>2, <1>0, <1>3 DEF TypeOK, chargeOffSession, Fault
    <3>3. CASE payments' # payments
      <4> DEFINE p == [key |-> s.key, amount |-> s.amount, status |-> answer]
      <4>1. answer # "error" /\ payments' = [payments EXCEPT ![u] = @ \cup {p}]
        BY <3>1, <3>3 DEF StripeAnswers
      <4>2. p \in Payment
        BY <4>1, <2>1, <1>0 DEF Payment, Run, RunReady
      <4>3. faults' \in 0 .. MaxFaults
        BY <1>0, <1>3 DEF TypeOK, chargeOffSession, Fault
      <4> QED
        BY <4>1, <4>2, <4>3, <1>0, <2>1 DEF TypeOK
    <3> QED
      BY <3>2, <3>3
  <2>3. PICK pc \in {"credit", "failed"} :
          /\ Goto(r, pc)
          /\ pc = "credit" => \E p \in payments'[u] : p.status = "succeeded" /\ p.amount = s.amount
    <3>1. CASE Goto(r, "failed")
      BY <3>1
    <3>2. CASE /\ StripeAnswers(u, s.key, s.amount, "succeeded")
               /\ Goto(r, "credit")
      <4>1. \E p \in payments'[u] : p.status = "succeeded" /\ p.amount = s.amount
        <5> DEFINE p == [key |-> s.key, amount |-> s.amount, status |-> "succeeded"]
        <5>1. CASE payments' = [payments EXCEPT ![u] = @ \cup {p}]
          <6>1. p \in payments'[u]
            BY <5>1, <2>1, <1>0 DEF TypeOK
          <6>2. p.status = "succeeded" /\ p.amount = s.amount
            OBVIOUS
          <6> HIDE DEF p
          <6> QED
            BY <6>1, <6>2
        <5>2. CASE /\ payments' = payments
                   /\ \E p0 \in payments[u] : "succeeded" = IF p0.amount = s.amount THEN p0.status ELSE "error"
          BY <5>2
        <5> QED
          BY <3>2, <5>1, <5>2 DEF StripeAnswers
      <4> QED
        BY <3>2, <4>1
    <3> QED
      BY <3>1, <3>2, <1>3 DEF chargeOffSession, Accepted
  <2>4. /\ OneRunPerUser' /\ \A q \in Runs \ {r} : RunReady(q)'
        /\ run' \in [Runs -> Run] /\ run'[r].pc = pc /\ run'[r].user = u /\ run'[r].amount = s.amount
    BY <2>1, <2>2, <2>3, GotoForm DEF RunPC, Kept
  <2>5. RunReady(r)'
    BY <2>1, <2>3, <2>4, <1>0, <1>l DEF RunReady
  <2> QED
    BY <2>1, <2>2, <2>4, <2>5, <1>0 DEF RunsInv, TypeOK, BookedIsDeposited
<1>4. CASE AddPurchasedCredits(r)
  <2>1. /\ s.pc = "credit" /\ u \in Users /\ now' = now /\ inFlight' = inFlight
        /\ UNCHANGED <<settings, booked, lastAt, charge, payments, crashes>>
    BY <1>4, <1>t DEF AddPurchasedCredits, At
  <2>2. s.amount \in Nat
    BY <2>1, <1>0 DEF RunReady
  <2>3. CASE /\ credits' = [credits EXCEPT ![u] = @ + s.amount]
             /\ deposited' = [deposited EXCEPT ![u] = @ + s.amount]
             /\ Goto(r, "event") /\ UNCHANGED faults
    <3>1. /\ OneRunPerUser' /\ \A q \in Runs \ {r} : RunReady(q)'
          /\ run' \in [Runs -> Run] /\ run'[r].pc = "event" /\ run'[r].user = u /\ run'[r].amount = s.amount
      BY <2>1, <2>3, <1>0, GotoForm DEF RunPC, Kept, TypeOK
    <3>2. /\ credits' \in [Users -> Nat] /\ deposited' \in [Users -> Nat]
          /\ deposited'[u] = deposited[u] + s.amount
          /\ \A v \in Users : deposited[v] <= deposited'[v]
      BY <2>1, <2>2, <2>3, <1>0 DEF TypeOK
    <3>3. TypeOK' /\ BookedIsDeposited'
      BY <2>1, <2>3, <3>1, <3>2, <1>0 DEF TypeOK, BookedIsDeposited
    <3>4. RunReady(r)'
      BY <2>1, <2>2, <3>1, <3>2, <1>0, <1>l DEF RunReady, TypeOK, BookedIsDeposited
    <3> QED
      BY <3>1, <3>3, <3>4 DEF RunsInv
  <2>4. CASE Goto(r, "failed") /\ Fault /\ UNCHANGED <<credits, deposited>>
    <3>1. /\ OneRunPerUser' /\ \A q \in Runs \ {r} : RunReady(q)'
          /\ run' \in [Runs -> Run] /\ run'[r].pc = "failed" /\ run'[r].user = u /\ run'[r].amount = s.amount
      BY <2>1, <2>4, GotoForm DEF RunPC, Kept
    <3>2. faults' \in 0 .. MaxFaults
      BY <2>4, <1>0 DEF Fault, TypeOK
    <3> QED
      BY <2>1, <2>4, <3>1, <3>2, <1>0, <1>l DEF RunsInv, TypeOK, BookedIsDeposited, RunReady
  <2> QED
    BY <2>3, <2>4, <1>4 DEF AddPurchasedCredits
<1>5. CASE CreateBillingEvent(r)
  <2>1. /\ s.pc = "event" /\ u \in Users /\ now' = now /\ inFlight' = inFlight /\ Goto(r, "lastAt")
        /\ UNCHANGED <<settings, credits, deposited, lastAt, charge, payments, crashes>>
    BY <1>5, <1>t DEF CreateBillingEvent, At
  <2>2. /\ booked' \in [Users -> Nat] /\ faults' \in 0 .. MaxFaults
        /\ \A v \in Users \ {u} : booked'[v] = booked[v]
        /\ booked'[u] <= deposited[u]
    <3>1. s.amount \in Nat /\ booked[u] + s.amount <= deposited[u]
      BY <2>1, <1>0 DEF RunReady
    <3>2. CASE booked' = [booked EXCEPT ![u] = @ + s.amount] /\ UNCHANGED faults
      BY <3>1, <3>2, <2>1, <1>0 DEF TypeOK
    <3>3. CASE Fault /\ UNCHANGED booked
      BY <3>3, <2>1, <1>0 DEF Fault, TypeOK, BookedIsDeposited
    <3> QED
      BY <3>2, <3>3, <1>5 DEF CreateBillingEvent
  <2>3. /\ OneRunPerUser' /\ \A q \in Runs \ {r} : RunReady(q)'
        /\ run' \in [Runs -> Run] /\ run'[r].pc = "lastAt" /\ run'[r].user = u /\ run'[r].amount = s.amount
    BY <2>1, <2>2, GotoForm DEF RunPC, Kept
  <2>4. BookedIsDeposited' /\ TypeOK'
    BY <2>1, <2>2, <2>3, <1>0 DEF TypeOK, BookedIsDeposited
  <2>5. RunReady(r)'
    BY <2>1, <2>3, <1>0, <1>l DEF RunReady
  <2> QED
    BY <2>3, <2>4, <2>5 DEF RunsInv
<1>6. CASE SetAutotopupLastAt(r)
  <2>1. /\ s.pc = "lastAt" /\ u \in Users /\ now' = now /\ inFlight' = inFlight /\ Goto(r, "log")
        /\ UNCHANGED <<settings, credits, deposited, booked, charge, payments, crashes>>
    BY <1>6, <1>t DEF SetAutotopupLastAt, At
  <2>2. /\ lastAt' \in [Users -> Times \cup {Never}] /\ faults' \in 0 .. MaxFaults
        /\ \A v \in Users \ {u} : lastAt'[v] = lastAt[v]
    BY <1>6, <1>0 DEF SetAutotopupLastAt, Fault, TypeOK
  <2>3. /\ OneRunPerUser' /\ \A q \in Runs \ {r} : RunReady(q)'
        /\ run' \in [Runs -> Run] /\ run'[r].pc = "log" /\ run'[r].user = u /\ run'[r].amount = s.amount
    BY <2>1, <2>2, GotoForm DEF RunPC, Kept
  <2> QED
    BY <2>1, <2>2, <2>3, <1>0, <1>l DEF RunsInv, TypeOK, BookedIsDeposited, RunReady
<1>7. CASE LogAutotopupCharge(r)
  <2>1. /\ s.pc \in {"log", "failed"} /\ u \in Users /\ now' = now /\ inFlight' = inFlight /\ Goto(r, "exit")
        /\ UNCHANGED <<settings, credits, deposited, booked, lastAt, payments, crashes>>
    BY <1>7, <1>t DEF LogAutotopupCharge, At
  <2>2. /\ charge' \in [Users -> ChargeRow] /\ faults' \in 0 .. MaxFaults
        /\ \A v \in Users \ {u} : charge'[v] = charge[v]
    BY <1>7, <1>0 DEF LogAutotopupCharge, Fault, TypeOK, ChargeRow
  <2>3. /\ OneRunPerUser' /\ \A q \in Runs \ {r} : RunReady(q)'
        /\ run' \in [Runs -> Run] /\ run'[r].pc = "exit" /\ run'[r].user = u /\ run'[r].amount = s.amount
    BY <2>1, <2>2, GotoForm DEF RunPC, Kept
  <2> QED
    BY <2>1, <2>2, <2>3, <1>0, <1>l DEF RunsInv, TypeOK, BookedIsDeposited, RunReady
<1>8. CASE Exit(r)
  <2>1. /\ s.pc = "exit" /\ u \in Users /\ now' = now /\ inFlight' = inFlight \ {u}
        /\ run' = [run EXCEPT ![r] = IdleRun]
        /\ UNCHANGED <<settings, credits, deposited, booked, lastAt, charge, payments, faults, crashes>>
    BY <1>8, <1>t DEF Exit, At, account
  <2>2. /\ run' \in [Runs -> Run] /\ run'[r] = IdleRun /\ \A q \in Runs \ {r} : run'[q] = run[q]
    BY <2>1, <1>0 DEF TypeOK, IdleRun, Run, RunPC
  <2>3. TypeOK' /\ BookedIsDeposited'
    BY <2>1, <2>2, <1>0 DEF TypeOK, BookedIsDeposited
  <2>4. OneRunPerUser'
    BY <2>1, <2>2, <1>0 DEF RunsInv, OneRunPerUser, IdleRun
  <2>5. ASSUME NEW q \in Runs PROVE RunReady(q)'
    <3>1. CASE q = r
      BY <3>1, <2>2 DEF RunReady, IdleRun
    <3>2. CASE q # r
      BY <3>2, <2>1, <2>2 DEF RunsInv, RunReady
    <3> QED
      BY <3>1, <3>2
  <2> QED
    BY <2>3, <2>4, <2>5 DEF RunsInv
<1> QED
  BY <1>1, <1>2, <1>3, <1>4, <1>5, <1>6, <1>7, <1>8 DEF RunStep

--------------------------------------------------------------------------------
\* The other steps

\* A user, the clock or a restart keeps the invariant.
LEMMA OtherSteps ==
  ASSUME RunsInv, \/ \E u \in Users : Spend(u) \/ UpdateAutotopupSettings(u) \/ maybeTriggerAutoTopup(u)
               \/ Tick \/ Crash
  PROVE  RunsInv'
<1>1. CASE \E u \in Users : Spend(u) \/ UpdateAutotopupSettings(u)
  <2>1. UNCHANGED <<now, deposited, booked, lastAt, charge, payments, inFlight, run, faults, crashes>>
    BY <1>1 DEF Spend, UpdateAutotopupSettings
  <2>2. credits' \in [Users -> Nat] /\ settings' \in [Users -> Setting]
    BY <1>1 DEF RunsInv, TypeOK, Spend, UpdateAutotopupSettings
  <2> QED
    BY <2>1, <2>2 DEF RunsInv, TypeOK, OneRunPerUser, BookedIsDeposited, RunReady
<1>2. ASSUME NEW u \in Users, maybeTriggerAutoTopup(u) PROVE RunsInv'
  <2> DEFINE t == [IdleRun EXCEPT !.pc = "user", !.user = u]
  <2>1. PICK r \in Runs : run[r].pc = "idle" /\ run' = [run EXCEPT ![r] = t]
    BY <1>2 DEF maybeTriggerAutoTopup, At
  <2>2. /\ u \notin inFlight /\ inFlight' = inFlight \cup {u}
        /\ UNCHANGED <<now, settings, credits, deposited, booked, lastAt, charge, payments, faults, crashes>>
    BY <1>2 DEF maybeTriggerAutoTopup, account
  <2>3. t \in Run /\ t.pc = "user" /\ t.user = u
    BY DEF IdleRun, Run, RunPC
  <2>4. /\ run' \in [Runs -> Run] /\ run'[r].pc = "user" /\ run'[r].user = u
        /\ \A q \in Runs \ {r} : run'[q] = run[q]
    BY <2>1, <2>3 DEF RunsInv, TypeOK
  <2> HIDE DEF t
  <2>5. TypeOK' /\ BookedIsDeposited'
    BY <2>2, <2>4 DEF RunsInv, TypeOK, BookedIsDeposited
  <2>6. OneRunPerUser'
    <3>1. run[r].user = NoUser
      BY <2>1 DEF RunsInv, RunReady
    <3> QED
      BY <3>1, <2>2, <2>4 DEF RunsInv, OneRunPerUser
  <2>7. ASSUME NEW q \in Runs PROVE RunReady(q)'
    <3>1. CASE q = r
      BY <3>1, <2>4 DEF RunReady
    <3>2. CASE q # r
      BY <3>2, <2>2, <2>4 DEF RunsInv, RunReady
    <3> QED
      BY <3>1, <3>2
  <2> QED
    BY <2>5, <2>6, <2>7 DEF RunsInv
<1>3. CASE Tick
  <2>1. /\ now' = now + 1 /\ now' \in Times
        /\ UNCHANGED <<settings, credits, deposited, booked, lastAt, charge, payments, inFlight, run, faults, crashes>>
    BY <1>3 DEF Tick, account, RunsInv, TypeOK, Times
  <2>2. ASSUME NEW q \in Runs PROVE RunReady(q)'
    BY <2>1, OthersKeep DEF Kept, RunsInv, TypeOK, Times
  <2> QED
    BY <2>1, <2>2 DEF RunsInv, TypeOK, OneRunPerUser, BookedIsDeposited
<1>4. CASE Crash
  <2>1. /\ inFlight' = {} /\ run' = [r \in Runs |-> IdleRun] /\ crashes' \in 0 .. MaxCrashes
        /\ UNCHANGED <<now, settings, credits, deposited, booked, lastAt, charge, payments, faults>>
    BY <1>4 DEF Crash, account, RunsInv, TypeOK
  <2>2. TypeOK' /\ BookedIsDeposited'
    BY <2>1 DEF RunsInv, TypeOK, BookedIsDeposited, IdleRun, Run, RunPC
  <2>3. OneRunPerUser' /\ \A r \in Runs : RunReady(r)'
    BY <2>1 DEF OneRunPerUser, RunReady, IdleRun
  <2> QED
    BY <2>2, <2>3 DEF RunsInv
<1> QED
  BY <1>1, <1>2, <1>3, <1>4

\* The invariant is inductive.
LEMMA NextKeeps == RunsInv /\ [Next]_vars => RunsInv'
<1> SUFFICES ASSUME RunsInv, [Next]_vars PROVE RunsInv'
  OBVIOUS
<1>1. CASE UNCHANGED vars
  BY <1>1 DEF vars, account, RunsInv, TypeOK, OneRunPerUser, BookedIsDeposited, RunReady
<1> QED
  BY <1>1, RunSteps, OtherSteps DEF Next

--------------------------------------------------------------------------------
\* Keys

\* At the start nobody has paid.
LEMMA InitKeys == Init => KeysOrdered
BY DEF Init, KeysOrdered, IdleRun

\* Rounding down to a bucket respects the order.
LEMMA DivisionGrows ==
  ASSUME NEW n \in Nat
  PROVE  n \div Bucket \in Nat /\ n \div Bucket <= (n + 1) \div Bucket
<1>1. Bucket \in Nat \ {0}
  BY DEF BucketAssumption
<1> QED
  BY <1>1, SMT

\* The bucket of the clock never goes back.
LEMMA BucketGrows ==
  ASSUME RunsInv, now' \in {now, now + 1}
  PROVE  /\ now \div Bucket \in Nat /\ now' \div Bucket \in Nat
         /\ now \div Bucket <= now' \div Bucket
<1>1. now \in Nat
  BY DEF RunsInv, TypeOK, Times
<1>2. CASE now' = now
  BY <1>1, <1>2, DivisionGrows
<1>3. CASE now' = now + 1
  BY <1>1, <1>3, DivisionGrows
<1> QED
  BY <1>2, <1>3

\* A step that makes no payment and sends no run to Stripe.
LEMMA NoNewKey ==
  ASSUME RunsInv, KeysOrdered, now' \in {now, now + 1}, payments' = payments,
         \A r \in Runs : run'[r].pc = "charge" => run'[r] = run[r]
  PROVE  KeysOrdered'
<1>1. \A u \in Users : \A p \in payments[u] : p.key \in Nat
  BY DEF RunsInv, TypeOK, Payment
<1>2. \A r \in Runs : run[r].key \in Nat
  BY DEF RunsInv, TypeOK, Run
<1> DEFINE b == now \div Bucket
           c == now' \div Bucket
<1>3. b \in Nat /\ c \in Nat /\ b <= c
  BY BucketGrows
<1>4. /\ \A u \in Users : \A p \in payments[u] : p.key <= b
      /\ \A r \in Runs : run[r].pc = "charge" => run[r].key <= b
  BY DEF KeysOrdered
<1> HIDE DEF b, c
<1>5. /\ \A u \in Users : \A p \in payments[u] : p.key <= c
      /\ \A r \in Runs : run[r].pc = "charge" => run[r].key <= c
  BY <1>1, <1>2, <1>3, <1>4
<1> USE DEF c
<1> QED
  BY <1>5 DEF KeysOrdered

\* A run that goes elsewhere is not sent to Stripe.
LEMMA GotoElsewhere ==
  ASSUME run \in [Runs -> Run], NEW r \in Runs, NEW pc, pc # "charge", Goto(r, pc)
  PROVE  \A q \in Runs : run'[q].pc = "charge" => run'[q] = run[q]
<1>1. run'[r].pc = pc
  BY DEF Goto, Run
<1>2. \A q \in Runs \ {r} : run'[q] = run[q]
  BY DEF Goto
<1> QED
  BY <1>1, <1>2

\* Every step keeps the keys in order.
LEMMA NextKeys == RunsInv /\ KeysOrdered /\ [Next]_vars => KeysOrdered'
<1> SUFFICES ASSUME RunsInv, KeysOrdered, [Next]_vars PROVE KeysOrdered'
  OBVIOUS
<1>0. run \in [Runs -> Run] /\ now \in Nat
  BY DEF RunsInv, TypeOK, Times
<1>1. CASE UNCHANGED vars
  BY <1>1 DEF vars, KeysOrdered
<1>2. ASSUME NEW u \in Users, Spend(u) \/ UpdateAutotopupSettings(u) \/ maybeTriggerAutoTopup(u)
      PROVE  KeysOrdered'
  <2>1. CASE Spend(u) \/ UpdateAutotopupSettings(u)
    BY <2>1, NoNewKey DEF Spend, UpdateAutotopupSettings
  <2>2. CASE maybeTriggerAutoTopup(u)
    <3>1. PICK r \in Runs : run' = [run EXCEPT ![r] = [IdleRun EXCEPT !.pc = "user", !.user = u]]
      BY <2>2 DEF maybeTriggerAutoTopup
    <3>2. \A q \in Runs : run'[q].pc = "charge" => run'[q] = run[q]
      BY <3>1, <1>0 DEF IdleRun
    <3> QED
      BY <3>2, <2>2, NoNewKey DEF maybeTriggerAutoTopup
  <2> QED
    BY <1>2, <2>1, <2>2
<1>3. CASE Tick \/ Crash
  BY <1>3, NoNewKey DEF Tick, Crash, account, IdleRun
<1>4. ASSUME NEW r \in Runs, RunStep(r) PROVE KeysOrdered'
  <2>1. CASE LastAutotopupCharge(r)
    <3>1. CASE Goto(r, "exit")
      <4>1. \A q \in Runs : run'[q].pc = "charge" => run'[q] = run[q]
        BY <3>1, <1>0, GotoElsewhere
      <4> QED
        BY <4>1, <2>1, NoNewKey DEF LastAutotopupCharge
    <3>2. CASE run' = [run EXCEPT ![r].pc = "charge", ![r].key = idempotencyKey]
      <4>1. run'[r].key = now \div Bucket /\ \A q \in Runs \ {r} : run'[q] = run[q]
        BY <3>2, <1>0 DEF idempotencyKey, Run
      <4>2. now \div Bucket \in Nat /\ now' = now /\ payments' = payments
        BY <2>1, <1>0 DEF LastAutotopupCharge
      <4> QED
        BY <4>1, <4>2 DEF KeysOrdered
    <3> QED
      BY <3>1, <3>2, <2>1 DEF LastAutotopupCharge
  <2>2. CASE chargeOffSession(r)
    <3> DEFINE u == run[r].user
    <3>1. /\ run[r].pc = "charge" /\ now' = now /\ u \in Users
          /\ Goto(r, "credit") \/ Goto(r, "failed")
      BY <2>2, <1>0 DEF chargeOffSession, At, RunsInv, RunReady, Run
    <3>2. \A q \in Runs : run'[q].pc = "charge" => run'[q] = run[q]
      BY <3>1, <1>0, GotoElsewhere
    <3>3. CASE payments' = payments
      BY <3>1, <3>2, <3>3, NoNewKey
    <3>4. CASE payments' # payments
      <4>1. PICK p : /\ payments' = [payments EXCEPT ![u] = @ \cup {p}] /\ p.key = run[r].key
                     /\ \A q \in payments[u] : q.key # run[r].key
        <5>1. PICK answer : StripeAnswers(u, run[r].key, run[r].amount, answer)
          BY <3>4, <2>2 DEF chargeOffSession
        <5> DEFINE p == [key |-> run[r].key, amount |-> run[r].amount, status |-> answer]
        <5>2. /\ payments' = [payments EXCEPT ![u] = @ \cup {p}]
              /\ \A q \in payments[u] : q.key # run[r].key
          BY <3>4, <5>1 DEF StripeAnswers
        <5>3. p.key = run[r].key
          OBVIOUS
        <5> HIDE DEF p
        <5> QED
          BY <5>2, <5>3
      <4>2. p.key <= now \div Bucket
        BY <4>1, <3>1 DEF KeysOrdered
      <4>3. \A v \in Users : payments'[v] = IF v = u THEN payments[u] \cup {p} ELSE payments[v]
        BY <4>1, <3>1 DEF RunsInv, TypeOK
      <4>4. \A v \in Users : \A q \in payments'[v] : q.key <= now' \div Bucket
        BY <4>2, <4>3, <3>1 DEF KeysOrdered
      <4>5. \A v \in Users : \A q1, q2 \in payments'[v] : q1.key = q2.key => q1 = q2
        BY <4>1, <4>3 DEF KeysOrdered
      <4>6. \A q \in Runs : run'[q].pc = "charge" => run'[q].key <= now' \div Bucket
        BY <3>1, <3>2 DEF KeysOrdered
      <4> QED
        BY <4>4, <4>5, <4>6 DEF KeysOrdered
    <3> QED
      BY <3>3, <3>4
  <2>3. CASE ReadUser(r)
    <3>1. \A q \in Runs : run'[q].pc = "charge" => run'[q] = run[q]
      <4>1. CASE Goto(r, "exit")
        BY <4>1, <1>0, GotoElsewhere
      <4>2. CASE run' = [run EXCEPT ![r].pc = "last", ![r].amount = settings[run[r].user].amount]
        <5>1. run'[r].pc = "last" /\ \A q \in Runs \ {r} : run'[q] = run[q]
          BY <4>2, <1>0 DEF Run
        <5> QED
          BY <5>1
      <4> QED
        BY <4>1, <4>2, <2>3 DEF ReadUser
    <3> QED
      BY <3>1, <2>3, NoNewKey DEF ReadUser
  <2>4. CASE \/ AddPurchasedCredits(r) \/ CreateBillingEvent(r) \/ SetAutotopupLastAt(r)
             \/ LogAutotopupCharge(r) \/ Exit(r)
    <3>1. /\ now' = now /\ payments' = payments
          /\ \/ run' = [run EXCEPT ![r] = IdleRun]
             \/ \E pc \in {"event", "failed", "lastAt", "log", "exit"} : Goto(r, pc)
      BY <2>4 DEF AddPurchasedCredits, CreateBillingEvent, SetAutotopupLastAt, LogAutotopupCharge, Exit
    <3>2. \A q \in Runs : run'[q].pc = "charge" => run'[q] = run[q]
      <4>1. CASE run' = [run EXCEPT ![r] = IdleRun]
        BY <4>1, <1>0 DEF IdleRun
      <4>2. ASSUME NEW pc \in {"event", "failed", "lastAt", "log", "exit"}, Goto(r, pc)
            PROVE  \A q \in Runs : run'[q].pc = "charge" => run'[q] = run[q]
        BY <4>2, <1>0, GotoElsewhere
      <4> QED
        BY <4>1, <4>2, <3>1
    <3> QED
      BY <3>1, <3>2, NoNewKey
  <2> QED
    BY <2>1, <2>2, <2>3, <2>4, <1>4 DEF RunStep
<1> QED
  BY <1>1, <1>2, <1>3, <1>4 DEF Next

\* Different payments have different keys, all of buckets that have begun.
LEMMA KeysCount == RunsInv /\ KeysOrdered => OneChargePerBucket
<1> SUFFICES ASSUME RunsInv, KeysOrdered, NEW u \in Users
             PROVE  Cardinality(payments[u]) <= now \div Bucket + 1
  BY DEF OneChargePerBucket
<1> DEFINE b == now \div Bucket
           f == [p \in payments[u] |-> p.key]
<1>1. b \in Nat
  BY DEF RunsInv, TypeOK, Times
<1>2. \A p \in payments[u] : p.key \in 0 .. b
  BY <1>1 DEF KeysOrdered, RunsInv, TypeOK, Payment
<1> HIDE DEF b
<1>3. f \in Injection(payments[u], 0 .. b)
  BY <1>2 DEF KeysOrdered, Injection, IsInjective
<1>4. IsFiniteSet(0 .. b) /\ Cardinality(0 .. b) = b + 1
  BY <1>1, FS_Interval
<1>5. Cardinality(payments[u]) <= b + 1
  BY <1>3, <1>4, FS_Injection
<1> USE DEF b
<1> QED
  BY <1>5

--------------------------------------------------------------------------------
\* Theorems

\* The inductive invariant of runAutoTopup holds throughout.
THEOREM TopupInvariant == Spec => []AInv
BY InitInvariant, InitKeys, NextKeeps, NextKeys, PTL DEF Spec, AInv

\* The register excludes two runs of one user (maybeTriggerAutoTopup).
THEOREM RunsExclude == Spec => []OneRunPerUser
<1>1. AInv => OneRunPerUser
  BY DEF AInv, RunsInv
<1> QED
  BY <1>1, TopupInvariant, PTL

\* No billing event is ahead of its credits (runAutoTopup).
THEOREM EventsFollowCredits == Spec => []BookedIsDeposited
<1>1. AInv => BookedIsDeposited
  BY DEF AInv, RunsInv
<1> QED
  BY <1>1, TopupInvariant, PTL

\* The card is charged at most once in each six hours of the clock
\* (idempotencyKey in runAutoTopup).
THEOREM ChargesAreBounded == Spec => []OneChargePerBucket
<1>1. AInv => OneChargePerBucket
  BY KeysCount DEF AInv
<1> QED
  BY <1>1, TopupInvariant, PTL

\* Only AddPurchasedCredits adds credits.
LEMMA OnlyCredits ==
  ASSUME AInv, Next, NEW u \in Users, deposited'[u] # deposited[u]
  PROVE  \E r \in Runs : /\ run[r].pc = "credit" /\ run[r].user = u /\ RunReady(r)
                         /\ deposited'[u] = deposited[u] + run[r].amount
<1>1. PICK r \in Runs : AddPurchasedCredits(r) /\ deposited' # deposited
  BY DEF Next, RunStep, Spend, UpdateAutotopupSettings, maybeTriggerAutoTopup, Tick, Crash, account, ReadUser,
    LastAutotopupCharge, chargeOffSession, CreateBillingEvent, SetAutotopupLastAt, LogAutotopupCharge, Exit
<1>2. /\ run[r].pc = "credit" /\ RunReady(r)
      /\ deposited' = [deposited EXCEPT ![run[r].user] = @ + run[r].amount]
  BY <1>1 DEF AddPurchasedCredits, At, AInv, RunsInv
<1> QED
  BY <1>2 DEF AInv, RunsInv, TypeOK

\* Only a call to Stripe makes a payment.
LEMMA OnlyCharges ==
  ASSUME AInv, Next, NEW u \in Users, payments'[u] # payments[u]
  PROVE  \E r \in Runs : run[r].pc = "charge" /\ run[r].user = u /\ RunReady(r)
<1>1. PICK r \in Runs : chargeOffSession(r) /\ payments' # payments
  BY DEF Next, RunStep, Spend, UpdateAutotopupSettings, maybeTriggerAutoTopup, Tick, Crash, account, ReadUser,
    LastAutotopupCharge, AddPurchasedCredits, CreateBillingEvent, SetAutotopupLastAt, LogAutotopupCharge, Exit
<1>2. /\ run[r].pc = "charge" /\ RunReady(r)
      /\ \E p : payments' = [payments EXCEPT ![run[r].user] = @ \cup {p}]
  BY <1>1 DEF chargeOffSession, StripeAnswers, At, AInv, RunsInv
<1> QED
  BY <1>2 DEF AInv, RunsInv, TypeOK

LEMMA CreditsPaid ==
    AInv /\ [Next]_vars =>
      [\A u \in Users :
         deposited'[u] # deposited[u]
           => \E p \in payments[u] :
                p.status = "succeeded" /\ p.amount = deposited'[u] - deposited[u]]_vars
<1> SUFFICES ASSUME AInv, Next, NEW u \in Users, deposited'[u] # deposited[u]
             PROVE  \E p \in payments[u] :
                      p.status = "succeeded" /\ p.amount = deposited'[u] - deposited[u]
  OBVIOUS
<1>1. PICK r \in Runs : /\ run[r].pc = "credit" /\ run[r].user = u /\ RunReady(r)
                        /\ deposited'[u] = deposited[u] + run[r].amount
  BY OnlyCredits
<1>2. deposited[u] \in Nat /\ run[r].amount \in Nat
  BY <1>1 DEF AInv, RunsInv, TypeOK, RunReady
<1> QED
  BY <1>1, <1>2 DEF RunReady

\* Credits are added only for a payment that succeeded, of that amount.
THEOREM CreditsHaveAPayment == Spec => CreditsFollowPayment
<1> QED
  BY CreditsPaid, TopupInvariant, PTL DEF Spec, CreditsFollowPayment

LEMMA FailureRests ==
    AInv /\ [Next]_vars =>
      [\A u \in Users :
         payments'[u] # payments[u]
           => charge[u].status # "failed" \/ charge[u].at + Bucket <= now]_vars
BY OnlyCharges DEF RunReady

\* A recorded failure keeps the card from being charged for six hours.
THEOREM FailuresPause == Spec => FailurePausesCharges
<1> QED
  BY FailureRests, TopupInvariant, PTL DEF Spec, FailurePausesCharges

\* Top-ups of a user keep the cool-down from the last recorded one.
THEOREM CoolDownIsKept == Spec => TopupsCoolDown
<1>1. AInv /\ [Next]_vars =>
        [\A u \in Users : deposited'[u] # deposited[u] => lastAt[u] < now]_vars
  BY OnlyCredits DEF RunReady
<1> QED
  BY <1>1, TopupInvariant, PTL DEF Spec, TopupsCoolDown

(* ----------------------------------------------------------- win-back -- *)

USE RunnerAssumption, WinbackLimits

LEMMA Limits == LastStep \in Nat /\ MaxLeases \in Nat /\ MaxSlips \in Nat
  OBVIOUS

\* The records a runner may be in.
Pass == [pc : {"idle", "list", "next", "check", "claim", "send", "mark"},
         todo : SUBSET Letters, letter : SUBSET Letters]

LEMMA LetterIs ==
  ASSUME NEW r \in Runners, NEW l \in Letters, pass[r].letter = {l}
  PROVE  Letter(r) = l
  BY DEF Letter

\* A mark is never taken back, so what was in turn stays so.
SentStays == \A l \in Letters : claim[l] = "sent" => claim'[l] = "sent"

LEMMA InTurnStays ==
  ASSUME SentStays, NEW l \in Letters, InTurn(l)
  PROVE  InTurn(l)'
<1>1. l = <<l[1], l[2]>> /\ l[1] \in Recipients /\ l[2] \in 1 .. LastStep
  BY DEF Letters, Steps
<1>2. CASE l[2] - 1 = 0
  BY <1>2 DEF InTurn, MarkedUpTo
<1>3. CASE l[2] - 1 # 0
  <2>1. <<l[1], l[2] - 1>> \in Letters
    BY <1>1, <1>3, Limits DEF Letters, Steps
  <2> QED BY <2>1, <1>3 DEF InTurn, MarkedUpTo, SentStays
<1> QED BY <1>2, <1>3

LEMMA SendersFinite ==
  ASSUME NEW l
  PROVE  IsFiniteSet(Senders(l)) /\ Cardinality(Senders(l)) \in Nat
<1>1. Senders(l) \subseteq Runners
  BY DEF Senders
<1>2. IsFiniteSet(Senders(l))
  BY <1>1, FS_Subset
<1> QED BY <1>2, FS_CardinalityType

LEMMA SendersFiniteNext ==
  ASSUME NEW l
  PROVE  IsFiniteSet(Senders(l)') /\ Cardinality(Senders(l)') \in Nat
<1>1. Senders(l)' \subseteq Runners
  BY DEF Senders
<1>2. IsFiniteSet(Senders(l)')
  BY <1>1, FS_Subset
<1> QED BY <1>2, FS_CardinalityType

\* Who stops sending, or a claim that was used, leaves the worth of the claims.
LEMMA WorthKept ==
  ASSUME WinTypeOK, NEW l \in Letters, ClaimWorth(l),
         Senders(l)' \subseteq Senders(l), sends'[l] = sends[l], leases'[l] = leases[l],
         claim'[l] = claim[l] \/ claim'[l] \in {"sending", "sent"}
  PROVE  ClaimWorth(l)'
<1>1. Cardinality(Senders(l)') <= Cardinality(Senders(l))
  BY SendersFinite, FS_Subset
<1>2. StillClaimable(l)' <= StillClaimable(l) /\ StillClaimable(l)' \in 0 .. 1 /\ StillClaimable(l) \in 0 .. 1
  BY DEF StillClaimable
<1>3. sends[l] \in Nat /\ leases[l] \in Nat
  BY Limits DEF WinTypeOK
<1>4. sends[l] + Cardinality(Senders(l)) + StillClaimable(l) <= 1 + leases[l]
  BY DEF ClaimWorth
<1>5. sends'[l] + Cardinality(Senders(l)') + StillClaimable(l)' <= 1 + leases'[l]
  BY <1>1, <1>2, <1>3, <1>4, SendersFinite, SendersFiniteNext
<1> QED BY <1>5 DEF ClaimWorth

\* A runner that is not about to send, with what it may have in hand and ahead.
Quiet(q) ==
  /\ q \in Pass /\ q.pc # "send"
  /\ q.pc \in {"check", "claim", "mark"} => \E l \in Letters : q.letter = {l}
  /\ \A l \in q.todo \cup q.letter : InTurn(l)

\* A step that sends nothing and after which no other runner is about to send.
LEMMA QuietStep ==
  ASSUME WinInv, WinTypeOK',
         \A k \in Runners : pass'[k] = pass[k] \/ Quiet(pass'[k]),
         \A l \in Letters : claim'[l] = claim[l] \/ claim'[l] \in {"sending", "sent"},
         SentStays,
         UNCHANGED <<sends, leases>>
  PROVE  WinInv'
<1>1. WinTypeOK
  BY DEF WinInv
<1>2. ASSUME NEW k \in Runners
      PROVE  LetterInHand(k)' /\ \A l \in Ahead(k)' : InTurn(l)'
  <2>1. CASE Quiet(pass'[k])
    <3>1. Ahead(k)' \subseteq Letters /\ \A l \in Ahead(k)' : InTurn(l)
      BY <2>1 DEF Ahead, Quiet, Pass
    <3>2. LetterInHand(k)'
      BY <2>1 DEF LetterInHand, Quiet
    <3> QED BY <3>1, <3>2, InTurnStays
  <2>2. CASE pass'[k] = pass[k]
    <3>1. LetterInHand(k)' /\ Ahead(k)' = Ahead(k)
      BY <2>2 DEF LetterInHand, Ahead, WinInv
    <3>2. Ahead(k) \subseteq Letters
      BY <1>1 DEF Ahead, WinTypeOK
    <3> QED BY <3>1, <3>2, InTurnStays DEF WinInv
  <2> QED BY <2>1, <2>2
<1>3. ASSUME NEW l \in Letters
      PROVE  ClaimWorth(l)' /\ (sends'[l] > 0 => InTurn(l)')
  <2>1. Senders(l)' \subseteq Senders(l)
    BY DEF Senders, PassAt, Quiet
  <2>2. ClaimWorth(l)'
    BY <2>1, <1>1, WorthKept DEF WinInv
  <2> QED BY <2>2, InTurnStays DEF WinInv
<1> QED BY <1>2, <1>3 DEF WinInv

\* The same of a step of one runner.
LEMMA QuietRunner ==
  ASSUME WinInv, NEW r \in Runners, NEW q, pass' = [pass EXCEPT ![r] = q], Quiet(q),
         \A l \in Letters : claim'[l] = claim[l] \/ claim'[l] \in {"sending", "sent"},
         SentStays, claim' \in [Letters -> {"none", "sending", "stale", "sent"}],
         UNCHANGED <<people, sends, leases>>,
         runnerLock' \in Runners \cup {NoRunner}, slips' \in 0 .. MaxSlips
  PROVE  WinInv'
<1>1. pass' \in [Runners -> Pass] /\ \A k \in Runners : pass'[k] = IF k = r THEN q ELSE pass[k]
  BY DEF WinInv, WinTypeOK, Quiet, Pass
<1>2. WinTypeOK'
  BY <1>1 DEF WinInv, WinTypeOK, people, Pass
<1> QED BY <1>1, <1>2, QuietStep

--------------------------------------------------------------------------------
\* One lemma per action

LEMMA SlipTypes ==
  ASSUME WinTypeOK, Slip \/ UNCHANGED slips
  PROVE  slips' \in 0 .. MaxSlips
  BY Limits DEF Slip, WinTypeOK

LEMMA UnlockTypes ==
  ASSUME WinTypeOK, NEW r \in Runners, Unlock(r)
  PROVE  runnerLock' \in Runners \cup {NoRunner}
  BY DEF Unlock, WinTypeOK

\* A letter in hand is ahead, so it is in turn.
LEMMA InHand ==
  ASSUME WinInv, NEW r \in Runners, pass[r].pc \in {"check", "claim", "send", "mark"}
  PROVE  /\ Letter(r) \in Letters /\ pass[r].letter = {Letter(r)} /\ InTurn(Letter(r))
         /\ pass[r] \in Pass /\ \A l \in pass[r].todo : InTurn(l)
<1>1. PICK l \in Letters : pass[r].letter = {l}
  BY DEF WinInv, LetterInHand
<1>2. Letter(r) = l
  BY <1>1, LetterIs
<1>3. pass[r] \in Pass
  BY DEF WinInv, WinTypeOK, Pass
<1> QED BY <1>1, <1>2, <1>3 DEF WinInv, Ahead

LEMMA Unmoved == UNCHANGED claim => SentStays
  BY DEF SentStays

\* The next letter of the list.
LEMMA PassedOver ==
  ASSUME WinInv, NEW r \in Runners, pass[r].pc \in {"check", "claim", "send", "mark"},
         NextRecipient(r)
  PROVE  \E q : pass' = [pass EXCEPT ![r] = q] /\ Quiet(q)
<1> DEFINE q == [pass[r] EXCEPT !.pc = "next", !.letter = {}]
<1>1. pass[r] \in Pass /\ pass \in [Runners -> Pass] /\ \A l \in pass[r].todo : InTurn(l)
  BY InHand DEF WinInv, WinTypeOK, Pass
<1>2. pass' = [pass EXCEPT ![r] = q]
  BY <1>1 DEF NextRecipient, Pass
<1>3. Quiet(q)
  BY <1>1 DEF Quiet, Pass
<1> QED BY <1>2, <1>3

\* A runner that goes on with the letter in hand.
LEMMA GoesOn ==
  ASSUME WinInv, NEW r \in Runners, pass[r].pc \in {"check", "claim", "send", "mark"},
         NEW pc \in {"claim", "mark"}, PassGoto(r, pc)
  PROVE  \E q : pass' = [pass EXCEPT ![r] = q] /\ Quiet(q)
<1> DEFINE q == [pass[r] EXCEPT !.pc = pc]
<1>1. pass[r] \in Pass /\ pass \in [Runners -> Pass]
  BY InHand DEF WinInv, WinTypeOK, Pass
<1>2. pass' = [pass EXCEPT ![r] = q]
  BY <1>1 DEF PassGoto, Pass
<1>3. Quiet(q)
  BY <1>1, InHand DEF Quiet, Pass
<1> QED BY <1>2, <1>3

LEMMA LockStep ==
  ASSUME WinInv, NEW r \in Runners, TryRunnerLock(r)
  PROVE  WinInv'
<1> DEFINE q == [pass[r] EXCEPT !.pc = "list"]
<1>1. pass[r] \in Pass /\ pass \in [Runners -> Pass] /\ WinTypeOK
  BY DEF WinInv, WinTypeOK, Pass
<1>2. pass' = [pass EXCEPT ![r] = q]
  BY <1>1 DEF TryRunnerLock, PassGoto, Pass
<1>3. Quiet(q)
  BY <1>1 DEF Quiet, Pass, WinInv, Ahead
<1>4. UNCHANGED <<people, claim, sends, leases, slips>> /\ runnerLock' = r
  BY DEF TryRunnerLock
<1>5. claim' \in [Letters -> {"none", "sending", "stale", "sent"}] /\ slips' \in 0 .. MaxSlips
  BY <1>1, <1>4 DEF WinTypeOK
<1> QED BY <1>2, <1>3, <1>4, <1>5, Unmoved, QuietRunner

LEMMA ListStep ==
  ASSUME WinInv, NEW r \in Runners, ListWinbackCandidates(r)
  PROVE  WinInv'
<1> DEFINE q == [pass[r] EXCEPT !.pc = "next", !.todo = Candidates]
<1>1. pass[r] \in Pass /\ pass \in [Runners -> Pass] /\ WinTypeOK
  BY DEF WinInv, WinTypeOK, Pass
<1>2. pass' = [pass EXCEPT ![r] = q]
  BY <1>1 DEF ListWinbackCandidates, Pass
<1>3. \A l \in Candidates : l \in Letters /\ InTurn(l)
  BY DEF Candidates, IsNextStep, InTurn
<1>4. Quiet(q)
  BY <1>1, <1>3 DEF Quiet, Pass, WinInv, Ahead
<1>5. UNCHANGED <<people, runnerLock, claim, sends, leases, slips>>
  BY DEF ListWinbackCandidates
<1>6. /\ claim' \in [Letters -> {"none", "sending", "stale", "sent"}] /\ slips' \in 0 .. MaxSlips
      /\ runnerLock' \in Runners \cup {NoRunner}
  BY <1>1, <1>5 DEF WinTypeOK
<1> QED BY <1>2, <1>4, <1>5, <1>6, Unmoved, QuietRunner

\* A pass that ends, or is ended.
LEMMA PassEnds ==
  ASSUME WinInv, NEW r \in Runners, pass' = [pass EXCEPT ![r] = NoLetter], Unlock(r),
         Slip \/ UNCHANGED slips, UNCHANGED <<people, claim, sends, leases>>
  PROVE  WinInv'
<1>1. WinTypeOK
  BY DEF WinInv
<1>2. Quiet(NoLetter)
  BY DEF Quiet, NoLetter, Pass
<1>3. claim' \in [Letters -> {"none", "sending", "stale", "sent"}]
  BY <1>1 DEF WinTypeOK
<1> QED BY <1>1, <1>2, <1>3, Unmoved, SlipTypes, UnlockTypes, QuietRunner

LEMMA NextStep ==
  ASSUME WinInv, NEW r \in Runners, NextCandidate(r)
  PROVE  WinInv'
<1>1. pass[r] \in Pass /\ pass \in [Runners -> Pass] /\ WinTypeOK
  BY DEF WinInv, WinTypeOK, Pass
<1>2. ASSUME NEW l \in pass[r].todo,
             pass' = [pass EXCEPT ![r] = [pc |-> "check", todo |-> @.todo \ {l}, letter |-> {l}]],
             UNCHANGED <<people, runnerLock, claim, sends, leases, slips>>
      PROVE  WinInv'
  <2> DEFINE q == [pc |-> "check", todo |-> pass[r].todo \ {l}, letter |-> {l}]
  <2>1. pass' = [pass EXCEPT ![r] = q]
    BY <1>1, <1>2 DEF Pass
  <2>2. Quiet(q)
    <3>1. l \in Letters /\ \A m \in pass[r].todo : InTurn(m)
      BY <1>1 DEF Pass, WinInv, Ahead
    <3>2. q \in Pass /\ q.pc = "check" /\ q.todo \subseteq pass[r].todo /\ q.letter = {l}
      BY <1>1, <3>1 DEF Pass
    <3> QED BY <3>1, <3>2 DEF Quiet
  <2>3. /\ claim' \in [Letters -> {"none", "sending", "stale", "sent"}] /\ slips' \in 0 .. MaxSlips
        /\ runnerLock' \in Runners \cup {NoRunner}
    BY <1>1, <1>2 DEF WinTypeOK
  <2> QED BY <1>2, <2>1, <2>2, <2>3, Unmoved, QuietRunner
<1>3. CASE /\ \E l \in pass[r].todo :
               pass' = [pass EXCEPT ![r] = [pc |-> "check", todo |-> @.todo \ {l}, letter |-> {l}]]
           /\ UNCHANGED <<people, runnerLock, claim, sends, leases, slips>>
  BY <1>2, <1>3
<1>4. CASE /\ pass' = [pass EXCEPT ![r] = NoLetter] /\ Unlock(r) /\ UNCHANGED <<people, claim, sends, leases>>
           /\ Slip \/ UNCHANGED slips
  BY <1>4, PassEnds
<1> QED BY <1>3, <1>4 DEF NextCandidate

\* A step with a letter in hand after which it is kept or put away.
LEMMA HandStep ==
  ASSUME WinInv, NEW r \in Runners, pass[r].pc \in {"check", "claim", "send", "mark"},
         PassGoto(r, "claim") \/ PassGoto(r, "mark") \/ NextRecipient(r),
         Slip \/ UNCHANGED slips,
         claim' \in [Letters -> {"none", "sending", "stale", "sent"}],
         \A l \in Letters : claim'[l] = claim[l] \/ claim'[l] \in {"sending", "sent"},
         SentStays,
         UNCHANGED <<people, runnerLock, sends, leases>>
  PROVE  WinInv'
<1>1. PICK q : pass' = [pass EXCEPT ![r] = q] /\ Quiet(q)
  <2>1. CASE PassGoto(r, "claim")
    BY <2>1, GoesOn
  <2>2. CASE PassGoto(r, "mark")
    BY <2>2, GoesOn
  <2> QED BY <2>1, <2>2, PassedOver
<1>2. WinTypeOK /\ runnerLock' \in Runners \cup {NoRunner}
  BY DEF WinInv, WinTypeOK
<1> QED BY <1>1, <1>2, SlipTypes, QuietRunner

LEMMA OptOutStep ==
  ASSUME WinInv, NEW r \in Runners, IsEmailOptedOut(r)
  PROVE  WinInv'
<1>1. claim' \in [Letters -> {"none", "sending", "stale", "sent"}] /\ UNCHANGED claim
  BY DEF WinInv, WinTypeOK, IsEmailOptedOut
<1> QED BY <1>1, Unmoved, HandStep DEF IsEmailOptedOut, PassAt

LEMMA MarkStep ==
  ASSUME WinInv, NEW r \in Runners, MarkWinbackSent(r)
  PROVE  WinInv'
<1>1. pass[r].pc = "mark" /\ NextRecipient(r) /\ UNCHANGED <<people, runnerLock, sends, leases>>
  BY DEF MarkWinbackSent, PassAt
<1>2. /\ claim' \in [Letters -> {"none", "sending", "stale", "sent"}] /\ SentStays
      /\ \A l \in Letters : claim'[l] = claim[l] \/ claim'[l] \in {"sending", "sent"}
  BY DEF MarkWinbackSent, WinInv, WinTypeOK, SentStays
<1> QED BY <1>1, <1>2, HandStep DEF MarkWinbackSent

\* The claim that leads to a send takes the place of the one it might have been.
LEMMA Claimed ==
  ASSUME WinInv, NEW r \in Runners, pass[r].pc = "claim", Claimable(Letter(r)),
         claim' = [claim EXCEPT ![Letter(r)] = "sending"], PassGoto(r, "send"),
         UNCHANGED <<people, runnerLock, sends, leases, slips>>
  PROVE  WinInv'
<1> DEFINE q == [pass[r] EXCEPT !.pc = "send"]
<1>0. PICK l \in Letters : l = Letter(r)
  BY InHand
<1>1. /\ WinTypeOK /\ l \in Letters /\ pass[r].letter = {l} /\ InTurn(l)
      /\ pass[r] \in Pass /\ \A k \in pass[r].todo : InTurn(k)
  BY <1>0, InHand DEF WinInv
<1>2. /\ q \in Pass /\ q.pc = "send" /\ q.letter = {l} /\ q.todo = pass[r].todo
      /\ pass' = [pass EXCEPT ![r] = q]
      /\ pass' \in [Runners -> Pass] /\ \A k \in Runners : pass'[k] = IF k = r THEN q ELSE pass[k]
  BY <1>1 DEF PassGoto, Pass, WinTypeOK
<1>3. /\ claim \in [Letters -> {"none", "sending", "stale", "sent"}]
      /\ claim' \in [Letters -> {"none", "sending", "stale", "sent"}]
      /\ SentStays /\ claim'[l] = "sending" /\ \A k \in Letters \ {l} : claim'[k] = claim[k]
  BY <1>0, <1>1 DEF WinTypeOK, SentStays, Claimable
<1>4. WinTypeOK'
  BY <1>1, <1>2, <1>3 DEF WinTypeOK, Pass, people
<1>5. ASSUME NEW k \in Runners
      PROVE  LetterInHand(k)' /\ \A m \in Ahead(k)' : InTurn(m)'
  <2>1. Ahead(k)' = Ahead(k) /\ Ahead(k) \subseteq Letters
    BY <1>1, <1>2 DEF Ahead, WinTypeOK
  <2>2. LetterInHand(k)'
    BY <1>1, <1>2 DEF LetterInHand, WinInv
  <2> QED BY <2>1, <2>2, <1>3, InTurnStays DEF WinInv
<1>6. ClaimWorth(l)'
  <2>1. Senders(l)' = Senders(l) \cup {r} /\ r \notin Senders(l)
    BY <1>1, <1>2 DEF Senders, PassAt
  <2>2. Cardinality(Senders(l)') = Cardinality(Senders(l)) + 1
    BY <2>1, SendersFinite, FS_AddElement
  <2>3. StillClaimable(l) = 1 /\ StillClaimable(l)' = 0
    BY <1>0, <1>3 DEF StillClaimable, Claimable
  <2>4. sends[l] + Cardinality(Senders(l)) + StillClaimable(l) <= 1 + leases[l]
    BY <1>1 DEF WinInv, ClaimWorth
  <2>5. sends[l] \in Nat /\ leases[l] \in Nat
    BY <1>1, Limits DEF WinTypeOK
  <2>6. sends'[l] + Cardinality(Senders(l)') + StillClaimable(l)' <= 1 + leases'[l]
    BY <2>2, <2>3, <2>4, <2>5, SendersFinite
  <2> QED BY <2>6 DEF ClaimWorth
<1>7. ASSUME NEW k \in Letters \ {l}
      PROVE  ClaimWorth(k)'
  <2>1. Senders(k)' \subseteq Senders(k)
    BY <1>1, <1>2 DEF Senders, PassAt
  <2> QED BY <2>1, <1>1, <1>3, WorthKept DEF WinInv
<1>8. \A k \in Letters : sends'[k] > 0 => InTurn(k)'
  BY <1>3, InTurnStays DEF WinInv
<1> QED BY <1>4, <1>5, <1>6, <1>7, <1>8 DEF WinInv

LEMMA ClaimStep ==
  ASSUME WinInv, NEW r \in Runners, ClaimWinbackSend(r)
  PROVE  WinInv'
<1>1. pass[r].pc = "claim" /\ UNCHANGED <<people, runnerLock, sends, leases>>
  BY DEF ClaimWinbackSend, PassAt
<1>2. CASE Claimable(Letter(r)) /\ claim' = [claim EXCEPT ![Letter(r)] = "sending"]
           /\ PassGoto(r, "send") /\ UNCHANGED slips
  BY <1>1, <1>2, Claimed
<1>3. CASE Claimable(Letter(r)) /\ claim' = [claim EXCEPT ![Letter(r)] = "sending"]
           /\ Slip /\ NextRecipient(r)
  <2>1. /\ claim' \in [Letters -> {"none", "sending", "stale", "sent"}] /\ SentStays
        /\ \A l \in Letters : claim'[l] = claim[l] \/ claim'[l] \in {"sending", "sent"}
    BY <1>3 DEF WinInv, WinTypeOK, SentStays, Claimable
  <2> QED BY <1>1, <1>3, <2>1, HandStep
<1>4. CASE NextRecipient(r) /\ UNCHANGED claim /\ (Slip \/ UNCHANGED slips)
  <2>1. claim' \in [Letters -> {"none", "sending", "stale", "sent"}]
    BY <1>4 DEF WinInv, WinTypeOK
  <2> QED BY <1>1, <1>4, <2>1, Unmoved, HandStep
<1> QED BY <1>2, <1>3, <1>4 DEF ClaimWinbackSend

\* The e-mail that goes out is one its sender was counted for.
LEMMA Sent ==
  ASSUME WinInv, NEW r \in Runners, pass[r].pc = "send",
         sends' = [sends EXCEPT ![Letter(r)] = @ + 1],
         PassGoto(r, "mark") \/ NextRecipient(r), Slip \/ UNCHANGED slips,
         UNCHANGED <<people, runnerLock, claim, leases>>
  PROVE  WinInv'
<1>0. PICK l \in Letters : l = Letter(r)
  BY InHand
<1>1. /\ WinTypeOK /\ pass[r].letter = {l} /\ InTurn(l) /\ SentStays
  BY <1>0, InHand, Unmoved DEF WinInv
<1>2. PICK q : pass' = [pass EXCEPT ![r] = q] /\ Quiet(q)
  <2>1. CASE PassGoto(r, "mark")
    BY <2>1, GoesOn
  <2> QED BY <2>1, PassedOver
<1>3. pass' \in [Runners -> Pass] /\ \A k \in Runners : pass'[k] = IF k = r THEN q ELSE pass[k]
  BY <1>1, <1>2 DEF WinTypeOK, Quiet, Pass
<1>4. /\ sends \in [Letters -> Nat] /\ sends' \in [Letters -> Nat]
      /\ sends'[l] = sends[l] + 1 /\ \A k \in Letters \ {l} : sends'[k] = sends[k]
  BY <1>0, <1>1 DEF WinTypeOK
<1>5. WinTypeOK'
  BY <1>1, <1>3, <1>4, SlipTypes DEF WinTypeOK, Pass, people
<1>6. ASSUME NEW k \in Runners
      PROVE  LetterInHand(k)' /\ \A m \in Ahead(k)' : InTurn(m)'
  <2>1. CASE k = r
    <3>1. Ahead(k)' \subseteq Letters /\ \A m \in Ahead(k)' : InTurn(m)
      BY <2>1, <1>2, <1>3 DEF Ahead, Quiet, Pass
    <3>2. LetterInHand(k)'
      BY <2>1, <1>2, <1>3 DEF LetterInHand, Quiet
    <3> QED BY <3>1, <3>2, <1>1, InTurnStays
  <2>2. CASE k # r
    <3>1. LetterInHand(k)' /\ Ahead(k)' = Ahead(k)
      BY <2>2, <1>3 DEF LetterInHand, Ahead, WinInv
    <3>2. Ahead(k) \subseteq Letters
      BY <1>1 DEF Ahead, WinTypeOK
    <3> QED BY <3>1, <3>2, <1>1, InTurnStays DEF WinInv
  <2> QED BY <2>1, <2>2
<1>7. ClaimWorth(l)'
  <2>1. Senders(l)' = Senders(l) \ {r} /\ r \in Senders(l)
    BY <1>1, <1>2, <1>3 DEF Senders, PassAt, Quiet
  <2>2. Cardinality(Senders(l)') = Cardinality(Senders(l)) - 1
    BY <2>1, SendersFinite, FS_RemoveElement
  <2>3. StillClaimable(l)' = StillClaimable(l) /\ StillClaimable(l) \in 0 .. 1
    BY DEF StillClaimable
  <2>4. sends[l] + Cardinality(Senders(l)) + StillClaimable(l) <= 1 + leases[l]
    BY <1>1 DEF WinInv, ClaimWorth
  <2>5. sends[l] \in Nat /\ leases[l] \in Nat
    BY <1>1, Limits DEF WinTypeOK
  <2>6. sends'[l] + Cardinality(Senders(l)') + StillClaimable(l)' <= 1 + leases'[l]
    BY <1>4, <2>2, <2>3, <2>4, <2>5, SendersFinite
  <2> QED BY <2>6 DEF ClaimWorth
<1>8. ASSUME NEW k \in Letters \ {l}
      PROVE  ClaimWorth(k)'
  <2>1. Senders(k)' \subseteq Senders(k)
    BY <1>2, <1>3 DEF Senders, PassAt, Quiet
  <2> QED BY <2>1, <1>1, <1>4, WorthKept DEF WinInv
<1>9. ASSUME NEW k \in Letters
      PROVE  sends'[k] > 0 => InTurn(k)'
  BY <1>1, <1>4, InTurnStays DEF WinInv
<1> QED BY <1>5, <1>6, <1>7, <1>8, <1>9 DEF WinInv

LEMMA SendStep ==
  ASSUME WinInv, NEW r \in Runners, SendWinbackEmail(r)
  PROVE  WinInv'
<1>1. pass[r].pc = "send" /\ UNCHANGED <<people, runnerLock, claim, leases>>
  BY DEF SendWinbackEmail, PassAt
<1>2. CASE /\ sends' = [sends EXCEPT ![Letter(r)] = @ + 1]
           /\ (PassGoto(r, "mark") /\ UNCHANGED slips) \/ (Slip /\ NextRecipient(r))
  BY <1>1, <1>2, Sent
<1>3. CASE UNCHANGED sends /\ Slip /\ NextRecipient(r)
  <2>1. claim' \in [Letters -> {"none", "sending", "stale", "sent"}]
    BY <1>1 DEF WinInv, WinTypeOK
  <2> QED BY <1>1, <1>3, <2>1, Unmoved, HandStep
<1> QED BY <1>2, <1>3 DEF SendWinbackEmail

LEMMA LeaseStep ==
  ASSUME WinInv, NEW l \in Letters, LeaseEnds(l)
  PROVE  WinInv'
<1>1. WinTypeOK /\ UNCHANGED <<people, runnerLock, pass, sends, slips>>
  BY DEF LeaseEnds, WinInv
<1>2. /\ claim' \in [Letters -> {"none", "sending", "stale", "sent"}]
      /\ claim[l] = "sending" /\ claim'[l] = "stale"
      /\ \A k \in Letters \ {l} : claim'[k] = claim[k]
  BY <1>1 DEF LeaseEnds, WinTypeOK
<1>3. /\ leases' \in [Letters -> 0 .. MaxLeases] /\ leases'[l] = leases[l] + 1
      /\ \A k \in Letters \ {l} : leases'[k] = leases[k]
  BY <1>1, Limits DEF LeaseEnds, WinTypeOK
<1>4. WinTypeOK' /\ SentStays
  BY <1>1, <1>2, <1>3 DEF WinTypeOK, people, SentStays
<1>5. ASSUME NEW k \in Runners
      PROVE  LetterInHand(k)' /\ \A m \in Ahead(k)' : InTurn(m)'
  <2>1. LetterInHand(k)' /\ Ahead(k)' = Ahead(k) /\ Ahead(k) \subseteq Letters
    BY <1>1 DEF LetterInHand, Ahead, WinInv, WinTypeOK
  <2> QED BY <2>1, <1>4, InTurnStays DEF WinInv
<1>6. \A k : Senders(k)' = Senders(k)
  BY <1>1 DEF Senders, PassAt
<1>7. ClaimWorth(l)'
  <2>1. StillClaimable(l) = 0 /\ StillClaimable(l)' = 1
    BY <1>2 DEF StillClaimable
  <2>2. sends[l] + Cardinality(Senders(l)) + StillClaimable(l) <= 1 + leases[l]
    BY <1>1 DEF WinInv, ClaimWorth
  <2>3. sends[l] \in Nat /\ leases[l] \in Nat
    BY <1>1, Limits DEF WinTypeOK
  <2>4. sends'[l] + Cardinality(Senders(l)') + StillClaimable(l)' <= 1 + leases'[l]
    BY <1>1, <1>3, <1>6, <2>1, <2>2, <2>3, SendersFinite
  <2> QED BY <2>4 DEF ClaimWorth
<1>8. ASSUME NEW k \in Letters \ {l}
      PROVE  ClaimWorth(k)'
  BY <1>1, <1>2, <1>3, <1>6, WorthKept DEF WinInv
<1>9. \A k \in Letters : sends'[k] > 0 => InTurn(k)'
  BY <1>1, <1>4, InTurnStays DEF WinInv
<1> QED BY <1>4, <1>5, <1>7, <1>8, <1>9 DEF WinInv

\* Days pass, customers return or unsubscribe, the lock is lost: no letter moves.
LEMMA PeopleStep ==
  ASSUME WinInv, WinTypeOK', UNCHANGED <<pass, claim, sends, leases>>
  PROVE  WinInv'
  BY Unmoved, QuietStep

LEMMA WorldStep ==
  ASSUME WinInv,
         \/ \E p \in Recipients : DayComes(p) \/ Returns(p) \/ OptsOut(p)
         \/ ConnectionLost
  PROVE  WinInv'
<1>1. WinTypeOK
  BY DEF WinInv
<1>2. ASSUME NEW p \in Recipients, DayComes(p)
      PROVE  WinTypeOK' /\ UNCHANGED <<pass, claim, sends, leases>>
  BY <1>1, <1>2, Limits DEF DayComes, WinTypeOK
<1>3. ASSUME NEW p \in Recipients, Returns(p)
      PROVE  WinTypeOK' /\ UNCHANGED <<pass, claim, sends, leases>>
  BY <1>1, <1>3, Limits DEF Returns, WinTypeOK
<1>4. ASSUME NEW p \in Recipients, OptsOut(p)
      PROVE  WinTypeOK' /\ UNCHANGED <<pass, claim, sends, leases>>
  BY <1>1, <1>4 DEF OptsOut, WinTypeOK
<1>5. ASSUME ConnectionLost
      PROVE  WinTypeOK' /\ UNCHANGED <<pass, claim, sends, leases>>
  BY <1>1, <1>5, SlipTypes DEF ConnectionLost, WinTypeOK, people
<1> QED BY <1>2, <1>3, <1>4, <1>5, PeopleStep

--------------------------------------------------------------------------------
LEMMA WinInitHolds == WinInit => WinInv
<1> SUFFICES ASSUME WinInit
             PROVE  WinInv
  OBVIOUS
<1>1. WinTypeOK
  BY Limits DEF WinInit, WinTypeOK, NoLetter
<1>2. ASSUME NEW r \in Runners
      PROVE  LetterInHand(r) /\ \A l \in Ahead(r) : InTurn(l)
  BY DEF WinInit, NoLetter, LetterInHand, Ahead
<1>3. ASSUME NEW l \in Letters
      PROVE  ClaimWorth(l) /\ (sends[l] > 0 => InTurn(l))
  <2>1. Senders(l) = {}
    BY DEF WinInit, NoLetter, Senders, PassAt
  <2>2. Cardinality(Senders(l)) = 0
    BY <2>1, FS_EmptySet
  <2>3. sends[l] = 0 /\ leases[l] = 0 /\ StillClaimable(l) = 1
    BY DEF WinInit, StillClaimable
  <2> QED BY <2>2, <2>3 DEF ClaimWorth
<1> QED BY <1>1, <1>2, <1>3 DEF WinInv

LEMMA WinStep == WinInv /\ [WinNext]_winVars => WinInv'
<1> SUFFICES ASSUME WinInv, [WinNext]_winVars
             PROVE  WinInv'
  OBVIOUS
<1>1. ASSUME NEW r \in Runners, TryRunnerLock(r)
      PROVE  WinInv'
  BY <1>1, LockStep
<1>2. ASSUME NEW r \in Runners, PassStep(r)
      PROVE  WinInv'
  BY <1>2, ListStep, NextStep, OptOutStep, ClaimStep, SendStep, MarkStep DEF PassStep
<1>3. ASSUME NEW r \in Runners, RunnerStops(r)
      PROVE  WinInv'
  BY <1>3, PassEnds DEF RunnerStops
<1>4. ASSUME NEW l \in Letters, LeaseEnds(l)
      PROVE  WinInv'
  BY <1>4, LeaseStep
<1>5. CASE UNCHANGED winVars
  <2>1. UNCHANGED <<due, optedOut, runnerLock, pass, claim, sends, leases, slips>>
    BY <1>5 DEF winVars, people
  <2>2. WinTypeOK'
    BY <2>1 DEF WinInv, WinTypeOK
  <2> QED BY <2>1, <2>2, PeopleStep
<1> QED BY <1>1, <1>2, <1>3, <1>4, <1>5, WorldStep DEF WinNext

\* The inductive invariant: a runner has one letter in hand between its list and
\* the mark, the steps before a letter that is ahead are marked, and each claim
\* of a letter is worth one e-mail (processWinbackEmailsWith, ClaimWinbackSend,
\* MarkWinbackSent).
THEOREM WinbackInvariant == WinSpec => []WinInv
<1> QED BY WinInitHolds, WinStep, PTL DEF WinSpec

LEMMA SentOnce ==
    WinInv => WinbackOnce
<1> SUFFICES ASSUME WinInv, NEW l \in Letters
             PROVE  sends[l] <= 1 + leases[l] /\ (sends[l] > 0 => InTurn(l))
  BY DEF WinbackOnce
<1>1. sends[l] \in Nat /\ leases[l] \in Nat /\ StillClaimable(l) \in 0 .. 1
  BY Limits DEF WinInv, WinTypeOK, StillClaimable
<1>2. sends[l] + Cardinality(Senders(l)) + StillClaimable(l) <= 1 + leases[l]
  BY DEF WinInv, ClaimWorth
<1> QED BY <1>1, <1>2, SendersFinite DEF WinInv

\* However many processes lose their locks, stop or are slow, a step is sent once
\* and once more for each lease that ran out, and never before the one before it
\* was marked (ClaimWinbackSend).
THEOREM SentOncePerLease == WinSpec => []WinbackOnce
<1> QED BY SentOnce, WinbackInvariant, PTL

--------------------------------------------------------------------------------
LEMMA PaymentsStep == PaymentsInv /\ [PaymentsNext]_paymentVars => PaymentsInv'
<1> SUFFICES ASSUME PaymentsInv, [PaymentsNext]_paymentVars
             PROVE  PaymentsInv'
  OBVIOUS
<1>1. [Next]_vars
  BY DEF PaymentsNext, paymentVars
<1>2. [SubNext]_subVars
  BY DEF PaymentsNext, paymentVars
<1>3. [WinNext]_winVars
  BY DEF PaymentsNext, paymentVars
<1>4. AInv'
  BY <1>1, NextKeeps, NextKeys DEF PaymentsInv, AInv
<1>5. WebhookInv'
  BY <1>2, SubStep DEF PaymentsInv
<1>6. WinInv'
  BY <1>3, WinStep DEF PaymentsInv
<1> QED
  BY <1>4, <1>5, <1>6 DEF PaymentsInv

\* Top-ups, webhooks and the e-mails to customers who have left keep their
\* invariants side by side: none writes what another's invariant speaks of.
THEOREM PaymentsInvariant == PaymentsSpec => []PaymentsInv
<1>1. PaymentsInit => PaymentsInv
  BY InitInvariant, InitKeys, SubInitHolds, WinInitHolds DEF PaymentsInit, PaymentsInv, AInv
<1> QED
  BY <1>1, PaymentsStep, PTL DEF PaymentsSpec

\* So they keep what each promises: the card is charged once in six hours, credits
\* follow a payment and a failure pauses the charges; a payment is credited once
\* and not lost, and one subscription's row is Stripe's; an e-mail is sent once a
\* lease.
THEOREM PaymentsKeepTheirWord ==
  PaymentsSpec => /\ [](OneChargePerBucket /\ CreditedOnce /\ PaymentNotLost /\ SoleSubscriptionMirrored /\ WinbackOnce)
                  /\ CreditsFollowPayment /\ FailurePausesCharges
<1> DEFINE All == PaymentsInv /\ PaymentNotLost /\ MirrorInv
<1>1. PaymentsInit => All
  <2> SUFFICES ASSUME PaymentsInit PROVE All
    OBVIOUS
  <2>1. PaymentsInv
    BY InitInvariant, InitKeys, SubInitHolds, WinInitHolds DEF PaymentsInit, PaymentsInv, AInv
  <2>2. PaymentNotLost /\ MirrorInv
    BY SubInitHolds, MirrorStarts DEF PaymentsInit
  <2> QED BY <2>1, <2>2
<1>2. All /\ [PaymentsNext]_paymentVars => All'
  <2> SUFFICES ASSUME All, [PaymentsNext]_paymentVars PROVE All'
    OBVIOUS
  <2>1. [SubNext]_subVars
    BY DEF PaymentsNext, paymentVars
  <2>2. PaymentsInv'
    BY PaymentsStep
  <2>3. PaymentNotLost' /\ MirrorInv'
    BY <2>1, SubStep, MirrorStep DEF PaymentsInv
  <2> QED BY <2>2, <2>3
<1>3. All => OneChargePerBucket
  BY KeysCount DEF PaymentsInv, AInv
<1>4. All => CreditedOnce /\ PaymentNotLost /\ SoleSubscriptionMirrored
  BY OnceCredited, MirrorShows DEF PaymentsInv
<1>5. All => WinbackOnce
  BY SentOnce DEF PaymentsInv
<1>6. All /\ [PaymentsNext]_paymentVars => AInv /\ [Next]_vars
  BY DEF PaymentsNext, paymentVars, PaymentsInv
<1>7. All /\ [PaymentsNext]_paymentVars =>
        [\A u \in Users :
           deposited'[u] # deposited[u]
             => \E p \in payments[u] :
                  p.status = "succeeded" /\ p.amount = deposited'[u] - deposited[u]]_vars
  BY <1>6, CreditsPaid
<1>8. All /\ [PaymentsNext]_paymentVars =>
        [\A u \in Users :
           payments'[u] # payments[u]
             => charge[u].status # "failed" \/ charge[u].at + Bucket <= now]_vars
  BY <1>6, FailureRests
<1> HIDE DEF All
<1> QED
  BY <1>1, <1>2, <1>3, <1>4, <1>5, <1>7, <1>8, PTL DEF PaymentsSpec, CreditsFollowPayment, FailurePausesCharges
================================================================================
