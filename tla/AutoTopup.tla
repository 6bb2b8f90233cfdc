------------------------------- MODULE AutoTopup -------------------------------
(***************************************************************************)
(* Automatic top-ups (stripe.go): when a user's balance falls to a         *)
(* threshold, a background run charges the stored card and adds credits.   *)
(* A run is a chain of single statements and one call to Stripe, with a    *)
(* cool-down of a minute after a success, a pause of six hours after a     *)
(* recorded failure, and an idempotency key made of the user and the       *)
(* six-hour bucket of the clock.                                           *)
(*                                                                         *)
(* Time passes in steps of the cool-down, Bucket of which make six hours.  *)
(* One credit costs one unit of money (cutePrice is constant here).        *)
(***************************************************************************)
EXTENDS Naturals, FiniteSetsExt

CONSTANTS
  Users,
  Runs,                   \* goroutines that may execute runAutoTopup
  Bucket,                 \* cool-downs in six hours
  Thresholds, Amounts,    \* what handleSaveAutotopupSettings accepts
  StartCredits, MaxNow, MaxFaults, MaxCrashes,   \* bounds
  NoUser

ASSUME BucketAssumption == Bucket \in Nat \ {0}
ASSUME SettingsAssumption == Thresholds \subseteq Nat /\ Amounts \subseteq Nat \ {0}
ASSUME LimitAssumption ==
  StartCredits \in Nat /\ MaxNow \in Nat \ {0} /\ MaxFaults \in Nat /\ MaxCrashes \in Nat
ASSUME NoUserAssumption == NoUser \notin Users

VARIABLES
  now,       \* the clock
  settings,  \* users.autotopup_enabled, _threshold_usd, _amount_usd
  credits,   \* users.credits
  deposited, \* users.total_deposited, the part added by top-ups
  booked,    \* per user, the credits of the billing events "stripe_autotopup"
  lastAt,    \* users.autotopup_last_at
  charge,    \* the latest row of autotopup_charges
  payments,  \* at Stripe: the payment intents, found again by their key
  inFlight,  \* autoTopupInFlight
  run,       \* the goroutines
  faults, crashes

account == <<settings, credits, deposited, booked, lastAt, charge>>
vars == <<now, account, payments, inFlight, run, faults, crashes>>

\* No time stands for a NULL or missing timestamp: the clock starts at 1.
Never == 0
Times == 1 .. MaxNow

Setting == [enabled : BOOLEAN, threshold : Thresholds, amount : Amounts]
ChargeRow == [status : {"none", "succeeded", "failed"}, at : Times \cup {Never}]
Payment == [key : Nat, amount : Amounts, status : {"succeeded", "declined"}]

RunPC == {"idle", "user", "last", "charge", "credit", "event", "lastAt", "log", "failed", "exit"}
Run == [pc : RunPC, user : Users \cup {NoUser}, amount : Amounts \cup {0}, key : Nat]
IdleRun == [pc |-> "idle", user |-> NoUser, amount |-> 0, key |-> 0]

TypeOK ==
  /\ now \in Times
  /\ settings \in [Users -> Setting]
  /\ credits \in [Users -> Nat] /\ deposited \in [Users -> Nat] /\ booked \in [Users -> Nat]
  /\ lastAt \in [Users -> Times \cup {Never}]
  /\ charge \in [Users -> ChargeRow]
  /\ payments \in [Users -> SUBSET Payment]
  /\ inFlight \subseteq Users
  /\ run \in [Runs -> Run]
  /\ faults \in 0 .. MaxFaults /\ crashes \in 0 .. MaxCrashes

Init ==
  /\ now = 1
  /\ settings \in [Users -> {s \in Setting : ~s.enabled}]
  /\ credits = [u \in Users |-> StartCredits]
  /\ deposited = [u \in Users |-> 0]
  /\ booked = [u \in Users |-> 0]
  /\ lastAt = [u \in Users |-> Never]
  /\ charge = [u \in Users |-> [status |-> "none", at |-> Never]]
  /\ payments = [u \in Users |-> {}]
  /\ inFlight = {}
  /\ run = [r \in Runs |-> IdleRun]
  /\ faults = 0
  /\ crashes = 0

At(r, pc) == run[r].pc = pc
Goto(r, pc) == run' = [run EXCEPT ![r].pc = pc]
Fault == faults < MaxFaults /\ faults' = faults + 1

--------------------------------------------------------------------------------
\* The user, the clock and the process

Spend(u) ==
  /\ \E n \in 1 .. credits[u] : credits' = [credits EXCEPT ![u] = @ - n]
  /\ UNCHANGED <<now, settings, deposited, booked, lastAt, charge, payments, inFlight, run, faults, crashes>>

UpdateAutotopupSettings(u) ==
  /\ \E s \in Setting : settings' = [settings EXCEPT ![u] = s]
  /\ UNCHANGED <<now, credits, deposited, booked, lastAt, charge, payments, inFlight, run, faults, crashes>>

Tick ==
  /\ now < MaxNow
  /\ now' = now + 1
  /\ UNCHANGED <<account, payments, inFlight, run, faults, crashes>>

\* Goroutines and the in-memory register are lost; the database and Stripe stay.
Crash ==
  /\ crashes < MaxCrashes
  /\ crashes' = crashes + 1
  /\ inFlight' = {}
  /\ run' = [r \in Runs |-> IdleRun]
  /\ UNCHANGED <<now, account, payments, faults>>

--------------------------------------------------------------------------------
\* A run

\* Every handler that spent credits ends with this call; LoadOrStore lets one
\* run per user go on.
maybeTriggerAutoTopup(u) ==
  /\ u \notin inFlight
  /\ \E r \in Runs :
       At(r, "idle") /\ run' = [run EXCEPT ![r] = [IdleRun EXCEPT !.pc = "user", !.user = u]]
  /\ inFlight' = inFlight \cup {u}
  /\ UNCHANGED <<now, account, payments, faults, crashes>>

\* The conditions on the row GetUserByID returned.
Due(u) ==
  /\ settings[u].enabled
  /\ credits[u] <= settings[u].threshold
  /\ lastAt[u] < now

\* The amount is remembered from here on.  A run also ends when the row cannot
\* be read.
ReadUser(r) ==
  /\ At(r, "user")
  /\ LET u == run[r].user
     IN \/ Due(u) /\ run' = [run EXCEPT ![r].pc = "last", ![r].amount = settings[u].amount]
        \/ Goto(r, "exit")
  /\ UNCHANGED <<now, account, payments, inFlight, faults, crashes>>

\* A slip: a recorded failure does not pause the top-ups.
NeverPaused(u) == FALSE

PausedByFailure(u) == charge[u].status = "failed" /\ charge[u].at + Bucket > now

\* A slip: a key for every charge.
KeyOfMoment == now

\* The part of the idempotency key that changes.
idempotencyKey == now \div Bucket

LastAutotopupCharge(r) ==
  /\ At(r, "last")
  /\ \/ /\ ~PausedByFailure(run[r].user)
        /\ run' = [run EXCEPT ![r].pc = "charge", ![r].key = idempotencyKey]
     \/ Goto(r, "exit")
  /\ UNCHANGED <<now, account, payments, inFlight, faults, crashes>>

\* Stripe executes a key once and answers a repetition with the first result;
\* a repetition with another amount is an error.
StripeAnswers(u, k, a, answer) ==
  \/ /\ \A p \in payments[u] : p.key # k
     /\ answer # "error"
     /\ payments' = [payments EXCEPT ![u] = @ \cup {[key |-> k, amount |-> a, status |-> answer]}]
  \/ /\ \E p \in payments[u] :
          p.key = k /\ answer = IF p.amount = a THEN p.status ELSE "error"
     /\ UNCHANGED payments

\* A slip: any payment intent is taken for a payment.
AcceptedAnyStatus == {"succeeded", "declined"}

\* resp.Status != "succeeded" is an error, as is every answer of 400 and above.
Accepted == {"succeeded"}

\* The answer, or nothing: the request or its answer is lost.
chargeOffSession(r) ==
  /\ At(r, "charge")
  /\ LET s == run[r]
     IN \/ \E answer \in {"succeeded", "declined", "error"} :
             /\ StripeAnswers(s.user, s.key, s.amount, answer)
             /\ \/ Goto(r, IF answer \in Accepted THEN "credit" ELSE "failed") /\ UNCHANGED faults
                \/ Goto(r, "failed") /\ Fault
        \/ Goto(r, "failed") /\ Fault /\ UNCHANGED payments
  /\ UNCHANGED <<now, account, inFlight, crashes>>

\* A slip: the amount is read again from the settings.
CreditsOfSettings(r) ==
  /\ At(r, "credit")
  /\ LET u == run[r].user
         a == settings[u].amount
     IN /\ credits' = [credits EXCEPT ![u] = @ + a]
        /\ deposited' = [deposited EXCEPT ![u] = @ + a]
        /\ Goto(r, "event") /\ UNCHANGED faults
  /\ UNCHANGED <<now, settings, booked, lastAt, charge, payments, inFlight, crashes>>

AddPurchasedCredits(r) ==
  /\ At(r, "credit")
  /\ LET u == run[r].user
         a == run[r].amount
     IN \/ /\ credits' = [credits EXCEPT ![u] = @ + a]
           /\ deposited' = [deposited EXCEPT ![u] = @ + a]
           /\ Goto(r, "event") /\ UNCHANGED faults
        \/ Goto(r, "failed") /\ Fault /\ UNCHANGED <<credits, deposited>>
  /\ UNCHANGED <<now, settings, booked, lastAt, charge, payments, inFlight, crashes>>

\* The errors of the three statements that follow are dropped.
CreateBillingEvent(r) ==
  /\ At(r, "event") /\ Goto(r, "lastAt")
  /\ \/ booked' = [booked EXCEPT ![run[r].user] = @ + run[r].amount] /\ UNCHANGED faults
     \/ Fault /\ UNCHANGED booked
  /\ UNCHANGED <<now, settings, credits, deposited, lastAt, charge, payments, inFlight, crashes>>

SetAutotopupLastAt(r) ==
  /\ At(r, "lastAt") /\ Goto(r, "log")
  /\ \/ lastAt' = [lastAt EXCEPT ![run[r].user] = now] /\ UNCHANGED faults
     \/ Fault /\ UNCHANGED lastAt
  /\ UNCHANGED <<now, settings, credits, deposited, booked, charge, payments, inFlight, crashes>>

LogAutotopupCharge(r) ==
  /\ run[r].pc \in {"log", "failed"} /\ Goto(r, "exit")
  /\ LET status == IF At(r, "log") THEN "succeeded" ELSE "failed"
     IN \/ charge' = [charge EXCEPT ![run[r].user] = [status |-> status, at |-> now]] /\ UNCHANGED faults
        \/ Fault /\ UNCHANGED charge
  /\ UNCHANGED <<now, settings, credits, deposited, booked, lastAt, payments, inFlight, crashes>>

\* The deferred autoTopupInFlight.Delete.
Exit(r) ==
  /\ At(r, "exit")
  /\ inFlight' = inFlight \ {run[r].user}
  /\ run' = [run EXCEPT ![r] = IdleRun]
  /\ UNCHANGED <<now, account, payments, faults, crashes>>

RunStep(r) ==
  \/ ReadUser(r) \/ LastAutotopupCharge(r) \/ chargeOffSession(r) \/ AddPurchasedCredits(r)
  \/ CreateBillingEvent(r) \/ SetAutotopupLastAt(r) \/ LogAutotopupCharge(r) \/ Exit(r)

Next ==
  \/ \E u \in Users : Spend(u) \/ UpdateAutotopupSettings(u) \/ maybeTriggerAutoTopup(u)
  \/ \E r \in Runs : RunStep(r)
  \/ Tick \/ Crash

Spec == Init /\ [][Next]_vars

--------------------------------------------------------------------------------
\* Properties

\* One run per user at a time, and the register knows it: a run that ended left
\* it, one that works is in it (autoTopupInFlight).
OneRunPerUser ==
  /\ \A u \in Users : u \in inFlight <=> \E r \in Runs : run[r].user = u
  /\ \A r, q \in Runs : run[r].user \in Users /\ run[r].user = run[q].user => r = q

\* The credits in the billing events never run ahead of the credits added: the
\* event is written after the credits, and only for them (runAutoTopup).
BookedIsDeposited == \A u \in Users : booked[u] <= deposited[u]

\* The card is charged at most once in six hours of the clock, however many
\* runs, lost answers and restarts there were in them (the idempotency key).
OneChargePerBucket ==
  \A u \in Users : Cardinality(payments[u]) <= now \div Bucket + 1

\* What a run may rely on where it stands: its checks still hold, because no
\* other run of its user is under way.
RunReady(r) ==
  LET s == run[r]
      u == s.user
  IN /\ s.pc = "idle" <=> u = NoUser
     /\ s.pc \notin {"idle", "user", "exit"} => s.amount \in Amounts
     /\ s.pc \in {"last", "charge", "credit"} => lastAt[u] < now
     /\ s.pc = "charge" => charge[u].status # "failed" \/ charge[u].at + Bucket <= now
     /\ s.pc = "credit" => \E p \in payments[u] : p.status = "succeeded" /\ p.amount = s.amount
     /\ s.pc = "event" => booked[u] + s.amount <= deposited[u]

RunsInv == TypeOK /\ OneRunPerUser /\ BookedIsDeposited /\ \A r \in Runs : RunReady(r)

\* Stripe holds one payment per key, and no key is of a bucket to come.
KeysOrdered ==
  /\ \A u \in Users : \A p, q \in payments[u] : p.key = q.key => p = q
  /\ \A u \in Users : \A p \in payments[u] : p.key <= now \div Bucket
  /\ \A r \in Runs : run[r].pc = "charge" => run[r].key <= now \div Bucket

\* The inductive invariant.
AInv == RunsInv /\ KeysOrdered

\* Credits are added only for a payment Stripe holds as succeeded, of the amount
\* added, also when the settings changed after the run had read them.
CreditsFollowPayment ==
  [][\A u \in Users :
       deposited'[u] # deposited[u]
         => \E p \in payments[u] :
              p.status = "succeeded" /\ p.amount = deposited'[u] - deposited[u]]_vars

\* Stripe is not asked for a new payment within six hours of a recorded failure.
FailurePausesCharges ==
  [][\A u \in Users :
       payments'[u] # payments[u]
         => charge[u].status # "failed" \/ charge[u].at + Bucket <= now]_vars

\* Two top-ups of a user are a cool-down apart, counted from the recorded one.
TopupsCoolDown ==
  [][\A u \in Users : deposited'[u] # deposited[u] => lastAt[u] < now]_vars

\* Credits were bought: a top-up never adds more than the user paid for
\* (AddPurchasedCredits, users.total_deposited).
Paid(u) == MapThenSumSet(LAMBDA p : p.amount, {p \in payments[u] : p.status = "succeeded"})
DepositsArePaid == \A u \in Users : deposited[u] <= Paid(u)
================================================================================
