# Verification of ManifoldGen

TLA+ models, TLC runs and TLAPS proofs about the Go server in `server/`, the
command-line client in `cli/` and the web frontend in `frontend/` (paths below
are relative to the repository's root, here `src/`). The service sells media
generation for credits. The server takes a request, submits it to a GPU
provider, watches the provider in the background, and releases the result for
credits; what can go wrong lies between the statements of a handler: another
request, a watcher, a restart, or an answer that never came. The clients upload
files, post paid jobs, poll them and keep the user's work; what can go wrong
lies between two awaits: a newer gesture, an answer out of order, a failed save.

## 1. Inventory

| Component | State | Operations | Hard behaviour | Correct when |
|---|---|---|---|---|
| Video job rows and settlement (`db.go`) | `video_jobs`, `users.credits`, `billing_events`, under `DB.mu` | create, update, move, requeue, cancel, settle, delete; `AddUserCredits` | one statement is atomic, a handler is not; a commit whose answer is lost | a job is charged at most once, with its event, and released only for its charge |
| Client handlers (`video.go`) | none of their own | submit, status, list, cancel, retry, delete | read the row, call a provider, write the row; two requests at once | a cancelled job stays cancelled and free; a paid result stays available |
| Watchers (`video.go`, `h3_fal.go`, `video_quality.go`) | `activeVideoJobs`, the goroutine's copy of the row | launch, poll, fall back, settle, fail | snapshots grow stale; registration against exit; restart | one watcher per job; every polled job reaches an outcome |
| Flex lane (`h3_flex.go`) and batch tier (`runpod_broker.go`) | `runpodBatchJobs` (memory) | move to fal, batch to serverless | three calls, each of which may fail | the move keeps the job and leaves one request |
| H3 routing and circuit breaker (`h3_router.go`, `h3_circuit.go`) | breaker counters | choose a route | half-open probes | a failing route is left, and tried again |
| H3 endpoint scaling (`h3_scale.go`) | per-endpoint lock, reaper and its generation, known-maximum cache | scale up, submit, schedule, reap | the reaper's idle check against a submission; stale cache; an update applied although it was answered with an error | no job is left on an endpoint with zero workers; an idle endpoint goes back to zero |
| Reserve and refund (`services.go`, `studio.go`, `credit_preflight.go`) | `users.credits` and a job row | debit, call, refund | a crash between debit and refund, a refund repeated after a restart | what failed is refunded, what was delivered is not, and nothing is refunded twice but for a mishap |
| Stripe payments (`stripe.go`, `db.go`) | `autotopup_charges`, checkouts, subscription columns | threshold top-up, checkout, webhooks | idempotency keys, duplicated and reordered events, always answered 200 | credits granted = payments made |
| Subscriptions, churn, win-back (`churn.go`, `churn_store.go`) | claims with a lease, coupons | claim, send, mark | a sender slower than its lease | a step is sent at most once, or the exception is known |
| Character swap and LoRA dispatch (`character_swap*.go`) | chunk states, rounds, capacity | dispatch, watch, retry | rounds with partial failure | every clip ends rendered or failed |
| Other job services (reference video, restyle, background, remake, images, music) | a `video_jobs` row each | as above, other providers | as above | as above |
| Response cache (`response_cache.go`), music capacity (`music_capacity.go`) | entry, refresh flag; warm state | serve, refresh; decide | concurrent refresh | at most one refresh, old body kept on failure |
| Referrals, email drip (`referrals.go`, `email.go`) | reward rows, sent steps | reward once, send step | duplicate triggers | once per referee / step |
| Command-line client (`cli/src`) | the config file, the output directory, both shared by processes | login, logout, generate, render, job; upload, post, poll, save | the file is emptied and then written; free names are looked up before a download; signals | one paid request, a key the service approved, files never replaced, an exit code that tells the truth |
| Pages that run a job (`frontend/app/tools/*`, `components/*`) | inputs, estimate, phase, the job polled | choose, upload, estimate, run, poll | estimates and uploads out of order; phases written by several handlers | one paid run at a time; the price shown is that of the inputs |
| Image pages | picture, mask, stored address, result | choose, brush, store, pay, show | the picture changes while the request is on its way | the result shown belongs to the picture shown |
| Home page (`frontend/app/page.tsx`) | frames, sounds, files waiting for the sign-in, cards | add, paste, reorder, sign in, buy, generate | batches side by side; stale closures | no picture is lost or comes back |
| Studio editor (`frontend/app/studio/page.tsx`, `lib/studio-projects.ts`) | clips, history, projects in the browser and the cloud | edit, drag, undo, fourteen awaited operations, save, upload | entries left after an await, saves and uploads that fail or overtake | undo takes back one edit; the stores get the work |
| Studio generation list | cards of the account's jobs | queue, poll, cancel, retry, delete | stale lists, other tabs | every card ends as the service has it |
| Caption editor (`app/tools/crazy-captions`, `lib/captions`) | words with times, undo, kept captions | edit, drag, join, split, transcribe, change video | a chain of edits; another video meanwhile | every word is shown when it is heard, with its own video |
| Routing, auth, uploads, search, galleries, MCP; account pages, pose studio, rendering, catalogues, extension; GPU workers; scripts | little or none shared | request plumbing, geometry, pixels, text | - | out of scope (section 8) |

How they interact: a handler submits to a provider, inserts the row, stores the
request and calls `launchVideoJob`, which starts a goroutine unless one is
registered. The goroutine polls the provider, publishes the artifact and calls
`SettleGeneratedVideoJob`, which takes the credits and completes the row in one
transaction. Status polls and listings launch watchers for pending rows and
settle rows that wait for payment; cancellation writes the row, cancels the
watcher's context and then the provider request. Stripe purchases and top-ups
add to the same balance. Clients are known to the server only by their requests;
they share an account, a config file or a list of jobs. `PROJECT.json` lists each component with its status and
the hazards at their lines.

## 2. Modules

| Module | What it models |
|---|---|
| `VideoJobStore` | the rows of `video_jobs` and each statement of `db.go` as an operator from row to row (`UpdateVideoJob`, `RequeueVideoJobProvider`, `SettleOutcome`/`SettledRow`, `shouldRelaunchVideoJob`, ...) |
| `VideoJobs` | handlers, watchers, providers, account, restart: the state machine |
| `CreditLedger` | the abstract account: one covered charge per job, grants, nothing else; `VideoJobs` implements it |
| `AutoTopup` | the background run that charges the stored card when a balance is low, Stripe's idempotent answer, the clock |
| `Subscriptions` | what a customer pays at Stripe, the events Stripe sends of it, and the webhook's statements: credits, subscription columns, referral reward |
| `Winback` | the passes of several processes over who has left: lock, list, claim, send, mark |
| `CreditHold` | services that take the credits first: synchronous calls, and the Studio's extend and upscale jobs with their rows and goroutines |
| `H3Scale` | one RunPod endpoint between submissions and the reaper that puts it to zero |
| `CliClient` | `mg` processes side by side over one config file and one directory |
| `ToolPages` | the form, the estimate and the Run handler of twenty pages; a profile per page says what sets it apart |
| `ImageTools` | thirteen image pages, likewise, with the inpaint mask and the batch pages |
| `HomePage` | frames, sounds, sign-in, checkout and generations of the home page |
| `StudioEditor` | clips, history, clipboard, drags, awaited operations, LUTs, projects, saves and uploads |
| `StudioGenerations` | the Studio's cards and its polling effect |
| `CaptionEditor` | words, their edits, undo, and videos that change meanwhile |
| `Lists` | leaving members out of a list, for the home page and the captions |
| `MCVideoJobs`, `MCAutoTopup`, `MCServices`, `MCPayments`, `MCClients` | constants of the runs; the last three compose systems |
| `VideoJobsProofs`, `PaymentsProofs`, `ServicesProofs` | theorems and proofs about the server's modules, alone and side by side |
| `CliClientProofs`, `PagesProofs`, `StudioProofs`, `EditingProofs`, `ClientsProofs` | about the clients: command line; the pages that run a job and the image pages; Studio and its list; home page and captions; all of them side by side |

Operators named `...Released`, `...Anyway`, `CancellationIgnored`, and so on,
with the comment "A slip", are plausible bugs used to confirm that each property
can fail; no specification uses them.

State and code:

| Variable | Code |
|---|---|
| `row` | `video_jobs`. `flex` and `req` are what later decisions read back from `result_json`; `priced` is provider cost and price both positive; `unborn`/`deleted` stand for no row |
| `bal`, `spent`, `billed` | `users.credits`, the sum and the keys (`video_settle_<id>`) of `billing_events` |
| `granted` | history: every credit added |
| `prov`, `nprov` | requests at RunPod, fal, the shared endpoint, the local worker; numbered as submitted |
| `batchJobs` | `runpodBatchJobs`, lost by a restart |
| `active`, `watch` | `activeVideoJobs`; the goroutines with their program counter, snapshot and context (`stop`) |
| `call` | client requests with their program counter |
| `faults`, `crashes` | how many statements failed, how often the process restarted (bounds) |

Each action is the code between two points where something else may run: one
database statement (`DB.mu` makes it atomic), the settlement transaction, one
provider call, or one look at the context, together with the local control flow
up to the next such point. For example `handleCancelVideoJob` is `Cancel` (the
UPDATE), `cancelActiveVideoJob` (the context) and `cancelVideoProvider` (best
effort). A fallback refused by its guard passes the same observed status to the
next one, as the `if` chain of `processRunpodH3VideoJob` does (`stage`). The
`map` of `PROJECT.json` gives the lines of every definition.

In `AutoTopup`, `settings`, `credits`, `deposited`, `lastAt` are the columns of
`users`, `charge` is the latest row of `autotopup_charges` (the only one the code
reads), `booked` the credits of the events `stripe_autotopup`, `inFlight` the map
`autoTopupInFlight`, and `run` the goroutines; each statement of `runAutoTopup`
and its call to Stripe is an action. `payments` is Stripe's side: a key is
executed once and repeated with its first answer, or refused for another amount.
Time is counted in cool-downs of sixty seconds, `Bucket` of which make six hours
(360 in the code, 2 in the run). The credit price is constant there, so amounts
and credits are the same number; the payment method is always stored. A request
that reaches Stripe only after the process that sent it has gone is not modelled.

In `Subscriptions`, `plan`, `outbox` and `answered` are Stripe's: the status and
paid period of each product, the events made, and those answered with 200;
`sessions` is `stripe_checkout_sessions`, `columns` the subscription columns of
the user's row, `referral` the status of the referral that brought the customer,
and `hook` the requests of `handleStripeWebhook`, which stop between any two
statements. A `customer` buys some of the products, whose events come one by one
in order or in any order, and has so many `mishaps`: failing statements (done or
not), answered events sent again, restarts. `granted`, `rewards`, `withheld` and
`failed` are history. Amounts, which the code takes from the product, are left
out, and what Stripe retrieves is the subscription's state at that moment.

In `Winback`, `runnerLock` is the advisory lock, `pass` the passes with the rest
of their list (`todo`) and the letter in hand, `claim` a row of
`winback_claims` (`stale` once its `claimed_at` is older than the lease). `due`
stands for the cancellations and the days since: it grows and falls back as it
likes. `sends` and `leases` count e-mails and leases that ran out.

In `CreditHold`, `purse` is `users.credits`, `req` the handler, `jobStatus` and
`noted` the row's status and whether its `result_json` holds `credits_used`,
`work` the goroutine with its copy of that, `stop` its context. A statement is
answered, fails, or commits although its answer is an error; the code ignores
most of these errors, and so does the model. Prices are constants, the part of
a reserve that `SettleReserve` returns or adds is any number below it. A service
is `unbacked` if it has a price and no entry in `serviceBackends` (such as
`nsfw_detect`): `CallService` finds that out after the debit, answers 503 and
gives nothing back (`services.go:913-917`). The first reads and checks of `processStudioUpscaleJob` are one action.

In `H3Scale`, `awake` is whether RunPod's workersMax is above zero, `known` the
value of `h3KnownWorkersMax`, `lock` the endpoint's mutex, `generation` and
`running` the fields of `h3ScaleReaperState`, `reaper` its goroutine. The
endpoint's queue is `job`; RunPod is assumed to count an accepted job in
`/health` at once. The seven attempts of a paused submission are one.

In `CliClient`, `cliFile` is the configuration file, shared by the processes:
readable (`ok`), `absent`, `empty` between the two calls of `writeFileSync`, or
`mixed`. A process has it `open` from `TruncateConfig` to `FillConfig`, which writes
from the start over whatever others have written since it was emptied
(`longest`): a shorter text leaves the tail of a longer one behind it, and unless
that tail is a mere newline the file cannot be read (`Overwritten`; `readConfig`
then returns `{}`). `Bytes` is the length of the text, of which only the lines of
key and e-mail and those of the other settings differ. `clearConfigKey` may remove
the name meanwhile (`RemoveConfig`): the writer then fills a file nobody finds, and
its `chmodSync` throws (`ProtectConfig`). A key comes by the callback of the login
whose state it carries, or, with `--no-browser`, by `PasteKey`, which looks at no
state: whoever's it is, only the service's answer is asked (`VerifyKey`).

The page modules name a picture, file, job or clip by the number of the gesture
that made it, so "which" is all they tell apart. An action is a handler up to
its next await; what an await resumes with is what its closure captured, so a
handler carries a copy of the values of the render it was made in. `ToolPages`
and `ImageTools` describe what the pages have in common once; a profile (a
record per page, mapped to that page's lines) says which inputs are uploaded,
whether there is an estimate, what disables Run, what a failed poll does, and
what a new input resets. `StudioEditor` keeps the page's document, the
browser's and the cloud's; `CaptionEditor` counts time in units of 50 ms. A drag
there begins with `GrabWord`, which keeps the words of that moment (`onDown` reads
`words` once); every `DragWord` edits those, whatever the page's words have
become, as the closures of `onMove` do. `late` says that an answer for another
video came, or a drag of its words went on; `crowded`, that words were put where
there was no room. Both are history, and only the properties read them.

In `StudioEditor`, `ed` is the state and the refs of the component, `tasks` the
handlers that await (with the clips of the render they began in), `loads` the
calls of `openProject` and of the effect that opens a project when the page
loads, `sync` the timers and requests of the save and upload effects and the
status they and `openProject` show (`shown`), `disk` the
IndexedDB of `studio-projects.ts`, `page` what survives a reload. Three fields
of `ed` are history, kept to state properties: `before` (what the clips were
before each edit), `stale` (a handler left an entry after an await during which
the clips had changed), and `pure` (nothing from before the project was opened
has come into it); `opened` numbers the openings, so that a drag, a copy or a
handler that began under another one is recognised. The project menu offers the
projects of the cloud once its list has been fetched.

Abstractions of `VideoJobs`: prices are members of `Credits`, chosen anew at each settlement
because they are divided by the credit price of that moment; a route is any
configured kind; artifact download, validation and publication are one outcome;
a provider call may fail or have failed after all wherever its error is
ignored; timers may fire at any time. Running out of patience in the flex lane
and the age of a batch are therefore always possible. A request number used up
by a submission that failed is not modelled: `MaxProv` counts successful ones.

## 3. Properties

Safety of state:
- `IInv` - types, handles and registers set where they are used (`Shapes`), and
  `Books`: credits left plus credits billed are the credits granted, and a job
  is marked settled exactly when it is billed.
- `OneWatcher` - a goroutine works on a job exactly while it is registered.
- `ReleasedIsPaid` - no result is released unpaid.
- `PaidIsReleased`, `PaymentDueIsUnpaid`, `RerouteKeepsJob` - see the findings; the code does not keep them.

Steps:
- `ImplementsLedger` - refinement of `CreditLedger`.
- `CancelledNeverCharged`, `CancelledStays` - a cancellation is free and final
  but for the user's own retry.
- `QualityRetriedOnce` - the automatic retry of a black picture is spent once per
  stored request, by a watcher that follows the row's request.

Payments (`AutoTopup`, `Subscriptions`, `Winback`):
- `PaymentsInv` - the inductive invariants of the three: `AInv` (the readiness of
  each top-up run, the order of the keys), `WebhookInv` (events and keys stand
  for payments, what a handler relies on) and `WinInv` (what each claim is worth).
- `FailurePausesCharges` - the pause does what it is for, although the check
  comes several statements before the charge.
- `OneChargePerBucket` - the card is charged at most once per bucket begun.
- `CreditsFollowPayment` - credits need a payment of their amount.
- `DepositsArePaid` - see the findings.
- `CreditedOnce` - each payment is credited at most once, and only if it was made,
  although a subscription's first one is told by two events with two keys; the
  referral is rewarded once.
- `PaymentNotLost` - a payment is credited, or an event that will credit it is
  still to be answered. Excepted by name: a statement that failed, for the event
  is answered all the same, and a creator's renewal that finds a credit plan in
  the row.
- `SoleSubscriptionMirrored` - when all events have come in order, the row shows
  the only subscription the customer ever had as it is.
- `AccessFollowsSubscription` - see the findings.
- `WinbackOnce` - a step is sent again only for a lease that ran out, and none
  before the step before it was marked.

Reserves and endpoints:
- `ServicesInv` - the inductive invariants `HInv` and `SInv`: program counters
  stand where rows and locks allow it, and at most one of handler and goroutine
  may still give a reserve back.
- `RefundsFollowOutcome` - a reserve comes back at most once, and once more for
  each statement that failed or restart; without those, what failed is refunded
  and what was delivered is not. Two exceptions: a row whose goroutine a poll
  started before the handler had noted the credits in it (`bare`,
  `studio.go:987`), whose failure refunds nothing; and a request for a service
  without a backend, which is answered 503 and keeps the reserve (`unserved`,
  `services.go:913-917`). No other request ends so.
- `NoJobStranded` - no job waits on an endpoint the reaper has put to zero.

Clients:
- `StoredKeyIsApproved` - a stored key is one the service accepted, and a login
  about to store one holds a key the browser approved for that very process.
  Excepted is a login with `--no-browser`, which may hold anybody's pasted key.
- `SettingsSurvive` - the rest of the file outlives logins and logouts, except for
  a process that read it while it was unreadable; and it is so only if a process
  has emptied it and is about to write, or was stopped there, or two have written
  it side by side.
- `SpendsOnce`, `ZeroMeansSaved`, `NothingClobbered` - the command line: what is
  paid, what an exit code means, what a download may replace.
- `FilesKeepTheirPlace` - every picture given to the home page waits, is being
  sent, is a frame once, was taken away, or was in a batch whose failure was told.
- `OneRunAtATime`, `EstimateIsCurrent` - a second paid run starts only where
  another handler has written the phase; the price is that of the inputs.
- `ImagesFaithful`: `ResultOfPicture`, `SentIsShown`, `BrushedRegionEdited` - what
  is shown and paid for on the image pages; `EditInsideMask`, see the findings.
- `SavedMeansSaved` - once the first load has ended, the words "Saved to cloud"
  say that disk and cloud hold what the editor shows, unless an older save landed
  after a newer one. `openProject` puts those words up without a save
  (`page.tsx:2114`), even for a local copy the cloud does not have. The save effect
  of the same commit replaces them; the handler and the effects of what it sets
  are one step of the model, so the moment between them is not in it. Before the
  first load has ended that effect does nothing (2483) and the words stay, which
  the model has and the property excepts.
- `UndoTakesBackOneEdit`, `StoredProjectIsWhole`, `WorkReachesStores`, and
  `ClipsOfProject` (`HistoryOfOneProject`, `AddressIsOfOwnBytes`) - the Studio.
- `ListCatchesUp` - a card ends as the service has it, after stale answers too.
  `CardsFollowRows`, which is proved and not run, says what holds meanwhile: a
  card is an earlier one than its row, or the very row, and one that is later
  (a batch put it up) says "active".
- `WordsOfVideo`: `HeardIsShown` - words stay apart unless some were put where
  there was no room; and while a word is heard, the page of captions it is on is
  up, in any transcript whose words do not begin or end before those in front of
  them; `CaptionsOfVideo` - all of them, those in the history and those kept
  included, are of their video.
- `ClientsTypeOK` - types of all seven.

Progress:
- `ClientsEnd` - whatever a user started on a client ends.
- `HoldsEnd` - every request is answered, queued work is begun, an extension
  reaches an outcome across restarts.
- `ScaledToZero` - an endpoint whose reaper was told of a job goes to zero.
- `PendingResolves` - a polled pending job reaches an outcome.
- `CancelStopsWatcher` - a watcher whose context is cancelled ends.

## 4. Runs

All `VideoJobs` runs use one account and one job: jobs share nothing but the account, and
what two jobs of an account do to each other (a balance that has gone when the
second settles) is what a top-up and a price of 2 do to one job's balance here.
The theorems hold for any number of jobs and accounts.

| Run | Instance | Shows |
|---|---|---|
| `VJ_ledger` | fal; 2 watchers, 2 requests, 2 submissions, balance 1 (+1), prices 1 and 2, 1 failing statement, 1 restart | the account, releases, cancellation and the register under every interleaving of two requests with the watcher |
| `VJ_fallbacks` | RunPod and local, all lanes; 1 watcher, 1 request, 3 submissions | `QualityRetriedOnce` through every fallback |
| `SV_progress` | one system per behaviour. Video jobs: RunPod, fal, local; 1 watcher, 1 request, 1 restart, 2 errors. `CreditHold`: one request of each kind, or one without a backend, 2 mishaps. `H3Scale`: 2 submissions, the reaper, 2 troubles | progress of all three; reserves; endpoints |
| `FE_clients` | one client per behaviour: 8 pairs of command lines, 5 keys; 8 visits of the home page; 20 pages with up to 3 edits and 2 runs; 13 image pages with up to 4 gestures and 3 runs; 25 visits of the Studio with up to 4 gestures and a fault; 6 visits of its list; 8 of the caption page with up to 6 gestures | the 18 properties of the clients |
| `FE_inpaint` | the image pages | counterexample, section 5 |
| `VJ_late_write`, `VJ_slow_submit`, `VJ_batch_reroute`, `VJ_revival` | small | counterexamples, section 5 |
| `PAY_stripe` | one of three per behaviour. Top-ups: 1 user, 2 goroutines, 2 buckets of 2 cool-downs, amounts 1 and 2, 1 fault, 1 restart. Webhooks: 5 customers (one product or two, up to 3 mishaps), 1 renewal, 2 handlers. Win-back: 2 processes, 1 recipient, 2 e-mails, 1 lease of each that runs out, 2 slips | the properties of payments |
| `AT_replay` | top-ups over 3 buckets without faults, 1 amount | counterexample, section 5 |
| `SUB_access` | webhooks of a customer with two creator subscriptions, in order, nothing fails | counterexample, section 5 |

Why the bounds are enough: two requests and two watchers is the least at which a
launch meets a launch, a poll meets a watcher's settlement, and a delayed
statement meets a later watcher. Two submissions allow one retry after the
original (a stale watcher of the first request against the second); three allow
a fallback from a request that was itself moved, and a quality retry after a
move. One fault covers each place where an error leaves a statement undone or a
commit unknown. One restart covers each point; a second would start from the same
kind of state, for a restart empties everything but rows, balances and
requests. `CHECK_DEADLOCK FALSE` is used because a system whose bounds are used
up and whose jobs are over does stop. Symmetry (watchers, requests, top-up
goroutines) is used only in runs without liveness. For top-ups, two cool-downs
per bucket are the least with two top-ups in one bucket, and two buckets have
a failure, its pause and the charge after it; users share nothing. Nor do
customers: the webhooks of two meet in no row. Two handlers are the least at
which the two events of a first payment, or an event and its repetition, are
handled at once; products are paid once each and share only the columns. Two
processes, one lost connection and one lease that ran out put two passes over
the same letter, in either order of claim, send and mark; two e-mails have an
order.

One reserve is enough because the actions of two touch the same thing only in
`purse`, where the guard of `DeductUserCredits` is all they see of each other;
the theorems hold for any number. Two mishaps are a refund whose row was not
marked and a restart after it. Two submissions are the least at which one is
between the lock and its job, or between its job and its schedule, while the
reaper finishes for the other. The systems of `SV_progress` share only the
database connection, and the clients of `FE_clients` only the service, whose
answers are nondeterministic, so one at a time loses nothing.

The keys of the command line: one stored earlier; one of the first process, 20
bytes long, accepted or not; of the second, one of 21 bytes (a tail of a newline
only) and one of 23 (a tail that spoils the file). The first process may be given
any of them by hand. The line of the other settings
has 9 bytes, so a text without it is shorter than one with it by more than a
newline. Two processes are the least whose writes overlap.

A page has two runs where a second can be started beside the first, and up to
three inputs where estimates can overtake each other twice. A Studio visit names
the gestures it may use: each of the awaited operations against undo, edits and
project changes, saves and uploads with one failure, reloads with both stores.
Undo history is 2 deep (20 in the code), so that it overflows. The times of the
transcripts that are heard touch, leave a gap below and above the limits of the
code, and overlap in the imported one; an edge, a number or a cut is put at 1, 5
or 8, before, within and past them. Six gestures over a one-word transcript and
three or four over three words include every pair of edits followed by undo, a
drag that goes on while another video is loaded, and one whose words were typed
over meanwhile. The proofs hold for all times and lengths. `CHECK_DEADLOCK FALSE`:
a visit ends.

Fairness in `SV_progress`: handlers and goroutines go on, since every provider
call has a time limit; a page polls its jobs; the reaper goes on; of the jobs on
an endpoint some one ends, cancellation and execution timeouts being RunPod's.
Weak fairness is enough for the endpoint's lock because submissions are finite.
`HoldsEnd` leaves out upscale work a restart interrupted, which nothing takes up
again. `ScaledToZero` excepts by name the reaper's 65 minutes and submissions
that schedule nothing (below). In `FE_clients`: a request is answered or fails,
timers fire, a handler that may go on does; no job is assumed to end, the pages
that give up do so by their own count.

No fairness is assumed in `PAY_stripe`: Stripe gives up on an event after some
days, customers come when they like, and `PaymentNotLost` says in each state
that what is missing is still to come.

Fairness of video jobs. `Running` says that goroutines and requests run to their end: weak
fairness of each watcher's steps and each request's steps, which the Go
scheduler and the per-call timeouts of the HTTP clients give. Nothing is
assumed of providers: a request may stay in progress for ever. `Deadline` is not
part of `Running`, so `CancelStopsWatcher` does not rest on it: the loop looks
at the context each round. `PendingResolves` holds under `Patience`: the loop's
deadline is wall-clock time, so a loop that returns to its head again and again
finds it passed (strong fairness, for the guard is off between visits), and a
client that is shown a pending job keeps polling it. Without that poll nobody
launches a watcher after a restart (the code has no sweep at start-up).
`PendingResolves` excepts local requests: `shouldRelaunchVideoJob` leaves a
processing one alone (the comment at `video.go:1844`), so a restart leaves it
processing until its user cancels it.

## 5. Findings

Seven runs end in a counterexample; the text that says otherwise is quoted in
`PROJECT.json`.

- `VJ_late_write`: `payment_required` is written a second time after the
  settlement has written it, and can undo a payment made in between.
- `VJ_slow_submit`: the submit handler's own second statement can put a paid row
  back to `queued`.
- `VJ_batch_reroute`: the batch and flex fallbacks store their new handle with a
  statement that accepts failed and cancelled rows only, so they never work on a
  processing row.
- `VJ_revival`: and on a cancelled row, they do work.
- `AT_replay`: the idempotency key of a top-up changes every six hours, the
  cool-down is sixty seconds. The second top-up in a bucket is answered with the
  first payment, and its credits are added without one.
- `SUB_access`: the row has the columns of one subscription, and events are
  matched by the customer's id as well. The end of an older subscription takes
  `unlimited_api` from a customer who pays for a newer one.
- `FE_inpaint`: Run stores a picture that was not stored yet and puts its address
  in the file's place; the page loads it again and empties the mask canvas while
  the paid edit is on its way, and the unchanged picture is shown as the result.

A settlement whose transaction fails leaves `payment_required` with the text
"settlement unavailable; retry status" (`video.go:1596`), but without the prices
in the row, and a status poll settles only rows that have them (`video.go:1889`).
A test is named `TestCreatorRenewalStillGrantsAllowance` (`churn_test.go:98`), but
the plan of a renewal's invoice is looked up in the row (`churn.go:141`), which may
show a credit plan the customer bought besides: the creator's renewal is then
credited to nobody (`withheld`). Both are in the models and need no run.

Another disagreement needs no run: `h3_scale.go:16-19` says that each endpoint
is put to zero "after the last queued/running job finishes", but
`retryH3VideoJob` (`video.go:1962`) and submissions that fail after workersMax
was raised (`video.go:746-757`) schedule no reaper, and after a restart nothing
starts one. `H3Scale` has them as `unreaped`; the endpoint then stays as it is
until the next submission that schedules.

Behaviour the model also has, and that the code seems to accept: a retry that
loses against another leaves its provider request running; a watcher that lost
its job to a cancel and a retry can mark the retried row failed; a row deleted
between two statements of a retry leaves the request running; a slow submission
lets a local request be posted twice. None of them charges anyone, by
`ImplementsLedger`. In `AutoTopup`, a payment whose answer is lost, or after
which the process stops or cannot add the credits, is recorded as failed or not
at all; nothing reconciles it, and after the pause the card is charged again with
a new key. `OneChargePerBucket` bounds how often that happens.

In the clients, seen in the models or while writing them, and contradicted by no
text that a run could quote:

- Studio: undo of an awaited operation also takes back what was done meanwhile
  (`UndoTakesBackOneEdit` names it); a first load that fails takes the requested
  project for its own, empty, and stores that over the cloud's later
  (`page.tsx:2375`); a batch of jobs is put in the list with the browser's time,
  so that a clock that is ahead hides their end (`page.tsx:4119`); a cutout
  copies `cloudURL` and `objectKey`, so its own bytes are never uploaded
  (`page.tsx:4391`); the save timer of 650 ms is dropped with its edits when
  another project is opened (`page.tsx:2487`); a streamed clip whose bytes have
  not come is kept without them (`page.tsx:2898`).
- Studio, opening a project before the first load has ended: "Saved to cloud" stays
  on the page although nothing was saved (`page.tsx:2114`, 2483).
- Command line: two logins whose writes of the settings overlap can leave a file
  nobody can read (`config.ts:39`); the next login then writes its key alone, and
  `base_url` is lost.
- Home page: the files that waited for the sign-in are uploaded by a timer of the
  render before it, whose key is empty, so the dialog opens again over the plans
  (`page.tsx:674`, against the sentence at 1010 that they are ready when the
  visitor returns); the second sound of a batch is dropped in silence; one failed
  poll marks a paid generation failed; slow answers of the gallery or of its
  search replace those of a newer one.
- Pages that run a job: one failed status request ends most runs although the job
  goes on and is paid for; a character frame drawn for the previous video may
  stand next to a new one (`CharacterSwapTool.tsx:321`); the inpaint page offers
  Run while a result is shown, when there is no mask canvas
  (`InpaintTool.tsx:236`).
- Captions: a drag edits the words of the moment it began, so what was typed,
  undone or loaded since is lost at its next move, and may come back under the
  new video; "Add after" used twice within connected speech puts words out of
  order; number fields are not checked against the neighbouring words; the
  transcription of a video that was replaced may be kept under the new one's key;
  choosing a file resets `busy` while a paid run is going on.

On the server: a priced service without a backend keeps what it debited
(`services.go:881`, 913-917), which `RefundsFollowOutcome` names as an exception.

Hazards of the server without a property here: a processing local job is never
relaunched (`video.go:1849`); a watcher that lost its job marks the retried row
failed (`video.go:1605`); delete checks and deletes in two statements
(`video.go:2314`); two retries race (`video.go:1988`); a payment precedes its
credits (`stripe.go:1114`); rounds of LoRA batches
(`character_swap_lora_dispatch.go:613`).

## 6. Proofs

`VideoJobsProofs` proves, for all sets of jobs, users, watchers and requests, all
routings and all bounds:

| Theorem | Statement |
|---|---|
| `TypeCorrect` | `Spec => []TypeOK` |
| `InvariantHolds` | `Spec => []IInv` |
| `BooksAlwaysBalance`, `ChargesRecorded` | the two parts of `Books` |
| `ReleasesArePaid` | `Spec => []ReleasedIsPaid` |
| `LedgerImplemented` | `Spec => Ledger!Spec` (`ImplementsLedger`) |
| `CancelledIsFree` | `Spec => CancelledNeverCharged` |
| `WatchersAreUnique` | `Spec => []OneWatcher` |
| `RevivalsAreRequeues` | only a client's retry or a watcher's fallback revives a cancelled job |
| `CancelledJobsStay` | `Spec => CancelledStays`, where neither `"flex"` nor `"batch"` is a lane |
| `QualityRetrySpentOnce` | `Spec => QualityRetriedOnce` |

`PaymentsProofs` proves of `AutoTopup`, for every number of users and goroutines, every length
of the bucket, all settings and all bounds: `TopupInvariant` (`AInv`),
`RunsExclude`, `EventsFollowCredits`, `ChargesAreBounded`, `CreditsHaveAPayment`,
`FailuresPause`, `CoolDownIsKept`. The
invariant says what a run may still rely on at each of its steps (`RunReady`):
that the cool-down it checked has passed, that no failure was recorded since,
that the payment it adds credits for exists. It needs that a user has
one run at a time (`OneRunPerUser`), because
only another run of the same user could change those rows. `ChargesAreBounded`
adds `KeysOrdered` and counts: the keys of a user's payments are distinct
members of `0 .. now \div Bucket`.

Of `Winback` it proves, for any number of processes, recipients, e-mails, leases
and slips, `WinbackInvariant` (`WinInv`) and `SentOncePerLease` (`WinbackOnce`).
That an e-mail is sent once per lease is not inductive: one must count who may
still send it. A claim is worth one e-mail: the e-mails sent, the processes that
hold the letter on their way to sending it, and the claim while it may still be
taken, are together at most one plus the leases of it that ran out. That none is
sent before the one before it was marked rests on the order of the list (a
letter comes into a list only when its turn has come) and on marks never being
taken back. The runner lock is not used: two passes at once are harmless, which
is what the claims are for. `PaymentsInvariant` puts the three side by side, as
the run does: a step of one leaves the variables of the others alone.

Of `Subscriptions` it proves, for all products, periods, handlers and customers,
and any number of mishaps, `WebhookInvariant` (`WebhookInv`), `CreditedOnceAlways`
(`CreditedOnce`), `PaymentNeverLost` (`PaymentNotLost`) and
`SoleSubscriptionIsMirrored` (`SoleSubscriptionMirrored`). That a payment is
credited once rests on one key per payment: `KeysHeld` says that the sessions
hold exactly the keys of credited payments, and `HookReady` that a handler about
to credit comes with that key, which is what `FirstStep` is for. That none is
lost needs that the last step of a handler, which answers its event, comes after
the credits or a failure; handlers and restarts leave the event unanswered.
That the row ends up right says nothing of the states before, so `MirrorInv`
speaks of the last event that told a status: it tells what Stripe has, and a
checkout after it is one of an active subscription (`StatusTold`); events in
order are handled one by one (`OneByOne`); and once that last event is answered
the row shows it (`ToldShown`). Only a checkout could spoil that, for it saves
what it retrieved a step before, or "active" when retrieving failed. If the last
status was told before the checkout, both are "active" (`Retrieved`); if after
it, that event is still to be answered and writes the row again. TLC checked
`MirrorInv` on the instance of `PAY_stripe` before it was proved.
`PaymentsKeepTheirWord` states the seven other properties of that run of the three
side by side: besides the invariants it needs that a step of one actor is a step
of its own specification or none, for `CreditsFollowPayment` and
`FailurePausesCharges`.

`ServicesProofs` is about reserves and endpoints. It proves, for every set of
requests, all prices and any number of failing statements and restarts, `HoldInvariant` (`HInv`) and
`RefundsAreInOrder` (`RefundsFollowOutcome`). That a reserve comes back at most
once is not inductive: one must know who may still give it back. `RefundsLeft`
counts the refunds made, the handler while it may refund, and the goroutine or
the next one while the row is pending and noted; the three together never exceed
one plus the mishaps, and `HoldPlaced` says which program counters go with which
rows, so that handler and goroutine are never both counted. `Orderly` is what is
exact as long as there was no mishap. A request without a backend ends
`unserved` after the call and is never counted as one that may refund: `Orderly`
asks a refund of `failed` alone. The proof restates the invariant of one
hold as a predicate of its values (`Good`), shows that mishaps elsewhere only
loosen it (`GoodLater`), and that a step owes a proof only for the hold it is
about (`OneHold`).

Of endpoints it proves, for any number of submissions and troubles, with or
without the idle grace, `ScaleInvariant` (`SInv`) and `NoneIsStranded`
(`NoJobStranded`). A job is only accepted while the endpoint is awake, so all
depends on the one step that puts it to zero: `LookHolds` says that what the
reaper saw still holds there, which needs `LockHeld` (a submission that could
post a job is between the lock and its release) and, for the lock, that there is
one reaper (`ReaperRegistered`). `ServicesInvariant` puts this and `HInv` side by
side, as `SV_progress` does, and `ServicesKeepTheirWord` the two properties of
that run it gives.

`CliClientProofs` proves six theorems about any number of processes, files and
outputs, by four inductive invariants, each on top of the one before. `TInv`:
types, and that an upload sends files of its group. `ConfInv`: what a process
holds at each place of a login or logout (`KeyHeld`: a key of its own unless one
could be pasted, and from `VerifyKey` on an accepted one), what the file holds
(`FileHolds`), that a missing setting has an excuse (`SettingsHeld`), and who has
the file open: an empty file has been emptied by a process that is about to fill
it or was stopped (`OpenHeld`), and one with text since then was written by
somebody, an unreadable one by two (`FileWritten`); it gives `KeysAreApproved`
and `SettingsAreKept`. `SpendInv`: the groups before the one at
work are in the upload cache and no request has been sent before `post`; it gives
`SpendsAtMostOnce`. `SaveInv`: what a process has seen of its job is so, and the
outputs it has saved are on disk under distinct names, which other processes
never replace; it gives `ZeroIsSaved`. `SavesNeverClobber` needs types only.

`PagesProofs` proves, for any bounds and any visits of the twenty pages,
`ToolTypes`, `OneRunAtATimeHolds` and `EstimateIsCurrentHolds`. The first rests
on `RunsApart`: unless another handler has written the phase (`taken`), a run
that is under way keeps the page busy, so that Run is not offered, and there is
at most one. The second rests on `EstOK`: the newest request for an estimate, the
only one whose answer is heard (`StillAsked`), is waiting for its timer, under
way for the inputs shown, or answered for them. Of the thirteen image pages it
proves `ImgTypes` and `ImagesFaithfulHolds`: `ImgInv` keeps what the handler
captured at the click next to what the page shows: unless another picture was
chosen while the page was busy (`crossed`), it is the same picture, and, where
nothing had still to be stored or loaded, the canvas has the strokes of the
click.

`StudioProofs` proves, for every visit and every length of the history, that
`StudioInv` is inductive (`StudioHolds`), and from it `UndoTakesBackOneEditHolds`,
`StoredProjectIsWholeHolds`, `ClipsOfProjectHolds`, `SavedMeansSavedHolds` and
`StudioTypes`. The invariant has a part for each hazard:
- `UndoOk`: entry by entry the history is what the clips were before an edit.
- `EdPure`, and `Since` for whatever was taken earlier (a drag's snapshot, the
  clipboard, the clips a handler began with): if it was taken under the present
  opening of a pure project, its clips are of that project and their LUTs are in
  the editor. An opening changes the number, so nothing has to be known of what
  is older (`Onward`).
- `StoredWhole` and `DocPure`: documents keep this wherever they are, in a save
  under way, on the disk, in the cloud, in a load. A save drops other media of
  its own project only, and keeps those of everything its document retains.
- `SavesInv`: the save that may still speak for the page (`live`) is the last one
  begun, of the editor's document, and its document is on the disk once it has
  left for the cloud; no save is left that could replace it there. When the page
  says "cloud", any save still to land was sent before the one that was
  answered, and landing it is what `overtaken` records. The words `openProject`
  puts up would break this; that they do not is because an armed timer never
  stands beside them, once the effects of its step have run, and that before the
  first load has ended, when they do not run, no save is armed or under way
  which could be spoken for (`NoneYet`).

A step of the editor then owes a proof of one of few forms: an entry in the
history (`EntryKeeps`), other clips (`ReclipKeeps`), a change to everything that
is retained (`RemadeKeeps`, for addresses and bytes that arrive), a project
(`Opens`), or a save that is over (`OverKeeps`).

Of the generation list it proves `GenTypes` and `CardsFollow`. `GenInv` says that
every card, every row a pass has read and every job of a batch is one of the
service, and that no card shows a deleted row, although a row may be deleted
while its card is being refreshed. `FreshInv` says what a delayed answer is: a
row that was read or answered is the row of then, so it is earlier than the row
of now or the same (`Earlier`), and its stamp settles which (`LaterRow`: a write
is later than everything there is). Whatever is then shown follows its row
(`EarlierShown`), whether a list, a refreshed row or an answer brought it, in any
order; the one exception is the card of a batch, stamped on the page, which can
be later than its row and keeps saying "active". That is the card
`ListCatchesUp` has to except.

`EditingProofs` proves of the home page, for all visits, files and sounds and any
number of gestures, cards and looks, `HomeTypes` and `FilesKeepTheirPlaceHolds`.
`FilesInv` has three parts: the record and the uploads are of their types; a batch
holds a file once and no two batches share one (`Batches`); and what was given
waits, is late for its sign-in, is being sent, is a frame, was taken away or was
told lost, in one of these ways only (`Apart`). An upload that ends then adds to
the frames only files that are nowhere else (`AssetsSentKeeps`), a reordering only
permutes them (`ReorderedIs`), and the closure of a sign-in gives its files to
one upload (`LateUploadKeeps`).

Of the caption page it proves, for all visits, targets and transcripts, of any
length, `CaptionTypes` and `WordsOfVideoHolds`. `CapInv` says of every list of
words there is, on the page, in the history, in a drag and in the store, that its
words are of its video unless `late` (`Own`) and are apart unless `crowded`
(`KeptIn`, with `Fits`). One lemma per edit shows that it keeps both: what is
put between two words fits if it stays within their time (`SplicedFits`, for
joining, deleting, splitting and typing), and a drag clamps an edge and takes its
neighbour along (`MoveStartStays`, `MoveEndStays`, `ShiftStays`). A drag edits
the words of its beginning, so these are in the invariant too, and the page turns
`late` when they are of another video. That words are shown while they are heard
is a theorem about the algorithms: pages cut the visible words where they may
(`BuildPages`), the shows of pages do not fall, the binary search finds the last
page that has begun (`PageAt`), and that page holds the last word heard and is
still up. The provers cannot use the library's induction theorems, which take an
operator, so induction is done on a set: the least member of a nonempty set of
naturals (`LeastNat`, from the well-foundedness of `<` on Nat) and, from it, that
a set which holds 0 and, up to n, the successor of each member holds n (`Counted`). The
recursive functions `Without` and the search of `PageAt` are reasoned about in
this way.

`ClientsProofs` puts the seven clients side by side, as `FE_clients` does, for
every set of clients and all their constants: `ClientsInv` is the conjunction of
their invariants, and a step of the whole is for each of them a step of its own
or none (`StepsOfEach`). `ClientsTypes` is `ClientsTypeOK`, `ClientsKeepTheirWord`
the eleven other invariants of that run, `ClientsStepInOrder` its three action
properties.

The attempts to prove these found faults of the models, which TLC's instances
had not shown, and which were corrected after the source: a new project had
always the same name; the first load read the address bar when it was answered
and not when it began; a project could be opened from a menu that is not shown;
a failed first load kept a project pure that the user had meanwhile opened or
begun; the drag, the clipboard and the handlers did not remember which opening
of a project they came from; opening a project left `stale` set. And
`QualityRetriedOnce` was stated of every watcher: two requests and six
submissions break that, where TLC's instances have three. A client's retry that
read the row while it said "retried" may be stored after another retry, a
cancellation and a fresh request, while a watcher still follows the request that
was replaced, with a copy that says "fresh". It then starts a second quality
retry for a row that is not its own any more (`video_quality.go:110`). The
property now speaks of a watcher that follows the row's request, which is what
the code's check of its copy can promise. The proof about captions found that a
drag had been modelled on the page's words of each move, where the code keeps
those of its beginning; and that `HeardIsShown`, which spoke of transcripts that
were in order because nothing crowded them, says nothing once typing and dragging
mix. It now speaks of the order itself.

Assumptions: those named in the modules (`MaxProvAssumption`, `OwnerAssumption`,
`RouteAssumption`, `CreditAssumption`, `BoundAssumption`, `NoOneAssumption`;
`BucketAssumption`, `SettingsAssumption`, `LimitAssumption`, `NoUserAssumption`;
`KindAssumption`, `PeriodAssumption`, `CustomerAssumption`;
`RunnerAssumption`, `WinbackLimits`;
`PriceAssumption`, `PurseAssumption`; `CallerAssumption`, `ScaleLimits`; those of
`CliClient` about command lines; `ToolBounds`, `ToolVisitAssumption`,
`ImgVisitAssumption`, `StudioBounds`, `StudioVisitAssumption`, `GenBounds`,
`CapAssumption`, and those of `HomePage`, which say what a bound or a visit is):
every job has an owner, prices and purchases are positive, absence is not a job,
a watcher or a user.

Argument for `VideoJobs`. `ReleasedIsPaid` is not inductive: an `UpdateVideoJob` to `completed`
would break it, so one needs that only the settlement writes that status
(lemmas of the first section: every other statement is `Unsettling`), and that
it sets the flag with it. `ChargeRecorded` is needed to see that the settlement
never finds a billing event of its own job, so that debit and `spent` move
together, which is `BooksBalance`. The types alone are not inductive either: a
step that writes `prov[watch[w].prov]` needs a handle that is set where it is
used, which is `Shapes`. `IInv /\ ReleasedIsPaid` is then inductive. It is
regrouped by variable (`RowPart`, `MoneyPart`, `ProvPart`, `WatchPart`,
`CallPart`, `LimitPart`), so that a step owes a proof only for the groups it
changes (`Frame`); there is one step per action and lemmas for the helpers
actions share. `LedgerImplemented` shows that each step is a charge, a grant or
a stutter of the ledger: the charge needs `Chargeable => j \notin billed`, which
is `ChargeRecorded`. `OneWatcher` is inductive on its own, given the types.

The last three theorems start from what a step can do at all: `RowMoves` (six
forms of change to a row, `RowSteps`), `WatchMove` (a watcher keeps its handle
and request, reads them from the row, or moves the row to its own new request)
and `CallMove` (a request submits, or goes on). `CancelledStays` then needs that
a row about to be inserted exists for nobody else (`Inserting`), and that
without the two lanes no row, request or watcher asks for a fallback
(`NoFallback`). `QualityRetriedOnce` needs that a watcher whose handle is the
row's knows that the retry is spent (`Informed`). Only a retry stored by a client
could make it wrong, by giving the row the watcher's handle together with
another request; it cannot, because the handle of a waiting retry is nobody
else's (`Unshared`), which rests on handles being numbered (`Numbered`).

Only model-checked: the liveness properties (fairness and `ENABLED` are out of
the prover's reach), which are `PendingResolves`, `CancelStopsWatcher`, `HoldsEnd`,
`ScaledToZero`, `ClientsEnd`, `WorkReachesStores` and `ListCatchesUp`; the
counterexamples; and `CancelledStays` where a lane is configured, which is one of
them. Every other property of a run is a theorem, alone and, for the clients,
payments and services, in the composition TLC runs. No module declares a
recursive operator.

## 7. Plan

Done: `VideoJobs` and its store, ledger and lanes; `AutoTopup`; `Subscriptions`;
`Winback`; `CreditHold`; `H3Scale`; the clients. What remains, in this order:

1. `LoraDispatch` (`character_swap_lora_dispatch.go`), `ResponseCache`
   (`response_cache.go`).
2. Cancellation records and the retention coupon (`churn.go`), which would say
   when a customer is due for `Winback`; several customers of one user.
3. More proofs: that deposits are paid for as long as no key of `AutoTopup` is
   repeated; that the list of the Studio catches up when no batch is under way, by
   a measure on the writes and answers left.
4. A model of the fallback statement with `UpdateVideoJobProvider` in place of
   `RequeueVideoJobProvider`, to show that two findings have that one cause.

## 8. Not modelled

Server: input validation, prices and wording; media processing (ffmpeg, model
calls); authentication, uploads, search, galleries and MCP, which read or proxy;
routing and its circuit breaker, of which only the choice is in `VideoJobs`;
of payments, the creation of checkouts, amounts, trials, unpaid sessions, changes
of plan within a subscription, the stored payment method, cancellation records,
surveys and coupons, and users with two Stripe customers; the e-mail drip, LoRA
dispatch and caches (section 7); GPU workers, which appear as providers. The other job services share
the row, the launch and the settlement with H3 and differ in their polling loops.

Clients: the session, account and sign-in pages, which make one call each; the
feeds, galleries and searches, lists fetched by page and shown; the layout that
is most of a page's source. The pose studio, the renderers, the colour grading,
the effects and the audio analysis compute with real numbers, pixels and
samples, which TLC does not evaluate; `public/pose-studio/pose-studio.js` is a
built bundle. Catalogues, articles and style tables (`lib/search-pages.ts`,
`lib/seo`, `app/blog`) are data. Of the Studio, playback, stage, export and the
trimming of large documents are left out; of the caption page, styles, emphasis,
translation and find-and-replace. The song pages (`voice-enhancer`,
`lyric-music`) fetch quotes without ordering their answers. The browser extension
forwards one picture per message.
