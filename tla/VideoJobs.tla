------------------------------- MODULE VideoJobs -------------------------------
(***************************************************************************)
(* The life of a MiniMax H3 video job: the client's handlers (submit,      *)
(* status, cancel, retry, delete), the one background watcher a job has in *)
(* this process (launchVideoJob and the process...Job loops), the GPU      *)
(* providers, and the settlement that releases the result for credits.     *)
(*                                                                         *)
(* A handler or a watcher is a sequence of database statements and         *)
(* provider calls; each is one action here, and anything may happen in     *)
(* between.  DB.mu makes a single statement (or the settlement transaction)*)
(* atomic, so a statement is never split further.                          *)
(***************************************************************************)
EXTENDS VideoJobStore

CONSTANTS
  Jobs, Users, Owner,     \* Owner[j] is the account that submits job j
  Watchers,               \* goroutines that may run processVideoJob
  Calls,                  \* client requests in flight at the same time
  Kinds,                  \* the configured routes: a subset of AllKinds
  Lanes,                  \* optional routing: a subset of AllLanes
  Credits,                \* the prices, in credits, a settlement may ask for
  Grants,                 \* the credits one purchase may add
  NoOne,                  \* absence of a job or of a watcher
  StartCredits, MaxTopUps, MaxErrs, MaxFaults, MaxCrashes  \* bounds

AllKinds == {"runpod", "local", "fal", "shared"}
\* "flex": jobs may ask for the flex lane, which falls back to fal.
\* "batch": a RunPod submission goes to the batch tier first.
\* "quality": a black picture is retried once before the job fails.
AllLanes == {"flex", "batch", "quality"}

ASSUME OwnerAssumption == Owner \in [Jobs -> Users]
ASSUME RouteAssumption == Kinds \subseteq AllKinds /\ Lanes \subseteq AllLanes
ASSUME CreditAssumption == Credits \cup Grants \subseteq Nat \ {0} /\ StartCredits \in Nat
ASSUME BoundAssumption ==
  /\ MaxTopUps \in Nat /\ MaxErrs \in Nat \ {0}
  /\ MaxFaults \in Nat /\ MaxCrashes \in Nat
ASSUME NoOneAssumption == NoOne \notin Jobs \cup Watchers

VARIABLES
  row,        \* video_jobs: job -> row
  bal,        \* users.credits
  spent,      \* per user, the sum of the credits in billing_events
  granted,    \* per user, the credits ever added to the account
  billed,     \* the jobs with a billing event "video_settle_" + id
  prov,       \* the provider requests, in the order of their submission
  nprov,      \* how many there are
  batchJobs,  \* runpodBatchJobs: requests in an open batch (memory only)
  active,     \* activeVideoJobs: job -> the watcher registered for it
  watch,      \* the watchers: program counter and local variables
  call,       \* the client requests in flight
  faults,     \* database statements that failed so far
  crashes     \* restarts of the process so far

money == <<bal, spent, granted, billed>>
provider == <<prov, nprov, batchJobs>>
threads == <<active, watch>>
limits == <<faults, crashes>>
vars == <<row, money, provider, threads, call, limits>>

--------------------------------------------------------------------------------
\* Provider requests

ProvStates == {"READY", "IN_QUEUE", "IN_PROGRESS", "COMPLETED", "FAILED", "CANCELLED"}
LiveStates == {"READY", "IN_QUEUE", "IN_PROGRESS"}

\* rerouted marks a request the server cancelled itself in order to run the job
\* somewhere else.
ProvRec == [kind : AllKinds, st : ProvStates, rerouted : BOOLEAN]

NewProv(k) ==
  [kind |-> k, st |-> IF k = "local" THEN "READY" ELSE "IN_QUEUE",
   rerouted |-> FALSE]

\* The request ids 1, 2, ... are handed out in order.
CanSubmit == nprov < MaxProv
Fresh == nprov + 1
Allocate(k) == nprov' = Fresh /\ prov' = [prov EXCEPT ![Fresh] = NewProv(k)]

\* submitScaledH3RunpodJob tries the batch tier first where it is enabled.
Enqueue(k) ==
  /\ Allocate(k)
  /\ \/ batchJobs' = batchJobs
     \/ k = "runpod" /\ "batch" \in Lanes /\ batchJobs' = batchJobs \cup {Fresh}

\* A best-effort cancel: the call may fail, come too late, or find nothing.
CancelBestEffort(p) ==
  \/ UNCHANGED prov
  \/ /\ p # NoProv
     /\ prov[p].st \in LiveStates
     /\ prov' = [prov EXCEPT ![p].st = "CANCELLED"]

IsLocal(p) == p # NoProv /\ prov[p].kind = "local"

--------------------------------------------------------------------------------
\* Watchers and calls

WatchPC == {"idle", "start", "mark", "poll", "seen", "flexCancel", "requeue",
            "toLocal", "quality", "settle", "due", "fail", "post", "wait", "exit"}

\* stage counts the fallbacks already refused for the status in seen.
Watch == [job : Jobs \cup {NoOne}, pc : WatchPC, prov : ProvIds \cup {NoProv},
          flex : BOOLEAN, req : Requests, seen : ProvStates, stage : 0 .. 3,
          errs : 0 .. MaxErrs, newp : ProvIds \cup {NoProv}, stop : BOOLEAN]

IdleWatch == [job |-> NoOne, pc |-> "idle", prov |-> NoProv, flex |-> FALSE,
              req |-> "none", seen |-> "IN_QUEUE", stage |-> 0, errs |-> 0,
              newp |-> NoProv, stop |-> FALSE]

CallPC == {"idle", "create", "persist", "launch", "cancelCtx", "cancelProv",
           "requeue", "delete", "settle"}

Call == [job : Jobs \cup {NoOne}, pc : CallPC, prov : ProvIds \cup {NoProv},
         flex : BOOLEAN, req : Requests]

IdleCall == [job |-> NoOne, pc |-> "idle", prov |-> NoProv,
             flex |-> FALSE, req |-> "none"]

TypeOK ==
  /\ row \in [Jobs -> Row]
  /\ bal \in [Users -> Nat] /\ spent \in [Users -> Nat] /\ granted \in [Users -> Nat]
  /\ billed \subseteq Jobs
  /\ prov \in [ProvIds -> ProvRec] /\ nprov \in 0 .. MaxProv /\ batchJobs \subseteq ProvIds
  /\ active \in [Jobs -> Watchers \cup {NoOne}]
  /\ watch \in [Watchers -> Watch]
  /\ call \in [Calls -> Call]
  /\ faults \in 0 .. MaxFaults /\ crashes \in 0 .. MaxCrashes

Init ==
  /\ row = [j \in Jobs |-> UnbornRow]
  /\ bal = [u \in Users |-> StartCredits]
  /\ spent = [u \in Users |-> 0]
  /\ granted = [u \in Users |-> StartCredits]
  /\ billed = {}
  /\ prov = [p \in ProvIds |-> NewProv("shared")]
  /\ nprov = 0
  /\ batchJobs = {}
  /\ active = [j \in Jobs |-> NoOne]
  /\ watch = [w \in Watchers |-> IdleWatch]
  /\ call = [c \in Calls |-> IdleCall]
  /\ faults = 0
  /\ crashes = 0

\* A statement that replaces row j, or fails and changes nothing.
Applied(j, r) == row' = [row EXCEPT ![j] = r] /\ UNCHANGED faults
Failed == faults < MaxFaults /\ faults' = faults + 1 /\ UNCHANGED row
\* A statement whose error the caller discards.
Write(j, r) == Applied(j, r) \/ Failed

WatchAt(w, pc) == watch[w].pc = pc
Goto(w, pc) == watch' = [watch EXCEPT ![w].pc = pc]
CallAt(c, pc) == call[c].pc = pc
Reply(c) == call' = [call EXCEPT ![c] = IdleCall]

--------------------------------------------------------------------------------
\* The settlement transaction and the launch of a watcher

\* SettleGeneratedVideoJob: debit and billing event (ON CONFLICT DO NOTHING)
\* commit together with the row.
SettleGeneratedVideoJob(j, credits) ==
  LET u == Owner[j]
      outcome == SettleOutcome(row[j], bal[u], credits)
  IN /\ row' = [row EXCEPT ![j] = SettledRow(row[j], outcome)]
     /\ IF outcome = "paid"
        THEN /\ bal' = [bal EXCEPT ![u] = @ - credits]
             /\ spent' = IF j \in billed THEN spent
                         ELSE [spent EXCEPT ![u] = @ + credits]
             /\ billed' = billed \cup {j}
        ELSE UNCHANGED <<bal, spent, billed>>
     /\ UNCHANGED granted

\* A slip: the watcher is registered without looking for another one.
LaunchAnyway(j) ==
  \E w \in Watchers :
    /\ WatchAt(w, "idle")
    /\ active' = [active EXCEPT ![j] = w]
    /\ watch' = [watch EXCEPT ![w] = [IdleWatch EXCEPT !.job = j, !.pc = "start"]]

\* launchVideoJob: LoadOrStore lets only one watcher register for a job; a
\* second launch is dropped.
launchVideoJob(j) ==
  IF active[j] = NoOne
  THEN \E w \in Watchers :
         /\ WatchAt(w, "idle")
         /\ active' = [active EXCEPT ![j] = w]
         /\ watch' = [watch EXCEPT ![w] = [IdleWatch EXCEPT !.job = j, !.pc = "start"]]
  ELSE UNCHANGED threads

--------------------------------------------------------------------------------
\* Client handlers

\* handleH3VideoService and the handler of the route it picks: the provider
\* request is submitted first, so it exists before the row does.
Submit(c, j, k) ==
  /\ CallAt(c, "idle") /\ row[j].status = "unborn"
  /\ \A d \in Calls : call[d].job # j
  /\ CanSubmit /\ Enqueue(k)
  /\ \E flx \in BOOLEAN :
       /\ flx => k = "runpod" /\ "flex" \in Lanes
       /\ call' = [call EXCEPT ![c] = [job |-> j, pc |-> "create", prov |-> Fresh,
                                       flex |-> flx, req |-> "fresh"]]
  /\ UNCHANGED <<row, money, threads, limits>>

\* Only the RunPod handler cancels the request when the INSERT fails.
Create(c) ==
  /\ CallAt(c, "create")
  /\ LET j == call[c].job
         p == call[c].prov
     IN \/ /\ Applied(j, CreateVideoJobForService(row[j], p))
           /\ call' = [call EXCEPT ![c].pc = "persist"]
           /\ UNCHANGED prov
        \/ /\ Failed /\ Reply(c)
           /\ IF prov[p].kind = "runpod" THEN CancelBestEffort(p) ELSE UNCHANGED prov
  /\ UNCHANGED <<money, nprov, batchJobs, threads, crashes>>

\* A request that cannot be stored fails the RunPod job; the other routes
\* leave the queued row behind.
Persist(c) ==
  /\ CallAt(c, "persist")
  /\ LET j == call[c].job
         p == call[c].prov
     IN \/ /\ Applied(j, PersistRequest(row[j], call[c].flex))
           /\ call' = [call EXCEPT ![c].pc = "launch"]
           /\ UNCHANGED prov
        \/ /\ faults < MaxFaults /\ faults' = faults + 1 /\ Reply(c)
           /\ IF prov[p].kind = "runpod"
              THEN CancelBestEffort(p)
                   /\ row' = [row EXCEPT ![j] = UpdateVideoJob(row[j], "failed")]
              ELSE UNCHANGED <<prov, row>>
  /\ UNCHANGED <<money, nprov, batchJobs, threads, crashes>>

Launch(c) ==
  /\ CallAt(c, "launch")
  /\ launchVideoJob(call[c].job)
  /\ Reply(c)
  /\ UNCHANGED <<row, money, provider, limits>>

\* handleVideoJobStatus: a paid result waiting for credits is settled again, a
\* pending job without a watcher is relaunched.
Status(c, j) ==
  /\ CallAt(c, "idle") /\ Present(row[j])
  /\ \/ /\ row[j].status = "payment_required" /\ row[j].priced
        /\ call' = [call EXCEPT ![c].job = j, ![c].pc = "settle"]
     \/ /\ shouldRelaunchVideoJob(row[j], IsLocal(row[j].prov))
        /\ call' = [call EXCEPT ![c].job = j, ![c].pc = "launch"]
  /\ UNCHANGED <<row, money, provider, threads, limits>>

\* handleListVideoJobs relaunches the pending jobs it lists, unless their work is
\* local; the caller may list a job whose submission has not answered yet.
List(c, j) ==
  /\ CallAt(c, "idle") /\ row[j].status \in PendingStatuses /\ ~IsLocal(row[j].prov)
  /\ call' = [call EXCEPT ![c].job = j, ![c].pc = "launch"]
  /\ UNCHANGED <<row, money, provider, threads, limits>>

\* Any error of the second settlement is ignored; the client polls again.
StatusSettle(c) ==
  /\ CallAt(c, "settle")
  /\ \/ \E a \in Credits : SettleGeneratedVideoJob(call[c].job, a)
     \/ UNCHANGED <<row, money>>
  /\ Reply(c)
  /\ UNCHANGED <<provider, threads, limits>>

\* handleCancelVideoJob: the row first, then the watcher, then the provider.
Cancel(c, j) ==
  /\ CallAt(c, "idle") /\ Cancelable(row[j])
  /\ row' = [row EXCEPT ![j] = CancelVideoJob(row[j])]
  /\ call' = [call EXCEPT ![c].job = j, ![c].pc = "cancelCtx", ![c].prov = row[j].prov]
  /\ UNCHANGED <<money, provider, threads, limits>>

cancelActiveVideoJob(c) ==
  /\ CallAt(c, "cancelCtx")
  /\ LET w == active[call[c].job]
     IN watch' = IF w = NoOne THEN watch ELSE [watch EXCEPT ![w].stop = TRUE]
  /\ call' = [call EXCEPT ![c].pc = "cancelProv"]
  /\ UNCHANGED <<row, money, provider, active, limits>>

cancelVideoProvider(c) ==
  /\ CallAt(c, "cancelProv")
  /\ CancelBestEffort(call[c].prov)
  /\ Reply(c)
  /\ UNCHANGED <<row, money, nprov, batchJobs, threads, limits>>

\* What retryH3VideoJob stores: the old request, or one made of the prompt.
\* A fal payload is built afresh and forgets the quality retry.
RetryRequest(req, k) == IF req = "retried" /\ k # "fal" THEN "retried" ELSE "fresh"

\* handleRetryVideoJob and retryH3VideoJob: the row is read, the route is picked
\* again and a new request submitted; nothing holds the row until Requeue looks
\* at it again.
Retry(c, j, k) ==
  /\ CallAt(c, "idle") /\ Requeueable(row[j])
  /\ CanSubmit /\ Enqueue(k)
  /\ \E flx \in BOOLEAN :
       /\ row[j].flex => flx
       /\ flx => k = "runpod" /\ "flex" \in Lanes
       /\ call' = [call EXCEPT ![c] = [job |-> j, pc |-> "requeue", prov |-> Fresh,
                                       flex |-> flx, req |-> RetryRequest(row[j].req, k)]]
  /\ UNCHANGED <<row, money, threads, limits>>

Requeue(c) ==
  /\ CallAt(c, "requeue")
  /\ LET j == call[c].job
     IN \/ /\ Requeueable(row[j])
           /\ Applied(j, RequeueVideoJobProvider(row[j], call[c].prov,
                                                 call[c].flex, call[c].req))
           /\ call' = [call EXCEPT ![c].pc = "launch"]
        \/ /\ ~Requeueable(row[j]) /\ Reply(c) /\ UNCHANGED <<row, faults>>
        \/ Failed /\ Reply(c)
  /\ UNCHANGED <<money, provider, threads, crashes>>

\* handleDeleteVideoJob: the status is checked in one statement and the row
\* removed in another.
Delete(c, j) ==
  /\ CallAt(c, "idle") /\ Present(row[j]) /\ row[j].status \notin PendingStatuses
  /\ call' = [call EXCEPT ![c].job = j, ![c].pc = "delete"]
  /\ UNCHANGED <<row, money, provider, threads, limits>>

DeleteRow(c) ==
  /\ CallAt(c, "delete")
  /\ Write(call[c].job, DeleteVideoJob(row[call[c].job]))
  /\ Reply(c)
  /\ UNCHANGED <<money, provider, threads, crashes>>

\* A purchase adds credits to the account.
TopUp(u) ==
  /\ \E n \in Grants :
       /\ granted[u] + n <= StartCredits + MaxTopUps
       /\ bal' = [bal EXCEPT ![u] = @ + n]
       /\ granted' = [granted EXCEPT ![u] = @ + n]
  /\ UNCHANGED <<row, spent, billed, provider, threads, call, limits>>

--------------------------------------------------------------------------------
\* The watcher: processVideoJob and the loop of the job's provider

\* GetVideoJobInternal: the snapshot every later step works from.  A watcher
\* that cannot read the row, or finds no pending one, leaves.
processVideoJob(w) ==
  /\ WatchAt(w, "start")
  /\ LET r == row[watch[w].job]
     IN \/ /\ r.status \in PendingStatuses
           /\ watch' = [watch EXCEPT ![w] = [@ EXCEPT !.pc = "mark", !.prov = r.prov,
                                               !.flex = r.flex, !.req = r.req]]
           /\ UNCHANGED <<row, faults>>
        \/ r.status \notin PendingStatuses /\ Goto(w, "exit") /\ UNCHANGED <<row, faults>>
        \/ Failed /\ Goto(w, "exit")
  /\ UNCHANGED <<money, provider, active, call, crashes>>

MarkProcessing(w) ==
  /\ WatchAt(w, "mark")
  /\ Write(watch[w].job, UpdateVideoJob(row[watch[w].job], "processing"))
  /\ Goto(w, IF IsLocal(watch[w].prov) THEN "post" ELSE "poll")
  /\ UNCHANGED <<money, provider, active, call, crashes>>

\* A slip: the loop does not look at the context.
CancellationIgnored(w) == FALSE

\* The context of the job's registered watcher, which is this one.
videoJobCancellationRequested(w) == watch[w].stop

\* The head of the loop: leave when the context is cancelled, give up after
\* too many errors (fal never does), otherwise take the status reported now.
Poll(w) ==
  /\ WatchAt(w, "poll")
  /\ LET p == watch[w].prov
         k == prov[p].kind
         n == watch[w].errs + 1
     IN IF videoJobCancellationRequested(w)
        THEN Goto(w, "exit") /\ UNCHANGED prov
        ELSE \/ /\ watch' = [watch EXCEPT ![w].pc = "seen", ![w].seen = prov[p].st,
                                          ![w].stage = 0, ![w].errs = 0]
                /\ UNCHANGED prov
             \/ /\ k # "fal" /\ n < MaxErrs
                /\ watch' = [watch EXCEPT ![w].errs = n]
                /\ UNCHANGED prov
             \/ /\ k # "fal" /\ n >= MaxErrs
                /\ Goto(w, "fail")
                /\ IF k = "runpod" THEN CancelBestEffort(p) ELSE UNCHANGED prov
  /\ UNCHANGED <<row, money, nprov, batchJobs, active, call, limits>>

\* The deadline of the loop has passed.
Deadline(w) ==
  /\ WatchAt(w, "poll")
  /\ Goto(w, "fail")
  /\ IF prov[watch[w].prov].kind = "runpod"
     THEN CancelBestEffort(watch[w].prov) ELSE UNCHANGED prov
  /\ UNCHANGED <<row, money, nprov, batchJobs, active, call, limits>>

\* Fallbacks of processRunpodH3VideoJob, in its order: to fal (stage 0), from
\* batch to serverless (1), to the local worker (2).  One that refuses passes
\* the same observed status on to the next.
RunpodSaw(w, sts, n) ==
  /\ WatchAt(w, "seen") /\ prov[watch[w].prov].kind = "runpod"
  /\ watch[w].seen \in sts /\ watch[w].stage <= n

\* The server cancels a request of its own, in order to run the job elsewhere.
TakenBack(p) == [prov EXCEPT ![p].st = "CANCELLED", ![p].rerouted = TRUE]
Refuse(w, n) == watch' = [watch EXCEPT ![w].pc = "seen", ![w].stage = n]

\* moveFlexJobToFal submits to fal first.  A request that failed already needs
\* no cancellation.
moveFlexJobToFal(w) ==
  /\ watch[w].flex /\ RunpodSaw(w, {"IN_QUEUE", "IN_PROGRESS", "FAILED"}, 0)
  /\ CanSubmit /\ Allocate("fal")
  /\ watch' = [watch EXCEPT ![w].newp = Fresh,
                 ![w].pc = IF watch[w].seen = "FAILED" THEN "requeue" ELSE "flexCancel"]
  /\ UNCHANGED <<row, money, batchJobs, active, call, limits>>

\* The move goes on only when RunPod confirms; otherwise the fal request is
\* dropped again (best effort).
FlexCancel(w) ==
  /\ WatchAt(w, "flexCancel")
  /\ \/ /\ prov[watch[w].prov].st \in LiveStates \cup {"CANCELLED"}
        /\ prov' = TakenBack(watch[w].prov)
        /\ Goto(w, "requeue")
     \/ CancelBestEffort(watch[w].newp) /\ Refuse(w, 1)
  /\ UNCHANGED <<row, money, nprov, batchJobs, active, call, limits>>

\* runpodBatchExpire: cancel a batch nobody started, then /run; when /run fails
\* the batch is gone all the same.
runpodBatchExpire(w) ==
  /\ RunpodSaw(w, {"IN_QUEUE"}, 1)
  /\ LET p == watch[w].prov
     IN /\ p \in batchJobs /\ prov[p].st \in {"IN_QUEUE", "CANCELLED"}
        /\ \/ /\ CanSubmit
              /\ nprov' = Fresh
              /\ prov' = [TakenBack(p) EXCEPT ![Fresh] = NewProv("runpod")]
              /\ batchJobs' = batchJobs \ {p}
              /\ watch' = [watch EXCEPT ![w].pc = "requeue", ![w].newp = Fresh]
           \/ /\ prov' = TakenBack(p) /\ Refuse(w, 2) /\ UNCHANGED <<nprov, batchJobs>>
  /\ UNCHANGED <<row, money, active, call, limits>>

\* RequeueVideoJobProvider as the watcher calls it, for the flex lane and for a
\* batch.  On success it calls launchVideoJob, which finds this watcher still
\* registered and is dropped, and leaves.  Only the batch path cancels the new
\* request when the row refuses it.
RequeueFallback(w) ==
  /\ WatchAt(w, "requeue")
  /\ LET s == watch[w]
         j == s.job
         toFal == prov[s.newp].kind = "fal"
     IN \/ /\ Requeueable(row[j])
           /\ Applied(j, RequeueVideoJobProvider(row[j], s.newp, s.flex /\ ~toFal,
                                                 IF toFal THEN "fresh" ELSE s.req))
           /\ Goto(w, "exit")
           /\ UNCHANGED prov
        \/ /\ \/ ~Requeueable(row[j]) /\ UNCHANGED <<row, faults>>
              \/ Failed
           /\ Refuse(w, IF toFal THEN 1 ELSE 2)
           /\ IF toFal THEN UNCHANGED prov ELSE CancelBestEffort(s.newp)
  /\ UNCHANGED <<money, nprov, batchJobs, active, call, crashes>>

\* fallbackRunpodH3ToLocal: cancel, and go on only when RunPod confirms; the new
\* handle "local:sync" is no request yet.
fallbackRunpodH3ToLocal(w) ==
  /\ RunpodSaw(w, {"IN_QUEUE"}, 2) /\ "local" \in Kinds
  /\ \/ /\ prov[watch[w].prov].st \in LiveStates \cup {"CANCELLED"}
        /\ CanSubmit /\ nprov' = Fresh
        /\ prov' = [TakenBack(watch[w].prov) EXCEPT ![Fresh] = NewProv("local")]
        /\ watch' = [watch EXCEPT ![w].pc = "toLocal", ![w].newp = Fresh]
     \/ UNCHANGED <<prov, nprov>> /\ Refuse(w, 3)
  /\ UNCHANGED <<row, money, batchJobs, active, call, limits>>

\* A slip: the goroutine goes on with its old copy of the stored request.
MoveWithOldRequest(w, req) ==
  LET j == watch[w].job
      n == watch[w].newp
  IN /\ Writable(row[j])
     /\ Applied(j, UpdateVideoJobProvider(row[j], n, watch[w].flex, req))
     /\ watch' = [watch EXCEPT ![w].pc = "mark", ![w].prov = n]

\* UpdateVideoJobProvider: refused for a cancelled or deleted row.  The same
\* goroutine goes on as the watcher of the new request.
Move(w, req) ==
  LET j == watch[w].job
      n == watch[w].newp
  IN /\ Writable(row[j])
     /\ Applied(j, UpdateVideoJobProvider(row[j], n, watch[w].flex, req))
     /\ watch' = [watch EXCEPT ![w].pc = "mark", ![w].prov = n, ![w].req = req]

MoveRefused(w) ==
  \/ ~Writable(row[watch[w].job]) /\ UNCHANGED <<row, faults>>
  \/ Failed

MoveToLocal(w) ==
  /\ WatchAt(w, "toLocal")
  /\ Move(w, IF watch[w].req = "retried" THEN "retried" ELSE "fresh")
     \/ (MoveRefused(w) /\ Refuse(w, 3))
  /\ UNCHANGED <<money, provider, active, call, crashes>>

\* retryRunpodH3QualityFailure: once per stored request, a finished video with
\* a black picture is generated again; without one it fails.
QualitySubmit(w) ==
  /\ "quality" \in Lanes /\ watch[w].req = "fresh"
  /\ RunpodSaw(w, {"COMPLETED"}, 3)
  /\ CanSubmit /\ Enqueue("runpod")
  /\ watch' = [watch EXCEPT ![w].pc = "quality", ![w].newp = Fresh]
  /\ UNCHANGED <<row, money, active, call, limits>>

retryRunpodH3QualityFailure(w) ==
  /\ WatchAt(w, "quality")
  /\ Move(w, "retried") \/ (MoveRefused(w) /\ Goto(w, "fail"))
  /\ UNCHANGED <<money, provider, active, call, crashes>>

\* The switch on the status: wait, settle, or fail.  A completed request whose
\* artifact is missing, invalid or cannot be stored fails as well.
Judge(w) ==
  /\ WatchAt(w, "seen")
  /\ LET st == watch[w].seen
     IN \/ st \in LiveStates /\ Goto(w, "poll")
        \/ st = "COMPLETED" /\ (Goto(w, "settle") \/ Goto(w, "fail"))
        \/ st \in {"FAILED", "CANCELLED"} /\ Goto(w, "fail")
  /\ UNCHANGED <<row, money, provider, active, call, limits>>

\* processLocalH3VideoJob: one synchronous POST, bound to the job's context.
PostLocal(w) ==
  /\ WatchAt(w, "post")
  /\ LET p == watch[w].prov
         stopped == videoJobCancellationRequested(w)
     IN \/ stopped /\ Goto(w, "exit") /\ UNCHANGED prov
        \/ /\ ~stopped /\ Goto(w, "wait")
           /\ prov' = [prov EXCEPT ![p].st = IF @ = "READY" THEN "IN_PROGRESS" ELSE @]
  /\ UNCHANGED <<row, money, nprov, batchJobs, active, call, limits>>

\* The response: a video; a failed prediction or an error of the request (its
\* timeout included), which after a cancellation write nothing; an HTTP error,
\* an unusable body or a missing URL, which write the failure regardless.
LocalResponse(w) ==
  /\ WatchAt(w, "wait")
  /\ LET st == prov[watch[w].prov].st
     IN \/ st = "COMPLETED" /\ Goto(w, "settle")
        \/ Goto(w, "fail")
        \/ videoJobCancellationRequested(w) /\ Goto(w, "exit")
  /\ UNCHANGED <<row, money, provider, active, call, limits>>

\* A watcher settles its result; when the transaction fails it cannot tell whether
\* it committed.  There always is a credit price (stubs.go:17).
Settle(w) ==
  /\ WatchAt(w, "settle")
  /\ LET j == watch[w].job
     IN \/ \E a \in Credits :
             /\ SettleGeneratedVideoJob(j, a)
             /\ \/ /\ UNCHANGED faults
                   /\ Goto(w, IF SettleOutcome(row[j], bal[Owner[j]], a) \in {"paid", "already"}
                              THEN "exit" ELSE "due")
                \/ /\ faults < MaxFaults /\ faults' = faults + 1 /\ Goto(w, "due")
        \/ /\ Failed /\ Goto(w, "due") /\ UNCHANGED money
  /\ UNCHANGED <<provider, active, call, crashes>>

\* The second statement after a settlement that returned an error:
\* UpdateVideoJob(id, "payment_required").
MarkPaymentRequired(w) ==
  /\ WatchAt(w, "due")
  /\ Write(watch[w].job, UpdateVideoJob(row[watch[w].job], "payment_required"))
  /\ Goto(w, "exit")
  /\ UNCHANGED <<money, provider, active, call, crashes>>

MarkFailed(w) ==
  /\ WatchAt(w, "fail")
  /\ Write(watch[w].job, UpdateVideoJob(row[watch[w].job], "failed"))
  /\ Goto(w, "exit")
  /\ UNCHANGED <<money, provider, active, call, crashes>>

\* The deferred activeVideoJobs.Delete.
Exit(w) ==
  /\ WatchAt(w, "exit")
  /\ active' = [active EXCEPT ![watch[w].job] = NoOne]
  /\ watch' = [watch EXCEPT ![w] = IdleWatch]
  /\ UNCHANGED <<row, money, provider, call, limits>>

--------------------------------------------------------------------------------
\* The environment

\* A provider starts and finishes requests on its own.
ProviderStep(p) ==
  /\ \/ prov[p].st = "IN_QUEUE" /\ p <= nprov
        /\ prov' = [prov EXCEPT ![p].st = "IN_PROGRESS"]
     \/ /\ prov[p].st = "IN_PROGRESS"
        /\ \E st \in {"COMPLETED", "FAILED"} : prov' = [prov EXCEPT ![p].st = st]
  /\ UNCHANGED <<row, money, nprov, batchJobs, threads, call, limits>>

\* The process restarts: rows, balances and provider requests survive, every
\* goroutine, in-memory map and client request is gone.
Crash ==
  /\ crashes < MaxCrashes
  /\ crashes' = crashes + 1
  /\ batchJobs' = {}
  /\ active' = [j \in Jobs |-> NoOne]
  /\ watch' = [w \in Watchers |-> IdleWatch]
  /\ call' = [c \in Calls |-> IdleCall]
  /\ UNCHANGED <<row, money, prov, nprov, faults>>

--------------------------------------------------------------------------------
CallStep(c) ==
  \/ Create(c) \/ Persist(c) \/ Launch(c) \/ StatusSettle(c)
  \/ cancelActiveVideoJob(c) \/ cancelVideoProvider(c) \/ Requeue(c) \/ DeleteRow(c)

ClientStep(c, j) ==
  \/ \E k \in Kinds : Submit(c, j, k) \/ Retry(c, j, k)
  \/ Status(c, j) \/ List(c, j) \/ Cancel(c, j) \/ Delete(c, j)

FallbackStep(w) ==
  \/ moveFlexJobToFal(w) \/ FlexCancel(w) \/ runpodBatchExpire(w) \/ RequeueFallback(w)
  \/ fallbackRunpodH3ToLocal(w) \/ MoveToLocal(w)
  \/ QualitySubmit(w) \/ retryRunpodH3QualityFailure(w)

WatchStep(w) ==
  \/ processVideoJob(w) \/ MarkProcessing(w) \/ Poll(w) \/ Judge(w)
  \/ PostLocal(w) \/ LocalResponse(w)
  \/ Settle(w) \/ MarkPaymentRequired(w) \/ MarkFailed(w) \/ Exit(w)

Next ==
  \/ \E c \in Calls : CallStep(c) \/ \E j \in Jobs : ClientStep(c, j)
  \/ \E w \in Watchers : WatchStep(w) \/ FallbackStep(w) \/ Deadline(w)
  \/ \E u \in Users : TopUp(u)
  \/ \E p \in ProvIds : ProviderStep(p)
  \/ Crash

Spec == Init /\ [][Next]_vars

\* Goroutines and requests run to their end; nothing is assumed of the providers.
Running ==
  /\ \A w \in Watchers : WF_vars(WatchStep(w) \/ FallbackStep(w))
  /\ \A c \in Calls : WF_vars(CallStep(c))

RunningSpec == Spec /\ Running

\* A deadline is wall-clock time, so a loop that comes back to its head for ever
\* finds it passed; the client keeps polling a job it is shown as pending.
Patience ==
  /\ \A w \in Watchers : SF_vars(Deadline(w))
  /\ \A j \in Jobs : SF_vars(\E c \in Calls : Status(c, j))

--------------------------------------------------------------------------------
\* The inductive invariant

\* Handles and registers are set where they are used.
RowReady(r) == r.status # "unborn" => r.prov \in ProvIds
WatchReady(s) ==
  /\ s.pc # "idle" => s.job \in Jobs
  /\ s.pc \notin {"idle", "start", "exit"} => s.prov \in ProvIds
  /\ s.pc \in {"flexCancel", "requeue", "toLocal", "quality"} => s.newp \in ProvIds
CallReady(d) ==
  /\ d.pc # "idle" => d.job \in Jobs
  /\ d.pc \in {"create", "persist", "requeue"} => d.prov \in ProvIds

Shapes ==
  /\ \A j \in Jobs : RowReady(row[j])
  /\ \A w \in Watchers : WatchReady(watch[w])
  /\ \A c \in Calls : CallReady(call[c])

--------------------------------------------------------------------------------
\* Properties

\* The books of every account balance: credits left plus credits recorded in
\* billing_events are the credits ever granted.  A debit that is repeated, or
\* that commits without its event, breaks this (SettleGeneratedVideoJob).
BooksBalance == \A u \in Users : bal[u] + spent[u] = granted[u]

\* A job is marked settled exactly when its charge is in the ledger, whatever
\* cancellations, retries, deletions and restarts it went through.
ChargeRecorded == \A j \in Jobs : row[j].settled <=> j \in billed

Books == BooksBalance /\ ChargeRecorded
IInv == TypeOK /\ Shapes /\ Books

\* Settlements, top-ups and everything around them implement the abstract
\* account: one charge per job, covered by the balance, and nothing else.
Ledger == INSTANCE CreditLedger
            WITH bal <- bal, spent <- spent, granted <- granted, billed <- billed
ImplementsLedger == Ledger!Spec

\* No result is released unpaid: only the settlement completes an H3 job.
ReleasedIsPaid == \A j \in Jobs : row[j].status = "completed" => row[j].settled

\* A result that was paid for stays released: a status poll can recover it.
PaidIsReleased ==
  \A j \in Jobs : row[j].settled => row[j].status \in {"completed", "deleted"}

\* A row that asks for payment has not been paid.
PaymentDueIsUnpaid ==
  \A j \in Jobs : row[j].status = "payment_required" => ~row[j].settled

\* A job is not failed over a request the server itself took back in order to
\* run the job somewhere else.
RerouteKeepsJob ==
  \A j \in Jobs :
    row[j].status = "failed" /\ row[j].prov # NoProv => ~prov[row[j].prov].rerouted

\* A watcher works on a job exactly while it is registered for it: at most one
\* does, a cancellation finds that one, and no registration outlives its watcher
\* and turns later launches away (activeVideoJobs in launchVideoJob).
OneWatcher ==
  \A j \in Jobs, w \in Watchers :
    active[j] = w <=> watch[w].pc # "idle" /\ watch[w].job = j

\* The automatic quality retry of a stored request is spent once, although the
\* decision is taken on the watcher's copy of it (retryRunpodH3QualityFailure),
\* as long as the row holds the request the watcher follows.  A client's retry
\* that was prepared long before may replace it: the copy is stale then.
QualityRetriedOnce ==
  [][\A w \in Watchers :
       watch[w].pc = "seen" /\ watch'[w].pc = "quality" /\ row[watch[w].job].prov = watch[w].prov
         => row[watch[w].job].req # "retried"]_vars

\* A cancelled job is never charged, however late the watcher settles.
CancelledNeverCharged ==
  [][\A j \in Jobs : row[j].status = "cancelled" => (j \in billed' <=> j \in billed)]_vars

\* Only a retry the user asked for revives a cancelled job.
CancelledStays ==
  [][\A j \in Jobs :
       row[j].status = "cancelled" /\ row'[j].status \notin {"cancelled", "deleted"}
         => \E c \in Calls : CallAt(c, "requeue") /\ call[c].job = j]_vars

\* A pending job reaches an outcome, whatever the provider does and although
\* the process may restart: status polls find it a watcher again.  Excepted is
\* the work of a synchronous local request, which shouldRelaunchVideoJob leaves
\* alone once it is processing.
PendingResolves ==
  LET pending(j) == row[j].status \in PendingStatuses /\ ~IsLocal(row[j].prov)
  IN Patience => \A j \in Jobs : pending(j) ~> ~pending(j)

\* A watcher whose job is cancelled stops, without waiting for its deadline.
CancelStopsWatcher == \A w \in Watchers : watch[w].stop ~> watch[w].pc = "idle"
================================================================================
