---------------------------- MODULE VideoJobsProofs ----------------------------
(***************************************************************************)
(* Theorems about VideoJobs, for every set of jobs, users, watchers and    *)
(* requests, every routing and every bound.                                *)
(***************************************************************************)
EXTENDS VideoJobs, TLAPS

\* A row, a watcher and a request as the inductive invariant describes them.
GoodRow(r) == r \in Row /\ RowReady(r)
GoodWatch(s) == s \in Watch /\ WatchReady(s)
GoodCall(d) == d \in Call /\ CallReady(d)

\* r follows from q by a statement that does not settle the row.
Unsettling(q, r) ==
  /\ GoodRow(r) /\ r.settled = q.settled
  /\ r.status = "completed" => q.status = "completed"

--------------------------------------------------------------------------------
\* The statements of the store

LEMMA StatusOnly ==
  ASSUME NEW q, GoodRow(q), NEW st \in Statuses \ {"completed", "unborn"}
  PROVE  Unsettling(q, UpdateVideoJob(q, st))
BY DEF Unsettling, GoodRow, RowReady, UpdateVideoJob, Writable, Present, NoRowStatuses, Row, Statuses

LEMMA PersistKeeps ==
  ASSUME NEW q, GoodRow(q), NEW f \in BOOLEAN
  PROVE  Unsettling(q, PersistRequest(q, f))
BY DEF Unsettling, GoodRow, RowReady, PersistRequest, Requests, Writable, Present, NoRowStatuses, Row, Statuses, PendingStatuses

LEMMA ProviderKeeps ==
  ASSUME NEW q, GoodRow(q), NEW p \in ProvIds, NEW f \in BOOLEAN, NEW t \in Requests
  PROVE  /\ Unsettling(q, UpdateVideoJobProvider(q, p, f, t))
         /\ Unsettling(q, RequeueVideoJobProvider(q, p, f, t))
BY DEF Unsettling, GoodRow, RowReady, UpdateVideoJobProvider, WithPayload, RequeueVideoJobProvider, Requeueable,
   Writable, Present, NoRowStatuses, Row, Statuses, PendingStatuses

LEMMA InsertKeeps ==
  ASSUME NEW q, GoodRow(q), NEW p \in ProvIds
  PROVE  Unsettling(q, CreateVideoJobForService(q, p))
BY DEF Unsettling, GoodRow, RowReady, CreateVideoJobForService, Row, Statuses, PendingStatuses

LEMMA RemovalKeeps ==
  ASSUME NEW q, GoodRow(q)
  PROVE  Unsettling(q, CancelVideoJob(q)) /\ Unsettling(q, DeleteVideoJob(q))
BY DEF Unsettling, GoodRow, RowReady, CancelVideoJob, Cancelable, DeleteVideoJob, Present,
   NoRowStatuses, Row, Statuses, PendingStatuses

--------------------------------------------------------------------------------
\* The invariant by group of variables

RowPart ==
  /\ row \in [Jobs -> Row] /\ billed \subseteq Jobs
  /\ \A j \in Jobs : RowReady(row[j])
  /\ ChargeRecorded /\ ReleasedIsPaid
MoneyPart ==
  /\ bal \in [Users -> Nat] /\ spent \in [Users -> Nat] /\ granted \in [Users -> Nat]
  /\ BooksBalance
ProvPart ==
  prov \in [ProvIds -> ProvRec] /\ nprov \in 0 .. MaxProv /\ batchJobs \subseteq ProvIds
WatchPart ==
  /\ active \in [Jobs -> Watchers \cup {NoOne}] /\ watch \in [Watchers -> Watch]
  /\ \A w \in Watchers : WatchReady(watch[w])
CallPart == call \in [Calls -> Call] /\ \A c \in Calls : CallReady(call[c])
LimitPart == faults \in 0 .. MaxFaults /\ crashes \in 0 .. MaxCrashes

Inv == RowPart /\ MoneyPart /\ ProvPart /\ WatchPart /\ CallPart /\ LimitPart

LEMMA InvParts == Inv <=> IInv /\ ReleasedIsPaid
BY DEF Inv, IInv, TypeOK, Shapes, Books, RowPart, MoneyPart, ProvPart, WatchPart, CallPart, LimitPart

LEMMA Frame ==
  ASSUME Inv
  PROVE  /\ UNCHANGED <<row, billed>> => RowPart'
         /\ UNCHANGED <<bal, spent, granted>> => MoneyPart'
         /\ UNCHANGED <<prov, nprov, batchJobs>> => ProvPart'
         /\ UNCHANGED <<active, watch>> => WatchPart'
         /\ UNCHANGED call => CallPart'
         /\ UNCHANGED <<faults, crashes>> => LimitPart'
BY DEF Inv, RowPart, MoneyPart, ProvPart, WatchPart, CallPart, LimitPart,
   ChargeRecorded, ReleasedIsPaid, BooksBalance

LEMMA RowChange ==
  ASSUME RowPart, NEW j \in Jobs, NEW r, Unsettling(row[j], r),
         row' = [row EXCEPT ![j] = r], billed' = billed
  PROVE  RowPart'
BY DEF RowPart, Unsettling, GoodRow, ChargeRecorded, ReleasedIsPaid

LEMMA WatchChange ==
  ASSUME WatchPart, NEW w \in Watchers, NEW s, GoodWatch(s),
         watch' = [watch EXCEPT ![w] = s], active' = active
  PROVE  WatchPart'
BY DEF WatchPart, GoodWatch

LEMMA CallChange ==
  ASSUME CallPart, NEW c \in Calls, NEW d, GoodCall(d),
         call' = [call EXCEPT ![c] = d]
  PROVE  CallPart'
BY DEF CallPart, GoodCall

LEMMA GoodParts ==
  ASSUME Inv
  PROVE  /\ \A j \in Jobs : GoodRow(row[j])
         /\ \A w \in Watchers : GoodWatch(watch[w])
         /\ \A c \in Calls : GoodCall(call[c])
         /\ \A p \in ProvIds : prov[p] \in ProvRec
BY DEF Inv, RowPart, WatchPart, CallPart, ProvPart, GoodRow, GoodWatch, GoodCall

LEMMA IdleGood == GoodWatch(IdleWatch) /\ GoodCall(IdleCall)
BY BoundAssumption DEF GoodWatch, GoodCall, WatchReady, CallReady, IdleWatch, IdleCall, Watch, Call, Requests,
  WatchPC, CallPC, ProvStates, BoundAssumption

LEMMA ReplyKeeps ==
  ASSUME CallPart, NEW c \in Calls, Reply(c)
  PROVE  CallPart'
BY CallChange, IdleGood DEF Reply

LEMMA SubmitRange ==
  ASSUME ProvPart, CanSubmit
  PROVE  Fresh \in ProvIds
BY MaxProvAssumption DEF ProvPart, CanSubmit, Fresh, ProvIds, MaxProvAssumption

\* What a submission and a cancellation do to the provider's requests.
LEMMA AllocateKeeps ==
  ASSUME ProvPart, CanSubmit, NEW k \in AllKinds, Allocate(k)
  PROVE  /\ Fresh \in ProvIds /\ prov' \in [ProvIds -> ProvRec] /\ nprov' \in 0 .. MaxProv
BY SubmitRange, MaxProvAssumption DEF ProvPart, CanSubmit, Fresh, ProvIds, Allocate, NewProv, ProvRec, ProvStates, MaxProvAssumption

LEMMA EnqueueKeeps ==
  ASSUME ProvPart, CanSubmit, NEW k \in AllKinds, Enqueue(k)
  PROVE  Fresh \in ProvIds /\ ProvPart'
BY AllocateKeeps DEF Enqueue, ProvPart

LEMMA CancelKeeps ==
  ASSUME ProvPart, NEW p \in ProvIds \cup {NoProv}, CancelBestEffort(p)
  PROVE  prov' \in [ProvIds -> ProvRec]
BY DEF ProvPart, CancelBestEffort, ProvRec, ProvStates

\* One statement on a row, applied or failed.
LEMMA AppliedKeeps ==
  ASSUME Inv, NEW j \in Jobs, NEW r, Unsettling(row[j], r), Applied(j, r), UNCHANGED <<billed, crashes>>
  PROVE  RowPart' /\ LimitPart'
BY RowChange, Frame DEF Applied, Inv

LEMMA FailedKeeps ==
  ASSUME Inv, Failed, UNCHANGED <<billed, crashes>>
  PROVE  RowPart' /\ LimitPart'
<1>1. RowPart'
  BY Frame DEF Failed
<1>2. LimitPart'
  BY BoundAssumption DEF Inv, LimitPart, Failed, BoundAssumption
<1> QED BY <1>1, <1>2

LEMMA WriteKeeps ==
  ASSUME Inv, NEW j \in Jobs, NEW r, Unsettling(row[j], r), Write(j, r), UNCHANGED <<billed, crashes>>
  PROVE  RowPart' /\ LimitPart'
BY AppliedKeeps, FailedKeeps DEF Write

\* The settlement keeps the books: it debits and records together, and a job
\* in the ledger is not charged again because its row is marked settled.
LEMMA SettleKeeps ==
  ASSUME Inv, NEW j \in Jobs, NEW a \in Credits, SettleGeneratedVideoJob(j, a)
  PROVE  RowPart' /\ MoneyPart'
<1> DEFINE u == Owner[j]
           outcome == SettleOutcome(row[j], bal[u], a)
<1>0. u \in Users /\ a \in Nat /\ bal[u] \in Nat /\ GoodRow(row[j])
  BY OwnerAssumption, CreditAssumption, GoodParts
     DEF OwnerAssumption, CreditAssumption, Inv, MoneyPart
<1>1. CASE outcome = "paid"
  <2>1. Chargeable(row[j]) /\ bal[u] >= a
    BY <1>1 DEF SettleOutcome
  <2>2. ~row[j].settled /\ j \notin billed
    BY <2>1 DEF Chargeable, Inv, RowPart, ChargeRecorded
  <2>3. /\ row' = [row EXCEPT ![j] = SettledRow(row[j], "paid")]
        /\ bal' = [bal EXCEPT ![u] = @ - a]
        /\ spent' = [spent EXCEPT ![u] = @ + a]
        /\ billed' = billed \cup {j}
        /\ granted' = granted
    BY <1>1, <2>2 DEF SettleGeneratedVideoJob
  <2>4. GoodRow(SettledRow(row[j], "paid")) /\ SettledRow(row[j], "paid").settled = TRUE
    BY <1>0, <2>1 DEF SettledRow, GoodRow, RowReady, Row, Statuses, Chargeable, Writable, Present, NoRowStatuses
  <2>5. RowPart'
    BY <2>3, <2>4 DEF Inv, RowPart, GoodRow, ChargeRecorded, ReleasedIsPaid
  <2>6. MoneyPart'
    BY <2>1, <2>3, <1>0 DEF Inv, MoneyPart, BooksBalance
  <2> QED BY <2>5, <2>6
<1>2. CASE outcome # "paid"
  <2>1. row' = [row EXCEPT ![j] = SettledRow(row[j], outcome)] /\ UNCHANGED <<bal, spent, granted, billed>>
    BY <1>2 DEF SettleGeneratedVideoJob
  <2>2. Unsettling(row[j], SettledRow(row[j], outcome))
    <3>1. CASE outcome = "short"
      <4>1. Chargeable(row[j])
        BY <3>1 DEF SettleOutcome
      <4> QED BY <4>1, <3>1, <1>0 DEF SettledRow, Unsettling, GoodRow, RowReady, Row, Statuses, Chargeable, Writable, Present, NoRowStatuses
    <3>2. CASE outcome # "short"
      BY <3>2, <1>2, <1>0 DEF SettledRow, Unsettling
    <3> QED BY <3>1, <3>2
  <2>3. RowPart'
    BY <2>1, <2>2, RowChange DEF Inv
  <2> QED BY <2>1, <2>3, Frame
<1> QED BY <1>1, <1>2

LEMMA LaunchKeeps ==
  ASSUME Inv, NEW j \in Jobs, launchVideoJob(j)
  PROVE  WatchPart'
<1>1. CASE active[j] = NoOne
  <2> PICK w \in Watchers :
             /\ active' = [active EXCEPT ![j] = w]
             /\ watch' = [watch EXCEPT ![w] = [IdleWatch EXCEPT !.job = j, !.pc = "start"]]
    BY <1>1 DEF launchVideoJob
  <2>1. GoodWatch([IdleWatch EXCEPT !.job = j, !.pc = "start"])
    BY IdleGood DEF GoodWatch, WatchReady, Watch, WatchPC
  <2> QED BY <2>1 DEF Inv, WatchPart, GoodWatch
<1>2. CASE active[j] # NoOne
  BY <1>2, Frame DEF launchVideoJob, threads
<1> QED BY <1>1, <1>2

--------------------------------------------------------------------------------
\* Client requests

LEMMA CallSteps ==
  ASSUME Inv, NEW c \in Calls, CallStep(c)
  PROVE  Inv'
<1> DEFINE j == call[c].job
           p == call[c].prov
<1>0. GoodCall(call[c])
  BY GoodParts
<1> USE DEF CallAt
<1>1. CASE Create(c)
  <2>0. j \in Jobs /\ p \in ProvIds /\ GoodRow(row[j])
    BY <1>0, <1>1, GoodParts DEF Create, GoodCall, CallReady
  <2>1. ProvPart'
    BY <1>1, <2>0, CancelKeeps, Frame DEF Create, Inv, ProvPart
  <2>2. CallPart'
    <3>1. GoodCall([call[c] EXCEPT !.pc = "persist"])
      BY <1>0, <1>1, <2>0 DEF Create, GoodCall, CallReady, Call, CallPC
    <3> QED BY <3>1, <1>1, CallChange, ReplyKeeps DEF Create, Inv
  <2>3. RowPart' /\ LimitPart'
    BY <1>1, <2>0, InsertKeeps, AppliedKeeps, FailedKeeps DEF Create, money
  <2> QED BY <2>1, <2>2, <2>3, <1>1, Frame DEF Create, money, threads, Inv
<1>2. CASE Persist(c)
  <2>0. j \in Jobs /\ p \in ProvIds /\ GoodRow(row[j]) /\ call[c].flex \in BOOLEAN
    BY <1>0, <1>2, GoodParts DEF Persist, GoodCall, CallReady, Call
  <2>1. ProvPart'
    BY <1>2, <2>0, CancelKeeps, Frame DEF Persist, Inv, ProvPart
  <2>2. CallPart'
    <3>1. GoodCall([call[c] EXCEPT !.pc = "launch"])
      BY <1>0, <2>0 DEF GoodCall, CallReady, Call, CallPC
    <3> QED BY <3>1, <1>2, CallChange, ReplyKeeps DEF Persist, Inv
  <2>3. RowPart'
    <3>1. Unsettling(row[j], UpdateVideoJob(row[j], "failed"))
      BY <2>0, StatusOnly DEF Statuses
    <3>2. Unsettling(row[j], PersistRequest(row[j], call[c].flex))
      BY <2>0, PersistKeeps
    <3> QED BY <1>2, <2>0, <3>1, <3>2, RowChange, Frame DEF Persist, Applied, money, Inv
  <2>4. LimitPart'
    BY <1>2, BoundAssumption DEF Persist, Applied, Inv, LimitPart, BoundAssumption
  <2> QED BY <2>1, <2>2, <2>3, <2>4, <1>2, Frame DEF Persist, money, threads, Inv
<1>3. CASE Launch(c)
  <2>0. j \in Jobs
    BY <1>0, <1>3 DEF Launch, GoodCall, CallReady
  <2> QED BY <2>0, <1>3, LaunchKeeps, ReplyKeeps, Frame DEF Launch, money, provider, limits, Inv
<1>4. CASE StatusSettle(c)
  <2>0. j \in Jobs
    BY <1>0, <1>4 DEF StatusSettle, GoodCall, CallReady
  <2> QED BY <2>0, <1>4, SettleKeeps, ReplyKeeps, Frame DEF StatusSettle, money, provider, threads, limits, Inv
<1>5. CASE cancelActiveVideoJob(c)
  <2>0. j \in Jobs
    BY <1>0, <1>5 DEF cancelActiveVideoJob, GoodCall, CallReady
  <2>1. WatchPart'
    <3> DEFINE w == active[j]
    <3>1. CASE w = NoOne
      BY <3>1, <1>5, Frame DEF cancelActiveVideoJob
    <3>2. CASE w # NoOne
      <4>1. w \in Watchers /\ GoodWatch(watch[w])
        BY <3>2, <2>0, GoodParts DEF Inv, WatchPart
      <4>2. GoodWatch([watch[w] EXCEPT !.stop = TRUE])
        BY <4>1 DEF GoodWatch, WatchReady, Watch
      <4> QED BY <4>1, <4>2, <3>2, <1>5, WatchChange DEF cancelActiveVideoJob, Inv
    <3> QED BY <3>1, <3>2
  <2>2. CallPart'
    <3>1. GoodCall([call[c] EXCEPT !.pc = "cancelProv"])
      BY <1>0, <2>0 DEF GoodCall, CallReady, Call, CallPC
    <3> QED BY <3>1, <1>5, CallChange DEF cancelActiveVideoJob, Inv
  <2> QED BY <2>1, <2>2, <1>5, Frame DEF cancelActiveVideoJob, money, provider, limits, Inv
<1>6. CASE cancelVideoProvider(c)
  <2>1. ProvPart'
    BY <1>0, <1>6, CancelKeeps DEF cancelVideoProvider, GoodCall, Call, Inv, ProvPart
  <2> QED BY <2>1, <1>6, ReplyKeeps, Frame DEF cancelVideoProvider, money, threads, limits, Inv
<1>7. CASE Requeue(c)
  <2>0. /\ j \in Jobs /\ p \in ProvIds /\ GoodRow(row[j])
        /\ call[c].flex \in BOOLEAN /\ call[c].req \in Requests
    BY <1>0, <1>7, GoodParts DEF Requeue, GoodCall, CallReady, Call
  <2>1. CallPart'
    <3>1. GoodCall([call[c] EXCEPT !.pc = "launch"])
      BY <1>0, <2>0 DEF GoodCall, CallReady, Call, CallPC
    <3> QED BY <3>1, <1>7, CallChange, ReplyKeeps DEF Requeue, Inv
  <2>2. RowPart' /\ LimitPart'
    BY <1>7, <2>0, ProviderKeeps, AppliedKeeps, FailedKeeps, Frame DEF Requeue, money
  <2> QED BY <2>1, <2>2, <1>7, Frame DEF Requeue, money, provider, threads, Inv
<1>8. CASE DeleteRow(c)
  <2>0. j \in Jobs /\ GoodRow(row[j])
    BY <1>0, <1>8, GoodParts DEF DeleteRow, GoodCall, CallReady
  <2>1. RowPart' /\ LimitPart'
    BY <1>8, <2>0, RemovalKeeps, WriteKeeps DEF DeleteRow, money
  <2> QED BY <2>1, <1>8, ReplyKeeps, Frame DEF DeleteRow, money, provider, threads, Inv
<1> QED BY <1>1, <1>2, <1>3, <1>4, <1>5, <1>6, <1>7, <1>8 DEF CallStep

LEMMA ClientSteps ==
  ASSUME Inv, NEW c \in Calls, NEW j \in Jobs, ClientStep(c, j)
  PROVE  Inv'
<1>0. GoodCall(call[c]) /\ GoodRow(row[j]) /\ CallPart /\ ProvPart
  BY GoodParts DEF Inv
<1> USE DEF CallAt
<1>1. ASSUME NEW k \in Kinds, Submit(c, j, k)
      PROVE  Inv'
  <2>1. Fresh \in ProvIds /\ ProvPart'
    BY <1>0, <1>1, EnqueueKeeps, RouteAssumption DEF Submit, RouteAssumption
  <2>2. PICK flx \in BOOLEAN :
          call' = [call EXCEPT ![c] = [job |-> j, pc |-> "create", prov |-> Fresh,
                                       flex |-> flx, req |-> "fresh"]]
    BY <1>1 DEF Submit
  <2>3. GoodCall([job |-> j, pc |-> "create", prov |-> Fresh, flex |-> flx, req |-> "fresh"])
    BY <2>1 DEF GoodCall, CallReady, Call, CallPC, RetryRequest, Requests
  <2>4. CallPart'
    BY <2>2, <2>3, <1>0, CallChange
  <2> QED BY <2>1, <2>4, <1>1, Frame DEF Submit, money, threads, limits, Inv
<1>2. ASSUME NEW k \in Kinds, Retry(c, j, k)
      PROVE  Inv'
  <2>1. Fresh \in ProvIds /\ ProvPart'
    BY <1>0, <1>2, EnqueueKeeps, RouteAssumption DEF Retry, RouteAssumption
  <2>2. PICK flx \in BOOLEAN :
          call' = [call EXCEPT ![c] = [job |-> j, pc |-> "requeue", prov |-> Fresh,
                                       flex |-> flx, req |-> RetryRequest(row[j].req, k)]]
    BY <1>2 DEF Retry
  <2>3. GoodCall([job |-> j, pc |-> "requeue", prov |-> Fresh,
                  flex |-> flx, req |-> RetryRequest(row[j].req, k)])
    BY <2>1 DEF GoodCall, CallReady, Call, CallPC, RetryRequest, Requests
  <2>4. CallPart'
    BY <2>2, <2>3, <1>0, CallChange
  <2> QED BY <2>1, <2>4, <1>2, Frame DEF Retry, money, threads, limits, Inv
<1>3. CASE Status(c, j)
  <2>1. GoodCall([[call[c] EXCEPT !.job = j] EXCEPT !.pc = "settle"])
    BY <1>0 DEF GoodCall, CallReady, Call, CallPC
  <2>2. GoodCall([[call[c] EXCEPT !.job = j] EXCEPT !.pc = "launch"])
    BY <1>0 DEF GoodCall, CallReady, Call, CallPC
  <2>3. CallPart'
    BY <2>1, <2>2, <1>0, <1>3, CallChange DEF Status, CallPart
  <2> QED BY <2>3, <1>3, Frame DEF Status, money, provider, threads, limits, Inv
<1>4. CASE List(c, j)
  <2>1. GoodCall([[call[c] EXCEPT !.job = j] EXCEPT !.pc = "launch"])
    BY <1>0 DEF GoodCall, CallReady, Call, CallPC
  <2>2. CallPart'
    BY <2>1, <1>0, <1>4, CallChange DEF List, CallPart
  <2> QED BY <2>2, <1>4, Frame DEF List, money, provider, threads, limits, Inv
<1>5. CASE Cancel(c, j)
  <2>1. GoodCall([[[call[c] EXCEPT !.job = j] EXCEPT !.pc = "cancelCtx"] EXCEPT !.prov = row[j].prov])
    BY <1>0 DEF GoodCall, CallReady, Call, CallPC, GoodRow, Row
  <2>2. CallPart'
    BY <2>1, <1>0, <1>5, CallChange DEF Cancel, CallPart
  <2>3. RowPart'
    BY <1>0, <1>5, RemovalKeeps, RowChange DEF Cancel, money, Inv
  <2> QED BY <2>2, <2>3, <1>5, Frame DEF Cancel, money, provider, threads, limits, Inv
<1>6. CASE Delete(c, j)
  <2>1. GoodCall([[call[c] EXCEPT !.job = j] EXCEPT !.pc = "delete"])
    BY <1>0 DEF GoodCall, CallReady, Call, CallPC
  <2>2. CallPart'
    BY <2>1, <1>0, <1>6, CallChange DEF Delete, CallPart
  <2> QED BY <2>2, <1>6, Frame DEF Delete, money, provider, threads, limits, Inv
<1> QED BY <1>1, <1>2, <1>3, <1>4, <1>5, <1>6 DEF ClientStep

--------------------------------------------------------------------------------
\* Watchers

\* A watcher past its start goes to any place that needs no new request.
LEMMA GotoKeeps ==
  ASSUME Inv, NEW w \in Watchers, watch[w].pc \notin {"idle", "start", "exit"}, active' = active,
         NEW pc \in WatchPC \ {"flexCancel", "requeue", "toLocal", "quality"}, Goto(w, pc)
  PROVE  WatchPart'
<1>1. GoodWatch([watch[w] EXCEPT !.pc = pc])
  BY GoodParts DEF GoodWatch, WatchReady, Watch
<1> QED BY <1>1, WatchChange DEF Goto, Inv

LEMMA RefuseKeeps ==
  ASSUME Inv, NEW w \in Watchers, watch[w].pc \notin {"idle", "start", "exit"}, active' = active,
         NEW n \in 0 .. 3, Refuse(w, n)
  PROVE  WatchPart'
<1>1. GoodWatch([[watch[w] EXCEPT !.pc = "seen"] EXCEPT !.stage = n])
  BY GoodParts DEF GoodWatch, WatchReady, Watch, WatchPC
<1> QED BY <1>1, WatchChange DEF Refuse, Inv, WatchPart

LEMMA SeenKeeps ==
  ASSUME NEW s, GoodWatch(s), s.prov \in ProvIds, s.job \in Jobs, NEW st \in ProvStates
  PROVE  GoodWatch([s EXCEPT !.pc = "seen", !.seen = st, !.stage = 0, !.errs = 0])
<1> DEFINE t == [s EXCEPT !.pc = "seen", !.seen = st, !.stage = 0, !.errs = 0]
<1>1. "seen" \in WatchPC /\ 0 \in 0 .. 3 /\ 0 \in 0 .. MaxErrs
  BY BoundAssumption DEF WatchPC, BoundAssumption
<1>2. t \in Watch
  BY <1>1 DEF GoodWatch, Watch
<1>3. t.pc = "seen" /\ t.prov = s.prov /\ t.job = s.job
  BY DEF GoodWatch, Watch
<1> QED BY <1>2, <1>3 DEF GoodWatch, WatchReady

LEMMA WatchSteps ==
  ASSUME Inv, NEW w \in Watchers, WatchStep(w) \/ Deadline(w)
  PROVE  Inv'
<1> DEFINE s == watch[w]
           j == s.job
           p == s.prov
<1>0. GoodWatch(s) /\ WatchPart /\ ProvPart /\ Inv
  BY GoodParts DEF Inv
<1> USE DEF WatchAt
<1>1. CASE processVideoJob(w)
  <2>0. j \in Jobs /\ GoodRow(row[j])
    BY <1>0, <1>1, GoodParts DEF processVideoJob, GoodWatch, WatchReady
  <2>1. RowPart' /\ LimitPart'
    BY <1>1, FailedKeeps, Frame DEF processVideoJob, money
  <2>2. GoodWatch([s EXCEPT !.pc = "exit"])
    BY <2>0, <1>0 DEF GoodWatch, WatchReady, Watch, WatchPC
  <2>3. CASE Goto(w, "exit")
    BY <2>1, <2>2, <2>3, <1>0, <1>1, WatchChange, Frame DEF Goto, processVideoJob, money, provider, Inv
  <2>4. CASE ~Goto(w, "exit")
    <3> DEFINE t == [s EXCEPT !.pc = "mark", !.prov = row[j].prov,
                              !.flex = row[j].flex, !.req = row[j].req]
    <3>1. row[j].status \in PendingStatuses /\ watch' = [watch EXCEPT ![w] = t]
      BY <1>1, <2>4 DEF processVideoJob
    <3>2. GoodWatch(t)
      BY <2>0, <3>1, <1>0 DEF GoodWatch, WatchReady, Watch, WatchPC, GoodRow, RowReady, Row, PendingStatuses
    <3>3. WatchPart'
      BY <3>1, <3>2, <1>0, <1>1, WatchChange DEF processVideoJob
    <3> QED BY <2>1, <3>3, <1>1, Frame DEF processVideoJob, money, provider, Inv
  <2> QED BY <2>3, <2>4
<1>2. CASE MarkProcessing(w)
  <2>0. j \in Jobs /\ GoodRow(row[j])
    BY <1>0, <1>2, GoodParts DEF MarkProcessing, GoodWatch, WatchReady
  <2>1. RowPart' /\ LimitPart'
    <3>1. Unsettling(row[j], UpdateVideoJob(row[j], "processing"))
      BY <2>0, StatusOnly DEF Statuses, PendingStatuses, NoRowStatuses
    <3> QED BY <3>1, <2>0, <1>2, WriteKeeps DEF MarkProcessing, money
  <2>2. WatchPart'
    BY <1>2, GotoKeeps DEF MarkProcessing, WatchPC
  <2> QED BY <2>1, <2>2, <1>2, Frame DEF MarkProcessing, money, provider, Inv
<1>3. CASE Poll(w)
  <2>0. p \in ProvIds /\ prov[p] \in ProvRec
    BY <1>0, <1>3, GoodParts DEF Poll, GoodWatch, WatchReady
  <2>1. ProvPart'
    BY <2>0, <1>0, <1>3, CancelKeeps DEF Poll, ProvPart
  <2>2. WatchPart'
    <3>1. CASE Goto(w, "exit") \/ Goto(w, "fail")
      BY <3>1, <1>3, GotoKeeps DEF Poll, WatchPC
    <3>2. CASE watch' = [watch EXCEPT ![w].pc = "seen", ![w].seen = prov[p].st,
                                      ![w].stage = 0, ![w].errs = 0]
      <4> DEFINE t == [s EXCEPT !.pc = "seen", !.seen = prov[p].st, !.stage = 0, !.errs = 0]
      <4>0. s.pc = "poll" /\ prov[p].st \in ProvStates /\ 0 \in 0 .. MaxErrs
        BY <2>0, <1>3, BoundAssumption DEF Poll, ProvRec, BoundAssumption
      <4>2. watch' = [watch EXCEPT ![w] = t]
        BY <3>2, <1>0 DEF WatchPart
      <4>3. GoodWatch(t)
        BY <4>0, <1>0, SeenKeeps DEF GoodWatch, WatchReady
      <4> QED BY <4>2, <4>3, <1>0, <1>3, WatchChange DEF Poll
    <3>3. CASE s.errs + 1 < MaxErrs /\ watch' = [watch EXCEPT ![w].errs = s.errs + 1]
      <4>1. GoodWatch([s EXCEPT !.errs = s.errs + 1])
        BY <3>3, <1>0, <1>3, BoundAssumption DEF Poll, GoodWatch, WatchReady, Watch, BoundAssumption
      <4> QED BY <4>1, <3>3, <1>0, <1>3, WatchChange DEF Poll
    <3> QED BY <3>1, <3>2, <3>3, <1>3 DEF Poll
  <2> QED BY <2>1, <2>2, <1>3, Frame DEF Poll, money, limits, Inv
<1>4. CASE Judge(w)
  <2>1. WatchPart'
    BY <1>4, GotoKeeps DEF Judge, WatchPC
  <2> QED BY <2>1, <1>4, Frame DEF Judge, money, provider, limits, Inv
<1>5. CASE PostLocal(w)
  <2>0. p \in ProvIds /\ prov[p] \in ProvRec
    BY <1>0, <1>5, GoodParts DEF PostLocal, GoodWatch, WatchReady
  <2>1. ProvPart'
    BY <2>0, <1>0, <1>5 DEF PostLocal, ProvPart, ProvRec, ProvStates
  <2>2. WatchPart'
    BY <1>5, GotoKeeps DEF PostLocal, WatchPC
  <2> QED BY <2>1, <2>2, <1>5, Frame DEF PostLocal, money, limits, Inv
<1>6. CASE LocalResponse(w)
  <2>1. WatchPart'
    BY <1>6, GotoKeeps DEF LocalResponse, WatchPC
  <2> QED BY <2>1, <1>6, Frame DEF LocalResponse, money, provider, limits, Inv
<1>7. CASE Settle(w)
  <2>0. j \in Jobs /\ GoodRow(row[j])
    BY <1>0, <1>7, GoodParts DEF Settle, GoodWatch, WatchReady
  <2>1. WatchPart'
    BY <1>7, GotoKeeps DEF Settle, WatchPC
  <2>2. RowPart' /\ MoneyPart'
    <3>1. Unsettling(row[j], UpdateVideoJob(row[j], "payment_required"))
      BY <2>0, StatusOnly DEF Statuses
    <3> QED BY <3>1, <2>0, <1>7, RowChange, SettleKeeps, Frame DEF Settle, Write, Applied, Failed, money, Inv
  <2>3. LimitPart'
    BY <1>7, BoundAssumption DEF Settle, Write, Applied, Failed, LimitPart, Inv, BoundAssumption
  <2> QED BY <2>1, <2>2, <2>3, <1>7, Frame DEF Settle, provider, Inv
<1>8. CASE MarkPaymentRequired(w)
  <2>0. j \in Jobs /\ GoodRow(row[j])
    BY <1>0, <1>8, GoodParts DEF MarkPaymentRequired, GoodWatch, WatchReady
  <2>1. RowPart' /\ LimitPart'
    <3>1. Unsettling(row[j], UpdateVideoJob(row[j], "payment_required"))
      BY <2>0, StatusOnly DEF Statuses
    <3> QED BY <3>1, <2>0, <1>8, WriteKeeps DEF MarkPaymentRequired, money
  <2>2. WatchPart'
    BY <1>8, GotoKeeps DEF MarkPaymentRequired, WatchPC
  <2> QED BY <2>1, <2>2, <1>8, Frame DEF MarkPaymentRequired, money, provider, Inv
<1>9. CASE MarkFailed(w)
  <2>0. j \in Jobs /\ GoodRow(row[j])
    BY <1>0, <1>9, GoodParts DEF MarkFailed, GoodWatch, WatchReady
  <2>1. RowPart' /\ LimitPart'
    <3>1. Unsettling(row[j], UpdateVideoJob(row[j], "failed"))
      BY <2>0, StatusOnly DEF Statuses
    <3> QED BY <3>1, <2>0, <1>9, WriteKeeps DEF MarkFailed, money
  <2>2. WatchPart'
    BY <1>9, GotoKeeps DEF MarkFailed, WatchPC
  <2> QED BY <2>1, <2>2, <1>9, Frame DEF MarkFailed, money, provider, Inv
<1>10. CASE Exit(w)
  <2>0. j \in Jobs
    BY <1>0, <1>10 DEF Exit, GoodWatch, WatchReady
  <2>1. WatchPart'
    BY <2>0, <1>0, <1>10, IdleGood DEF Exit, WatchPart, GoodWatch
  <2> QED BY <2>1, <1>10, Frame DEF Exit, money, provider, limits, Inv
<1>11. CASE Deadline(w)
  <2>0. p \in ProvIds
    BY <1>0, <1>11 DEF Deadline, GoodWatch, WatchReady
  <2>1. ProvPart'
    BY <2>0, <1>0, <1>11, CancelKeeps DEF Deadline, ProvPart
  <2>2. WatchPart'
    BY <1>11, GotoKeeps DEF Deadline, WatchPC
  <2> QED BY <2>1, <2>2, <1>11, Frame DEF Deadline, money, limits, Inv
<1> QED BY <1>1, <1>2, <1>3, <1>4, <1>5, <1>6, <1>7, <1>8, <1>9, <1>10, <1>11 DEF WatchStep

LEMMA FallbackSteps ==
  ASSUME Inv, NEW w \in Watchers, FallbackStep(w)
  PROVE  Inv'
<1> DEFINE s == watch[w]
           j == s.job
           p == s.prov
           n == s.newp
<1>0. GoodWatch(s) /\ WatchPart /\ ProvPart /\ Inv
  BY GoodParts DEF Inv
<1> USE DEF WatchAt
<1>1. CASE moveFlexJobToFal(w)
  <2>0. s.pc = "seen" /\ p \in ProvIds
    BY <1>0, <1>1 DEF moveFlexJobToFal, RunpodSaw, GoodWatch, WatchReady
  <2>1. Fresh \in ProvIds /\ ProvPart'
    BY <1>0, <1>1, AllocateKeeps DEF moveFlexJobToFal, AllKinds, ProvPart
  <2>2. WatchPart'
    <3> DEFINE q == IF s.seen = "FAILED" THEN "requeue" ELSE "flexCancel"
    <3>1. GoodWatch([[s EXCEPT !.newp = Fresh] EXCEPT !.pc = q])
      BY <2>0, <2>1, <1>0 DEF GoodWatch, WatchReady, Watch, WatchPC
    <3> QED BY <3>1, <1>0, <1>1, WatchChange DEF moveFlexJobToFal, WatchPart
  <2> QED BY <2>1, <2>2, <1>1, Frame DEF moveFlexJobToFal, money, limits, Inv
<1>2. CASE FlexCancel(w)
  <2>0. s.pc = "flexCancel" /\ p \in ProvIds /\ n \in ProvIds
    BY <1>0, <1>2 DEF FlexCancel, GoodWatch, WatchReady
  <2>1. ProvPart'
    BY <2>0, <1>0, <1>2, CancelKeeps DEF FlexCancel, TakenBack, ProvPart, ProvRec, ProvStates
  <2>2. WatchPart'
    <3>1. GoodWatch([s EXCEPT !.pc = "requeue"])
      BY <2>0, <1>0 DEF GoodWatch, WatchReady, Watch, WatchPC
    <3> QED BY <3>1, <2>0, <1>0, <1>2, WatchChange, RefuseKeeps DEF FlexCancel, Goto
  <2> QED BY <2>1, <2>2, <1>2, Frame DEF FlexCancel, money, limits, Inv
<1>3. CASE runpodBatchExpire(w)
  <2>0. s.pc = "seen" /\ p \in ProvIds
    BY <1>0, <1>3 DEF runpodBatchExpire, RunpodSaw, GoodWatch, WatchReady
  <2>1. TakenBack(p) \in [ProvIds -> ProvRec]
    BY <2>0, <1>0 DEF TakenBack, ProvPart, ProvRec, ProvStates
  <2>2. CASE CanSubmit /\ nprov' = Fresh
             /\ prov' = [TakenBack(p) EXCEPT ![Fresh] = NewProv("runpod")]
             /\ batchJobs' = batchJobs \ {p}
             /\ watch' = [watch EXCEPT ![w].pc = "requeue", ![w].newp = Fresh]
    <3>1. Fresh \in ProvIds /\ nprov' \in 0 .. MaxProv
      BY <2>2, <1>0, SubmitRange DEF ProvPart, ProvIds, Fresh
    <3>2. NewProv("runpod") \in ProvRec
      BY DEF NewProv, ProvRec, ProvStates, AllKinds
    <3>3. ProvPart'
      BY <2>1, <2>2, <3>1, <3>2, <1>0 DEF ProvPart
    <3>4. GoodWatch([[s EXCEPT !.pc = "requeue"] EXCEPT !.newp = Fresh])
      BY <2>0, <3>1, <1>0 DEF GoodWatch, WatchReady, Watch, WatchPC
    <3>5. WatchPart'
      BY <3>4, <2>2, <1>0, <1>3, WatchChange DEF runpodBatchExpire, WatchPart
    <3> QED BY <3>3, <3>5, <1>3, Frame DEF runpodBatchExpire, money, limits, Inv
  <2>3. CASE prov' = TakenBack(p) /\ Refuse(w, 2) /\ UNCHANGED <<nprov, batchJobs>>
    <3>1. ProvPart'
      BY <2>1, <2>3, <1>0 DEF ProvPart
    <3>2. WatchPart'
      BY <2>0, <2>3, <1>0, <1>3, RefuseKeeps DEF runpodBatchExpire
    <3> QED BY <3>1, <3>2, <1>3, Frame DEF runpodBatchExpire, money, limits, Inv
  <2> QED BY <2>2, <2>3, <1>3 DEF runpodBatchExpire
<1>4. CASE RequeueFallback(w)
  <2>0. /\ s.pc = "requeue" /\ j \in Jobs /\ n \in ProvIds /\ GoodRow(row[j])
        /\ s.flex \in BOOLEAN /\ s.req \in Requests
    BY <1>0, <1>4, GoodParts DEF RequeueFallback, GoodWatch, WatchReady, Watch
  <2>1. ProvPart'
    BY <2>0, <1>0, <1>4, CancelKeeps DEF RequeueFallback, ProvPart
  <2>2. WatchPart'
    BY <2>0, <1>4, <1>0, GotoKeeps, RefuseKeeps DEF RequeueFallback, WatchPC
  <2>3. RowPart' /\ LimitPart'
    <3> DEFINE f == s.flex /\ ~(prov[n].kind = "fal")
               t == IF prov[n].kind = "fal" THEN "fresh" ELSE s.req
    <3>1. f \in BOOLEAN /\ t \in Requests
      BY <2>0 DEF Requests
    <3>2. Unsettling(row[j], RequeueVideoJobProvider(row[j], n, f, t))
      BY <2>0, <3>1, ProviderKeeps
    <3> QED BY <3>2, <2>0, <1>0, <1>4, AppliedKeeps, FailedKeeps, Frame DEF RequeueFallback, money
  <2> QED BY <2>1, <2>2, <2>3, <1>4, Frame DEF RequeueFallback, money, Inv
<1>5. CASE fallbackRunpodH3ToLocal(w)
  <2>0. s.pc = "seen" /\ p \in ProvIds
    BY <1>0, <1>5 DEF fallbackRunpodH3ToLocal, RunpodSaw, GoodWatch, WatchReady
  <2>1. TakenBack(p) \in [ProvIds -> ProvRec]
    BY <2>0, <1>0 DEF TakenBack, ProvPart, ProvRec, ProvStates
  <2>2. CASE CanSubmit /\ nprov' = Fresh
             /\ prov' = [TakenBack(p) EXCEPT ![Fresh] = NewProv("local")]
             /\ watch' = [watch EXCEPT ![w].pc = "toLocal", ![w].newp = Fresh]
    <3>1. Fresh \in ProvIds /\ nprov' \in 0 .. MaxProv
      BY <2>2, <1>0, SubmitRange DEF ProvPart, ProvIds, Fresh
    <3>2. NewProv("local") \in ProvRec
      BY DEF NewProv, ProvRec, ProvStates, AllKinds
    <3>3. ProvPart'
      BY <2>1, <2>2, <3>1, <3>2, <1>0, <1>5 DEF ProvPart, fallbackRunpodH3ToLocal
    <3>4. GoodWatch([[s EXCEPT !.pc = "toLocal"] EXCEPT !.newp = Fresh])
      BY <2>0, <3>1, <1>0 DEF GoodWatch, WatchReady, Watch, WatchPC
    <3>5. WatchPart'
      BY <3>4, <2>2, <1>0, <1>5, WatchChange DEF fallbackRunpodH3ToLocal, WatchPart
    <3> QED BY <3>3, <3>5, <1>5, Frame DEF fallbackRunpodH3ToLocal, money, limits, Inv
  <2>3. CASE UNCHANGED <<prov, nprov>> /\ Refuse(w, 3)
    <3>1. WatchPart'
      BY <2>0, <2>3, <1>0, <1>5, RefuseKeeps DEF fallbackRunpodH3ToLocal
    <3> QED BY <3>1, <2>3, <1>5, Frame DEF fallbackRunpodH3ToLocal, money, limits, Inv
  <2> QED BY <2>2, <2>3, <1>5 DEF fallbackRunpodH3ToLocal
<1>6. ASSUME NEW t \in Requests, s.pc \in {"toLocal", "quality"}, Move(w, t),
             UNCHANGED <<money, provider, active, call, crashes>>
      PROVE  Inv'
  <2>0. j \in Jobs /\ n \in ProvIds /\ GoodRow(row[j]) /\ s.flex \in BOOLEAN
    BY <1>0, <1>6, GoodParts DEF GoodWatch, WatchReady, Watch
  <2>1. RowPart' /\ LimitPart'
    BY <2>0, <1>0, <1>6, ProviderKeeps, AppliedKeeps DEF Move, money
  <2>2. GoodWatch([[[s EXCEPT !.pc = "mark"] EXCEPT !.prov = n] EXCEPT !.req = t])
    BY <2>0, <1>0 DEF GoodWatch, WatchReady, Watch, WatchPC
  <2>3. WatchPart'
    BY <2>2, <1>0, <1>6, WatchChange DEF Move, WatchPart
  <2> QED BY <2>1, <2>3, <1>6, Frame DEF money, provider, Inv
<1>7. ASSUME MoveRefused(w), UNCHANGED <<billed, crashes>>
      PROVE  RowPart' /\ LimitPart'
  BY <1>0, <1>7, FailedKeeps, Frame DEF MoveRefused
<1>8. CASE MoveToLocal(w)
  <2>1. CASE Move(w, IF s.req = "retried" THEN "retried" ELSE "fresh")
    BY <2>1, <1>0, <1>6, <1>8 DEF MoveToLocal, Requests
  <2>2. CASE MoveRefused(w) /\ Refuse(w, 3)
    BY <2>2, <1>0, <1>7, <1>8, RefuseKeeps, Frame DEF MoveToLocal, money, provider, Inv
  <2> QED BY <2>1, <2>2, <1>8 DEF MoveToLocal
<1>9. CASE QualitySubmit(w)
  <2>0. s.pc = "seen" /\ p \in ProvIds
    BY <1>0, <1>9 DEF QualitySubmit, RunpodSaw, GoodWatch, WatchReady
  <2>1. Fresh \in ProvIds /\ ProvPart'
    BY <1>0, <1>9, EnqueueKeeps DEF QualitySubmit, AllKinds
  <2>2. GoodWatch([[s EXCEPT !.pc = "quality"] EXCEPT !.newp = Fresh])
    BY <2>0, <2>1, <1>0 DEF GoodWatch, WatchReady, Watch, WatchPC
  <2>3. WatchPart'
    BY <2>2, <1>0, <1>9, WatchChange DEF QualitySubmit, WatchPart
  <2> QED BY <2>1, <2>3, <1>9, Frame DEF QualitySubmit, money, limits, Inv
<1>10. CASE retryRunpodH3QualityFailure(w)
  <2>1. CASE Move(w, "retried")
    BY <2>1, <1>6, <1>10 DEF retryRunpodH3QualityFailure, Requests
  <2>2. CASE MoveRefused(w) /\ Goto(w, "fail")
    BY <2>2, <1>0, <1>7, <1>10, GotoKeeps, Frame
       DEF retryRunpodH3QualityFailure, money, provider, WatchPC, Inv
  <2> QED BY <2>1, <2>2, <1>10 DEF retryRunpodH3QualityFailure
<1> QED BY <1>1, <1>2, <1>3, <1>4, <1>5, <1>8, <1>9, <1>10 DEF FallbackStep

--------------------------------------------------------------------------------
\* The environment, and the invariant

LEMMA EnvironmentSteps ==
  ASSUME Inv, \/ \E u \in Users : TopUp(u)
              \/ \E p \in ProvIds : ProviderStep(p)
              \/ Crash
  PROVE  Inv'
<1>1. ASSUME NEW u \in Users, TopUp(u)
      PROVE  Inv'
  <2>1. MoneyPart'
    BY <1>1, CreditAssumption DEF TopUp, Inv, MoneyPart, BooksBalance, CreditAssumption
  <2> QED BY <2>1, <1>1, Frame DEF TopUp, provider, threads, limits, Inv
<1>2. ASSUME NEW p \in ProvIds, ProviderStep(p)
      PROVE  Inv'
  <2>1. ProvPart'
    BY <1>2 DEF ProviderStep, Inv, ProvPart, ProvRec, ProvStates
  <2> QED BY <2>1, <1>2, Frame DEF ProviderStep, money, threads, limits, Inv
<1>3. CASE Crash
  <2>1. ProvPart' /\ WatchPart' /\ CallPart'
    BY <1>3, IdleGood DEF Crash, Inv, ProvPart, WatchPart, CallPart, GoodWatch, GoodCall
  <2>2. LimitPart'
    BY <1>3, BoundAssumption DEF Crash, Inv, LimitPart, BoundAssumption
  <2> QED BY <2>1, <2>2, <1>3, Frame DEF Crash, money, Inv
<1> QED BY <1>1, <1>2, <1>3

LEMMA InitInv == Init => Inv
<1> SUFFICES ASSUME Init PROVE Inv
  OBVIOUS
<1>1. RowPart
  BY DEF Init, RowPart, UnbornRow, RowReady, Row, Requests, Statuses, NoRowStatuses, ChargeRecorded, ReleasedIsPaid
<1>2. MoneyPart
  BY CreditAssumption DEF Init, MoneyPart, BooksBalance, CreditAssumption
<1>3. ProvPart
  BY MaxProvAssumption DEF Init, ProvPart, NewProv, ProvRec, ProvStates, AllKinds, MaxProvAssumption
<1>4. WatchPart /\ CallPart
  BY IdleGood DEF Init, WatchPart, CallPart, GoodWatch, GoodCall
<1>5. LimitPart
  BY BoundAssumption DEF Init, LimitPart, BoundAssumption
<1> QED BY <1>1, <1>2, <1>3, <1>4, <1>5 DEF Inv

LEMMA NextInv == Inv /\ [Next]_vars => Inv'
<1> SUFFICES ASSUME Inv, [Next]_vars PROVE Inv'
  OBVIOUS
<1>1. CASE UNCHANGED vars
  BY <1>1, Frame DEF vars, money, provider, threads, limits, Inv
<1>2. CASE Next
  BY <1>2, CallSteps, ClientSteps, WatchSteps, FallbackSteps, EnvironmentSteps DEF Next
<1> QED BY <1>1, <1>2

LEMMA InvAlways == Spec => []Inv
BY InitInv, NextInv, PTL DEF Spec

\* Every variable keeps its type: no row, watcher or request of the server is
\* ever in a state its handlers do not know.
THEOREM TypeCorrect == Spec => []TypeOK
<1>1. Inv => TypeOK
  BY InvParts DEF IInv
<1> QED BY <1>1, InvAlways, PTL

\* The inductive invariant: types, handles that are set where they are used,
\* balanced books and a settled mark for exactly the jobs in the ledger.
THEOREM InvariantHolds == Spec => []IInv
<1>1. Inv => IInv
  BY InvParts
<1> QED BY <1>1, InvAlways, PTL

\* Credits are neither lost nor made: SettleGeneratedVideoJob debits what it
\* records, whichever watchers and status polls race to settle.
THEOREM BooksAlwaysBalance == Spec => []BooksBalance
<1>1. Inv => BooksBalance
  BY DEF Inv, MoneyPart
<1> QED BY <1>1, InvAlways, PTL

\* A job's settled mark and its billing event agree.
THEOREM ChargesRecorded == Spec => []ChargeRecorded
<1>1. Inv => ChargeRecorded
  BY DEF Inv, RowPart
<1> QED BY <1>1, InvAlways, PTL

\* No handler, watcher or fallback completes an H3 job without its charge.
THEOREM ReleasesArePaid == Spec => []ReleasedIsPaid
<1>1. Inv => ReleasedIsPaid
  BY DEF Inv, RowPart
<1> QED BY <1>1, InvAlways, PTL

--------------------------------------------------------------------------------
\* The account as its owner sees it

\* Money moves in settlements and purchases only.
LEMMA MoneyMoves ==
  ASSUME Inv, [Next]_vars
  PROVE  \/ UNCHANGED money
         \/ \E j \in Jobs, a \in Credits : SettleGeneratedVideoJob(j, a)
         \/ \E u \in Users : TopUp(u)
<1>1. CASE UNCHANGED vars
  BY <1>1 DEF vars
<1>2. ASSUME NEW c \in Calls, CallStep(c)
      PROVE  \/ UNCHANGED money
             \/ \E j \in Jobs, a \in Credits : SettleGeneratedVideoJob(j, a)
  <2>1. CASE StatusSettle(c)
    <3>1. call[c].job \in Jobs
      BY <2>1, GoodParts DEF StatusSettle, CallAt, GoodCall, CallReady
    <3> QED BY <2>1, <3>1 DEF StatusSettle
  <2>2. CASE ~StatusSettle(c)
    BY <1>2, <2>2 DEF CallStep, Create, Persist, Launch, cancelActiveVideoJob, cancelVideoProvider,
                      Requeue, DeleteRow
  <2> QED BY <2>1, <2>2
<1>3. ASSUME NEW c \in Calls, NEW j \in Jobs, ClientStep(c, j)
      PROVE  UNCHANGED money
  BY <1>3 DEF ClientStep, Submit, Retry, Status, List, Cancel, Delete
<1>4. ASSUME NEW w \in Watchers, WatchStep(w)
      PROVE  \/ UNCHANGED money
             \/ \E j \in Jobs, a \in Credits : SettleGeneratedVideoJob(j, a)
  <2>1. CASE Settle(w)
    <3>1. watch[w].job \in Jobs
      BY <2>1, GoodParts DEF Settle, WatchAt, GoodWatch, WatchReady
    <3> QED BY <2>1, <3>1 DEF Settle
  <2>2. CASE ~Settle(w)
    BY <1>4, <2>2 DEF WatchStep, processVideoJob, MarkProcessing, Poll, Judge, PostLocal,
                      LocalResponse, MarkPaymentRequired, MarkFailed, Exit
  <2> QED BY <2>1, <2>2
<1>5. ASSUME NEW w \in Watchers, FallbackStep(w) \/ Deadline(w)
      PROVE  UNCHANGED money
  BY <1>5 DEF FallbackStep, moveFlexJobToFal, FlexCancel, runpodBatchExpire, RequeueFallback,
              fallbackRunpodH3ToLocal, MoveToLocal, QualitySubmit, retryRunpodH3QualityFailure, Deadline
<1>6. ASSUME (\E p \in ProvIds : ProviderStep(p)) \/ Crash
      PROVE  UNCHANGED money
  BY <1>6 DEF ProviderStep, Crash
<1> QED BY <1>1, <1>2, <1>3, <1>4, <1>5, <1>6 DEF Next

\* What a settlement does to the account: nothing, or one charge of a row that
\* is neither charged nor cancelled, for no more than the balance.
LEMMA SettlementCharges ==
  ASSUME Inv, NEW j \in Jobs, NEW a \in Credits, SettleGeneratedVideoJob(j, a)
  PROVE  \/ UNCHANGED money
         \/ Ledger!Charge(j, a) /\ row[j].status # "cancelled" /\ billed' = billed \cup {j}
<1> DEFINE u == Owner[j]
           outcome == SettleOutcome(row[j], bal[u], a)
<1>1. CASE outcome = "paid"
  <2>1. Chargeable(row[j]) /\ bal[u] >= a
    BY <1>1 DEF SettleOutcome
  <2>2. j \notin billed /\ row[j].status # "cancelled"
    BY <2>1 DEF Chargeable, Writable, Inv, RowPart, ChargeRecorded
  <2>3. a <= bal[u]
    BY <2>1, OwnerAssumption, CreditAssumption DEF OwnerAssumption, CreditAssumption, Inv, MoneyPart
  <2> QED BY <1>1, <2>2, <2>3 DEF SettleGeneratedVideoJob, Ledger!Charge
<1>2. CASE outcome # "paid"
  BY <1>2 DEF SettleGeneratedVideoJob, money
<1> QED BY <1>1, <1>2

LEMMA LedgerInit == Init => Ledger!Init
BY CreditAssumption DEF Init, Ledger!Init, CreditAssumption

LEMMA LedgerNext == Inv /\ [Next]_vars => [Ledger!Next]_(Ledger!vars)
<1> SUFFICES ASSUME Inv, [Next]_vars PROVE [Ledger!Next]_(Ledger!vars)
  OBVIOUS
<1>1. CASE UNCHANGED money
  BY <1>1 DEF money, Ledger!vars
<1>2. ASSUME NEW j \in Jobs, NEW a \in Credits, SettleGeneratedVideoJob(j, a)
      PROVE  [Ledger!Next]_(Ledger!vars)
  BY <1>1, <1>2, SettlementCharges DEF Ledger!Next, money, Ledger!vars
<1>3. ASSUME NEW u \in Users, TopUp(u)
      PROVE  Ledger!Next
  BY <1>3 DEF TopUp, Ledger!Next, Ledger!Grant
<1> QED BY <1>1, <1>2, <1>3, MoneyMoves

\* The job server implements the abstract account of CreditLedger: every step
\* of every handler and watcher is a charge of one job never charged before,
\* covered by the balance, or a purchase, or moves no money.
THEOREM LedgerImplemented == Spec => ImplementsLedger
<1>1. Spec => Ledger!Init /\ [][Ledger!Next]_(Ledger!vars)
  BY LedgerInit, LedgerNext, InvAlways, PTL DEF Spec
<1> QED BY <1>1 DEF ImplementsLedger, Ledger!Spec

\* A cancelled job is not charged by a watcher that settles late.
THEOREM CancelledIsFree == Spec => CancelledNeverCharged
<1> DEFINE A == \A j \in Jobs : row[j].status = "cancelled" => (j \in billed' <=> j \in billed)
<1>1. Inv /\ [Next]_vars => [A]_vars
  <2> SUFFICES ASSUME Inv, [Next]_vars PROVE A
    OBVIOUS
  <2>1. CASE UNCHANGED money
    BY <2>1 DEF money
  <2>2. ASSUME NEW j \in Jobs, NEW a \in Credits, SettleGeneratedVideoJob(j, a)
        PROVE  A
    <3>1. UNCHANGED billed \/ (row[j].status # "cancelled" /\ billed' = billed \cup {j})
      BY <2>2, SettlementCharges DEF money
    <3> QED BY <3>1
  <2>3. ASSUME NEW u \in Users, TopUp(u)
        PROVE  A
    BY <2>3 DEF TopUp
  <2> QED BY <2>1, <2>2, <2>3, MoneyMoves
<1>2. Spec => [][A]_vars
  <2> HIDE DEF A
  <2> QED BY <1>1, InvAlways, PTL DEF Spec
<1> QED BY <1>2 DEF CancelledNeverCharged

--------------------------------------------------------------------------------
\* One watcher for a job

\* No step but a launch, an exit and a restart makes or ends a watcher.
WatchersKept ==
  /\ active' = active
  /\ \A v \in Watchers :
       watch'[v].job = watch[v].job /\ (watch'[v].pc = "idle" <=> watch[v].pc = "idle")

LEMMA SameWatchers ==
  ASSUME Inv, NEW w \in Watchers, active' = active,
         NEW s, watch' = [watch EXCEPT ![w] = s], s.job = watch[w].job,
         s.pc = "idle" <=> watch[w].pc = "idle"
  PROVE  WatchersKept
BY DEF WatchersKept, Inv, WatchPart

LEMMA GotoSame ==
  ASSUME Inv, NEW w \in Watchers, active' = active, watch[w].pc # "idle",
         NEW pc, pc # "idle", Goto(w, pc)
  PROVE  WatchersKept
<1>1. watch[w] \in Watch
  BY DEF Inv, WatchPart
<1> QED BY <1>1, SameWatchers DEF Goto, Watch

LEMMA OneWatcherCalls ==
  ASSUME Inv, NEW c \in Calls, CallStep(c)
  PROVE  WatchersKept \/ (call[c].job \in Jobs /\ launchVideoJob(call[c].job))
<1>1. CASE Launch(c)
  BY <1>1, GoodParts DEF Launch, CallAt, GoodCall, CallReady
<1>2. CASE cancelActiveVideoJob(c)
  <2> DEFINE w == active[call[c].job]
  <2>0. call[c].job \in Jobs
    BY <1>2, GoodParts DEF cancelActiveVideoJob, CallAt, GoodCall, CallReady
  <2>1. CASE w = NoOne
    BY <2>1, <1>2 DEF cancelActiveVideoJob, WatchersKept
  <2>2. CASE w # NoOne
    <3>1. w \in Watchers /\ watch[w] \in Watch
      BY <2>0, <2>2 DEF Inv, WatchPart
    <3> QED BY <3>1, <2>2, <1>2, SameWatchers DEF cancelActiveVideoJob, Watch
  <2> QED BY <2>1, <2>2
<1>3. CASE ~Launch(c) /\ ~cancelActiveVideoJob(c)
  BY <1>3 DEF CallStep, Create, Persist, StatusSettle, cancelVideoProvider, Requeue, DeleteRow,
              threads, WatchersKept
<1> QED BY <1>1, <1>2, <1>3

LEMMA OneWatcherWatch ==
  ASSUME Inv, NEW w \in Watchers, WatchStep(w) \/ Deadline(w)
  PROVE  WatchersKept \/ Exit(w)
<1> DEFINE s == watch[w]
<1>0. s \in Watch /\ watch \in [Watchers -> Watch]
  BY DEF Inv, WatchPart
<1> USE DEF WatchAt
<1>1. CASE processVideoJob(w)
  <2>1. CASE Goto(w, "exit")
    BY <2>1, <1>1, GotoSame DEF processVideoJob
  <2>2. CASE ~Goto(w, "exit")
    <3> DEFINE r == row[s.job]
               t == [s EXCEPT !.pc = "mark", !.prov = r.prov, !.flex = r.flex, !.req = r.req]
    <3>1. watch' = [watch EXCEPT ![w] = t] /\ active' = active /\ s.pc = "start"
      BY <2>2, <1>1 DEF processVideoJob
    <3>2. t.job = s.job /\ t.pc = "mark"
      BY <1>0 DEF Watch
    <3> QED BY <3>1, <3>2, SameWatchers
  <2> QED BY <2>1, <2>2
<1>2. CASE Poll(w)
  <2>1. CASE Goto(w, "exit") \/ Goto(w, "fail")
    BY <2>1, <1>2, GotoSame DEF Poll
  <2>2. CASE ~Goto(w, "exit") /\ ~Goto(w, "fail")
    BY <2>2, <1>0, <1>2 DEF Poll, WatchersKept, Watch
  <2> QED BY <2>1, <2>2
<1>3. CASE ~processVideoJob(w) /\ ~Poll(w) /\ ~Exit(w)
  <2>1. PICK pc \in WatchPC \ {"idle"} : Goto(w, pc)
    BY <1>3 DEF WatchStep, MarkProcessing, Judge, PostLocal, LocalResponse, Settle,
                MarkPaymentRequired, MarkFailed, Deadline, WatchPC
  <2>2. s.pc # "idle" /\ active' = active
    BY <1>3 DEF WatchStep, MarkProcessing, Judge, PostLocal, LocalResponse, Settle,
                MarkPaymentRequired, MarkFailed, Deadline
  <2> QED BY <2>1, <2>2, GotoSame
<1> QED BY <1>1, <1>2, <1>3

LEMMA OneWatcherFallback ==
  ASSUME Inv, NEW w \in Watchers, FallbackStep(w)
  PROVE  WatchersKept
<1>0. watch[w] \in Watch /\ watch \in [Watchers -> Watch]
  BY DEF Inv, WatchPart
<1> USE DEF WatchAt
<1>1. ASSUME active' = active, watch[w].pc # "idle", NEW n, Refuse(w, n)
      PROVE  WatchersKept
  BY <1>0, <1>1 DEF Refuse, WatchersKept, Watch
<1>2. ASSUME active' = active, watch[w].pc # "idle", NEW t, Move(w, t)
      PROVE  WatchersKept
  BY <1>0, <1>2 DEF Move, WatchersKept, Watch
<1>3. CASE moveFlexJobToFal(w)
  BY <1>0, <1>3 DEF moveFlexJobToFal, RunpodSaw, WatchersKept, Watch
<1>4. CASE FlexCancel(w)
  BY <1>1, <1>4, GotoSame DEF FlexCancel
<1>5. CASE runpodBatchExpire(w)
  <2>1. CASE \E n : Refuse(w, n)
    BY <2>1, <1>1, <1>5 DEF runpodBatchExpire, RunpodSaw
  <2>2. CASE ~\E n : Refuse(w, n)
    BY <2>2, <1>0, <1>5 DEF runpodBatchExpire, RunpodSaw, WatchersKept, Watch
  <2> QED BY <2>1, <2>2
<1>6. CASE RequeueFallback(w)
  BY <1>1, <1>6, GotoSame DEF RequeueFallback
<1>7. CASE fallbackRunpodH3ToLocal(w)
  <2>1. CASE \E n : Refuse(w, n)
    BY <2>1, <1>1, <1>7 DEF fallbackRunpodH3ToLocal, RunpodSaw
  <2>2. CASE ~\E n : Refuse(w, n)
    BY <2>2, <1>0, <1>7 DEF fallbackRunpodH3ToLocal, RunpodSaw, WatchersKept, Watch
  <2> QED BY <2>1, <2>2
<1>8. CASE MoveToLocal(w)
  BY <1>1, <1>2, <1>8 DEF MoveToLocal
<1>9. CASE QualitySubmit(w)
  BY <1>0, <1>9 DEF QualitySubmit, RunpodSaw, WatchersKept, Watch
<1>10. CASE retryRunpodH3QualityFailure(w)
  BY <1>2, <1>10, GotoSame DEF retryRunpodH3QualityFailure
<1> QED BY <1>3, <1>4, <1>5, <1>6, <1>7, <1>8, <1>9, <1>10 DEF FallbackStep

LEMMA OneWatcherNext ==
  ASSUME Inv, OneWatcher, [Next]_vars
  PROVE  OneWatcher'
<1>0. /\ active \in [Jobs -> Watchers \cup {NoOne}] /\ watch \in [Watchers -> Watch]
      /\ NoOne \notin Jobs /\ NoOne \notin Watchers
  BY NoOneAssumption DEF Inv, WatchPart, NoOneAssumption
<1>1. CASE WatchersKept
  BY <1>1 DEF WatchersKept, OneWatcher
<1>2. ASSUME NEW j \in Jobs, launchVideoJob(j)
      PROVE  OneWatcher'
  <2>1. CASE active[j] = NoOne
    <3> PICK w \in Watchers :
               /\ watch[w].pc = "idle"
               /\ active' = [active EXCEPT ![j] = w]
               /\ watch' = [watch EXCEPT ![w] = [IdleWatch EXCEPT !.job = j, !.pc = "start"]]
      BY <1>2, <2>1 DEF launchVideoJob, WatchAt
    <3>1. watch'[w].job = j /\ watch'[w].pc = "start"
      BY <1>0 DEF IdleWatch
    <3>2. \A i \in Jobs : active[i] # w
      BY DEF OneWatcher
    <3>3. ASSUME NEW i \in Jobs, NEW v \in Watchers
          PROVE  active'[i] = v <=> watch'[v].pc # "idle" /\ watch'[v].job = i
      <4>1. CASE v = w
        BY <4>1, <3>1, <3>2, <1>0
      <4>2. CASE v # w
        BY <4>2, <2>1, <1>0 DEF OneWatcher
      <4> QED BY <4>1, <4>2
    <3> QED BY <3>3 DEF OneWatcher
  <2>2. CASE active[j] # NoOne
    BY <1>2, <2>2 DEF launchVideoJob, threads, OneWatcher
  <2> QED BY <2>1, <2>2
<1>3. ASSUME NEW w \in Watchers, Exit(w)
      PROVE  OneWatcher'
  <2>1. watch[w].job \in Jobs
    BY <1>3, GoodParts DEF Exit, WatchAt, GoodWatch, WatchReady
  <2>2. /\ active' = [active EXCEPT ![watch[w].job] = NoOne]
        /\ watch' = [watch EXCEPT ![w] = IdleWatch] /\ watch[w].pc = "exit"
    BY <1>3 DEF Exit, WatchAt
  <2>3. IdleWatch.pc = "idle"
    BY DEF IdleWatch
  <2> QED BY <2>1, <2>2, <2>3, <1>0 DEF OneWatcher
<1>4. CASE Crash
  BY <1>4, <1>0 DEF Crash, OneWatcher, IdleWatch
<1>5. CASE UNCHANGED vars
  BY <1>5 DEF vars, threads, OneWatcher
<1>6. ASSUME NEW c \in Calls, NEW j \in Jobs, ClientStep(c, j)
      PROVE  WatchersKept
  BY <1>6 DEF ClientStep, Submit, Retry, Status, List, Cancel, Delete, threads, WatchersKept
<1>7. ASSUME (\E u \in Users : TopUp(u)) \/ (\E p \in ProvIds : ProviderStep(p))
      PROVE  WatchersKept
  BY <1>7 DEF TopUp, ProviderStep, threads, WatchersKept
<1> QED BY <1>1, <1>2, <1>3, <1>4, <1>5, <1>6, <1>7,
           OneWatcherCalls, OneWatcherWatch, OneWatcherFallback DEF Next

\* A job never has two watchers, and a registration in activeVideoJobs never
\* outlives its watcher.
THEOREM WatchersAreUnique == Spec => []OneWatcher
<1>1. Init => OneWatcher
  BY NoOneAssumption DEF Init, OneWatcher, IdleWatch, NoOneAssumption
<1>2. Inv /\ OneWatcher /\ [Next]_vars => OneWatcher'
  BY OneWatcherNext
<1> QED BY <1>1, <1>2, InvAlways, PTL DEF Spec
--------------------------------------------------------------------------------
\* What a step does to a row

\* The statements that reach a row whatever its request: none of them changes
\* its handle or makes it a retried one, and none revives it.
Plain(q, r) ==
  /\ r.prov = q.prov
  /\ r.req = "retried" => q.req = "retried"
  /\ r.flex => q.flex
  /\ q.status = "unborn" \/ r.status = "unborn" => r = q
  /\ q.status = "cancelled" => r = q \/ r.status = "deleted"

Created(j) ==
  \E c \in Calls : /\ CallAt(c, "create") /\ call[c].job = j /\ call'[c].pc = "persist"
                   /\ row'[j] = CreateVideoJobForService(row[j], call[c].prov)
Persisted(j) ==
  \E c \in Calls : /\ CallAt(c, "persist") /\ call[c].job = j
                   /\ row'[j] = PersistRequest(row[j], call[c].flex)
Requeued(j) ==
  \E c \in Calls : /\ CallAt(c, "requeue") /\ call[c].job = j /\ call'[c].pc = "launch"
                   /\ row'[j] = RequeueVideoJobProvider(row[j], call[c].prov, call[c].flex, call[c].req)
FellBack(j) ==
  \E w \in Watchers, f \in BOOLEAN, t \in Requests :
    /\ WatchAt(w, "requeue") /\ watch[w].job = j /\ watch'[w].pc = "exit"
    /\ f => watch[w].flex
    /\ row'[j] = RequeueVideoJobProvider(row[j], watch[w].newp, f, t)
Moved(j) ==
  \E w \in Watchers, t \in {"fresh", "retried"} :
    /\ watch[w].pc \in {"toLocal", "quality"} /\ watch[w].job = j
    /\ row'[j] = UpdateVideoJobProvider(row[j], watch[w].newp, watch[w].flex, t)
    /\ Writable(row[j])
    /\ watch' = [watch EXCEPT ![w].pc = "mark", ![w].prov = watch[w].newp, ![w].req = t]

RowMoves(j) ==
  Plain(row[j], row'[j]) \/ Created(j) \/ Persisted(j) \/ Requeued(j) \/ FellBack(j) \/ Moved(j)

LEMMA PlainStatements ==
  ASSUME NEW q, GoodRow(q)
  PROVE  /\ Plain(q, q)
         /\ \A st : st # "unborn" => Plain(q, UpdateVideoJob(q, st))
         /\ Plain(q, CancelVideoJob(q)) /\ Plain(q, DeleteVideoJob(q))
         /\ \A b, a : Plain(q, SettledRow(q, SettleOutcome(q, b, a)))
<1>1. Plain(q, q) /\ \A st : st # "unborn" => Plain(q, UpdateVideoJob(q, st))
  BY DEF Plain, GoodRow, UpdateVideoJob, Writable, Present, NoRowStatuses, Row
<1>2. Plain(q, CancelVideoJob(q)) /\ Plain(q, DeleteVideoJob(q))
  BY DEF Plain, GoodRow, CancelVideoJob, DeleteVideoJob, Cancelable, PendingStatuses, Present, NoRowStatuses, Row
<1>3. \A b, a : Plain(q, SettledRow(q, SettleOutcome(q, b, a)))
  BY DEF Plain, GoodRow, SettledRow, SettleOutcome, Chargeable, Writable, Present, NoRowStatuses, Row
<1> QED BY <1>1, <1>2, <1>3

\* One statement on row i leaves the others alone.
LEMMA OthersPlain ==
  ASSUME Inv, NEW j \in Jobs, NEW i, NEW r, row' = [row EXCEPT ![i] = r], i # j
  PROVE  Plain(row[j], row'[j])
<1>1. row'[j] = row[j]
  BY DEF Inv, RowPart
<1> QED BY <1>1, GoodParts, PlainStatements

LEMMA PlainWrite ==
  ASSUME Inv, NEW j \in Jobs, NEW i \in Jobs, NEW r, Write(i, r), Plain(row[i], r)
  PROVE  Plain(row[j], row'[j])
<1>1. CASE UNCHANGED row
  BY <1>1, GoodParts, PlainStatements
<1>2. CASE row' = [row EXCEPT ![i] = r]
  BY <1>2, OthersPlain DEF Inv, RowPart
<1> QED BY <1>1, <1>2 DEF Write, Applied, Failed

LEMMA RowSame ==
  ASSUME Inv, NEW j \in Jobs, UNCHANGED row
  PROVE  Plain(row[j], row'[j])
BY GoodParts, PlainStatements

LEMMA SettlePlain ==
  ASSUME Inv, NEW j \in Jobs, NEW i \in Jobs, NEW a, SettleGeneratedVideoJob(i, a)
  PROVE  Plain(row[j], row'[j])
<1> DEFINE r == SettledRow(row[i], SettleOutcome(row[i], bal[Owner[i]], a))
<1>1. row' = [row EXCEPT ![i] = r]
  BY DEF SettleGeneratedVideoJob
<1>2. Plain(row[i], r)
  BY GoodParts, PlainStatements
<1> HIDE DEF r
<1> QED BY <1>1, <1>2, OthersPlain DEF Inv, RowPart

LEMMA CallRowMoves ==
  ASSUME Inv, NEW j \in Jobs, NEW c \in Calls, CallStep(c) \/ \E i \in Jobs : ClientStep(c, i)
  PROVE  RowMoves(j)
<1> DEFINE i == call[c].job
<1>0. row \in [Jobs -> Row] /\ call \in [Calls -> Call]
  BY DEF Inv, RowPart, CallPart
<1>1. CASE Create(c)
  <2>1. i \in Jobs
    BY <1>1, GoodParts DEF Create, CallAt, GoodCall, CallReady
  <2>2. CASE UNCHANGED row
    BY <2>2, RowSame DEF RowMoves
  <2>3. CASE row' = [row EXCEPT ![i] = CreateVideoJobForService(row[i], call[c].prov)] /\ call' = [call EXCEPT ![c].pc = "persist"]
    <3>1. CASE i = j
      <4>1. row'[j] = CreateVideoJobForService(row[j], call[c].prov) /\ call'[c].pc = "persist"
        BY <1>0, <2>3, <3>1 DEF Call
      <4> QED BY <1>1, <3>1, <4>1 DEF Create, Created, RowMoves
    <3>2. CASE i # j
      BY <2>3, <3>2, OthersPlain DEF RowMoves
    <3> QED BY <3>1, <3>2
  <2> QED BY <1>1, <2>2, <2>3 DEF Create, Applied, Failed
<1>2. CASE Persist(c)
  <2>1. i \in Jobs
    BY <1>2, GoodParts DEF Persist, CallAt, GoodCall, CallReady
  <2>2. CASE UNCHANGED row
    BY <2>2, RowSame DEF RowMoves
  <2>3. CASE row' = [row EXCEPT ![i] = PersistRequest(row[i], call[c].flex)]
    <3>1. CASE i = j
      <4>1. row'[j] = PersistRequest(row[j], call[c].flex)
        BY <1>0, <2>3, <3>1
      <4> QED BY <1>2, <3>1, <4>1 DEF Persist, Persisted, RowMoves
    <3>2. CASE i # j
      BY <2>3, <3>2, OthersPlain DEF RowMoves
    <3> QED BY <3>1, <3>2
  <2>4. CASE row' = [row EXCEPT ![i] = UpdateVideoJob(row[i], "failed")]
    <3>1. Plain(row[i], UpdateVideoJob(row[i], "failed"))
      BY <2>1, GoodParts, PlainStatements
    <3> QED BY <1>0, <2>1, <2>4, <3>1, OthersPlain DEF RowMoves
  <2> QED BY <1>2, <2>2, <2>3, <2>4 DEF Persist, Applied
<1>3. CASE Requeue(c)
  <2>1. i \in Jobs
    BY <1>3, GoodParts DEF Requeue, CallAt, GoodCall, CallReady
  <2>2. CASE UNCHANGED row
    BY <2>2, RowSame DEF RowMoves
  <2> DEFINE r == RequeueVideoJobProvider(row[i], call[c].prov, call[c].flex, call[c].req)
  <2>3. CASE row' = [row EXCEPT ![i] = r] /\ call' = [call EXCEPT ![c].pc = "launch"]
    <3>1. CASE i = j
      <4>1. row'[j] = RequeueVideoJobProvider(row[j], call[c].prov, call[c].flex, call[c].req) /\ call'[c].pc = "launch"
        BY <1>0, <2>3, <3>1 DEF Call
      <4> QED BY <1>3, <3>1, <4>1 DEF Requeue, Requeued, RowMoves
    <3>2. CASE i # j
      BY <2>3, <3>2, OthersPlain DEF RowMoves
    <3> QED BY <3>1, <3>2
  <2> QED BY <1>3, <2>2, <2>3 DEF Requeue, Applied, Failed
<1>4. CASE StatusSettle(c)
  <2>1. i \in Jobs
    BY <1>4, GoodParts DEF StatusSettle, CallAt, GoodCall, CallReady
  <2> QED BY <1>4, <2>1, RowSame, SettlePlain DEF StatusSettle, RowMoves
<1>5. CASE DeleteRow(c)
  <2>1. i \in Jobs
    BY <1>5, GoodParts DEF DeleteRow, CallAt, GoodCall, CallReady
  <2>2. Plain(row[i], DeleteVideoJob(row[i]))
    BY <2>1, GoodParts, PlainStatements
  <2> QED BY <1>5, <2>1, <2>2, PlainWrite DEF DeleteRow, RowMoves
<1>6. CASE Launch(c) \/ cancelActiveVideoJob(c) \/ cancelVideoProvider(c)
  BY <1>6, RowSame DEF Launch, cancelActiveVideoJob, cancelVideoProvider, RowMoves
<1>7. ASSUME NEW k \in Jobs, ClientStep(c, k) PROVE RowMoves(j)
  <2>1. CASE Cancel(c, k)
    <3>1. Plain(row[k], CancelVideoJob(row[k])) /\ row' = [row EXCEPT ![k] = CancelVideoJob(row[k])]
      BY <2>1, GoodParts, PlainStatements DEF Cancel
    <3> QED BY <1>0, <3>1, OthersPlain DEF RowMoves
  <2>2. CASE ~Cancel(c, k)
    BY <1>7, <2>2, RowSame DEF ClientStep, Submit, Retry, Status, List, Delete, RowMoves
  <2> QED BY <2>1, <2>2
<1> QED BY <1>1, <1>2, <1>3, <1>4, <1>5, <1>6, <1>7 DEF CallStep

LEMMA WatchRowMoves ==
  ASSUME Inv, NEW j \in Jobs, NEW w \in Watchers, WatchStep(w) \/ Deadline(w)
  PROVE  Plain(row[j], row'[j])
<1> DEFINE i == watch[w].job
<1>0. GoodWatch(watch[w])
  BY GoodParts
<1>1. ASSUME NEW st, st # "unborn", Write(i, UpdateVideoJob(row[i], st)), i \in Jobs
      PROVE  Plain(row[j], row'[j])
  BY <1>1, GoodParts, PlainStatements, PlainWrite
<1>2. CASE MarkProcessing(w)
  BY <1>0, <1>1, <1>2 DEF MarkProcessing, WatchAt, GoodWatch, WatchReady
<1>3. CASE MarkPaymentRequired(w)
  BY <1>0, <1>1, <1>3 DEF MarkPaymentRequired, WatchAt, GoodWatch, WatchReady
<1>4. CASE MarkFailed(w)
  BY <1>0, <1>1, <1>4 DEF MarkFailed, WatchAt, GoodWatch, WatchReady
<1>5. CASE Settle(w)
  <2>1. i \in Jobs
    BY <1>0, <1>5 DEF Settle, WatchAt, GoodWatch, WatchReady
  <2>2. UNCHANGED row \/ \E a : SettleGeneratedVideoJob(i, a)
    BY <1>5 DEF Settle, Failed
  <2> QED BY <2>1, <2>2, RowSame, SettlePlain
<1>6. CASE ~MarkProcessing(w) /\ ~MarkPaymentRequired(w) /\ ~MarkFailed(w) /\ ~Settle(w)
  <2>1. UNCHANGED row
    BY <1>6 DEF WatchStep, Deadline, processVideoJob, Poll, Judge, PostLocal, LocalResponse, Exit, Failed
  <2> QED BY <2>1, RowSame
<1> QED BY <1>2, <1>3, <1>4, <1>5, <1>6

LEMMA MoveMoves ==
  ASSUME Inv, NEW j \in Jobs, NEW w \in Watchers, watch[w].pc \in {"toLocal", "quality"},
         NEW t \in {"fresh", "retried"}, Move(w, t)
  PROVE  RowMoves(j)
<1> DEFINE i == watch[w].job
           r == UpdateVideoJobProvider(row[i], watch[w].newp, watch[w].flex, t)
<1>1. row' = [row EXCEPT ![i] = r]
  BY DEF Move, Applied
<1>2. CASE i = j
  <2>1. row'[j] = r
    BY <1>1, <1>2 DEF Inv, RowPart
  <2> QED BY <1>2, <2>1 DEF Move, Moved, RowMoves
<1>3. CASE i # j
  BY <1>1, <1>3, OthersPlain DEF RowMoves
<1> QED BY <1>2, <1>3

LEMMA FallbackRowMoves ==
  ASSUME Inv, NEW j \in Jobs, NEW w \in Watchers, FallbackStep(w)
  PROVE  RowMoves(j)
<1> DEFINE s == watch[w]
           i == s.job
           toFal == prov[s.newp].kind = "fal"
           f == s.flex /\ ~toFal
           t == IF toFal THEN "fresh" ELSE s.req
           r == RequeueVideoJobProvider(row[i], s.newp, f, t)
<1>0. GoodWatch(s) /\ row \in [Jobs -> Row] /\ watch \in [Watchers -> Watch]
  BY GoodParts DEF Inv, RowPart, WatchPart
<1>1. CASE UNCHANGED row
  BY <1>1, RowSame DEF RowMoves
<1>2. CASE RequeueFallback(w) /\ ~UNCHANGED row
  <2>1. s.pc = "requeue" /\ row' = [row EXCEPT ![i] = r] /\ Goto(w, "exit")
    BY <1>2 DEF RequeueFallback, Applied, Failed, WatchAt
  <2>2. watch'[w].pc = "exit"
    BY <1>0, <2>1 DEF Goto, Watch
  <2>3. CASE i = j
    <3>1. row'[j] = r
      BY <1>0, <2>1, <2>3
    <3>2. f \in BOOLEAN /\ t \in Requests /\ (f => s.flex)
      BY <1>0 DEF GoodWatch, Watch, Requests
    <3> HIDE DEF f, t
    <3> QED BY <2>1, <2>2, <2>3, <3>1, <3>2 DEF FellBack, RowMoves, WatchAt
  <2>4. CASE i # j
    <3> HIDE DEF r
    <3> QED BY <2>1, <2>4, OthersPlain DEF RowMoves
  <2> QED BY <2>3, <2>4
<1>3. CASE MoveToLocal(w) /\ ~UNCHANGED row
  <2>1. s.pc = "toLocal" /\ \E u \in {"fresh", "retried"} : Move(w, u)
    BY <1>3 DEF MoveToLocal, MoveRefused, Failed, WatchAt
  <2> QED BY <2>1, MoveMoves
<1>4. CASE retryRunpodH3QualityFailure(w) /\ ~UNCHANGED row
  <2>1. s.pc = "quality" /\ Move(w, "retried")
    BY <1>4 DEF retryRunpodH3QualityFailure, MoveRefused, Failed, WatchAt
  <2> QED BY <2>1, MoveMoves
<1> QED BY <1>1, <1>2, <1>3, <1>4 DEF FallbackStep, moveFlexJobToFal, FlexCancel, runpodBatchExpire,
           fallbackRunpodH3ToLocal, QualitySubmit

\* Every step of the system does one of these things to a row.
LEMMA RowSteps ==
  ASSUME Inv, [Next]_vars, NEW j \in Jobs
  PROVE  RowMoves(j)
<1>1. CASE UNCHANGED row
  BY <1>1, RowSame DEF RowMoves
<1>2. CASE \E c \in Calls : CallStep(c) \/ \E i \in Jobs : ClientStep(c, i)
  BY <1>2, CallRowMoves
<1>3. CASE \E w \in Watchers : WatchStep(w) \/ FallbackStep(w) \/ Deadline(w)
  BY <1>3, WatchRowMoves, FallbackRowMoves DEF RowMoves
<1> QED BY <1>1, <1>2, <1>3 DEF Next, vars, TopUp, ProviderStep, Crash

--------------------------------------------------------------------------------
\* What a step does to a watcher and to a request

NewPCs == {"flexCancel", "requeue", "toLocal", "quality"}
Working(s) == s.pc \notin {"idle", "start", "exit"}
Holding(d) == d.pc \in {"create", "requeue"}

\* t follows s in a step that leaves the handle and the request it works with.
Keeps(s, t) == Working(s) /\ t.job = s.job /\ t.prov = s.prov /\ t.req = s.req
\* It takes them from the row,
Reads(s, t) == /\ s.pc = "start" /\ t.job = s.job /\ UNCHANGED row
               /\ t.prov = row[s.job].prov /\ t.req = row[s.job].req
\* or moves the row to its new request.
Switches(s, t) == /\ s.pc \in {"toLocal", "quality"} /\ t.job = s.job
                  /\ t.prov = s.newp /\ row'[s.job].req = t.req

WatchMove(s, t) ==
  /\ Working(t) => Keeps(s, t) \/ Reads(s, t) \/ Switches(s, t)
  /\ t.pc \in NewPCs => \/ s.pc \in NewPCs /\ t.newp = s.newp
                        \/ t.newp = Fresh /\ nprov' = Fresh
  /\ t.pc = "quality" /\ s.pc # "quality" => s.req = "fresh"
  /\ t.flex => s.flex \/ (s.job \in Jobs /\ row[s.job].flex)
  /\ t.pc \in {"flexCancel", "requeue"} => \/ s.pc \in {"flexCancel", "requeue"}
                                           \/ s.flex \/ batchJobs # {}
WatchMoves == \A w \in Watchers : WatchMove(watch[w], watch'[w])

LEMMA WatchSame == ASSUME Inv, NEW w \in Watchers PROVE WatchMove(watch[w], watch[w])
BY DEF WatchMove, Keeps, Working, NewPCs

LEMMA WatchAll ==
  ASSUME Inv, NEW w \in Watchers, NEW t, watch' = [watch EXCEPT ![w] = t], WatchMove(watch[w], t)
  PROVE  WatchMoves
BY WatchSame DEF WatchMoves, Inv, WatchPart

LEMMA WatchFrame == ASSUME Inv, UNCHANGED watch PROVE WatchMoves
BY WatchSame DEF WatchMoves

LEMMA GotoMoves ==
  ASSUME Inv, NEW w \in Watchers, NEW pc, Goto(w, pc),
         pc = "exit" \/ Working(watch[w]), pc \in NewPCs => pc = "requeue" /\ watch[w].pc = "flexCancel"
  PROVE  WatchMoves
<1> DEFINE s == watch[w]
           t == [s EXCEPT !.pc = pc]
<1>1. s \in Watch
  BY DEF Inv, WatchPart
<1>2. t.pc = pc /\ t.job = s.job /\ t.prov = s.prov /\ t.req = s.req /\ t.newp = s.newp /\ t.flex = s.flex
  BY <1>1 DEF Watch
<1>3. watch' = [watch EXCEPT ![w] = t]
  BY DEF Goto
<1> HIDE DEF t
<1>4. WatchMove(s, t)
  BY <1>2 DEF WatchMove, Keeps, Working, NewPCs
<1> QED BY <1>3, <1>4, WatchAll

LEMMA RefuseMoves ==
  ASSUME Inv, NEW w \in Watchers, NEW n, Refuse(w, n), Working(watch[w])
  PROVE  WatchMoves
<1> DEFINE s == watch[w]
           t == [s EXCEPT !.pc = "seen", !.stage = n]
<1>1. s \in Watch
  BY DEF Inv, WatchPart
<1>2. t.pc = "seen" /\ t.job = s.job /\ t.prov = s.prov /\ t.req = s.req /\ t.flex = s.flex
  BY <1>1 DEF Watch
<1>3. watch' = [watch EXCEPT ![w] = t]
  BY DEF Refuse, Inv, WatchPart
<1> HIDE DEF t
<1>4. WatchMove(s, t)
  BY <1>2 DEF WatchMove, Keeps, Working, NewPCs
<1> QED BY <1>3, <1>4, WatchAll

LEMMA MoveWatch ==
  ASSUME Inv, NEW w \in Watchers, NEW u \in {"fresh", "retried"}, Move(w, u),
         watch[w].pc \in {"toLocal", "quality"}
  PROVE  WatchMoves
<1> DEFINE s == watch[w]
           t == [s EXCEPT !.pc = "mark", !.prov = s.newp, !.req = u]
           r == UpdateVideoJobProvider(row[s.job], s.newp, s.flex, u)
<1>1. GoodWatch(s) /\ s.job \in Jobs /\ GoodRow(row[s.job])
  BY GoodParts DEF GoodWatch, WatchReady
<1>2. t.pc = "mark" /\ t.job = s.job /\ t.prov = s.newp /\ t.req = u /\ t.flex = s.flex
  BY <1>1 DEF GoodWatch, Watch
<1>3. watch' = [watch EXCEPT ![w] = t] /\ row' = [row EXCEPT ![s.job] = r] /\ Writable(row[s.job])
  BY DEF Move, Applied, Inv, WatchPart
<1>4. r.req = u
  BY <1>1, <1>3 DEF UpdateVideoJobProvider, WithPayload, GoodRow, Row
<1>5. row'[s.job].req = u
  BY <1>1, <1>3, <1>4 DEF Inv, RowPart
<1> HIDE DEF t, r
<1>6. WatchMove(s, t)
  BY <1>2, <1>5 DEF WatchMove, Switches, Working, NewPCs
<1> QED BY <1>3, <1>6, WatchAll

LEMMA WatchStepMoves ==
  ASSUME Inv, NEW w \in Watchers, WatchStep(w) \/ Deadline(w)
  PROVE  WatchMoves
<1> DEFINE s == watch[w]
<1>0. s \in Watch /\ GoodWatch(s) /\ watch \in [Watchers -> Watch]
  BY GoodParts DEF Inv, WatchPart
<1> USE DEF WatchAt
<1>1. CASE processVideoJob(w)
  <2>1. CASE Goto(w, "exit")
    BY <2>1, GotoMoves DEF NewPCs
  <2>2. CASE ~Goto(w, "exit")
    <3> DEFINE r == row[s.job]
               t == [s EXCEPT !.pc = "mark", !.prov = r.prov, !.flex = r.flex, !.req = r.req]
    <3>1. watch' = [watch EXCEPT ![w] = t] /\ UNCHANGED row /\ s.pc = "start" /\ s.job \in Jobs
      BY <2>2, <1>0, <1>1 DEF processVideoJob, GoodWatch, WatchReady
    <3>2. t.job = s.job /\ t.pc = "mark" /\ t.prov = r.prov /\ t.req = r.req /\ t.flex = r.flex
      BY <1>0 DEF Watch
    <3> HIDE DEF t
    <3>3. WatchMove(s, t)
      BY <3>1, <3>2 DEF WatchMove, Reads, NewPCs
    <3> QED BY <3>1, <3>3, WatchAll
  <2> QED BY <2>1, <2>2
<1>2. CASE Poll(w)
  <2>1. CASE Goto(w, "exit") \/ Goto(w, "fail")
    BY <2>1, <1>2, GotoMoves DEF Poll, NewPCs, Working
  <2>2. CASE ~Goto(w, "exit") /\ ~Goto(w, "fail")
    <3>1. PICK t : /\ watch' = [watch EXCEPT ![w] = t] /\ t.pc \in {"seen", "poll"}
                   /\ t.job = s.job /\ t.prov = s.prov /\ t.req = s.req /\ t.flex = s.flex
      <4>1. CASE watch' = [watch EXCEPT ![w].errs = s.errs + 1]
        <5> DEFINE t == [s EXCEPT !.errs = s.errs + 1]
        <5>1. /\ watch' = [watch EXCEPT ![w] = t] /\ t.pc = s.pc
              /\ t.job = s.job /\ t.prov = s.prov /\ t.req = s.req /\ t.flex = s.flex
          BY <4>1, <1>0 DEF Watch
        <5>2. s.pc = "poll"
          BY <1>2 DEF Poll
        <5> HIDE DEF t
        <5> QED BY <5>1, <5>2
      <4>2. CASE watch' # [watch EXCEPT ![w].errs = s.errs + 1]
        <5> DEFINE t == [s EXCEPT !.pc = "seen", !.seen = prov[s.prov].st, !.stage = 0, !.errs = 0]
        <5>1. watch' = [watch EXCEPT ![w].pc = "seen", ![w].seen = prov[s.prov].st, ![w].stage = 0, ![w].errs = 0]
          BY <4>2, <2>2, <1>2 DEF Poll
        <5>2. /\ watch' = [watch EXCEPT ![w] = t] /\ t.pc = "seen"
              /\ t.job = s.job /\ t.prov = s.prov /\ t.req = s.req /\ t.flex = s.flex
          BY <5>1, <1>0 DEF Watch
        <5> HIDE DEF t
        <5> QED BY <5>2
      <4> QED BY <4>1, <4>2
    <3>2. s.pc = "poll"
      BY <1>2 DEF Poll
    <3>3. WatchMove(s, t)
      BY <3>1, <3>2 DEF WatchMove, Keeps, Working, NewPCs
    <3> QED BY <3>1, <3>3, WatchAll
  <2> QED BY <2>1, <2>2
<1>3. CASE Exit(w)
  <2>1. WatchMove(s, IdleWatch)
    BY DEF WatchMove, IdleWatch, Working, NewPCs
  <2> QED BY <1>3, <2>1, WatchAll DEF Exit
<1>4. CASE ~processVideoJob(w) /\ ~Poll(w) /\ ~Exit(w)
  <2>1. PICK pc \in WatchPC \ NewPCs : Goto(w, pc)
    BY <1>4 DEF WatchStep, MarkProcessing, Judge, PostLocal, LocalResponse, Settle,
                MarkPaymentRequired, MarkFailed, Deadline, WatchPC, NewPCs
  <2>2. Working(s)
    BY <1>4 DEF WatchStep, MarkProcessing, Judge, PostLocal, LocalResponse, Settle,
                MarkPaymentRequired, MarkFailed, Deadline, Working
  <2> QED BY <2>1, <2>2, GotoMoves
<1> QED BY <1>1, <1>2, <1>3, <1>4

\* A watcher that has submitted a new request.
LEMMA NewRequest ==
  ASSUME Inv, NEW w \in Watchers, watch[w].pc = "seen", nprov' = Fresh, NEW pc \in NewPCs,
         pc \in {"flexCancel", "requeue"} => watch[w].flex \/ batchJobs # {},
         pc = "quality" => watch[w].req = "fresh",
         watch' = [watch EXCEPT ![w].pc = pc, ![w].newp = Fresh]
  PROVE  WatchMoves
<1> DEFINE s == watch[w]
           n == Fresh
           t == [s EXCEPT !.pc = pc, !.newp = n]
<1>1. s \in Watch
  BY DEF Inv, WatchPart
<1>2. watch' = [watch EXCEPT ![w] = t]
  BY DEF Inv, WatchPart
<1>3. t.pc = pc /\ t.job = s.job /\ t.prov = s.prov /\ t.req = s.req /\ t.newp = n /\ t.flex = s.flex
  BY <1>1 DEF Watch
<1> HIDE DEF t
<1>4. WatchMove(s, t)
  BY <1>3 DEF WatchMove, Keeps, Working, NewPCs
<1> QED BY <1>2, <1>4, WatchAll

LEMMA FallbackMoves ==
  ASSUME Inv, NEW w \in Watchers, FallbackStep(w)
  PROVE  WatchMoves
<1> DEFINE s == watch[w]
<1>0. s \in Watch /\ watch \in [Watchers -> Watch]
  BY DEF Inv, WatchPart
<1> USE DEF WatchAt
<1>1. CASE moveFlexJobToFal(w)
  <2> DEFINE pc == IF s.seen = "FAILED" THEN "requeue" ELSE "flexCancel"
  <2>1. s.pc = "seen" /\ nprov' = Fresh /\ s.flex /\ pc \in NewPCs /\ pc # "quality"
    BY <1>1 DEF moveFlexJobToFal, RunpodSaw, Allocate, NewPCs
  <2>2. watch' = [watch EXCEPT ![w].pc = pc, ![w].newp = Fresh]
    BY <1>0, <1>1 DEF moveFlexJobToFal, Watch
  <2> HIDE DEF pc
  <2> QED BY <2>1, <2>2, NewRequest
<1>2. CASE FlexCancel(w)
  BY <1>2, GotoMoves, RefuseMoves DEF FlexCancel, Working, NewPCs
<1>3. CASE runpodBatchExpire(w)
  <2>1. CASE \E n : Refuse(w, n)
    BY <2>1, <1>3, RefuseMoves DEF runpodBatchExpire, RunpodSaw, Working
  <2>2. CASE ~\E n : Refuse(w, n)
    <3>1. /\ s.pc = "seen" /\ nprov' = Fresh /\ batchJobs # {}
          /\ watch' = [watch EXCEPT ![w].pc = "requeue", ![w].newp = Fresh]
      BY <2>2, <1>3 DEF runpodBatchExpire, RunpodSaw
    <3> QED BY <3>1, NewRequest DEF NewPCs
  <2> QED BY <2>1, <2>2
<1>4. CASE RequeueFallback(w)
  BY <1>4, GotoMoves, RefuseMoves DEF RequeueFallback, Working, NewPCs
<1>5. CASE fallbackRunpodH3ToLocal(w)
  <2>1. CASE \E n : Refuse(w, n)
    BY <2>1, <1>5, RefuseMoves DEF fallbackRunpodH3ToLocal, RunpodSaw, Working
  <2>2. CASE ~\E n : Refuse(w, n)
    <3>1. /\ s.pc = "seen" /\ nprov' = Fresh
          /\ watch' = [watch EXCEPT ![w].pc = "toLocal", ![w].newp = Fresh]
      BY <2>2, <1>5 DEF fallbackRunpodH3ToLocal, RunpodSaw
    <3> QED BY <3>1, NewRequest DEF NewPCs
  <2> QED BY <2>1, <2>2
<1>6. CASE MoveToLocal(w)
  <2>1. s.pc = "toLocal" /\ ((\E u \in {"fresh", "retried"} : Move(w, u)) \/ Refuse(w, 3))
    BY <1>6 DEF MoveToLocal
  <2> QED BY <2>1, MoveWatch, RefuseMoves DEF Working
<1>7. CASE QualitySubmit(w)
  <2>1. /\ s.pc = "seen" /\ nprov' = Fresh /\ s.req = "fresh"
        /\ watch' = [watch EXCEPT ![w].pc = "quality", ![w].newp = Fresh]
    BY <1>7 DEF QualitySubmit, RunpodSaw, Enqueue, Allocate
  <2> QED BY <2>1, NewRequest DEF NewPCs
<1>8. CASE retryRunpodH3QualityFailure(w)
  BY <1>8, MoveWatch, GotoMoves DEF retryRunpodH3QualityFailure, Working, NewPCs
<1> QED BY <1>1, <1>2, <1>3, <1>4, <1>5, <1>6, <1>7, <1>8 DEF FallbackStep

LEMMA LaunchMoves ==
  ASSUME Inv, NEW j, launchVideoJob(j)
  PROVE  WatchMoves
<1>1. CASE UNCHANGED watch
  BY <1>1, WatchFrame
<1>2. ASSUME NEW w \in Watchers, watch' = [watch EXCEPT ![w] = [IdleWatch EXCEPT !.job = j, !.pc = "start"]]
      PROVE  WatchMoves
  <2> DEFINE t == [IdleWatch EXCEPT !.job = j, !.pc = "start"]
  <2>1. t.pc = "start" /\ t.flex = FALSE
    BY DEF IdleWatch
  <2> HIDE DEF t
  <2>2. WatchMove(watch[w], t)
    BY <2>1 DEF WatchMove, Working, NewPCs
  <2> QED BY <1>2, <2>2, WatchAll DEF t
<1> QED BY <1>1, <1>2 DEF launchVideoJob, threads

LEMMA CancelMoves ==
  ASSUME Inv, NEW c \in Calls, cancelActiveVideoJob(c)
  PROVE  WatchMoves
<1> DEFINE w == active[call[c].job]
           t == [watch[w] EXCEPT !.stop = TRUE]
<1>1. CASE UNCHANGED watch
  BY <1>1, WatchFrame
<1>2. CASE w # NoOne
  <2>1. call[c].job \in Jobs
    BY GoodParts DEF cancelActiveVideoJob, CallAt, GoodCall, CallReady
  <2>2. w \in Watchers /\ watch[w] \in Watch
    BY <1>2, <2>1 DEF Inv, WatchPart
  <2>3. watch' = [watch EXCEPT ![w] = t]
    BY <1>2, <2>2 DEF cancelActiveVideoJob, Inv, WatchPart
  <2>4. /\ t.pc = watch[w].pc /\ t.job = watch[w].job /\ t.prov = watch[w].prov
        /\ t.req = watch[w].req /\ t.newp = watch[w].newp /\ t.flex = watch[w].flex
    BY <2>2 DEF Watch
  <2> HIDE DEF t
  <2>5. WatchMove(watch[w], t)
    BY <2>4 DEF WatchMove, Keeps, Working, NewPCs
  <2> HIDE DEF w
  <2> QED BY <2>2, <2>3, <2>5, WatchAll
<1> QED BY <1>1, <1>2 DEF cancelActiveVideoJob

LEMMA WatchersMove ==
  ASSUME Inv, [Next]_vars
  PROVE  WatchMoves
<1>1. CASE UNCHANGED watch
  BY <1>1, WatchFrame
<1>2. ASSUME NEW c \in Calls, CallStep(c) \/ \E j \in Jobs : ClientStep(c, j)
      PROVE  WatchMoves
  BY <1>1, <1>2, LaunchMoves, CancelMoves DEF CallStep, ClientStep, Create, Persist, StatusSettle, cancelVideoProvider,
     Requeue, DeleteRow, Launch, Submit, Retry, Status, List, Cancel, Delete, threads
<1>3. CASE Crash
  <2>1. ASSUME NEW w \in Watchers
        PROVE  WatchMove(watch[w], watch'[w])
    BY <1>3 DEF Crash, WatchMove, IdleWatch, Working, NewPCs
  <2> QED BY <2>1 DEF WatchMoves
<1> QED BY <1>1, <1>2, <1>3, WatchStepMoves, FallbackMoves DEF Next, vars, threads, TopUp, ProviderStep

\* A request that has just submitted to a provider.
Prepared(c) ==
  /\ call'[c].prov = Fresh /\ nprov' = Fresh /\ UNCHANGED <<row, watch>>
  /\ \A d \in Calls \ {c} : call'[d] = call[d]
  /\ \/ /\ call'[c].pc = "create" /\ row[call'[c].job].status = "unborn"
        /\ \A d \in Calls : call[d].job # call'[c].job
     \/ call'[c].pc = "requeue" /\ Present(row[call'[c].job])
\* Any other step of one leaves its job or takes up a stored one.
Passes(d, e) == /\ ~Holding(e)
                /\ e.job \in {NoOne, d.job} \/ Present(row[e.job])
CallMove(c) ==
  /\ call'[c] = call[c] \/ Prepared(c) \/ Passes(call[c], call'[c])
  /\ call'[c].flex => call[c].flex \/ "flex" \in Lanes
CallMoves == \A c \in Calls : CallMove(c)
ProvMoves ==
  /\ nprov' \in {nprov, Fresh}
  /\ batchJobs' \subseteq batchJobs \/ "batch" \in Lanes

LEMMA CallAll ==
  ASSUME Inv, NEW c \in Calls, NEW e, call' = [call EXCEPT ![c] = e], Passes(call[c], e),
         e.flex => call[c].flex
  PROVE  CallMoves
BY DEF CallMoves, CallMove, Inv, CallPart

LEMMA CallFrame == ASSUME Inv, UNCHANGED call PROVE CallMoves
BY DEF CallMoves, CallMove

LEMMA ReplyMoves == ASSUME Inv, NEW c \in Calls, Reply(c) PROVE CallMoves
<1>1. Passes(call[c], IdleCall) /\ ~IdleCall.flex
  BY DEF Passes, Holding, IdleCall
<1> QED BY <1>1, CallAll DEF Reply

LEMMA ToMoves ==
  ASSUME Inv, NEW c \in Calls, NEW pc, pc \notin {"create", "requeue"},
         call' = [call EXCEPT ![c].pc = pc]
  PROVE  CallMoves
<1> DEFINE e == [call[c] EXCEPT !.pc = pc]
<1>1. call[c] \in Call /\ call' = [call EXCEPT ![c] = e]
  BY DEF Inv, CallPart
<1>2. e.pc = pc /\ e.job = call[c].job /\ e.flex = call[c].flex
  BY <1>1 DEF Call
<1> HIDE DEF e
<1>3. Passes(call[c], e)
  BY <1>2 DEF Passes, Holding
<1> QED BY <1>1, <1>2, <1>3, CallAll

LEMMA TakeMoves ==
  ASSUME Inv, NEW c \in Calls, NEW j \in Jobs, NEW pc, pc \notin {"create", "requeue"}, Present(row[j]),
         NEW e, e.job = j, e.pc = pc, e.flex = call[c].flex,
         call' = [call EXCEPT ![c] = e]
  PROVE  CallMoves
<1>1. Passes(call[c], e)
  BY DEF Passes, Holding
<1> QED BY <1>1, CallAll

LEMMA SubmitMoves ==
  ASSUME Inv, NEW c \in Calls, NEW j \in Jobs, NEW k \in Kinds, Submit(c, j, k) \/ Retry(c, j, k)
  PROVE  CallMoves
<1>0. call \in [Calls -> Call]
  BY DEF Inv, CallPart
<1>1. PICK f \in BOOLEAN, pc \in {"create", "requeue"}, t \in Requests :
         /\ call' = [call EXCEPT ![c] = [job |-> j, pc |-> pc, prov |-> Fresh, flex |-> f, req |-> t]]
         /\ f => "flex" \in Lanes
         /\ pc = "create" => row[j].status = "unborn" /\ \A d \in Calls : call[d].job # j
         /\ pc = "requeue" => Present(row[j])
  BY DEF Submit, Retry, Requeueable, Present, NoRowStatuses, RetryRequest, Requests
<1>2. nprov' = Fresh /\ UNCHANGED <<row, watch>>
  BY DEF Submit, Retry, Enqueue, Allocate, threads
<1> DEFINE e == [job |-> j, pc |-> pc, prov |-> Fresh, flex |-> f, req |-> t]
<1>3. call'[c] = e /\ \A d \in Calls \ {c} : call'[d] = call[d]
  BY <1>0, <1>1
<1>4. e.job = j /\ e.pc = pc /\ e.prov = Fresh /\ e.flex = f
  OBVIOUS
<1> HIDE DEF e
<1>5. Prepared(c)
  BY <1>1, <1>2, <1>3, <1>4 DEF Prepared
<1>6. CallMove(c)
  BY <1>1, <1>3, <1>4, <1>5 DEF CallMove
<1> QED BY <1>3, <1>6 DEF CallMoves, CallMove

LEMMA ClientMoves ==
  ASSUME Inv, NEW c \in Calls, NEW j \in Jobs, ClientStep(c, j)
  PROVE  CallMoves
<1>0. call \in [Calls -> Call]
  BY DEF Inv, CallPart
<1>1. CASE \E k \in Kinds : Submit(c, j, k) \/ Retry(c, j, k)
  BY <1>1, SubmitMoves
<1>2. CASE Status(c, j) \/ List(c, j) \/ Cancel(c, j) \/ Delete(c, j)
  <2>1. Present(row[j])
    BY <1>2 DEF Status, List, Cancel, Delete, Present, NoRowStatuses, PendingStatuses, Cancelable
  <2>2. ASSUME NEW pc \in {"settle", "launch", "delete"}, call' = [call EXCEPT ![c].job = j, ![c].pc = pc]
        PROVE  CallMoves
    <3> DEFINE e == [call[c] EXCEPT !.job = j, !.pc = pc]
    <3>1. call' = [call EXCEPT ![c] = e] /\ e.job = j /\ e.pc = pc /\ e.flex = call[c].flex
      BY <1>0, <2>2 DEF Call
    <3> HIDE DEF e
    <3> QED BY <2>1, <3>1, TakeMoves
  <2>3. CASE Cancel(c, j)
    <3> DEFINE e == [call[c] EXCEPT !.job = j, !.pc = "cancelCtx", !.prov = row[j].prov]
    <3>1. call' = [call EXCEPT ![c] = e] /\ e.job = j /\ e.pc = "cancelCtx" /\ e.flex = call[c].flex
      BY <1>0, <2>3 DEF Cancel, Call
    <3> HIDE DEF e
    <3> QED BY <2>1, <3>1, TakeMoves
  <2> QED BY <1>2, <2>2, <2>3 DEF Status, List, Delete
<1> QED BY <1>1, <1>2 DEF ClientStep

LEMMA CallStepMoves ==
  ASSUME Inv, NEW c \in Calls, CallStep(c)
  PROVE  CallMoves
<1>1. Reply(c) \/ \E pc \in {"persist", "launch", "cancelProv"} : call' = [call EXCEPT ![c].pc = pc]
  BY DEF CallStep, Create, Persist, Launch, StatusSettle, cancelActiveVideoJob, cancelVideoProvider,
         Requeue, DeleteRow
<1> QED BY <1>1, ReplyMoves, ToMoves

LEMMA RequestsMove ==
  ASSUME Inv, [Next]_vars
  PROVE  CallMoves
<1>1. CASE UNCHANGED call
  BY <1>1, CallFrame
<1>2. CASE Crash
  <2>1. ASSUME NEW c \in Calls
        PROVE  CallMove(c)
    BY <1>2 DEF Crash, CallMove, Passes, Holding, IdleCall
  <2> QED BY <2>1 DEF CallMoves
<1>3. ASSUME NEW w \in Watchers, WatchStep(w) \/ FallbackStep(w) \/ Deadline(w)
      PROVE  UNCHANGED call
  BY <1>3 DEF WatchStep, processVideoJob, MarkProcessing, Poll, Judge, PostLocal, LocalResponse, Settle,
     MarkPaymentRequired, MarkFailed, Exit, Deadline, FallbackStep, moveFlexJobToFal, FlexCancel, runpodBatchExpire,
     RequeueFallback, fallbackRunpodH3ToLocal, MoveToLocal, QualitySubmit, retryRunpodH3QualityFailure
<1> QED BY <1>1, <1>2, <1>3, ClientMoves, CallStepMoves DEF Next, vars, TopUp, ProviderStep

LEMMA ProvidersMove ==
  ASSUME Inv, [Next]_vars
  PROVE  ProvMoves
<1>1. ASSUME NEW c \in Calls, CallStep(c)
      PROVE  UNCHANGED <<nprov, batchJobs>>
  BY <1>1 DEF CallStep, Create, Persist, Launch, StatusSettle, cancelActiveVideoJob, cancelVideoProvider,
     Requeue, DeleteRow, provider
<1>2. ASSUME NEW c \in Calls, NEW j \in Jobs, ClientStep(c, j)
      PROVE  ProvMoves
  BY <1>2 DEF ClientStep, Submit, Retry, Status, List, Cancel, Delete, Enqueue, Allocate, provider, ProvMoves
<1>3. ASSUME NEW w \in Watchers, WatchStep(w) \/ Deadline(w)
      PROVE  UNCHANGED <<nprov, batchJobs>>
  BY <1>3 DEF WatchStep, processVideoJob, MarkProcessing, Poll, Judge, PostLocal, LocalResponse, Settle,
     MarkPaymentRequired, MarkFailed, Exit, Deadline, provider
<1>4. ASSUME NEW w \in Watchers, FallbackStep(w)
      PROVE  ProvMoves
  BY <1>4 DEF FallbackStep, moveFlexJobToFal, FlexCancel, runpodBatchExpire, RequeueFallback,
     fallbackRunpodH3ToLocal, MoveToLocal, QualitySubmit, retryRunpodH3QualityFailure, Enqueue, Allocate,
     provider, ProvMoves
<1>5. CASE Crash
  BY <1>5 DEF Crash, ProvMoves
<1> QED BY <1>1, <1>2, <1>3, <1>4, <1>5 DEF Next, vars, provider, TopUp, ProviderStep, ProvMoves

--------------------------------------------------------------------------------
\* Who revives a cancelled job

\* A job whose row is about to be inserted has no row, and is nobody else's.
Unborn == \A j \in Jobs : row[j].status = "unborn" => row[j].req = "none"
Inserting ==
  \A c \in Calls : CallAt(c, "create") =>
    /\ row[call[c].job].status = "unborn"
    /\ \A d \in Calls \ {c} : call[d].job # call[c].job

LEMMA UnbornStays ==
  ASSUME Inv, Inserting, [Next]_vars, NEW j \in Jobs
  PROVE  /\ row'[j].status = "unborn" => row'[j] = row[j]
         /\ row[j].status = "unborn" => row'[j] = row[j] \/ Created(j)
<1>1. GoodRow(row[j])
  BY GoodParts
<1>2. CASE Plain(row[j], row'[j])
  BY <1>2 DEF Plain
<1>3. CASE Created(j)
  BY <1>1, <1>3 DEF Created, CreateVideoJobForService, GoodRow, Row
<1>4. CASE Persisted(j)
  BY <1>1, <1>4 DEF Persisted, PersistRequest, Writable, Present, NoRowStatuses, GoodRow, Row
<1>5. CASE Requeued(j) \/ FellBack(j)
  BY <1>1, <1>5 DEF Requeued, FellBack, RequeueVideoJobProvider, WithPayload, Requeueable, GoodRow, Row
<1>6. CASE Moved(j)
  BY <1>1, <1>6 DEF Moved, UpdateVideoJobProvider, WithPayload, Writable, Present, NoRowStatuses, GoodRow, Row
<1> QED BY <1>2, <1>3, <1>4, <1>5, <1>6, RowSteps DEF RowMoves

LEMMA InsertingStays ==
  ASSUME Inv, Unborn, Inserting, [Next]_vars
  PROVE  Unborn' /\ Inserting'
<1>1. Unborn'
  BY UnbornStays DEF Unborn
<1>2. CallMoves
  BY RequestsMove
<1>3. ASSUME NEW c \in Calls, call'[c].pc = "create"
      PROVE  /\ row'[call'[c].job].status = "unborn"
             /\ \A d \in Calls \ {c} : call'[d].job # call'[c].job
  <2>1. call'[c] = call[c] \/ Prepared(c)
    BY <1>2, <1>3 DEF CallMoves, CallMove, Passes, Holding
  <2>2. CASE Prepared(c)
    BY <1>3, <2>2 DEF Prepared
  <2>3. CASE call'[c] = call[c]
    <3> DEFINE j == call[c].job
    <3>1. j \in Jobs /\ row[j].status = "unborn" /\ CallAt(c, "create")
      BY <1>3, <2>3, GoodParts DEF Inserting, CallAt, GoodCall, CallReady
    <3>2. ~Created(j)
      <4> SUFFICES ASSUME NEW d \in Calls, CallAt(d, "create"), call[d].job = j, call'[d].pc = "persist"
                   PROVE  FALSE
        BY DEF Created
      <4>1. d = c
        BY <3>1 DEF Inserting
      <4> QED BY <1>3, <4>1
    <3>3. row'[j] = row[j]
      BY <3>1, <3>2, UnbornStays
    <3>4. ASSUME NEW d \in Calls \ {c}
          PROVE  call'[d].job # j
      <4>1. call[d].job # j /\ j # NoOne
        BY <3>1, NoOneAssumption DEF Inserting, NoOneAssumption
      <4>2. CASE Prepared(d)
        BY <3>1, <4>2, <4>1 DEF Prepared, Present, NoRowStatuses
      <4>3. CASE call'[d] = call[d] \/ Passes(call[d], call'[d])
        BY <3>1, <4>1, <4>3 DEF Passes, Present, NoRowStatuses
      <4> QED BY <1>2, <4>2, <4>3 DEF CallMoves, CallMove
    <3> QED BY <2>3, <3>1, <3>3, <3>4
  <2> QED BY <2>1, <2>2, <2>3
<1> QED BY <1>1, <1>3 DEF Inserting, CallAt

LEMMA InsertingAlways == Spec => [](Unborn /\ Inserting)
<1>1. Init => Unborn /\ Inserting
  BY DEF Init, Unborn, Inserting, UnbornRow, IdleCall, CallAt
<1>2. Inv /\ Unborn /\ Inserting /\ [Next]_vars => (Unborn /\ Inserting)'
  BY InsertingStays
<1> QED BY <1>1, <1>2, InvAlways, PTL DEF Spec

\* A cancelled job leaves that state by its deletion, by the retry a client asked
\* for, or by the fallback of a watcher that had started it before the
\* cancellation (RequeueVideoJobProvider).
Revivals ==
  \A j \in Jobs :
    row[j].status = "cancelled" /\ row'[j].status \notin {"cancelled", "deleted"}
      => \/ \E c \in Calls : CallAt(c, "requeue") /\ call[c].job = j
         \/ \E w \in Watchers : WatchAt(w, "requeue") /\ watch[w].job = j

LEMMA RevivalSteps ==
  ASSUME Inv, Inserting, [Next]_vars
  PROVE  Revivals
<1> SUFFICES ASSUME NEW j \in Jobs, row[j].status = "cancelled", row'[j].status \notin {"cancelled", "deleted"},
                    ~Requeued(j), ~FellBack(j)
             PROVE  FALSE
  BY DEF Revivals, Requeued, FellBack
<1>1. ~Plain(row[j], row'[j])
  BY DEF Plain
<1>2. ~Created(j)
  BY DEF Created, Inserting
<1>3. ~Persisted(j)
  BY DEF Persisted, PersistRequest, Writable
<1>4. ~Moved(j)
  BY DEF Moved, Writable
<1> QED BY <1>1, <1>2, <1>3, <1>4, RowSteps DEF RowMoves

\* Whatever the routing, only a client's retry or a watcher's fallback revives a
\* cancelled job.
THEOREM RevivalsAreRequeues == Spec => [][Revivals]_vars
<1>1. Inv /\ Unborn /\ Inserting /\ [Next]_vars => [Revivals]_vars
  BY RevivalSteps
<1> QED BY <1>1, InvAlways, InsertingAlways, PTL DEF Spec

\* Without the flex lane and the batch tier no watcher ever requeues a job.
NoFallback ==
  /\ batchJobs = {}
  /\ \A j \in Jobs : ~row[j].flex
  /\ \A c \in Calls : ~call[c].flex
  /\ \A w \in Watchers : ~watch[w].flex /\ watch[w].pc \notin {"flexCancel", "requeue"}

LEMMA NoFallbackStays ==
  ASSUME Inv, NoFallback, [Next]_vars, "flex" \notin Lanes, "batch" \notin Lanes
  PROVE  NoFallback'
<1>1. batchJobs' = {}
  BY ProvidersMove DEF ProvMoves, NoFallback
<1>2. \A c \in Calls : ~call'[c].flex
  BY RequestsMove DEF CallMoves, CallMove, NoFallback
<1>3. \A w \in Watchers : ~watch'[w].flex /\ watch'[w].pc \notin {"flexCancel", "requeue"}
  BY WatchersMove DEF WatchMoves, WatchMove, NoFallback
<1>4. ASSUME NEW j \in Jobs
      PROVE  ~row'[j].flex
  <2>1. GoodRow(row[j]) /\ ~row[j].flex
    BY GoodParts DEF NoFallback
  <2>2. CASE Plain(row[j], row'[j])
    BY <2>1, <2>2 DEF Plain
  <2>3. CASE Created(j)
    BY <2>1, <2>3 DEF Created, CreateVideoJobForService, GoodRow, Row
  <2>4. CASE Persisted(j)
    BY <2>1, <2>4 DEF Persisted, PersistRequest, GoodRow, Row, NoFallback
  <2>5. CASE Requeued(j)
    BY <2>1, <2>5 DEF Requeued, RequeueVideoJobProvider, WithPayload, GoodRow, Row, NoFallback
  <2>6. CASE FellBack(j)
    BY <2>6 DEF FellBack, WatchAt, NoFallback
  <2>7. CASE Moved(j)
    BY <2>1, <2>7 DEF Moved, UpdateVideoJobProvider, WithPayload, GoodRow, Row, NoFallback
  <2> QED BY <2>2, <2>3, <2>4, <2>5, <2>6, <2>7, RowSteps DEF RowMoves
<1> QED BY <1>1, <1>2, <1>3, <1>4 DEF NoFallback

\* On every other route only the client's retry revives a cancelled job; with the
\* batch tier the run VJ_revival shows that a watcher does.
THEOREM CancelledJobsStay ==
  ASSUME "flex" \notin Lanes, "batch" \notin Lanes
  PROVE  Spec => CancelledStays
<1>1. Init => NoFallback
  BY DEF Init, NoFallback, UnbornRow, IdleCall, IdleWatch
<1>2. Inv /\ NoFallback /\ [Next]_vars => NoFallback'
  BY NoFallbackStays
<1>3. Spec => []NoFallback
  BY <1>1, <1>2, InvAlways, PTL DEF Spec
<1> DEFINE A == \A j \in Jobs :
       row[j].status = "cancelled" /\ row'[j].status \notin {"cancelled", "deleted"}
         => \E c \in Calls : CallAt(c, "requeue") /\ call[c].job = j
<1>4. NoFallback /\ Revivals => A
  BY DEF NoFallback, Revivals, WatchAt
<1>5. Spec => [][A]_vars
  BY <1>3, <1>4, RevivalsAreRequeues, PTL
<1> QED BY <1>5 DEF CancelledStays

--------------------------------------------------------------------------------
\* The quality retry is spent once

\* Every handle was handed out by a provider.
Numbered ==
  /\ \A j \in Jobs : row[j].prov <= nprov
  /\ \A w \in Watchers : /\ Working(watch[w]) => watch[w].prov <= nprov
                         /\ watch[w].pc \in NewPCs => watch[w].newp <= nprov
  /\ \A c \in Calls : Holding(call[c]) => call[c].prov <= nprov

\* A handle x that only call c has.
HeldBy(x, c) ==
  /\ \A j \in Jobs : row[j].prov # x
  /\ \A w \in Watchers : /\ Working(watch[w]) => watch[w].prov # x
                         /\ watch[w].pc \in NewPCs => watch[w].newp # x
  /\ \A d \in Calls \ {c} : Holding(call[d]) => call[d].prov # x
\* The request of a retry is nobody else's until the row takes it.
Unshared == \A c \in Calls : CallAt(c, "requeue") => HeldBy(call[c].prov, c)

\* A watcher that follows its row's request knows when the retry is spent.
Informed ==
  \A w \in Watchers :
    LET s == watch[w]
        r == row[s.job]
    IN Working(s) /\ r.prov = s.prov /\ r.req = "retried" => s.req = "retried"

\* Where the handle of a row comes from.
RowFrom(j) ==
  \/ row'[j].prov = row[j].prov
  \/ \E c \in Calls : Holding(call[c]) /\ ~Holding(call'[c]) /\ row'[j].prov = call[c].prov
  \/ \E w \in Watchers : watch[w].pc \in NewPCs /\ row'[j].prov = watch[w].newp

LEMMA RowProvs ==
  ASSUME Inv, [Next]_vars, NEW j \in Jobs
  PROVE  RowFrom(j)
<1>1. GoodRow(row[j])
  BY GoodParts
<1>2. CASE Plain(row[j], row'[j])
  BY <1>2 DEF Plain, RowFrom
<1>3. CASE Created(j)
  <2>1. PICK c \in Calls : /\ call[c].pc = "create" /\ call'[c].pc = "persist"
                           /\ row'[j] = CreateVideoJobForService(row[j], call[c].prov)
    BY <1>3 DEF Created, CallAt
  <2>2. row'[j].prov = call[c].prov
    BY <1>1, <2>1 DEF CreateVideoJobForService, GoodRow, Row
  <2> QED BY <2>1, <2>2 DEF RowFrom, Holding
<1>4. CASE Persisted(j)
  BY <1>1, <1>4 DEF Persisted, PersistRequest, GoodRow, Row, RowFrom
<1>5. CASE Requeued(j)
  <2>1. PICK c \in Calls : /\ call[c].pc = "requeue" /\ call'[c].pc = "launch"
                           /\ row'[j] = RequeueVideoJobProvider(row[j], call[c].prov, call[c].flex, call[c].req)
    BY <1>5 DEF Requeued, CallAt
  <2>2. row'[j].prov \in {row[j].prov, call[c].prov}
    BY <1>1, <2>1 DEF RequeueVideoJobProvider, WithPayload, GoodRow, Row
  <2> QED BY <2>1, <2>2 DEF RowFrom, Holding
<1>6. CASE FellBack(j)
  <2>1. PICK w \in Watchers, f \in BOOLEAN, t \in Requests :
           watch[w].pc = "requeue" /\ row'[j] = RequeueVideoJobProvider(row[j], watch[w].newp, f, t)
    BY <1>6 DEF FellBack, WatchAt
  <2>2. row'[j].prov \in {row[j].prov, watch[w].newp}
    BY <1>1, <2>1 DEF RequeueVideoJobProvider, WithPayload, GoodRow, Row
  <2> QED BY <2>1, <2>2 DEF RowFrom, NewPCs
<1>7. CASE Moved(j)
  <2>1. PICK w \in Watchers, t \in {"fresh", "retried"} :
           /\ watch[w].pc \in {"toLocal", "quality"}
           /\ row'[j] = UpdateVideoJobProvider(row[j], watch[w].newp, watch[w].flex, t)
    BY <1>7 DEF Moved
  <2>2. row'[j].prov \in {row[j].prov, watch[w].newp}
    BY <1>1, <2>1 DEF UpdateVideoJobProvider, WithPayload, GoodRow, Row
  <2> QED BY <2>1, <2>2 DEF RowFrom, NewPCs
<1> QED BY <1>2, <1>3, <1>4, <1>5, <1>6, <1>7, RowSteps DEF RowMoves

LEMMA Counted ==
  ASSUME Inv, [Next]_vars
  PROVE  nprov \in Nat /\ nprov' \in Nat /\ nprov <= nprov' /\ Fresh > nprov
<1>1. nprov \in Nat
  BY DEF Inv, ProvPart
<1> QED BY <1>1, ProvidersMove DEF ProvMoves, Fresh

LEMMA NatHandles ==
  ASSUME Inv
  PROVE  /\ \A j \in Jobs : row[j].prov \in Nat
         /\ \A w \in Watchers : watch[w].prov \in Nat /\ watch[w].newp \in Nat
         /\ \A c \in Calls : call[c].prov \in Nat
BY GoodParts DEF GoodRow, GoodWatch, GoodCall, Row, Watch, Call, ProvIds, NoProv

LEMMA NumberedStays ==
  ASSUME Inv, Numbered, [Next]_vars
  PROVE  Numbered'
<1>0. nprov \in Nat /\ nprov' \in Nat /\ nprov <= nprov'
  BY Counted
<1>1. ASSUME NEW x, x \in Nat, x <= nprov
      PROVE  x <= nprov'
  BY <1>0, <1>1
<1>2. ASSUME NEW j \in Jobs
      PROVE  row'[j].prov <= nprov'
  BY <1>1, RowProvs, NatHandles DEF RowFrom, Numbered
<1>3. ASSUME NEW w \in Watchers
      PROVE  /\ Working(watch'[w]) => watch'[w].prov <= nprov'
             /\ watch'[w].pc \in NewPCs => watch'[w].newp <= nprov'
  <2>1. WatchMove(watch[w], watch'[w]) /\ GoodWatch(watch[w])
    BY WatchersMove, GoodParts DEF WatchMoves
  <2>2. ASSUME Working(watch'[w])
        PROVE  watch'[w].prov <= nprov'
    <3>1. CASE Keeps(watch[w], watch'[w])
      BY <1>1, <3>1, NatHandles DEF Keeps, Numbered
    <3>2. CASE Reads(watch[w], watch'[w])
      <4>1. watch[w].job \in Jobs
        BY <2>1, <3>2 DEF Reads, GoodWatch, WatchReady
      <4> QED BY <1>1, <3>2, <4>1, NatHandles DEF Reads, Numbered
    <3>3. CASE Switches(watch[w], watch'[w])
      BY <1>1, <3>3, NatHandles DEF Switches, Numbered, NewPCs
    <3> QED BY <2>1, <2>2, <3>1, <3>2, <3>3 DEF WatchMove
  <2>3. ASSUME watch'[w].pc \in NewPCs
        PROVE  watch'[w].newp <= nprov'
    <3>1. CASE watch[w].pc \in NewPCs /\ watch'[w].newp = watch[w].newp
      BY <1>1, <3>1, NatHandles DEF Numbered
    <3>2. CASE watch'[w].newp = Fresh /\ nprov' = Fresh
      BY <1>0, <3>2
    <3> QED BY <2>1, <2>3, <3>1, <3>2 DEF WatchMove
  <2> QED BY <2>2, <2>3
<1>4. ASSUME NEW c \in Calls, Holding(call'[c])
      PROVE  call'[c].prov <= nprov'
  <2>1. call'[c] = call[c] \/ Prepared(c)
    BY <1>4, RequestsMove DEF CallMoves, CallMove, Passes
  <2>2. CASE call'[c] = call[c]
    BY <1>1, <1>4, <2>2, NatHandles DEF Numbered
  <2>3. CASE Prepared(c)
    BY <1>0, <2>3 DEF Prepared
  <2> QED BY <2>1, <2>2, <2>3
<1> QED BY <1>2, <1>3, <1>4 DEF Numbered

\* A request nobody has yet, or that nobody but a waiting retry has, is not
\* taken up by another step.
LEMMA UnsharedStays ==
  ASSUME Inv, Numbered, Unshared, [Next]_vars
  PROVE  Unshared'
<1>0. nprov \in Nat /\ nprov <= nprov' /\ Fresh > nprov
  BY Counted
<1> SUFFICES ASSUME NEW c \in Calls, call'[c].pc = "requeue"
             PROVE  HeldBy(call[c].prov, c)'
  BY DEF Unshared, CallAt
<1> DEFINE x == call'[c].prov
<1>1. call'[c] = call[c] \/ Prepared(c)
  BY RequestsMove DEF CallMoves, CallMove, Passes, Holding
<1>2. CASE Prepared(c)
  <2>1. x = Fresh /\ x > nprov /\ UNCHANGED <<row, watch>> /\ \A d \in Calls \ {c} : call'[d] = call[d]
    BY <1>0, <1>2 DEF Prepared
  <2>2. \A j \in Jobs : row'[j].prov # x
    BY <1>0, <2>1, NatHandles DEF Numbered
  <2>3. \A w \in Watchers : /\ Working(watch'[w]) => watch'[w].prov # x
                            /\ watch'[w].pc \in NewPCs => watch'[w].newp # x
    BY <1>0, <2>1, NatHandles DEF Numbered
  <2>4. \A d \in Calls \ {c} : Holding(call'[d]) => call'[d].prov # x
    BY <1>0, <2>1, NatHandles DEF Numbered
  <2> QED BY <2>2, <2>3, <2>4 DEF HeldBy
<1>3. CASE call'[c] = call[c]
  <2>1. CallAt(c, "requeue") /\ HeldBy(x, c) /\ x <= nprov /\ x \in Nat /\ x # Fresh
    BY <1>0, <1>3, NatHandles DEF Unshared, Numbered, CallAt, Holding
  <2>2. ASSUME NEW j \in Jobs
        PROVE  row'[j].prov # x
    <3>1. Holding(call'[c])
      BY DEF Holding
    <3> QED BY <2>1, <3>1, RowProvs DEF RowFrom, HeldBy
  <2>3. ASSUME NEW w \in Watchers
        PROVE  /\ Working(watch'[w]) => watch'[w].prov # x
               /\ watch'[w].pc \in NewPCs => watch'[w].newp # x
    <3>1. WatchMove(watch[w], watch'[w]) /\ GoodWatch(watch[w])
      BY WatchersMove, GoodParts DEF WatchMoves
    <3>2. watch[w].pc = "start" => watch[w].job \in Jobs
      BY <3>1 DEF GoodWatch, WatchReady
    <3>3. Working(watch'[w]) => watch'[w].prov # x
      BY <2>1, <3>1, <3>2 DEF WatchMove, Keeps, Reads, Switches, HeldBy, NewPCs
    <3>4. watch'[w].pc \in NewPCs => watch'[w].newp # x
      BY <2>1, <3>1 DEF WatchMove, HeldBy
    <3> QED BY <3>3, <3>4
  <2>4. ASSUME NEW d \in Calls \ {c}, Holding(call'[d])
        PROVE  call'[d].prov # x
    <3>1. call'[d] = call[d] \/ Prepared(d)
      BY <2>4, RequestsMove DEF CallMoves, CallMove, Passes
    <3> QED BY <2>1, <2>4, <3>1 DEF Prepared, HeldBy
  <2> QED BY <2>2, <2>3, <2>4 DEF HeldBy
<1> QED BY <1>1, <1>2, <1>3

LEMMA InformedStays ==
  ASSUME Inv, OneWatcher, Unborn, Inserting, Unshared, Informed, [Next]_vars
  PROVE  Informed'
<1> SUFFICES ASSUME NEW w \in Watchers, Working(watch'[w]), row'[watch'[w].job].prov = watch'[w].prov,
                    row'[watch'[w].job].req = "retried"
             PROVE  watch'[w].req = "retried"
  BY DEF Informed
<1> DEFINE s == watch[w]
           t == watch'[w]
           j == s.job
<1>1. GoodWatch(s) /\ WatchMove(s, t)
  BY GoodParts, WatchersMove DEF WatchMoves
<1>2. CASE Reads(s, t)
  BY <1>2 DEF Reads
<1>3. CASE Switches(s, t)
  BY <1>3 DEF Switches
<1>4. CASE Keeps(s, t)
  <2>1. j \in Jobs /\ GoodRow(row[j]) /\ s.pc # "idle"
    BY <1>1, <1>4, GoodParts DEF GoodWatch, WatchReady, Keeps, Working
  <2>2. row'[j].prov = s.prov /\ row'[j].req = "retried" /\ Working(s) /\ t.req = s.req
    BY <1>4 DEF Keeps
  <2>3. row[j].prov = s.prov /\ row[j].req = "retried" => t.req = "retried"
    BY <2>2 DEF Informed
  <2>4. ASSUME NEW v \in Watchers, watch[v].pc # "idle", watch[v].job = j
        PROVE  v = w
    BY <2>1, <2>4 DEF OneWatcher
  <2>5. CASE Plain(row[j], row'[j])
    BY <2>2, <2>3, <2>5 DEF Plain
  <2>6. CASE Created(j)
    <3>1. row[j].req = "none"
      BY <2>1, <2>6 DEF Created, Inserting, Unborn
    <3> QED BY <2>1, <2>2, <2>6, <3>1 DEF Created, CreateVideoJobForService, GoodRow, Row
  <2>7. CASE Persisted(j)
    BY <2>1, <2>2, <2>3, <2>7 DEF Persisted, PersistRequest, GoodRow, Row
  <2>8. CASE Requeued(j)
    <3>1. PICK c \in Calls : /\ CallAt(c, "requeue")
                             /\ row'[j] = RequeueVideoJobProvider(row[j], call[c].prov, call[c].flex, call[c].req)
      BY <2>8 DEF Requeued
    <3>2. call[c].prov # s.prov
      BY <2>2, <3>1 DEF Unshared, HeldBy
    <3>3. row'[j] = row[j] \/ row'[j].prov = call[c].prov
      BY <2>1, <3>1 DEF RequeueVideoJobProvider, WithPayload, GoodRow, Row
    <3> QED BY <2>2, <2>3, <3>2, <3>3
  <2>9. CASE FellBack(j)
    <3>1. PICK v \in Watchers : watch[v].pc = "requeue" /\ watch[v].job = j /\ watch'[v].pc = "exit"
      BY <2>9 DEF FellBack, WatchAt
    <3>2. v = w
      BY <2>4, <3>1
    <3> QED BY <3>1, <3>2 DEF Working
  <2>10. CASE Moved(j)
    <3>1. PICK v \in Watchers, u \in {"fresh", "retried"} :
             /\ watch[v].pc \in {"toLocal", "quality"} /\ watch[v].job = j /\ Writable(row[j])
             /\ row'[j] = UpdateVideoJobProvider(row[j], watch[v].newp, watch[v].flex, u)
             /\ watch' = [watch EXCEPT ![v].pc = "mark", ![v].prov = watch[v].newp, ![v].req = u]
      BY <2>10 DEF Moved
    <3>2. v = w
      BY <2>4, <3>1
    <3>3. row'[j].req = u
      BY <2>1, <3>1 DEF UpdateVideoJobProvider, WithPayload, GoodRow, Row
    <3>4. t.req = u
      BY <3>1, <3>2 DEF Inv, WatchPart, Watch
    <3> QED BY <2>2, <3>3, <3>4
  <2> QED BY <2>1, <2>5, <2>6, <2>7, <2>8, <2>9, <2>10, RowSteps DEF RowMoves
<1> QED BY <1>1, <1>2, <1>3, <1>4 DEF WatchMove

\* The automatic retry for a black picture is spent once per stored request: the
\* watcher that decides on its own copy is informed, as long as it follows the
\* row's request (retryRunpodH3QualityFailure).
THEOREM QualityRetrySpentOnce == Spec => QualityRetriedOnce
<1> DEFINE J == Unborn /\ Inserting
           K == Numbered /\ Unshared /\ Informed
           A == \A w \in Watchers :
                  watch[w].pc = "seen" /\ watch'[w].pc = "quality" /\ row[watch[w].job].prov = watch[w].prov
                    => row[watch[w].job].req # "retried"
<1>1. Init => K
  BY DEF Init, Numbered, Unshared, Informed, UnbornRow, IdleCall, IdleWatch, CallAt, Working, Holding, NewPCs, NoProv
<1>2. Inv /\ OneWatcher /\ J /\ K /\ [Next]_vars => K'
  BY NumberedStays, UnsharedStays, InformedStays
<1>3. Inv /\ K /\ [Next]_vars => A
  <2> SUFFICES ASSUME Inv, K, [Next]_vars, NEW w \in Watchers, watch[w].pc = "seen", watch'[w].pc = "quality",
                      row[watch[w].job].prov = watch[w].prov, row[watch[w].job].req = "retried"
               PROVE  FALSE
    OBVIOUS
  <2>1. watch[w].req = "fresh"
    BY WatchersMove DEF WatchMoves, WatchMove
  <2> QED BY <2>1 DEF Informed, Working
<1>4. Spec => []K
  <2> HIDE DEF K, J, A
  <2>1. Spec => []J
    BY InsertingAlways DEF J
  <2> QED BY <1>1, <1>2, <2>1, InvAlways, WatchersAreUnique, PTL DEF Spec
<1>5. Spec => [][A]_vars
  <2> HIDE DEF K, J, A
  <2> QED BY <1>3, <1>4, InvAlways, PTL DEF Spec
<1> QED BY <1>5 DEF QualityRetriedOnce
================================================================================
