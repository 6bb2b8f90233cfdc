------------------------------- MODULE CreditHold -------------------------------
(***************************************************************************)
(* Services that take the credits first and give them back on failure.     *)
(* A "sync" service (services.go, the background removal of studio.go)     *)
(* calls its backend while the client waits; an "unbacked" one has a price *)
(* and no backend (nsfw_detect).  "extend" and "upscale"                   *)
(* (studio.go) leave a row of video_jobs whose result_json holds the       *)
(* credits taken, and a goroutine gives them back from its copy of it.     *)
(*                                                                         *)
(* A statement may fail, or commit although its answer is an error; most   *)
(* of these answers are ignored.  Each is one action, like each call of a  *)
(* provider; db.mu makes a statement atomic, and a row is only launched    *)
(* when no goroutine is registered for it (launchVideoJob).                *)
(***************************************************************************)
EXTENDS Integers

CONSTANTS
  Holds,          \* requests of one account that reserve credits
  Price,          \* what each reserves: getRequestServicePriceCUTE, studioExtensionPriceUSD, ...
  StartPurse,     \* the balance
  MaxMishaps      \* bound: statements that fail and restarts

Direct == {"sync", "unbacked"}
Services == Direct \cup {"extend", "upscale"}
ASSUME PriceAssumption == Price \in [Holds -> Nat \ {0}]
ASSUME PurseAssumption == StartPurse \in Nat /\ MaxMishaps \in Nat

VARIABLES
  service,   \* what each request asks for
  purse,     \* users.credits
  req,       \* where the handler of each request is
  jobStatus, \* video_jobs.status of its row
  noted,     \* whether result_json holds credits_used
  work,      \* its goroutine: program counter, and what its copy of the row noted
  stop,      \* whether the goroutine's context is cancelled
  cancel,    \* where the user's cancellation is
  refunds,   \* history: how often the reserve was added back
  bare,      \* history: whether a goroutine read the row before it was noted
  mishaps    \* statements that failed and restarts

holdVars == <<service, purse, req, jobStatus, noted, work, stop, cancel, refunds, bare, mishaps>>

Answered == {"served", "failed", "unserved", "accepted", "gone"}
ReqPC == {"idle", "call", "settle", "row", "store", "launch", "giveBack"} \cup Answered
Pending == {"queued", "processing"}
Outcomes == {"completed", "failed", "cancelled"}
WorkPC == {"idle", "start", "mark", "wait", "finish", "refund", "credit", "fail", "exit"}
IdleWork == [pc |-> "idle", credits |-> FALSE]
FreshWork == [pc |-> "start", credits |-> FALSE]

HoldTypeOK ==
  /\ service \in [Holds -> Services]
  /\ purse \in Nat
  /\ req \in [Holds -> ReqPC]
  /\ jobStatus \in [Holds -> {"none"} \cup Pending \cup Outcomes]
  /\ noted \in [Holds -> BOOLEAN]
  /\ work \in [Holds -> [pc : WorkPC, credits : BOOLEAN]]
  /\ stop \in [Holds -> BOOLEAN]
  /\ cancel \in [Holds -> {"no", "row", "done"}]
  /\ refunds \in [Holds -> Nat]
  /\ bare \in [Holds -> BOOLEAN]
  /\ mishaps \in 0 .. MaxMishaps

HoldInit ==
  /\ service \in [Holds -> Services]
  /\ purse = StartPurse
  /\ req = [h \in Holds |-> "idle"]
  /\ jobStatus = [h \in Holds |-> "none"]
  /\ noted = [h \in Holds |-> FALSE]
  /\ work = [h \in Holds |-> IdleWork]
  /\ stop = [h \in Holds |-> FALSE]
  /\ cancel = [h \in Holds |-> "no"]
  /\ refunds = [h \in Holds |-> 0]
  /\ bare = [h \in Holds |-> FALSE]
  /\ mishaps = 0

--------------------------------------------------------------------------------
\* Statements

\* A statement is answered, fails, or commits without its answer.
Answer == {"ok", "failed", "lost"}
Commits(a) == a # "failed"
Statement(a) ==
  /\ a = "ok" \/ mishaps < MaxMishaps
  /\ mishaps' = IF a = "ok" THEN mishaps ELSE mishaps + 1

ReqGoto(h, pc) == req' = [req EXCEPT ![h] = pc]
WorkGoto(h, pc) == work' = [work EXCEPT ![h].pc = pc]

\* UpdateVideoJob leaves a cancelled row alone, and reports no error.
SetStatus(h, a, s) ==
  jobStatus' = IF Commits(a) /\ jobStatus[h] # "cancelled"
                 THEN [jobStatus EXCEPT ![h] = s] ELSE jobStatus

\* AddUserCredits of the whole reserve.
AddBack(h, a) ==
  /\ purse' = IF Commits(a) THEN purse + Price[h] ELSE purse
  /\ refunds' = IF Commits(a) THEN [refunds EXCEPT ![h] = @ + 1] ELSE refunds

--------------------------------------------------------------------------------
\* The request

\* DeductUserCredits refuses what the balance does not cover.
Reserve(h) ==
  /\ req[h] = "idle" /\ purse >= Price[h]
  /\ \E a \in Answer :
       /\ Statement(a)
       /\ purse' = IF Commits(a) THEN purse - Price[h] ELSE purse
       /\ ReqGoto(h, CASE a # "ok" -> "failed"
                       [] a = "ok" /\ service[h] = "upscale" -> "row"
                       [] OTHER -> "call")
  /\ UNCHANGED <<jobStatus, noted, work, stop, cancel, refunds, bare>>

\* The backend, or the submission of the extension.  That there is no backend is
\* only found out now, and answered without giving the credits back.
CallService(h) ==
  /\ req[h] = "call"
  /\ \/ service[h] = "unbacked" /\ ReqGoto(h, "unserved")
     \/ service[h] = "sync" /\ ReqGoto(h, "settle")
     \/ service[h] \notin Direct /\ ReqGoto(h, "row")
     \/ service[h] # "unbacked" /\ ReqGoto(h, "giveBack")
  /\ UNCHANGED <<purse, jobStatus, noted, work, stop, cancel, refunds, bare, mishaps>>

\* What was delivered for less (a batch cut short, the cheaper lane, fewer
\* tokens) is returned in part; more tokens than reserved are taken if the
\* balance covers them.  An error leaves the reserve as the price.
SettleReserve(h) ==
  /\ req[h] = "settle"
  /\ \E a \in Answer :
       /\ Statement(a)
       /\ IF Commits(a)
            THEN \E p \in 0 .. Price[h] - 1 :
                   \/ purse' = purse + p
                   \/ purse >= p /\ purse' = purse - p
            ELSE UNCHANGED purse
  /\ ReqGoto(h, "served")
  /\ UNCHANGED <<jobStatus, noted, work, stop, cancel, refunds, bare>>

\* CreateVideoJobForService; an error gives the credits back.
CreateRow(h) ==
  /\ req[h] = "row"
  /\ \E a \in Answer :
       /\ Statement(a)
       /\ jobStatus' = IF Commits(a) THEN [jobStatus EXCEPT ![h] = "queued"] ELSE jobStatus
       /\ ReqGoto(h, IF a = "ok" THEN "store" ELSE "giveBack")
  /\ UNCHANGED <<purse, noted, work, stop, cancel, refunds, bare>>

\* UpdateVideoJob with credits_used: ignored by the extension if it fails.
StoreReserve(h) ==
  /\ req[h] = "store"
  /\ \E a \in Answer :
       /\ Statement(a)
       /\ SetStatus(h, a, "queued")
       /\ noted' = IF Commits(a) /\ jobStatus[h] # "cancelled"
                     THEN [noted EXCEPT ![h] = TRUE] ELSE noted
       /\ ReqGoto(h, IF a = "ok" \/ service[h] = "extend" THEN "launch" ELSE "giveBack")
  /\ UNCHANGED <<purse, work, stop, cancel, refunds, bare>>

\* A slip: a goroutine is started although one is registered.
StartAnyway(h) ==
  /\ work' = [work EXCEPT ![h] = FreshWork]
  /\ stop' = [stop EXCEPT ![h] = FALSE]

\* LoadOrStore lets one goroutine per row run.
Start(h) ==
  /\ IF work[h].pc = "idle"
       THEN /\ work' = [work EXCEPT ![h] = FreshWork]
            /\ stop' = [stop EXCEPT ![h] = FALSE]
       ELSE UNCHANGED <<work, stop>>

\* launchVideoJob, then the answer 202.
LaunchHold(h) ==
  /\ req[h] = "launch"
  /\ Start(h)
  /\ ReqGoto(h, "accepted")
  /\ UNCHANGED <<purse, jobStatus, noted, cancel, refunds, bare, mishaps>>

\* Whether this worked is not looked at.
GiveBack(h) ==
  /\ req[h] = "giveBack"
  /\ \E a \in Answer : Statement(a) /\ AddBack(h, a)
  /\ ReqGoto(h, "failed")
  /\ UNCHANGED <<jobStatus, noted, work, stop, cancel, bare>>

--------------------------------------------------------------------------------
\* Status polls and cancellation

\* A slip: only work that has not begun is started again.
PollQueuedOnly(h) ==
  /\ jobStatus[h] = "queued" /\ work[h].pc = "idle"
  /\ Start(h)
  /\ UNCHANGED <<purse, req, jobStatus, noted, cancel, refunds, bare, mishaps>>

\* handleVideoJobStatus and the list: processing work of the upscaler, whose
\* provider is "local:sync", is not started again (shouldRelaunchVideoJob).  A
\* launch that comes late finds the row over, in ReadRow.
PollHold(h) ==
  /\ \/ jobStatus[h] = "queued"
     \/ jobStatus[h] = "processing" /\ service[h] = "extend"
  /\ work[h].pc = "idle"
  /\ Start(h)
  /\ UNCHANGED <<purse, req, jobStatus, noted, cancel, refunds, bare, mishaps>>

\* CancelVideoJob; the credits stay spent, as the page says.
CancelHold(h) ==
  /\ cancel[h] = "no" /\ jobStatus[h] \in Pending
  /\ jobStatus' = [jobStatus EXCEPT ![h] = "cancelled"]
  /\ cancel' = [cancel EXCEPT ![h] = "row"]
  /\ UNCHANGED <<purse, req, noted, work, stop, refunds, bare, mishaps>>

\* cancelActiveVideoJob reaches the goroutine registered at that moment.
CancelContext(h) ==
  /\ cancel[h] = "row"
  /\ cancel' = [cancel EXCEPT ![h] = "done"]
  /\ stop' = [stop EXCEPT ![h] = work[h].pc # "idle"]
  /\ UNCHANGED <<purse, req, jobStatus, noted, work, refunds, bare, mishaps>>

--------------------------------------------------------------------------------
\* The goroutine

\* processVideoJob reads the row once; an error, or a row that is over, ends it.
ReadRow(h) ==
  /\ work[h].pc = "start"
  /\ \/ /\ jobStatus[h] \in Pending
        /\ work' = [work EXCEPT ![h] = [pc |-> "mark", credits |-> noted[h]]]
        /\ bare' = [bare EXCEPT ![h] = @ \/ ~noted[h]]
        /\ UNCHANGED mishaps
     \/ jobStatus[h] \notin Pending /\ WorkGoto(h, "exit") /\ UNCHANGED <<bare, mishaps>>
     \/ Statement("failed") /\ WorkGoto(h, "exit") /\ UNCHANGED bare
  /\ UNCHANGED <<purse, req, jobStatus, noted, stop, cancel, refunds>>

\* The upscaler looks at the context first, and finds its input in the copy.
MarkHold(h) ==
  /\ work[h].pc = "mark"
  /\ \/ /\ service[h] = "upscale" /\ stop[h]
        /\ WorkGoto(h, "exit") /\ UNCHANGED <<jobStatus, mishaps>>
     \/ /\ ~(service[h] = "upscale" /\ stop[h])
        /\ \E a \in Answer : Statement(a) /\ SetStatus(h, a, "processing")
        /\ WorkGoto(h, IF service[h] = "upscale" /\ ~work[h].credits THEN "refund" ELSE "wait")
  /\ UNCHANGED <<purse, req, noted, stop, cancel, refunds, bare>>

\* The provider's result, its failure, or the end of the patience with it.  The
\* upscaler does nothing once its context is cancelled.
ProviderAnswers(h) ==
  /\ work[h].pc = "wait"
  /\ IF service[h] = "upscale" /\ stop[h]
       THEN WorkGoto(h, "exit")
       ELSE WorkGoto(h, "finish") \/ WorkGoto(h, "refund")
  /\ UNCHANGED <<purse, req, jobStatus, noted, stop, cancel, refunds, bare, mishaps>>

FinishHold(h) ==
  /\ work[h].pc = "finish"
  /\ \E a \in Answer : Statement(a) /\ SetStatus(h, a, "completed")
  /\ WorkGoto(h, "exit")
  /\ UNCHANGED <<purse, req, noted, stop, cancel, refunds, bare>>

\* videoJobWasCancelled: the context, then the row; an error of the read counts
\* as not cancelled.  A copy without credits_used has nothing to give back.
CheckCancelled(h) ==
  /\ work[h].pc = "refund"
  /\ LET onward == IF work[h].credits THEN "credit" ELSE "fail"
     IN \/ /\ stop[h] \/ jobStatus[h] = "cancelled"
           /\ WorkGoto(h, "exit") /\ UNCHANGED mishaps
        \/ /\ ~stop[h] /\ jobStatus[h] # "cancelled"
           /\ WorkGoto(h, onward) /\ UNCHANGED mishaps
        \/ /\ ~stop[h] /\ Statement("failed") /\ WorkGoto(h, onward)
  /\ UNCHANGED <<purse, req, jobStatus, noted, stop, cancel, refunds, bare>>

\* The credits first, whether or not that works ...
RefundHold(h) ==
  /\ work[h].pc = "credit"
  /\ \E a \in Answer : Statement(a) /\ AddBack(h, a)
  /\ WorkGoto(h, "fail")
  /\ UNCHANGED <<req, jobStatus, noted, stop, cancel, bare>>

\* A slip: the row is left as it was.
FailForgotten(h) ==
  /\ work[h].pc = "fail"
  /\ WorkGoto(h, "exit")
  /\ UNCHANGED <<purse, req, jobStatus, noted, stop, cancel, refunds, bare, mishaps>>

\* ... and the row second.
FailHold(h) ==
  /\ work[h].pc = "fail"
  /\ \E a \in Answer : Statement(a) /\ SetStatus(h, a, "failed")
  /\ WorkGoto(h, "exit")
  /\ UNCHANGED <<purse, req, noted, stop, cancel, refunds, bare>>

ExitHold(h) ==
  /\ work[h].pc = "exit"
  /\ work' = [work EXCEPT ![h] = IdleWork]
  /\ stop' = [stop EXCEPT ![h] = FALSE]
  /\ UNCHANGED <<purse, req, jobStatus, noted, cancel, refunds, bare, mishaps>>

\* The process restarts: rows and balances stay.
RestartHolds ==
  /\ mishaps < MaxMishaps /\ mishaps' = mishaps + 1
  /\ req' = [h \in Holds |-> IF req[h] \in Answered \cup {"idle"} THEN req[h] ELSE "gone"]
  /\ work' = [h \in Holds |-> IdleWork]
  /\ stop' = [h \in Holds |-> FALSE]
  /\ cancel' = [h \in Holds |-> IF cancel[h] = "row" THEN "done" ELSE cancel[h]]
  /\ UNCHANGED <<purse, jobStatus, noted, refunds, bare>>

--------------------------------------------------------------------------------
RequestStep(h) ==
  \/ CallService(h) \/ SettleReserve(h) \/ CreateRow(h) \/ StoreReserve(h)
  \/ LaunchHold(h) \/ GiveBack(h)
WorkStep(h) ==
  \/ ReadRow(h) \/ MarkHold(h) \/ ProviderAnswers(h) \/ FinishHold(h)
  \/ CheckCancelled(h) \/ RefundHold(h) \/ FailHold(h) \/ ExitHold(h)

HoldStep(h) ==
  \/ Reserve(h) \/ RequestStep(h) \/ WorkStep(h)
  \/ PollHold(h) \/ CancelHold(h) \/ CancelContext(h)

HoldNext == UNCHANGED service /\ (RestartHolds \/ \E h \in Holds : HoldStep(h))

HoldSpec == HoldInit /\ [][HoldNext]_holdVars

\* Handlers and goroutines go on (every provider call has a time limit, the
\* loop of the extension ends after thirty minutes); the page polls its jobs.
HoldFairness ==
  \A h \in Holds :
    /\ WF_holdVars(RequestStep(h) /\ UNCHANGED service)
    /\ WF_holdVars(WorkStep(h) /\ UNCHANGED service)
    /\ WF_holdVars(PollHold(h) /\ UNCHANGED service)

--------------------------------------------------------------------------------
\* The inductive invariant

\* What the order of the statements leaves possible.
HoldPlaced(h) ==
  /\ req[h] \in {"idle", "call", "settle", "row", "served", "unserved"} => jobStatus[h] = "none"
  /\ req[h] = "unserved" => service[h] = "unbacked"
  /\ service[h] = "unbacked" =>
       req[h] \in {"idle", "call", "failed", "unserved", "gone"} /\ jobStatus[h] = "none" /\ refunds[h] = 0
  /\ jobStatus[h] = "none" => ~noted[h] /\ work[h].pc = "idle"
  /\ req[h] \in {"store", "launch"} => jobStatus[h] # "none"
  /\ req[h] = "store" => ~noted[h]
  /\ work[h].pc \notin {"idle", "start", "exit"} => jobStatus[h] \in Pending \cup {"cancelled"}
  /\ work[h].credits => noted[h]
  /\ work[h].pc = "credit" => work[h].credits

\* Who may still give the reserve back, if no further statement fails.
MayGiveBack(h) == req[h] \in {"idle", "call", "row", "store", "giveBack"}
MayRefund(h) ==
  /\ noted[h]
  /\ \/ jobStatus[h] \in Pending /\ work[h].pc # "fail"
     \/ work[h].pc = "credit"

RefundsLeft(h) ==
  refunds[h] + (IF MayGiveBack(h) THEN 1 ELSE 0) + (IF MayRefund(h) THEN 1 ELSE 0) <= 1 + mishaps

\* Without a mishap, and if no goroutine came before the note, refunds follow
\* the outcome step by step.
Orderly(h) ==
  mishaps = 0 /\ ~bare[h] =>
    /\ req[h] = "failed" <=> jobStatus[h] = "none" /\ refunds[h] = 1
    /\ req[h] = "giveBack" => jobStatus[h] = "none"
    /\ req[h] = "store" => work[h].pc \in {"idle", "start", "exit"} /\ jobStatus[h] \in {"queued", "cancelled"}
    /\ work[h].pc \notin {"idle", "start", "exit"} => work[h].credits
    /\ jobStatus[h] \in Pending /\ work[h].pc # "fail" => refunds[h] = 0
    /\ work[h].pc = "fail" => refunds[h] = 1
    /\ work[h].pc = "credit" => refunds[h] = 0
    /\ jobStatus[h] = "completed" => refunds[h] = 0
    /\ jobStatus[h] = "failed" => refunds[h] = 1

HInv == HoldTypeOK /\ \A h \in Holds : HoldPlaced(h) /\ RefundsLeft(h) /\ Orderly(h)

--------------------------------------------------------------------------------
\* Properties

\* A reserve is given back at most once, by the handler or by the goroutine, and
\* once more for each statement that failed or restart: between AddUserCredits
\* and the statement that marks the row failed, a restart or an error leaves a
\* pending row whose next goroutine gives the credits back again.
RefundedOnce == \A h \in Holds : refunds[h] <= 1 + mishaps

\* As long as no statement fails and nothing restarts, what failed is refunded
\* and what was delivered is not.  Excepted is a row whose goroutine was started
\* by a poll before the handler had noted the credits in it (studio.go:987), and
\* a request for a service without a backend (services.go:913): it is answered
\* 503, and its credits never come back.
FailedIsRefunded ==
  \A h \in Holds :
    /\ mishaps = 0 /\ ~bare[h] =>
         /\ req[h] = "failed" \/ jobStatus[h] = "failed" => refunds[h] = 1
         /\ req[h] = "served" \/ jobStatus[h] = "completed" => refunds[h] = 0
    /\ req[h] = "unserved" => service[h] = "unbacked"
    /\ service[h] = "unbacked" => refunds[h] = 0

\* The two together: how often the credits came back follows the outcome.
RefundsFollowOutcome == RefundedOnce /\ FailedIsRefunded

\* Every request is answered, work that waits is begun, and an extension reaches
\* an outcome although the process may restart.  (Work of the upscaler that a
\* restart interrupted is not taken up again: shouldRelaunchVideoJob.)
Unfinished(h) ==
  \/ req[h] \notin Answered \cup {"idle"}
  \/ jobStatus[h] = "queued"
  \/ jobStatus[h] = "processing" /\ service[h] = "extend"
HoldsEnd == \A h \in Holds : Unfinished(h) ~> ~Unfinished(h)
================================================================================
