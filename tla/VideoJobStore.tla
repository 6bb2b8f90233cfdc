----------------------------- MODULE VideoJobStore -----------------------------
(***************************************************************************)
(* The rows of the table video_jobs and the statements of server/db.go     *)
(* that change them.  Every statement runs under DB.mu, so each operator   *)
(* below is one atomic change of one row: it maps the row before the       *)
(* statement to the row after it.  A row the WHERE clause does not select  *)
(* is returned unchanged.                                                  *)
(*                                                                         *)
(* The payload result_json is abstracted to the two facts later decisions  *)
(* read back from it: whether the request is for the flex lane             *)
(* ("_h3_variant"), and req, whether a request is stored at all and has    *)
(* spent its automatic quality retry ("_h3_quality_retry").  priced stands *)
(* for provider_cost_usd > 0 and charged_usd > 0.                          *)
(***************************************************************************)
EXTENDS Naturals

CONSTANT MaxProv        \* bound on the provider requests ever submitted

ASSUME MaxProvAssumption == MaxProv \in Nat

NoProv == 0
ProvIds == 1 .. MaxProv

\* Before the INSERT and after the DELETE a job has no row; the two are told
\* apart because a job id is a fresh uuid and is never inserted again.
NoRowStatuses == {"unborn", "deleted"}
PendingStatuses == {"queued", "processing"}
Statuses == NoRowStatuses \cup PendingStatuses
              \cup {"completed", "failed", "payment_required", "cancelled"}

Requests == {"none", "fresh", "retried"}

Row == [status : Statuses, prov : ProvIds \cup {NoProv},
        flex : BOOLEAN, req : Requests, priced : BOOLEAN, settled : BOOLEAN]

UnbornRow == [status |-> "unborn", prov |-> NoProv, flex |-> FALSE,
              req |-> "none", priced |-> FALSE, settled |-> FALSE]

Present(r) == r.status \notin NoRowStatuses

\* INSERT ... 'queued' with the defaults of the unborn row; the payload arrives
\* with a later statement.
CreateVideoJobForService(r, p) == [r EXCEPT !.status = "queued", !.prov = p]

\* A slip to guard against: the WHERE clause without its test of the status.
WritableIfPresent(r) == Present(r)

\* WHERE status is not cancelled.
Writable(r) == Present(r) /\ r.status # "cancelled"

\* A slip: the status is written whatever it was.
UpdatePresentRow(r, st) == IF Present(r) THEN [r EXCEPT !.status = st] ELSE r

UpdateVideoJob(r, st) ==
  IF Writable(r) THEN [r EXCEPT !.status = st] ELSE r

\* UpdateVideoJob(id, "queued", payload): the payload is stored with the status.
PersistRequest(r, flx) ==
  IF Writable(r)
  THEN [r EXCEPT !.status = "queued", !.flex = flx, !.req = "fresh"]
  ELSE r

\* COALESCE($n, result_json): an empty payload leaves the stored one.
WithPayload(r, flx, req) ==
  IF req = "none" THEN r ELSE [r EXCEPT !.flex = flx, !.req = req]

\* A slip: the status is reset but provider_job_id is not.
UpdateProviderKeepingHandle(r, p, flx, req) ==
  IF Writable(r) THEN WithPayload([r EXCEPT !.status = "queued"], flx, req) ELSE r

UpdateVideoJobProvider(r, p, flx, req) ==
  IF Writable(r)
  THEN WithPayload([r EXCEPT !.prov = p, !.status = "queued"], flx, req)
  ELSE r

\* WHERE status IN (failed, error, cancelled, canceled) AND NOT settled.
Requeueable(r) == r.status \in {"failed", "cancelled"} /\ ~r.settled

RequeueVideoJobProvider(r, p, flx, req) ==
  IF Requeueable(r)
  THEN WithPayload([r EXCEPT !.prov = p, !.status = "queued"], flx, req)
  ELSE r

Cancelable(r) == r.status \in PendingStatuses

CancelVideoJob(r) ==
  IF Cancelable(r) THEN [r EXCEPT !.status = "cancelled"] ELSE r

DeleteVideoJob(r) == IF Present(r) THEN [r EXCEPT !.status = "deleted"] ELSE r

\* A slip: the status alone decides, and the flag is not consulted.
ChargeableByStatus(r) == Writable(r) /\ r.status # "completed"

\* A row SettleGeneratedVideoJob still has to charge for.
Chargeable(r) == Writable(r) /\ ~r.settled /\ r.status # "completed"

\* A slip: UPDATE users without "AND credits >= $1".
SettleOutcomeOnCredit(r, balance, credits) ==
  IF Chargeable(r) THEN "paid" ELSE IF Writable(r) THEN "already" ELSE "refused"

\* How SettleGeneratedVideoJob ends for a balance and a price in credits
\* (charged_usd / cutePrice when it is called): an error for a missing or a
\* cancelled row, nothing to do for one already charged, too few credits, or a
\* charge.
SettleOutcome(r, balance, credits) ==
  IF Chargeable(r)
  THEN IF balance >= credits THEN "paid" ELSE "short"
  ELSE IF Writable(r) THEN "already" ELSE "refused"

\* A slip: the row is completed in both branches.
SettledRowShortReleased(r, outcome) ==
  IF outcome \in {"short", "paid"}
  THEN [r EXCEPT !.status = "completed", !.priced = TRUE, !.settled = outcome = "paid"]
  ELSE r

SettledRow(r, outcome) ==
  CASE outcome = "short" -> [r EXCEPT !.status = "payment_required",
                                      !.priced = TRUE, !.settled = FALSE]
    [] outcome = "paid"  -> [r EXCEPT !.status = "completed",
                                      !.priced = TRUE, !.settled = TRUE]
    [] OTHER             -> r

\* A slip: processing jobs are taken to have a watcher.
RelaunchQueuedOnly(r, local) == r.status = "queued"

\* Which rows a status poll may hand to a new watcher: queued ones, and
\* processing ones unless their work is a synchronous local request.
shouldRelaunchVideoJob(r, local) ==
  \/ r.status = "queued"
  \/ r.status = "processing" /\ ~local
================================================================================
