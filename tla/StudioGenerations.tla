------------------------- MODULE StudioGenerations -------------------------
(* The generation cards of the Studio: the page queues videos and puts up a  *)
(* card for each, asks the service for the account's list again and again,   *)
(* and merges every answer into the cards by the time each row was updated;  *)
(* meanwhile the user cancels, deletes and retries, here and in another tab. *)
(* Answers overlap in any order: a pass reads the list, then each of its     *)
(* newest active rows, and shows them later still.                           *)
EXTENDS Integers, FiniteSets

CONSTANTS
    GenVisits,     \* what the user does in a behaviour: prompts of each batch,
                   \* gestures here and in another tab, requests that fail
    GenRefreshes   \* active rows a pass asks for one by one (4)

ASSUME GenBounds == GenRefreshes \in Nat

VARIABLES
    genLeft,   \* what is left of the visit
    genRows,   \* the service: [rows: job -> row, clock]; deleted rows are marked
    cards,     \* the page: generationJobs
    pass,      \* the page: loadJobs
    asks       \* the page: other handlers in flight

genVars == <<genLeft, genRows, cards, pass, asks>>

GenEnds == {"completed", "failed", "cancelled"}
Retriable == {"failed", "cancelled"}
GenCard(status, stamp) == [status |-> status, stamp |-> stamp]
NoCards == [j \in {} |-> GenCard("active", 0)]

GenInit ==
    /\ genLeft \in GenVisits
    /\ genRows = [rows |-> NoCards, clock |-> 0]
    /\ cards = NoCards
    /\ pass = [pc |-> "idle", timer |-> TRUE, rows |-> NoCards, left |-> {}]
    /\ asks = {}

(* ------------------------------------------------------------ the service -- *)

IsActive(card) == card.status = "active"
StoredJobs == {j \in DOMAIN genRows.rows : genRows.rows[j].status # "deleted"}
ListedRows == [j \in StoredJobs |-> genRows.rows[j]]

(* A row is written: its updated_at is the time of the write.                *)
RowWritten(j, status) ==
    genRows' = [rows |-> [k \in DOMAIN genRows.rows \union {j} |->
                            IF k = j THEN GenCard(status, genRows.clock + 1) ELSE genRows.rows[k]],
                clock |-> genRows.clock + 1]

RowEnds(j) ==
    /\ j \in StoredJobs /\ IsActive(genRows.rows[j])
    /\ \E status \in {"completed", "failed"} : RowWritten(j, status)
    /\ UNCHANGED <<genLeft, cards, pass, asks>>

(* What the three requests need of a row, and what they make of it.          *)
Grants(kind, j) ==
    /\ j \in StoredJobs
    /\ CASE kind = "cancel" -> IsActive(genRows.rows[j])
         [] kind = "delete" -> ~IsActive(genRows.rows[j])
         [] kind = "retry" -> genRows.rows[j].status \in Retriable

Outcome == [cancel |-> "cancelled", delete |-> "deleted", retry |-> "active"]

(* Another tab, or the same account elsewhere.                               *)
OtherTab(kind, j) ==
    /\ kind \in genLeft.elsewhere
    /\ Grants(kind, j) /\ RowWritten(j, Outcome[kind])
    /\ genLeft' = [genLeft EXCEPT !.elsewhere = @ \ {kind}]
    /\ UNCHANGED <<cards, pass, asks>>

(* --------------------------------------------------- loading the list ------ *)

(* mergeGenerationJobs: the list decides which cards there are; a card stays *)
(* as it is shown if it is newer than the row, or has ended and the row has  *)
(* not.                                                                      *)
KeepsShown(shown, row) == shown.stamp > row.stamp \/ (~IsActive(shown) /\ IsActive(row))
MergeGenerationJobs(shown, rows) ==
    [j \in DOMAIN rows |-> IF j \in DOMAIN shown /\ KeepsShown(shown[j], rows[j])
                           THEN shown[j] ELSE rows[j]]

Fails == genLeft.faults > 0 /\ genLeft' = [genLeft EXCEPT !.faults = @ - 1]

(* The timer fires. One that fires during a pass only has the next one come  *)
(* sooner.                                                                   *)
PassStarts ==
    /\ pass.timer /\ pass.pc = "idle"
    /\ pass' = [pass EXCEPT !.pc = "listing", !.timer = FALSE]
    /\ UNCHANGED <<genLeft, genRows, cards, asks>>

(* Mutant: only active rows are worth another pass.                          *)
EndsForGood(p) ==
    [p EXCEPT !.pc = "idle", !.timer = \E j \in DOMAIN p.rows : IsActive(p.rows[j]),
              !.rows = NoCards, !.left = {}]

(* A pass ends and schedules the next, after a failure as well.              *)
PassEnds(p) == [p EXCEPT !.pc = "idle", !.timer = TRUE, !.rows = NoCards, !.left = {}]

(* The newest active rows of the list, at most GenRefreshes of them.         *)
NewestActive(rows) ==
    {j \in DOMAIN rows : /\ IsActive(rows[j])
                         /\ Cardinality({k \in DOMAIN rows : k > j /\ IsActive(rows[k])}) < GenRefreshes}

ListAnswered ==
    /\ pass.pc = "listing"
    /\ \/ /\ pass' = [pass EXCEPT !.pc = "refreshing", !.rows = ListedRows, !.left = NewestActive(ListedRows)]
          /\ UNCHANGED genLeft
       \/ Fails /\ pass' = PassEnds(pass)
    /\ UNCHANGED <<genRows, cards, asks>>

(* The row of one job as it is by now; the row of the list if that fails.    *)
RowRefreshed(j) ==
    /\ pass.pc = "refreshing" /\ j \in pass.left
    /\ \/ /\ j \in StoredJobs
          /\ pass' = [pass EXCEPT !.rows[j] = genRows.rows[j], !.left = @ \ {j}]
          /\ UNCHANGED genLeft
       \/ /\ IF j \in StoredJobs THEN Fails ELSE UNCHANGED genLeft
          /\ pass' = [pass EXCEPT !.left = @ \ {j}]
    /\ UNCHANGED <<genRows, cards, asks>>

PassShown ==
    /\ pass.pc = "refreshing" /\ pass.left = {}
    /\ cards' = MergeGenerationJobs(cards, pass.rows)
    /\ pass' = PassEnds(pass)
    /\ UNCHANGED <<genLeft, genRows, asks>>

(* ------------------------------------------------------- queueing videos -- *)

Ask(kind, job, n) == [kind |-> kind, job |-> job, n |-> n, jobs |-> {}, answer |-> "none", stamp |-> 0]

(* queueVideoGenerations submits every prompt of the batch at once,          *)
(* generateVideoFromAudio one.                                               *)
QueueVideos ==
    /\ genLeft.batches # {}
    /\ \E n \in genLeft.batches :
         /\ asks' = asks \union {Ask("batch", n, n)}
         /\ genLeft' = [genLeft EXCEPT !.batches = @ \ {n}]
    /\ UNCHANGED <<genRows, cards, pass>>

(* One submission is over: the service has a row for it, or its keyframe or  *)
(* its request failed.                                                       *)
VideoPosted(a) ==
    /\ a.kind = "batch" /\ a.n > 0
    /\ LET job == Cardinality(DOMAIN genRows.rows) + 1 IN
       \/ /\ RowWritten(job, "active")
          /\ asks' = (asks \ {a}) \union {[a EXCEPT !.n = @ - 1, !.jobs = @ \union {job}]}
          /\ UNCHANGED genLeft
       \/ /\ Fails
          /\ asks' = (asks \ {a}) \union {[a EXCEPT !.n = @ - 1]}
          /\ UNCHANGED genRows
    /\ UNCHANGED <<cards, pass>>

(* All are over: a card for each job, stamped with the time on the page.     *)
BatchShown(a) ==
    /\ a.kind = "batch" /\ a.n = 0
    /\ cards' = [j \in DOMAIN cards \union a.jobs |->
                   IF j \in a.jobs THEN GenCard("active", genRows.clock + 1) ELSE cards[j]]
    /\ genRows' = [genRows EXCEPT !.clock = @ + 1]
    /\ asks' = asks \ {a}
    /\ UNCHANGED <<genLeft, pass>>

(* ------------------------------------------- cancelling, deleting, retrying -- *)

(* What the buttons of a card do depends on what the card shows.             *)
Offered(j) ==
    IF IsActive(cards[j]) THEN {"cancel"}
    ELSE {"delete"} \union (IF cards[j].status \in Retriable THEN {"retry"} ELSE {})

ClickCard(kind, j) ==
    /\ genLeft.clicks > 0 /\ j \in DOMAIN cards /\ kind \in Offered(j)
    /\ asks' = asks \union {Ask(kind, j, 0)}
    /\ genLeft' = [genLeft EXCEPT !.clicks = @ - 1]
    /\ UNCHANGED <<genRows, cards, pass>>

RequestServed(a) ==
    /\ a.kind # "batch" /\ a.answer = "none"
    /\ \/ /\ Grants(a.kind, a.job) /\ RowWritten(a.job, Outcome[a.kind])
          /\ asks' = (asks \ {a}) \union {[a EXCEPT !.answer = Outcome[a.kind], !.stamp = genRows.clock + 1]}
       \/ /\ ~ Grants(a.kind, a.job)
          /\ asks' = asks \ {a} /\ UNCHANGED genRows
    /\ UNCHANGED <<genLeft, cards, pass>>

(* removeGeneration and retryGeneration show the answer, whatever else has   *)
(* been shown since.                                                         *)
AnswerShown(a) ==
    /\ a.kind # "batch" /\ a.answer # "none"
    /\ cards' = IF a.answer = "deleted" THEN [j \in DOMAIN cards \ {a.job} |-> cards[j]]
                ELSE [j \in DOMAIN cards |-> IF j = a.job THEN GenCard(a.answer, a.stamp) ELSE cards[j]]
    /\ asks' = asks \ {a}
    /\ UNCHANGED <<genLeft, genRows, pass>>

(* -------------------------------------------------------- specification -- *)

GenJobs == DOMAIN genRows.rows
Requests == {"cancel", "delete", "retry"}

GenUser ==
    \/ QueueVideos
    \/ \E kind \in Requests, j \in GenJobs : ClickCard(kind, j) \/ OtherTab(kind, j)

GenHandlers ==
    \/ \E a \in asks : VideoPosted(a) \/ BatchShown(a) \/ RequestServed(a) \/ AnswerShown(a)

GenPass ==
    \/ PassStarts \/ ListAnswered \/ PassShown
    \/ \E j \in pass.left : RowRefreshed(j)

GenNext == GenUser \/ GenHandlers \/ GenPass \/ \E j \in GenJobs : RowEnds(j)

(* Timers fire and requests are answered or fail.                            *)
GenSpec == GenInit /\ [][GenNext]_genVars /\ WF_genVars(GenHandlers) /\ WF_genVars(GenPass)

(* ------------------------------------------------------------ properties -- *)

(* Type correctness of the cards, the rows and what is in flight.            *)
GenTypeOK ==
    /\ genRows.clock \in Nat
    /\ \A j \in GenJobs : /\ genRows.rows[j].status \in GenEnds \union {"active", "deleted"}
                          /\ genRows.rows[j].stamp \in 1 .. genRows.clock
    /\ DOMAIN cards \subseteq GenJobs /\ DOMAIN pass.rows \subseteq GenJobs
    /\ \A j \in DOMAIN cards : cards[j].status \in GenEnds \union {"active"}
    /\ pass.pc \in {"idle", "listing", "refreshing"} /\ pass.left \subseteq DOMAIN pass.rows
    /\ pass.timer \in BOOLEAN
    /\ \A a \in asks : a.jobs \subseteq GenJobs

(* mergeGenerationJobs and the stamps it compares: whatever order answers    *)
(* come in, a card is older than its row, or the very row, or the one a      *)
(* batch put up, which says that the job is under way: no end is shown that  *)
(* is later than the row.                                                    *)
Follows(card, row) ==
    \/ card.stamp < row.stamp \/ card = row
    \/ card.stamp > row.stamp /\ IsActive(card)
CardsFollowRows == \A j \in DOMAIN cards : Follows(cards[j], genRows.rows[j])

(* "The list endpoint is the durable source of truth": once the user and the *)
(* service are done, the page shows the rows of the service and no others,   *)
(* each ended row with its end. Except the card of a job that ended before   *)
(* the batch it was queued with: the card is stamped with the time the last  *)
(* submission was over, which is later than the row's, and stays.            *)
CardShows(j) == j \in DOMAIN cards /\ (cards[j].status = genRows.rows[j].status \/ cards[j].stamp > genRows.rows[j].stamp)
ListCatchesUp == <>[](DOMAIN cards = StoredJobs /\ \A j \in StoredJobs : ~IsActive(genRows.rows[j]) => CardShows(j))
=============================================================================
