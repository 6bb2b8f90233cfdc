---------------------------- MODULE ServicesProofs ----------------------------
(***************************************************************************)
(* Theorems about CreditHold, for every set of requests and prices and any *)
(* number of failing statements and restarts; about H3Scale, for every set *)
(* of submissions, with and without the second idle look, and for any      *)
(* number of failed calls and restarts; and about the systems of           *)
(* MCServices side by side.                                                *)
(***************************************************************************)
EXTENDS MCServices, TLAPS

(* ----------------------------------------------------- reserve and refund -- *)

USE PriceAssumption, PurseAssumption

RowStatuses == {"none"} \cup Pending \cup Outcomes

\* The invariant of one hold, as a predicate of its values: its service, where its handler is,
\* its row, whether the reserve is noted in it, its goroutine and what that knows,
\* how often the reserve came back, whether the row was read too early, and how
\* many statements have failed.
Good(s, r, j, n, pc, cr, rf, b, m) ==
  /\ r \in {"idle", "call", "settle", "row", "served", "unserved"} => j = "none"
  /\ r = "unserved" => s = "unbacked"
  /\ s = "unbacked" => r \in {"idle", "call", "failed", "unserved", "gone"} /\ j = "none" /\ rf = 0
  /\ j = "none" => ~n /\ pc = "idle"
  /\ r \in {"store", "launch"} => j # "none"
  /\ r = "store" => ~n
  /\ pc \notin {"idle", "start", "exit"} => j \in {"queued", "processing", "cancelled"}
  /\ cr => n
  /\ pc = "credit" => cr
  /\ LET giver == r \in {"idle", "call", "row", "store", "giveBack"}
         refunder == n /\ ((j \in {"queued", "processing"} /\ pc # "fail") \/ pc = "credit")
     IN /\ giver /\ refunder => rf + 2 <= 1 + m
        /\ giver \/ refunder => rf + 1 <= 1 + m
        /\ rf <= 1 + m
  /\ m = 0 /\ ~b =>
       /\ r = "failed" <=> (j = "none" /\ rf = 1)
       /\ r = "giveBack" => j = "none"
       /\ r = "store" => pc \in {"idle", "start", "exit"} /\ j \in {"queued", "cancelled"}
       /\ pc \notin {"idle", "start", "exit"} => cr
       /\ j \in {"queued", "processing"} /\ pc # "fail" => rf = 0
       /\ pc = "fail" => rf = 1
       /\ pc = "credit" => rf = 0
       /\ j = "completed" => rf = 0
       /\ j = "failed" => rf = 1

GoodHold(h) ==
  Good(service[h], req[h], jobStatus[h], noted[h], work[h].pc, work[h].credits, refunds[h], bare[h], mishaps)

\* The conjuncts of CreditHold say that.
LEMMA GoodIsOrderly ==
  ASSUME HoldTypeOK, NEW h \in Holds
  PROVE  GoodHold(h) <=> HoldPlaced(h) /\ RefundsLeft(h) /\ Orderly(h)
<1>1. refunds[h] \in Nat /\ mishaps \in Nat
  BY DEF HoldTypeOK
<1>2. RefundsLeft(h) <=>
        /\ MayGiveBack(h) /\ MayRefund(h) => refunds[h] + 2 <= 1 + mishaps
        /\ MayGiveBack(h) \/ MayRefund(h) => refunds[h] + 1 <= 1 + mishaps
        /\ refunds[h] <= 1 + mishaps
  <2>1. CASE MayGiveBack(h) /\ MayRefund(h)
    BY <1>1, <2>1 DEF RefundsLeft
  <2>2. CASE MayGiveBack(h) /\ ~MayRefund(h)
    BY <1>1, <2>2 DEF RefundsLeft
  <2>3. CASE ~MayGiveBack(h) /\ MayRefund(h)
    BY <1>1, <2>3 DEF RefundsLeft
  <2>4. CASE ~MayGiveBack(h) /\ ~MayRefund(h)
    BY <1>1, <2>4 DEF RefundsLeft
  <2> QED
    BY <2>1, <2>2, <2>3, <2>4
<1> QED
  BY <1>1, <1>2 DEF GoodHold, Good, HoldPlaced, MayGiveBack, MayRefund, Orderly, Pending

\* The same in the next state.
LEMMA GoodIsOrderlyNext ==
  ASSUME HoldTypeOK', NEW h \in Holds
  PROVE  GoodHold(h)' <=> (HoldPlaced(h) /\ RefundsLeft(h) /\ Orderly(h))'
<1>1. refunds'[h] \in Nat /\ mishaps' \in Nat
  BY DEF HoldTypeOK
<1>2. RefundsLeft(h)' <=>
        /\ MayGiveBack(h)' /\ MayRefund(h)' => refunds'[h] + 2 <= 1 + mishaps'
        /\ MayGiveBack(h)' \/ MayRefund(h)' => refunds'[h] + 1 <= 1 + mishaps'
        /\ refunds'[h] <= 1 + mishaps'
  <2>1. CASE MayGiveBack(h)' /\ MayRefund(h)'
    BY <1>1, <2>1 DEF RefundsLeft
  <2>2. CASE MayGiveBack(h)' /\ ~MayRefund(h)'
    BY <1>1, <2>2 DEF RefundsLeft
  <2>3. CASE ~MayGiveBack(h)' /\ MayRefund(h)'
    BY <1>1, <2>3 DEF RefundsLeft
  <2>4. CASE ~MayGiveBack(h)' /\ ~MayRefund(h)'
    BY <1>1, <2>4 DEF RefundsLeft
  <2> QED
    BY <2>1, <2>2, <2>3, <2>4
<1> QED
  BY <1>1, <1>2 DEF GoodHold, Good, HoldPlaced, MayGiveBack, MayRefund, Orderly, Pending

\* A mishap elsewhere only loosens what is asked of a hold.
LEMMA GoodLater ==
  ASSUME NEW s, NEW r, NEW j, NEW n \in BOOLEAN, NEW pc, NEW cr \in BOOLEAN, NEW rf \in Nat,
         NEW b \in BOOLEAN, NEW m \in Nat, NEW later \in Nat, m <= later,
         Good(s, r, j, n, pc, cr, rf, b, m)
  PROVE  Good(s, r, j, n, pc, cr, rf, b, later)
BY DEF Good

\* What Good reads of a hold does not change.
Untouched(h) ==
  /\ service'[h] = service[h] /\ req'[h] = req[h] /\ jobStatus'[h] = jobStatus[h] /\ noted'[h] = noted[h]
  /\ work'[h] = work[h] /\ refunds'[h] = refunds[h] /\ bare'[h] = bare[h]

\* A step that is good for the hold it is about and leaves the others alone keeps
\* the invariant.
LEMMA OneHold ==
  ASSUME HInv, HoldTypeOK', mishaps <= mishaps', NEW g \in Holds,
         \A h \in Holds \ {g} : Untouched(h), GoodHold(g)'
  PROVE  HInv'
<1>1. ASSUME NEW h \in Holds PROVE GoodHold(h)'
  <2>1. CASE h = g
    BY <2>1
  <2>2. CASE h # g
    <3>1. GoodHold(h)
      BY GoodIsOrderly DEF HInv
    <3>2. Untouched(h)
      BY <2>2
    <3>3. /\ noted[h] \in BOOLEAN /\ work[h].credits \in BOOLEAN /\ bare[h] \in BOOLEAN
          /\ refunds[h] \in Nat /\ mishaps \in Nat /\ mishaps' \in Nat
      BY DEF HInv, HoldTypeOK
    <3>4. Good(service[h], req[h], jobStatus[h], noted[h], work[h].pc, work[h].credits, refunds[h], bare[h], mishaps')
      BY <3>1, <3>3, GoodLater DEF GoodHold
    <3> QED
      BY <3>2, <3>4 DEF GoodHold, Untouched
  <2> QED
    BY <2>1, <2>2
<1> QED
  BY <1>1, GoodIsOrderlyNext DEF HInv

\* Where a goroutine may be put.
WorkRecords == [pc : WorkPC, credits : BOOLEAN]
LEMMA WorkMoves ==
  ASSUME work \in [Holds -> WorkRecords], NEW h \in Holds, NEW pc \in WorkPC
  PROVE  /\ [work EXCEPT ![h].pc = pc] \in [Holds -> WorkRecords]
         /\ \A cr \in BOOLEAN : [work EXCEPT ![h] = [pc |-> pc, credits |-> cr]] \in [Holds -> WorkRecords]
<1>1. work[h] \in WorkRecords
  OBVIOUS
<1>2. [work[h] EXCEPT !.pc = pc] \in WorkRecords
  BY <1>1 DEF WorkRecords
<1>3. ASSUME NEW cr \in BOOLEAN PROVE [pc |-> pc, credits |-> cr] \in WorkRecords
  BY DEF WorkRecords
<1> QED
  BY <1>2, <1>3

--------------------------------------------------------------------------------
\* One lemma for each operation: the types, the other holds, and its own hold.

\* The credits are taken.
LEMMA ReserveKeeps ==
  ASSUME HInv, NEW h \in Holds, Reserve(h), UNCHANGED service
  PROVE  HInv'
<1>1. HoldTypeOK /\ GoodHold(h)
  BY GoodIsOrderly DEF HInv
<1>2. HoldTypeOK' /\ mishaps <= mishaps'
  BY <1>1 DEF HoldTypeOK, Reserve, ReqGoto, Statement, Commits, Answer, ReqPC, Answered, WorkPC,
     Pending, Outcomes
<1>3. \A k \in Holds \ {h} : Untouched(k)
  BY <1>1 DEF HoldTypeOK, Untouched, Reserve, ReqGoto, Statement, Commits, Answer
<1>4. GoodHold(h)'
  BY <1>1, <1>2 DEF HoldTypeOK, GoodHold, Good, Reserve, ReqGoto, Statement, Commits, Answer,
     ReqPC, Answered, WorkPC, Pending, Outcomes
<1> QED
  BY <1>2, <1>3, <1>4, OneHold

\* The backend answers.
LEMMA CallServiceKeeps ==
  ASSUME HInv, NEW h \in Holds, CallService(h), UNCHANGED service
  PROVE  HInv'
<1>1. HoldTypeOK /\ GoodHold(h)
  BY GoodIsOrderly DEF HInv
<1>2. HoldTypeOK' /\ mishaps <= mishaps'
  <2>1. req' \in [Holds -> ReqPC]
    <3>1. req \in [Holds -> ReqPC] /\ {"unserved", "settle", "row", "giveBack"} \subseteq ReqPC
      BY <1>1 DEF HoldTypeOK, ReqPC, Answered
    <3>2. \E pc \in {"unserved", "settle", "row", "giveBack"} : ReqGoto(h, pc)
      BY DEF CallService
    <3> QED
      BY <3>1, <3>2 DEF ReqGoto
  <2> QED
    BY <1>1, <2>1 DEF HoldTypeOK, CallService
<1>3. \A k \in Holds \ {h} : Untouched(k)
  BY <1>1 DEF HoldTypeOK, Untouched, CallService, Direct, ReqGoto
<1>4. GoodHold(h)'
  BY <1>1, <1>2 DEF HoldTypeOK, GoodHold, Good, CallService, Direct, ReqGoto, ReqPC, Answered, WorkPC,
     Pending, Outcomes
<1> QED
  BY <1>2, <1>3, <1>4, OneHold

\* Part of the reserve is returned.
LEMMA SettleReserveKeeps ==
  ASSUME HInv, NEW h \in Holds, SettleReserve(h), UNCHANGED service
  PROVE  HInv'
<1>1. HoldTypeOK /\ GoodHold(h)
  BY GoodIsOrderly DEF HInv
<1>2. HoldTypeOK' /\ mishaps <= mishaps'
  BY <1>1 DEF HoldTypeOK, SettleReserve, ReqGoto, Statement, Commits, Answer, ReqPC, Answered,
     WorkPC, Pending, Outcomes
<1>3. \A k \in Holds \ {h} : Untouched(k)
  BY <1>1 DEF HoldTypeOK, Untouched, SettleReserve, ReqGoto, Statement, Commits, Answer
<1>4. GoodHold(h)'
  BY <1>1, <1>2 DEF HoldTypeOK, GoodHold, Good, SettleReserve, ReqGoto, Statement, Commits,
     Answer, ReqPC, Answered, WorkPC, Pending, Outcomes
<1> QED
  BY <1>2, <1>3, <1>4, OneHold

\* The row is made, or the handler gives up.
LEMMA CreateRowKeeps ==
  ASSUME HInv, NEW h \in Holds, CreateRow(h), UNCHANGED service
  PROVE  HInv'
<1>1. HoldTypeOK /\ GoodHold(h)
  BY GoodIsOrderly DEF HInv
<1>2. HoldTypeOK' /\ mishaps <= mishaps'
  BY <1>1 DEF HoldTypeOK, CreateRow, ReqGoto, Statement, Commits, Answer, ReqPC, Answered,
     WorkPC, Pending, Outcomes
<1>3. \A k \in Holds \ {h} : Untouched(k)
  BY <1>1 DEF HoldTypeOK, Untouched, CreateRow, ReqGoto, Statement, Commits, Answer
<1>4. GoodHold(h)'
  <2>1. PICK a \in Answer : Statement(a) /\ 
       /\ jobStatus' = IF Commits(a) THEN [jobStatus EXCEPT ![h] = "queued"] ELSE jobStatus
       /\ ReqGoto(h, IF a = "ok" THEN "store" ELSE "giveBack")
    BY DEF CreateRow
  <2>2. /\ noted[h] \in BOOLEAN /\ work[h].credits \in BOOLEAN /\ bare[h] \in BOOLEAN
        /\ refunds[h] \in Nat /\ mishaps \in Nat
    BY <1>1 DEF HoldTypeOK
  <2>3. mishaps' = IF a = "ok" THEN mishaps ELSE mishaps + 1
    BY <2>1 DEF Statement
  <2>4. req[h] = "row" /\ UNCHANGED <<noted, work, refunds, bare>>
    BY DEF CreateRow
  <2>5. /\ req'[h] = IF a = "ok" THEN "store" ELSE "giveBack"
        /\ jobStatus'[h] = IF a = "failed" THEN jobStatus[h] ELSE "queued"
    BY <1>1, <2>1 DEF HoldTypeOK, ReqGoto, Commits
  <2>6. /\ jobStatus[h] = "none" /\ ~noted[h] /\ work[h].pc = "idle" /\ ~work[h].credits /\ refunds[h] <= mishaps
        /\ service'[h] # "unbacked"
    BY <1>1, <2>2, <2>4 DEF GoodHold, Good
  <2>7. CASE a = "ok"
    BY <2>2, <2>3, <2>4, <2>5, <2>6, <2>7 DEF GoodHold, Good
  <2>8. CASE a # "ok"
    BY <2>2, <2>3, <2>4, <2>5, <2>6, <2>8 DEF GoodHold, Good
  <2> QED
    BY <2>7, <2>8
<1> QED
  BY <1>2, <1>3, <1>4, OneHold

\* The reserve is noted in the row.
LEMMA StoreReserveKeeps ==
  ASSUME HInv, NEW h \in Holds, StoreReserve(h), UNCHANGED service
  PROVE  HInv'
<1>1. HoldTypeOK /\ GoodHold(h)
  BY GoodIsOrderly DEF HInv
<1>2. HoldTypeOK' /\ mishaps <= mishaps'
  BY <1>1 DEF HoldTypeOK, StoreReserve, ReqGoto, Statement, Commits, Answer, SetStatus, ReqPC,
     Answered, WorkPC, Pending, Outcomes
<1>3. \A k \in Holds \ {h} : Untouched(k)
  BY <1>1 DEF HoldTypeOK, Untouched, StoreReserve, ReqGoto, Statement, Commits, Answer, SetStatus
<1>4. GoodHold(h)'
  BY <1>1, <1>2 DEF HoldTypeOK, GoodHold, Good, StoreReserve, ReqGoto, Statement, Commits,
     Answer, SetStatus, ReqPC, Answered, WorkPC, Pending, Outcomes
<1> QED
  BY <1>2, <1>3, <1>4, OneHold

\* The goroutine is started, or runs already.
LEMMA LaunchHoldKeeps ==
  ASSUME HInv, NEW h \in Holds, LaunchHold(h), UNCHANGED service
  PROVE  HInv'
<1>1. HoldTypeOK /\ GoodHold(h)
  BY GoodIsOrderly DEF HInv
<1>2. HoldTypeOK' /\ mishaps <= mishaps'
  <2>1. work' \in [Holds -> WorkRecords]
    <3>1. work \in [Holds -> WorkRecords] /\ "start" \in WorkPC
      BY <1>1 DEF HoldTypeOK, WorkRecords, WorkPC
    <3>2. [work EXCEPT ![h] = [pc |-> "start", credits |-> FALSE]] \in [Holds -> WorkRecords]
      BY <3>1, WorkMoves, Zenon
    <3> QED
      BY <3>1, <3>2 DEF LaunchHold, Start, FreshWork
  <2>2. mishaps' \in 0 .. MaxMishaps /\ mishaps <= mishaps'
    BY <1>1 DEF HoldTypeOK, LaunchHold, ReqGoto, Start
  <2> QED
    BY <1>1, <2>1, <2>2 DEF HoldTypeOK, WorkRecords, LaunchHold, ReqGoto, Start, ReqPC,
       Answered, Pending, Outcomes
<1>3. \A k \in Holds \ {h} : Untouched(k)
  BY <1>1 DEF HoldTypeOK, Untouched, LaunchHold, ReqGoto, Start, FreshWork
<1>4. GoodHold(h)'
  <2>1. req[h] = "launch" /\ req'[h] = "accepted" /\ UNCHANGED <<jobStatus, noted, refunds, bare, mishaps>>
    BY <1>1 DEF HoldTypeOK, LaunchHold, ReqGoto
  <2>2. work[h].credits \in BOOLEAN /\ noted[h] \in BOOLEAN /\ bare[h] \in BOOLEAN /\ refunds[h] \in Nat /\ mishaps \in Nat
    BY <1>1 DEF HoldTypeOK
  <2>3. CASE work[h].pc = "idle"
    <3>1. work'[h] = [pc |-> "start", credits |-> FALSE]
      BY <1>1, <2>3 DEF FreshWork, HoldTypeOK, LaunchHold, Start
    <3>2. work'[h].pc = "start" /\ work'[h].credits = FALSE
      BY <3>1
    <3> QED
      BY <1>1, <2>1, <2>2, <2>3, <3>2 DEF GoodHold, Good
  <2>4. CASE work[h].pc # "idle"
    <3>1. UNCHANGED work
      BY <2>4 DEF LaunchHold, Start
    <3> QED
      BY <1>1, <2>1, <2>2, <3>1 DEF GoodHold, Good
  <2> QED
    BY <2>3, <2>4
<1> QED
  BY <1>2, <1>3, <1>4, OneHold

\* The handler returns the reserve.
LEMMA GiveBackKeeps ==
  ASSUME HInv, NEW h \in Holds, GiveBack(h), UNCHANGED service
  PROVE  HInv'
<1>1. HoldTypeOK /\ GoodHold(h)
  BY GoodIsOrderly DEF HInv
<1>2. HoldTypeOK' /\ mishaps <= mishaps'
  BY <1>1 DEF HoldTypeOK, GiveBack, ReqGoto, Statement, Commits, Answer, AddBack, ReqPC,
     Answered, WorkPC, Pending, Outcomes
<1>3. \A k \in Holds \ {h} : Untouched(k)
  BY <1>1 DEF HoldTypeOK, Untouched, GiveBack, ReqGoto, Statement, Commits, Answer, AddBack
<1>4. GoodHold(h)'
  <2>1. PICK a \in Answer : Statement(a) /\ AddBack(h, a)
    BY DEF GiveBack
  <2>2. /\ noted[h] \in BOOLEAN /\ work[h].credits \in BOOLEAN /\ bare[h] \in BOOLEAN
        /\ refunds[h] \in Nat /\ mishaps \in Nat
    BY <1>1 DEF HoldTypeOK
  <2>3. mishaps' = IF a = "ok" THEN mishaps ELSE mishaps + 1
    BY <2>1 DEF Statement
  <2>4. req[h] = "giveBack" /\ req'[h] = "failed" /\ UNCHANGED <<jobStatus, noted, work, bare>>
    BY <1>1 DEF GiveBack, ReqGoto, HoldTypeOK
  <2>5. refunds'[h] = IF a = "failed" THEN refunds[h] ELSE refunds[h] + 1
    BY <1>1, <2>1 DEF HoldTypeOK, AddBack, Commits
  <2>6. CASE a = "ok"
    BY <1>1, <2>2, <2>3, <2>4, <2>5, <2>6 DEF GoodHold, Good
  <2>7. CASE a # "ok"
    BY <1>1, <2>2, <2>3, <2>4, <2>5, <2>7 DEF GoodHold, Good
  <2> QED
    BY <2>6, <2>7
<1> QED
  BY <1>2, <1>3, <1>4, OneHold

\* A poll starts the goroutine again.
LEMMA PollHoldKeeps ==
  ASSUME HInv, NEW h \in Holds, PollHold(h), UNCHANGED service
  PROVE  HInv'
<1>1. HoldTypeOK /\ GoodHold(h)
  BY GoodIsOrderly DEF HInv
<1>2. HoldTypeOK' /\ mishaps <= mishaps'
  <2>1. work' \in [Holds -> WorkRecords]
    <3>1. work \in [Holds -> WorkRecords] /\ "start" \in WorkPC
      BY <1>1 DEF HoldTypeOK, WorkRecords, WorkPC
    <3>2. [work EXCEPT ![h] = [pc |-> "start", credits |-> FALSE]] \in [Holds -> WorkRecords]
      BY <3>1, WorkMoves, Zenon
    <3> QED
      BY <3>1, <3>2 DEF PollHold, Start, FreshWork
  <2>2. mishaps' \in 0 .. MaxMishaps /\ mishaps <= mishaps'
    BY <1>1 DEF HoldTypeOK, PollHold, Start
  <2> QED
    BY <1>1, <2>1, <2>2 DEF HoldTypeOK, WorkRecords, PollHold, Start, ReqPC, Answered, Pending,
       Outcomes
<1>3. \A k \in Holds \ {h} : Untouched(k)
  BY <1>1 DEF HoldTypeOK, Untouched, PollHold, Start, FreshWork
<1>4. GoodHold(h)'
  BY <1>1, <1>2 DEF HoldTypeOK, GoodHold, Good, PollHold, Start, FreshWork, ReqPC, Answered,
     WorkPC, Pending, Outcomes
<1> QED
  BY <1>2, <1>3, <1>4, OneHold

\* The row is cancelled.
LEMMA CancelHoldKeeps ==
  ASSUME HInv, NEW h \in Holds, CancelHold(h), UNCHANGED service
  PROVE  HInv'
<1>1. HoldTypeOK /\ GoodHold(h)
  BY GoodIsOrderly DEF HInv
<1>2. HoldTypeOK' /\ mishaps <= mishaps'
  BY <1>1 DEF HoldTypeOK, CancelHold, ReqPC, Answered, WorkPC, Pending, Outcomes
<1>3. \A k \in Holds \ {h} : Untouched(k)
  BY <1>1 DEF HoldTypeOK, Untouched, CancelHold
<1>4. GoodHold(h)'
  BY <1>1, <1>2 DEF HoldTypeOK, GoodHold, Good, CancelHold, ReqPC, Answered, WorkPC, Pending,
     Outcomes
<1> QED
  BY <1>2, <1>3, <1>4, OneHold

\* The goroutine is told.
LEMMA CancelContextKeeps ==
  ASSUME HInv, NEW h \in Holds, CancelContext(h), UNCHANGED service
  PROVE  HInv'
<1>1. HoldTypeOK /\ GoodHold(h)
  BY GoodIsOrderly DEF HInv
<1>2. HoldTypeOK' /\ mishaps <= mishaps'
  BY <1>1 DEF HoldTypeOK, CancelContext, ReqPC, Answered, WorkPC, Pending, Outcomes
<1>3. \A k \in Holds \ {h} : Untouched(k)
  BY <1>1 DEF HoldTypeOK, Untouched, CancelContext
<1>4. GoodHold(h)'
  BY <1>1, <1>2 DEF HoldTypeOK, GoodHold, Good, CancelContext, ReqPC, Answered, WorkPC, Pending,
     Outcomes
<1> QED
  BY <1>2, <1>3, <1>4, OneHold

\* The goroutine takes its copy.
LEMMA ReadRowKeeps ==
  ASSUME HInv, NEW h \in Holds, ReadRow(h), UNCHANGED service
  PROVE  HInv'
<1>1. HoldTypeOK /\ GoodHold(h)
  BY GoodIsOrderly DEF HInv
<1>2. HoldTypeOK' /\ mishaps <= mishaps'
  <2>1. work' \in [Holds -> WorkRecords]
    <3>1. work \in [Holds -> WorkRecords] /\ {"exit", "mark"} \subseteq WorkPC /\ noted[h] \in BOOLEAN
      BY <1>1 DEF HoldTypeOK, WorkRecords, WorkPC
    <3>2. [work EXCEPT ![h].pc = "exit"] \in [Holds -> WorkRecords]
      BY <3>1, WorkMoves
    <3>3. [work EXCEPT ![h] = [pc |-> "mark", credits |-> noted[h]]] \in [Holds -> WorkRecords]
      BY <3>1, WorkMoves, Zenon
    <3> QED
      BY <3>2, <3>3 DEF ReadRow, WorkGoto
  <2>2. mishaps' \in 0 .. MaxMishaps /\ mishaps <= mishaps'
    BY <1>1 DEF HoldTypeOK, ReadRow, WorkGoto, Statement
  <2> QED
    BY <1>1, <2>1, <2>2 DEF HoldTypeOK, WorkRecords, ReadRow, WorkGoto, Statement, ReqPC,
       Answered, Pending, Outcomes
<1>3. \A k \in Holds \ {h} : Untouched(k)
  BY <1>1 DEF HoldTypeOK, Untouched, ReadRow, WorkGoto, Statement
<1>4. GoodHold(h)'
  BY <1>1, <1>2 DEF HoldTypeOK, GoodHold, Good, ReadRow, WorkGoto, Statement, ReqPC, Answered,
     WorkPC, Pending, Outcomes
<1> QED
  BY <1>2, <1>3, <1>4, OneHold

\* It marks the row.
LEMMA MarkHoldKeeps ==
  ASSUME HInv, NEW h \in Holds, MarkHold(h), UNCHANGED service
  PROVE  HInv'
<1>1. HoldTypeOK /\ GoodHold(h)
  BY GoodIsOrderly DEF HInv
<1>2. HoldTypeOK' /\ mishaps <= mishaps'
  <2>1. work' \in [Holds -> WorkRecords]
    <3>1. work \in [Holds -> WorkRecords] /\ {"exit", "refund", "wait"} \subseteq WorkPC
      BY <1>1 DEF HoldTypeOK, WorkRecords, WorkPC
    <3>2. \A pc \in {"exit", "refund", "wait"} : [work EXCEPT ![h].pc = pc] \in [Holds -> WorkRecords]
      BY <3>1, WorkMoves
    <3> QED
      BY <3>2 DEF MarkHold, WorkGoto
  <2>2. mishaps' \in 0 .. MaxMishaps /\ mishaps <= mishaps'
    BY <1>1 DEF HoldTypeOK, MarkHold, WorkGoto, Statement, Commits, Answer, SetStatus
  <2> QED
    BY <1>1, <2>1, <2>2 DEF HoldTypeOK, WorkRecords, MarkHold, WorkGoto, Statement, Commits,
       Answer, SetStatus, ReqPC, Answered, Pending, Outcomes
<1>3. \A k \in Holds \ {h} : Untouched(k)
  BY <1>1 DEF HoldTypeOK, Untouched, MarkHold, WorkGoto, Statement, Commits, Answer, SetStatus
<1>4. GoodHold(h)'
  BY <1>1, <1>2 DEF HoldTypeOK, GoodHold, Good, MarkHold, WorkGoto, Statement, Commits, Answer,
     SetStatus, ReqPC, Answered, WorkPC, Pending, Outcomes
<1> QED
  BY <1>2, <1>3, <1>4, OneHold

\* It learns the outcome.
LEMMA ProviderAnswersKeeps ==
  ASSUME HInv, NEW h \in Holds, ProviderAnswers(h), UNCHANGED service
  PROVE  HInv'
<1>1. HoldTypeOK /\ GoodHold(h)
  BY GoodIsOrderly DEF HInv
<1>2. HoldTypeOK' /\ mishaps <= mishaps'
  <2>1. work' \in [Holds -> WorkRecords]
    <3>1. work \in [Holds -> WorkRecords] /\ {"exit", "finish", "refund"} \subseteq WorkPC
      BY <1>1 DEF HoldTypeOK, WorkRecords, WorkPC
    <3>2. \A pc \in {"exit", "finish", "refund"} : [work EXCEPT ![h].pc = pc] \in [Holds -> WorkRecords]
      BY <3>1, WorkMoves
    <3> QED
      BY <3>2 DEF ProviderAnswers, WorkGoto
  <2> QED
    BY <1>1, <2>1 DEF HoldTypeOK, WorkRecords, ProviderAnswers
<1>3. \A k \in Holds \ {h} : Untouched(k)
  BY <1>1 DEF HoldTypeOK, Untouched, ProviderAnswers, WorkGoto
<1>4. GoodHold(h)'
  BY <1>1, <1>2 DEF HoldTypeOK, GoodHold, Good, ProviderAnswers, WorkGoto, ReqPC, Answered,
     WorkPC, Pending, Outcomes
<1> QED
  BY <1>2, <1>3, <1>4, OneHold

\* It stores a result.
LEMMA FinishHoldKeeps ==
  ASSUME HInv, NEW h \in Holds, FinishHold(h), UNCHANGED service
  PROVE  HInv'
<1>1. HoldTypeOK /\ GoodHold(h)
  BY GoodIsOrderly DEF HInv
<1>2. HoldTypeOK' /\ mishaps <= mishaps'
  BY <1>1 DEF HoldTypeOK, FinishHold, WorkGoto, Statement, Commits, Answer, SetStatus, ReqPC,
     Answered, WorkPC, Pending, Outcomes
<1>3. \A k \in Holds \ {h} : Untouched(k)
  BY <1>1 DEF HoldTypeOK, Untouched, FinishHold, WorkGoto, Statement, Commits, Answer, SetStatus
<1>4. GoodHold(h)'
  BY <1>1, <1>2 DEF HoldTypeOK, GoodHold, Good, FinishHold, WorkGoto, Statement, Commits,
     Answer, SetStatus, ReqPC, Answered, WorkPC, Pending, Outcomes
<1> QED
  BY <1>2, <1>3, <1>4, OneHold

\* It looks for a cancellation.
LEMMA CheckCancelledKeeps ==
  ASSUME HInv, NEW h \in Holds, CheckCancelled(h), UNCHANGED service
  PROVE  HInv'
<1>1. HoldTypeOK /\ GoodHold(h)
  BY GoodIsOrderly DEF HInv
<1>2. HoldTypeOK' /\ mishaps <= mishaps'
  <2>1. work' \in [Holds -> WorkRecords]
    <3>1. work \in [Holds -> WorkRecords] /\ {"exit", "credit", "fail"} \subseteq WorkPC
      BY <1>1 DEF HoldTypeOK, WorkRecords, WorkPC
    <3>2. \A pc \in {"exit", "credit", "fail"} : [work EXCEPT ![h].pc = pc] \in [Holds -> WorkRecords]
      BY <3>1, WorkMoves
    <3> QED
      BY <3>2 DEF CheckCancelled, WorkGoto
  <2>2. mishaps' \in 0 .. MaxMishaps /\ mishaps <= mishaps'
    BY <1>1 DEF HoldTypeOK, CheckCancelled, Statement
  <2> QED
    BY <1>1, <2>1, <2>2 DEF HoldTypeOK, WorkRecords, CheckCancelled
<1>3. \A k \in Holds \ {h} : Untouched(k)
  BY <1>1 DEF HoldTypeOK, Untouched, CheckCancelled, WorkGoto, Statement
<1>4. GoodHold(h)'
  BY <1>1, <1>2 DEF HoldTypeOK, GoodHold, Good, CheckCancelled, WorkGoto, Statement, ReqPC,
     Answered, WorkPC, Pending, Outcomes
<1> QED
  BY <1>2, <1>3, <1>4, OneHold

\* It returns the reserve.
LEMMA RefundHoldKeeps ==
  ASSUME HInv, NEW h \in Holds, RefundHold(h), UNCHANGED service
  PROVE  HInv'
<1>1. HoldTypeOK /\ GoodHold(h)
  BY GoodIsOrderly DEF HInv
<1>2. HoldTypeOK' /\ mishaps <= mishaps'
  BY <1>1 DEF HoldTypeOK, RefundHold, WorkGoto, Statement, Commits, Answer, AddBack, ReqPC,
     Answered, WorkPC, Pending, Outcomes
<1>3. \A k \in Holds \ {h} : Untouched(k)
  BY <1>1 DEF HoldTypeOK, Untouched, RefundHold, WorkGoto, Statement, Commits, Answer, AddBack
<1>4. GoodHold(h)'
  BY <1>1, <1>2 DEF HoldTypeOK, GoodHold, Good, RefundHold, WorkGoto, Statement, Commits,
     Answer, AddBack, ReqPC, Answered, WorkPC, Pending, Outcomes
<1> QED
  BY <1>2, <1>3, <1>4, OneHold

\* It marks the row failed.
LEMMA FailHoldKeeps ==
  ASSUME HInv, NEW h \in Holds, FailHold(h), UNCHANGED service
  PROVE  HInv'
<1>1. HoldTypeOK /\ GoodHold(h)
  BY GoodIsOrderly DEF HInv
<1>2. HoldTypeOK' /\ mishaps <= mishaps'
  BY <1>1 DEF HoldTypeOK, FailHold, WorkGoto, Statement, Commits, Answer, SetStatus, ReqPC,
     Answered, WorkPC, Pending, Outcomes
<1>3. \A k \in Holds \ {h} : Untouched(k)
  BY <1>1 DEF HoldTypeOK, Untouched, FailHold, WorkGoto, Statement, Commits, Answer, SetStatus
<1>4. GoodHold(h)'
  BY <1>1, <1>2 DEF HoldTypeOK, GoodHold, Good, FailHold, WorkGoto, Statement, Commits, Answer,
     SetStatus, ReqPC, Answered, WorkPC, Pending, Outcomes
<1> QED
  BY <1>2, <1>3, <1>4, OneHold

\* It ends.
LEMMA ExitHoldKeeps ==
  ASSUME HInv, NEW h \in Holds, ExitHold(h), UNCHANGED service
  PROVE  HInv'
<1>1. HoldTypeOK /\ GoodHold(h)
  BY GoodIsOrderly DEF HInv
<1>2. HoldTypeOK' /\ mishaps <= mishaps'
  BY <1>1 DEF HoldTypeOK, ExitHold, IdleWork, ReqPC, Answered, WorkPC, Pending, Outcomes
<1>3. \A k \in Holds \ {h} : Untouched(k)
  BY <1>1 DEF HoldTypeOK, Untouched, ExitHold, IdleWork
<1>4. GoodHold(h)'
  BY <1>1, <1>2 DEF HoldTypeOK, GoodHold, Good, ExitHold, IdleWork, ReqPC, Answered, WorkPC,
     Pending, Outcomes
<1> QED
  BY <1>2, <1>3, <1>4, OneHold

\* After a restart the next goroutine may refund again: one mishap more.
LEMMA RestartHoldsKeeps ==
  ASSUME HInv, RestartHolds, UNCHANGED service
  PROVE  HInv'
<1>1. HoldTypeOK /\ \A h \in Holds : GoodHold(h)
  BY GoodIsOrderly DEF HInv
<1>2. HoldTypeOK'
  BY <1>1 DEF HoldTypeOK, RestartHolds, IdleWork, ReqPC, Answered, WorkPC, Pending, Outcomes
<1>3. ASSUME NEW h \in Holds PROVE GoodHold(h)'
  <2>1. /\ req'[h] \in {req[h], "gone"} /\ (req'[h] = req[h] => req[h] \in Answered \cup {"idle"})
        /\ work'[h].pc = "idle" /\ work'[h].credits = FALSE
        /\ mishaps' = mishaps + 1 /\ UNCHANGED <<jobStatus, noted, refunds, bare>>
    BY <1>1 DEF HoldTypeOK, RestartHolds, IdleWork, Answered
  <2>2. /\ noted[h] \in BOOLEAN /\ work[h].credits \in BOOLEAN /\ bare[h] \in BOOLEAN
        /\ refunds[h] \in Nat /\ mishaps \in Nat
    BY <1>1 DEF HoldTypeOK
  <2> QED
    BY <1>1, <2>1, <2>2 DEF GoodHold, Good, Answered
<1> QED
  BY <1>2, <1>3, GoodIsOrderlyNext DEF HInv

\* Nothing has been asked for.
LEMMA InitIsGood ==
  ASSUME HoldInit
  PROVE  HInv
<1>1. HoldTypeOK
  BY DEF HoldInit, HoldTypeOK, IdleWork, ReqPC, Answered, WorkPC, Pending, Outcomes
<1>2. ASSUME NEW h \in Holds PROVE GoodHold(h)
  BY DEF HoldInit, GoodHold, Good, IdleWork
<1> QED
  BY <1>1, <1>2, GoodIsOrderly DEF HInv

\* Every step of every hold.
LEMMA StepKeeps ==
  ASSUME HInv, [HoldNext]_holdVars
  PROVE  HInv'
<1>1. ASSUME NEW h \in Holds, HoldStep(h), UNCHANGED service PROVE HInv'
  <2>1. CASE RequestStep(h)
    BY <1>1, <2>1, CallServiceKeeps, SettleReserveKeeps, CreateRowKeeps, StoreReserveKeeps,
       LaunchHoldKeeps, GiveBackKeeps DEF RequestStep
  <2>2. CASE WorkStep(h)
    BY <1>1, <2>2, ReadRowKeeps, MarkHoldKeeps, ProviderAnswersKeeps, FinishHoldKeeps,
       CheckCancelledKeeps, RefundHoldKeeps, FailHoldKeeps, ExitHoldKeeps DEF WorkStep
  <2> QED
    BY <1>1, <2>1, <2>2, ReserveKeeps, PollHoldKeeps, CancelHoldKeeps, CancelContextKeeps DEF
       HoldStep
<1>2. CASE UNCHANGED holdVars
  BY <1>2 DEF holdVars, HInv, HoldTypeOK, HoldPlaced, RefundsLeft, MayGiveBack, MayRefund, Orderly
<1> QED
  BY <1>1, <1>2, RestartHoldsKeeps DEF HoldNext

--------------------------------------------------------------------------------
\* Where handlers and goroutines stand, and how many of them may still give a
\* reserve back, is as HInv says in every state: for any requests, prices and
\* number of failing statements (services.go, studio.go).
THEOREM HoldInvariant == HoldSpec => []HInv
<1>1. HoldInit => HInv
  BY InitIsGood
<1>2. HInv /\ [HoldNext]_holdVars => HInv'
  BY StepKeeps
<1> QED
  BY <1>1, <1>2, PTL DEF HoldSpec

LEMMA Refunded ==
    ASSUME HInv PROVE RefundsFollowOutcome
<1>1. HoldTypeOK /\ \A h \in Holds : GoodHold(h)
  BY GoodIsOrderly DEF HInv
<1>2. ASSUME NEW h \in Holds
      PROVE  /\ refunds[h] <= 1 + mishaps
             /\ mishaps = 0 /\ ~bare[h] =>
                  /\ req[h] = "failed" \/ jobStatus[h] = "failed" => refunds[h] = 1
                  /\ req[h] = "served" \/ jobStatus[h] = "completed" => refunds[h] = 0
             /\ req[h] = "unserved" => service[h] = "unbacked"
             /\ service[h] = "unbacked" => refunds[h] = 0
  <2>1. noted[h] \in BOOLEAN /\ bare[h] \in BOOLEAN /\ refunds[h] \in Nat /\ mishaps \in Nat
    BY <1>1 DEF HoldTypeOK
  <2> QED
    BY <1>1, <2>1 DEF GoodHold, Good
<1> QED
  BY <1>2 DEF RefundsFollowOutcome, RefundedOnce, FailedIsRefunded

\* A reserve is given back at most once, and once more for each statement that
\* failed or restart; without these, what failed is refunded and what was
\* delivered is not, except that the credits of a request for a service without a
\* backend never come back (studio.go:1014, services.go:881, services.go:913).
THEOREM RefundsAreInOrder == HoldSpec => []RefundsFollowOutcome
<1> QED
  BY Refunded, HoldInvariant, PTL

(* ------------------------------------------------------------ the H3 scale -- *)

USE CallerAssumption, ScaleLimits

Locked == {"max", "set", "run", "reassert", "again"}

\* The types in four parts.
CallerTypes == caller \in [Callers -> [pc : CallerPC, retry : BOOLEAN]]
ReaperTypes == reaper \in [pc : ReaperPC, gen : Nat, idle : BOOLEAN]
FlagTypes ==
  /\ awake \in BOOLEAN /\ running \in BOOLEAN
  /\ late \in BOOLEAN /\ paused \in BOOLEAN /\ unreaped \in BOOLEAN
OtherTypes ==
  /\ job \in [Callers -> {"none", "queued", "running", "over"}]
  /\ known \in {"none", "zero", "full"}
  /\ lock \in Callers \cup {"reaper", Nobody}
  /\ generation \in Nat
  /\ troubles \in 0 .. MaxTroubles

\* The invariant in parts.
LEMMA PartsOfInvariant ==
  /\ SInv <=> /\ CallerTypes /\ ReaperTypes /\ FlagTypes /\ OtherTypes
              /\ \A c \in Callers : caller[c].pc \in Locked <=> lock = c
              /\ reaper.pc \in {"look", "zero"} <=> lock = "reaper"
              /\ running <=> reaper.pc # "idle"
              /\ reaper.pc = "zero" => \A c \in Callers : job[c] \notin {"queued", "running"}
              /\ \A c \in Callers : job[c] = "queued" => awake \/ paused
  /\ SInv' <=> /\ CallerTypes' /\ ReaperTypes' /\ FlagTypes' /\ OtherTypes'
               /\ \A c \in Callers : caller'[c].pc \in Locked <=> lock' = c
               /\ reaper'.pc \in {"look", "zero"} <=> lock' = "reaper"
               /\ running' <=> reaper'.pc # "idle"
               /\ reaper'.pc = "zero" => \A c \in Callers : job'[c] \notin {"queued", "running"}
               /\ \A c \in Callers : job'[c] = "queued" => awake' \/ paused'
  BY DEF SInv, ScaleTypeOK, CallerTypes, ReaperTypes, FlagTypes, OtherTypes, LockHeld, ReaperRegistered,
         LookHolds, Busy,
         NoJobStranded, Locked

\* A submission goes on and the others stay where they are.
LEMMA CallerMoves ==
  ASSUME CallerTypes, NEW c \in Callers, NEW pc \in CallerPC, CallerGoto(c, pc)
  PROVE  /\ CallerTypes' /\ caller'[c].pc = pc /\ caller'[c].retry = caller[c].retry
         /\ \A d \in Callers \ {c} : caller'[d] = caller[d]
  BY DEF CallerTypes, CallerGoto

\* The reaper goes on.
LEMMA ReaperMoves ==
  ASSUME ReaperTypes, NEW pc \in ReaperPC, ReaperGoto(pc)
  PROVE  ReaperTypes' /\ reaper'.pc = pc /\ reaper'.gen = reaper.gen
  BY DEF ReaperTypes, ReaperGoto

\* An endpoint at rest satisfies the invariant.
LEMMA ScaleStarts == ScaleInit => SInv
<1> SUFFICES ASSUME ScaleInit PROVE SInv
  OBVIOUS
<1>1. CallerTypes /\ ReaperTypes
  BY DEF ScaleInit, CallerTypes, ReaperTypes, IdleReaper, CallerPC, ReaperPC
<1>2. FlagTypes /\ OtherTypes
  <2>1. FlagTypes
    BY DEF ScaleInit, FlagTypes
  <2>2. OtherTypes
    BY DEF ScaleInit, OtherTypes
  <2> QED
    BY <2>1, <2>2
<1>3. /\ \A c \in Callers : caller[c].pc = "idle" /\ job[c] = "none"
      /\ reaper.pc = "idle" /\ lock = Nobody /\ ~running
  BY DEF ScaleInit, IdleReaper
<1> QED
  BY <1>1, <1>2, <1>3, PartsOfInvariant DEF Locked

\* The flags stay flags.
LEMMA FlagsStay ==
  ASSUME FlagTypes, ScaleNext
  PROVE  FlagTypes'
<1> USE DEF FlagTypes, runpod, sched
<1>1. ASSUME NEW c \in Callers, LockForSubmit(c) \/ CurrentWorkersMax(c) \/ JobStarts(c) \/ JobEnds(c)
      PROVE  FlagTypes'
  BY <1>1, Zenon DEF LockForSubmit, CurrentWorkersMax, JobStarts, JobEnds
<1>2. ASSUME NEW c \in Callers, RaiseWorkersMax(c)
      PROVE  FlagTypes'
  BY <1>2, Zenon DEF RaiseWorkersMax, SetAnswered, SetFailed
<1>3. ASSUME NEW c \in Callers, PostRun(c)
      PROVE  FlagTypes'
  <2>1. unreaped' \in BOOLEAN
    BY <1>3, Zenon DEF PostRun
  <2> QED
    BY <1>3, <2>1, Zenon DEF PostRun
<1>4. ASSUME NEW c \in Callers, Schedule(c)
      PROVE  FlagTypes'
  <2>1. running' \in BOOLEAN /\ late' \in BOOLEAN
    BY <1>4, Zenon DEF Schedule
  <2> QED
    BY <1>4, <2>1, Zenon DEF Schedule
<1>5. CASE ReaperStep
  <2>1. Finish => running' \in BOOLEAN
    BY Zenon DEF Finish
  <2>2. CASE ReaperTop \/ Drain \/ Finish
    BY <2>1, <2>2, Zenon DEF ReaperTop, Drain, Finish
  <2>3. CASE Look \/ ScaleToZero
    BY <2>3, Zenon DEF Look, ScaleToZero, SetAnswered, SetFailed
  <2> QED
    BY <1>5, <2>2, <2>3 DEF ReaperStep
<1>6. CASE KnownExpires \/ PausedElsewhere \/ SixtyFiveMinutes \/ RestartScale
  BY <1>6, Zenon DEF KnownExpires, PausedElsewhere, SixtyFiveMinutes, RestartScale
<1> QED
  BY <1>1, <1>2, <1>3, <1>4, <1>5, <1>6 DEF ScaleNext, SubmitStep

--------------------------------------------------------------------------------
\* Submissions

\* Taking the lock: it was free, so nobody was between the lock and its release.
LEMMA LockingKeeps ==
  ASSUME SInv, FlagTypes', NEW c \in Callers, LockForSubmit(c)
  PROVE  SInv'
<1> USE DEF LockForSubmit, runpod, sched
<1>1. PICK retry \in BOOLEAN : caller' = [caller EXCEPT ![c] = [pc |-> "max", retry |-> retry]]
  OBVIOUS
<1>2. CallerTypes' /\ caller'[c].pc = "max" /\ \A d \in Callers \ {c} : caller'[d] = caller[d]
  BY <1>1, PartsOfInvariant DEF CallerTypes, CallerPC
<1>3. ReaperTypes' /\ OtherTypes'
  BY PartsOfInvariant DEF ReaperTypes, OtherTypes
<1> QED
  BY <1>2, <1>3, PartsOfInvariant DEF Locked

\* A submission that holds the lock goes on, or ends and releases it.
LEMMA UnderTheLock ==
  ASSUME SInv, FlagTypes', NEW c \in Callers, lock = c, NEW pc \in CallerPC, CallerGoto(c, pc),
         lock' = IF pc \in Locked THEN c ELSE Nobody, reaper' = reaper, OtherTypes',
         \A d \in Callers : job'[d] = "queued" => job[d] = "queued" \/ awake',
         awake => awake', paused' = paused, running' = running
  PROVE  SInv'
<1>1. /\ CallerTypes' /\ caller'[c].pc = pc
      /\ \A d \in Callers \ {c} : caller'[d] = caller[d]
  BY CallerMoves, PartsOfInvariant
<1>2. ReaperTypes' /\ reaper.pc \notin {"look", "zero"}
  BY PartsOfInvariant DEF ReaperTypes
<1>3. \A d \in Callers \ {c} : caller'[d].pc \notin Locked /\ lock' # d
  BY <1>1, PartsOfInvariant
<1>4. \A d \in Callers : job'[d] = "queued" => awake' \/ paused'
  BY PartsOfInvariant
<1> QED
  BY <1>1, <1>2, <1>3, <1>4, PartsOfInvariant

\* What the endpoint is set to is looked up.
LEMMA LookingUpKeeps ==
  ASSUME SInv, FlagTypes', NEW c \in Callers, CurrentWorkersMax(c)
  PROVE  SInv'
<1> USE DEF CurrentWorkersMax, Trouble
<1>1. lock = c
  BY PartsOfInvariant DEF Locked
<1>2. OtherTypes'
  BY PartsOfInvariant, <1>1 DEF OtherTypes, sched
<1>3. reaper' = reaper /\ job' = job /\ awake' = awake /\ paused' = paused /\ running' = running
  BY DEF sched
<1>4. \/ CallerGoto(c, "run") /\ lock' = lock
      \/ CallerGoto(c, "set") /\ lock' = lock
      \/ CallerGoto(c, "over") /\ lock' = Nobody
  OBVIOUS
<1>5. \E pc \in CallerPC : CallerGoto(c, pc) /\ lock' = IF pc \in Locked THEN c ELSE Nobody
  BY <1>1, <1>4 DEF CallerPC, Locked
<1>6. running' = running
  BY DEF sched
<1>7. PICK pc \in CallerPC : CallerGoto(c, pc) /\ lock' = IF pc \in Locked THEN c ELSE Nobody
  BY <1>5
<1>10. \A d \in Callers : job'[d] = "queued" => job[d] = "queued" \/ awake'
  BY <1>3
<1> QED
  BY <1>1, <1>2, <1>3, <1>6, <1>7, <1>10, UnderTheLock

\* Raising workersMax, whatever the answer is, strands no job.
LEMMA RaisingKeeps ==
  ASSUME SInv, FlagTypes', NEW c \in Callers, RaiseWorkersMax(c)
  PROVE  SInv'
<1> USE DEF RaiseWorkersMax, SetAnswered, SetFailed
<1>1. lock = c
  BY PartsOfInvariant DEF Locked
<1>2. awake => awake'
  BY PartsOfInvariant DEF OtherTypes
<1>3. OtherTypes'
  <2>1. known' \in {"none", "full"} /\ lock' \in {c, Nobody}
    BY <1>1, Zenon
  <2>2. troubles' = troubles \/ Trouble
    OBVIOUS
  <2>3. troubles' \in 0 .. MaxTroubles
    BY <2>2, PartsOfInvariant DEF OtherTypes, Trouble
  <2> QED
    BY <2>1, <2>3, PartsOfInvariant DEF OtherTypes, sched
<1>4. reaper' = reaper /\ job' = job /\ paused' = paused /\ running' = running
  BY DEF sched
<1>5. \/ CallerGoto(c, "run") /\ lock' = lock
      \/ CallerGoto(c, "again") /\ lock' = lock
      \/ CallerGoto(c, "over") /\ lock' = Nobody
  OBVIOUS
<1>6. \E pc \in CallerPC : CallerGoto(c, pc) /\ lock' = IF pc \in Locked THEN c ELSE Nobody
  BY <1>1, <1>5 DEF CallerPC, Locked
<1>7. PICK pc \in CallerPC : CallerGoto(c, pc) /\ lock' = IF pc \in Locked THEN c ELSE Nobody
  BY <1>6
<1>10. \A d \in Callers : job'[d] = "queued" => job[d] = "queued" \/ awake'
  BY <1>4
<1> QED
  BY <1>1, <1>2, <1>3, <1>4, <1>7, <1>10, UnderTheLock

\* Posting the job: it is only accepted while the endpoint is active.
LEMMA PostingKeeps ==
  ASSUME SInv, FlagTypes', NEW c \in Callers, PostRun(c)
  PROVE  SInv'
<1> USE DEF PostRun
<1>1. lock = c
  BY PartsOfInvariant DEF Locked
<1>2. \/ UNCHANGED job
      \/ awake /\ job' = [job EXCEPT ![c] = "queued"]
  <2>1. CASE Trouble
    BY Zenon
  <2>2. CASE ~Trouble
    BY <2>2
  <2> QED
    BY <2>1, <2>2
<1>3. troubles' \in 0 .. MaxTroubles
  <2>1. troubles' = troubles \/ Trouble
    OBVIOUS
  <2> QED
    BY <2>1, PartsOfInvariant DEF OtherTypes, Trouble
<1>4. OtherTypes'
  BY PartsOfInvariant, <1>1, <1>2, <1>3 DEF OtherTypes, sched
<1>5. \A d \in Callers : job'[d] = "queued" => job[d] = "queued" \/ awake'
  BY <1>2, PartsOfInvariant DEF OtherTypes
<1>6. reaper' = reaper /\ awake' = awake /\ paused' = paused /\ running' = running
  BY DEF sched
<1>7. \/ CallerGoto(c, "over") /\ lock' = Nobody
      \/ CallerGoto(c, "schedule") /\ lock' = Nobody
      \/ CallerGoto(c, "reassert") /\ lock' = lock
  OBVIOUS
<1>8. \E pc \in CallerPC : CallerGoto(c, pc) /\ lock' = IF pc \in Locked THEN c ELSE Nobody
  BY <1>1, <1>7 DEF CallerPC, Locked
<1>9. PICK pc \in CallerPC : CallerGoto(c, pc) /\ lock' = IF pc \in Locked THEN c ELSE Nobody
  BY <1>8
<1>10. \A d \in Callers : job'[d] = "queued" => job[d] = "queued" \/ awake'
  BY <1>5
<1> QED
  BY <1>1, <1>4, <1>5, <1>6, <1>9, <1>10, UnderTheLock

\* Scheduling starts a reaper where there is none; both are outside the lock.
LEMMA SchedulingKeeps ==
  ASSUME SInv, FlagTypes', NEW c \in Callers, Schedule(c)
  PROVE  SInv'
<1> USE DEF Schedule
<1>1. /\ CallerTypes' /\ caller'[c].pc = "over"
      /\ \A d \in Callers \ {c} : caller'[d] = caller[d]
  BY CallerMoves, PartsOfInvariant DEF CallerPC
<1>2. OtherTypes'
  BY PartsOfInvariant DEF OtherTypes, runpod
<1>3. job' = job /\ awake' = awake /\ paused' = paused /\ lock' = lock
  BY DEF runpod
<1>4. lock # c
  BY PartsOfInvariant DEF Locked
<1>5. CASE running
  BY <1>1, <1>2, <1>3, <1>4, <1>5, PartsOfInvariant DEF Locked, ReaperTypes
<1>6. CASE ~running
  <2>0. reaper' = [pc |-> "top", gen |-> generation + 1, idle |-> FALSE] /\ generation \in Nat
    BY <1>6, PartsOfInvariant DEF IdleReaper, OtherTypes
  <2>1. ReaperTypes' /\ reaper'.pc = "top"
    BY <2>0 DEF ReaperTypes, ReaperPC
  <2>2. lock # "reaper"
    BY <1>6, PartsOfInvariant
  <2> QED
    BY <1>1, <1>2, <1>3, <1>4, <2>1, <2>2, PartsOfInvariant DEF Locked
<1> QED
  BY <1>5, <1>6

--------------------------------------------------------------------------------
\* The reaper

\* A step of the reaper that leaves the endpoint and the jobs alone.
LEMMA ReaperStepsAside ==
  ASSUME SInv, FlagTypes', caller' = caller, job' = job, awake' = awake, paused' = paused,
         ReaperTypes', OtherTypes',
         running' <=> reaper'.pc # "idle",
         \/ lock' = lock /\ lock # "reaper" /\ reaper'.pc \notin {"look", "zero"}
         \/ lock' = Nobody /\ lock \in {"reaper", Nobody} /\ reaper'.pc \notin {"look", "zero"}
         \/ lock' = "reaper" /\ lock \in {"reaper", Nobody} /\ reaper'.pc = "look"
         \/ /\ lock' = "reaper" /\ lock = "reaper" /\ reaper'.pc = "zero"
            /\ \A c \in Callers : job[c] \notin {"queued", "running"}
  PROVE  SInv'
<1>1. CallerTypes' /\ \A c \in Callers : job'[c] = "queued" => awake' \/ paused'
  BY PartsOfInvariant DEF CallerTypes
<1>2. \A c \in Callers : caller'[c].pc \in Locked <=> lock' = c
  BY PartsOfInvariant
<1> QED
  BY <1>1, <1>2, PartsOfInvariant

\* The reaper starts a round: a newer generation, its end, or the lock.
LEMMA TopKeeps ==
  ASSUME SInv, FlagTypes', ReaperTop
  PROVE  SInv'
<1> USE DEF ReaperTop
<1>1. /\ caller' = caller /\ job' = job /\ awake' = awake /\ paused' = paused
      /\ known' = known /\ generation' = generation /\ unreaped' = unreaped /\ troubles' = troubles
      /\ lock # "reaper" /\ running /\ running' = running
  BY PartsOfInvariant DEF runpod, sched
<1>2. CASE generation # reaper.gen
  <2>1. reaper' = [reaper EXCEPT !.gen = generation, !.idle = FALSE] /\ late' = FALSE
        /\ lock' = lock /\ running' = running
    BY <1>1, <1>2
  <2>2. ReaperTypes' /\ reaper'.pc = "top"
    BY <2>1, PartsOfInvariant DEF ReaperTypes, OtherTypes
  <2>3. OtherTypes'
    BY <1>1, <2>1, PartsOfInvariant DEF OtherTypes
  <2> QED
    BY <1>1, <2>1, <2>2, <2>3, ReaperStepsAside
<1>3. CASE ReaperGoto("leave") /\ UNCHANGED <<late, lock>>
  <2>1. ReaperTypes' /\ reaper'.pc = "leave"
    BY <1>3, ReaperMoves, PartsOfInvariant DEF ReaperPC
  <2>2. OtherTypes'
    BY <1>1, <1>3, PartsOfInvariant DEF OtherTypes
  <2> QED
    BY <1>1, <1>3, <2>1, <2>2, ReaperStepsAside
<1>4. CASE lock = Nobody /\ lock' = "reaper" /\ ReaperGoto("look") /\ UNCHANGED late
  <2>1. ReaperTypes' /\ reaper'.pc = "look"
    BY <1>4, ReaperMoves, PartsOfInvariant DEF ReaperPC
  <2>2. OtherTypes'
    BY <1>1, <1>4, PartsOfInvariant DEF OtherTypes
  <2> QED
    BY <1>1, <1>4, <2>1, <2>2, ReaperStepsAside
<1> QED
  BY <1>2, <1>3, <1>4

\* The look at the queue: only an idle endpoint is put to zero next.
LEMMA LookKeeps ==
  ASSUME SInv, FlagTypes', Look
  PROVE  SInv'
<1> USE DEF Look
<1>1. /\ caller' = caller /\ job' = job /\ awake' = awake /\ paused' = paused /\ late' = late
      /\ known' = known /\ generation' = generation /\ running' = running /\ unreaped' = unreaped
      /\ lock = "reaper" /\ running
  BY PartsOfInvariant DEF runpod, sched
<1>2. troubles' \in 0 .. MaxTroubles
  BY PartsOfInvariant DEF OtherTypes, Trouble
<1>3. Busy \in BOOLEAN
  BY DEF Busy
<1>4. CASE lock' = Nobody /\ \E b \in BOOLEAN : reaper' = [reaper EXCEPT !.pc = "top", !.idle = b]
  <2>1. ReaperTypes' /\ reaper'.pc = "top"
    BY <1>4, PartsOfInvariant DEF ReaperTypes, ReaperPC
  <2>2. OtherTypes'
    BY <1>1, <1>2, <1>4, PartsOfInvariant DEF OtherTypes
  <2> QED
    BY <1>1, <1>4, <2>1, <2>2, ReaperStepsAside
<1>5. CASE ~Busy /\ reaper' = [reaper EXCEPT !.pc = "zero", !.idle = TRUE] /\ lock' = lock
  <2>1. ReaperTypes' /\ reaper'.pc = "zero"
    BY <1>5, PartsOfInvariant DEF ReaperTypes, ReaperPC
  <2>2. OtherTypes'
    BY <1>1, <1>2, <1>5, PartsOfInvariant DEF OtherTypes
  <2>3. \A c \in Callers : job[c] \notin {"queued", "running"}
    BY <1>5 DEF Busy
  <2> QED
    BY <1>1, <1>5, <2>1, <2>2, <2>3, ReaperStepsAside
<1> QED
  BY <1>3, <1>4, <1>5

\* The one step that puts the endpoint to zero.
LEMMA ZeroingKeeps ==
  ASSUME SInv, FlagTypes', ScaleToZero
  PROVE  SInv'
<1> USE DEF ScaleToZero, SetAnswered, SetFailed
<1>1. /\ caller' = caller /\ job' = job /\ paused' = paused /\ running' = running
      /\ lock = "reaper" /\ lock' = Nobody
      /\ \A c \in Callers : job[c] \notin {"queued", "running"}
  BY PartsOfInvariant DEF sched
<1>2. OtherTypes'
  <2>1. known' \in {"none", "zero"}
    BY Zenon
  <2>2. troubles' = troubles \/ Trouble
    OBVIOUS
  <2>3. troubles' \in 0 .. MaxTroubles
    BY <2>2, PartsOfInvariant DEF OtherTypes, Trouble
  <2> QED
    BY <1>1, <2>1, <2>3, PartsOfInvariant DEF OtherTypes, sched
<1>3. ReaperTypes' /\ reaper'.pc \in {"drain", "top"}
  BY ReaperMoves, PartsOfInvariant DEF ReaperPC
<1>4. CallerTypes' /\ \A c \in Callers : caller'[c].pc \in Locked <=> lock' = c
  BY <1>1, PartsOfInvariant DEF CallerTypes
<1> QED
  BY <1>1, <1>2, <1>3, <1>4, PartsOfInvariant

\* The reaper waits for the endpoint to drain.
LEMMA DrainKeeps ==
  ASSUME SInv, FlagTypes', Drain
  PROVE  SInv'
<1> USE DEF Drain
<1>1. /\ caller' = caller /\ job' = job /\ awake' = awake /\ paused' = paused /\ late' = late
      /\ known' = known /\ generation' = generation /\ unreaped' = unreaped /\ lock' = lock
      /\ troubles' = troubles /\ lock # "reaper" /\ running /\ running' = running
  BY PartsOfInvariant DEF runpod, sched
<1>2. PICK pc \in {"top", "leave"} : ReaperGoto(pc)
  OBVIOUS
<1>3. ReaperTypes' /\ reaper'.pc = pc
  BY <1>2, ReaperMoves, PartsOfInvariant DEF ReaperPC
<1>4. OtherTypes'
  BY <1>1, PartsOfInvariant DEF OtherTypes
<1> QED
  BY <1>1, <1>2, <1>3, <1>4, ReaperStepsAside

\* The reaper ends only without a newer generation; it stays outside the lock.
LEMMA FinishKeeps ==
  ASSUME SInv, FlagTypes', Finish
  PROVE  SInv'
<1> USE DEF Finish
<1>1. /\ caller' = caller /\ job' = job /\ awake' = awake /\ paused' = paused /\ late' = late
      /\ known' = known /\ generation' = generation /\ unreaped' = unreaped /\ lock' = lock
      /\ troubles' = troubles /\ lock # "reaper" /\ running
  BY PartsOfInvariant DEF runpod
<1>2. CASE running' = FALSE /\ reaper' = IdleReaper
  <2>1. ReaperTypes' /\ reaper'.pc = "idle"
    BY <1>2 DEF IdleReaper, ReaperTypes, ReaperPC
  <2>2. OtherTypes'
    BY <1>1, <1>2, PartsOfInvariant DEF OtherTypes
  <2> QED
    BY <1>1, <1>2, <2>1, <2>2, ReaperStepsAside
<1>3. CASE ReaperGoto("top") /\ running' = running
  <2>1. ReaperTypes' /\ reaper'.pc = "top"
    BY <1>3, ReaperMoves, PartsOfInvariant DEF ReaperPC
  <2>2. OtherTypes'
    BY <1>1, <1>3, PartsOfInvariant DEF OtherTypes
  <2> QED
    BY <1>1, <1>3, <2>1, <2>2, ReaperStepsAside
<1> QED
  BY <1>2, <1>3

--------------------------------------------------------------------------------
\* RunPod, the clock and restarts

\* RunPod starts and ends jobs.
LEMMA JobsKeep ==
  ASSUME SInv, FlagTypes', NEW c \in Callers, JobStarts(c) \/ JobEnds(c)
  PROVE  SInv'
<1> USE DEF JobStarts, JobEnds
<1>1. /\ \E st \in {"running", "over"} : job' = [job EXCEPT ![c] = st]
      /\ job[c] \in {"queued", "running"}
      /\ UNCHANGED <<awake, known, lock, caller, sched, reaper, late, paused, unreaped, troubles>>
  OBVIOUS
<1>2. CallerTypes' /\ ReaperTypes' /\ OtherTypes'
  BY <1>1, PartsOfInvariant DEF CallerTypes, ReaperTypes, OtherTypes, sched
<1>3. reaper.pc # "zero" /\ \A d \in Callers : job'[d] = "queued" => job[d] = "queued"
  BY <1>1, PartsOfInvariant DEF OtherTypes
<1> QED
  BY <1>1, <1>2, <1>3, PartsOfInvariant DEF sched

\* Time passes, and somebody else pauses the endpoint.
LEMMA SurroundingsKeep ==
  ASSUME SInv, FlagTypes', KnownExpires \/ PausedElsewhere \/ SixtyFiveMinutes
  PROVE  SInv'
<1>1. /\ UNCHANGED <<job, lock, caller, sched, reaper>>
      /\ awake \/ paused => awake' \/ paused'
  BY PartsOfInvariant DEF KnownExpires, PausedElsewhere, SixtyFiveMinutes, runpod, OtherTypes
<1>2. OtherTypes'
  BY PartsOfInvariant DEF KnownExpires, PausedElsewhere, SixtyFiveMinutes, runpod, sched, OtherTypes
<1>3. CallerTypes' /\ ReaperTypes'
  BY <1>1, PartsOfInvariant DEF CallerTypes, ReaperTypes
<1> QED
  BY <1>1, <1>2, <1>3, PartsOfInvariant DEF sched

\* After a restart nobody holds the lock and nothing reaps.
LEMMA RestartKeeps ==
  ASSUME SInv, FlagTypes', RestartScale
  PROVE  SInv'
<1> USE DEF RestartScale, Trouble
<1>1. CallerTypes' /\ \A c \in Callers : caller'[c].pc \in {"idle", "over"}
  BY PartsOfInvariant DEF CallerTypes, CallerPC
<1>2. ReaperTypes' /\ reaper'.pc = "idle" /\ ~running' /\ lock' = Nobody
  BY DEF ReaperTypes, IdleReaper, ReaperPC
<1>3. OtherTypes'
  BY PartsOfInvariant DEF OtherTypes
<1>4. job' = job /\ awake' = awake /\ paused' = paused
  OBVIOUS
<1> QED
  BY <1>1, <1>2, <1>3, <1>4, PartsOfInvariant DEF Locked

\* Every step of callers, of the reaper and of what is around them.
LEMMA ScaleKeeps ==
  ASSUME SInv, [ScaleNext]_scaleVars
  PROVE  SInv'
<1>0. ScaleNext => FlagTypes'
  BY FlagsStay, PartsOfInvariant
<1>1. ASSUME NEW c \in Callers, LockForSubmit(c) \/ SubmitStep(c) \/ JobStarts(c) \/ JobEnds(c)
      PROVE  SInv'
  BY <1>0, <1>1, LockingKeeps, LookingUpKeeps, RaisingKeeps, PostingKeeps, SchedulingKeeps, JobsKeep
     DEF SubmitStep, ScaleNext
<1>2. CASE ReaperStep
  BY <1>0, <1>2, TopKeeps, LookKeeps, ZeroingKeeps, DrainKeeps, FinishKeeps DEF ReaperStep, ScaleNext
<1>3. CASE UNCHANGED scaleVars
  BY <1>3 DEF scaleVars, runpod, sched, SInv, ScaleTypeOK, LockHeld, ReaperRegistered, LookHolds,
              NoJobStranded, Busy
<1> QED
  BY <1>0, <1>1, <1>2, <1>3, SurroundingsKeep, RestartKeeps DEF ScaleNext

--------------------------------------------------------------------------------
\* The inductive invariant: types, the lock is held by whoever stands between its
\* taking and its release, an endpoint about to be put to zero has no job, and no
\* job is stranded.
THEOREM ScaleInvariant == ScaleSpec => []SInv
  BY ScaleStarts, ScaleKeeps, PTL DEF ScaleSpec

\* No job waits on an endpoint the reaper has put to zero, however submissions
\* and the reaper interleave (submitScaledH3RunpodJob, reapH3Endpoint).
THEOREM NoneIsStranded == ScaleSpec => []NoJobStranded
  BY ScaleInvariant, PTL DEF SInv

LEMMA ServicesStep ==
  ASSUME ServicesInv, [ServicesNext]_serviceVars
  PROVE  ServicesInv'
<1>1. [HoldNext]_holdVars
  BY DEF ServicesNext, serviceVars
<1>2. [ScaleNext]_scaleVars
  BY DEF ServicesNext, serviceVars
<1>3. HInv'
  BY <1>1, StepKeeps DEF ServicesInv
<1>4. SInv'
  BY <1>2, ScaleKeeps DEF ServicesInv
<1> QED
  BY <1>3, <1>4 DEF ServicesInv

\* The services that reserve credits and the scaling of endpoints keep their
\* invariants whichever of the systems runs, video jobs included (services.go,
\* h3_runpod_autoscaler.go).
THEOREM ServicesInvariant == ServicesSpec => []ServicesInv
<1>1. ServicesInit => ServicesInv
  BY InitIsGood, ScaleStarts DEF ServicesInit, ServicesInv
<1> QED
  BY <1>1, ServicesStep, PTL DEF ServicesSpec

\* Side by side with whatever else runs, a reserve is given back as the work went
\* and no job that waits for the endpoint finds it at zero.
THEOREM ServicesKeepTheirWord == ServicesSpec => [](RefundsFollowOutcome /\ NoJobStranded)
<1>1. ServicesInv => RefundsFollowOutcome
  BY Refunded DEF ServicesInv
<1>2. ServicesInv => NoJobStranded
  BY DEF ServicesInv, SInv
<1> QED
  BY <1>1, <1>2, ServicesInvariant, PTL
================================================================================
