-------------------------------- MODULE H3Scale --------------------------------
(***************************************************************************)
(* One RunPod endpoint kept at zero workers between bursts (h3_scale.go).  *)
(* A submission raises workersMax and posts its job under the endpoint's   *)
(* lock; the reaper, one goroutine per endpoint, takes the same lock to    *)
(* see that nothing is queued or running and to put workersMax back to     *)
(* zero.  A generation counter tells the reaper of newer submissions.      *)
(*                                                                         *)
(* /health counts every job RunPod has accepted; an update of the endpoint *)
(* may be applied although its answer is an error.  Endpoints share        *)
(* nothing.  How many workers are wanted does not matter here: workersMax  *)
(* is zero or what the lane asks for.                                      *)
(***************************************************************************)
EXTENDS Naturals

CONSTANTS
  Callers,        \* submissions, each of one job
  Grace,          \* whether h3EndpointIdleSeconds asks for a second idle look
  MaxTroubles,    \* bound: calls that fail, and restarts
  Nobody

ASSUME CallerAssumption == Nobody \notin Callers \cup {"reaper"} /\ "reaper" \notin Callers
ASSUME ScaleLimits == Grace \in BOOLEAN /\ MaxTroubles \in Nat

VARIABLES
  awake,       \* RunPod: workersMax is not zero
  job,         \* RunPod: the job of each caller
  known,       \* h3KnownWorkersMax: "zero", "full", or nothing fresh
  lock,        \* h3EndpointScaleLock
  caller,      \* the submissions
  generation, running,   \* h3ScaleReaperState
  reaper,      \* its goroutine: program counter, generation, idleSince
  late,        \* whether the reaper's 65 minutes are over
  paused,      \* history: somebody else put the endpoint to zero
  unreaped,    \* history: a submission raised workersMax and scheduled nothing
  troubles     \* calls that failed and restarts

runpod == <<awake, job, known>>
sched == <<generation, running>>
scaleVars == <<runpod, lock, caller, sched, reaper, late, paused, unreaped, troubles>>

CallerPC == {"idle", "max", "set", "run", "reassert", "again", "schedule", "over"}
ReaperPC == {"idle", "top", "look", "zero", "drain", "leave"}
IdleReaper == [pc |-> "idle", gen |-> 0, idle |-> FALSE]

ScaleTypeOK ==
  /\ awake \in BOOLEAN
  /\ job \in [Callers -> {"none", "queued", "running", "over"}]
  /\ known \in {"none", "zero", "full"}
  /\ lock \in Callers \cup {"reaper", Nobody}
  /\ caller \in [Callers -> [pc : CallerPC, retry : BOOLEAN]]
  /\ generation \in Nat /\ running \in BOOLEAN
  /\ reaper \in [pc : ReaperPC, gen : Nat, idle : BOOLEAN]
  /\ late \in BOOLEAN /\ paused \in BOOLEAN /\ unreaped \in BOOLEAN
  /\ troubles \in 0 .. MaxTroubles

ScaleInit ==
  /\ awake = FALSE
  /\ job = [c \in Callers |-> "none"]
  /\ known = "none"
  /\ lock = Nobody
  /\ caller = [c \in Callers |-> [pc |-> "idle", retry |-> FALSE]]
  /\ generation = 0 /\ running = FALSE
  /\ reaper = IdleReaper
  /\ late = FALSE /\ paused = FALSE /\ unreaped = FALSE
  /\ troubles = 0

Trouble == troubles < MaxTroubles /\ troubles' = troubles + 1
CallerGoto(c, pc) == caller' = [caller EXCEPT ![c].pc = pc]
ReaperGoto(pc) == reaper' = [reaper EXCEPT !.pc = pc]

\* h3SetWorkersMax: what it wrote is known if it was answered; an error forgets
\* what was known, and the update may have been applied.
SetAnswered(full) ==
  /\ awake' = full
  /\ known' = IF full THEN "full" ELSE "zero"
SetFailed(full) ==
  /\ known' = "none"
  /\ awake' \in {awake, full}

--------------------------------------------------------------------------------
\* submitScaledH3RunpodJob

\* A new job, or the retry of an old one (retryH3VideoJob).
LockForSubmit(c) ==
  /\ caller[c].pc = "idle" /\ lock = Nobody
  /\ lock' = c
  /\ \E retry \in BOOLEAN : caller' = [caller EXCEPT ![c] = [pc |-> "max", retry |-> retry]]
  /\ UNCHANGED <<runpod, sched, reaper, late, paused, unreaped, troubles>>

\* h3CurrentWorkersMax: what this process wrote lately, else what RunPod says.
CurrentWorkersMax(c) ==
  /\ caller[c].pc = "max"
  /\ LET current == IF known = "none" THEN awake ELSE known = "full"
     IN \/ /\ CallerGoto(c, IF current THEN "run" ELSE "set")
           /\ known' = IF current THEN "full" ELSE "zero"
           /\ UNCHANGED <<lock, troubles>>
        \/ /\ known = "none" /\ Trouble
           /\ CallerGoto(c, "over") /\ lock' = Nobody
           /\ UNCHANGED known
  /\ UNCHANGED <<awake, job, sched, reaper, late, paused, unreaped>>

\* A submission that fails here schedules nothing although the endpoint may be
\* active by now.
RaiseWorkersMax(c) ==
  /\ caller[c].pc \in {"set", "reassert"}
  /\ \/ /\ SetAnswered(TRUE)
        /\ CallerGoto(c, IF caller[c].pc = "set" THEN "run" ELSE "again")
        /\ UNCHANGED <<lock, unreaped, troubles>>
     \/ /\ Trouble /\ SetFailed(TRUE)
        /\ CallerGoto(c, "over") /\ lock' = Nobody /\ unreaped' = TRUE
  /\ UNCHANGED <<job, sched, reaper, late, paused>>

\* The job is taken by the batch tier, accepted by an active endpoint, refused,
\* or accepted although the answer is an error.  RunPod may call an endpoint
\* paused that has just been activated; workersMax is asserted again once.
PostRun(c) ==
  /\ caller[c].pc \in {"run", "again"}
  /\ \/ /\ \/ awake /\ job' = [job EXCEPT ![c] = "queued"]
           \/ caller[c].pc = "run" /\ UNCHANGED job
        /\ CallerGoto(c, IF caller[c].retry THEN "over" ELSE "schedule")
        /\ unreaped' = (unreaped \/ caller[c].retry)
        /\ lock' = Nobody
        /\ UNCHANGED troubles
     \/ /\ Trouble
        /\ \/ UNCHANGED job
           \/ awake /\ job' = [job EXCEPT ![c] = "queued"]
        /\ CallerGoto(c, "over") /\ lock' = Nobody /\ unreaped' = TRUE
     \/ /\ caller[c].pc = "run"
        /\ CallerGoto(c, "reassert")
        /\ UNCHANGED <<job, lock, unreaped, troubles>>
     \/ /\ caller[c].pc = "again"
        /\ CallerGoto(c, "over") /\ lock' = Nobody /\ unreaped' = TRUE
        /\ UNCHANGED <<job, troubles>>
  /\ UNCHANGED <<awake, known, sched, reaper, late, paused>>

\* scheduleH3ScaleToZero, after the lock is released.
Schedule(c) ==
  /\ caller[c].pc = "schedule"
  /\ generation' = generation + 1
  /\ IF running
       THEN UNCHANGED <<running, reaper, late>>
       ELSE /\ running' = TRUE
            /\ reaper' = [IdleReaper EXCEPT !.pc = "top", !.gen = generation + 1]
            /\ late' = FALSE
  /\ CallerGoto(c, "over")
  /\ UNCHANGED <<runpod, lock, paused, unreaped, troubles>>

--------------------------------------------------------------------------------
\* reapH3Endpoint

\* A slip: the generation is not looked at.
FinishAnyway ==
  /\ reaper.pc = "leave"
  /\ running' = FALSE /\ reaper' = IdleReaper
  /\ UNCHANGED <<runpod, lock, caller, generation, late, paused, unreaped, troubles>>

\* finishH3Reaper, unless somebody scheduled since the generation was looked at.
Finish ==
  /\ reaper.pc = "leave"
  /\ IF generation = reaper.gen
       THEN running' = FALSE /\ reaper' = IdleReaper
       ELSE ReaperGoto("top") /\ UNCHANGED running
  /\ UNCHANGED <<runpod, lock, caller, generation, late, paused, unreaped, troubles>>

\* A newer generation starts the 65 minutes anew; when they are over the reaper
\* ends, whatever the endpoint does.
ReaperTop ==
  /\ reaper.pc = "top"
  /\ \/ /\ generation # reaper.gen
        /\ reaper' = [reaper EXCEPT !.gen = generation, !.idle = FALSE]
        /\ late' = FALSE
        /\ UNCHANGED lock
     \/ /\ generation = reaper.gen /\ late
        /\ ReaperGoto("leave")
        /\ UNCHANGED <<late, lock>>
     \/ /\ generation = reaper.gen /\ ~late /\ lock = Nobody
        /\ lock' = "reaper" /\ ReaperGoto("look")
        /\ UNCHANGED late
  /\ UNCHANGED <<runpod, caller, sched, paused, unreaped, troubles>>

Busy == \E c \in Callers : job[c] \in {"queued", "running"}

\* A slip: the lock is given back between the look and the update.
LookAndUnlock ==
  /\ reaper.pc = "look"
  /\ reaper' = [reaper EXCEPT !.pc = IF Busy THEN "top" ELSE "zero", !.idle = ~Busy]
  /\ lock' = Nobody
  /\ UNCHANGED <<runpod, caller, sched, late, paused, unreaped, troubles>>

\* /health and, for what it may have missed, the recorded jobs
\* (h3TrackedJobBusy); an error counts as busy.
Look ==
  /\ reaper.pc = "look"
  /\ \/ /\ Busy \/ (Grace /\ ~reaper.idle)
        /\ reaper' = [reaper EXCEPT !.pc = "top", !.idle = ~Busy]
        /\ lock' = Nobody
        /\ UNCHANGED troubles
     \/ /\ ~Busy /\ (Grace => reaper.idle)
        /\ reaper' = [reaper EXCEPT !.pc = "zero", !.idle = TRUE]
        /\ UNCHANGED <<lock, troubles>>
     \/ /\ Trouble
        /\ reaper' = [reaper EXCEPT !.pc = "top", !.idle = FALSE]
        /\ lock' = Nobody
  /\ UNCHANGED <<runpod, caller, sched, late, paused, unreaped>>

ScaleToZero ==
  /\ reaper.pc = "zero"
  /\ \/ SetAnswered(FALSE) /\ ReaperGoto("drain") /\ UNCHANGED troubles
     \/ Trouble /\ SetFailed(FALSE) /\ ReaperGoto("top")
  /\ lock' = Nobody
  /\ UNCHANGED <<job, caller, sched, late, paused, unreaped>>

\* Outside the lock: a newer generation, a job or thirty seconds send it back.
Drain ==
  /\ reaper.pc = "drain"
  /\ \/ ReaperGoto("top")
     \/ generation = reaper.gen /\ ~Busy /\ ReaperGoto("leave")
  /\ UNCHANGED <<runpod, lock, caller, sched, late, paused, unreaped, troubles>>

--------------------------------------------------------------------------------
\* RunPod, the clock and the process

JobStarts(c) ==
  /\ job[c] = "queued" /\ awake
  /\ job' = [job EXCEPT ![c] = "running"]
  /\ UNCHANGED <<awake, known, lock, caller, sched, reaper, late, paused, unreaped, troubles>>

\* Or is cancelled.
JobEnds(c) ==
  /\ job[c] \in {"queued", "running"}
  /\ job' = [job EXCEPT ![c] = "over"]
  /\ UNCHANGED <<awake, known, lock, caller, sched, reaper, late, paused, unreaped, troubles>>

\* A minute passes without an update (h3KnownMaxTTL).
KnownExpires ==
  /\ known # "none"
  /\ known' = "none"
  /\ UNCHANGED <<awake, job, lock, caller, sched, reaper, late, paused, unreaped, troubles>>

SixtyFiveMinutes ==
  /\ running /\ ~late
  /\ late' = TRUE
  /\ UNCHANGED <<runpod, lock, caller, sched, reaper, paused, unreaped, troubles>>

\* The spend cap, the cost guard or an operator.
PausedElsewhere ==
  /\ awake /\ ~paused
  /\ awake' = FALSE /\ paused' = TRUE
  /\ UNCHANGED <<job, known, lock, caller, sched, reaper, late, unreaped, troubles>>

\* RunPod stays as it is; nothing starts a reaper again.
RestartScale ==
  /\ Trouble
  /\ known' = "none" /\ lock' = Nobody
  /\ caller' = [c \in Callers |-> IF caller[c].pc = "idle" THEN caller[c]
                                  ELSE [caller[c] EXCEPT !.pc = "over"]]
  /\ generation' = 0 /\ running' = FALSE /\ reaper' = IdleReaper /\ late' = FALSE
  /\ unreaped' = TRUE
  /\ UNCHANGED <<awake, job, paused>>

--------------------------------------------------------------------------------
SubmitStep(c) == CurrentWorkersMax(c) \/ RaiseWorkersMax(c) \/ PostRun(c) \/ Schedule(c)
ReaperStep == ReaperTop \/ Look \/ ScaleToZero \/ Drain \/ Finish

ScaleNext ==
  \/ \E c \in Callers : LockForSubmit(c) \/ SubmitStep(c) \/ JobStarts(c) \/ JobEnds(c)
  \/ ReaperStep
  \/ KnownExpires \/ PausedElsewhere
  \/ SixtyFiveMinutes
  \/ RestartScale

ScaleSpec == ScaleInit /\ [][ScaleNext]_scaleVars

\* Handlers and the reaper go on, and some job that runs ends.  Weak fairness is
\* enough for the lock: there is always a last submission that holds it.
ScaleFairness ==
  /\ WF_scaleVars(\E c \in Callers : SubmitStep(c))
  /\ WF_scaleVars(\E c \in Callers : JobEnds(c))
  /\ WF_scaleVars(ReaperStep)

--------------------------------------------------------------------------------
\* Properties

\* Who is between the lock and its release holds the lock.
LockHeld ==
  /\ \A c \in Callers : caller[c].pc \in {"max", "set", "run", "reassert", "again"} <=> lock = c
  /\ reaper.pc \in {"look", "zero"} <=> lock = "reaper"

\* One reaper at a time, and the state of the endpoint knows it.
ReaperRegistered == running <=> reaper.pc # "idle"

\* What the reaper saw holds until it acts on it.
LookHolds == reaper.pc = "zero" => ~Busy

\* No job waits on an endpoint the reaper has put to zero: the look at the queue
\* and the update are one step for every submission, and a submission and its
\* job are one step for the reaper (h3_scale.go:335).
NoJobStranded == \A c \in Callers : job[c] = "queued" => awake \/ paused

\* The inductive invariant.
SInv == ScaleTypeOK /\ LockHeld /\ ReaperRegistered /\ LookHolds /\ NoJobStranded

\* A reaper that was told of a job puts the endpoint to zero after it, whoever
\* submits meanwhile: finishH3Reaper does not overlook a newer generation.
\* Excepted by name: 65 minutes of work, and submissions that schedule nothing.
ScaledToZero ==
  running \/ (\E c \in Callers : caller[c].pc = "schedule")
    ~> ~awake \/ late \/ unreaped
================================================================================
