----------------------------- MODULE ToolPages -----------------------------
(* The tool pages of the web frontend: a form of inputs, sometimes a live    *)
(* estimate of the price, and a Run button whose handler posts a paid job    *)
(* and polls it until it ends. A page is one React component; its handlers   *)
(* are interleaved at every await, and the Run button is disabled from the   *)
(* phase and flags the handlers write. The pages share this shape; what sets *)
(* one apart is its profile. The user is signed in and stays on the page.    *)
(*                                                                           *)
(* A value a user gives (a file, an address, a setting) is named by the      *)
(* number of the gesture that gave it, and a job by the run that posted it.  *)
EXTENDS Integers, Sequences, FiniteSets

CONSTANTS
    ToolVisits,    \* the visits a behaviour may be: of a page, with a bound on
                   \* the gestures of the user and one on the clicks on Run
    ToolEdits,     \* the largest of the first bounds
    ToolRuns,      \* the largest of the second
    ToolPolls      \* polls of a job before the page gives up (360 to 3600)

ASSUME ToolBounds ==
    /\ ToolEdits \in Nat
    /\ ToolRuns \in Nat
    /\ ToolPolls \in Nat \ {0}

VARIABLES
    tool,        \* the component's state and refs
    toolCalls,   \* requests of its other handlers in flight
    toolRuns,    \* the Run handlers that were started, in order
    toolJobs     \* the service: the job each of them posted

toolVars == <<tool, toolCalls, toolRuns, toolJobs>>

Nothing == 0
Sample == -1     \* the example a page starts with
None == <<>>

(* -------------------------------------------------------------- profiles -- *)

(* needs: inputs without which Run is disabled; given: inputs a page starts  *)
(* with; input: how they are chosen; lock: inputs not offered during a run;  *)
(* clears: a new input clears the output; sends: the run uploads the chosen  *)
(* files itself; ends: statuses that end it; skips: it survives a failed     *)
(* poll; direct: the answer to the post may be the result; bare: what a job  *)
(* completed without a result does; quotes: it shows a live estimate.        *)
Polled ==
    [needs |-> {}, given |-> {}, input |-> "none", lock |-> {}, clears |-> FALSE,
     sends |-> FALSE, ends |-> {"failed", "payment_required"}, skips |-> FALSE,
     direct |-> FALSE, bare |-> "error", quotes |-> FALSE]

Swap == [Polled EXCEPT !.needs = {"src", "ref"}, !.given = {"src", "ref"},
                       !.input = "flag", !.clears = TRUE, !.quotes = TRUE]
Recast == [Polled EXCEPT !.needs = {"src", "ref"}, !.given = {"src", "ref"},
                         !.input = "flag", !.lock = {"ref"}, !.clears = TRUE, !.quotes = TRUE]
Remake == [Polled EXCEPT !.needs = {"src"}, !.input = "remake", !.sends = TRUE,
                         !.bare = "done", !.quotes = TRUE]
Dramatizer == [Polled EXCEPT !.given = {"src"}, !.input = "preview", !.sends = TRUE,
                             !.bare = "done"]
Reference == [Polled EXCEPT !.needs = {"src"}, !.input = "flag", !.lock = {"src"},
                            !.quotes = TRUE]
Animator == [Polled EXCEPT !.needs = {"src", "ref"}, !.input = "phase", !.clears = TRUE]
H3Image == [Polled EXCEPT !.needs = {"src"}, !.input = "phase", !.clears = TRUE]
BackgroundRemover == [Polled EXCEPT !.needs = {"src"}, !.input = "phase", !.clears = TRUE]
Keyframes == [Polled EXCEPT !.needs = {"src"}, !.input = "slot", !.lock = {"src"},
                            !.clears = TRUE]
Orbit == [Polled EXCEPT !.needs = {"src"}, !.input = "flag", !.lock = {"src"}, !.clears = TRUE]
Lofi == Polled
Music == [Polled EXCEPT !.needs = {"src"}, !.given = {"src"}, !.input = "phase", !.lock = {"src"}]
Trailer == [Polled EXCEPT !.bare = "done"]
AnimeControl == [Polled EXCEPT !.needs = {"src"}, !.input = "file", !.lock = {"src"}]
Anima == Polled
Transfer == [Polled EXCEPT !.needs = {"src", "ref"}, !.input = "file", !.sends = TRUE,
                           !.ends = @ \union {"cancelled"}]
Control == [Polled EXCEPT !.needs = {"src"}, !.input = "file", !.sends = TRUE,
                          !.ends = @ \union {"cancelled"}, !.bare = "polls"]
Generator == [Polled EXCEPT !.ends = @ \union {"cancelled"}, !.direct = TRUE]
Poses == [Polled EXCEPT !.direct = TRUE]
Production == [Polled EXCEPT !.needs = {"src"}, !.input = "flag", !.lock = {"src"},
                             !.ends = @ \union {"cancelled"}, !.skips = TRUE,
                             !.direct = TRUE, !.bare = "done"]

ToolProfiles ==
    [swap |-> Swap, recast |-> Recast, remake |-> Remake, dramatizer |-> Dramatizer,
     reference |-> Reference, animator |-> Animator, h3image |-> H3Image,
     background |-> BackgroundRemover, keyframes |-> Keyframes, orbit |-> Orbit, lofi |-> Lofi,
     music |-> Music, trailer |-> Trailer, anime |-> AnimeControl, anima |-> Anima,
     transfer |-> Transfer, control |-> Control, generator |-> Generator,
     poses |-> Poses, production |-> Production]

ASSUME ToolVisitAssumption ==
    ToolVisits \subseteq [page : DOMAIN ToolProfiles, edits : 0 .. ToolEdits, runs : 0 .. ToolRuns]

ToolInputs == {"src", "ref"}
JobLive == {"queued", "processing"}
ToolJobEnds == {"completed", "bare", "failed", "payment_required", "cancelled"}
RunLive == {"send", "post", "poll"}

Page == ToolProfiles[tool.page]
Busy == tool.phase \in {"composing", "uploading", "queued", "processing"}
Running == \E i \in DOMAIN toolRuns : toolRuns[i].pc \in RunLive

(* -------------------------------------------------------------- estimate -- *)

Priced(t) == [src |-> t.src, ref |-> t.ref, setting |-> t.setting]
Complete(t) == \A i \in ToolProfiles[t.page].needs : t[i] # Nothing

(* The estimate effect: its cleanup clears the timer of the previous run; a  *)
(* form that is not complete has no estimate (the remake page keeps the one  *)
(* it has), and any other starts a timer.                                    *)
EstimateEffect(t) ==
    IF ~ToolProfiles[t.page].quotes THEN t
    ELSE IF Complete(t)
    THEN [t EXCEPT !.seq = @ + 1, !.timer = <<[seq |-> t.seq + 1, of |-> Priced(t)]>>]
    ELSE [t EXCEPT !.timer = None, !.est = IF t.input = "remake" THEN @ ELSE None]

(* A handler's new state is rendered, and the effect runs if what it depends *)
(* on has changed.                                                           *)
Render(t) == tool' = IF Priced(t) = Priced(tool) THEN t ELSE EstimateEffect(t)

ToolInit ==
    /\ \E visit \in ToolVisits :
         LET profile == ToolProfiles[visit.page]
             first(i) == IF i \in profile.given THEN Sample ELSE Nothing
         IN
         tool = EstimateEffect(
                  [page |-> visit.page, visit |-> visit, input |-> profile.input, src |-> first("src"), ref |-> first("ref"),
                   setting |-> 0, file |-> Nothing, uploading |-> FALSE, framing |-> FALSE,
                   phase |-> "idle", output |-> 0, est |-> None, estimating |-> FALSE,
                   seq |-> 0, timer |-> None, edits |-> 0, taken |-> FALSE])
    /\ toolCalls = {}
    /\ toolRuns = <<>>
    /\ toolJobs = <<>>

(* A handler that is not Run writes the phase a run is writing.              *)
Takes(t) == [t EXCEPT !.taken = @ \/ Running]

ToolStamp == tool.edits + 1
Gesture == tool.edits < tool.visit.edits
Unlocked(i) == i \in Page.lock => ~Busy
Fetches(call) == toolCalls' = toolCalls \union {call}
Returns(call) == toolCalls' = toolCalls \ {call}

ToolSetting ==
    /\ Gesture /\ Page.quotes /\ (tool.page # "remake" => ~Busy)
    /\ Render([tool EXCEPT !.setting = ToolStamp, !.edits = ToolStamp])
    /\ UNCHANGED <<toolCalls, toolRuns, toolJobs>>

(* ------------------------------------------------------- choosing inputs -- *)

Upload(i) == [kind |-> "upload", input |-> i, stamp |-> ToolStamp]
WithInput(t, i, value) ==
    [t EXCEPT ![i] = value,
              !.output = IF Page.clears /\ ~(tool.page = "recast" /\ i = "ref") THEN 0 ELSE @,
              !.ref = IF i = "ref" THEN value ELSE IF tool.page = "swap" THEN Nothing ELSE @]

(* A page with an uploading flag: one upload at a time.                      *)
ChooseFlag(i) ==
    /\ Gesture /\ Page.input = "flag" /\ i \in Page.needs /\ Unlocked(i)
    /\ (tool.page = "swap" => i = "src")
    /\ ~tool.uploading
    /\ tool' = [tool EXCEPT !.uploading = TRUE, !.edits = ToolStamp]
    /\ Fetches(Upload(i))
    /\ UNCHANGED <<toolRuns, toolJobs>>

(* A slot keeps its own flag: Run does not wait for it.                      *)
ChooseSlot(i) ==
    /\ Gesture /\ Page.input = "slot" /\ i \in Page.needs /\ Unlocked(i)
    /\ ~ \E c \in toolCalls : c.kind = "upload"
    /\ tool' = [tool EXCEPT !.edits = ToolStamp]
    /\ Fetches(Upload(i))
    /\ UNCHANGED <<toolRuns, toolJobs>>

(* A page whose uploads write the phase: the button is disabled while it is  *)
(* busy, a file can be dropped at any time.                                  *)
ChoosePhase(i) ==
    /\ Gesture /\ Page.input = "phase" /\ i \in Page.needs /\ Unlocked(i)
    /\ tool' = Takes([tool EXCEPT !.phase = IF tool.page = "music" THEN "composing" ELSE "uploading",
                                  !.output = IF Page.clears THEN 0 ELSE @, !.edits = ToolStamp])
    /\ Fetches(Upload(i))
    /\ UNCHANGED <<toolRuns, toolJobs>>

(* A page that keeps the file until Run sends it.                            *)
ChooseFile(i) ==
    /\ Gesture /\ Page.input = "file" /\ i \in Page.needs /\ Unlocked(i)
    /\ tool' = [tool EXCEPT ![i] = ToolStamp, !.edits = ToolStamp]
    /\ UNCHANGED <<toolCalls, toolRuns, toolJobs>>

(* The remake page uploads a film as soon as it is chosen, to price it.      *)
ChooseFilm ==
    /\ Gesture /\ Page.input = "remake"
    /\ Render(Takes([tool EXCEPT !.file = ToolStamp, !.src = Nothing, !.est = None, !.output = 0,
                                 !.phase = "idle", !.estimating = TRUE, !.edits = ToolStamp]))
    /\ Fetches(Upload("src"))
    /\ UNCHANGED <<toolRuns, toolJobs>>

RemoveFilm ==
    /\ Gesture /\ Page.input = "remake" /\ tool.file # Nothing
    /\ Render([tool EXCEPT !.file = Nothing, !.src = Nothing, !.est = None, !.output = 0,
                           !.seq = @ + 1, !.estimating = FALSE, !.edits = ToolStamp])
    /\ UNCHANGED <<toolCalls, toolRuns, toolJobs>>

(* The dramatizer previews the beats of the clip it is given.                *)
ChooseClip ==
    /\ Gesture /\ Page.input = "preview"
    /\ \E value \in {ToolStamp, Sample} :
         tool' = Takes([tool EXCEPT !.src = value, !.output = 0, !.phase = "analyzing", !.edits = ToolStamp])
    /\ Fetches([Upload("src") EXCEPT !.kind = "beats"])
    /\ UNCHANGED <<toolRuns, toolJobs>>

BeatsReturn(c) ==
    /\ c.kind = "beats"
    /\ tool' = Takes([tool EXCEPT !.phase = "idle"])
    /\ Returns(c)
    /\ UNCHANGED <<toolRuns, toolJobs>>

(* An upload ends. The remake page does not ask whether the film is still    *)
(* the chosen one.                                                           *)
UploadReturns(c, ok) ==
    LET in == IF ok THEN WithInput(tool, c.input, c.stamp) ELSE tool IN
    /\ c.kind = "upload"
    /\ CASE Page.input = "flag" -> Render([in EXCEPT !.uploading = FALSE])
         [] Page.input = "slot" -> Render(in)
         [] Page.input = "phase" ->
              Render(Takes([in EXCEPT !.output = tool.output, !.phase = IF ok THEN "idle" ELSE "error"]))
         [] OTHER -> Render(IF ok THEN in ELSE [tool EXCEPT !.estimating = FALSE])
    /\ Returns(c)
    /\ UNCHANGED <<toolRuns, toolJobs>>

(* An address pasted in place of a file.                                     *)
UseLink(i) ==
    LET with == [WithInput(tool, i, ToolStamp) EXCEPT !.edits = ToolStamp] IN
    /\ Gesture /\ tool.page \in {"swap", "recast", "reference"} /\ i \in Page.needs
    /\ ~(tool.page = "swap" /\ i = "ref" /\ tool.framing)
    /\ tool.uploading => tool.page = "swap" /\ i = "ref"
    /\ Unlocked(i)
    /\ \/ /\ tool.page = "swap" /\ i = "src"
          /\ Render([with EXCEPT !.seq = @ + 1, !.est = None])
       \/ /\ tool.page = "swap" /\ i = "ref"
          /\ Render([with EXCEPT !.output = tool.output])
       \/ /\ tool.page = "recast"
          /\ Render(IF i = "src" THEN [with EXCEPT !.est = None] ELSE with)
       \/ /\ tool.page = "reference"
          /\ Render(with)
    /\ UNCHANGED <<toolCalls, toolRuns, toolJobs>>

(* Restore sample video (swap) and Load the example (reference).             *)
UseSample ==
    /\ Gesture
    /\ \/ tool.page = "swap" /\ ~tool.uploading
       \/ tool.page = "reference" /\ ~Busy
    /\ Render(Takes([tool EXCEPT !.src = Sample, !.ref = IF "ref" \in Page.needs THEN Sample ELSE @,
                                 !.seq = @ + 1, !.est = None, !.output = 0, !.phase = "idle",
                                 !.edits = ToolStamp]))
    /\ UNCHANGED <<toolCalls, toolRuns, toolJobs>>

(* swap: the character frame is a paid edit of the frame of the video.       *)
GenerateFrame ==
    /\ Gesture /\ tool.page = "swap" /\ ~tool.framing /\ tool.src # Nothing
    /\ tool' = [tool EXCEPT !.framing = TRUE, !.edits = ToolStamp]
    /\ Fetches([Upload("ref") EXCEPT !.kind = "frame"])
    /\ UNCHANGED <<toolRuns, toolJobs>>

FrameReturns(c, ok) ==
    /\ c.kind = "frame"
    /\ Render([tool EXCEPT !.framing = FALSE, !.ref = IF ok THEN c.stamp ELSE @])
    /\ Returns(c)
    /\ UNCHANGED <<toolRuns, toolJobs>>

(* ------------------------------------------------------------- estimates -- *)

TimerFires ==
    /\ tool.timer # None
    /\ tool' = [tool EXCEPT !.timer = None, !.estimating = TRUE]
    /\ Fetches([kind |-> "estimate", seq |-> tool.timer[1].seq, of |-> tool.timer[1].of])
    /\ UNCHANGED <<toolRuns, toolJobs>>

(* An answer counts only if no later estimate was asked for.                 *)
(* Mutant: any answer counts.                                                *)
AlwaysAsked(c) == TRUE
StillAsked(c) == c.seq = tool.seq

EstimateReturns(c, ok) ==
    /\ c.kind = "estimate"
    /\ tool' = IF ~StillAsked(c) THEN tool
               ELSE [tool EXCEPT !.estimating = FALSE,
                                 !.est = IF ok THEN <<c.of>> ELSE IF tool.page = "remake" THEN @ ELSE None]
    /\ Returns(c)
    /\ UNCHANGED <<toolRuns, toolJobs>>

(* ------------------------------------------------------------------- runs -- *)

(* Mutant: the button is not disabled during a run.                          *)
RunAlwaysOffered == IF tool.page = "remake" THEN tool.file # Nothing ELSE Complete(tool)

RunOffered ==
    /\ ~Busy
    /\ ~tool.uploading \/ tool.page = "swap"
    /\ IF tool.page = "remake" THEN tool.file # Nothing /\ ~tool.estimating
       ELSE Complete(tool)

(* A new run takes the old result off the page.                              *)
RunBegins(t, phase) == [t EXCEPT !.output = 0, !.phase = phase]

(* The click: the handler keeps the inputs it was rendered with.             *)
ClickRun ==
    /\ Len(toolRuns) < tool.visit.runs
    /\ RunOffered
    /\ LET sends == Page.sends /\ (tool.page = "remake" => tool.src = Nothing) IN
       /\ toolRuns' = Append(toolRuns,
            [pc |-> IF sends THEN "send" ELSE "post",
             of |-> IF tool.page = "remake" /\ sends THEN tool.file ELSE tool.src, polls |-> 0])
       /\ tool' = RunBegins(tool, IF sends THEN "uploading" ELSE "queued")
    /\ toolJobs' = Append(toolJobs, "none")
    /\ UNCHANGED toolCalls

(* The catch clause, and the end of a run that has a result.                 *)
RunFails(i) ==
    /\ toolRuns' = [toolRuns EXCEPT ![i].pc = "error"]
    /\ tool' = [tool EXCEPT !.phase = "error"]
RunSucceeds(i) ==
    /\ toolRuns' = [toolRuns EXCEPT ![i].pc = "done"]
    /\ tool' = [tool EXCEPT !.phase = "done", !.output = i]

RunSends(i, ok) ==
    /\ toolRuns[i].pc = "send"
    /\ \/ /\ ok
          /\ toolRuns' = [toolRuns EXCEPT ![i].pc = "post"]
          /\ Render([tool EXCEPT !.phase = "queued",
                                 !.src = IF tool.page = "remake" THEN toolRuns[i].of ELSE @])
       \/ ~ok /\ RunFails(i)
    /\ UNCHANGED <<toolCalls, toolJobs>>

(* The one request that is paid for. A lost answer leaves the job behind.    *)
RunPosts(i, answer) ==
    /\ toolRuns[i].pc = "post"
    /\ \/ /\ answer = "job"
          /\ toolRuns' = [toolRuns EXCEPT ![i].pc = "poll"]
          /\ toolJobs' = [toolJobs EXCEPT ![i] = "queued"]
          /\ UNCHANGED tool
       \/ /\ answer = "result" /\ Page.direct
          /\ RunSucceeds(i)
          /\ toolJobs' = [toolJobs EXCEPT ![i] = "completed"]
       \/ /\ answer = "refused"
          /\ RunFails(i)
          /\ UNCHANGED toolJobs
       \/ /\ answer = "lost"
          /\ RunFails(i)
          /\ toolJobs' = [toolJobs EXCEPT ![i] = "queued"]
    /\ UNCHANGED toolCalls

(* Mutant: the polls are not counted.                                        *)
PollForEver(i, phase) == toolRuns' = toolRuns /\ tool' = [tool EXCEPT !.phase = phase]
(* A poll that shows the job is not over: the phase follows its status.      *)
PollAgain(i, phase) ==
    IF toolRuns[i].polls + 1 = ToolPolls THEN RunFails(i)
    ELSE /\ toolRuns' = [toolRuns EXCEPT ![i].polls = @ + 1]
         /\ tool' = [tool EXCEPT !.phase = phase]

(* What a status says: the remake, dramatizer, trailer and production pages  *)
(* take completed without a result for the end, others for a failure.        *)
HasResult(job) == job = "completed" \/ (job = "bare" /\ Page.bare = "done")

RunPolls(i, ok) ==
    LET job == toolJobs[i] IN
    /\ toolRuns[i].pc = "poll"
    /\ \/ /\ ~ok
          /\ IF Page.skips THEN PollAgain(i, tool.phase) ELSE RunFails(i)
       \/ /\ ok /\ HasResult(job)
          /\ RunSucceeds(i)
       \/ /\ ok /\ (job \in Page.ends \/ (job = "bare" /\ Page.bare = "error"))
          /\ RunFails(i)
       \/ /\ ok
          /\ \/ job \in JobLive \union ({"cancelled"} \ Page.ends)
             \/ job = "bare" /\ Page.bare = "polls"
          /\ PollAgain(i, IF job = "processing" THEN "processing" ELSE "queued")
    /\ UNCHANGED <<toolCalls, toolJobs>>

(* The service works on the job at its own pace. Nothing looks at a job after*)
(* the run that posted it has ended.                                         *)
ToolJobMoves(i) ==
    /\ toolRuns[i].pc = "poll"
    /\ \/ toolJobs[i] = "queued" /\ \E s \in {"processing", "payment_required", "cancelled"} :
            toolJobs' = [toolJobs EXCEPT ![i] = s]
       \/ toolJobs[i] = "processing" /\ \E s \in {"completed", "bare", "failed"} :
            toolJobs' = [toolJobs EXCEPT ![i] = s]
    /\ UNCHANGED <<tool, toolCalls, toolRuns>>

(* ---------------------------------------------------------- specification -- *)

ToolUser ==
    \/ ToolSetting \/ ChooseFilm \/ RemoveFilm \/ ChooseClip \/ UseSample \/ GenerateFrame
    \/ ClickRun
    \/ \E i \in ToolInputs : ChooseFlag(i) \/ ChooseSlot(i) \/ ChoosePhase(i) \/ ChooseFile(i) \/ UseLink(i)

ToolCallEnds ==
    \E c \in toolCalls : \E ok \in BOOLEAN :
        UploadReturns(c, ok) \/ FrameReturns(c, ok) \/ EstimateReturns(c, ok) \/ BeatsReturn(c)

RunStep(i) ==
    \/ \E ok \in BOOLEAN : RunSends(i, ok) \/ RunPolls(i, ok)
    \/ \E answer \in {"job", "result", "refused", "lost"} : RunPosts(i, answer)

ToolNext ==
    \/ ToolUser
    \/ TimerFires
    \/ ToolCallEnds
    \/ \E i \in DOMAIN toolRuns : RunStep(i) \/ ToolJobMoves(i)

(* Timers fire, requests are answered or fail, and a started handler goes on;*)
(* the user and the service are under no obligation.                         *)
ToolSpec ==
    /\ ToolInit /\ [][ToolNext]_toolVars
    /\ WF_toolVars(TimerFires) /\ WF_toolVars(ToolCallEnds)
    /\ \A i \in 1 .. ToolRuns : WF_toolVars(i \in DOMAIN toolRuns /\ RunStep(i))

(* ------------------------------------------------------------- properties -- *)

(* Type correctness of the page, its requests and its runs.                  *)
ToolValues == Sample .. ToolEdits
ToolPrices == [src : ToolValues, ref : ToolValues, setting : 0 .. ToolEdits]
ToolAsked == [seq : Nat, of : ToolPrices]
ToolWays == {"none", "flag", "slot", "phase", "file", "preview", "remake"}
ToolPhases == {"idle", "composing", "uploading", "analyzing", "queued", "processing", "done", "error"}

ToolTypeOK ==
    /\ tool \in [page : DOMAIN ToolProfiles, visit : ToolVisits, input : ToolWays,
                 src : ToolValues, ref : ToolValues, setting : 0 .. ToolEdits, file : 0 .. ToolEdits,
                 uploading : BOOLEAN, framing : BOOLEAN, phase : ToolPhases, output : 0 .. ToolRuns,
                 est : Seq(ToolPrices), estimating : BOOLEAN, seq : Nat, timer : Seq(ToolAsked),
                 edits : 0 .. ToolEdits, taken : BOOLEAN]
    /\ tool.page = tool.visit.page /\ tool.input = Page.input
    /\ Len(tool.est) <= 1 /\ Len(tool.timer) <= 1
    /\ \A c \in toolCalls :
         IF c.kind = "estimate" THEN c.seq \in Nat /\ c.of \in ToolPrices
         ELSE c.input \in ToolInputs /\ c.stamp \in 1 .. ToolEdits
    /\ toolRuns \in Seq([pc : RunLive \union {"done", "error"}, of : ToolValues, polls : 0 .. ToolPolls - 1])
    /\ toolJobs \in Seq({"none"} \union JobLive \union ToolJobEnds)
    /\ Len(toolRuns) <= ToolRuns /\ Len(toolJobs) = Len(toolRuns)

(* A second paid run is started while one is going on only where another     *)
(* handler has written the phase under the run: the remake page's new film,  *)
(* the swap page's sample, the dramatizer's beat preview, a dropped upload.  *)
OneRunAtATime ==
    Cardinality({i \in DOMAIN toolRuns : toolRuns[i].pc \in RunLive}) > 1 => tool.taken

(* Once the estimates asked for are in, the price shown is the price of the  *)
(* inputs on the page, in whatever order the answers came.                   *)
EstimateIsCurrent ==
    /\ Page.quotes /\ tool.page # "remake" /\ Complete(tool) /\ tool.timer = None
    /\ ~ \E c \in toolCalls : c.kind = "estimate" /\ StillAsked(c)
    => tool.est \in {None, <<Priced(tool)>>}

(* The Run button of the remake page waits for the estimate: it is always    *)
(* offered again, whatever uploads and estimates failed or were overtaken.   *)
EstimatingEnds == tool.page = "remake" /\ tool.estimating ~> ~tool.estimating

(* A run ends: no status the service can give, or refuse to give, keeps a    *)
(* handler polling for ever.                                                 *)
RunsEnd == \A i \in 1 .. ToolRuns :
    (i \in DOMAIN toolRuns /\ toolRuns[i].pc \in RunLive) ~>
    (i \in DOMAIN toolRuns /\ toolRuns[i].pc \in {"done", "error"})
=============================================================================
