---------------------------- MODULE StudioEditor ----------------------------
(* The Studio page of the web frontend: the clips of the open project, its   *)
(* edit history, the operations that end long after they were asked for, and *)
(* the effects that store the project in the browser and in the cloud.       *)
(*                                                                           *)
(* A handler that awaits goes on with the values of the render it was called *)
(* in: it appends to the clips of now, but the history entry it leaves is    *)
(* the clips of then. Clips, media and edits are named by the stamp of the   *)
(* gesture that made them.                                                   *)
EXTENDS Integers, Sequences, FiniteSets, SequencesExt

CONSTANTS
    StudioVisits,   \* the visits a behaviour may be: what the user has and may do
    StudioHistory   \* entries the history keeps (HISTORY_LIMIT, 20)

ASSUME StudioBounds == StudioHistory \in Nat \ {0}

VARIABLES
    visit,   \* the bounds of this behaviour, and what is left of them
    page,    \* what outlives a reload: the session, the address bar, the cloud
    disk,    \* the browser's store: documents, media, the last project
    ed,      \* the editor: the component's state and history
    tasks,   \* handlers that await
    loads,   \* projects being opened
    sync     \* the save and upload effects

studioVars == <<visit, page, disk, ed, tasks, loads, sync>>

(* Project 1 was made in this browser, 2 on another device; a new one is     *)
(* named by the stamp of what made it.                                       *)
Projects == Nat \ {0}
NoProject == 0

(* --------------------------------------------------------------- clips -- *)

(* cloud: whose bytes its cloud address holds, 0 for no address. stream: the *)
(* file is a placeholder. home: the project it was put into.                 *)
Clip(n, project) == [id |-> n, media |-> n, rev |-> 0, lut |-> 0, cloud |-> 0,
                     stream |-> FALSE, cut |-> FALSE, home |-> project]

NoClip == Clip(0, NoProject)

Content(clips) == {[id |-> c.id, media |-> c.media, rev |-> c.rev, lut |-> c.lut] : c \in clips}
Pieces(s) == UNION {s[i] : i \in DOMAIN s}
Retained(e) == e.clips \cup Pieces(e.undo) \cup Pieces(e.redo)

(* projectDocument: with the LUTs of what it retains. pure is kept to state  *)
(* a property.                                                               *)
(* Mutant: with the LUTs of the timeline.                                    *)
DocumentOfTimeline(e) ==
    [clips |-> e.clips, undo |-> e.undo, redo |-> e.redo,
     luts |-> e.luts \cap {c.lut : c \in e.clips}, pure |-> e.pure]

Document(e) ==
    [clips |-> e.clips, undo |-> e.undo, redo |-> e.redo,
     luts |-> e.luts \cap {c.lut : c \in Retained(e)}, pure |-> e.pure]

With(f, k, v) == [x \in DOMAIN f \cup {k} |-> IF x = k THEN v ELSE f[x]]
Latest(s) == IF Len(s) <= StudioHistory THEN s ELSE SubSeq(s, Len(s) - StudioHistory + 1, Len(s))
OnPieces(s, F(_)) == [i \in DOMAIN s |-> {F(c) : c \in s[i]}]
OnRetained(e, F(_)) == [e EXCEPT !.clips = {F(c) : c \in @}, !.undo = OnPieces(@, F), !.redo = OnPieces(@, F)]

(* ------------------------------------------------------------- profiles -- *)

(* makes: what the operation does to the clips when it ends; caches: its     *)
(* file goes to the disk at once; source: it works on a clip.                *)
StudioOp == [makes |-> "clip", caches |-> TRUE, source |-> FALSE, count |-> 1]

ImportFiles == StudioOp
AddRemoteMediaInstant == [StudioOp EXCEPT !.makes = "stream"]
GenerateStudioImages == [StudioOp EXCEPT !.count = 2]
UpdateSelectedText == [StudioOp EXCEPT !.makes = "text", !.caches = FALSE, !.source = TRUE]
RunMotionFx == [StudioOp EXCEPT !.source = TRUE]
GenerateRestyle == [StudioOp EXCEPT !.source = TRUE]
RemoveVideoBackground == [StudioOp EXCEPT !.source = TRUE]
RemoveBackground == [StudioOp EXCEPT !.makes = "cutout", !.caches = FALSE, !.source = TRUE]
ExtendVideo == [StudioOp EXCEPT !.makes = "nothing", !.source = TRUE]
UpscaleVideo == [StudioOp EXCEPT !.source = TRUE]
RetimeClip == [StudioOp EXCEPT !.makes = "media", !.source = TRUE]
ImportCatalogAudio == StudioOp
GenerateAudio == StudioOp
SeparateSelectedAudio == [StudioOp EXCEPT !.makes = "audio", !.caches = FALSE, !.source = TRUE]

StudioOps ==
    [importFiles |-> ImportFiles, remote |-> AddRemoteMediaInstant, images |-> GenerateStudioImages,
     text |-> UpdateSelectedText, motion |-> RunMotionFx, restyle |-> GenerateRestyle,
     videoBackground |-> RemoveVideoBackground, background |-> RemoveBackground,
     extend |-> ExtendVideo, upscale |-> UpscaleVideo, retime |-> RetimeClip,
     catalog |-> ImportCatalogAudio, audio |-> GenerateAudio, separate |-> SeparateSelectedAudio]

(* A visit: the session, the address bar and the projects there are already; *)
(* what the user may do, how often; how much may fail; saves under way at    *)
(* once.                                                                     *)
StudioMoves == {"edit", "grade", "paste", "copy", "remove", "drag", "undo", "open", "new", "reload"}

ASSUME StudioVisitAssumption ==
    StudioVisits \subseteq
        [signed : BOOLEAN, requested : Projects \cup {NoProject}, known : SUBSET Projects,
         moves : SUBSET StudioMoves, ops : SUBSET DOMAIN StudioOps,
         left : Nat, faults : Nat, saves : Nat, stamp : {0}]

(* ---------------------------------------------------------------- effects -- *)

(* The save effect: the timer starts anew, the saves under way are no longer *)
(* the newest. The upload effect runs with it when the clips, the history or *)
(* the project are new. A handler and the effects of what it sets are a step.*)
SaveEffect(s) == [s EXCEPT !.armed = TRUE, !.retry = FALSE, !.shown = "saving",
                           !.saves = [i \in DOMAIN @ |-> [@[i] EXCEPT !.live = FALSE]]]
Effects(s) == [SaveEffect(s) EXCEPT !.idle = TRUE]

(* Before the first load has ended they do nothing.                          *)
SaveSoon(s) == IF ed.ready THEN SaveEffect(s) ELSE s
Changed(s) == IF ed.ready THEN Effects(s) ELSE s

Shows(status) == [sync EXCEPT !.shown = status]

Stamp == visit.stamp + 1
Move(name) == name \in visit.moves /\ visit.left > 0
Moved == visit' = [visit EXCEPT !.left = @ - 1, !.stamp = Stamp]

(* rememberEdit and rememberSnapshot; before keeps what the clips were.      *)
Remember(e, snap, was, key) ==
    [e EXCEPT !.undo = Latest(Append(@, snap)), !.redo = <<>>,
              !.before = Latest(Append(@, Content(was))), !.merge = key]
Staled(e, snap, now) == [e EXCEPT !.stale = @ \/ Content(snap) # Content(now)]
(* pure: no clip of a history or clipboard made before the project was opened*)
Impure(e, opened) == [e EXCEPT !.pure = @ /\ opened = e.opened]

NoSync == [armed |-> FALSE, retry |-> FALSE, saves |-> <<>>, shown |-> "loading", overtaken |-> FALSE,
           idle |-> FALSE, batches |-> {}, again |-> FALSE]
NoDrag == <<>>
EmptyEditor == [project |-> NoProject, clips |-> {}, luts |-> {}, undo |-> <<>>, redo |-> <<>>,
                before |-> <<>>, merge |-> 0, drag |-> NoDrag, texted |-> <<>>,
                clipboard |-> {}, copied |-> 0, opened |-> 0, ready |-> FALSE,
                stale |-> FALSE, pure |-> TRUE]
FirstLoad(requested) == [project |-> NoProject, asked |-> requested, pc |-> "start", first |-> TRUE, mixed |-> FALSE]

Stored(p) == Document([EmptyEditor EXCEPT
    !.clips = {[Clip(-p, p) EXCEPT !.cloud = -p, !.lut = -p]}, !.luts = {-p}])

StudioInit ==
    /\ visit \in StudioVisits
    /\ page = [signed |-> visit.signed, requested |-> visit.requested,
               cloud |-> [p \in visit.known |-> Stored(p)]]
    /\ disk = [docs |-> [p \in visit.known \cap {1} |-> Stored(p)],
               media |-> {<<p, -p>> : p \in visit.known \cap {1}},
               last |-> IF 1 \in visit.known THEN 1 ELSE NoProject]
    /\ ed = EmptyEditor
    /\ tasks = {}
    /\ loads = {FirstLoad(visit.requested)}
    /\ sync = NoSync

(* ---------------------------------------------------------------- editing -- *)

(* updateAsset, applyToSelection and a nudge: edits of one kind in quick     *)
(* succession share a history entry.                                         *)
EditClip(c, merges) ==
    /\ Move("edit") /\ c \in ed.clips
    /\ merges => ed.merge = c.id
    /\ LET e == IF merges THEN ed ELSE Remember(ed, ed.clips, ed.clips, c.id)
       IN ed' = [e EXCEPT !.clips = (@ \ {c}) \cup {[c EXCEPT !.rev = Stamp]}]
    /\ sync' = Changed(sync)
    /\ Moved /\ UNCHANGED <<page, disk, tasks, loads>>

(* addLUT and the grade that uses it.                                        *)
GradeClip(c) ==
    /\ Move("grade") /\ c \in ed.clips
    /\ ed' = [Remember(ed, ed.clips, ed.clips, 0) EXCEPT
                !.luts = @ \cup {Stamp}, !.clips = (@ \ {c}) \cup {[c EXCEPT !.lut = Stamp]}]
    /\ sync' = Changed(sync)
    /\ Moved /\ UNCHANGED <<page, disk, tasks, loads>>

CopySelection(c) ==
    /\ Move("paste") /\ c \in ed.clips
    /\ ed' = [ed EXCEPT !.clipboard = {c}, !.copied = ed.opened]
    /\ Moved /\ UNCHANGED <<page, disk, tasks, loads, sync>>

(* Duplicate, place and split make a clip of the same media; paste does so   *)
(* with the clip as it was when it was copied.                               *)
CopyClip(c) ==
    /\ \/ Move("copy") /\ c \in ed.clips
       \/ Move("paste") /\ c \in ed.clipboard
    /\ ed' = [Remember(Impure(ed, IF c \in ed.clips THEN ed.opened ELSE ed.copied), ed.clips, ed.clips, 0) EXCEPT
                !.clips = @ \cup {[c EXCEPT !.id = Stamp, !.home = ed.project]}]
    /\ sync' = Changed(sync)
    /\ Moved /\ UNCHANGED <<page, disk, tasks, loads>>

(* Remove, with or without closing the gap.                                  *)
RemoveClip(c) ==
    /\ Move("remove") /\ c \in ed.clips
    /\ ed' = [Remember(ed, ed.clips, ed.clips, 0) EXCEPT !.clips = @ \ {c}]
    /\ sync' = Changed(sync)
    /\ Moved /\ UNCHANGED <<page, disk, tasks, loads>>

(* A drag takes its snapshot when it begins and leaves it when it ends.      *)
DragBegins(c) ==
    /\ Move("drag") /\ ed.drag = NoDrag /\ c \in ed.clips
    /\ ed' = [ed EXCEPT !.drag = <<[clip |-> c, snap |-> ed.clips, opened |-> ed.opened]>>]
    /\ Moved /\ UNCHANGED <<page, disk, tasks, loads, sync>>

Dragged == {c \in ed.clips : c.id = ed.drag[1].clip.id}
DragMoves ==
    /\ ed.drag # NoDrag /\ \A c \in Dragged : c.rev = ed.drag[1].clip.rev
    /\ ed' = [ed EXCEPT !.clips = (@ \ Dragged) \cup {[c EXCEPT !.rev = Stamp] : c \in Dragged}]
    /\ visit' = [visit EXCEPT !.stamp = Stamp]
    /\ sync' = Changed(sync)
    /\ UNCHANGED <<page, disk, tasks, loads>>

(* Mutant: the snapshot is taken when the drag ends.                         *)
SnapOfEnd(drag) == ed.clips
SnapOfDrag(drag) == drag.snap

DragEnds ==
    LET drag == ed.drag[1]
        was == (ed.clips \ Dragged) \cup {[c EXCEPT !.rev = drag.clip.rev] : c \in Dragged}
        e == Staled(Impure(ed, drag.opened), drag.snap, was)
    IN /\ ed.drag # NoDrag
       /\ ed' = [Remember(e, SnapOfDrag(drag), was, 0) EXCEPT !.drag = NoDrag]
       /\ sync' = Changed(sync)
       /\ UNCHANGED <<visit, page, disk, tasks, loads>>

Undo ==
    /\ Move("undo") /\ ed.undo # <<>>
    /\ ed' = [ed EXCEPT !.undo = Front(@), !.before = Front(@), !.redo = Latest(Append(@, ed.clips)),
                        !.clips = Last(ed.undo), !.merge = 0]
    /\ sync' = Changed(sync)
    /\ Moved /\ UNCHANGED <<page, disk, tasks, loads>>

Redo ==
    /\ Move("undo") /\ ed.redo # <<>>
    /\ ed' = [ed EXCEPT !.redo = Front(@), !.undo = Latest(Append(@, ed.clips)),
                        !.before = Latest(Append(@, Content(ed.clips))),
                        !.clips = Last(ed.redo), !.merge = 0]
    /\ sync' = Changed(sync)
    /\ Moved /\ UNCHANGED <<page, disk, tasks, loads>>

(* ------------------------------------------------------ long operations -- *)

TaskStarts(name, c) ==
    /\ name \in visit.ops /\ visit.left > 0
    /\ StudioOps[name].source => c \in ed.clips /\ ~c.stream
    /\ ~StudioOps[name].source => c = NoClip
    /\ tasks' = tasks \cup {[op |-> name, n |-> Stamp, pc |-> "work", left |-> StudioOps[name].count,
                             snap |-> ed.clips, project |-> ed.project, opened |-> ed.opened, clip |-> c]}
    /\ ed' = IF name = "text" THEN [ed EXCEPT !.texted = With(@, c.id, Stamp)] ELSE ed
    /\ Moved /\ UNCHANGED <<page, disk, loads, sync>>

TaskFails(t) ==
    /\ visit.faults > 0
    /\ tasks' = tasks \ {t}
    /\ visit' = [visit EXCEPT !.faults = @ - 1]
    /\ UNCHANGED <<page, disk, ed, loads, sync>>

(* What the operation makes of the clips of now. The cutout is a copy of the *)
(* clip it was asked for, the address of its picture included.               *)
Made(t) ==
    LET new == Clip(Stamp, ed.project)
        mine == {c \in ed.clips : c.id = t.clip.id}
    IN CASE StudioOps[t.op].makes = "clip" -> ed.clips \cup {new}
         [] StudioOps[t.op].makes = "stream" -> ed.clips \cup {[new EXCEPT !.stream = TRUE]}
         [] StudioOps[t.op].makes = "cutout" ->
              ed.clips \cup {[t.clip EXCEPT !.id = Stamp, !.media = Stamp, !.cut = TRUE, !.home = ed.project]}
         [] StudioOps[t.op].makes = "audio" ->
              (ed.clips \ mine) \cup {[c EXCEPT !.rev = Stamp] : c \in mine} \cup {new}
         [] OTHER -> (ed.clips \ mine) \cup {[c EXCEPT !.media = Stamp, !.cloud = 0] : c \in mine}

(* An earlier rendering of a text gives way to a later one.                  *)
Outdated(t) == t.op = "text" /\ ed.texted[t.clip.id] # t.n

TaskEnds(t) ==
    LET stream == StudioOps[t.op].makes = "stream"
        rest == IF stream THEN {[t EXCEPT !.pc = "bytes", !.clip = Clip(Stamp, ed.project)]}
                ELSE IF t.left > 1 THEN {[t EXCEPT !.left = @ - 1]} ELSE {}
    IN /\ t.pc = "work"
       /\ tasks' = (tasks \ {t}) \cup rest
       /\ IF StudioOps[t.op].makes = "nothing" \/ Outdated(t)
          THEN UNCHANGED <<visit, ed, disk, sync>>
          ELSE /\ ed' = [Remember(Staled(Impure(ed, t.opened), t.snap, ed.clips), t.snap, ed.clips, 0) EXCEPT !.clips = Made(t)]
               /\ disk' = IF StudioOps[t.op].caches /\ ~stream /\ t.project # NoProject
                          THEN [disk EXCEPT !.media = @ \cup {<<t.project, Stamp>>}] ELSE disk
               /\ visit' = [visit EXCEPT !.stamp = Stamp]
               /\ sync' = Changed(sync)
       /\ UNCHANGED <<page, loads>>

(* hydrateStreamingAsset: the bytes take the place of the placeholder, in    *)
(* the history too.                                                          *)
BytesArrive(t) ==
    /\ t.pc = "bytes"
    /\ tasks' = tasks \ {t}
    /\ ed' = OnRetained(ed, LAMBDA c : IF c.media = t.clip.media THEN [c EXCEPT !.stream = FALSE] ELSE c)
    /\ disk' = IF t.project = NoProject THEN disk
               ELSE [disk EXCEPT !.media = @ \cup {<<t.project, t.clip.media>>}]
    /\ sync' = Changed(sync)
    /\ UNCHANGED <<visit, page, loads>>

(* ---------------------------------------------------------------- uploads -- *)

Uploading == UNION {b.left : b \in sync.batches}

(* Of the entries with one file the last listed counts, the redo stack's     *)
(* before the undo stack's before the timeline's.                            *)
SameFile(c, d) == c.media = d.media /\ c.stream = d.stream
Listed == <<ed.clips>> \o ed.undo \o ed.redo
Counts(c, i) == c \in Listed[i] /\ \A j \in i + 1 .. Len(Listed) : \A d \in Listed[j] : ~SameFile(c, d)
Waiting == {c \in Retained(ed) : c.cloud = 0 /\ ~c.stream /\ \E i \in DOMAIN Listed : Counts(c, i)}

InFlight(media) == media \in Uploading
Pending == {m \in {c.media : c \in Waiting} : ~InFlight(m)}

(* When the page is idle the effect starts with two of the files.            *)
UploadStarts(batch) ==
    /\ sync.idle /\ page.signed /\ ed.ready /\ ed.project # NoProject
    /\ batch # {} /\ batch \subseteq Pending
    /\ Cardinality(batch) = IF Cardinality(Pending) >= 2 THEN 2 ELSE 1
    /\ sync' = [sync EXCEPT !.idle = FALSE, !.batches = @ \cup {[left |-> batch, failed |-> FALSE]}]
    /\ UNCHANGED <<visit, page, disk, ed, tasks, loads>>

(* The address goes to every clip of the same media. When the batch is done  *)
(* a failure in it starts the retry timer, a success stops it.               *)
BatchAfter(b, media, failed) ==
    LET after == [left |-> b.left \ {media}, failed |-> b.failed \/ failed]
    IN [sync EXCEPT !.batches = (@ \ {b}) \cup (IF after.left = {} THEN {} ELSE {after}),
                    !.again = IF after.left = {} THEN after.failed ELSE @]

(* Mutant: every clip without an address takes it.                           *)
AttachToAll(c, media) == IF c.cloud = 0 THEN [c EXCEPT !.cloud = media] ELSE c
Attach(c, media) == IF c.media = media /\ ~c.stream THEN [c EXCEPT !.cloud = media] ELSE c

UploadEnds(b, media) ==
    /\ media \in b.left
    /\ ed' = OnRetained(ed, LAMBDA c : Attach(c, media))
    /\ sync' = Changed(BatchAfter(b, media, FALSE))
    /\ UNCHANGED <<visit, page, disk, tasks, loads>>

UploadFails(b, media) ==
    /\ media \in b.left /\ visit.faults > 0
    /\ visit' = [visit EXCEPT !.faults = @ - 1]
    /\ sync' = BatchAfter(b, media, TRUE)
    /\ UNCHANGED <<page, disk, ed, tasks, loads>>

UploadRetries ==
    /\ sync.again
    /\ sync' = [sync EXCEPT !.again = FALSE, !.idle = TRUE]
    /\ UNCHANGED <<visit, page, disk, ed, tasks, loads>>

(* ------------------------------------------------------------------ saves -- *)

(* The timer: the document of now goes to the disk, then to the cloud.       *)
SaveFires ==
    /\ sync.armed /\ ed.ready /\ ed.project # NoProject /\ Len(sync.saves) < visit.saves
    /\ sync' = [sync EXCEPT !.armed = FALSE,
                  !.saves = Append(@, [pc |-> "disk", project |-> ed.project, doc |-> Document(ed),
                                       live |-> TRUE, late |-> FALSE])]
    /\ UNCHANGED <<visit, page, disk, ed, tasks, loads>>

(* Mutant: any save is the newest.                                           *)
AnySave(s) == TRUE
FilesOf(doc) == Retained(doc)
Newest(s) == s.live

(* saveLocalStudioProject: one transaction stores the document and the files *)
(* it retains and drops the other media of the project.                      *)
Kept(p, clips) == {<<p, c.media>> : c \in clips}
SaveToDisk(i) ==
    LET s == sync.saves[i]
        clips == FilesOf(s.doc)
    IN /\ s.pc = "disk" /\ \A j \in 1 .. i - 1 : sync.saves[j].pc # "disk"
       /\ disk' = [disk EXCEPT !.docs = With(@, s.project, s.doc), !.last = s.project,
                     !.media = {m \in @ : m[1] = s.project => m \in Kept(s.project, clips)}
                               \cup Kept(s.project, {c \in clips : ~c.stream})]
       /\ sync' = IF Newest(s) /\ page.signed THEN [sync EXCEPT !.saves[i].pc = "put"]
                  ELSE [sync EXCEPT !.saves = RemoveAt(@, i), !.shown = IF Newest(s) THEN "disk" ELSE @]
       /\ UNCHANGED <<visit, page, ed, tasks, loads>>

(* The request reaches the server; one sent earlier may come later.          *)
SaveLands(i) ==
    LET s == sync.saves[i] IN
    /\ s.pc = "put"
    /\ page' = [page EXCEPT !.cloud = With(@, s.project, s.doc)]
    /\ sync' = [sync EXCEPT !.overtaken = s.late,
                  !.saves = [j \in DOMAIN @ |-> IF j = i THEN [@[j] EXCEPT !.pc = "answer"]
                                                ELSE IF j < i THEN [@[j] EXCEPT !.late = TRUE] ELSE @[j]]]
    /\ UNCHANGED <<visit, disk, ed, tasks, loads>>

SaveAnswered(i) ==
    /\ sync.saves[i].pc = "answer"
    /\ sync' = [sync EXCEPT !.saves = RemoveAt(@, i), !.retry = @ /\ ~Newest(sync.saves[i]),
                  !.shown = IF ~Newest(sync.saves[i]) THEN @
                            ELSE IF \E c \in ed.clips : c.cloud = 0 THEN "uploading" ELSE "cloud"]
    /\ UNCHANGED <<visit, page, disk, ed, tasks, loads>>

(* Mutant: a failed save is given up.                                        *)
SaveGivenUp(i) ==
    /\ visit.faults > 0
    /\ visit' = [visit EXCEPT !.faults = @ - 1]
    /\ sync' = [sync EXCEPT !.saves = RemoveAt(@, i)]
    /\ UNCHANGED <<page, disk, ed, tasks, loads>>

(* Any step of the newest save that fails is tried again, in the cloud only. *)
SaveFails(i) ==
    /\ visit.faults > 0
    /\ visit' = [visit EXCEPT !.faults = @ - 1]
    /\ sync' = [sync EXCEPT !.saves = RemoveAt(@, i),
                  !.retry = IF Newest(sync.saves[i]) THEN page.signed ELSE @,
                  !.shown = IF Newest(sync.saves[i]) THEN "failed" ELSE @]
    /\ UNCHANGED <<page, disk, ed, tasks, loads>>

SaveRetries ==
    /\ sync.retry
    /\ sync' = SaveSoon(sync)
    /\ UNCHANGED <<visit, page, disk, ed, tasks, loads>>

(* --------------------------------------------------------------- projects -- *)

(* The menu lists the projects in the cloud, once the first load has ended or*)
(* has fetched the list itself. openProject and the effect that opens a      *)
(* project when the page loads try the disk first, then the cloud.           *)
MenuListed == ed.ready \/ (disk.last \notin DOMAIN disk.docs /\ \E l \in loads : l.first /\ l.asked = NoProject)
OpenStarts(p) ==
    /\ Move("open") /\ page.signed /\ MenuListed /\ p \in DOMAIN page.cloud
    /\ loads' = loads \cup {[project |-> p, asked |-> p, pc |-> "start", first |-> FALSE, mixed |-> FALSE]}
    /\ sync' = Shows("loading")
    /\ Moved /\ UNCHANGED <<page, disk, ed, tasks>>

Fresh == 2 + Stamp

(* Which project the first load is about, 0 for a new one. It was asked for  *)
(* in the address bar when the page loaded.                                  *)
Wanted(l) ==
    LET local == IF l.asked # NoProject THEN l.asked ELSE disk.last
        listed == DOMAIN page.cloud
    IN IF ~l.first \/ (page.signed /\ l.asked # NoProject) THEN l.asked
       ELSE IF local \in DOMAIN disk.docs THEN local
       ELSE IF page.signed /\ listed # {} THEN CHOOSE p \in listed : TRUE
       ELSE NoProject

Found(p) == IF p \in DOMAIN disk.docs THEN disk.docs[p] ELSE page.cloud[p]

(* The document is read and its LUTs take the place of the editor's; then    *)
(* the media is fetched.                                                     *)
OpenReads(l) ==
    LET p == Wanted(l) IN
    /\ l.pc = "start"
    /\ p \in DOMAIN disk.docs \/ (page.signed /\ p \in DOMAIN page.cloud)
    /\ loads' = {[o EXCEPT !.mixed = TRUE] : o \in loads \ {l}} \cup
                  {[project |-> p, asked |-> l.asked, pc |-> "fetch", first |-> l.first,
                    mixed |-> FALSE, doc |-> Found(p)]}
    /\ ed' = [ed EXCEPT !.luts = Found(p).luts, !.opened = @ + 1, !.pure = FALSE]
    /\ sync' = SaveSoon(sync)
    /\ UNCHANGED <<visit, page, disk, tasks>>

(* materializeProject: a clip without its bytes is left out. openProject then*)
(* says that the project is in the cloud, though nothing was saved: until the*)
(* save effect has run, which before the first load has ended it does not.   *)
Here(l, clips) == {[c EXCEPT !.stream = FALSE] :
                     c \in {d \in clips : <<l.project, d.media>> \in disk.media \/ d.cloud # 0}}
OpenApplies(l) ==
    LET undo == [i \in DOMAIN l.doc.undo |-> Here(l, l.doc.undo[i])]
        redo == [i \in DOMAIN l.doc.redo |-> Here(l, l.doc.redo[i])]
        clips == Here(l, l.doc.clips)
    IN /\ l.pc = "fetch"
       /\ loads' = loads \ {l}
       /\ ed' = [ed EXCEPT !.project = l.project, !.clips = clips, !.undo = undo, !.redo = redo,
                   !.before = [i \in DOMAIN undo |-> Content(undo[i])], !.ready = @ \/ l.first,
                   !.opened = @ + 1, !.stale = FALSE, !.pure = l.doc.pure /\ ~l.mixed]
       /\ disk' = [disk EXCEPT !.media = @ \cup Kept(l.project, clips \cup Pieces(undo) \cup Pieces(redo))]
       /\ page' = [page EXCEPT !.requested = l.project]
       /\ sync' = IF l.first THEN Effects(sync) ELSE Changed(Shows("cloud"))
       /\ UNCHANGED <<visit, tasks>>

(* The first load ends with a project of the page's own, whatever the user   *)
(* has made or opened by then.                                               *)
FirstEnds(p) == [ed EXCEPT !.project = p, !.ready = TRUE, !.pure = @ /\ ed.project = NoProject]

(* It fails: the page takes the project it was asked for, or a new one. A    *)
(* refused session is signed out.                                            *)
OpenFails(l, refused) ==
    /\ visit.faults > 0
    /\ refused => page.signed /\ l.first /\ l.pc = "start" /\ Wanted(l) \notin DOMAIN disk.docs
    /\ l.first => Wanted(l) # NoProject
    /\ loads' = loads \ {l}
    /\ visit' = [visit EXCEPT !.faults = @ - 1, !.stamp = Stamp]
    /\ page' = [page EXCEPT !.signed = @ /\ ~refused]
    /\ IF l.first
       THEN /\ ed' = FirstEnds(IF l.asked # NoProject THEN l.asked ELSE Fresh)
            /\ sync' = Effects(sync)
       ELSE UNCHANGED ed /\ sync' = Shows("failed")
    /\ UNCHANGED <<disk, tasks>>

(* Nothing to open.                                                          *)
FirstIsNew(l) ==
    /\ l.pc = "start" /\ l.first /\ Wanted(l) = NoProject
    /\ loads' = loads \ {l}
    /\ ed' = FirstEnds(Fresh)
    /\ visit' = [visit EXCEPT !.stamp = Stamp]
    /\ sync' = Effects(sync)
    /\ UNCHANGED <<page, disk, tasks>>

(* Mutant: the history of the old project stays.                             *)
NewProjectOldHistory ==
    /\ Move("new")
    /\ ed' = [ed EXCEPT !.project = Fresh, !.clips = {}, !.opened = @ + 1, !.pure = TRUE]
    /\ sync' = Changed(Shows("saving"))
    /\ page' = [page EXCEPT !.requested = Fresh]
    /\ Moved /\ UNCHANGED <<disk, tasks, loads>>

NewProject ==
    /\ Move("new")
    /\ ed' = [ed EXCEPT !.project = Fresh, !.clips = {}, !.undo = <<>>, !.redo = <<>>, !.before = <<>>,
                !.opened = @ + 1, !.stale = FALSE, !.pure = TRUE]
    /\ sync' = Changed(Shows("saving"))
    /\ page' = [page EXCEPT !.requested = Fresh]
    /\ Moved /\ UNCHANGED <<disk, tasks, loads>>

(* The tab is closed or reloaded at any moment; the user may sign in first.  *)
Reload(signIn) ==
    /\ Move("reload")
    /\ signIn => ~page.signed
    /\ page' = [page EXCEPT !.signed = @ \/ signIn]
    /\ ed' = EmptyEditor
    /\ tasks' = {} /\ loads' = {FirstLoad(page.requested)} /\ sync' = NoSync
    /\ Moved /\ UNCHANGED disk

(* -------------------------------------------------------------------- spec -- *)

Gestures ==
    \/ \E c \in ed.clips : \/ \E merges \in BOOLEAN : EditClip(c, merges)
                            \/ GradeClip(c) \/ RemoveClip(c) \/ DragBegins(c) \/ CopySelection(c)
    \/ \E c \in ed.clips \cup ed.clipboard : CopyClip(c)
    \/ DragMoves \/ DragEnds \/ Undo \/ Redo
    \/ \E name \in visit.ops, c \in ed.clips \cup {NoClip} : TaskStarts(name, c)
    \/ \E p \in DOMAIN page.cloud : OpenStarts(p)
    \/ NewProject
    \/ \E signIn \in BOOLEAN : Reload(signIn)

Background ==
    \/ \E t \in tasks : TaskEnds(t) \/ BytesArrive(t) \/ TaskFails(t)
    \/ \E batch \in SUBSET Pending : UploadStarts(batch)
    \/ \E b \in sync.batches, m \in Uploading : UploadEnds(b, m) \/ UploadFails(b, m)
    \/ UploadRetries
    \/ SaveFires \/ SaveRetries
    \/ \E i \in DOMAIN sync.saves : SaveToDisk(i) \/ SaveLands(i) \/ SaveAnswered(i) \/ SaveFails(i)
    \/ \E l \in loads : OpenReads(l) \/ OpenApplies(l) \/ FirstIsNew(l)
                         \/ \E refused \in BOOLEAN : OpenFails(l, refused)

StudioNext == Gestures \/ Background

(* Timers fire, requests are answered or fail.                               *)
StudioSpec == StudioInit /\ [][StudioNext]_studioVars /\ WF_studioVars(Background)

(* ------------------------------------------------------------- properties -- *)

(* Type correctness.                                                         *)
StudioTypeOK ==
    /\ visit.left \in Nat /\ visit.faults \in Nat /\ visit.stamp \in Nat
    /\ page.signed \in BOOLEAN /\ page.requested \in Projects \cup {NoProject}
    /\ DOMAIN page.cloud \cup DOMAIN disk.docs \subseteq Projects
    /\ ed.project \in Projects \cup {NoProject}
    /\ Len(ed.undo) <= StudioHistory /\ Len(ed.redo) <= StudioHistory /\ Len(ed.before) = Len(ed.undo)
    /\ {ed.ready, ed.stale, ed.pure, sync.armed, sync.retry, sync.idle, sync.again} \subseteq BOOLEAN
    /\ Len(sync.saves) <= visit.saves
    /\ sync.shown \in {"loading", "saving", "disk", "uploading", "cloud", "failed"}

(* Undo takes back the last edit and only that, unless the history has an    *)
(* entry a handler left after an await, during which the clips had changed.  *)
UndoTakesBackOneEdit ==
    [][Undo => ed.stale \/ Content(ed'.clips) = Last(ed.before)]_studioVars

(* The history of a project holds clips of that project, whichever projects  *)
(* were open before it, unless a handler that began under another left its   *)
(* clips there; a clip put in before one is open has none.                   *)
HistoryOfOneProject == ed.pure => \A c \in Retained(ed) : c.home \in {ed.project, NoProject}

(* Delete, close, reopen, undo: every clip of a stored document, in its      *)
(* history too, comes back with its bytes, unless it was stored before they  *)
(* had come, and with its LUT, unless the LUTs were those of a project being *)
(* opened or the clip was taken or copied before the project was opened.     *)
StoredProjectIsWhole ==
    \A p \in DOMAIN disk.docs : \A c \in Retained(disk.docs[p]) :
        /\ c.stream \/ c.cloud # 0 \/ <<p, c.media>> \in disk.media
        /\ disk.docs[p].pure => c.lut \in disk.docs[p].luts \cup {0}

(* A cloud address is never that of an older media revision, cutouts aside.  *)
AddressIsOfOwnBytes == \A c \in Retained(ed) : c.cut \/ c.cloud \in {0, c.media}

(* Both, whatever was opened or changed while a handler awaited.             *)
ClipsOfProject == HistoryOfOneProject /\ AddressIsOfOwnBytes

(* When the page says that the project is saved to the cloud, the cloud and  *)
(* the disk have what the editor shows, unless an older save came after a    *)
(* newer one. Until the first load has ended it says so of a project just    *)
(* opened, of which nothing was saved.                                       *)
SavedMeansSaved ==
    ed.ready /\ sync.shown = "cloud" /\ ~sync.overtaken =>
        /\ ed.project \in DOMAIN page.cloud /\ page.cloud[ed.project] = Document(ed)
        /\ disk.docs[ed.project] = Document(ed)

(* The work of a signed-in user reaches the disk and the cloud, and so does  *)
(* every file of the project, whatever failed on the way.                    *)
Settled == ed.ready /\ loads = {} /\ page.signed
WorkReachesStores ==
    <>[](Settled => /\ ed.project \in DOMAIN disk.docs \cap DOMAIN page.cloud
                    /\ disk.docs[ed.project] = Document(ed)
                    /\ sync.overtaken \/ page.cloud[ed.project] = Document(ed)
                    /\ \A c \in Retained(ed) :
                         c.stream \/ \E d \in Retained(ed) : SameFile(c, d) /\ d.cloud # 0)
=============================================================================
