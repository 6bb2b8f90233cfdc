----------------------------- MODULE ImageTools -----------------------------
(* The image pages of the web frontend: one paid request, answered with the  *)
(* result. A page that works on a picture of the user keeps the chosen file  *)
(* and shows it from memory; its Run handler uploads the file, puts the      *)
(* stored address in place of the file, and posts. The bulk page pays for    *)
(* one request per line, the moodboard sends several pictures, and the inpaint *)
(* page merges the answer with what the user brushed.                        *)
(*                                                                           *)
(* A picture is named by the gesture that brought it; it is shown from       *)
(* memory until it is stored.                                                *)
EXTENDS Integers, Sequences, FiniteSets, SequencesExt

CONSTANTS
    ImgVisits,    \* the visits a behaviour may be: of a page, with a bound on
                  \* the gestures other than Run and one on the clicks on Run
    ImgEdits,     \* the largest of the first bounds
    ImgRefs       \* pictures a moodboard takes (MAX_REFS, 6)

ASSUME ImgBounds == ImgEdits \in Nat /\ ImgRefs \in Nat

ImgPages == {"upscale", "outpaint", "relight", "style", "nano", "inpaint", "utility",
             "flux", "gpt", "grok", "cameras", "bulk", "board"}

ASSUME ImgVisitAssumption == ImgVisits \subseteq [page : ImgPages, edits : 0 .. ImgEdits, runs : Nat]

VARIABLES
    img,          \* the component's state
    imgRun,       \* its Run handler: at most one
    imgLoads,     \* inpaint: the pictures being loaded for the canvas
    imgPaid       \* the service: what each request it accepted was about

imgVars == <<img, imgRun, imgLoads, imgPaid>>

Blank == <<>>
NoRun == [pc |-> "none"]
LocalPicture(n) == <<[n |-> n, stored |-> FALSE]>>
StoredPicture(n) == <<[n |-> n, stored |-> TRUE]>>

(* -------------------------------------------------------------- profiles -- *)

(* kind: what Run works on; clears: a new file clears the result; locks: no  *)
(* file is taken while the page is busy; given: there is an example.         *)
ImgPage == [kind |-> "picture", clears |-> TRUE, locks |-> FALSE, given |-> FALSE]

Upscale == [ImgPage EXCEPT !.given = TRUE]
Outpaint == ImgPage
Relight == ImgPage
StyleTransfer == ImgPage
NanoBanana == [ImgPage EXCEPT !.clears = FALSE]
Inpaint == [ImgPage EXCEPT !.kind = "brushed"]
Utility == [ImgPage EXCEPT !.kind = "sent", !.locks = TRUE]
Flux2 == [ImgPage EXCEPT !.kind = "words"]
GptImage == [ImgPage EXCEPT !.kind = "words"]
GrokImagine == [ImgPage EXCEPT !.kind = "words"]
CinematicCameras == [ImgPage EXCEPT !.kind = "words"]
MakeImage == [ImgPage EXCEPT !.kind = "lines"]
Moodboard == [ImgPage EXCEPT !.kind = "board"]

ImgProfiles ==
    [upscale |-> Upscale, outpaint |-> Outpaint, relight |-> Relight, style |-> StyleTransfer,
     nano |-> NanoBanana, inpaint |-> Inpaint, utility |-> Utility, flux |-> Flux2,
     gpt |-> GptImage, grok |-> GrokImagine, cameras |-> CinematicCameras,
     bulk |-> MakeImage, board |-> Moodboard]

ImgProfile == ImgProfiles[img.page]
ImgBusy == imgRun.pc # "none"
ImgStamp == img.edits + 1
ImgGesture == img.edits < img.visit.edits

ImgInit ==
    /\ \E visit \in ImgVisits :
         img = [page |-> visit.page, visit |-> visit, file |-> 0,
                src |-> IF ImgProfiles[visit.page].given THEN StoredPicture(-1) ELSE Blank,
                canvas |-> Blank, painted |-> FALSE, brushed |-> 0, refs |-> <<>>,
                output |-> Blank, batches |-> <<>>, edits |-> 0, runs |-> 0, crossed |-> FALSE]
    /\ imgRun = NoRun
    /\ imgLoads = Blank
    /\ imgPaid = <<>>

(* ---------------------------------------------------------------- inputs -- *)

(* inpaint: a new address is loaded for the canvas; an older load is dropped.*)
LoadsFor(picture) == imgLoads' = IF ImgProfile.kind = "brushed" THEN picture ELSE imgLoads

(* Mutant: a new file leaves the result.                                     *)
OutputKept(output) == output
OutputAfterChoice(output) == IF ImgProfile.clears THEN Blank ELSE output

(* choose, and the effect that shows the file from memory.                   *)
ImgChoose ==
    /\ ImgGesture /\ ImgProfile.kind \in {"picture", "brushed", "sent"}
    /\ ImgProfile.locks => ~ImgBusy
    /\ img' = [img EXCEPT !.file = ImgStamp, !.src = LocalPicture(ImgStamp), !.painted = FALSE,
                          !.output = OutputAfterChoice(@),
                          !.edits = ImgStamp, !.crossed = @ \/ ImgBusy]
    /\ LoadsFor(LocalPicture(ImgStamp))
    /\ UNCHANGED <<imgRun, imgPaid>>

(* inpaint: the picture is loaded; the canvas takes its size, which empties  *)
(* it.                                                                       *)
CanvasLoads ==
    /\ imgLoads # Blank
    /\ img' = [img EXCEPT !.canvas = imgLoads, !.painted = FALSE, !.brushed = 0]
    /\ imgLoads' = Blank
    /\ UNCHANGED <<imgRun, imgPaid>>

(* The canvas is on the page while no result is.                             *)
Mounted == img.output = Blank
Canvas == ImgProfile.kind = "brushed" /\ img.canvas # Blank /\ Mounted

(* Mutant: the canvas is not locked during a run.                            *)
BrushAnyTime ==
    /\ ImgGesture /\ Canvas
    /\ img' = [img EXCEPT !.painted = TRUE, !.brushed = ImgStamp, !.edits = ImgStamp]
    /\ UNCHANGED <<imgRun, imgLoads, imgPaid>>

ImgBrush ==
    /\ ImgGesture /\ Canvas /\ ~ImgBusy
    /\ img' = [img EXCEPT !.painted = TRUE, !.brushed = ImgStamp, !.edits = ImgStamp]
    /\ UNCHANGED <<imgRun, imgLoads, imgPaid>>

(* Clear mask is offered during a run too.                                   *)
ClearMask ==
    /\ ImgGesture /\ Canvas
    /\ img' = [img EXCEPT !.painted = FALSE, !.brushed = 0, !.edits = ImgStamp, !.crossed = @ \/ ImgBusy]
    /\ UNCHANGED <<imgRun, imgLoads, imgPaid>>

BoardFits(refs) == Len(refs) < ImgRefs

(* moodboard: addFiles takes what fits, removeRef can come at any time.      *)
BoardAdd ==
    /\ ImgGesture /\ ImgProfile.kind = "board" /\ BoardFits(img.refs)
    /\ img' = [img EXCEPT !.refs = @ \o LocalPicture(ImgStamp),
                          !.edits = ImgStamp, !.crossed = @ \/ ImgBusy]
    /\ UNCHANGED <<imgRun, imgLoads, imgPaid>>

BoardRemove(i) ==
    /\ ImgGesture /\ ImgProfile.kind = "board" /\ i \in DOMAIN img.refs
    /\ img' = [img EXCEPT !.refs = RemoveAt(@, i), !.output = Blank,
                          !.edits = ImgStamp, !.crossed = @ \/ ImgBusy]
    /\ UNCHANGED <<imgRun, imgLoads, imgPaid>>

(* ------------------------------------------------------------------- run -- *)

(* The click. The handler works on what the page showed: shown is kept to    *)
(* state the properties, work is what the code holds in its closure.         *)
Shown == IF ImgProfile.kind = "board" THEN [i \in DOMAIN img.refs |-> img.refs[i].n]
         ELSE IF img.src = Blank THEN <<>> ELSE <<img.src[1].n>>

Work == CASE ImgProfile.kind = "board" -> img.refs
          [] ImgProfile.kind = "sent" -> LocalPicture(img.file)
          [] ImgProfile.kind \in {"words", "lines"} -> <<>>
          [] OTHER -> img.src

ImgClick ==
    /\ ~ImgBusy /\ img.runs < img.visit.runs
    /\ CASE ImgProfile.kind = "board" -> Len(img.refs) >= 2
         [] ImgProfile.kind = "brushed" -> img.canvas # Blank /\ img.painted
         [] ImgProfile.kind = "sent" -> img.file # 0
         [] ImgProfile.kind = "picture" -> img.src # Blank
         [] OTHER -> TRUE
    /\ imgRun' = [pc |-> IF \E i \in DOMAIN Work : ~Work[i].stored THEN "send" ELSE "post",
                  work |-> Work, shown |-> Shown, canvas |-> img.canvas, stroke |-> img.brushed,
                  still |-> imgLoads = Blank /\ \A i \in DOMAIN Work : Work[i].stored,
                  lines |-> IF ImgProfile.kind = "lines" THEN 2 ELSE 1]
    /\ img' = [img EXCEPT !.runs = @ + 1,
                          !.output = IF ImgProfile.kind = "sent" THEN Blank ELSE @]
    /\ UNCHANGED <<imgLoads, imgPaid>>

ImgFails ==
    /\ imgRun.pc \in {"send", "post"}
    /\ imgRun' = NoRun
    /\ UNCHANGED <<img, imgLoads, imgPaid>>

(* The next file of the work is stored; after the last one the page shows    *)
(* the stored address instead of the file, whatever file it has by then.     *)
Unstored(w) == {i \in DOMAIN w : ~w[i].stored}
(* Mutant: the file of now is stored, not the one the handler has.           *)
StoreNewest(w) ==
    LET k == CHOOSE i \in Unstored(w) : \A j \in Unstored(w) : i <= j
    IN [w EXCEPT ![k] = [n |-> img.file, stored |-> TRUE]]

StoreNext(w) ==
    LET k == CHOOSE i \in Unstored(w) : \A j \in Unstored(w) : i <= j
    IN [w EXCEPT ![k].stored = TRUE]

(* moodboard: the stored addresses go to the pictures by their place.        *)
Placed(refs, w) == [i \in DOMAIN refs |-> IF i \in DOMAIN w THEN w[i] ELSE [n |-> 0, stored |-> TRUE]]

ImgSends ==
    LET w == StoreNext(imgRun.work) IN
    /\ imgRun.pc = "send"
    /\ imgRun' = [imgRun EXCEPT !.work = w, !.pc = IF Unstored(w) = {} THEN "post" ELSE "send"]
    /\ IF Unstored(w) # {} \/ ImgProfile.kind = "sent" THEN UNCHANGED <<img, imgLoads>>
       ELSE IF ImgProfile.kind = "board"
       THEN img' = [img EXCEPT !.refs = Placed(@, w)] /\ UNCHANGED imgLoads
       ELSE img' = [img EXCEPT !.src = w, !.file = 0] /\ LoadsFor(w)
    /\ UNCHANGED imgPaid

(* inpaint: the answer is drawn through what is brushed on the canvas now,   *)
(* over the picture the handler started with. With an earlier result on the  *)
(* page there is no canvas, and the handler fails after the request.         *)
Composite(stroke) == [of |-> IF imgRun.canvas = Blank THEN imgRun.shown ELSE <<imgRun.canvas[1].n>>,
                      stroke |-> stroke]

ImgPosts ==
    /\ imgRun.pc = "post" /\ imgRun.lines > 0
    /\ imgPaid' = Append(imgPaid, [i \in DOMAIN imgRun.work |-> imgRun.work[i].n])
    /\ \/ /\ ImgProfile.kind # "brushed" \/ Mounted
          /\ imgRun' = [imgRun EXCEPT !.lines = @ - 1, !.pc = IF imgRun.lines = 1 THEN "refresh" ELSE "post"]
          /\ img' = IF ImgProfile.kind = "lines" THEN [img EXCEPT !.batches = Append(@, Len(imgPaid'))]
                    ELSE [img EXCEPT !.output = <<Composite(img.brushed)>>, !.brushed = 0]
       \/ /\ ImgProfile.kind = "brushed" /\ ~Mounted
          /\ imgRun' = NoRun
          /\ UNCHANGED img
    /\ UNCHANGED imgLoads

(* The profile is fetched again, then the finally clause.                    *)
ImgEnds ==
    /\ imgRun.pc = "refresh"
    /\ imgRun' = NoRun
    /\ UNCHANGED <<img, imgLoads, imgPaid>>

(* makeMore: another request for a line that has a batch.                    *)
MakeMore ==
    /\ ImgProfile.kind = "lines" /\ ~ImgBusy /\ img.batches # <<>> /\ img.runs < img.visit.runs
    /\ imgRun' = [pc |-> "post", work |-> <<>>, shown |-> <<>>, canvas |-> Blank, stroke |-> 0,
                  still |-> TRUE, lines |-> 1]
    /\ img' = [img EXCEPT !.runs = @ + 1]
    /\ UNCHANGED <<imgLoads, imgPaid>>

ImgHandler == ImgSends \/ ImgPosts \/ ImgEnds \/ ImgFails

ImgNext ==
    \/ ImgChoose \/ ImgBrush \/ ClearMask \/ BoardAdd
    \/ \E i \in 1 .. ImgRefs : BoardRemove(i)
    \/ CanvasLoads
    \/ ImgClick \/ MakeMore
    \/ ImgHandler

(* A request is answered or fails.                                           *)
ImgSpec == ImgInit /\ [][ImgNext]_imgVars /\ WF_imgVars(ImgHandler)

(* ------------------------------------------------------------- properties -- *)

(* Type correctness.                                                         *)
ImgTypeOK ==
    /\ img.visit \in ImgVisits /\ img.page = img.visit.page
    /\ img.file \in 0 .. ImgEdits /\ img.brushed \in 0 .. ImgEdits
    /\ Len(img.src) <= 1 /\ Len(img.canvas) <= 1 /\ Len(img.output) <= 1
    /\ Len(img.refs) <= ImgRefs
    /\ img.edits \in 0 .. ImgEdits /\ {img.crossed, img.painted} \subseteq BOOLEAN
    /\ imgRun.pc \in {"none", "send", "post", "refresh"}

(* The service is paid to work on the pictures the page showed when Run was  *)
(* clicked, in their order, although the page may show others by then.       *)
SentIsShown ==
    imgPaid' # imgPaid /\ ImgProfile.kind \notin {"words", "lines"} =>
        imgPaid'[Len(imgPaid')] = imgRun.shown

(* The result next to a picture is a result for that picture, unless a new   *)
(* one was chosen while the page was busy.                                   *)
ResultOfPicture ==
    img.output # Blank /\ ImgProfile.clears /\ ~img.crossed /\ ImgProfile.kind = "picture" =>
        img.output[1].of = Shown

(* A page does not stay busy.                                                *)
ImgBusyEnds == ImgBusy ~> ~ImgBusy

(* Inpaint: only the brushed region changes, and it does: the merged picture *)
(* has the answer where the user had brushed when Run was clicked            *)
(* (tests/e2e/inpaint.spec.js:50).                                           *)
Merges == img'.output \notin {img.output, Blank} /\ ImgProfile.kind = "brushed" /\ ~img.crossed /\ ImgBusy
EditInsideMask == [][Merges => img'.output[1].stroke = imgRun.stroke]_imgVars

(* The one cause of the opposite is that the picture had yet to be stored or *)
(* loaded when Run was clicked: showing the stored picture empties the canvas*)
(* under the run.                                                            *)
BrushedRegionEdited == Merges /\ imgRun.still => img'.output[1].stroke = imgRun.stroke

(* The result next to a picture is for that picture, the service is paid for *)
(* the pictures that were shown when Run was clicked, and it edits what had  *)
(* been brushed by then.                                                     *)
ImagesFaithful == [][ResultOfPicture' /\ SentIsShown /\ BrushedRegionEdited]_imgVars
=============================================================================
