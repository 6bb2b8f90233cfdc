------------------------------ MODULE HomePage ------------------------------
(* The home page of the web frontend: the pictures a visitor gives it as     *)
(* steering frames, the sign-in dialog that comes between, the checkout      *)
(* behind it, and the generations. Uploads run side by side (pasting and     *)
(* dropping are possible during one), and so do generations; every handler   *)
(* keeps the key it saw when it was made. The feeds are not modelled.        *)
EXTENDS Integers, Sequences, FiniteSets, SequencesExt, Lists

CONSTANTS
    HomeVisits,   \* the visits a behaviour may be: signed in or not, the
                  \* batches of files the visitor has, the kinds of gestures,
                  \* how many are left, and the modes of the generations
    HomeSounds,   \* the files that are sounds; the others are pictures
    HomeGallery,  \* the pictures of the gallery
    HomeEdits,    \* the largest number of gestures of a visit
    HomeCards,    \* cards shown at once (12)
    HomePolls     \* looks at a job before the page gives up (1200)

(* The files that may be given. They are told apart by where they come from: *)
(* a file given twice is two, and none of them is in the gallery.            *)
HomeFiles == UNION {ToSet(files) : files \in UNION {visit.batches : visit \in HomeVisits}}

ASSUME HomeBounds == HomeEdits \in Nat /\ HomeCards \in Nat \ {0} /\ HomePolls \in Nat
ASSUME HomeVisitAssumption ==
    /\ \A visit \in HomeVisits :
         /\ visit.signed \in BOOLEAN /\ visit.left \in 0 .. HomeEdits
         /\ \A files \in visit.batches : files \in Seq(HomeFiles) /\ IsInjective(files)
    /\ HomeFiles \cap HomeGallery = {}

VARIABLES
    home,         \* the page: key, dialog, frames, what waits for a sign-in
    homeUploads,  \* the uploads that run, in the order they began
    homeTasks,    \* the generations, oldest first
    homeFate      \* history: pictures given, taken away, lost with a message

homeVars == <<home, homeUploads, homeTasks, homeFate>>

Pictures(files) == Without(files, HomeSounds)

HomeInit ==
    /\ \E visit \in HomeVisits :
         home = [visit |-> visit, key |-> visit.signed, dialog |-> "closed", mode |-> "signup",
                 signing |-> <<>>, late |-> <<>>, till |-> "none", refreshing |-> 0,
                 pending |-> <<>>, frames |-> <<>>, sound |-> <<>>, left |-> visit.left]
    /\ homeUploads = <<>>
    /\ homeTasks = <<>>
    /\ homeFate = [given |-> {}, taken |-> {}, told |-> {}]

HomeGesture(move) == move \in home.visit.moves /\ home.left > 0

(* ------------------------------------------------------- frames and files -- *)

(* openAuth: any checkout is dropped.                                        *)
AuthOpened(h, mode) == [h EXCEPT !.dialog = "form", !.mode = mode,
                                 !.till = IF @ = "asked" THEN "asked" ELSE "none"]

(* uploadAssets, called by a handler that holds a key or none: without one   *)
(* the files wait and the dialog opens.                                      *)
UploadAssets(h, keyed, files) ==
    IF keyed
    THEN home' = h /\ homeUploads' = Append(homeUploads, [files |-> files, at |-> 0])
    ELSE home' = [AuthOpened(h, "signup") EXCEPT !.pending = @ \o files] /\ UNCHANGED homeUploads

(* A batch of files is chosen, dropped or pasted.                            *)
AddFiles(files) ==
    /\ HomeGesture("add") /\ files \in home.visit.batches
    /\ ToSet(files) \cap homeFate.given = {}
    /\ UploadAssets([home EXCEPT !.left = @ - 1], home.key, files)
    /\ homeFate' = [homeFate EXCEPT !.given = @ \union ToSet(files)]
    /\ UNCHANGED homeTasks

(* The files of a batch are sent one by one.                                 *)
FileSent(u) ==
    /\ u \in DOMAIN homeUploads /\ homeUploads[u].at < Len(homeUploads[u].files)
    /\ homeUploads' = [homeUploads EXCEPT ![u].at = @ + 1]
    /\ UNCHANGED <<home, homeTasks, homeFate>>

(* Mutant: the list is set from what the upload has, not added to.           *)
AttachedAlone(frames, pictures) == pictures
Attached(frames, pictures) == frames \o Without(pictures, ToSet(frames))

(* The last one is: the pictures become frames, the first sound replaces the *)
(* one there was.                                                            *)
AssetsSent(u) ==
    /\ u \in DOMAIN homeUploads /\ homeUploads[u].at = Len(homeUploads[u].files)
    /\ LET pictures == Pictures(homeUploads[u].files)
           sounds == Without(homeUploads[u].files, ToSet(pictures)) IN
       home' = [home EXCEPT !.frames = Attached(@, pictures),
                            !.sound = IF sounds = <<>> THEN @ ELSE <<Head(sounds)>>]
    /\ homeUploads' = RemoveAt(homeUploads, u)
    /\ UNCHANGED <<homeTasks, homeFate>>

(* One file fails: none of its batch is attached, and the page says so.      *)
AssetsFail(u) ==
    /\ u \in DOMAIN homeUploads /\ homeUploads[u].at < Len(homeUploads[u].files)
    /\ homeUploads' = RemoveAt(homeUploads, u)
    /\ homeFate' = [homeFate EXCEPT !.told = @ \union ToSet(homeUploads[u].files)]
    /\ UNCHANGED <<home, homeTasks>>

(* removeAsset, of a frame.                                                  *)
RemoveFrame(f) ==
    /\ HomeGesture("remove") /\ f \in ToSet(home.frames)
    /\ home' = [home EXCEPT !.frames = Without(@, {f}), !.left = @ - 1]
    /\ homeFate' = [homeFate EXCEPT !.taken = @ \union {f}]
    /\ UNCHANGED <<homeUploads, homeTasks>>

RemoveSound ==
    /\ HomeGesture("remove") /\ home.sound # <<>>
    /\ home' = [home EXCEPT !.sound = <<>>, !.left = @ - 1]
    /\ UNCHANGED <<homeUploads, homeTasks, homeFate>>

(* reorderFrames: by drag, or by the buttons beside a frame.                 *)
ReorderFrames(i, j) ==
    /\ HomeGesture("order") /\ i # j /\ {i, j} \subseteq DOMAIN home.frames
    /\ home' = [home EXCEPT !.frames = InsertAt(RemoveAt(@, i), j, home.frames[i]), !.left = @ - 1]
    /\ UNCHANGED <<homeUploads, homeTasks, homeFate>>

(* promptForSimilar: only the sound stays.                                   *)
PromptForSimilar ==
    /\ HomeGesture("similar")
    /\ home' = [home EXCEPT !.frames = <<>>, !.left = @ - 1]
    /\ homeFate' = [homeFate EXCEPT !.taken = @ \union ToSet(home.frames)]
    /\ UNCHANGED <<homeUploads, homeTasks>>

(* A gallery picture becomes the last frame (selectGalleryImage), unless it  *)
(* is one, or the first (useGalleryImageAsStartFrame).                       *)
Chosen1st(g, frames) == <<g>> \o Without(frames, {g})
ChosenLast(g, frames) == IF g \in ToSet(frames) THEN frames ELSE Append(frames, g)

PickGallery(g, frames) ==
    /\ HomeGesture("gallery")
    /\ frames \in {ChosenLast(g, home.frames), Chosen1st(g, home.frames)}
    /\ home' = [home EXCEPT !.frames = frames, !.left = @ - 1]
    /\ homeFate' = [homeFate EXCEPT !.given = @ \union {g}, !.taken = @ \ {g}]
    /\ UNCHANGED <<homeUploads, homeTasks>>

(* ---------------------------------------------------- sign-in and checkout -- *)

(* Both disable the other: they share the flag busy.                         *)
HomeBusy == home.signing # <<>> \/ home.till = "asked"

(* The header offers both forms to a visitor without a key.                  *)
OpenAuth(mode) ==
    /\ HomeGesture("sign") /\ ~home.key
    /\ home' = [AuthOpened(home, mode) EXCEPT !.left = @ - 1]
    /\ UNCHANGED <<homeUploads, homeTasks, homeFate>>

CloseAuth ==
    /\ HomeGesture("close") /\ home.dialog # "closed"
    /\ home' = [home EXCEPT !.dialog = "closed", !.left = @ - 1,
                            !.till = IF @ = "asked" THEN "asked" ELSE "none"]
    /\ UNCHANGED <<homeUploads, homeTasks, homeFate>>

(* submitAuth; the timer of an earlier one has fired by then.                *)
SubmitAuth ==
    /\ HomeGesture("sign") /\ home.dialog = "form" /\ ~HomeBusy /\ home.late = <<>>
    /\ home' = [home EXCEPT !.signing = <<[keyed |-> home.key, mode |-> home.mode]>>, !.left = @ - 1]
    /\ UNCHANGED <<homeUploads, homeTasks, homeFate>>

(* Signed in: the files that wait go to a timer, whose call holds the key of *)
(* when the form was submitted. A new account is shown the plans.            *)
SignedIn(created) ==
    /\ home.signing # <<>>
    /\ home' = [home EXCEPT
                  !.key = TRUE, !.signing = <<>>, !.pending = <<>>,
                  !.late = IF home.pending = <<>> THEN <<>>
                           ELSE <<[keyed |-> home.signing[1].keyed, files |-> home.pending]>>,
                  !.dialog = IF (created \/ home.signing[1].mode = "signup") /\ @ # "closed"
                             THEN "plans" ELSE "closed"]
    /\ UNCHANGED <<homeUploads, homeTasks, homeFate>>

SignInRefused ==
    /\ home.signing # <<>>
    /\ home' = [home EXCEPT !.signing = <<>>]
    /\ UNCHANGED <<homeUploads, homeTasks, homeFate>>

LateUpload ==
    /\ home.late # <<>>
    /\ UploadAssets([home EXCEPT !.late = <<>>], home.late[1].keyed, home.late[1].files)
    /\ UNCHANGED <<homeTasks, homeFate>>

(* startCheckout, and its answer: a form of the payment service is shown if  *)
(* the plans still are.                                                      *)
StartCheckout ==
    /\ HomeGesture("buy") /\ home.key /\ home.dialog = "plans" /\ ~HomeBusy
    /\ home' = [home EXCEPT !.till = "asked", !.left = @ - 1]
    /\ UNCHANGED <<homeUploads, homeTasks, homeFate>>

CheckoutAnswered(ok) ==
    /\ home.till = "asked"
    /\ home' = [home EXCEPT !.till = IF ok /\ home.dialog = "plans" THEN "shown" ELSE "none"]
    /\ UNCHANGED <<homeUploads, homeTasks, homeFate>>

(* onComplete: the profile is fetched, and again after a moment.             *)
CheckoutCompleted ==
    /\ home.till = "shown"
    /\ home' = [home EXCEPT !.till = "none", !.dialog = "closed", !.refreshing = @ + 2]
    /\ UNCHANGED <<homeUploads, homeTasks, homeFate>>

SoftRefresh ==
    /\ home.refreshing > 0
    /\ home' = [home EXCEPT !.refreshing = @ - 1]
    /\ UNCHANGED <<homeUploads, homeTasks, homeFate>>

(* ------------------------------------------------------------ generations -- *)

Carded == {i \in DOMAIN homeTasks : homeTasks[i].card # "off"}

(* The new card comes first; the list keeps the newest.                      *)
WithCard(task) ==
    LET full == Cardinality(Carded) >= HomeCards
        oldest == CHOOSE i \in Carded : \A j \in Carded : i <= j
    IN Append(IF full THEN [homeTasks EXCEPT ![oldest].card = "off"] ELSE homeTasks, task)

(* generate: what the page shows is read at the click. With the loop or the  *)
(* music on and no frame, an opening frame is made first.                    *)
FirstCall(mode, frames) ==
    CASE mode = "images" -> "image"
      [] mode \in {"loop", "music"} /\ frames = <<>> -> "anchor"
      [] OTHER -> "post"

GenerateHome(mode, upscale, frames) ==
    /\ homeTasks' = WithCard([pc |-> FirstCall(mode, frames), upscale |-> upscale, polls |-> 0,
                              card |-> "starting"])
    /\ UNCHANGED homeUploads

(* The button, which works on the frames; loops have at most one.            *)
ClickGenerate(mode, upscale) ==
    /\ HomeGesture("generate") /\ mode \in home.visit.modes
    /\ mode = "loop" => Len(home.frames) <= 1
    /\ IF home.key
       THEN /\ GenerateHome(mode, upscale, home.frames)
            /\ home' = [home EXCEPT !.left = @ - 1]
       ELSE /\ home' = [AuthOpened(home, "signup") EXCEPT !.left = @ - 1]
            /\ UNCHANGED <<homeTasks, homeUploads>>
    /\ UNCHANGED homeFate

(* "Generate video" of a gallery picture: it is added to the frames, and is  *)
(* the one frame of this video.                                              *)
AnimateGallery(g, mode, upscale) ==
    /\ HomeGesture("gallery") /\ HomeGesture("generate") /\ mode \in home.visit.modes
    /\ mode = "loop" => Len(home.frames) <= 1
    /\ LET h == [home EXCEPT !.frames = ChosenLast(g, @), !.left = @ - 1] IN
       IF home.key THEN home' = h /\ GenerateHome(mode, upscale, <<g>>)
       ELSE home' = AuthOpened(h, "signup") /\ UNCHANGED <<homeTasks, homeUploads>>
    /\ homeFate' = [homeFate EXCEPT !.given = @ \union {g}, !.taken = @ \ {g}]

(* updateGenerationTask does nothing for a card that has gone.               *)
TaskMoves(i, pc, card) ==
    /\ homeTasks' = [homeTasks EXCEPT ![i].pc = pc, ![i].card = IF @ = "off" THEN "off" ELSE card,
                                      ![i].polls = IF pc = homeTasks[i].pc THEN @ + 1 ELSE 0]
    /\ UNCHANGED <<home, homeUploads, homeFate>>

TaskAt(i, pc) == i \in DOMAIN homeTasks /\ homeTasks[i].pc = pc

(* The calls of a generation, each answered well. After images the gallery   *)
(* is loaded again; at the end of all, the profile.                          *)
CallAnswered(i) ==
    \/ TaskAt(i, "image") /\ TaskMoves(i, "gallery", "starting")
    \/ TaskAt(i, "gallery") /\ TaskMoves(i, "refresh", "completed")
    \/ TaskAt(i, "anchor") /\ TaskMoves(i, "post", "starting")
    \/ TaskAt(i, "post") /\ TaskMoves(i, "poll", "queued")
    \/ TaskAt(i, "enlarge") /\ TaskMoves(i, "pollLarge", "upscaling")
    \/ TaskAt(i, "refresh") /\ TaskMoves(i, "end", homeTasks[i].card)

(* pollJob: the job is done.                                                 *)
JobDone(i) ==
    \/ TaskAt(i, "poll") /\ IF homeTasks[i].upscale THEN TaskMoves(i, "enlarge", "upscaling")
                            ELSE TaskMoves(i, "refresh", "completed")
    \/ TaskAt(i, "pollLarge") /\ TaskMoves(i, "refresh", "completed")

(* It is under way, and the page looks again.                                *)
JobWaits(i) ==
    /\ i \in DOMAIN homeTasks /\ homeTasks[i].polls < HomePolls
    /\ \/ TaskAt(i, "poll") /\ \E card \in {"queued", "processing"} : TaskMoves(i, "poll", card)
       \/ TaskAt(i, "pollLarge") /\ TaskMoves(i, "pollLarge", "upscaling")

(* A call or the job failed, or the page gives up: one answer that is an     *)
(* error ends the generation on the page, whatever becomes of the job.       *)
GenerationFails(i) ==
    /\ i \in DOMAIN homeTasks /\ homeTasks[i].pc \notin {"refresh", "end"}
    /\ TaskMoves(i, "end", "failed")

(* The card of a finished generation goes after a moment.                    *)
CardLeaves(i) ==
    /\ i \in DOMAIN homeTasks /\ homeTasks[i].card = "completed"
    /\ homeTasks' = [homeTasks EXCEPT ![i].card = "off"]
    /\ UNCHANGED <<home, homeUploads, homeFate>>

(* -------------------------------------------------------------------- spec -- *)

TaskStep(i) == CallAnswered(i) \/ JobDone(i) \/ JobWaits(i) \/ GenerationFails(i)
UploadStep == \E u \in DOMAIN homeUploads : FileSent(u) \/ AssetsSent(u) \/ AssetsFail(u)
SignStep == (\E created \in BOOLEAN : SignedIn(created)) \/ SignInRefused

HomeNext ==
    \/ \E files \in home.visit.batches : AddFiles(files)
    \/ \E u \in DOMAIN homeUploads : FileSent(u) \/ AssetsSent(u) \/ AssetsFail(u)
    \/ \E f \in ToSet(home.frames) : RemoveFrame(f)
    \/ RemoveSound \/ PromptForSimilar
    \/ \E i, j \in DOMAIN home.frames : ReorderFrames(i, j)
    \/ \E g \in HomeGallery :
         \/ PickGallery(g, ChosenLast(g, home.frames)) \/ PickGallery(g, Chosen1st(g, home.frames))
         \/ \E mode \in home.visit.modes, upscale \in BOOLEAN : AnimateGallery(g, mode, upscale)
    \/ \E mode \in {"signup", "signin"} : OpenAuth(mode)
    \/ CloseAuth \/ SubmitAuth \/ SignStep \/ LateUpload
    \/ StartCheckout \/ (\E ok \in BOOLEAN : CheckoutAnswered(ok)) \/ CheckoutCompleted \/ SoftRefresh
    \/ \E mode \in home.visit.modes, upscale \in BOOLEAN : ClickGenerate(mode, upscale)
    \/ \E i \in DOMAIN homeTasks : TaskStep(i) \/ CardLeaves(i)

(* The handlers that are under way.                                          *)
HomeHandlers == UploadStep \/ SignStep \/ LateUpload \/ \E i \in DOMAIN homeTasks : TaskStep(i)

(* A request is answered or fails, and a timer fires.                        *)
HomeSpec == HomeInit /\ [][HomeNext]_homeVars /\ WF_homeVars(HomeHandlers)

(* -------------------------------------------------------------- properties -- *)

(* Type correctness.                                                         *)
HomeTypeOK ==
    /\ home.visit \in HomeVisits /\ home.left \in 0 .. HomeEdits
    /\ home.dialog \in {"closed", "form", "plans"} /\ home.till \in {"none", "asked", "shown"}
    /\ home.key \in BOOLEAN /\ home.refreshing \in Nat
    /\ Len(home.signing) <= 1 /\ Len(home.late) <= 1 /\ Len(home.sound) <= 1
    /\ \A u \in DOMAIN homeUploads : homeUploads[u].at \in 0 .. Len(homeUploads[u].files)
    /\ Cardinality(Carded) <= HomeCards
    /\ \A i \in DOMAIN homeTasks : homeTasks[i].polls \in 0 .. HomePolls

HomeWaiting == ToSet(home.pending) \union UNION {ToSet(home.late[k].files) : k \in DOMAIN home.late}
HomeSending == UNION {ToSet(homeUploads[u].files) : u \in DOMAIN homeUploads}
Places == <<HomeWaiting, HomeSending, ToSet(home.frames), homeFate.taken, homeFate.told>>

(* Every picture the visitor gave is in exactly one place: it waits for the  *)
(* sign-in, is being sent, is a frame (once), was taken away by the visitor, *)
(* or was lost in a batch whose failure the page told - whatever uploads,    *)
(* removals, reorderings and sign-ins came in between. No frame comes from   *)
(* elsewhere, so what was taken away does not come back by itself.           *)
FilesKeepTheirPlace ==
    /\ \A f \in homeFate.given \ HomeSounds :
         \E k \in DOMAIN Places : \A l \in DOMAIN Places : f \in Places[l] <=> l = k
    /\ ToSet(home.frames) \subseteq homeFate.given
    /\ IsInjective(home.frames)

(* Every generation ends on the page, and the dialog does not stay busy with *)
(* a sign-in.                                                                *)
HomeIdle == home.signing = <<>> /\ \A i \in DOMAIN homeTasks : TaskAt(i, "end")
HomeEnds == ~HomeIdle ~> HomeIdle
=============================================================================
