------------------------------ MODULE PagesProofs ------------------------------
(* Theorems about the pages of the web frontend.                             *)
EXTENDS ToolPages, ImageTools, FiniteSetTheorems, TLAPS

(* ------------------------------------------------------------ image pages -- *)

ImgKinds == {"picture", "brushed", "sent", "words", "lines", "board"}
Picture == [n : Int, stored : BOOLEAN]
MergedMask == [of : Seq(Int), stroke : 0 .. ImgEdits]

ImgRecord ==
    [page : ImgPages, visit : ImgVisits, file : 0 .. ImgEdits, src : Seq(Picture), canvas : Seq(Picture),
     painted : BOOLEAN, brushed : 0 .. ImgEdits, refs : Seq(Picture), output : Seq(MergedMask),
     batches : Seq(Int), edits : 0 .. ImgEdits, runs : Nat, crossed : BOOLEAN]

HandlerRecord ==
    [pc : {"send", "post", "refresh"}, work : Seq(Picture), shown : Seq(Int), canvas : Seq(Picture),
     stroke : 0 .. ImgEdits, still : BOOLEAN, lines : 0 .. 2]

PictureTypes ==
    /\ img \in ImgRecord /\ img.page = img.visit.page
    /\ Len(img.src) <= 1 /\ Len(img.canvas) <= 1 /\ Len(img.output) <= 1 /\ Len(img.refs) <= ImgRefs
    /\ img.edits <= img.visit.edits
    /\ imgLoads \in Seq(Picture) /\ Len(imgLoads) <= 1
    /\ imgPaid \in Seq(Seq(Int))

Numbers(w) == [i \in DOMAIN w |-> w[i].n]

(* What a page without a canvas, and one that sends the file itself, keep.   *)
PageKept ==
    /\ ImgProfile.kind = "sent" /\ img.file # 0 => img.src = LocalPicture(img.file)
    /\ ImgProfile.kind # "brushed" => imgLoads = Blank /\ img.canvas = Blank
    /\ ResultOfPicture

(* The handler works on the pictures that were shown when Run was clicked.   *)
RunKept ==
    /\ ImgProfile.kind \notin {"words", "lines"} => imgRun.shown = Numbers(imgRun.work)
    /\ ImgProfile.kind # "lines" /\ imgRun.pc # "refresh" => imgRun.lines = 1
    /\ imgRun.still \/ ImgProfile.kind \in {"words", "lines"} => imgRun.pc # "send"
    /\ ImgProfile.kind \in {"picture", "brushed"} => Len(imgRun.work) <= 1
    /\ ImgProfile.kind = "picture" =>
         imgRun.work # Blank /\ imgRun.canvas = Blank /\ (img.crossed \/ imgRun.shown = Shown)
    /\ ImgProfile.kind = "brushed" /\ imgRun.still /\ imgRun.pc = "post" =>
         img.crossed \/ (imgLoads = Blank /\ img.brushed = imgRun.stroke)

ImgInv ==
    /\ PictureTypes
    /\ PageKept
    /\ imgRun # NoRun => imgRun \in HandlerRecord /\ RunKept

ImgProfiled(q) == q.kind \in ImgKinds /\ q.clears \in BOOLEAN

LEMMA KindFacts == \A p \in ImgPages : ImgProfiled(ImgProfiles[p])
<1>1. ImgProfiled(Upscale)
    BY DEF ImgProfiled, ImgKinds, ImgPage, Upscale
<1>2. ImgProfiled(Outpaint)
    BY DEF ImgProfiled, ImgKinds, ImgPage, Outpaint
<1>3. ImgProfiled(Relight)
    BY DEF ImgProfiled, ImgKinds, ImgPage, Relight
<1>4. ImgProfiled(StyleTransfer)
    BY DEF ImgProfiled, ImgKinds, ImgPage, StyleTransfer
<1>5. ImgProfiled(NanoBanana)
    BY DEF ImgProfiled, ImgKinds, ImgPage, NanoBanana
<1>6. ImgProfiled(Inpaint)
    BY DEF ImgProfiled, ImgKinds, ImgPage, Inpaint
<1>7. ImgProfiled(Utility)
    BY DEF ImgProfiled, ImgKinds, ImgPage, Utility
<1>8. ImgProfiled(Flux2)
    BY DEF ImgProfiled, ImgKinds, ImgPage, Flux2
<1>9. ImgProfiled(GptImage)
    BY DEF ImgProfiled, ImgKinds, ImgPage, GptImage
<1>10. ImgProfiled(GrokImagine)
    BY DEF ImgProfiled, ImgKinds, ImgPage, GrokImagine
<1>11. ImgProfiled(CinematicCameras)
    BY DEF ImgProfiled, ImgKinds, ImgPage, CinematicCameras
<1>12. ImgProfiled(MakeImage)
    BY DEF ImgProfiled, ImgKinds, ImgPage, MakeImage
<1>13. ImgProfiled(Moodboard)
    BY DEF ImgProfiled, ImgKinds, ImgPage, Moodboard
<1> QED BY <1>1, <1>2, <1>3, <1>4, <1>5, <1>6, <1>7, <1>8, <1>9, <1>10, <1>11, <1>12, <1>13 DEF ImgPages, ImgProfiles

LEMMA PictureIs ==
    /\ \A p \in Picture : p.n \in Int /\ p.stored \in BOOLEAN
    /\ \A p \in Picture, b \in BOOLEAN :
         [p EXCEPT !.stored = b] \in Picture /\ [p EXCEPT !.stored = b].n = p.n
    BY DEF Picture

LEMMA StoreNextFacts ==
    ASSUME NEW w \in Seq(Picture)
    PROVE  /\ StoreNext(w) \in Seq(Picture)
           /\ Len(StoreNext(w)) = Len(w)
           /\ Numbers(StoreNext(w)) = Numbers(w)
<1> DEFINE k == CHOOSE i \in Unstored(w) : \A j \in Unstored(w) : i <= j
           b == TRUE
           p == [w[k] EXCEPT !.stored = b]
           v == [w EXCEPT ![k] = p]
<1>1. StoreNext(w) = v
    BY DEF StoreNext
<1>2. b \in BOOLEAN
    OBVIOUS
<1> HIDE DEF k, b
<1>3. k \in 1 .. Len(w) => p \in Picture /\ p.n = w[k].n
    BY <1>2, PictureIs
<1> HIDE DEF p
<1>4. v \in Seq(Picture) /\ Len(v) = Len(w) /\ DOMAIN v = DOMAIN w
    <2>1. Len(w) \in Nat /\ w \in [1 .. Len(w) -> Picture]
        OBVIOUS
    <2>2. v \in [1 .. Len(w) -> Picture]
        BY <1>3, <2>1
    <2> HIDE DEF v
    <2> QED BY <2>1, <2>2
<1>5. \A i \in DOMAIN w : v[i].n = w[i].n
    BY <1>3
<1>6. Numbers(v) = Numbers(w)
    <2> HIDE DEF v
    <2> QED BY <1>4, <1>5 DEF Numbers
<1> QED BY <1>1, <1>4, <1>6

LEMMA NumbersTypes ==
    ASSUME NEW w \in Seq(Picture)
    PROVE  /\ Numbers(w) \in Seq(Int) /\ Len(Numbers(w)) = Len(w)
           /\ Len(w) = 1 => Numbers(w) = <<w[1].n>>
           /\ w = Blank => Numbers(w) = <<>>
<1>1. \A i \in 1 .. Len(w) : w[i].n \in Int
    BY PictureIs
<1>2. Numbers(w) \in [1 .. Len(w) -> Int]
    BY <1>1 DEF Numbers
<1>3. Numbers(w) \in Seq(Int) /\ Len(Numbers(w)) = Len(w)
    BY <1>2
<1>4. Len(w) = 1 => Numbers(w) = <<w[1].n>>
    BY <1>3 DEF Numbers
<1>5. w = Blank => Numbers(w) = <<>>
    BY <1>3 DEF Blank
<1> QED BY <1>3, <1>4, <1>5

LEMMA LocalTypes ==
    ASSUME NEW n \in Int
    PROVE  /\ LocalPicture(n) \in Seq(Picture) /\ Len(LocalPicture(n)) = 1 /\ LocalPicture(n)[1].n = n
           /\ StoredPicture(n) \in Seq(Picture) /\ Len(StoredPicture(n)) = 1
           /\ Len(LocalPicture(n)) <= 1 /\ Len(StoredPicture(n)) <= 1
    BY DEF LocalPicture, StoredPicture, Picture

LEMMA BlankTypes ==
    /\ Blank \in Seq(Picture) /\ Blank \in Seq(MergedMask) /\ Len(Blank) = 0
    /\ Len(Blank) <= 1 /\ Len(Blank) <= ImgRefs
    /\ <<>> \in Seq(Seq(Int)) /\ Blank = <<>>
    /\ \A w \in Seq(Picture) : w # Blank <=> Len(w) > 0
    /\ \A w \in Seq(MergedMask) : w # Blank <=> Len(w) > 0
    BY ImgBounds DEF Blank

LEMMA ImgInitInv == ImgInit => ImgInv
<1> SUFFICES ASSUME ImgInit PROVE ImgInv
    OBVIOUS
<1>1. PICK visit \in ImgVisits :
         img = [page |-> visit.page, visit |-> visit, file |-> 0,
                src |-> IF ImgProfiles[visit.page].given THEN StoredPicture(-1) ELSE Blank,
                canvas |-> Blank, painted |-> FALSE, brushed |-> 0, refs |-> <<>>,
                output |-> Blank, batches |-> <<>>, edits |-> 0, runs |-> 0, crossed |-> FALSE]
    BY DEF ImgInit
<1> DEFINE src == IF ImgProfiles[visit.page].given THEN StoredPicture(-1) ELSE Blank
<1>2. src \in Seq(Picture) /\ Len(src) <= 1
    <2> DEFINE m == -1
    <2>1. m \in Int
        OBVIOUS
    <2> HIDE DEF m
    <2>2. StoredPicture(m) \in Seq(Picture) /\ Len(StoredPicture(m)) <= 1
        BY <2>1, LocalTypes, Zenon
    <2> QED BY <2>2, BlankTypes DEF m
<1> HIDE DEF src
<1>3. visit.page \in ImgPages /\ visit.edits \in 0 .. ImgEdits
    BY ImgVisitAssumption
<1>4. img \in ImgRecord
    <2> DEFINE no == FALSE
               first == [page |-> visit.page, visit |-> visit, file |-> 0, src |-> src,
                         canvas |-> Blank, painted |-> no, brushed |-> 0, refs |-> Blank,
                         output |-> Blank, batches |-> Blank, edits |-> 0, runs |-> 0, crossed |-> no]
    <2>1. img = first
        BY <1>1 DEF Blank, src
    <2>2. no \in BOOLEAN /\ Blank \in Seq(Int) /\ 0 \in 0 .. ImgEdits
        BY ImgBounds DEF Blank
    <2> HIDE DEF no
    <2> QED BY <1>2, <1>3, <2>1, <2>2, BlankTypes DEF ImgRecord
<1>5. /\ img.page = img.visit.page /\ img.edits = 0 /\ img.visit = visit /\ img.src = src
      /\ img.canvas = Blank /\ img.output = Blank /\ img.refs = Blank /\ img.file = 0
    BY <1>1 DEF Blank, src
<1>6. imgLoads = Blank /\ imgPaid = <<>> /\ imgRun = NoRun
    BY DEF ImgInit
<1> QED BY <1>2, <1>3, <1>4, <1>5, <1>6, BlankTypes DEF ImgInv, PictureTypes, PageKept, ResultOfPicture

(* ------------------------------------------------- image pages: the inputs -- *)

LEMMA RecordTypes ==
    ASSUME img \in ImgRecord
    PROVE  /\ img.page \in ImgPages /\ img.visit \in ImgVisits /\ img.file \in 0 .. ImgEdits
           /\ img.src \in Seq(Picture) /\ img.canvas \in Seq(Picture) /\ img.refs \in Seq(Picture)
           /\ img.output \in Seq(MergedMask) /\ img.batches \in Seq(Int)
           /\ img.brushed \in 0 .. ImgEdits /\ img.edits \in 0 .. ImgEdits /\ img.runs \in Nat
           /\ img.painted \in BOOLEAN /\ img.crossed \in BOOLEAN
    BY DEF ImgRecord

LEMMA GestureStamp ==
    ASSUME PictureTypes, ImgGesture
    PROVE  ImgStamp \in 1 .. ImgEdits /\ ImgStamp \in 0 .. ImgEdits /\ ImgStamp <= img.visit.edits /\ ImgStamp \in Int
<1>1. img.visit \in ImgVisits /\ img.edits \in 0 .. ImgEdits
    BY RecordTypes DEF PictureTypes
<1> DEFINE e == img.edits
           v == img.visit
<1>2. v \in [page : ImgPages, edits : 0 .. ImgEdits, runs : Nat]
    BY <1>1, ImgVisitAssumption
<1>3. v.edits \in 0 .. ImgEdits
    BY <1>2
<1>4. e < v.edits
    BY DEF ImgGesture
<1>5. ImgStamp = e + 1
    BY DEF ImgStamp
<1> HIDE DEF e, v
<1> QED BY <1>1, <1>3, <1>4, <1>5, ImgBounds DEF e, v

LEMMA ShownTypes == PictureTypes => Shown \in Seq(Int)
<1> SUFFICES ASSUME PictureTypes PROVE Shown \in Seq(Int)
    OBVIOUS
<1>1. Numbers(img.refs) \in Seq(Int)
    BY RecordTypes, NumbersTypes DEF PictureTypes
<1>2. img.src # Blank => <<img.src[1].n>> \in Seq(Int)
    <2>1. img.src # Blank => img.src[1] \in Picture
        BY RecordTypes, BlankTypes DEF PictureTypes
    <2> QED BY <2>1, PictureIs
<1> QED BY <1>1, <1>2 DEF Shown, Numbers

(* What the handler relies on when a gesture is made: it keeps to what it    *)
(* holds.                                                                    *)
LEMMA RunStays ==
    ASSUME ImgInv, imgRun' = imgRun, img'.page = img.page,
           ImgProfile.kind = "picture" /\ imgRun # NoRun => img'.crossed \/ (Shown' = Shown /\ img'.crossed = img.crossed),
           ImgProfile.kind = "brushed" /\ imgRun # NoRun =>
             img'.crossed \/ (/\ imgLoads = Blank => imgLoads' = imgLoads /\ img'.brushed = img.brushed
                              /\ img'.crossed = img.crossed)
    PROVE  imgRun' # NoRun => imgRun' \in HandlerRecord /\ RunKept'
<1>1. ImgProfile' = ImgProfile
    BY DEF ImgProfile
<1> SUFFICES ASSUME imgRun # NoRun PROVE imgRun \in HandlerRecord /\ RunKept'
    OBVIOUS
<1>2. imgRun \in HandlerRecord /\ RunKept
    BY DEF ImgInv
<1>3. ImgProfile.kind = "picture" => img'.crossed \/ imgRun.shown = Shown'
    BY <1>2 DEF RunKept
<1>4. ImgProfile.kind = "brushed" /\ imgRun.still /\ imgRun.pc = "post" =>
         img'.crossed \/ (imgLoads' = Blank /\ img'.brushed = imgRun.stroke)
    BY <1>2 DEF RunKept
<1> QED BY <1>1, <1>2, <1>3, <1>4 DEF RunKept

LEMMA BusyIs == ImgInv => (ImgBusy <=> imgRun # NoRun)
    BY DEF ImgInv, ImgBusy, NoRun, HandlerRecord

LEMMA ImgChooseKeeps == ImgInv /\ ImgChoose => ImgInv'
<1> SUFFICES ASSUME ImgInv, ImgChoose PROVE ImgInv'
    OBVIOUS
<1> DEFINE src == LocalPicture(ImgStamp)
           no == FALSE
           output == OutputAfterChoice(img.output)
           crossed == img.crossed \/ ImgBusy
<1>1. /\ img' = [img EXCEPT !.file = ImgStamp, !.src = src, !.painted = no,
                            !.output = output, !.edits = ImgStamp, !.crossed = crossed]
      /\ ImgGesture /\ LoadsFor(src) /\ UNCHANGED <<imgRun, imgPaid>>
    BY DEF ImgChoose
<1>2. PictureTypes /\ img \in ImgRecord
    BY DEF ImgInv, PictureTypes
<1>3. /\ ImgStamp \in 1 .. ImgEdits /\ ImgStamp \in 0 .. ImgEdits /\ ImgStamp <= img.visit.edits
      /\ src \in Seq(Picture) /\ Len(src) <= 1 /\ no \in BOOLEAN
    BY <1>1, <1>2, GestureStamp, LocalTypes
<1>4. /\ output \in Seq(MergedMask) /\ Len(output) <= 1 /\ crossed \in BOOLEAN
      /\ ImgProfile.clears => output = Blank
    BY <1>2, RecordTypes, BlankTypes DEF OutputAfterChoice, PictureTypes, ImgBusy
<1> HIDE DEF src, no, output, crossed
<1>5. img' \in ImgRecord
    BY <1>1, <1>2, <1>3, <1>4 DEF ImgRecord
<1>51. /\ img'.page = img.page /\ img'.visit = img.visit /\ img'.edits = ImgStamp
      /\ img'.file = ImgStamp /\ img'.src = src /\ img'.canvas = img.canvas /\ img'.output = output
      /\ img'.refs = img.refs
    BY <1>1, <1>2 DEF ImgRecord
<1>52. img'.crossed = crossed
    BY <1>1, <1>2 DEF ImgRecord
<1>6. ImgProfile' = ImgProfile
    BY <1>51 DEF ImgProfile
<1>7. imgLoads' \in Seq(Picture) /\ Len(imgLoads') <= 1 /\ (ImgProfile.kind # "brushed" => imgLoads' = imgLoads)
    <2>1. IF ImgProfile.kind = "brushed" THEN imgLoads' = src ELSE imgLoads' = imgLoads
        BY <1>1 DEF LoadsFor
    <2>2. imgLoads \in Seq(Picture) /\ Len(imgLoads) <= 1
        BY <1>2 DEF PictureTypes
    <2>3. CASE imgLoads' = src
        BY <1>3, <2>1, <2>3
    <2> QED BY <2>1, <2>2, <2>3
<1>8. PictureTypes'
    BY <1>1, <1>2, <1>3, <1>4, <1>5, <1>51, <1>7 DEF PictureTypes
<1>9. PageKept'
    BY <1>4, <1>51, <1>52, <1>6, <1>7 DEF ImgInv, PageKept, ResultOfPicture, src
<1>10. imgRun' # NoRun => imgRun' \in HandlerRecord /\ RunKept'
    <2>1. imgRun # NoRun => img'.crossed
        BY <1>52, BusyIs DEF crossed
    <2> QED BY <1>1, <1>51, <2>1, RunStays
<1> QED BY <1>8, <1>9, <1>10 DEF ImgInv

LEMMA CanvasKeeps == ImgInv /\ CanvasLoads => ImgInv'
<1> SUFFICES ASSUME ImgInv, CanvasLoads PROVE ImgInv'
    OBVIOUS
<1> DEFINE no == FALSE
           zero == 0
<1>1. /\ img' = [img EXCEPT !.canvas = imgLoads, !.painted = no, !.brushed = zero]
      /\ imgLoads # Blank /\ imgLoads' = Blank /\ UNCHANGED <<imgRun, imgPaid>>
    BY DEF CanvasLoads
<1>2. PictureTypes /\ img \in ImgRecord /\ imgLoads \in Seq(Picture) /\ Len(imgLoads) <= 1
    BY DEF ImgInv, PictureTypes
<1>3. no \in BOOLEAN /\ zero \in 0 .. ImgEdits
    BY ImgBounds
<1> HIDE DEF no, zero
<1>4. img' \in ImgRecord
    BY <1>1, <1>2, <1>3 DEF ImgRecord
<1>5. /\ img'.page = img.page /\ img'.visit = img.visit /\ img'.edits = img.edits
      /\ img'.file = img.file /\ img'.src = img.src /\ img'.canvas = imgLoads /\ img'.output = img.output
      /\ img'.refs = img.refs
    BY <1>1, <1>2 DEF ImgRecord
<1>6. img'.crossed = img.crossed
    BY <1>1, <1>2 DEF ImgRecord
<1>7. ImgProfile' = ImgProfile /\ ImgProfile.kind = "brushed"
    BY <1>1, <1>5 DEF ImgInv, PageKept, ImgProfile
<1>8. PictureTypes'
    BY <1>1, <1>2, <1>4, <1>5, BlankTypes DEF PictureTypes
<1>9. PageKept'
    BY <1>5, <1>7 DEF ImgInv, PageKept, ResultOfPicture
<1>10. imgRun' # NoRun => imgRun' \in HandlerRecord /\ RunKept'
    BY <1>1, <1>5, <1>6, <1>7, RunStays
<1> QED BY <1>8, <1>9, <1>10 DEF ImgInv

LEMMA BrushKeeps == ImgInv /\ (ImgBrush \/ ClearMask) => ImgInv'
<1> SUFFICES ASSUME ImgInv, ImgBrush \/ ClearMask PROVE ImgInv'
    OBVIOUS
<1>1. PICK yes \in BOOLEAN, stroke \in {0, ImgStamp} :
        /\ img' = [img EXCEPT !.painted = yes, !.brushed = stroke, !.edits = ImgStamp,
                              !.crossed = img.crossed \/ ImgBusy]
        /\ ImgGesture /\ Canvas /\ UNCHANGED <<imgRun, imgLoads, imgPaid>>
    <2>1. CASE ClearMask
        <3> DEFINE no == FALSE
        <3>1. img' = [img EXCEPT !.painted = no, !.brushed = 0, !.edits = ImgStamp,
                                 !.crossed = img.crossed \/ ImgBusy]
            BY <2>1 DEF ClearMask
        <3> QED BY <2>1, <3>1 DEF ClearMask
    <2>2. CASE ImgBrush
        <3> DEFINE yes == TRUE
                   crossed == img.crossed \/ ImgBusy
        <3>1. img' = [img EXCEPT !.painted = yes, !.brushed = ImgStamp, !.edits = ImgStamp]
            BY <2>2 DEF ImgBrush
        <3>2. img \in ImgRecord /\ yes \in BOOLEAN
            BY DEF ImgInv, PictureTypes
        <3>3. crossed = img.crossed
            BY <2>2, <3>2, RecordTypes DEF ImgBrush
        <3> HIDE DEF crossed, yes
        <3>4. img' = [img EXCEPT !.painted = yes, !.brushed = ImgStamp, !.edits = ImgStamp, !.crossed = crossed]
            BY <3>1, <3>2, <3>3 DEF ImgRecord
        <3> QED BY <2>2, <3>2, <3>4 DEF ImgBrush, crossed
    <2> QED BY <2>1, <2>2
<1> DEFINE crossed == img.crossed \/ ImgBusy
<1>2. PictureTypes /\ img \in ImgRecord
    BY DEF ImgInv, PictureTypes
<1>3. /\ ImgStamp \in 0 .. ImgEdits /\ ImgStamp <= img.visit.edits /\ stroke \in 0 .. ImgEdits
      /\ crossed \in BOOLEAN
    BY <1>1, <1>2, RecordTypes, GestureStamp, ImgBounds DEF ImgBusy
<1>4. img' = [img EXCEPT !.painted = yes, !.brushed = stroke, !.edits = ImgStamp, !.crossed = crossed]
    BY <1>1
<1> HIDE DEF crossed
<1>5. img' \in ImgRecord
    BY <1>2, <1>3, <1>4 DEF ImgRecord
<1>6. /\ img'.page = img.page /\ img'.visit = img.visit /\ img'.edits = ImgStamp
      /\ img'.file = img.file /\ img'.src = img.src /\ img'.canvas = img.canvas /\ img'.output = img.output
      /\ img'.refs = img.refs
    BY <1>2, <1>4 DEF ImgRecord
<1>7. img'.crossed = crossed
    BY <1>2, <1>4 DEF ImgRecord
<1>8. ImgProfile' = ImgProfile /\ ImgProfile.kind = "brushed"
    BY <1>1, <1>6 DEF Canvas, ImgProfile
<1>9. PictureTypes'
    BY <1>1, <1>2, <1>3, <1>5, <1>6 DEF PictureTypes
<1>10. PageKept'
    BY <1>6, <1>8 DEF ImgInv, PageKept, ResultOfPicture
<1>11. imgRun # NoRun => img'.crossed
    BY <1>7, BusyIs DEF crossed
<1>12. imgRun' # NoRun => imgRun' \in HandlerRecord /\ RunKept'
    BY <1>1, <1>6, <1>11, RunStays
<1> QED BY <1>9, <1>10, <1>12 DEF ImgInv

LEMMA RemoveTypes ==
    ASSUME NEW w \in Seq(Picture), NEW i \in DOMAIN w
    PROVE  RemoveAt(w, i) \in Seq(Picture) /\ Len(RemoveAt(w, i)) <= Len(w)
<1>1. Len(w) \in Nat /\ i \in 1 .. Len(w)
    OBVIOUS
<1>2. /\ SubSeq(w, 1, i - 1) \in Seq(Picture) /\ Len(SubSeq(w, 1, i - 1)) = i - 1
      /\ SubSeq(w, i + 1, Len(w)) \in Seq(Picture) /\ Len(SubSeq(w, i + 1, Len(w))) = Len(w) - i
    BY <1>1
<1> DEFINE a == SubSeq(w, 1, i - 1)
           b == SubSeq(w, i + 1, Len(w))
<1>3. RemoveAt(w, i) = a \o b
    BY DEF RemoveAt
<1> HIDE DEF a, b
<1>4. a \o b \in Seq(Picture) /\ Len(a \o b) = Len(a) + Len(b)
    BY <1>2 DEF a, b
<1> QED BY <1>1, <1>2, <1>3, <1>4 DEF a, b

LEMMA BoardKeeps == ImgInv /\ (BoardAdd \/ \E i \in 1 .. ImgRefs : BoardRemove(i)) => ImgInv'
<1> SUFFICES ASSUME ImgInv, BoardAdd \/ \E i \in 1 .. ImgRefs : BoardRemove(i) PROVE ImgInv'
    OBVIOUS
<1>1. PictureTypes /\ img \in ImgRecord /\ img.refs \in Seq(Picture) /\ Len(img.refs) <= ImgRefs
      /\ img.output \in Seq(MergedMask) /\ Len(img.output) <= 1 /\ ImgGesture
    BY RecordTypes DEF ImgInv, PictureTypes, BoardAdd, BoardRemove
<1>2. /\ ImgStamp \in 0 .. ImgEdits /\ ImgStamp <= img.visit.edits
      /\ LocalPicture(ImgStamp) \in Seq(Picture) /\ Len(LocalPicture(ImgStamp)) = 1
    BY <1>1, GestureStamp, LocalTypes
<1> DEFINE crossed == img.crossed \/ ImgBusy
<1> DEFINE Moves(refs, output) ==
             /\ img' = [img EXCEPT !.refs = refs, !.output = output, !.edits = ImgStamp, !.crossed = crossed]
             /\ Len(refs) <= ImgRefs /\ Len(output) <= 1
<1>3. PICK refs \in Seq(Picture), output \in Seq(MergedMask) : Moves(refs, output)
    <2>1. CASE BoardAdd
        <3> DEFINE refs == img.refs \o LocalPicture(ImgStamp)
        <3>1. img' = [img EXCEPT !.refs = refs, !.edits = ImgStamp, !.crossed = crossed]
            BY <2>1 DEF BoardAdd
        <3>2. refs \in Seq(Picture) /\ Len(refs) = Len(img.refs) + Len(LocalPicture(ImgStamp))
            <4> DEFINE a == img.refs
                       b == LocalPicture(ImgStamp)
            <4>1. a \in Seq(Picture) /\ b \in Seq(Picture)
                BY <1>1, <1>2
            <4> HIDE DEF a, b
            <4>2. a \o b \in Seq(Picture) /\ Len(a \o b) = Len(a) + Len(b)
                BY <4>1
            <4> QED BY <4>2 DEF a, b
        <3>3. Len(refs) <= ImgRefs
            <4>1. Len(img.refs) < ImgRefs /\ Len(img.refs) \in Nat
                BY <1>1, <2>1 DEF BoardAdd, BoardFits
            <4> HIDE DEF refs
            <4> QED BY <1>2, <3>2, <4>1, ImgBounds
        <3> HIDE DEF refs, crossed
        <3>4. img' = [img EXCEPT !.refs = refs, !.output = img.output, !.edits = ImgStamp, !.crossed = crossed]
            BY <1>1, <3>1 DEF ImgRecord
        <3> QED BY <1>1, <3>2, <3>3, <3>4
    <2>2. ASSUME NEW i \in 1 .. ImgRefs, BoardRemove(i)
          PROVE \E refs \in Seq(Picture), output \in Seq(MergedMask) : Moves(refs, output)
        <3> DEFINE refs == RemoveAt(img.refs, i)
        <3>1. img' = [img EXCEPT !.refs = refs, !.output = Blank, !.edits = ImgStamp, !.crossed = crossed]
            BY <2>2 DEF BoardRemove
        <3>2. refs \in Seq(Picture) /\ Len(refs) <= Len(img.refs) /\ Len(refs) \in Nat /\ Len(img.refs) \in Nat
            <4> DEFINE a == img.refs
            <4>1. a \in Seq(Picture) /\ i \in DOMAIN a
                BY <1>1, <2>2 DEF BoardRemove
            <4> HIDE DEF a
            <4>2. RemoveAt(a, i) \in Seq(Picture) /\ Len(RemoveAt(a, i)) <= Len(a)
                BY <4>1, RemoveTypes
            <4>3. Len(a) \in Nat /\ Len(RemoveAt(a, i)) \in Nat
                BY <4>1, <4>2
            <4> QED BY <4>2, <4>3 DEF a
        <3> HIDE DEF refs, crossed
        <3>3. Len(refs) <= ImgRefs
            BY <1>1, <3>2, ImgBounds
        <3> QED BY <3>1, <3>2, <3>3, BlankTypes
    <2> QED BY <2>1, <2>2
<1>4. crossed \in BOOLEAN
    BY <1>1, RecordTypes DEF ImgBusy
<1>5. UNCHANGED <<imgRun, imgLoads, imgPaid>> /\ ImgProfile.kind = "board"
    BY DEF BoardAdd, BoardRemove
<1> HIDE DEF crossed
<1>6. img' \in ImgRecord
    BY <1>1, <1>2, <1>3, <1>4 DEF ImgRecord
<1>7. /\ img'.page = img.page /\ img'.visit = img.visit /\ img'.edits = ImgStamp
      /\ img'.file = img.file /\ img'.src = img.src /\ img'.canvas = img.canvas /\ img'.output = output
      /\ img'.refs = refs
    BY <1>1, <1>3 DEF ImgRecord
<1>8. ImgProfile' = ImgProfile
    BY <1>7 DEF ImgProfile
<1>9. PictureTypes'
    BY <1>1, <1>2, <1>3, <1>5, <1>6, <1>7 DEF PictureTypes
<1>10. PageKept'
    BY <1>5, <1>7, <1>8 DEF ImgInv, PageKept, ResultOfPicture
<1>11. imgRun' # NoRun => imgRun' \in HandlerRecord /\ RunKept'
    BY <1>5, <1>7, RunStays
<1> QED BY <1>9, <1>10, <1>11 DEF ImgInv

(* ---------------------------------------------------- image pages: the run -- *)

LEMMA ShownIs ==
    ASSUME ImgInv
    PROVE  /\ img.src # Blank => Len(img.src) = 1 /\ Numbers(img.src) = <<img.src[1].n>>
           /\ img.src = Blank => Numbers(img.src) = <<>>
           /\ ImgProfile.kind = "board" => Shown = Numbers(img.refs)
           /\ ImgProfile.kind # "board" => Shown = Numbers(img.src)
<1> DEFINE a == img.src
<1>1. a \in Seq(Picture) /\ Len(a) <= 1 /\ Len(a) \in Nat
    BY RecordTypes DEF ImgInv, PictureTypes
<1> HIDE DEF a
<1>2. a # Blank => Len(a) = 1
    <2>1. a # Blank => Len(a) > 0
        BY <1>1, BlankTypes, Zenon
    <2> DEFINE n == Len(a)
    <2>2. n \in Nat /\ n <= 1 /\ (a # Blank => n > 0)
        BY <1>1, <2>1
    <2> HIDE DEF n
    <2>3. n > 0 => n = 1
        BY <2>2
    <2> QED BY <2>2, <2>3 DEF n
<1>3. /\ a # Blank => Numbers(a) = <<a[1].n>>
      /\ a = Blank => Numbers(a) = <<>>
    BY <1>1, <1>2, NumbersTypes
<1>4. ImgProfile.kind = "board" => Shown = Numbers(img.refs)
    BY DEF Shown, Numbers
<1>5. ImgProfile.kind # "board" => Shown = IF img.src = Blank THEN <<>> ELSE <<img.src[1].n>>
    BY DEF Shown
<1> QED BY <1>2, <1>3, <1>4, <1>5 DEF a

LEMMA WorkIs ==
    ASSUME ImgInv, ImgClick
    PROVE  /\ Work \in Seq(Picture)
           /\ ImgProfile.kind \notin {"words", "lines"} => Shown = Numbers(Work)
           /\ ImgProfile.kind \in {"picture", "brushed"} => Work = img.src
           /\ ImgProfile.kind \in {"words", "lines"} => Work = Blank
<1>1. PictureTypes /\ img \in ImgRecord /\ ImgProfile.kind \in ImgKinds
    BY RecordTypes, KindFacts DEF ImgInv, PictureTypes, ImgProfile, ImgProfiled
<1>2. CASE ImgProfile.kind = "board"
    <2>1. Work = img.refs
        BY <1>2 DEF Work
    <2> QED BY <1>1, <1>2, <2>1, RecordTypes, ShownIs
<1>3. CASE ImgProfile.kind = "sent"
    <2>1. Work = LocalPicture(img.file) /\ img.file # 0
        BY <1>3 DEF Work, ImgClick
    <2>2. img.src = Work
        BY <1>3, <2>1 DEF ImgInv, PageKept
    <2> QED BY <1>1, <1>3, <2>2, RecordTypes, ShownIs
<1>4. CASE ImgProfile.kind \in {"words", "lines"}
    <2>1. Work = Blank
        BY <1>4 DEF Work, Blank
    <2> QED BY <1>4, <2>1, BlankTypes
<1>5. CASE ImgProfile.kind \in {"picture", "brushed"}
    <2>1. Work = img.src
        BY <1>5 DEF Work
    <2> QED BY <1>1, <1>5, <2>1, RecordTypes, ShownIs
<1> QED BY <1>1, <1>2, <1>3, <1>4, <1>5 DEF ImgKinds

LEMMA ClickStarts == ImgInv /\ ImgClick => ImgInv'
<1> SUFFICES ASSUME ImgInv, ImgClick PROVE ImgInv'
    OBVIOUS
<1> DEFINE output == IF ImgProfile.kind = "sent" THEN Blank ELSE img.output
           runs == img.runs + 1
           pc == IF \E i \in DOMAIN Work : ~Work[i].stored THEN "send" ELSE "post"
           still == imgLoads = Blank /\ \A i \in DOMAIN Work : Work[i].stored
           lines == IF ImgProfile.kind = "lines" THEN 2 ELSE 1
           run == [pc |-> pc, work |-> Work, shown |-> Shown, canvas |-> img.canvas, stroke |-> img.brushed,
                   still |-> still, lines |-> lines]
<1>1. /\ img' = [img EXCEPT !.runs = runs, !.output = output]
      /\ imgRun' = run
      /\ UNCHANGED <<imgLoads, imgPaid>>
    BY DEF ImgClick
<1>2. PictureTypes /\ img \in ImgRecord
    BY DEF ImgInv, PictureTypes
<1>3. /\ runs \in Nat /\ output \in Seq(MergedMask) /\ Len(output) <= 1
      /\ output = img.output \/ output = Blank
    BY <1>2, RecordTypes, BlankTypes DEF PictureTypes
<1>4. /\ pc \in {"send", "post", "refresh"} /\ pc # "refresh" /\ still \in BOOLEAN /\ lines \in 0 .. 2
      /\ still => pc # "send" /\ imgLoads = Blank
      /\ Work = Blank => pc # "send"
      /\ ImgProfile.kind # "lines" => lines = 1
    BY DEF Blank
<1>5. Work \in Seq(Picture) /\ Shown \in Seq(Int) /\ img.canvas \in Seq(Picture) /\ img.brushed \in 0 .. ImgEdits
    BY <1>2, WorkIs, ShownTypes, RecordTypes
<1> HIDE DEF output, runs, pc, still, lines
<1>6. img' \in ImgRecord
    BY <1>1, <1>2, <1>3 DEF ImgRecord
<1>7. /\ img'.page = img.page /\ img'.visit = img.visit /\ img'.edits = img.edits /\ img'.brushed = img.brushed
      /\ img'.file = img.file /\ img'.src = img.src /\ img'.canvas = img.canvas /\ img'.output = output
      /\ img'.refs = img.refs
    BY <1>1, <1>2 DEF ImgRecord
<1>8. img'.crossed = img.crossed
    BY <1>1, <1>2 DEF ImgRecord
<1>9. ImgProfile' = ImgProfile
    BY <1>7 DEF ImgProfile
<1>10. Shown' = Shown
    BY <1>7, <1>9 DEF Shown
<1>11. PictureTypes'
    BY <1>1, <1>2, <1>3, <1>6, <1>7 DEF PictureTypes
<1>12. PageKept'
    BY <1>1, <1>3, <1>7, <1>8, <1>9, <1>10 DEF ImgInv, PageKept, ResultOfPicture
<1>13. run \in HandlerRecord
    BY <1>4, <1>5 DEF HandlerRecord
<1>14. /\ imgRun'.pc = pc /\ imgRun'.work = Work /\ imgRun'.shown = Shown /\ imgRun'.canvas = img.canvas
       /\ imgRun'.stroke = img.brushed /\ imgRun'.lines = lines
       /\ imgRun'.still <=> still
    BY <1>1
<1> HIDE DEF run
<1>15. ImgProfile.kind = "picture" => Work # Blank /\ img.canvas = Blank
    <2>1. ImgProfile.kind = "picture" => img.src # Blank
        BY DEF ImgClick
    <2> QED BY <2>1, WorkIs DEF ImgInv, PageKept
<1>16. ImgProfile.kind \in {"picture", "brushed"} => Len(Work) <= 1
    BY <1>2, WorkIs DEF PictureTypes
<1>17. RunKept'
    BY <1>1, <1>4, <1>7, <1>9, <1>10, <1>14, <1>15, <1>16, WorkIs DEF RunKept
<1> QED BY <1>1, <1>11, <1>12, <1>13, <1>17 DEF ImgInv

LEMMA MakeMoreStarts == ImgInv /\ MakeMore => ImgInv'
<1> SUFFICES ASSUME ImgInv, MakeMore PROVE ImgInv'
    OBVIOUS
<1> DEFINE runs == img.runs + 1
           yes == TRUE
           zero == 0
           run == [pc |-> "post", work |-> Blank, shown |-> Blank, canvas |-> Blank, stroke |-> zero,
                   still |-> yes, lines |-> 1]
<1>1. /\ img' = [img EXCEPT !.runs = runs] /\ imgRun' = run /\ ImgProfile.kind = "lines"
      /\ UNCHANGED <<imgLoads, imgPaid>>
    BY DEF MakeMore, Blank
<1>2. PictureTypes /\ img \in ImgRecord
    BY DEF ImgInv, PictureTypes
<1>3. runs \in Nat /\ yes \in BOOLEAN /\ zero \in 0 .. ImgEdits /\ Blank \in Seq(Int)
    BY <1>2, RecordTypes, ImgBounds DEF Blank
<1> HIDE DEF runs, yes, zero
<1>4. img' \in ImgRecord
    BY <1>1, <1>2, <1>3 DEF ImgRecord
<1>5. /\ img'.page = img.page /\ img'.visit = img.visit /\ img'.edits = img.edits
      /\ img'.file = img.file /\ img'.src = img.src /\ img'.canvas = img.canvas /\ img'.output = img.output
      /\ img'.refs = img.refs
    BY <1>1, <1>2 DEF ImgRecord
<1>6. ImgProfile' = ImgProfile
    BY <1>5 DEF ImgProfile
<1>7. PictureTypes'
    BY <1>1, <1>2, <1>4, <1>5 DEF PictureTypes
<1>8. PageKept'
    BY <1>1, <1>5, <1>6 DEF ImgInv, PageKept, ResultOfPicture
<1>9. run \in HandlerRecord /\ run.pc = "post"
    BY <1>3, BlankTypes DEF HandlerRecord
<1> HIDE DEF run
<1>10. RunKept'
    BY <1>1, <1>6, <1>9 DEF RunKept
<1> QED BY <1>1, <1>7, <1>8, <1>9, <1>10 DEF ImgInv

LEMMA SendsKeepPictures == ImgInv /\ ImgSends => ImgInv'
<1> SUFFICES ASSUME ImgInv, ImgSends PROVE ImgInv'
    OBVIOUS
<1> DEFINE w == StoreNext(imgRun.work)
           pc == IF Unstored(w) = {} THEN "post" ELSE "send"
<1>1. /\ imgRun.pc = "send" /\ imgRun # NoRun
      /\ imgRun' = [imgRun EXCEPT !.work = w, !.pc = pc]
      /\ UNCHANGED imgPaid
    BY DEF ImgSends, NoRun
<1>2. PictureTypes /\ img \in ImgRecord /\ imgRun \in HandlerRecord /\ RunKept /\ ImgProfile.kind \in ImgKinds
    BY <1>1, RecordTypes, KindFacts DEF ImgInv, PictureTypes, ImgProfile, ImgProfiled
<1>3. imgRun.work \in Seq(Picture)
    BY <1>2 DEF HandlerRecord
<1>4. /\ w \in Seq(Picture) /\ Len(w) = Len(imgRun.work) /\ Numbers(w) = Numbers(imgRun.work)
      /\ pc \in {"send", "post"} /\ pc \in {"send", "post", "refresh"} /\ (Unstored(w) # {} => pc = "send")
    BY <1>3, StoreNextFacts
<1>5. \/ UNCHANGED <<img, imgLoads>>
      \/ /\ ImgProfile.kind = "board" /\ img' = [img EXCEPT !.refs = Placed(@, w)] /\ UNCHANGED imgLoads
      \/ /\ ImgProfile.kind \notin {"board", "sent"}
         /\ img' = [img EXCEPT !.src = w, !.file = 0] /\ LoadsFor(w)
    BY DEF ImgSends
<1> HIDE DEF w, pc
<1>6. /\ imgRun' \in HandlerRecord
      /\ imgRun'.work = w /\ imgRun'.pc = pc /\ imgRun'.shown = imgRun.shown /\ imgRun'.canvas = imgRun.canvas
      /\ imgRun'.stroke = imgRun.stroke /\ imgRun'.lines = imgRun.lines
    BY <1>1, <1>2, <1>4 DEF HandlerRecord
<1>7. ~imgRun.still /\ ~imgRun'.still
    BY <1>1, <1>2, <1>4 DEF HandlerRecord, RunKept
<1>8. /\ ImgProfile.kind = "picture" => w # Blank
      /\ ImgProfile.kind \in {"picture", "brushed"} => Len(w) <= 1
    <2>1. ImgProfile.kind = "picture" => imgRun.work # Blank
        BY <1>2 DEF RunKept
    <2>2. imgRun.work # Blank => Len(imgRun.work) > 0
        BY <1>3, BlankTypes
    <2>3. w # Blank <=> Len(w) > 0
        BY <1>4, BlankTypes
    <2> QED BY <1>2, <1>4, <2>1, <2>2, <2>3 DEF RunKept
(* The handler keeps its part when the page shows the picture it did.        *)
<1>9. ASSUME ImgProfile' = ImgProfile, img'.crossed = img.crossed,
             ImgProfile.kind = "picture" => img.crossed \/ Shown' = Shown
      PROVE  RunKept'
    <2>1. imgRun'.pc # "refresh" /\ imgRun.pc # "refresh"
        BY <1>1, <1>4, <1>6
    <2>2. ImgProfile.kind \notin {"words", "lines"}
        BY <1>1, <1>2 DEF RunKept
    <2> QED BY <1>2, <1>4, <1>6, <1>7, <1>8, <1>9, <2>1, <2>2 DEF RunKept
<1>10. CASE UNCHANGED <<img, imgLoads>>
    <2>1. PictureTypes'
        BY <1>1, <1>2, <1>10 DEF PictureTypes
    <2>2. PageKept' /\ ImgProfile' = ImgProfile /\ Shown' = Shown
        BY <1>10 DEF ImgInv, PageKept, ResultOfPicture, ImgProfile, Shown
    <2> QED BY <1>6, <1>9, <1>10, <2>1, <2>2 DEF ImgInv
<1>11. CASE ImgProfile.kind = "board" /\ img' = [img EXCEPT !.refs = Placed(@, w)] /\ UNCHANGED imgLoads
    <2> DEFINE refs == Placed(img.refs, w)
               a == img.refs
    <2>1. refs \in Seq(Picture) /\ Len(refs) = Len(img.refs)
        <3>1. a \in Seq(Picture)
            BY <1>2, RecordTypes
        <3> HIDE DEF a
        <3> DEFINE yes == TRUE
                   zero == 0
                   none == [n |-> zero, stored |-> yes]
        <3>2. yes \in BOOLEAN /\ zero \in Int
            OBVIOUS
        <3> HIDE DEF yes, zero
        <3>3. none \in Picture
            BY <3>2 DEF Picture
        <3>4. Placed(a, w) = [i \in DOMAIN a |-> IF i \in DOMAIN w THEN w[i] ELSE none]
            BY DEF Placed, none, yes, zero
        <3> HIDE DEF none
        <3>5. Placed(a, w) \in [1 .. Len(a) -> Picture] /\ Len(a) \in Nat
            BY <1>4, <3>1, <3>3, <3>4
        <3>6. Placed(a, w) \in Seq(Picture) /\ Len(Placed(a, w)) = Len(a)
            BY <3>5
        <3> QED BY <3>6 DEF a
    <2>2. img' = [img EXCEPT !.refs = refs]
        BY <1>11
    <2> HIDE DEF refs
    <2>3. img' \in ImgRecord
        BY <1>2, <2>1, <2>2 DEF ImgRecord
    <2>4. /\ img'.page = img.page /\ img'.visit = img.visit /\ img'.edits = img.edits
          /\ img'.file = img.file /\ img'.src = img.src /\ img'.canvas = img.canvas /\ img'.output = img.output
          /\ img'.refs = refs
        BY <1>2, <2>2 DEF ImgRecord
    <2>5. img'.crossed = img.crossed
        BY <1>2, <2>2 DEF ImgRecord
    <2>6. ImgProfile' = ImgProfile
        BY <2>4 DEF ImgProfile
    <2>7. PictureTypes'
        BY <1>1, <1>2, <1>11, <2>1, <2>3, <2>4 DEF PictureTypes
    <2>8. PageKept'
        BY <1>11, <2>4, <2>6 DEF ImgInv, PageKept, ResultOfPicture
    <2> QED BY <1>6, <1>9, <1>11, <2>5, <2>6, <2>7, <2>8 DEF ImgInv
<1>12. CASE /\ ImgProfile.kind \notin {"board", "sent"}
            /\ img' = [img EXCEPT !.src = w, !.file = 0] /\ LoadsFor(w)
    <2> DEFINE zero == 0
    <2>1. img' = [img EXCEPT !.src = w, !.file = zero] /\ zero \in 0 .. ImgEdits
        BY <1>12, ImgBounds
    <2>2. Len(w) <= 1
        <3>1. ImgProfile.kind \in {"picture", "brushed"}
            BY <1>1, <1>2, <1>12 DEF RunKept, ImgKinds
        <3> QED BY <1>8, <3>1
    <2> HIDE DEF zero
    <2>3. img' \in ImgRecord
        BY <1>2, <1>4, <2>1 DEF ImgRecord
    <2>4. /\ img'.page = img.page /\ img'.visit = img.visit /\ img'.edits = img.edits
          /\ img'.src = w /\ img'.canvas = img.canvas /\ img'.output = img.output
          /\ img'.refs = img.refs
        BY <1>2, <2>1 DEF ImgRecord
    <2>5. img'.crossed = img.crossed
        BY <1>2, <2>1 DEF ImgRecord
    <2>6. ImgProfile' = ImgProfile
        BY <2>4 DEF ImgProfile
    <2>7. imgLoads' \in Seq(Picture) /\ Len(imgLoads') <= 1 /\ (ImgProfile.kind # "brushed" => imgLoads' = imgLoads)
        <3>1. IF ImgProfile.kind = "brushed" THEN imgLoads' = w ELSE imgLoads' = imgLoads
            BY <1>12 DEF LoadsFor
        <3> QED BY <1>2, <1>4, <2>2, <3>1 DEF PictureTypes
    <2>8. PictureTypes'
        BY <1>1, <1>2, <1>4, <2>2, <2>3, <2>4, <2>7 DEF PictureTypes
    <2>9. ImgProfile.kind = "picture" => img.crossed \/ Shown' = Shown
        <3> SUFFICES ASSUME ImgProfile.kind = "picture", ~img.crossed PROVE Shown' = Shown
            OBVIOUS
        <3>1. Shown = Numbers(w)
            BY <1>2, <1>4 DEF RunKept
        <3>2. Shown' = IF w = Blank THEN <<>> ELSE <<w[1].n>>
            BY <2>4, <2>6 DEF Shown
        <3>3. w # Blank /\ Len(w) = 1
            <4> DEFINE n == Len(w)
            <4>1. n \in Nat /\ n <= 1
                BY <1>4, <2>2
            <4>2. w # Blank /\ n > 0
                BY <1>4, <1>8, BlankTypes
            <4> HIDE DEF n
            <4>3. n = 1
                BY <4>1, <4>2
            <4> QED BY <4>2, <4>3 DEF n
        <3>4. Numbers(w) = <<w[1].n>>
            BY <1>4, <3>3, NumbersTypes
        <3> QED BY <3>1, <3>2, <3>3, <3>4
    <2>10. PageKept'
        BY <1>12, <2>4, <2>5, <2>6, <2>7, <2>9 DEF ImgInv, PageKept, ResultOfPicture
    <2> QED BY <1>6, <1>9, <2>5, <2>6, <2>8, <2>9, <2>10 DEF ImgInv
<1> QED BY <1>5, <1>10, <1>11, <1>12

(* What one answer does, with the properties that are about it.              *)
LEMMA PostsKeepPictures ==
    ASSUME ImgInv, ImgPosts
    PROVE  ImgInv' /\ SentIsShown /\ BrushedRegionEdited
<1>1. /\ imgRun # NoRun /\ imgRun.pc = "post" /\ UNCHANGED imgLoads
      /\ imgPaid' = Append(imgPaid, Numbers(imgRun.work))
    BY DEF ImgPosts, NoRun, Numbers
<1>2. PictureTypes /\ img \in ImgRecord /\ imgRun \in HandlerRecord /\ RunKept
    BY <1>1 DEF ImgInv, PictureTypes
<1>3. imgRun.work \in Seq(Picture) /\ imgRun.shown \in Seq(Int) /\ imgRun.canvas \in Seq(Picture) /\ imgRun.lines \in 0 .. 2
    BY <1>2 DEF HandlerRecord
<1>4. imgPaid \in Seq(Seq(Int)) /\ imgPaid' \in Seq(Seq(Int)) /\ imgPaid'[Len(imgPaid')] = Numbers(imgRun.work)
      /\ Len(imgPaid') \in Int
    <2> DEFINE x == Numbers(imgRun.work)
    <2>1. x \in Seq(Int)
        BY <1>3, NumbersTypes
    <2>2. imgPaid \in Seq(Seq(Int))
        BY <1>2 DEF PictureTypes
    <2> HIDE DEF x
    <2>3. Append(imgPaid, x) \in Seq(Seq(Int)) /\ Append(imgPaid, x)[Len(Append(imgPaid, x))] = x
          /\ Len(Append(imgPaid, x)) \in Int
        BY <2>1, <2>2
    <2> QED BY <1>1, <2>2, <2>3 DEF x
<1>5. SentIsShown
    BY <1>2, <1>4 DEF SentIsShown, RunKept
<1>6. CASE ImgProfile.kind = "brushed" /\ ~Mounted
    <2>1. imgRun' = NoRun /\ UNCHANGED img
        BY <1>6 DEF ImgPosts
    <2>2. PictureTypes'
        BY <1>1, <1>2, <1>4, <2>1 DEF PictureTypes
    <2>3. PageKept'
        BY <1>1, <2>1 DEF ImgInv, PageKept, ResultOfPicture, ImgProfile, Shown
    <2>4. BrushedRegionEdited
        BY <2>1 DEF BrushedRegionEdited, Merges
    <2> QED BY <1>5, <2>1, <2>2, <2>3, <2>4 DEF ImgInv
<1>7. CASE ImgProfile.kind # "brushed" \/ Mounted
    <2> DEFINE pc == IF imgRun.lines = 1 THEN "refresh" ELSE "post"
               lines == imgRun.lines - 1
    <2>1. imgRun' = [imgRun EXCEPT !.lines = lines, !.pc = pc] /\ imgRun.lines > 0
        BY <1>7 DEF ImgPosts
    <2>2. lines \in 0 .. 2 /\ pc \in {"post", "refresh"} /\ pc \in {"send", "post", "refresh"}
          /\ (imgRun.lines = 1 => pc = "refresh")
        BY <1>3, <2>1
    <2> HIDE DEF pc, lines
    <2>3. /\ imgRun' \in HandlerRecord
          /\ imgRun'.work = imgRun.work /\ imgRun'.pc = pc /\ imgRun'.shown = imgRun.shown
          /\ imgRun'.canvas = imgRun.canvas /\ imgRun'.stroke = imgRun.stroke
        BY <1>2, <2>1, <2>2 DEF HandlerRecord
    <2>4. imgRun' # NoRun
        BY <2>2, <2>3 DEF NoRun
    <2>5. CASE ImgProfile.kind = "lines"
        <3> DEFINE batches == Append(img.batches, Len(imgPaid'))
        <3>1. img' = [img EXCEPT !.batches = batches]
            BY <1>7, <2>5 DEF ImgPosts
        <3>2. batches \in Seq(Int)
            <4> DEFINE a == img.batches
                       n == Len(imgPaid')
            <4>1. a \in Seq(Int) /\ n \in Int
                BY <1>2, <1>4, RecordTypes
            <4> HIDE DEF a, n
            <4>2. Append(a, n) \in Seq(Int)
                BY <4>1
            <4> QED BY <4>2 DEF a, n
        <3> HIDE DEF batches
        <3>3. img' \in ImgRecord
            BY <1>2, <3>1, <3>2 DEF ImgRecord
        <3>4. /\ img'.page = img.page /\ img'.visit = img.visit /\ img'.edits = img.edits
              /\ img'.file = img.file /\ img'.src = img.src /\ img'.canvas = img.canvas /\ img'.output = img.output
              /\ img'.refs = img.refs
            BY <1>2, <3>1 DEF ImgRecord
        <3>5. ImgProfile' = ImgProfile
            BY <3>4 DEF ImgProfile
        <3>6. PictureTypes'
            BY <1>1, <1>2, <1>4, <3>3, <3>4 DEF PictureTypes
        <3>7. PageKept'
            BY <1>1, <2>5, <3>4, <3>5 DEF ImgInv, PageKept, ResultOfPicture
        <3>8. RunKept'
            BY <2>2, <2>3, <2>5, <3>5 DEF RunKept
        <3>9. BrushedRegionEdited
            BY <2>5 DEF BrushedRegionEdited, Merges
        <3> QED BY <1>5, <2>3, <3>6, <3>7, <3>8, <3>9 DEF ImgInv
    <2>6. CASE ImgProfile.kind # "lines"
        <3> DEFINE merged == Composite(img.brushed)
                   zero == 0
        <3>1. img' = [img EXCEPT !.output = <<merged>>, !.brushed = zero]
            BY <1>7, <2>6 DEF ImgPosts
        <3>2. pc = "refresh"
            BY <1>1, <1>2, <2>2, <2>6 DEF RunKept
        <3>3. /\ merged.stroke = img.brushed
              /\ imgRun.canvas = Blank => merged.of = imgRun.shown
            BY DEF Composite
        <3>4. merged \in MergedMask /\ zero \in 0 .. ImgEdits
            <4> DEFINE of == IF imgRun.canvas = Blank THEN imgRun.shown ELSE <<imgRun.canvas[1].n>>
                       b == img.brushed
            <4>1. imgRun.canvas # Blank => <<imgRun.canvas[1].n>> \in Seq(Int)
                <5>1. imgRun.canvas # Blank => imgRun.canvas[1] \in Picture
                    BY <1>3, BlankTypes
                <5> QED BY <5>1, PictureIs
            <4>2. of \in Seq(Int) /\ b \in 0 .. ImgEdits
                BY <1>2, <1>3, <4>1, RecordTypes
            <4> HIDE DEF of, b
            <4>3. [of |-> of, stroke |-> b] \in MergedMask
                BY <4>2 DEF MergedMask
            <4> QED BY <4>3, ImgBounds DEF Composite, of, b
        <3> HIDE DEF merged, zero
        <3>5. <<merged>> \in Seq(MergedMask) /\ Len(<<merged>>) <= 1 /\ <<merged>>[1] = merged /\ <<merged>> # Blank
            BY <3>4 DEF Blank
        <3> DEFINE output == <<merged>>
        <3> HIDE DEF output
        <3>6. output \in Seq(MergedMask) /\ Len(output) <= 1 /\ output[1] = merged /\ output # Blank
              /\ img' = [img EXCEPT !.output = output, !.brushed = zero]
            BY <3>1, <3>5 DEF output
        <3>7. img' \in ImgRecord
            BY <1>2, <3>4, <3>6 DEF ImgRecord
        <3>8. /\ img'.page = img.page /\ img'.visit = img.visit /\ img'.edits = img.edits
              /\ img'.file = img.file /\ img'.src = img.src /\ img'.canvas = img.canvas /\ img'.output = output
              /\ img'.refs = img.refs
            BY <1>2, <3>6 DEF ImgRecord
        <3>9. img'.crossed = img.crossed
            BY <1>2, <3>6 DEF ImgRecord
        <3>10. ImgProfile' = ImgProfile
            BY <3>8 DEF ImgProfile
        <3>11. Shown' = Shown
            BY <3>8, <3>10 DEF Shown
        <3>12. PictureTypes'
            BY <1>1, <1>2, <1>4, <3>6, <3>7, <3>8 DEF PictureTypes
        <3>13. ResultOfPicture'
            <4>1. ImgProfile.kind = "picture" /\ ~img.crossed => merged.of = Shown
                BY <1>2, <3>3 DEF RunKept
            <4> QED BY <3>6, <3>8, <3>9, <3>10, <3>11, <4>1 DEF ResultOfPicture
        <3>14. PageKept'
            BY <1>1, <3>8, <3>10, <3>13 DEF ImgInv, PageKept
        <3>15. RunKept'
            BY <1>2, <2>3, <3>2, <3>9, <3>10, <3>11 DEF RunKept
        <3>16. BrushedRegionEdited
            <4>1. ImgProfile.kind = "brushed" /\ imgRun.still /\ ~img.crossed => img.brushed = imgRun.stroke
                BY <1>1, <1>2 DEF RunKept
            <4> QED BY <3>3, <3>6, <3>8, <4>1 DEF BrushedRegionEdited, Merges
        <3> QED BY <1>5, <2>3, <3>12, <3>14, <3>15, <3>16 DEF ImgInv
    <2> QED BY <2>5, <2>6
<1> QED BY <1>6, <1>7

LEMMA RunEndsKeeps ==
    ASSUME ImgInv, ImgFails \/ ImgEnds \/ UNCHANGED imgVars
    PROVE  ImgInv'
<1>1. imgRun' \in {imgRun, NoRun} /\ UNCHANGED <<img, imgLoads, imgPaid>>
    BY DEF ImgFails, ImgEnds, imgVars
<1>2. PictureTypes' /\ PageKept'
    BY <1>1 DEF ImgInv, PictureTypes, PageKept, ResultOfPicture, ImgProfile, Shown
<1>3. imgRun' = imgRun => (RunKept <=> RunKept')
    BY <1>1 DEF RunKept, ImgProfile, Shown
<1> QED BY <1>1, <1>2, <1>3 DEF ImgInv

LEMMA ImgStep ==
    ASSUME ImgInv, [ImgNext]_imgVars
    PROVE  ImgInv' /\ SentIsShown /\ BrushedRegionEdited
<1>1. CASE ImgPosts
    BY <1>1, PostsKeepPictures
<1>2. CASE ~ImgPosts
    <2>1. ImgInv'
        BY <1>2, ImgChooseKeeps, CanvasKeeps, BrushKeeps, BoardKeeps, ClickStarts, MakeMoreStarts, SendsKeepPictures,
           RunEndsKeeps DEF ImgNext, ImgHandler
    <2>2. imgPaid' = imgPaid
        BY <1>2 DEF ImgNext, ImgHandler, imgVars, ImgChoose, ImgBrush, ClearMask, BoardAdd, BoardRemove,
                    CanvasLoads, ImgClick, MakeMore, ImgSends, ImgEnds, ImgFails
    <2>3. img'.output \in {img.output, Blank} \/ ImgProfile.kind # "brushed" \/ ~ImgBusy
        <3>1. CASE ImgChoose
            BY <3>1 DEF ImgChoose, OutputAfterChoice, ImgInv, PictureTypes, ImgRecord
        <3>2. CASE ImgClick \/ MakeMore \/ ImgBrush \/ BoardAdd \/ \E i \in 1 .. ImgRefs : BoardRemove(i)
            BY <3>2 DEF ImgClick, MakeMore, ImgBrush, BoardAdd, BoardRemove
        <3>3. CASE ClearMask \/ CanvasLoads
            BY <3>3 DEF ClearMask, CanvasLoads, ImgInv, PictureTypes, ImgRecord
        <3>4. CASE ImgSends
            BY <3>4 DEF ImgSends, ImgInv, PictureTypes, ImgRecord
        <3>5. CASE ImgEnds \/ ImgFails \/ UNCHANGED imgVars
            BY <3>5 DEF ImgEnds, ImgFails, imgVars
        <3> QED BY <1>2, <3>1, <3>2, <3>3, <3>4, <3>5 DEF ImgNext, ImgHandler
    <2> QED BY <2>1, <2>2, <2>3 DEF SentIsShown, BrushedRegionEdited, Merges
<1> QED BY <1>1, <1>2

LEMMA ImgTyped ==
    ImgInv => ImgTypeOK
BY RecordTypes DEF ImgInv, PictureTypes, ImgTypeOK, HandlerRecord, NoRun

(* The state of every image page stays what its types say.                   *)
THEOREM ImgTypes == ImgSpec => []ImgTypeOK
<1>2. ImgInv /\ [ImgNext]_imgVars => ImgInv'
    BY ImgStep
<1> QED BY ImgTyped, <1>2, ImgInitInv, PTL DEF ImgSpec

(* An image page shows the result of the picture it shows, pays for the ones *)
(* that were shown when Run was clicked, and edits what had been brushed by  *)
(* then, for any number of gestures and of runs.                             *)
THEOREM ImagesFaithfulHolds == ImgSpec => ImagesFaithful
<1>1. ImgInv => ResultOfPicture
    BY DEF ImgInv, PageKept
<1>2. ImgInv /\ [ImgNext]_imgVars => ImgInv' /\ SentIsShown /\ BrushedRegionEdited
    BY ImgStep
<1> QED BY <1>1, <1>2, ImgInitInv, PTL DEF ImgSpec, ImagesFaithful

(* ------------------------------------------------------------- tool pages -- *)

USE ToolBounds, ToolVisitAssumption

ToolRecord ==
    [page : DOMAIN ToolProfiles, visit : ToolVisits, input : ToolWays,
     src : ToolValues, ref : ToolValues, setting : 0 .. ToolEdits, file : 0 .. ToolEdits,
     uploading : BOOLEAN, framing : BOOLEAN, phase : ToolPhases, output : 0 .. ToolRuns,
     est : Seq(ToolPrices), estimating : BOOLEAN, seq : Nat, timer : Seq(ToolAsked),
     edits : 0 .. ToolEdits, taken : BOOLEAN]

Profiled(q) ==
    /\ q.needs \subseteq ToolInputs
    /\ q.quotes \in BOOLEAN /\ q.skips \in BOOLEAN /\ q.direct \in BOOLEAN
    /\ q.input \in ToolWays

LEMMA ProfileFacts ==
    ASSUME NEW p \in DOMAIN ToolProfiles
    PROVE  /\ Profiled(ToolProfiles[p])
           /\ ToolProfiles[p].input = "remake" => p = "remake"
           /\ ToolProfiles[p].input \in {"file", "preview"} => ~ToolProfiles[p].quotes
<1>1. /\ Profiled(Swap)
         /\ Swap.input # "remake"
         /\ (Swap.input \in {"file", "preview"} => ~Swap.quotes)
    BY DEF Swap, Polled, Profiled, ToolInputs, ToolWays
<1>2. /\ Profiled(Recast)
         /\ Recast.input # "remake"
         /\ (Recast.input \in {"file", "preview"} => ~Recast.quotes)
    BY DEF Recast, Polled, Profiled, ToolInputs, ToolWays
<1>3. /\ Profiled(Remake)
         /\ (Remake.input \in {"file", "preview"} => ~Remake.quotes)
    BY DEF Remake, Polled, Profiled, ToolInputs, ToolWays
<1>4. /\ Profiled(Dramatizer)
         /\ Dramatizer.input # "remake"
         /\ (Dramatizer.input \in {"file", "preview"} => ~Dramatizer.quotes)
    BY DEF Dramatizer, Polled, Profiled, ToolInputs, ToolWays
<1>5. /\ Profiled(Reference)
         /\ Reference.input # "remake"
         /\ (Reference.input \in {"file", "preview"} => ~Reference.quotes)
    BY DEF Reference, Polled, Profiled, ToolInputs, ToolWays
<1>6. /\ Profiled(Animator)
         /\ Animator.input # "remake"
         /\ (Animator.input \in {"file", "preview"} => ~Animator.quotes)
    BY DEF Animator, Polled, Profiled, ToolInputs, ToolWays
<1>7. /\ Profiled(H3Image)
         /\ H3Image.input # "remake"
         /\ (H3Image.input \in {"file", "preview"} => ~H3Image.quotes)
    BY DEF H3Image, Polled, Profiled, ToolInputs, ToolWays
<1>8. /\ Profiled(BackgroundRemover)
         /\ BackgroundRemover.input # "remake"
         /\ (BackgroundRemover.input \in {"file", "preview"} => ~BackgroundRemover.quotes)
    BY DEF BackgroundRemover, Polled, Profiled, ToolInputs, ToolWays
<1>9. /\ Profiled(Keyframes)
         /\ Keyframes.input # "remake"
         /\ (Keyframes.input \in {"file", "preview"} => ~Keyframes.quotes)
    BY DEF Keyframes, Polled, Profiled, ToolInputs, ToolWays
<1>10. /\ Profiled(Orbit)
         /\ Orbit.input # "remake"
         /\ (Orbit.input \in {"file", "preview"} => ~Orbit.quotes)
    BY DEF Orbit, Polled, Profiled, ToolInputs, ToolWays
<1>11. /\ Profiled(Lofi)
         /\ Lofi.input # "remake"
         /\ (Lofi.input \in {"file", "preview"} => ~Lofi.quotes)
    BY DEF Lofi, Polled, Profiled, ToolInputs, ToolWays
<1>12. /\ Profiled(Music)
         /\ Music.input # "remake"
         /\ (Music.input \in {"file", "preview"} => ~Music.quotes)
    BY DEF Music, Polled, Profiled, ToolInputs, ToolWays
<1>13. /\ Profiled(Trailer)
         /\ Trailer.input # "remake"
         /\ (Trailer.input \in {"file", "preview"} => ~Trailer.quotes)
    BY DEF Trailer, Polled, Profiled, ToolInputs, ToolWays
<1>14. /\ Profiled(AnimeControl)
         /\ AnimeControl.input # "remake"
         /\ (AnimeControl.input \in {"file", "preview"} => ~AnimeControl.quotes)
    BY DEF AnimeControl, Polled, Profiled, ToolInputs, ToolWays
<1>15. /\ Profiled(Anima)
         /\ Anima.input # "remake"
         /\ (Anima.input \in {"file", "preview"} => ~Anima.quotes)
    BY DEF Anima, Polled, Profiled, ToolInputs, ToolWays
<1>16. /\ Profiled(Transfer)
         /\ Transfer.input # "remake"
         /\ (Transfer.input \in {"file", "preview"} => ~Transfer.quotes)
    BY DEF Transfer, Polled, Profiled, ToolInputs, ToolWays
<1>17. /\ Profiled(Control)
         /\ Control.input # "remake"
         /\ (Control.input \in {"file", "preview"} => ~Control.quotes)
    BY DEF Control, Polled, Profiled, ToolInputs, ToolWays
<1>18. /\ Profiled(Generator)
         /\ Generator.input # "remake"
         /\ (Generator.input \in {"file", "preview"} => ~Generator.quotes)
    BY DEF Generator, Polled, Profiled, ToolInputs, ToolWays
<1>19. /\ Profiled(Poses)
         /\ Poses.input # "remake"
         /\ (Poses.input \in {"file", "preview"} => ~Poses.quotes)
    BY DEF Poses, Polled, Profiled, ToolInputs, ToolWays
<1>20. /\ Profiled(Production)
         /\ Production.input # "remake"
         /\ (Production.input \in {"file", "preview"} => ~Production.quotes)
    BY DEF Production, Polled, Profiled, ToolInputs, ToolWays
<1> QED BY <1>1, <1>2, <1>3, <1>4, <1>5, <1>6, <1>7, <1>8, <1>9, <1>10, <1>11, <1>12, <1>13, <1>14, <1>15, <1>16, <1>17, <1>18, <1>19, <1>20 DEF ToolProfiles

(* The price a page shows, or is about to, in terms of its record and the    *)
(* requests in flight.                                                       *)
Asked(c) == c.kind = "estimate"
EstOK(t, calls) ==
    ToolProfiles[t.page].quotes /\ t.page # "remake" =>
        /\ \A c \in calls : Asked(c) => c.seq <= t.seq /\ (c.seq = t.seq /\ Complete(t) => c.of = Priced(t))
        /\ t.timer # None =>
             /\ t.timer[1].seq <= t.seq
             /\ t.timer[1].seq = t.seq /\ Complete(t) => t.timer[1].of = Priced(t)
        /\ Complete(t) => \/ t.est \in {None, <<Priced(t)>>}
                          \/ (t.timer # None /\ t.timer[1].seq = t.seq)
                          \/ \E c \in calls : Asked(c) /\ c.seq = t.seq

LEMMA OneInSeq ==
    ASSUME NEW S, NEW x \in S
    PROVE  <<x>> \in Seq(S) /\ Len(<<x>>) = 1 /\ <<x>>[1] = x /\ <<x>> # None
    BY DEF None

LEMMA NoneInSeq ==
    ASSUME NEW S
    PROVE  None \in Seq(S) /\ Len(None) = 0
    BY DEF None

LEMMA PricedTypes == ASSUME NEW t \in ToolRecord PROVE Priced(t) \in ToolPrices
    BY DEF ToolRecord, Priced, ToolPrices

Quoting(t) == ToolProfiles[t.page].quotes
Asks(t) == [seq |-> t.seq + 1, of |-> Priced(t)]

LEMMA EffectIs ==
    ASSUME NEW t \in ToolRecord
    PROVE  /\ Quoting(t) \in BOOLEAN
           /\ ~Quoting(t) => EstimateEffect(t) = t
           /\ Quoting(t) /\ Complete(t) =>
                EstimateEffect(t) = [t EXCEPT !.seq = t.seq + 1, !.timer = <<Asks(t)>>]
           /\ Quoting(t) /\ ~Complete(t) =>
                EstimateEffect(t) = [t EXCEPT !.timer = None,
                                              !.est = IF t.input = "remake" THEN t.est ELSE None]
<1>1. t.page \in DOMAIN ToolProfiles
    BY DEF ToolRecord
<1>2. Quoting(t) \in BOOLEAN
    BY <1>1, ProfileFacts DEF Quoting, Profiled
<1>3. ~Quoting(t) => EstimateEffect(t) = t
    BY <1>2 DEF EstimateEffect, Quoting
<1>4. Quoting(t) /\ Complete(t) =>
        EstimateEffect(t) = [t EXCEPT !.seq = t.seq + 1, !.timer = <<Asks(t)>>]
    BY DEF EstimateEffect, Quoting, Asks
<1>5. Quoting(t) /\ ~Complete(t) =>
        EstimateEffect(t) = [t EXCEPT !.timer = None, !.est = IF t.input = "remake" THEN t.est ELSE None]
    BY DEF EstimateEffect, Quoting
<1> QED BY <1>2, <1>3, <1>4, <1>5

LEMMA EffectTypes ==
    ASSUME NEW t \in ToolRecord, Len(t.est) <= 1, Len(t.timer) <= 1
    PROVE  /\ EstimateEffect(t) \in ToolRecord
           /\ Len(EstimateEffect(t).est) <= 1 /\ Len(EstimateEffect(t).timer) <= 1
<1>1. <<Asks(t)>> \in Seq(ToolAsked) /\ Len(<<Asks(t)>>) = 1
    <2>1. Asks(t) \in ToolAsked
        <3>1. Priced(t) \in ToolPrices
            BY PricedTypes
        <3>2. t.seq \in Nat
            BY DEF ToolRecord
        <3> QED BY <3>1, <3>2 DEF ToolAsked, Asks
    <2> QED BY <2>1, OneInSeq
<1>2. None \in Seq(ToolAsked) /\ None \in Seq(ToolPrices) /\ Len(None) = 0
    BY NoneInSeq
<1>3. CASE ~Quoting(t)
    BY <1>3, EffectIs
<1>4. CASE Quoting(t) /\ Complete(t)
    <2>1. EstimateEffect(t) = [t EXCEPT !.seq = t.seq + 1, !.timer = <<Asks(t)>>]
        BY <1>4, EffectIs
    <2>2. t.seq + 1 \in Nat
        BY DEF ToolRecord
    <2>3. [t EXCEPT !.seq = t.seq + 1, !.timer = <<Asks(t)>>] \in ToolRecord
        BY <1>1, <2>2 DEF ToolRecord
    <2>4. /\ [t EXCEPT !.seq = t.seq + 1, !.timer = <<Asks(t)>>].est = t.est
          /\ [t EXCEPT !.seq = t.seq + 1, !.timer = <<Asks(t)>>].timer = <<Asks(t)>>
        BY DEF ToolRecord
    <2> QED BY <1>1, <2>1, <2>3, <2>4
<1>5. CASE Quoting(t) /\ ~Complete(t)
    <2>1. EstimateEffect(t) = [t EXCEPT !.timer = None, !.est = IF t.input = "remake" THEN t.est ELSE None]
        BY <1>5, EffectIs
    <2> DEFINE est == IF t.input = "remake" THEN t.est ELSE None
    <2>2. est \in Seq(ToolPrices) /\ Len(est) <= 1
        BY <1>2 DEF ToolRecord
    <2> HIDE DEF est
    <2>3. [t EXCEPT !.timer = None, !.est = est] \in ToolRecord
        BY <1>2, <2>2 DEF ToolRecord
    <2>4. /\ [t EXCEPT !.timer = None, !.est = est].est = est
          /\ [t EXCEPT !.timer = None, !.est = est].timer = None
        BY DEF ToolRecord
    <2>5. EstimateEffect(t) = [t EXCEPT !.timer = None, !.est = est]
        BY <2>1 DEF est
    <2> QED BY <1>2, <2>2, <2>3, <2>4, <2>5
<1> QED BY <1>3, <1>4, <1>5, EffectIs

LEMMA EffectChanges ==
    ASSUME NEW t \in ToolRecord
    PROVE  /\ EstimateEffect(t).page = t.page /\ EstimateEffect(t).visit = t.visit
           /\ EstimateEffect(t).input = t.input /\ Priced(EstimateEffect(t)) = Priced(t)
           /\ EstimateEffect(t).phase = t.phase /\ EstimateEffect(t).taken = t.taken
           /\ EstimateEffect(t).src = t.src /\ EstimateEffect(t).ref = t.ref
    BY EffectIs DEF ToolRecord, Priced

LEMMA CompleteAlike ==
    ASSUME NEW t \in ToolRecord, NEW u, t.page = u.page, t.src = u.src, t.ref = u.ref
    PROVE  Complete(t) <=> Complete(u)
<1>1. ToolProfiles[t.page].needs \subseteq {"src", "ref"}
    BY ProfileFacts DEF Profiled, ToolRecord, ToolInputs
<1>2. \A i \in {"src", "ref"} : t[i] = u[i]
    OBVIOUS
<1> QED BY <1>1, <1>2 DEF Complete

LEMMA TimerIs ==
    ASSUME NEW t \in ToolRecord, t.timer # None
    PROVE  1 \in DOMAIN t.timer /\ t.timer[1] \in ToolAsked /\ t.timer[1].seq \in Nat
<1>1. t.timer \in Seq(ToolAsked)
    BY DEF ToolRecord
<1>2. t.timer[1] \in ToolAsked /\ 1 \in DOMAIN t.timer
    BY <1>1 DEF None
<1> QED BY <1>2 DEF ToolAsked

(* A handler's new state keeps the estimate right if it has asked for no     *)
(* other and taken none off the page, or has taken it off.                   *)
LEMMA RenderKeepsEstimate ==
    ASSUME NEW t \in ToolRecord, tool \in ToolRecord, EstOK(tool, toolCalls),
           Len(tool.est) <= 1, Len(tool.timer) <= 1,
           t.page = tool.page, t.timer = tool.timer, t.input = tool.input,
           (t.seq = tool.seq /\ t.est = tool.est) \/ (t.seq >= tool.seq /\ t.est = None),
           NEW u, u = IF Priced(t) = Priced(tool) THEN t ELSE EstimateEffect(t),
           NEW calls, \A c \in calls : Asked(c) => c \in toolCalls,
           \A c \in toolCalls : Asked(c) => c \in calls /\ c.seq \in Nat
    PROVE  EstOK(u, calls)
<1>1. CASE ~(ToolProfiles[t.page].quotes /\ t.page # "remake")
    BY <1>1, EffectChanges DEF EstOK
<1>2. CASE (ToolProfiles[t.page].quotes /\ t.page # "remake") /\ Priced(t) = Priced(tool)
    <2>1. t.src = tool.src /\ t.ref = tool.ref
        BY <1>2 DEF Priced
    <2>2. Complete(t) <=> Complete(tool)
        BY <2>1, CompleteAlike
    <2>3. tool.timer # None => tool.timer[1].seq \in Nat
        BY TimerIs
    <2>4. t.seq \in Nat /\ tool.seq \in Nat
        BY DEF ToolRecord
    <2> QED BY <1>2, <2>2, <2>3, <2>4 DEF EstOK
<1>3. CASE (ToolProfiles[t.page].quotes /\ t.page # "remake") /\ Priced(t) # Priced(tool)
    <2>1. CASE Complete(t)
        <3>1. u.seq = t.seq + 1 /\ u.timer = <<[seq |-> t.seq + 1, of |-> Priced(t)]>>
            BY <1>3, <2>1, EffectIs DEF ToolRecord, Asks, Quoting
        <3>2. u.page = t.page /\ Priced(u) = Priced(t)
            BY <1>3, EffectChanges
        <3>3. \A c \in calls : Asked(c) => c.seq <= tool.seq
            BY <1>3 DEF EstOK
        <3>4. t.seq \in Nat /\ tool.seq \in Nat /\ tool.seq <= t.seq
            BY DEF ToolRecord
        <3>5. \A c \in calls : Asked(c) => c.seq \in Nat
            OBVIOUS
        <3>6. u.timer # None /\ u.timer[1].seq = u.seq /\ u.timer[1].of = Priced(u)
            BY <3>1, <3>2 DEF None
        <3>7. \A c \in calls : Asked(c) => c.seq < u.seq
            BY <3>1, <3>3, <3>4, <3>5
        <3>8. u.seq \in Nat
            BY <3>1, <3>4
        <3> QED BY <3>2, <3>5, <3>6, <3>7, <3>8 DEF EstOK
    <2>2. CASE ~Complete(t)
        <3>1. u.seq = t.seq /\ u.timer = None /\ u.page = t.page
            BY <1>3, <2>2, EffectIs DEF ToolRecord, Quoting
        <3>2. ~Complete(u)
            <4>1. u.page = t.page /\ u.src = t.src /\ u.ref = t.ref
                BY <1>3, EffectChanges
            <4> QED BY <4>1, <2>2, CompleteAlike
        <3>3. t.seq \in Nat /\ tool.seq \in Nat /\ tool.seq <= t.seq
            BY DEF ToolRecord
        <3> QED BY <1>3, <3>1, <3>2, <3>3 DEF EstOK
    <2> QED BY <2>1, <2>2
<1> QED BY <1>1, <1>2, <1>3

(* What holds of the page whatever a handler does.                           *)
PageTypes(t) ==
    /\ t \in ToolRecord
    /\ t.page = t.visit.page /\ t.input = ToolProfiles[t.page].input
    /\ Len(t.est) <= 1 /\ Len(t.timer) <= 1
CallTypes(calls) ==
    \A c \in calls :
        IF Asked(c) THEN c.seq \in Nat /\ c.of \in ToolPrices
        ELSE c.input \in ToolInputs /\ c.stamp \in 1 .. ToolEdits
RunRecord == [pc : RunLive \union {"done", "error"}, of : ToolValues, polls : 0 .. ToolPolls - 1]
JobKinds == {"none"} \union JobLive \union ToolJobEnds
RunTypes ==
    /\ toolRuns \in Seq(RunRecord) /\ toolJobs \in Seq(JobKinds)
    /\ Len(toolRuns) <= ToolRuns /\ Len(toolJobs) = Len(toolRuns)

LEMMA TypesAre == ToolTypeOK <=> PageTypes(tool) /\ CallTypes(toolCalls) /\ RunTypes
    BY DEF ToolTypeOK, PageTypes, CallTypes, RunTypes, ToolRecord, RunRecord, JobKinds, Page, Asked

(* Unless another handler wrote the phase under a run, a page with a run is  *)
(* busy, so that the button is not offered.                                  *)
Live(i) == toolRuns[i].pc \in RunLive
RunsApart ==
    ~tool.taken => \A i \in DOMAIN toolRuns : Live(i) =>
                       Busy /\ \A j \in DOMAIN toolRuns : Live(j) => i = j

ToolInv == ToolTypeOK /\ RunsApart /\ EstOK(tool, toolCalls)

(* A handler that is not a run's, and leaves the requests for estimates and  *)
(* what the page waits for alone.                                            *)
LEMMA PageHandler ==
    ASSUME ToolInv, NEW t, PageTypes(t), Render(t),
           t.page = tool.page, t.timer = tool.timer, t.input = tool.input,
           (t.seq = tool.seq /\ t.est = tool.est) \/ (t.seq >= tool.seq /\ t.est = None),
           (t.phase = tool.phase /\ t.taken = tool.taken) \/ t.taken = (tool.taken \/ Running),
           CallTypes(toolCalls'), \A c \in toolCalls' : Asked(c) => c \in toolCalls,
           \A c \in toolCalls : Asked(c) => c \in toolCalls',
           UNCHANGED <<toolRuns, toolJobs>>
    PROVE  ToolInv'
<1>1. PageTypes(tool) /\ CallTypes(toolCalls) /\ RunTypes
    BY TypesAre DEF ToolInv
<1>2. tool \in ToolRecord /\ t \in ToolRecord
    BY <1>1 DEF PageTypes
<1>3. EstOK(tool', toolCalls')
    <2>1. \A c \in toolCalls : Asked(c) => c \in toolCalls' /\ c.seq \in Nat
        BY <1>1 DEF CallTypes
    <2>2. tool' = IF Priced(t) = Priced(tool) THEN t ELSE EstimateEffect(t)
        BY DEF Render
    <2> QED BY <1>1, <1>2, <2>1, <2>2, RenderKeepsEstimate DEF ToolInv, PageTypes
<1>4. PageTypes(tool') /\ tool'.phase = t.phase /\ tool'.taken = t.taken
    BY <1>2, EffectTypes, EffectChanges DEF Render, PageTypes
<1>5. RunsApart'
    <2>1. CASE t.phase = tool.phase /\ t.taken = tool.taken
        BY <1>4, <2>1 DEF ToolInv, RunsApart, Live, Busy
    <2>2. CASE t.taken = (tool.taken \/ Running)
        BY <1>4, <2>2 DEF RunsApart, Live, Running
    <2> QED BY <2>1, <2>2
<1>6. RunTypes'
    BY <1>1 DEF RunTypes
<1>7. ToolTypeOK'
    <2>1. ToolTypeOK' <=> PageTypes(tool)' /\ CallTypes(toolCalls)' /\ RunTypes'
        BY TypesAre, PTL
    <2> QED BY <1>4, <1>6, <2>1 DEF PageTypes, CallTypes
<1> QED BY <1>3, <1>5, <1>7 DEF ToolInv

LEMMA PageIs ==
    ASSUME ToolInv
    PROVE  /\ PageTypes(tool) /\ tool \in ToolRecord /\ CallTypes(toolCalls) /\ RunTypes
           /\ tool.visit \in [page : DOMAIN ToolProfiles, edits : 0 .. ToolEdits, runs : 0 .. ToolRuns]
           /\ Profiled(Page) /\ Page.input = tool.input
<1>1. PageTypes(tool) /\ CallTypes(toolCalls) /\ RunTypes
    BY TypesAre DEF ToolInv
<1>2. tool \in ToolRecord /\ tool.input = Page.input
    BY <1>1 DEF PageTypes, Page
<1>3. tool.visit \in ToolVisits /\ tool.page \in DOMAIN ToolProfiles
    BY <1>2 DEF ToolRecord
<1> QED BY <1>1, <1>2, <1>3, ProfileFacts DEF Page

LEMMA StampTypes ==
    ASSUME ToolInv, Gesture
    PROVE  ToolStamp \in 1 .. ToolEdits
<1>1. tool.edits \in 0 .. ToolEdits /\ tool.visit.edits \in 0 .. ToolEdits
    BY PageIs DEF ToolRecord
<1> QED BY <1>1 DEF Gesture, ToolStamp

LEMMA ValueTypes ==
    /\ 1 .. ToolEdits \subseteq ToolValues /\ 1 .. ToolEdits \subseteq 0 .. ToolEdits
    /\ Nothing \in ToolValues /\ Nothing \in 0 .. ToolEdits /\ Sample \in ToolValues /\ 0 \in 0 .. ToolRuns
    BY DEF ToolValues, Nothing, Sample

LEMMA SamePrice ==
    ASSUME NEW t \in ToolRecord, tool' = t, Priced(t) = Priced(tool) \/ ~Quoting(t)
    PROVE  Render(t)
    BY EffectIs DEF Render

(* The requests for files, unlike those for estimates.                       *)
FileCalls == UNCHANGED toolCalls \/ \E c : (Fetches(c) \/ Returns(c)) /\ ~Asked(c)
                                           /\ c.input \in ToolInputs /\ c.stamp \in 1 .. ToolEdits

LEMMA FileCallsKeep ==
    ASSUME ToolInv, FileCalls
    PROVE  /\ CallTypes(toolCalls') /\ \A c \in toolCalls' : Asked(c) => c \in toolCalls
           /\ \A c \in toolCalls : Asked(c) => c \in toolCalls'
<1>1. CallTypes(toolCalls)
    BY PageIs
<1> QED BY <1>1 DEF FileCalls, Fetches, Returns, CallTypes

LEMMA FetchesFile ==
    ASSUME NEW i \in ToolInputs, ToolStamp \in 1 .. ToolEdits,
           \/ Fetches(Upload(i))
           \/ Fetches([Upload(i) EXCEPT !.kind = "beats"])
           \/ Fetches([Upload(i) EXCEPT !.kind = "frame"])
    PROVE  FileCalls
<1>1. \A k \in {"upload", "beats", "frame"} :
        LET c == [kind |-> k, input |-> i, stamp |-> ToolStamp]
        IN ~Asked(c) /\ c.input \in ToolInputs /\ c.stamp \in 1 .. ToolEdits
    BY DEF Asked
<1>2. PICK k \in {"upload", "beats", "frame"} : Fetches([kind |-> k, input |-> i, stamp |-> ToolStamp])
    BY DEF Upload
<1> QED BY <1>1, <1>2 DEF FileCalls

(* What a handler that is not a run's may make of the page's record.         *)
Handled(t) ==
    /\ PageTypes(t)
    /\ t.page = tool.page /\ t.timer = tool.timer /\ t.input = tool.input
    /\ \/ t.seq = tool.seq /\ t.est = tool.est
       \/ t.seq >= tool.seq /\ t.est = None
    /\ \/ t.phase = tool.phase /\ t.taken = tool.taken
       \/ t.taken = (tool.taken \/ Running)

LEMMA HandledIf ==
    ASSUME ToolInv, NEW t \in ToolRecord,
           t.page = tool.page, t.visit = tool.visit, t.input = tool.input, t.timer = tool.timer,
           (t.seq = tool.seq /\ t.est = tool.est) \/ (t.seq >= tool.seq /\ t.est = None),
           (t.phase = tool.phase /\ t.taken = tool.taken) \/ t.taken = (tool.taken \/ Running)
    PROVE  Handled(t)
<1>1. PageTypes(tool)
    BY PageIs
<1>2. Len(t.est) <= 1
    BY <1>1, NoneInSeq DEF PageTypes
<1> QED BY <1>1, <1>2 DEF Handled, PageTypes

LEMMA HandlerKeeps ==
    ASSUME ToolInv, NEW t, Handled(t), Render(t), FileCalls, UNCHANGED <<toolRuns, toolJobs>>
    PROVE  ToolInv'
    BY FileCallsKeep, PageHandler DEF Handled

LEMMA WithInputIs ==
    ASSUME ToolInv, NEW i \in ToolInputs, NEW v \in ToolValues
    PROVE  /\ Handled(WithInput(tool, i, v))
           /\ WithInput(tool, i, v).seq = tool.seq /\ WithInput(tool, i, v).est = tool.est
           /\ WithInput(tool, i, v).phase = tool.phase /\ WithInput(tool, i, v).taken = tool.taken
           /\ WithInput(tool, i, v).visit = tool.visit
<1>1. tool \in ToolRecord /\ PageTypes(tool)
    BY PageIs
<1> DEFINE out == IF Page.clears /\ ~(tool.page = "recast" /\ i = "ref") THEN 0 ELSE tool.output
           ref == IF tool.page = "swap" THEN Nothing ELSE tool.ref
<1>2. out \in 0 .. ToolRuns /\ ref \in ToolValues
    BY <1>1, ValueTypes DEF ToolRecord
<1> HIDE DEF out, ref
<1>3. CASE i = "src"
    <2>1. WithInput(tool, i, v) = [tool EXCEPT !.src = v, !.output = out, !.ref = ref]
        BY <1>1, <1>3 DEF WithInput, out, ref, ToolRecord
    <2> QED BY <1>1, <1>2, <2>1 DEF Handled, PageTypes, ToolRecord
<1>4. CASE i = "ref"
    <2>1. WithInput(tool, i, v) = [tool EXCEPT !.ref = v, !.output = out]
        BY <1>1, <1>4 DEF WithInput, out, ToolRecord
    <2> QED BY <1>1, <1>2, <2>1 DEF Handled, PageTypes, ToolRecord
<1> QED BY <1>3, <1>4 DEF ToolInputs

LEMMA ChoosingKeeps ==
    ASSUME ToolInv,
           \/ \E i \in ToolInputs : ChooseFlag(i) \/ ChooseSlot(i) \/ ChoosePhase(i) \/ ChooseFile(i)
           \/ ToolSetting \/ ChooseClip \/ GenerateFrame
    PROVE  ToolInv'
<1>1. tool \in ToolRecord /\ PageTypes(tool) /\ Gesture
    BY PageIs DEF ChooseFlag, ChooseSlot, ChoosePhase, ChooseFile, ToolSetting, ChooseClip, GenerateFrame
<1>2. ToolStamp \in 1 .. ToolEdits /\ ToolStamp \in 0 .. ToolEdits /\ ToolStamp \in ToolValues
    BY <1>1, StampTypes, ValueTypes
<1>3. ASSUME NEW i \in ToolInputs, ChooseFlag(i) PROVE ToolInv'
    <2> DEFINE t == [tool EXCEPT !.uploading = TRUE, !.edits = ToolStamp]
    <2>1. Handled(t) /\ Priced(t) = Priced(tool)
        BY <1>1, <1>2 DEF Handled, PageTypes, ToolRecord, Priced
    <2>2. FileCalls
        BY <1>2, <1>3, FetchesFile DEF ChooseFlag
    <2>3. tool' = t /\ UNCHANGED <<toolRuns, toolJobs>>
        BY <1>3 DEF ChooseFlag
    <2> HIDE DEF t
    <2> QED BY <2>1, <2>2, <2>3, SamePrice, HandlerKeeps DEF Handled, PageTypes
<1>4. ASSUME NEW i \in ToolInputs, ChooseSlot(i) PROVE ToolInv'
    <2> DEFINE t == [tool EXCEPT !.edits = ToolStamp]
    <2>1. Handled(t) /\ Priced(t) = Priced(tool)
        BY <1>1, <1>2 DEF Handled, PageTypes, ToolRecord, Priced
    <2>2. FileCalls
        BY <1>2, <1>4, FetchesFile DEF ChooseSlot
    <2>3. tool' = t /\ UNCHANGED <<toolRuns, toolJobs>>
        BY <1>4 DEF ChooseSlot
    <2> HIDE DEF t
    <2> QED BY <2>1, <2>2, <2>3, SamePrice, HandlerKeeps DEF Handled, PageTypes
<1>5. ASSUME NEW i \in ToolInputs, ChoosePhase(i) PROVE ToolInv'
    <2> DEFINE phase == IF tool.page = "music" THEN "composing" ELSE "uploading"
               output == IF Page.clears THEN 0 ELSE tool.output
               taken == tool.taken \/ Running
               t == [tool EXCEPT !.phase = phase, !.output = output, !.edits = ToolStamp, !.taken = taken]
    <2>1. phase \in ToolPhases /\ output \in 0 .. ToolRuns /\ taken \in BOOLEAN
        BY <1>1, ValueTypes DEF ToolRecord, ToolPhases
    <2>2. tool' = t /\ UNCHANGED <<toolRuns, toolJobs>>
        BY <1>1, <1>5 DEF ChoosePhase, Takes, ToolRecord
    <2> HIDE DEF phase, output
    <2>3. Handled(t) /\ Priced(t) = Priced(tool)
        BY <1>1, <1>2, <2>1 DEF Handled, PageTypes, ToolRecord, Priced
    <2>4. FileCalls
        BY <1>2, <1>5, FetchesFile DEF ChoosePhase
    <2> HIDE DEF t
    <2> QED BY <2>2, <2>3, <2>4, SamePrice, HandlerKeeps DEF Handled, PageTypes
<1>6. ASSUME NEW i \in ToolInputs, ChooseFile(i) PROVE ToolInv'
    <2> DEFINE t == [tool EXCEPT ![i] = ToolStamp, !.edits = ToolStamp]
    <2>1. Handled(t)
        <3>1. CASE i = "src"
            BY <1>1, <1>2, <3>1 DEF Handled, PageTypes, ToolRecord
        <3>2. CASE i = "ref"
            BY <1>1, <1>2, <3>2 DEF Handled, PageTypes, ToolRecord
        <3> QED BY <3>1, <3>2 DEF ToolInputs
    <2>2. t.page = tool.page
        BY <2>1 DEF Handled
    <2>3. ~Quoting(t)
        <3>1. tool.page \in DOMAIN ToolProfiles
            BY <1>1 DEF ToolRecord
        <3> QED BY <1>6, <2>2, <3>1, ProfileFacts DEF ChooseFile, Page, Quoting
    <2>4. tool' = t /\ FileCalls /\ UNCHANGED <<toolRuns, toolJobs>>
        BY <1>6 DEF ChooseFile, FileCalls
    <2> HIDE DEF t
    <2> QED BY <2>1, <2>3, <2>4, SamePrice, HandlerKeeps DEF Handled, PageTypes
<1>7. CASE ToolSetting
    <2> DEFINE t == [tool EXCEPT !.setting = ToolStamp, !.edits = ToolStamp]
    <2>1. Handled(t)
        BY <1>1, <1>2 DEF Handled, PageTypes, ToolRecord
    <2>2. Render(t) /\ FileCalls /\ UNCHANGED <<toolRuns, toolJobs>>
        BY <1>7 DEF ToolSetting, FileCalls
    <2> HIDE DEF t
    <2> QED BY <2>1, <2>2, HandlerKeeps
<1>8. CASE ChooseClip
    <2>1. PICK v \in {ToolStamp, Sample} :
            tool' = Takes([tool EXCEPT !.src = v, !.output = 0, !.phase = "analyzing", !.edits = ToolStamp])
        BY <1>8 DEF ChooseClip
    <2> DEFINE taken == tool.taken \/ Running
               t == [tool EXCEPT !.src = v, !.output = 0, !.phase = "analyzing", !.edits = ToolStamp,
                                 !.taken = taken]
    <2>2. v \in ToolValues /\ taken \in BOOLEAN /\ "analyzing" \in ToolPhases
        BY <1>1, <1>2, ValueTypes DEF ToolRecord, ToolPhases
    <2>3. tool' = t /\ UNCHANGED <<toolRuns, toolJobs>>
        BY <1>1, <1>8, <2>1 DEF ChooseClip, Takes, ToolRecord
    <2>4. Handled(t)
        BY <1>1, <1>2, <2>2, ValueTypes DEF Handled, PageTypes, ToolRecord
    <2>5. ~Quoting(t)
        <3>1. tool.page \in DOMAIN ToolProfiles
            BY <1>1 DEF ToolRecord
        <3>2. t.page = tool.page
            BY <2>4 DEF Handled
        <3> QED BY <1>8, <3>1, <3>2, ProfileFacts DEF ChooseClip, Page, Quoting
    <2>6. FileCalls
        BY <1>2, <1>8, FetchesFile DEF ChooseClip, ToolInputs
    <2> HIDE DEF t
    <2> QED BY <2>3, <2>4, <2>5, <2>6, SamePrice, HandlerKeeps DEF Handled, PageTypes
<1>9. CASE GenerateFrame
    <2> DEFINE t == [tool EXCEPT !.framing = TRUE, !.edits = ToolStamp]
    <2>1. Handled(t) /\ Priced(t) = Priced(tool)
        BY <1>1, <1>2 DEF Handled, PageTypes, ToolRecord, Priced
    <2>2. FileCalls
        BY <1>2, <1>9, FetchesFile DEF GenerateFrame, ToolInputs
    <2>3. tool' = t /\ UNCHANGED <<toolRuns, toolJobs>>
        BY <1>9 DEF GenerateFrame
    <2> HIDE DEF t
    <2> QED BY <2>1, <2>2, <2>3, SamePrice, HandlerKeeps DEF Handled, PageTypes
<1> QED BY <1>3, <1>4, <1>5, <1>6, <1>7, <1>8, <1>9

LEMMA FilmKeeps ==
    ASSUME ToolInv, ChooseFilm \/ RemoveFilm \/ UseSample
    PROVE  ToolInv'
<1>1. tool \in ToolRecord /\ PageTypes(tool) /\ Gesture
    BY PageIs DEF ChooseFilm, RemoveFilm, UseSample
<1>2. ToolStamp \in 1 .. ToolEdits /\ ToolStamp \in 0 .. ToolEdits
    BY <1>1, StampTypes, ValueTypes
<1>3. None \in Seq(ToolPrices) /\ Len(None) = 0 /\ "idle" \in ToolPhases
    BY NoneInSeq DEF ToolPhases
<1>4. UNCHANGED <<toolRuns, toolJobs>>
    BY DEF ChooseFilm, RemoveFilm, UseSample
<1> DEFINE taken == tool.taken \/ Running
<1>5. taken \in BOOLEAN
    BY <1>1 DEF ToolRecord
<1>6. CASE ChooseFilm
    <2> DEFINE t == [tool EXCEPT !.file = ToolStamp, !.src = Nothing, !.est = None, !.output = 0,
                                 !.phase = "idle", !.estimating = TRUE, !.edits = ToolStamp,
                                 !.taken = taken]
    <2>1. Render(t)
        <3>1. t = Takes([tool EXCEPT !.file = ToolStamp, !.src = Nothing, !.est = None, !.output = 0,
                                     !.phase = "idle", !.estimating = TRUE, !.edits = ToolStamp])
            BY <1>1 DEF Takes, ToolRecord
        <3> QED BY <1>6, <3>1 DEF ChooseFilm
    <2>2. Handled(t)
        <3>1. t \in ToolRecord
            BY <1>1, <1>2, <1>3, <1>5, ValueTypes DEF ToolRecord
        <3>2. /\ t.page = tool.page /\ t.visit = tool.visit /\ t.input = tool.input
              /\ t.timer = tool.timer /\ t.seq >= tool.seq /\ t.est = None /\ t.taken = taken
            BY <1>1 DEF ToolRecord
        <3> QED BY <3>1, <3>2, HandledIf
    <2>3. FileCalls
        BY <1>2, <1>6, FetchesFile DEF ChooseFilm, ToolInputs
    <2> HIDE DEF t
    <2> QED BY <1>4, <2>1, <2>2, <2>3, HandlerKeeps
<1>7. CASE RemoveFilm
    <2> DEFINE t == [tool EXCEPT !.file = Nothing, !.src = Nothing, !.est = None, !.output = 0,
                                 !.seq = tool.seq + 1, !.estimating = FALSE, !.edits = ToolStamp]
    <2>1. Render(t) /\ FileCalls
        BY <1>7 DEF RemoveFilm, FileCalls
    <2>2. tool.seq + 1 \in Nat /\ tool.seq + 1 >= tool.seq
        BY <1>1 DEF ToolRecord
    <2>3. Handled(t)
        <3>1. t \in ToolRecord
            BY <1>1, <1>2, <1>3, <2>2, ValueTypes DEF ToolRecord
        <3>2. /\ t.page = tool.page /\ t.visit = tool.visit /\ t.input = tool.input
              /\ t.timer = tool.timer /\ t.seq >= tool.seq /\ t.est = None
              /\ t.phase = tool.phase /\ t.taken = tool.taken
            BY <1>1, <2>2 DEF ToolRecord
        <3> QED BY <3>1, <3>2, HandledIf
    <2> HIDE DEF t
    <2> QED BY <1>4, <2>1, <2>3, HandlerKeeps
<1>8. CASE UseSample
    <2> DEFINE ref == IF "ref" \in Page.needs THEN Sample ELSE tool.ref
               t == [tool EXCEPT !.src = Sample, !.ref = ref, !.seq = tool.seq + 1, !.est = None,
                                 !.output = 0, !.phase = "idle", !.edits = ToolStamp, !.taken = taken]
    <2>1. Render(t)
        <3>1. t = Takes([tool EXCEPT !.src = Sample, !.ref = IF "ref" \in Page.needs THEN Sample ELSE @,
                                     !.seq = @ + 1, !.est = None, !.output = 0, !.phase = "idle",
                                     !.edits = ToolStamp])
            BY <1>1 DEF Takes, ToolRecord
        <3> QED BY <1>8, <3>1 DEF UseSample
    <2>2. tool.seq + 1 \in Nat /\ tool.seq + 1 >= tool.seq /\ ref \in ToolValues
        BY <1>1, ValueTypes DEF ToolRecord
    <2> HIDE DEF ref, taken
    <2>3. Handled(t)
        <3>1. t \in ToolRecord
            <4>1. Sample \in ToolValues /\ 0 \in 0 .. ToolRuns
                BY ValueTypes
            <4> QED BY <1>1, <1>2, <1>3, <1>5, <2>2, <4>1 DEF ToolRecord
        <3>2. /\ t.page = tool.page /\ t.visit = tool.visit /\ t.input = tool.input
              /\ t.timer = tool.timer /\ t.seq >= tool.seq /\ t.est = None
              /\ t.taken = (tool.taken \/ Running)
            BY <1>1, <2>2 DEF ToolRecord, taken
        <3> QED BY <3>1, <3>2, HandledIf
    <2>4. FileCalls
        BY <1>8 DEF UseSample, FileCalls
    <2> HIDE DEF t
    <2> QED BY <1>4, <2>1, <2>3, <2>4, HandlerKeeps
<1> QED BY <1>6, <1>7, <1>8

LEMMA LinkKeeps ==
    ASSUME ToolInv, NEW i \in ToolInputs, UseLink(i)
    PROVE  ToolInv'
<1>1. tool \in ToolRecord /\ PageTypes(tool) /\ Gesture
    BY PageIs DEF UseLink
<1>2. ToolStamp \in 1 .. ToolEdits /\ ToolStamp \in ToolValues /\ ToolStamp \in 0 .. ToolEdits
    BY <1>1, StampTypes, ValueTypes
<1>3. None \in Seq(ToolPrices) /\ Len(None) = 0
    BY NoneInSeq
<1> DEFINE new == WithInput(tool, i, ToolStamp)
           with == [new EXCEPT !.edits = ToolStamp]
<1>4. /\ Handled(new) /\ new \in ToolRecord
      /\ new.seq = tool.seq /\ new.est = tool.est /\ new.phase = tool.phase /\ new.taken = tool.taken
      /\ new.visit = tool.visit
    BY <1>2, WithInputIs DEF Handled, PageTypes
<1>5. UNCHANGED <<toolRuns, toolJobs>> /\ FileCalls
    BY DEF UseLink, FileCalls
<1>6. \/ Render([with EXCEPT !.seq = with.seq + 1, !.est = None])
      \/ Render([with EXCEPT !.output = tool.output])
      \/ Render([with EXCEPT !.est = None])
      \/ Render(with)
    BY DEF UseLink
<1> HIDE DEF new
<1>7. /\ with \in ToolRecord
      /\ with.page = tool.page /\ with.visit = new.visit /\ with.input = tool.input
      /\ with.timer = tool.timer /\ with.seq = tool.seq /\ with.est = tool.est
      /\ with.phase = tool.phase /\ with.taken = tool.taken
    BY <1>2, <1>4 DEF ToolRecord, Handled
<1>8. with.visit = tool.visit
    BY <1>4, <1>7
<1> HIDE DEF with
<1>9. tool.output \in 0 .. ToolRuns /\ with.seq + 1 \in Nat /\ with.seq + 1 >= tool.seq /\ tool.seq >= tool.seq
    BY <1>1, <1>7 DEF ToolRecord
<1>10. Handled([with EXCEPT !.seq = with.seq + 1, !.est = None])
    <2> DEFINE t == [with EXCEPT !.seq = with.seq + 1, !.est = None]
    <2>1. t \in ToolRecord
        BY <1>3, <1>7, <1>9 DEF ToolRecord
    <2>2. /\ t.page = tool.page /\ t.visit = tool.visit /\ t.input = tool.input /\ t.timer = tool.timer
          /\ t.seq >= tool.seq /\ t.est = None /\ t.phase = tool.phase /\ t.taken = tool.taken
        BY <1>7, <1>8, <1>9 DEF ToolRecord
    <2> QED BY <2>1, <2>2, HandledIf
<1>11. Handled([with EXCEPT !.output = tool.output])
    <2> DEFINE t == [with EXCEPT !.output = tool.output]
    <2>1. t \in ToolRecord
        BY <1>7, <1>9 DEF ToolRecord
    <2>2. /\ t.page = tool.page /\ t.visit = tool.visit /\ t.input = tool.input /\ t.timer = tool.timer
          /\ t.seq = tool.seq /\ t.est = tool.est /\ t.phase = tool.phase /\ t.taken = tool.taken
        BY <1>7, <1>8, <1>9 DEF ToolRecord
    <2> QED BY <2>1, <2>2, HandledIf
<1>12. Handled([with EXCEPT !.est = None])
    <2> DEFINE t == [with EXCEPT !.est = None]
    <2>1. t \in ToolRecord
        BY <1>3, <1>7 DEF ToolRecord
    <2>2. /\ t.page = tool.page /\ t.visit = tool.visit /\ t.input = tool.input /\ t.timer = tool.timer
          /\ t.seq >= tool.seq /\ t.est = None /\ t.phase = tool.phase /\ t.taken = tool.taken
        BY <1>7, <1>8, <1>9 DEF ToolRecord
    <2> QED BY <2>1, <2>2, HandledIf
<1>13. Handled(with)
    BY <1>7, <1>8, HandledIf
<1> QED BY <1>5, <1>6, <1>10, <1>11, <1>12, <1>13, HandlerKeeps

LEMMA AnswersKeep ==
    ASSUME ToolInv, NEW c \in toolCalls, NEW ok \in BOOLEAN,
           UploadReturns(c, ok) \/ FrameReturns(c, ok) \/ BeatsReturn(c)
    PROVE  ToolInv'
<1>1. tool \in ToolRecord /\ PageTypes(tool) /\ CallTypes(toolCalls)
    BY PageIs
<1>2. ~Asked(c) /\ c.input \in ToolInputs /\ c.stamp \in 1 .. ToolEdits /\ c.stamp \in ToolValues
    BY <1>1, ValueTypes DEF CallTypes, Asked, UploadReturns, FrameReturns, BeatsReturn
<1>3. FileCalls /\ UNCHANGED <<toolRuns, toolJobs>>
    BY <1>2 DEF UploadReturns, FrameReturns, BeatsReturn, FileCalls
<1> DEFINE taken == tool.taken \/ Running
<1>4. taken \in BOOLEAN
    BY <1>1 DEF ToolRecord
<1>5. CASE BeatsReturn(c)
    <2> DEFINE t == [tool EXCEPT !.phase = "idle", !.taken = taken]
    <2>1. tool' = t
        BY <1>1, <1>5 DEF BeatsReturn, Takes, ToolRecord
    <2>2. Handled(t) /\ Priced(t) = Priced(tool)
        BY <1>1, <1>4 DEF Handled, PageTypes, ToolRecord, Priced, ToolPhases
    <2> HIDE DEF t
    <2> QED BY <1>3, <2>1, <2>2, SamePrice, HandlerKeeps DEF Handled, PageTypes
<1>6. CASE FrameReturns(c, ok)
    <2> DEFINE ref == IF ok THEN c.stamp ELSE tool.ref
               t == [tool EXCEPT !.framing = FALSE, !.ref = ref]
    <2>1. Render(t)
        BY <1>6 DEF FrameReturns
    <2>2. ref \in ToolValues
        BY <1>1, <1>2 DEF ToolRecord
    <2> HIDE DEF ref
    <2>3. Handled(t)
        BY <1>1, <2>2 DEF Handled, PageTypes, ToolRecord
    <2> HIDE DEF t
    <2> QED BY <1>3, <2>1, <2>3, HandlerKeeps
<1>7. CASE UploadReturns(c, ok)
    <2> DEFINE in == IF ok THEN WithInput(tool, c.input, c.stamp) ELSE tool
               phase == IF ok THEN "idle" ELSE "error"
    <2>1. /\ Handled(in) /\ in \in ToolRecord
          /\ in.seq = tool.seq /\ in.est = tool.est /\ in.phase = tool.phase /\ in.taken = tool.taken
        BY <1>1, <1>2, WithInputIs DEF Handled, PageTypes
    <2>2. \/ Render([in EXCEPT !.uploading = FALSE])
          \/ Render(in)
          \/ Render(Takes([in EXCEPT !.output = tool.output, !.phase = phase]))
          \/ Render([tool EXCEPT !.estimating = FALSE])
        BY <1>7, Zenon DEF UploadReturns
    <2> HIDE DEF in
    <2>3. /\ Handled([in EXCEPT !.uploading = FALSE])
          /\ Handled([tool EXCEPT !.estimating = FALSE])
        BY <1>1, <2>1 DEF Handled, PageTypes, ToolRecord
    <2>4. Handled(Takes([in EXCEPT !.output = tool.output, !.phase = phase]))
        <3>1. tool.output \in 0 .. ToolRuns /\ phase \in ToolPhases
            BY <1>1 DEF ToolRecord, ToolPhases
        <3> HIDE DEF phase
        <3>2. Takes([in EXCEPT !.output = tool.output, !.phase = phase])
                = [in EXCEPT !.output = tool.output, !.phase = phase, !.taken = taken]
            BY <2>1 DEF Takes, ToolRecord
        <3> QED BY <1>4, <2>1, <3>1, <3>2 DEF Handled, PageTypes, ToolRecord
    <2> QED BY <1>3, <2>1, <2>2, <2>3, <2>4, HandlerKeeps
<1> QED BY <1>5, <1>6, <1>7

(* -------------------------------------------------------------- estimates -- *)

(* A record that differs in nothing the price depends on.                    *)
LEMMA EstSame ==
    ASSUME NEW t \in ToolRecord, NEW u \in ToolRecord, NEW calls, EstOK(t, calls),
           u.page = t.page, u.src = t.src, u.ref = t.ref, u.setting = t.setting,
           u.seq = t.seq, u.est = t.est, u.timer = t.timer
    PROVE  EstOK(u, calls)
<1>1. Complete(u) <=> Complete(t)
    BY CompleteAlike
<1>2. Priced(u) = Priced(t)
    BY DEF Priced
<1> QED BY <1>1, <1>2 DEF EstOK

LEMMA TimerKeeps ==
    ASSUME ToolInv, TimerFires
    PROVE  ToolInv'
<1>1. tool \in ToolRecord /\ PageTypes(tool) /\ CallTypes(toolCalls) /\ RunTypes
    BY PageIs
<1> DEFINE t == [tool EXCEPT !.timer = None, !.estimating = TRUE]
           asked == [kind |-> "estimate", seq |-> tool.timer[1].seq, of |-> tool.timer[1].of]
<1>2. /\ tool.timer # None /\ tool' = t /\ toolCalls' = toolCalls \union {asked}
      /\ UNCHANGED <<toolRuns, toolJobs>>
    BY DEF TimerFires, Fetches
<1>3. /\ Asked(asked) /\ asked.seq = tool.timer[1].seq /\ asked.of = tool.timer[1].of
      /\ asked.seq \in Nat /\ asked.of \in ToolPrices
    BY <1>1, <1>2, TimerIs DEF Asked, ToolAsked
<1> HIDE DEF asked
<1>4. /\ t \in ToolRecord
      /\ t.page = tool.page /\ t.visit = tool.visit /\ t.input = tool.input
      /\ t.src = tool.src /\ t.ref = tool.ref /\ t.setting = tool.setting
      /\ t.seq = tool.seq /\ t.est = tool.est /\ t.timer = None
      /\ t.phase = tool.phase /\ t.taken = tool.taken
    BY <1>1, NoneInSeq DEF ToolRecord
<1> HIDE DEF t
<1>5. PageTypes(t)
    BY <1>1, <1>4, NoneInSeq DEF PageTypes
<1>6. ToolTypeOK'
    <2>1. ToolTypeOK' <=> PageTypes(tool)' /\ CallTypes(toolCalls)' /\ RunTypes'
        BY TypesAre, PTL
    <2>2. CallTypes(toolCalls')
        BY <1>1, <1>2, <1>3 DEF CallTypes
    <2>3. RunTypes'
        BY <1>1, <1>2 DEF RunTypes
    <2> QED BY <1>2, <1>5, <2>1, <2>2, <2>3 DEF PageTypes, CallTypes
<1>7. RunsApart'
    BY <1>2, <1>4 DEF ToolInv, RunsApart, Live, Busy
<1>8. EstOK(t, toolCalls')
    <2>1. Complete(t) <=> Complete(tool)
        BY <1>1, <1>4, CompleteAlike
    <2>2. Priced(t) = Priced(tool)
        BY <1>4 DEF Priced
    <2> QED BY <1>2, <1>3, <1>4, <2>1, <2>2 DEF ToolInv, EstOK
<1> QED BY <1>2, <1>6, <1>7, <1>8 DEF ToolInv

LEMMA EstimateKeeps ==
    ASSUME ToolInv, NEW c \in toolCalls, NEW ok \in BOOLEAN, EstimateReturns(c, ok)
    PROVE  ToolInv'
<1>1. tool \in ToolRecord /\ PageTypes(tool) /\ CallTypes(toolCalls) /\ RunTypes
    BY PageIs
<1>2. /\ Asked(c) /\ c.seq \in Nat /\ c.of \in ToolPrices /\ toolCalls' = toolCalls \ {c}
      /\ UNCHANGED <<toolRuns, toolJobs>>
    BY <1>1 DEF EstimateReturns, CallTypes, Asked, Returns
<1>3. PageTypes(tool') /\ tool'.phase = tool.phase /\ tool'.taken = tool.taken /\ EstOK(tool', toolCalls')
    <2>1. CASE ~StillAsked(c)
        <3>1. tool' = tool
            BY <2>1 DEF EstimateReturns
        <3> QED BY <1>1, <1>2, <2>1, <3>1 DEF ToolInv, EstOK, StillAsked
    <2>2. CASE StillAsked(c)
        <3> DEFINE est == IF ok THEN <<c.of>> ELSE IF tool.page = "remake" THEN tool.est ELSE None
                   t == [tool EXCEPT !.estimating = FALSE, !.est = est]
        <3>1. tool' = t
            BY <2>2 DEF EstimateReturns
        <3>2. est \in Seq(ToolPrices) /\ Len(est) <= 1
            BY <1>1, <1>2, OneInSeq, NoneInSeq DEF PageTypes, ToolRecord
        <3>3. tool.page # "remake" => est \in {<<c.of>>, None}
            OBVIOUS
        <3> HIDE DEF est
        <3>4. /\ t \in ToolRecord
              /\ t.page = tool.page /\ t.visit = tool.visit /\ t.input = tool.input
              /\ t.src = tool.src /\ t.ref = tool.ref /\ t.setting = tool.setting
              /\ t.seq = tool.seq /\ t.est = est /\ t.timer = tool.timer
              /\ t.phase = tool.phase /\ t.taken = tool.taken
            BY <1>1, <3>2 DEF ToolRecord
        <3> HIDE DEF t
        <3>5. PageTypes(t)
            BY <1>1, <3>2, <3>4 DEF PageTypes
        <3>6. EstOK(t, toolCalls')
            <4>1. Complete(t) <=> Complete(tool)
                BY <1>1, <3>4, CompleteAlike
            <4>2. Priced(t) = Priced(tool)
                BY <3>4 DEF Priced
            <4> QED BY <1>2, <2>2, <3>3, <3>4, <4>1, <4>2 DEF ToolInv, EstOK, StillAsked
        <3> QED BY <3>1, <3>4, <3>5, <3>6
    <2> QED BY <2>1, <2>2
<1>4. ToolTypeOK'
    <2>1. ToolTypeOK' <=> PageTypes(tool)' /\ CallTypes(toolCalls)' /\ RunTypes'
        BY TypesAre, PTL
    <2>2. CallTypes(toolCalls') /\ RunTypes'
        BY <1>1, <1>2 DEF CallTypes, RunTypes
    <2> QED BY <1>3, <2>1, <2>2 DEF PageTypes, CallTypes
<1>5. RunsApart'
    BY <1>2, <1>3 DEF ToolInv, RunsApart, Live, Busy
<1> QED BY <1>3, <1>4, <1>5 DEF ToolInv

(* -------------------------------------------------------------------- runs -- *)

(* A step of a run that goes on leaves the page busy; the rest of the page's *)
(* runs are as they were.                                                    *)
LEMMA RunMoves ==
    ASSUME ToolInv, NEW i \in DOMAIN toolRuns, Live(i),
           NEW r \in RunRecord, toolRuns' = [toolRuns EXCEPT ![i] = r],
           PageTypes(tool'), tool'.taken = tool.taken, EstOK(tool', toolCalls'),
           r.pc \in RunLive => Busy' \/ tool'.phase = tool.phase,
           UNCHANGED toolCalls,
           toolJobs' = toolJobs \/ \E s \in JobKinds : toolJobs' = [toolJobs EXCEPT ![i] = s]
    PROVE  ToolInv'
<1>1. tool \in ToolRecord /\ PageTypes(tool) /\ CallTypes(toolCalls) /\ RunTypes
    BY PageIs
<1>2. RunTypes'
    <2>1. toolRuns' \in Seq(RunRecord) /\ Len(toolRuns') = Len(toolRuns)
        BY <1>1 DEF RunTypes
    <2>2. toolJobs' \in Seq(JobKinds) /\ Len(toolJobs') = Len(toolJobs)
        BY <1>1 DEF RunTypes
    <2> QED BY <1>1, <2>1, <2>2 DEF RunTypes
<1>3. ToolTypeOK'
    <2>1. ToolTypeOK' <=> PageTypes(tool)' /\ CallTypes(toolCalls)' /\ RunTypes'
        BY TypesAre, PTL
    <2> QED BY <1>1, <1>2, <2>1 DEF PageTypes, CallTypes
<1>4. RunsApart'
    <2>1. DOMAIN toolRuns' = DOMAIN toolRuns /\ toolRuns'[i] = r
          /\ \A j \in DOMAIN toolRuns : j # i => toolRuns'[j] = toolRuns[j]
        BY <1>1 DEF RunTypes
    <2>2. \A j \in DOMAIN toolRuns : Live(j)' => Live(j)
        BY <2>1 DEF Live
    <2>3. ~tool.taken => Busy
        BY DEF ToolInv, RunsApart
    <2>4. tool'.phase = tool.phase => (Busy' <=> Busy)
        BY DEF Busy
    <2>5. ~tool.taken => \A j \in DOMAIN toolRuns : Live(j)' => j = i
        BY <2>2 DEF ToolInv, RunsApart
    <2>6. Live(i)' => r.pc \in RunLive
        BY <2>1 DEF Live
    <2> QED BY <2>1, <2>3, <2>4, <2>5, <2>6 DEF RunsApart
<1> QED BY <1>3, <1>4 DEF ToolInv

(* A record of the page with another phase and output.                       *)
Phased(phase, output) == [tool EXCEPT !.phase = phase, !.output = output]

LEMMA PhaseTypes ==
    ASSUME ToolInv, NEW phase \in ToolPhases, NEW output \in 0 .. ToolRuns
    PROVE  /\ PageTypes(Phased(phase, output)) /\ EstOK(Phased(phase, output), toolCalls)
           /\ Phased(phase, output).phase = phase /\ Phased(phase, output).taken = tool.taken
<1> DEFINE t == Phased(phase, output)
<1>1. tool \in ToolRecord /\ PageTypes(tool)
    BY PageIs
<1>2. /\ t \in ToolRecord
      /\ t.page = tool.page /\ t.visit = tool.visit /\ t.input = tool.input
      /\ t.src = tool.src /\ t.ref = tool.ref /\ t.setting = tool.setting
      /\ t.seq = tool.seq /\ t.est = tool.est /\ t.timer = tool.timer
      /\ t.phase = phase /\ t.taken = tool.taken
    BY <1>1 DEF ToolRecord, Phased
<1> HIDE DEF t
<1>3. EstOK(t, toolCalls)
    BY <1>1, <1>2, EstSame DEF ToolInv
<1>4. PageTypes(t)
    BY <1>1, <1>2 DEF PageTypes
<1> QED BY <1>2, <1>3, <1>4 DEF t

LEMMA RunIs ==
    ASSUME ToolInv, NEW i \in DOMAIN toolRuns
    PROVE  /\ toolRuns[i] \in RunRecord /\ i \in 1 .. ToolRuns /\ toolJobs[i] \in JobKinds
           /\ \A pc \in RunLive \union {"done", "error"} :
                /\ [toolRuns EXCEPT ![i].pc = pc] = [toolRuns EXCEPT ![i] = [toolRuns[i] EXCEPT !.pc = pc]]
                /\ [toolRuns[i] EXCEPT !.pc = pc] \in RunRecord /\ [toolRuns[i] EXCEPT !.pc = pc].pc = pc
<1>1. RunTypes
    BY PageIs
<1>2. toolRuns[i] \in RunRecord /\ i \in 1 .. Len(toolRuns)
    BY <1>1 DEF RunTypes
<1>3. i \in 1 .. ToolRuns /\ toolJobs[i] \in JobKinds
    BY <1>1, <1>2 DEF RunTypes
<1> QED BY <1>2, <1>3 DEF RunRecord

LEMMA FailKeeps ==
    ASSUME ToolInv, NEW i \in DOMAIN toolRuns, Live(i), RunFails(i), UNCHANGED toolCalls,
           toolJobs' = toolJobs \/ \E s \in JobKinds : toolJobs' = [toolJobs EXCEPT ![i] = s]
    PROVE  ToolInv'
<1> DEFINE r == [toolRuns[i] EXCEPT !.pc = "error"]
<1>1. r \in RunRecord /\ r.pc = "error" /\ toolRuns' = [toolRuns EXCEPT ![i] = r]
    BY RunIs DEF RunFails
<1>2. tool \in ToolRecord /\ tool.output \in 0 .. ToolRuns /\ "error" \in ToolPhases
    BY PageIs DEF ToolRecord, ToolPhases
<1>3. tool' = Phased("error", tool.output)
    BY <1>2 DEF RunFails, ToolRecord, Phased
<1>4. PageTypes(tool') /\ EstOK(tool', toolCalls) /\ tool'.taken = tool.taken
    BY <1>2, <1>3, PhaseTypes
<1> HIDE DEF r
<1> QED BY <1>1, <1>4, RunMoves DEF RunLive

LEMMA SucceedKeeps ==
    ASSUME ToolInv, NEW i \in DOMAIN toolRuns, Live(i), RunSucceeds(i), UNCHANGED toolCalls,
           toolJobs' = toolJobs \/ \E s \in JobKinds : toolJobs' = [toolJobs EXCEPT ![i] = s]
    PROVE  ToolInv'
<1> DEFINE r == [toolRuns[i] EXCEPT !.pc = "done"]
<1>1. r \in RunRecord /\ r.pc = "done" /\ toolRuns' = [toolRuns EXCEPT ![i] = r]
    BY RunIs DEF RunSucceeds
<1>2. i \in 0 .. ToolRuns /\ "done" \in ToolPhases
    BY RunIs DEF ToolPhases
<1>3. tool' = Phased("done", i)
    BY DEF RunSucceeds, Phased
<1>4. PageTypes(tool') /\ EstOK(tool', toolCalls) /\ tool'.taken = tool.taken
    BY <1>2, <1>3, PhaseTypes
<1> HIDE DEF r
<1> QED BY <1>1, <1>4, RunMoves DEF RunLive

LEMMA PollKeeps ==
    ASSUME ToolInv, NEW i \in DOMAIN toolRuns, Live(i), NEW phase \in {"queued", "processing", tool.phase},
           PollAgain(i, phase), UNCHANGED <<toolCalls, toolJobs>>
    PROVE  ToolInv'
<1>1. CASE toolRuns[i].polls + 1 = ToolPolls
    BY <1>1, FailKeeps DEF PollAgain
<1>2. CASE toolRuns[i].polls + 1 # ToolPolls
    <2> DEFINE r == [toolRuns[i] EXCEPT !.polls = toolRuns[i].polls + 1]
    <2>1. toolRuns[i] \in RunRecord
        BY RunIs
    <2>2. toolRuns[i].polls + 1 \in 0 .. ToolPolls - 1
        BY <1>2, <2>1 DEF RunRecord
    <2>3. r \in RunRecord /\ toolRuns' = [toolRuns EXCEPT ![i] = r]
        BY <1>2, <2>1, <2>2 DEF PollAgain, RunRecord
    <2>4. tool \in ToolRecord /\ tool.output \in 0 .. ToolRuns /\ phase \in ToolPhases
        BY PageIs DEF ToolRecord, ToolPhases
    <2>5. tool' = Phased(phase, tool.output)
        BY <1>2, <2>4 DEF PollAgain, ToolRecord, Phased
    <2>6. PageTypes(tool') /\ EstOK(tool', toolCalls) /\ tool'.taken = tool.taken /\ tool'.phase = phase
        BY <2>4, <2>5, PhaseTypes
    <2>7. Busy' \/ tool'.phase = tool.phase
        BY <2>6 DEF Busy
    <2> HIDE DEF r
    <2> QED BY <2>3, <2>6, <2>7, RunMoves
<1> QED BY <1>1, <1>2

LEMMA SendsKeep ==
    ASSUME ToolInv, NEW i \in DOMAIN toolRuns, NEW ok \in BOOLEAN, RunSends(i, ok)
    PROVE  ToolInv'
<1>1. tool \in ToolRecord /\ PageTypes(tool) /\ CallTypes(toolCalls)
    BY PageIs
<1>2. Live(i) /\ UNCHANGED <<toolCalls, toolJobs>>
    BY DEF RunSends, Live, RunLive
<1>3. CASE RunFails(i)
    BY <1>2, <1>3, FailKeeps
<1>4. CASE ok /\ ~RunFails(i)
    <2> DEFINE src == IF tool.page = "remake" THEN toolRuns[i].of ELSE tool.src
               t == [tool EXCEPT !.phase = "queued", !.src = src]
               r == [toolRuns[i] EXCEPT !.pc = "post"]
    <2>1. r \in RunRecord /\ toolRuns' = [toolRuns EXCEPT ![i] = r]
        BY <1>4, RunIs DEF RunSends, RunLive
    <2>2. Render(t)
        BY <1>4 DEF RunSends
    <2>3. src \in ToolValues /\ "queued" \in ToolPhases
        BY <1>1, RunIs DEF ToolRecord, RunRecord, ToolPhases
    <2> HIDE DEF src, r
    <2>4. /\ t \in ToolRecord
          /\ t.page = tool.page /\ t.visit = tool.visit /\ t.input = tool.input
          /\ t.seq = tool.seq /\ t.est = tool.est /\ t.timer = tool.timer
          /\ t.phase = "queued" /\ t.taken = tool.taken
        BY <1>1, <2>3 DEF ToolRecord
    <2> HIDE DEF t
    <2>5. PageTypes(t)
        BY <1>1, <2>4 DEF PageTypes
    <2>6. PageTypes(tool') /\ tool'.phase = "queued" /\ tool'.taken = tool.taken
        BY <2>2, <2>4, <2>5, EffectTypes, EffectChanges DEF Render, PageTypes
    <2>7. EstOK(tool', toolCalls)
        <3>1. \A c \in toolCalls : Asked(c) => c \in toolCalls /\ c.seq \in Nat
            BY <1>1 DEF CallTypes
        <3>2. tool' = IF Priced(t) = Priced(tool) THEN t ELSE EstimateEffect(t)
            BY <2>2 DEF Render
        <3> QED BY <1>1, <2>4, <3>1, <3>2, RenderKeepsEstimate DEF ToolInv, PageTypes
    <2>8. Busy'
        BY <2>6 DEF Busy
    <2> QED BY <1>2, <2>1, <2>6, <2>7, <2>8, RunMoves
<1> QED BY <1>3, <1>4 DEF RunSends

LEMMA PostsKeep ==
    ASSUME ToolInv, NEW i \in DOMAIN toolRuns, NEW answer, RunPosts(i, answer)
    PROVE  ToolInv'
<1>1. Live(i) /\ UNCHANGED toolCalls
    BY DEF RunPosts, Live, RunLive
<1>2. "queued" \in JobKinds /\ "completed" \in JobKinds
    BY DEF JobKinds, JobLive, ToolJobEnds
<1>3. CASE RunFails(i)
    BY <1>1, <1>2, <1>3, FailKeeps DEF RunPosts
<1>4. CASE RunSucceeds(i)
    BY <1>1, <1>2, <1>4, SucceedKeeps DEF RunPosts
<1>5. CASE toolRuns' = [toolRuns EXCEPT ![i].pc = "poll"] /\ tool' = tool
           /\ toolJobs' = [toolJobs EXCEPT ![i] = "queued"]
    <2> DEFINE r == [toolRuns[i] EXCEPT !.pc = "poll"]
    <2>1. r \in RunRecord /\ toolRuns' = [toolRuns EXCEPT ![i] = r]
        BY <1>5, RunIs DEF RunLive
    <2>2. PageTypes(tool') /\ EstOK(tool', toolCalls)
        BY <1>5, PageIs DEF ToolInv
    <2> HIDE DEF r
    <2> QED BY <1>1, <1>2, <1>5, <2>1, <2>2, RunMoves
<1> QED BY <1>3, <1>4, <1>5 DEF RunPosts

LEMMA PollsKeep ==
    ASSUME ToolInv, NEW i \in DOMAIN toolRuns, NEW ok \in BOOLEAN, RunPolls(i, ok)
    PROVE  ToolInv'
<1>1. Live(i) /\ UNCHANGED <<toolCalls, toolJobs>>
    BY DEF RunPolls, Live, RunLive
<1>2. \/ RunFails(i)
      \/ RunSucceeds(i)
      \/ PollAgain(i, tool.phase)
      \/ PollAgain(i, IF toolJobs[i] = "processing" THEN "processing" ELSE "queued")
    BY DEF RunPolls
<1>3. CASE RunFails(i)
    BY <1>1, <1>3, FailKeeps
<1>4. CASE RunSucceeds(i)
    BY <1>1, <1>4, SucceedKeeps
<1>5. ASSUME NEW phase \in {"queued", "processing", tool.phase}, PollAgain(i, phase) PROVE ToolInv'
    BY <1>1, <1>5, PollKeeps
<1> QED BY <1>2, <1>3, <1>4, <1>5

LEMMA JobKeeps ==
    ASSUME ToolInv, NEW i \in DOMAIN toolRuns, ToolJobMoves(i)
    PROVE  ToolInv'
<1>1. PageTypes(tool) /\ CallTypes(toolCalls) /\ RunTypes /\ tool \in ToolRecord
    BY PageIs
<1>2. UNCHANGED <<tool, toolCalls, toolRuns>>
    BY DEF ToolJobMoves
<1>3. PICK s \in JobKinds : toolJobs' = [toolJobs EXCEPT ![i] = s]
    BY DEF ToolJobMoves, JobKinds, JobLive, ToolJobEnds
<1>4. toolJobs' \in Seq(JobKinds) /\ Len(toolJobs') = Len(toolJobs)
    BY <1>1, <1>3 DEF RunTypes
<1>5. RunTypes'
    BY <1>1, <1>2, <1>4 DEF RunTypes
<1>6. ToolTypeOK'
    <2>1. ToolTypeOK' <=> PageTypes(tool)' /\ CallTypes(toolCalls)' /\ RunTypes'
        BY TypesAre, PTL
    <2> QED BY <1>1, <1>2, <1>5, <2>1 DEF PageTypes, CallTypes
<1>7. RunsApart'
    BY <1>2 DEF ToolInv, RunsApart, Live, Busy
<1>8. EstOK(tool', toolCalls')
    BY <1>2 DEF ToolInv
<1> QED BY <1>6, <1>7, <1>8 DEF ToolInv

(* The button is not offered on a busy page, so the run it starts is alone.  *)
LEMMA ClickKeeps ==
    ASSUME ToolInv, ClickRun
    PROVE  ToolInv'
<1>1. PageTypes(tool) /\ CallTypes(toolCalls) /\ RunTypes /\ tool \in ToolRecord
    BY PageIs
<1>2. PICK pc \in {"send", "post"}, phase \in {"uploading", "queued"}, of \in {tool.file, tool.src} :
        /\ toolRuns' = Append(toolRuns, [pc |-> pc, of |-> of, polls |-> 0])
        /\ tool' = [tool EXCEPT !.output = 0, !.phase = phase]
    BY DEF ClickRun, RunBegins
<1> DEFINE r == [pc |-> pc, of |-> of, polls |-> 0]
<1>3. r \in RunRecord
    <2>1. of \in ToolValues
        BY <1>1 DEF ToolRecord, ToolValues, Sample
    <2>2. 0 \in 0 .. ToolPolls - 1
        OBVIOUS
    <2> QED BY <2>1, <2>2 DEF RunRecord, RunLive
<1>4. ~Busy /\ UNCHANGED toolCalls /\ toolJobs' = Append(toolJobs, "none")
    BY DEF ClickRun, RunOffered
<1>5. Len(toolRuns) + 1 <= ToolRuns
    <2>1. tool.visit.runs \in 0 .. ToolRuns
        BY PageIs
    <2>2. Len(toolRuns) \in Nat
        BY <1>1 DEF RunTypes
    <2> QED BY <2>1, <2>2 DEF ClickRun
<1> HIDE DEF r
<1>6. toolRuns' = Append(toolRuns, r)
    BY <1>2 DEF r
<1>7. /\ toolRuns' \in Seq(RunRecord) /\ Len(toolRuns') = Len(toolRuns) + 1
      /\ toolJobs' \in Seq(JobKinds) /\ Len(toolJobs') = Len(toolJobs) + 1
    BY <1>1, <1>3, <1>4, <1>6 DEF RunTypes, JobKinds
<1>8. \A j \in DOMAIN toolRuns' : j = Len(toolRuns) + 1 \/ (j \in DOMAIN toolRuns /\ toolRuns'[j] = toolRuns[j])
    BY <1>1, <1>6 DEF RunTypes
<1>9. RunTypes'
    BY <1>1, <1>5, <1>7 DEF RunTypes
<1>10. PageTypes(tool') /\ EstOK(tool', toolCalls) /\ tool'.phase = phase /\ tool'.taken = tool.taken
    <2>1. phase \in ToolPhases /\ 0 \in 0 .. ToolRuns
        BY ValueTypes DEF ToolPhases
    <2>2. tool' = Phased(phase, 0)
        BY <1>1, <1>2 DEF ToolRecord, Phased
    <2> QED BY <2>1, <2>2, PhaseTypes
<1>11. ToolTypeOK'
    <2>1. ToolTypeOK' <=> PageTypes(tool)' /\ CallTypes(toolCalls)' /\ RunTypes'
        BY TypesAre, PTL
    <2> QED BY <1>1, <1>4, <1>9, <1>10, <2>1 DEF PageTypes, CallTypes
<1>12. RunsApart'
    <2>1. ~tool.taken => \A j \in DOMAIN toolRuns : ~Live(j)
        BY <1>4 DEF ToolInv, RunsApart
    <2>2. ~tool.taken => \A j \in DOMAIN toolRuns' : Live(j)' => j = Len(toolRuns) + 1
        BY <1>8, <2>1 DEF Live
    <2>3. Busy'
        BY <1>10 DEF Busy
    <2> QED BY <1>10, <2>2, <2>3 DEF RunsApart
<1> QED BY <1>4, <1>10, <1>11, <1>12 DEF ToolInv

(* ---------------------------------------------------------------- theorems -- *)

LEMMA ToolInitInv == ToolInit => ToolInv
<1> SUFFICES ASSUME ToolInit PROVE ToolInv
    OBVIOUS
<1>1. PICK visit \in ToolVisits :
        LET profile == ToolProfiles[visit.page]
            first(i) == IF i \in profile.given THEN Sample ELSE Nothing
        IN
        tool = EstimateEffect(
                 [page |-> visit.page, visit |-> visit, input |-> profile.input, src |-> first("src"), ref |-> first("ref"),
                  setting |-> 0, file |-> Nothing, uploading |-> FALSE, framing |-> FALSE,
                  phase |-> "idle", output |-> 0, est |-> None, estimating |-> FALSE,
                  seq |-> 0, timer |-> None, edits |-> 0, taken |-> FALSE])
    BY DEF ToolInit
<1> DEFINE src == IF "src" \in ToolProfiles[visit.page].given THEN Sample ELSE Nothing
           ref == IF "ref" \in ToolProfiles[visit.page].given THEN Sample ELSE Nothing
           t == [page |-> visit.page, visit |-> visit, input |-> ToolProfiles[visit.page].input,
                 src |-> src, ref |-> ref,
                 setting |-> 0, file |-> Nothing, uploading |-> FALSE, framing |-> FALSE,
                 phase |-> "idle", output |-> 0, est |-> None, estimating |-> FALSE,
                 seq |-> 0, timer |-> None, edits |-> 0, taken |-> FALSE]
<1>2. tool = EstimateEffect(t)
    BY <1>1
<1>3. visit.page \in DOMAIN ToolProfiles
    OBVIOUS
<1>4. ToolProfiles[visit.page].input \in ToolWays
    BY <1>3, ProfileFacts DEF Profiled
<1>5. src \in ToolValues /\ ref \in ToolValues
    BY ValueTypes
<1>6. /\ None \in Seq(ToolPrices) /\ None \in Seq(ToolAsked) /\ Len(None) = 0
      /\ "idle" \in ToolPhases /\ Nothing \in 0 .. ToolEdits /\ 0 \in 0 .. ToolRuns /\ 0 \in 0 .. ToolEdits
    BY NoneInSeq, ValueTypes DEF ToolPhases
<1> HIDE DEF src, ref
<1>7. /\ t \in ToolRecord
      /\ t.page = visit.page /\ t.visit = visit /\ t.input = ToolProfiles[visit.page].input
      /\ t.est = None /\ t.timer = None /\ t.seq = 0 /\ t.taken = FALSE
    BY <1>3, <1>4, <1>5, <1>6 DEF ToolRecord
<1> HIDE DEF t
<1>8. Len(t.est) <= 1 /\ Len(t.timer) <= 1
    BY <1>6, <1>7
<1>9. PageTypes(tool)
    <2>1. EstimateEffect(t) \in ToolRecord /\ Len(EstimateEffect(t).est) <= 1 /\ Len(EstimateEffect(t).timer) <= 1
        BY <1>7, <1>8, EffectTypes
    <2>2. EstimateEffect(t).page = t.page /\ EstimateEffect(t).visit = t.visit /\ EstimateEffect(t).input = t.input
        BY <1>7, EffectChanges
    <2> QED BY <1>2, <1>7, <2>1, <2>2 DEF PageTypes
<1>10. toolCalls = {} /\ toolRuns = <<>> /\ toolJobs = <<>>
    BY DEF ToolInit
<1>11. ToolTypeOK
    <2>1. CallTypes(toolCalls) /\ RunTypes
        BY <1>10 DEF CallTypes, RunTypes
    <2> QED BY <1>9, <2>1, TypesAre
<1>12. RunsApart
    BY <1>10 DEF RunsApart
<1>13. EstOK(tool, toolCalls)
    <2>1. CASE ~Quoting(t)
        BY <1>2, <1>7, <2>1, EffectIs DEF EstOK, Quoting
    <2>2. CASE Quoting(t) /\ Complete(t)
        <3>1. tool = [t EXCEPT !.seq = t.seq + 1, !.timer = <<Asks(t)>>]
            BY <1>2, <1>7, <2>2, EffectIs
        <3>2. tool.seq = t.seq + 1 /\ tool.timer = <<Asks(t)>>
            BY <1>7, <3>1 DEF ToolRecord
        <3>3. Priced(tool) = Priced(t)
            BY <1>2, <1>7, EffectChanges
        <3>4. tool.timer # None /\ tool.timer[1].seq = tool.seq /\ tool.timer[1].of = Priced(tool) /\ tool.seq \in Nat
            BY <1>7, <3>2, <3>3 DEF Asks, None
        <3> QED BY <1>10, <3>4 DEF EstOK
    <2>3. CASE Quoting(t) /\ ~Complete(t)
        <3>1. tool.page = t.page /\ tool.src = t.src /\ tool.ref = t.ref
            BY <1>2, <1>7, EffectChanges
        <3>2. ~Complete(tool)
            BY <1>7, <2>3, <3>1, CompleteAlike
        <3>3. tool = [t EXCEPT !.timer = None, !.est = IF t.input = "remake" THEN t.est ELSE None]
            BY <1>2, <1>7, <2>3, EffectIs
        <3>4. tool.timer = None
            BY <1>7, <3>3 DEF ToolRecord
        <3> QED BY <1>10, <3>2, <3>4 DEF EstOK
    <2>4. Quoting(t) \in BOOLEAN
        BY <1>7, EffectIs
    <2> QED BY <2>1, <2>2, <2>3, <2>4
<1> QED BY <1>11, <1>12, <1>13 DEF ToolInv

LEMMA ToolStep == ToolInv /\ [ToolNext]_toolVars => ToolInv'
<1> SUFFICES ASSUME ToolInv, [ToolNext]_toolVars PROVE ToolInv'
    OBVIOUS
<1>1. CASE ToolUser
    <2>1. CASE ClickRun
        BY <2>1, ClickKeeps
    <2>2. CASE ChooseFilm \/ RemoveFilm \/ UseSample
        BY <2>2, FilmKeeps
    <2>3. CASE \E i \in ToolInputs : UseLink(i)
        BY <2>3, LinkKeeps
    <2>4. CASE \/ \E i \in ToolInputs : ChooseFlag(i) \/ ChooseSlot(i) \/ ChoosePhase(i) \/ ChooseFile(i)
               \/ ToolSetting \/ ChooseClip \/ GenerateFrame
        BY <2>4, ChoosingKeeps
    <2> QED BY <1>1, <2>1, <2>2, <2>3, <2>4 DEF ToolUser
<1>2. CASE TimerFires
    BY <1>2, TimerKeeps
<1>3. CASE ToolCallEnds
    BY <1>3, AnswersKeep, EstimateKeeps DEF ToolCallEnds
<1>4. ASSUME NEW i \in DOMAIN toolRuns, RunStep(i) \/ ToolJobMoves(i) PROVE ToolInv'
    BY <1>4, SendsKeep, PollsKeep, PostsKeep, JobKeeps DEF RunStep
<1>5. CASE UNCHANGED toolVars
    <2>1. UNCHANGED <<tool, toolCalls, toolRuns, toolJobs>>
        BY <1>5 DEF toolVars
    <2>2. ToolTypeOK'
        BY <2>1 DEF ToolInv, ToolTypeOK, Page
    <2>3. RunsApart'
        BY <2>1 DEF ToolInv, RunsApart, Live, Busy
    <2>4. EstOK(tool', toolCalls')
        BY <2>1 DEF ToolInv
    <2> QED BY <2>2, <2>3, <2>4 DEF ToolInv
<1> QED BY <1>1, <1>2, <1>3, <1>4, <1>5 DEF ToolNext

(* The state of every tool page stays what its types say, whatever handlers  *)
(* are interleaved, with any number of gestures and runs.                    *)
THEOREM ToolTypes == ToolSpec => [](ToolTypeOK /\ RunsApart)
<1>1. ToolInv => ToolTypeOK /\ RunsApart
    BY DEF ToolInv
<1> QED BY <1>1, ToolInitInv, ToolStep, PTL DEF ToolSpec

LEMMA OneLives ==
    ToolInv => OneRunAtATime
<1> SUFFICES ASSUME ToolInv PROVE OneRunAtATime
    OBVIOUS
<1> DEFINE live == {i \in DOMAIN toolRuns : toolRuns[i].pc \in RunLive}
<1>1. CASE tool.taken
    BY <1>1 DEF OneRunAtATime
<1>2. CASE ~tool.taken /\ live = {}
    <2>1. Cardinality(live) = 0
        BY <1>2, FS_EmptySet
    <2> QED BY <2>1 DEF OneRunAtATime
<1>3. CASE ~tool.taken /\ live # {}
    <2>1. PICK i \in live : TRUE
        BY <1>3
    <2>2. live = {i}
        BY <1>3, <2>1 DEF ToolInv, RunsApart, Live
    <2>3. Cardinality({i}) = 1
        BY FS_Singleton, Zenon
    <2>4. Cardinality(live) = 1
        BY <2>2, <2>3, Zenon
    <2>5. ~(Cardinality(live) > 1)
        <3> HIDE DEF live
        <3> QED BY <2>4
    <2> QED BY <2>5 DEF OneRunAtATime
<1> QED BY <1>1, <1>2, <1>3

(* Two paid runs are in flight together only after another handler wrote the *)
(* phase the button is disabled from.                                        *)
THEOREM OneRunAtATimeHolds == ToolSpec => []OneRunAtATime
<1> QED BY OneLives, ToolInitInv, ToolStep, PTL DEF ToolSpec

LEMMA EstimateKept ==
    ToolInv => EstimateIsCurrent
BY DEF ToolInv, EstOK, EstimateIsCurrent, Page, Asked, StillAsked

(* The price shown once the answers are in is the price of the inputs shown, *)
(* in whatever order the answers came and however many were overtaken.       *)
THEOREM EstimateIsCurrentHolds == ToolSpec => []EstimateIsCurrent
<1> QED BY EstimateKept, ToolInitInv, ToolStep, PTL DEF ToolSpec
================================================================================
