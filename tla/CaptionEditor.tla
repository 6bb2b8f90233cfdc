--------------------------- MODULE CaptionEditor ---------------------------
(* The caption page: a video, the words heard in it with their times, edits  *)
(* of single words and of the whole transcript, undo, and captions grouped   *)
(* into pages that are looked up by time while the video plays. Videos are   *)
(* decoded and transcribed while the page is used, and another may be        *)
(* dropped at any time. A time is a number of units of about 50 ms; the text *)
(* of a word is left out. A word remembers the video it was heard in.        *)
EXTENDS Integers, Sequences, FiniteSets, SequencesExt, Lists

CONSTANTS
    CapVisits,       \* the videos, the words heard in them, the gestures and their number
    CapTargets,      \* the times a drag, a number or the playhead may be at
    CapWords,        \* a transcript is not made longer than this
    CapFiles         \* videos: 1 to this

CapWord == [of : 0 .. CapFiles, start : Int, end : Int, hidden : BOOLEAN]
CapTranscript == {words \in Seq(CapWord) : Len(words) <= CapWords}

ASSUME CapAssumption ==
    /\ CapTargets \subseteq Int /\ CapWords \in Nat /\ CapFiles \in Nat
    /\ CapVisits \subseteq [edits : Nat, ops : SUBSET STRING, files : SUBSET (1 .. CapFiles),
                            heard : SUBSET CapTranscript, imports : SUBSET CapTranscript]

VARIABLES
    cap,         \* the component's state and refs
    capCalls,    \* decodeSpeech and transcribeAudio in flight
    capStore     \* localStorage: the words kept for each video

capVars == <<cap, capCalls, capStore>>

MinLength == 1     \* a word is not dragged shorter (0.04 s); a token's least share
Touching == 1      \* a neighbour this near follows a dragged edge (0.06 s)
Short == 3         \* an added word takes 0.12 s, 0.5 s where there is room,
Long == 10         \* 0.4 s at the end
AtEnd == 8
LinkGap == 9       \* a caption stays up through a gap below 0.45 s,
Linger == 7        \* and 0.35 s before a longer one

Word(of, start, end) == [of |-> of, start |-> start, end |-> end, hidden |-> FALSE]
CapMax(a, b) == IF a > b THEN a ELSE b
CapMin(a, b) == IF a < b THEN a ELSE b

(* ----------------------------------------------------------- single words -- *)

Before(words, i) == SubSeq(words, 1, i - 1)
After(words, i) == SubSeq(words, i + 1, Len(words))

(* Two tokens in the place of one share its time at their weights; each has  *)
(* its least share, even if that is more than there is.                      *)
Halves(w, cut, least) ==
    LET end == w.start + CapMax(2 * least, w.end - w.start)
        mid == CapMin(CapMax(cut, w.start + least), end - least)
    IN <<[w EXCEPT !.end = mid], [w EXCEPT !.start = mid, !.end = end]>>

SetWordText(words, i, cut) == Before(words, i) \o Halves(words[i], cut, MinLength) \o After(words, i)

MergeWithPrevious(words, i) ==
    Before(words, i - 1) \o <<[words[i - 1] EXCEPT !.end = words[i].end]>> \o After(words, i)

DeleteWord(words, i) == Before(words, i) \o After(words, i)

InsertWordAfter(words, i) ==
    LET start == words[i].end
        end == IF i = Len(words) THEN start + AtEnd
               ELSE CapMax(start + Short, CapMin(words[i + 1].start, start + Long))
    IN Before(words, i) \o <<words[i], Word(words[i].of, start, end)>> \o After(words, i)

SplitWordAt(words, i, time) ==
    IF time \in words[i].start + 1 .. words[i].end - 1
    THEN Before(words, i) \o <<[words[i] EXCEPT !.end = time], [words[i] EXCEPT !.start = time]>> \o After(words, i)
    ELSE words

(* Mutant: an edge may pass the neighbour's other end.                       *)
FreeEdge(words, i, value) == CapMax(value, words[i].start + MinLength)
(* How far the end of a word may go: not past the end of the next.           *)
EndOfEdge(words, i, value) ==
    LET end == CapMax(value, words[i].start + MinLength)
    IN IF i = Len(words) THEN end ELSE CapMin(words[i + 1].end - MinLength, end)

StartOfEdge(words, i, value) ==
    CapMax(IF i = 1 THEN 0 ELSE words[i - 1].start + MinLength,
           CapMin(value, words[i].end - MinLength))

(* A dragged edge takes a touching or overlapped neighbour with it.          *)
MoveStart(words, i, value) ==
    LET start == StartOfEdge(words, i, value)
        gap == words[i].start - words[i - 1].end
        follows == i > 1 /\ (gap \in -Touching .. Touching \/ words[i - 1].end > start)
    IN [k \in DOMAIN words |->
          CASE k = i -> [words[i] EXCEPT !.start = start]
            [] k = i - 1 /\ follows -> [words[k] EXCEPT !.end = start]
            [] OTHER -> words[k]]

MoveEnd(words, i, value) ==
    LET end == EndOfEdge(words, i, value)
        gap == words[i + 1].start - words[i].end
        follows == i < Len(words) /\ (gap \in -Touching .. Touching \/ words[i + 1].start < end)
    IN [k \in DOMAIN words |->
          CASE k = i -> [words[i] EXCEPT !.end = end]
            [] k = i + 1 /\ follows -> [words[k] EXCEPT !.start = end]
            [] OTHER -> words[k]]

ShiftWord(words, i, delta) ==
    LET w == words[i]
        low == IF i = 1 THEN delta ELSE CapMax(delta, words[i - 1].start + MinLength - w.start)
        high == IF i = Len(words) THEN low ELSE CapMin(low, words[i + 1].end - MinLength - w.end)
        by == CapMax(high, -w.start)
    IN IF by = 0 THEN words
       ELSE [k \in DOMAIN words |->
               CASE k = i -> [w EXCEPT !.start = @ + by, !.end = @ + by]
                 [] k = i - 1 /\ words[k].end > w.start + by -> [words[k] EXCEPT !.end = w.start + by]
                 [] k = i + 1 /\ words[k].start < w.end + by -> [words[k] EXCEPT !.start = w.end + by]
                 [] OTHER -> words[k]]

(* realignText, for one stretch of the transcript between two words that are *)
(* kept, a and b: n new tokens take the place of what was between them. As   *)
(* many tokens as there were words keep the words' times.                    *)
RealignText(words, a, b, n, cut) ==
    LET gap == SubSeq(words, a + 1, b - 1)
        first == IF a = 0 THEN 0 ELSE words[a].end
        last == IF b > Len(words) THEN words[Len(words)].end ELSE words[b].start
        t0 == IF gap = <<>> THEN first ELSE gap[1].start
        t1 == IF gap = <<>> THEN last ELSE gap[Len(gap)].end
        tight == t1 - t0 < 2 * n
        past == b <= Len(words) /\ t0 + Short * n > last
        from == IF tight /\ past THEN CapMax(first, last - Short * n) ELSE t0
        to == IF ~tight THEN t1 ELSE IF past THEN last ELSE t0 + Short * n
        whole == Word(cap.file, from, CapMax(to, from + MinLength))
    IN SubSeq(words, 1, a)
       \o (IF Len(gap) = n THEN gap ELSE IF n = 1 THEN <<whole>> ELSE Halves(whole, cut, MinLength))
       \o SubSeq(words, b, Len(words))

(* --------------------------------------------------------- pages of words -- *)

VisibleWords(words) == Without(words, {w \in ToSet(words) : w.hidden})

(* buildPages, for any grouping: the visible words, cut before those at the  *)
(* places in cuts. A page stays up until the next if that comes soon.        *)
BuildPages(words, cuts) ==
    LET begins == Without([i \in DOMAIN words |-> i], 2 .. Len(words) \ cuts)
        ends(k) == IF k = Len(begins) THEN Len(words) ELSE begins[k + 1] - 1
        show(k) == words[begins[k]].start
        end(k) == words[ends(k)].end
    IN IF words = <<>> THEN <<>>
       ELSE [k \in DOMAIN begins |->
               [first |-> begins[k], last |-> ends(k), show |-> show(k),
                hide |-> IF k = Len(begins) THEN end(k) + Linger
                         ELSE IF show(k + 1) - end(k) < LinkGap THEN show(k + 1)
                         ELSE CapMin(end(k) + Linger, show(k + 1))]]

(* pageAt: a binary search for the last page that has begun.                 *)
PageAt(pages, t) ==
    LET n == Len(pages)
        found[s \in (1 .. n + 1) \X (0 .. n) \X (0 .. n)] ==
            LET lo == s[1]
                hi == s[2]
                best == s[3]
                mid == (lo + hi) \div 2
            IN IF lo > hi THEN best
               ELSE IF pages[mid].show <= t THEN found[<<mid + 1, hi, mid>>]
               ELSE found[<<lo, mid - 1, best>>]
        page == found[<<1, n, 0>>]
    IN IF page # 0 /\ t < pages[page].hide THEN page ELSE 0

(* -------------------------------------------------------------- the page -- *)

CapInit ==
    /\ \E visit \in CapVisits :
         cap = [visit |-> visit, file |-> 0, audio |-> 0, words |-> <<>>, past |-> <<>>, future |-> <<>>,
                grab |-> <<>>, busy |-> "", armed |-> FALSE, crowded |-> FALSE, late |-> FALSE]
    /\ capCalls = {}
    /\ capStore = [f \in 1 .. CapFiles |-> <<>>]

(* The words one after the other, each in time of its own.                   *)
Fits(words) ==
    /\ \A i \in DOMAIN words : 0 <= words[i].start /\ words[i].start < words[i].end
    /\ \A i \in 2 .. Len(words) : words[i - 1].end <= words[i].start

(* New words start the save timer anew; there is none without words.         *)
WithWords(c, words) == [c EXCEPT !.words = words, !.armed = words # <<>> /\ c.file # 0]

(* setWords. An edit of the same kind within 900 ms adds nothing to the      *)
(* history; neither does one whose updater React calls only when it renders, *)
(* for it then finds the key it has just left itself.                        *)
SetWords(c, words, keyed) ==
    {[WithWords(c, words) EXCEPT !.past = past, !.future = <<>>] :
       past \in {Append(c.past, c.words)} \union (IF keyed THEN {c.past} ELSE {})}

CapGesture(op) == op \in cap.visit.ops /\ cap.visit.edits > 0
Spent(c) == [c EXCEPT !.visit.edits = @ - 1]

(* An edit that keeps words apart, and one that does where there is room.    *)
Crowded(c, words) == [c EXCEPT !.crowded = @ \/ ~Fits(words)]

Edits(words, keyed) ==
    /\ words # cap.words /\ Len(words) <= CapWords
    /\ cap' \in SetWords(Spent(cap), words, keyed)
    /\ UNCHANGED <<capCalls, capStore>>
EditsFreely(words, keyed) ==
    /\ words # cap.words /\ Len(words) <= CapWords
    /\ cap' \in SetWords(Crowded(Spent(cap), words), words, keyed)
    /\ UNCHANGED <<capCalls, capStore>>

Late(c, f) == [c EXCEPT !.late = @ \/ c.file # f]

(* onDown, on an edge of a word or within it: the words are those of now for *)
(* every move of the drag, whatever becomes of the page's.                   *)
GrabWord(i) ==
    /\ CapGesture("drag")
    /\ \E part \in {"start", "end", "whole"} :
         cap' = [cap EXCEPT !.grab = <<[words |-> cap.words, file |-> cap.file, at |-> i, part |-> part]>>]
    /\ UNCHANGED <<capCalls, capStore>>

(* onMove.                                                                   *)
DraggedTo(grab, t) ==
    CASE grab.part = "start" -> MoveStart(grab.words, grab.at, t)
      [] grab.part = "end" -> MoveEnd(grab.words, grab.at, t)
      [] OTHER -> ShiftWord(grab.words, grab.at, t - grab.words[grab.at].start)

DragWord(t) ==
    /\ CapGesture("drag") /\ cap.grab # <<>>
    /\ LET words == DraggedTo(cap.grab[1], t) IN
       /\ words # cap.words
       /\ cap' \in SetWords(Late(Spent(cap), cap.grab[1].file), words, TRUE)
    /\ UNCHANGED <<capCalls, capStore>>

JoinOrDelete(i) ==
    /\ CapGesture("join")
    /\ \/ i > 1 /\ Edits(MergeWithPrevious(cap.words, i), FALSE)
       \/ Edits(DeleteWord(cap.words, i), FALSE)
       \/ Edits([cap.words EXCEPT ![i].hidden = ~@], FALSE)
       \/ \E t \in CapTargets : Edits(SplitWordAt(cap.words, i, t), FALSE)

AddWord(i) == CapGesture("add") /\ EditsFreely(InsertWordAfter(cap.words, i), FALSE)

TypeText(i) ==
    /\ CapGesture("type")
    /\ \E t \in CapTargets :
         \/ EditsFreely(SetWordText(cap.words, i, t), TRUE)
         \/ 0 <= t /\ t < cap.words[i].end /\ EditsFreely([cap.words EXCEPT ![i].start = t], TRUE)
         \/ t > cap.words[i].start /\ EditsFreely([cap.words EXCEPT ![i].end = t], TRUE)

ApplyText ==
    /\ CapGesture("text") /\ cap.words # <<>>
    /\ \E a \in 0 .. Len(cap.words), n \in 1 .. 2, t \in CapTargets : \E b \in a + 1 .. Len(cap.words) + 1 :
         EditsFreely(RealignText(cap.words, a, b, n, t), FALSE)

(* Time to voice, and snap to speech: times found in the sound; the latter   *)
(* keeps the words.                                                          *)
Heard(f) == {[i \in DOMAIN words |-> [words[i] EXCEPT !.of = f]] : words \in cap.visit.heard}
TimeToVoice ==
    /\ CapGesture("text") /\ cap.file # 0
    /\ \E words \in Heard(cap.file) : EditsFreely(words, FALSE)
Retime ==
    /\ CapGesture("text") /\ cap.audio # 0
    /\ \E words \in Heard(cap.file) :
         /\ Len(words) = Len(cap.words)
         /\ EditsFreely([i \in DOMAIN words |-> [cap.words[i] EXCEPT !.start = words[i].start, !.end = words[i].end]],
                        TRUE)

Capt(kind, f) == [kind |-> kind, file |-> f]
CapCalls(call) == capCalls' = capCalls \union {call}
CapReturns(call) == capCalls' = capCalls \ {call}

ImportFile ==
    /\ CapGesture("import") /\ cap.file # 0
    /\ \E words \in cap.visit.imports :
         EditsFreely([i \in DOMAIN words |-> [words[i] EXCEPT !.of = cap.file]], FALSE)

(* --------------------------------------------------------- undo and redo -- *)

CapUndo ==
    /\ CapGesture("undo") /\ cap.past # <<>>
    /\ cap' = [WithWords(Spent(cap), Last(cap.past)) EXCEPT
                 !.past = Front(@), !.future = Append(@, cap.words)]
    /\ UNCHANGED <<capCalls, capStore>>

CapRedo ==
    /\ CapGesture("undo") /\ cap.future # <<>>
    /\ cap' = [WithWords(Spent(cap), Last(cap.future)) EXCEPT
                 !.future = Front(@), !.past = Append(@, cap.words)]
    /\ UNCHANGED <<capCalls, capStore>>

(* ---------------------------------------------------- videos and answers -- *)

(* A video is chosen or dropped, whatever else is going on.                  *)
Choose(f) ==
    /\ f \in cap.visit.files /\ cap.visit.edits > 0 /\ Capt("load", f) \notin capCalls
    /\ cap' = [Spent(cap) EXCEPT !.busy = "load"]
    /\ CapCalls(Capt("load", f))
    /\ UNCHANGED capStore

(* Mutant: the history of the other video stays.                             *)
ResetWords(c) == [c EXCEPT !.words = <<>>]
ResetProject(c) == [c EXCEPT !.words = <<>>, !.past = <<>>, !.future = <<>>]

(* It is the source from now on, with the captions kept for it.              *)
Loaded(call, ok) ==
    /\ call.kind = "load"
    /\ IF ok
       THEN /\ cap' = WithWords([ResetProject(cap) EXCEPT !.file = call.file, !.audio = 0, !.busy = ""],
                                capStore[call.file])
            /\ capCalls' = (capCalls \ {call}) \union {Capt("decode", call.file)}
       ELSE cap' = [cap EXCEPT !.busy = ""] /\ CapReturns(call)
    /\ UNCHANGED capStore

(* decodeSpeech: the sound is that of the call, whatever the source is now.  *)
Decoded(call) ==
    /\ call.kind = "decode"
    /\ cap' = Late([cap EXCEPT !.audio = call.file], call.file)
    /\ CapReturns(call)
    /\ UNCHANGED capStore

Transcribe ==
    /\ CapGesture("transcribe") /\ cap.audio # 0 /\ cap.busy = ""
    /\ cap' = [Spent(cap) EXCEPT !.busy = "transcribe"]
    /\ CapCalls(Capt("transcribe", cap.audio))
    /\ UNCHANGED capStore

(* The words are those of the video that was sent.                           *)
Transcribed(call, ok) ==
    /\ call.kind = "transcribe"
    /\ IF ok THEN \E words \in Heard(call.file) :
                    cap' \in SetWords(Crowded(Late([cap EXCEPT !.busy = ""], call.file), words), words, FALSE)
       ELSE cap' = [cap EXCEPT !.busy = ""]
    /\ CapReturns(call)
    /\ UNCHANGED capStore

ExportVideo ==
    /\ CapGesture("export") /\ cap.file # 0 /\ cap.words # <<>> /\ cap.busy = ""
    /\ cap' = [Spent(cap) EXCEPT !.busy = "export"]
    /\ CapCalls(Capt("export", cap.file))
    /\ UNCHANGED capStore

Exported(call) ==
    /\ call.kind = "export"
    /\ cap' = [cap EXCEPT !.busy = ""]
    /\ CapReturns(call)
    /\ UNCHANGED capStore

(* The save effect's timer.                                                  *)
WordsSaved ==
    /\ cap.armed
    /\ capStore' = [capStore EXCEPT ![cap.file] = cap.words]
    /\ cap' = [cap EXCEPT !.armed = FALSE]
    /\ UNCHANGED capCalls

(* -------------------------------------------------------- specification -- *)

CapUser ==
    \/ \E i \in DOMAIN cap.words : GrabWord(i) \/ JoinOrDelete(i) \/ AddWord(i) \/ TypeText(i)
    \/ \E t \in CapTargets : DragWord(t)
    \/ ApplyText \/ TimeToVoice \/ Retime \/ ImportFile \/ CapUndo \/ CapRedo \/ Transcribe \/ ExportVideo
    \/ \E f \in 1 .. CapFiles : Choose(f)

CapAnswers ==
    \/ \E call \in capCalls : Decoded(call) \/ Exported(call)
    \/ \E call \in capCalls, ok \in BOOLEAN : Loaded(call, ok) \/ Transcribed(call, ok)

CapNext == CapUser \/ CapAnswers \/ WordsSaved

CapSpec == CapInit /\ [][CapNext]_capVars /\ WF_capVars(CapAnswers) /\ WF_capVars(WordsSaved)

(* ------------------------------------------------------------ properties -- *)

(* Type correctness of the page, its calls and its storage.                  *)
CapTypeOK ==
    /\ {cap.file, cap.audio} \subseteq 0 .. CapFiles
    /\ \A i \in DOMAIN cap.words : cap.words[i].start \in Int /\ cap.words[i].end \in Int
    /\ Len(cap.words) <= CapWords
    /\ cap.busy \in {"", "load", "transcribe", "export"}
    /\ \A call \in capCalls : call.file \in 1 .. CapFiles
    /\ \A f \in 1 .. CapFiles : Len(capStore[f]) <= CapWords

(* Drags, splits, joins, deletions and undo keep the words apart, as long as *)
(* no word is added, typed, timed by hand, imported or heard where there is  *)
(* no room. And whatever was done, as long as words do not begin or end      *)
(* before those in front of them, the caption of a word is up while it is    *)
(* heard, however the words are grouped: the search for the page of an       *)
(* instant relies on that order.                                             *)
InOrder(words) ==
    /\ \A i \in DOMAIN words : words[i].start < words[i].end
    /\ \A i \in 2 .. Len(words) : /\ words[i - 1].start <= words[i].start
                                  /\ words[i - 1].end <= words[i].end

Sounding(words, t) == {i \in DOMAIN words : words[i].start <= t /\ t < words[i].end}
UpAt(words, pages, t) ==
    LET page == PageAt(pages, t)
        i == CHOOSE i \in Sounding(words, t) : \A k \in Sounding(words, t) : k <= i
    IN page # 0 /\ i \in pages[page].first .. pages[page].last

HeardIsShown ==
    /\ ~cap.crowded => Fits(cap.words)
    /\ InOrder(cap.words) =>
         LET words == VisibleWords(cap.words) IN
         \A cuts \in SUBSET (2 .. Len(words)) : \A i \in DOMAIN words :
           \A t \in words[i].start .. words[i].end - 1 : UpAt(words, BuildPages(words, cuts), t)

(* The captions on the page, those undo can bring back and those kept for a  *)
(* video are of that video, unless an answer for another video came, or a    *)
(* drag of its words went on, after it had been replaced.                    *)
AllOf(words, f) == \A i \in DOMAIN words : words[i].of = f
CaptionsOfVideo ==
    ~cap.late =>
      /\ AllOf(cap.words, cap.file)
      /\ \A k \in DOMAIN cap.past : AllOf(cap.past[k], cap.file)
      /\ \A f \in 1 .. CapFiles : AllOf(capStore[f], f)

(* The two together: the words of the video, shown while they are heard.     *)
WordsOfVideo == HeardIsShown /\ CaptionsOfVideo
=============================================================================
