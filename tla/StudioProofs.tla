------------------------------ MODULE StudioProofs ------------------------------
(* Theorems about the Studio page, for every visit and every length of the   *)
(* history.                                                                  *)
EXTENDS StudioEditor, StudioGenerations, SequenceTheorems, TLAPS

USE StudioBounds

LEMMA FrontIs ==
    ASSUME NEW S, NEW s \in Seq(S), s # <<>>
    PROVE  /\ Front(s) \in Seq(S) /\ Len(Front(s)) = Len(s) - 1 /\ Last(s) \in S
           /\ \A i \in 1 .. Len(s) - 1 : Front(s)[i] = s[i]
<1> DEFINE m == Len(s) - 1
<1>1. m \in Nat /\ m + 1 = Len(s) /\ \A i \in 1 .. m : s[i] \in S
    OBVIOUS
<1>2. Front(s) = SubSeq(s, 1, m)
    BY DEF Front
<1>3. /\ SubSeq(s, 1, m) \in Seq(S) /\ Len(SubSeq(s, 1, m)) = m
      /\ \A i \in 1 .. m : SubSeq(s, 1, m)[i] = s[i]
    BY <1>1, SubSeqProperties
<1>4. Last(s) \in S
    BY <1>1 DEF Last
<1> QED BY <1>2, <1>3, <1>4

LEMMA RemoveIs ==
    ASSUME NEW S, NEW s \in Seq(S), NEW k \in DOMAIN s
    PROVE  /\ RemoveAt(s, k) \in Seq(S) /\ Len(RemoveAt(s, k)) = Len(s) - 1
           /\ \A i \in 1 .. Len(s) - 1 : RemoveAt(s, k)[i] = s[IF i < k THEN i ELSE i + 1]
<1> DEFINE a == SubSeq(s, 1, k - 1)
           b == SubSeq(s, k + 1, Len(s))
<1>1. k \in 1 .. Len(s) /\ Len(s) \in Nat
    OBVIOUS
<1>2. /\ a \in Seq(S) /\ Len(a) = k - 1
      /\ \A i \in 1 .. k - 1 : a[i] = s[i]
    BY <1>1, SubSeqProperties
<1>3. /\ b \in Seq(S) /\ Len(b) = Len(s) - k
      /\ \A i \in 1 .. Len(s) - k : b[i] = s[k + i]
    BY <1>1, SubSeqProperties
<1> HIDE DEF a, b
<1>4. /\ a \o b \in Seq(S) /\ Len(a \o b) = Len(s) - 1
      /\ \A i \in 1 .. Len(s) - 1 : (a \o b)[i] = s[IF i < k THEN i ELSE i + 1]
    BY <1>1, <1>2, <1>3
<1> QED BY <1>4 DEF RemoveAt, a, b

LEMMA LatestIs ==
    ASSUME NEW S, NEW s \in Seq(S)
    PROVE  /\ Latest(s) \in Seq(S) /\ Len(Latest(s)) <= StudioHistory
           /\ Len(Latest(s)) = IF Len(s) <= StudioHistory THEN Len(s) ELSE StudioHistory
           /\ \A i \in 1 .. Len(Latest(s)) : Latest(s)[i] = s[i + (Len(s) - Len(Latest(s)))]
<1>1. Len(s) \in Nat
    OBVIOUS
<1>2. CASE Len(s) <= StudioHistory
    BY <1>1, <1>2 DEF Latest
<1>3. CASE Len(s) > StudioHistory
    <2> DEFINE m == Len(s) - StudioHistory + 1
    <2>1. m \in Int /\ \A i \in m .. Len(s) : s[i] \in S
        BY <1>1, <1>3
    <2>2. Latest(s) = SubSeq(s, m, Len(s))
        BY <1>1, <1>3 DEF Latest
    <2>3. /\ SubSeq(s, m, Len(s)) \in Seq(S) /\ Len(SubSeq(s, m, Len(s))) = StudioHistory
          /\ \A i \in 1 .. StudioHistory : SubSeq(s, m, Len(s))[i] = s[m + i - 1]
        BY <1>1, <1>3, <2>1, SubSeqProperties
    <2> QED BY <1>1, <1>3, <2>2, <2>3
<1> QED BY <1>1, <1>2, <1>3

LEMMA AppendIs ==
    ASSUME NEW S, NEW s \in Seq(S), NEW x \in S
    PROVE  /\ Append(s, x) \in Seq(S) /\ Len(Append(s, x)) = Len(s) + 1
           /\ \A i \in 1 .. Len(s) + 1 : Append(s, x)[i] = IF i = Len(s) + 1 THEN x ELSE s[i]
    OBVIOUS

(* ------------------------------------------------------------- documents -- *)

StudioClips == [id : Int, media : Int, rev : Int, lut : Int, cloud : Int,
                stream : BOOLEAN, cut : BOOLEAN, home : Nat]
OwnClips == {c \in StudioClips : c.cut \/ c.cloud \in {0, c.media}}
ClipSets == SUBSET OwnClips
LutSets == SUBSET Int
Histories == {s \in Seq(ClipSets) : Len(s) <= StudioHistory}
AllFine(clips, p, luts) == \A c \in clips : c.home \in {p, NoProject} /\ c.lut \in luts \cup {0}

Docs == [clips : ClipSets, undo : Histories, redo : Histories, luts : LutSets, pure : BOOLEAN]
DocPure(doc, p) == doc.pure => AllFine(Retained(doc), p, doc.luts)
DocMaps == {f \in UNION {[D -> Docs] : D \in SUBSET Projects} : \A p \in DOMAIN f : DocPure(f[p], p)}

LEMMA PiecesOf ==
    ASSUME NEW s \in Histories
    PROVE  /\ Pieces(s) \in ClipSets
           /\ \A c : c \in Pieces(s) <=> \E i \in 1 .. Len(s) : c \in s[i]
    BY DEF Pieces, Histories, ClipSets

LEMMA NoPieces == Pieces(<<>>) = {} /\ <<>> \in Histories
<1>1. Pieces(<<>>) = {}
    BY DEF Pieces
<1> QED BY <1>1 DEF Histories

LEMMA PiecesGrow ==
    ASSUME NEW s \in Histories, NEW x \in ClipSets
    PROVE  /\ Latest(Append(s, x)) \in Histories
           /\ Pieces(Latest(Append(s, x))) \subseteq Pieces(s) \cup x
<1> DEFINE t == Append(s, x)
<1>1. s \in Seq(ClipSets) /\ Len(s) \in Nat
    BY DEF Histories
<1>2. /\ t \in Seq(ClipSets) /\ Len(t) = Len(s) + 1
      /\ \A i \in 1 .. Len(s) + 1 : t[i] = IF i = Len(s) + 1 THEN x ELSE s[i]
    BY <1>1, AppendIs
<1> HIDE DEF t
<1>3. /\ Latest(t) \in Seq(ClipSets) /\ Len(Latest(t)) <= StudioHistory
      /\ Len(Latest(t)) = IF Len(t) <= StudioHistory THEN Len(t) ELSE StudioHistory
      /\ \A i \in 1 .. Len(Latest(t)) : Latest(t)[i] = t[i + (Len(t) - Len(Latest(t)))]
    BY <1>2, LatestIs
<1>4. Latest(t) \in Histories
    BY <1>3 DEF Histories
<1>5. ASSUME NEW c \in Pieces(Latest(t)) PROVE c \in Pieces(s) \cup x
    <2>1. PICK i \in 1 .. Len(Latest(t)) : c \in Latest(t)[i]
        BY <1>4, PiecesOf
    <2> DEFINE l == Len(Latest(t))
               k == i + (Len(t) - l)
    <2>0. l \in Nat /\ Len(t) = Len(s) + 1 /\ l <= Len(t) /\ Len(s) \in Nat
        BY <1>1, <1>2, <1>3
    <2>2. k \in 1 .. Len(s) + 1 /\ Latest(t)[i] = t[k]
        <3>1. Latest(t)[i] = t[k]
            BY <1>3, <2>1
        <3> HIDE DEF l
        <3>2. i \in 1 .. l
            BY <2>1 DEF l
        <3> QED BY <2>0, <3>1, <3>2
    <2> HIDE DEF k
    <2>3. PICK j \in 1 .. Len(s) + 1 : c \in t[j]
        BY <2>1, <2>2
    <2>4. CASE j = Len(s) + 1
        BY <1>2, <2>3, <2>4
    <2>5. CASE j \in 1 .. Len(s)
        BY <1>1, <1>2, <2>3, <2>5, PiecesOf
    <2> QED BY <1>1, <2>4, <2>5
<1> QED BY <1>4, <1>5 DEF t

LEMMA PiecesShrink ==
    ASSUME NEW s \in Histories, s # <<>>
    PROVE  /\ Front(s) \in Histories /\ Last(s) \in ClipSets
           /\ Pieces(Front(s)) \subseteq Pieces(s) /\ Last(s) \subseteq Pieces(s)
<1>1. s \in Seq(ClipSets) /\ Len(s) \in Nat /\ Len(s) > 0 /\ Len(s) <= StudioHistory
    BY DEF Histories
<1>2. /\ Front(s) \in Seq(ClipSets) /\ Len(Front(s)) = Len(s) - 1 /\ Last(s) \in ClipSets
      /\ \A i \in 1 .. Len(s) - 1 : Front(s)[i] = s[i]
    BY <1>1, FrontIs
<1>3. Front(s) \in Histories
    BY <1>1, <1>2 DEF Histories
<1>4. Last(s) = s[Len(s)] /\ Len(s) \in 1 .. Len(s)
    BY <1>1 DEF Last
<1>5. Last(s) \subseteq Pieces(s)
    BY <1>4, PiecesOf
<1>6. Pieces(Front(s)) \subseteq Pieces(s)
    <2> SUFFICES ASSUME NEW c \in Pieces(Front(s)) PROVE c \in Pieces(s)
        OBVIOUS
    <2>1. PICK i \in 1 .. Len(s) - 1 : c \in Front(s)[i]
        BY <1>2, <1>3, PiecesOf
    <2> QED BY <1>1, <1>2, <2>1, PiecesOf
<1> QED BY <1>2, <1>3, <1>5, <1>6

LEMMA MapHas ==
    ASSUME NEW f \in DocMaps, NEW p \in DOMAIN f
    PROVE  p \in Projects /\ f[p] \in Docs /\ DocPure(f[p], p)
    BY DEF DocMaps

LEMMA WithIs ==
    ASSUME NEW f \in DocMaps, NEW k \in Projects, NEW v \in Docs, DocPure(v, k)
    PROVE  /\ With(f, k, v) \in DocMaps
           /\ DOMAIN With(f, k, v) = DOMAIN f \cup {k}
           /\ With(f, k, v)[k] = v
           /\ \A p \in DOMAIN f : p # k => With(f, k, v)[p] = f[p]
<1> DEFINE D == DOMAIN f \cup {k}
           g == With(f, k, v)
<1>1. g = [x \in D |-> IF x = k THEN v ELSE f[x]]
    BY DEF With
<1>2. DOMAIN f \subseteq Projects /\ \A p \in DOMAIN f : f[p] \in Docs /\ DocPure(f[p], p)
    BY MapHas
<1>3. g \in [D -> Docs] /\ D \in SUBSET Projects
    BY <1>1, <1>2
<1>4. \A p \in DOMAIN g : DocPure(g[p], p)
    <2> TAKE p \in DOMAIN g
    <2>1. CASE p = k
        BY <1>1, <2>1
    <2>2. CASE p # k
        BY <1>1, <1>2, <2>2
    <2> QED BY <2>1, <2>2
<1>5. g \in DocMaps
    BY <1>3, <1>4 DEF DocMaps
<1> QED BY <1>1, <1>5

(* ------------------------------------------------------------ the editor -- *)

Contents == SUBSET [id : Int, media : Int, rev : Int, lut : Int]
Drags == [clip : OwnClips, snap : ClipSets, opened : Nat]
Texted == UNION {[D -> Int] : D \in SUBSET Int}
Editors == [project : Nat, clips : ClipSets, luts : LutSets, undo : Histories, redo : Histories,
            before : Seq(Contents), merge : Int, drag : Seq(Drags), texted : Texted,
            clipboard : ClipSets, copied : Nat, opened : Nat, ready : BOOLEAN,
            stale : BOOLEAN, pure : BOOLEAN]

Aligned(s, b) == \A i \in 1 .. Len(s) : Content(s[i]) = b[i]
UndoOk(e) == Len(e.before) = Len(e.undo) /\ (~e.stale => Aligned(e.undo, e.before))

Since(e, opened, clips) ==
    opened <= e.opened /\ (e.pure /\ opened = e.opened => AllFine(clips, e.project, e.luts))
EdPure(e) == e.pure => AllFine(Retained(e), e.project, e.luts)
DragOk(e) == e.drag # NoDrag => Since(e, e.drag[1].opened, e.drag[1].snap)
CopiedOk(e) == Since(e, e.copied, e.clipboard)
EdInv(e) == e \in Editors /\ UndoOk(e) /\ EdPure(e) /\ DragOk(e) /\ CopiedOk(e)

Onward(e, f) ==
    /\ e.opened <= f.opened
    /\ f.pure /\ f.opened = e.opened =>
         e.pure /\ e.luts \subseteq f.luts /\ (f.project = e.project \/ e.project = NoProject)

LEMMA SinceOn ==
    ASSUME NEW e \in Editors, NEW f \in Editors, NEW opened \in Nat, NEW clips \in ClipSets,
           Since(e, opened, clips), Onward(e, f)
    PROVE  Since(f, opened, clips)
<1>1. e.opened \in Nat /\ f.opened \in Nat
    BY DEF Editors
<1>2. opened <= f.opened
    BY <1>1 DEF Since, Onward
<1>3. ASSUME f.pure, opened = f.opened PROVE AllFine(clips, f.project, f.luts)
    <2>1. e.pure /\ opened = e.opened /\ e.luts \subseteq f.luts /\ (f.project = e.project \/ e.project = NoProject)
        BY <1>1, <1>3 DEF Since, Onward
    <2> QED BY <2>1 DEF Since, AllFine
<1> QED BY <1>2, <1>3 DEF Since

LEMMA ContentIn == ASSUME NEW s \in ClipSets PROVE Content(s) \in Contents
<1> SUFFICES ASSUME NEW c \in s
             PROVE  [id |-> c.id, media |-> c.media, rev |-> c.rev, lut |-> c.lut] \in [id : Int, media : Int, rev : Int, lut : Int]
    BY DEF Content, Contents
<1> QED BY DEF ClipSets, OwnClips, StudioClips

LEMMA AlignedGrows ==
    ASSUME NEW s \in Histories, NEW b \in Seq(Contents), NEW x \in ClipSets, NEW y \in Contents,
           Len(b) = Len(s)
    PROVE  /\ Latest(Append(b, y)) \in Seq(Contents)
           /\ Len(Latest(Append(b, y))) = Len(Latest(Append(s, x)))
           /\ Aligned(s, b) /\ Content(x) = y => Aligned(Latest(Append(s, x)), Latest(Append(b, y)))
<1> DEFINE t == Append(s, x)
           d == Append(b, y)
<1>1. s \in Seq(ClipSets) /\ Len(s) \in Nat
    BY DEF Histories
<1>2. /\ t \in Seq(ClipSets) /\ Len(t) = Len(s) + 1
      /\ \A i \in 1 .. Len(s) + 1 : t[i] = IF i = Len(s) + 1 THEN x ELSE s[i]
    BY <1>1, AppendIs
<1>3. /\ d \in Seq(Contents) /\ Len(d) = Len(s) + 1
      /\ \A i \in 1 .. Len(s) + 1 : d[i] = IF i = Len(s) + 1 THEN y ELSE b[i]
    BY <1>1, AppendIs
<1> HIDE DEF t, d
<1>4. /\ Latest(t) \in Seq(ClipSets) /\ Len(Latest(t)) <= StudioHistory
      /\ Len(Latest(t)) = IF Len(t) <= StudioHistory THEN Len(t) ELSE StudioHistory
      /\ \A i \in 1 .. Len(Latest(t)) : Latest(t)[i] = t[i + (Len(t) - Len(Latest(t)))]
    BY <1>2, LatestIs
<1>5. /\ Latest(d) \in Seq(Contents)
      /\ Len(Latest(d)) = IF Len(d) <= StudioHistory THEN Len(d) ELSE StudioHistory
      /\ \A i \in 1 .. Len(Latest(d)) : Latest(d)[i] = d[i + (Len(d) - Len(Latest(d)))]
    BY <1>3, LatestIs
<1>6. Len(Latest(d)) = Len(Latest(t))
    BY <1>2, <1>3, <1>4, <1>5
<1>7. ASSUME Aligned(s, b), Content(x) = y PROVE Aligned(Latest(t), Latest(d))
    <2> SUFFICES ASSUME NEW i \in 1 .. Len(Latest(t)) PROVE Content(Latest(t)[i]) = Latest(d)[i]
        BY DEF Aligned
    <2> DEFINE k == i + (Len(t) - Len(Latest(t)))
    <2>0. /\ Len(Latest(t)) \in Nat /\ i \in Nat /\ 1 <= i /\ i <= Len(Latest(t))
          /\ Len(Latest(t)) <= Len(s) + 1
        BY <1>1, <1>2, <1>4
    <2>1. k \in 1 .. Len(s) + 1 /\ Latest(t)[i] = t[k]
        <3>1. k \in 1 .. Len(s) + 1
            BY <1>1, <1>2, <2>0
        <3> QED BY <1>4, <3>1
    <2>2. Latest(d)[i] = d[k]
        BY <1>2, <1>3, <1>5, <1>6
    <2> HIDE DEF k
    <2>3. Content(t[k]) = d[k]
        <3>1. CASE k = Len(s) + 1
            BY <1>2, <1>3, <1>7, <2>1, <3>1
        <3>2. CASE k # Len(s) + 1
            BY <1>1, <1>2, <1>3, <1>7, <2>1, <3>2 DEF Aligned
        <3> QED BY <3>1, <3>2
    <2> QED BY <2>1, <2>2, <2>3
<1> QED BY <1>5, <1>6, <1>7 DEF t, d

(* The editor goes on with the project that is open. *)
Keeps(e, f) ==
    /\ f \in Editors /\ f.project = e.project /\ f.ready = e.ready /\ f.opened = e.opened /\ e.luts \subseteq f.luts
    /\ f.pure => e.pure /\ AllFine(Retained(f), e.project, f.luts)
    /\ UndoOk(f)
    /\ f.drag \in {e.drag, NoDrag} \/ DragOk(f)
    /\ (f.clipboard = e.clipboard /\ f.copied = e.copied) \/ CopiedOk(f)

LEMMA DragIs ==
    ASSUME NEW e \in Editors, e.drag # NoDrag
    PROVE  /\ e.drag[1] \in Drags /\ e.drag[1].clip \in OwnClips
           /\ e.drag[1].opened \in Nat /\ e.drag[1].snap \in ClipSets
<1>1. e.drag \in Seq(Drags)
    BY DEF Editors
<1>2. Len(e.drag) \in Nat /\ Len(e.drag) # 0
    BY <1>1 DEF NoDrag
<1>3. e.drag[1] \in Drags
    BY <1>1, <1>2
<1> QED BY <1>3 DEF Drags

LEMMA KeepsOn ==
    ASSUME NEW e, NEW f, EdInv(e), Keeps(e, f)
    PROVE  EdInv(f) /\ Onward(e, f) /\ e.luts \subseteq f.luts
<1>1. e \in Editors /\ f \in Editors
    BY DEF EdInv, Keeps
<1>2. e.opened \in Nat /\ e.clipboard \in ClipSets /\ e.copied \in Nat
    BY <1>1 DEF Editors
<1>3. Onward(e, f)
    BY <1>2 DEF Keeps, Onward
<1>4. CopiedOk(f)
    BY <1>1, <1>2, <1>3, SinceOn DEF EdInv, CopiedOk, Keeps
<1>5. DragOk(f)
    <2> SUFFICES ASSUME f.drag = e.drag, f.drag # NoDrag PROVE Since(f, f.drag[1].opened, f.drag[1].snap)
        BY DEF DragOk, Keeps
    <2>1. Since(e, e.drag[1].opened, e.drag[1].snap)
        BY DEF EdInv, DragOk
    <2>2. e.drag[1].opened \in Nat /\ e.drag[1].snap \in ClipSets
        BY <1>1, DragIs
    <2> QED BY <1>1, <1>3, <2>1, <2>2, SinceOn
<1>6. EdPure(f)
    BY DEF EdPure, Keeps
<1> QED BY <1>1, <1>3, <1>4, <1>5, <1>6 DEF EdInv, Keeps

(* An edit leaves an entry in the history. *)
Pushes(e, f, snap, was) ==
    /\ f \in Editors /\ snap \in ClipSets /\ was \in ClipSets
    /\ f.undo = Latest(Append(e.undo, snap)) /\ f.redo = <<>>
    /\ f.before = Latest(Append(e.before, Content(was)))
    /\ f.project = e.project /\ f.ready = e.ready /\ f.opened = e.opened /\ f.clipboard = e.clipboard /\ f.copied = e.copied
    /\ e.luts \subseteq f.luts /\ f.drag \in {e.drag, NoDrag}
    /\ f.pure => e.pure /\ AllFine(snap \cup f.clips, e.project, f.luts)
    /\ ~f.stale => ~e.stale /\ Content(snap) = Content(was)

LEMMA PushKeeps ==
    ASSUME NEW e, NEW f, NEW snap, NEW was, EdInv(e), Pushes(e, f, snap, was)
    PROVE  Keeps(e, f)
<1>1. e \in Editors /\ f \in Editors /\ snap \in ClipSets /\ was \in ClipSets
    BY DEF EdInv, Pushes
<1>2. /\ e.undo \in Histories /\ e.redo \in Histories /\ e.before \in Seq(Contents)
      /\ e.clips \in ClipSets
    BY <1>1 DEF Editors
<1>3. UndoOk(f)
    <2>1. Len(e.before) = Len(e.undo) /\ (~e.stale => Aligned(e.undo, e.before))
        BY DEF EdInv, UndoOk
    <2>2. Content(was) \in Contents
        BY <1>1, ContentIn
    <2>3. /\ Len(f.before) = Len(f.undo)
          /\ Aligned(e.undo, e.before) /\ Content(snap) = Content(was) => Aligned(f.undo, f.before)
        BY <1>1, <1>2, <2>1, <2>2, AlignedGrows DEF Pushes
    <2> QED BY <2>1, <2>3 DEF UndoOk, Pushes
<1>4. ASSUME f.pure PROVE AllFine(Retained(f), e.project, f.luts)
    <2>1. AllFine(Retained(e), e.project, e.luts) /\ AllFine(snap \cup f.clips, e.project, f.luts)
        BY <1>4 DEF EdInv, Pushes, EdPure
    <2>2. Retained(f) \subseteq Retained(e) \cup (snap \cup f.clips)
        BY <1>1, <1>2, PiecesGrow, NoPieces DEF Pushes, Retained
    <2> QED BY <2>1, <2>2 DEF AllFine, Pushes
<1> QED BY <1>3, <1>4 DEF Pushes, Keeps

LEMMA RememberIs ==
    ASSUME NEW e \in Editors, NEW snap \in ClipSets, NEW was \in ClipSets, NEW key \in Int,
           Len(e.before) = Len(e.undo)
    PROVE  /\ Remember(e, snap, was, key) \in Editors
           /\ Remember(e, snap, was, key).undo = Latest(Append(e.undo, snap))
           /\ Remember(e, snap, was, key).redo = <<>>
           /\ Remember(e, snap, was, key).before = Latest(Append(e.before, Content(was)))
           /\ Remember(e, snap, was, key).project = e.project
           /\ Remember(e, snap, was, key).ready = e.ready
           /\ Remember(e, snap, was, key).opened = e.opened
           /\ Remember(e, snap, was, key).clipboard = e.clipboard
           /\ Remember(e, snap, was, key).copied = e.copied
           /\ Remember(e, snap, was, key).luts = e.luts
           /\ Remember(e, snap, was, key).clips = e.clips
           /\ Remember(e, snap, was, key).drag = e.drag
           /\ Remember(e, snap, was, key).stale = e.stale
           /\ Remember(e, snap, was, key).pure = e.pure
<1> DEFINE u == Latest(Append(e.undo, snap))
           b == Latest(Append(e.before, Content(was)))
<1>1. e.undo \in Histories /\ e.before \in Seq(Contents)
    BY DEF Editors
<1>2. u \in Histories /\ b \in Seq(Contents) /\ <<>> \in Histories
    BY <1>1, PiecesGrow, AlignedGrows, NoPieces, ContentIn
<1>3. Remember(e, snap, was, key) = [e EXCEPT !.undo = u, !.redo = <<>>, !.before = b, !.merge = key]
    BY DEF Remember
<1> HIDE DEF u, b
<1>4. [e EXCEPT !.undo = u, !.redo = <<>>, !.before = b, !.merge = key] \in Editors
    BY <1>2 DEF Editors
<1> QED BY <1>3, <1>4 DEF Editors, u, b

(* ------------------------------------------------------- the whole state -- *)

Visits == [signed : BOOLEAN, requested : Nat, known : SUBSET Projects, moves : SUBSET StudioMoves,
           ops : SUBSET DOMAIN StudioOps, left : Nat, faults : Nat, saves : Nat, stamp : Nat]
Pages == [signed : BOOLEAN, requested : Nat, cloud : DocMaps]
Disks == [docs : DocMaps, media : SUBSET (Nat \X Int), last : Nat]
TaskSet == [op : DOMAIN StudioOps, n : Nat, pc : {"work", "bytes"}, left : Nat, snap : ClipSets,
            project : Nat, opened : Nat, clip : OwnClips]
OpenStarting == [project : Nat, asked : Nat, pc : {"start"}, first : BOOLEAN, mixed : BOOLEAN]
OpenFetches == {l \in [project : Nat, asked : Nat, pc : {"fetch"}, first : BOOLEAN, mixed : BOOLEAN, doc : Docs] :
              DocPure(l.doc, l.project)}
SaveSet == {s \in [pc : {"disk", "put", "answer"}, project : Projects, doc : Docs, live : BOOLEAN, late : BOOLEAN] :
              DocPure(s.doc, s.project)}
Statuses == {"loading", "saving", "disk", "uploading", "cloud", "failed"}
Syncs == [armed : BOOLEAN, retry : BOOLEAN, saves : Seq(SaveSet),
          shown : Statuses, overtaken : BOOLEAN,
          idle : BOOLEAN, batches : SUBSET [left : SUBSET Int, failed : BOOLEAN], again : BOOLEAN]

StoredWhole(d) ==
    \A p \in DOMAIN d.docs : \A c \in Retained(d.docs[p]) :
        c.stream \/ c.cloud # 0 \/ <<p, c.media>> \in d.media

TasksInv(ts, e) == ts \subseteq TaskSet /\ \A t \in ts : Since(e, t.opened, t.snap \cup {t.clip})
LoadsInv(ls, e) ==
    ls \subseteq OpenStarting \cup OpenFetches /\ \A l \in ls : l.pc = "fetch" /\ ~l.mixed => l.doc.luts \subseteq e.luts

OnDisk(s, e, d) ==
    /\ e.project \in DOMAIN d.docs /\ d.docs[e.project] = Document(e)
    /\ \A i \in 1 .. Len(s.saves) : s.saves[i].pc # "disk"
InCloud(s, e, pg) ==
    /\ \A i \in 1 .. Len(s.saves) : s.saves[i].pc = "put" => s.saves[i].late
    /\ ~s.overtaken => e.project \in DOMAIN pg.cloud /\ pg.cloud[e.project] = Document(e)
LiveOk(s, e, d, pg, i) ==
    /\ i = Len(s.saves) /\ ~s.saves[i].late /\ ~s.armed /\ s.shown # "cloud"
    /\ s.saves[i].project = e.project /\ s.saves[i].doc = Document(e)
    /\ s.saves[i].pc # "disk" => OnDisk(s, e, d)
    /\ s.saves[i].pc = "answer" => InCloud(s, e, pg)
NoneYet(s, e) == ~e.ready => ~s.armed /\ Len(s.saves) = 0
SavesInv(s, e, d, pg) ==
    /\ NoneYet(s, e)
    /\ s.armed => s.shown # "cloud"
    /\ \A i \in 1 .. Len(s.saves) : s.saves[i].live => LiveOk(s, e, d, pg, i)
    /\ e.ready /\ s.shown = "cloud" => OnDisk(s, e, d) /\ InCloud(s, e, pg)

StudioInv ==
    /\ visit \in Visits /\ page \in Pages /\ disk \in Disks /\ StoredWhole(disk)
    /\ EdInv(ed) /\ TasksInv(tasks, ed) /\ LoadsInv(loads, ed)
    /\ sync \in Syncs /\ Len(sync.saves) <= visit.saves /\ SavesInv(sync, ed, disk, page)

(* Nothing is claimed while a change waits to be saved; before the first load*)
(* has ended nothing waits.                                                  *)
Rests(s) == s.shown # "cloud" /\ \A i \in 1 .. Len(s.saves) : ~s.saves[i].live
Quiet(s, e) == NoneYet(s, e) /\ (e.ready => Rests(s))

LEMMA QuietIs ==
    ASSUME NEW s \in Syncs, NEW e, NEW d, NEW pg, Quiet(s, e)
    PROVE  SavesInv(s, e, d, pg)
<1>1. CASE e.ready
    BY <1>1 DEF Quiet, Rests, SavesInv
<1>2. CASE ~e.ready
    BY <1>2 DEF Quiet, NoneYet, SavesInv
<1> QED BY <1>1, <1>2

LEMMA TupleIs ==
    ASSUME NEW S, NEW n \in Nat, NEW v \in [1 .. n -> S]
    PROVE  v \in Seq(S) /\ Len(v) = n
    OBVIOUS

LEMMA SaveEffectIs ==
    ASSUME NEW s \in Syncs
    PROVE  /\ SaveEffect(s) \in Syncs /\ Len(SaveEffect(s).saves) = Len(s.saves)
           /\ Rests(SaveEffect(s))
<1> DEFINE v == [i \in DOMAIN s.saves |-> [s.saves[i] EXCEPT !.live = FALSE]]
<1>1. s.saves \in Seq(SaveSet) /\ Len(s.saves) \in Nat /\ DOMAIN s.saves = 1 .. Len(s.saves)
    BY DEF Syncs
<1>2. \A i \in 1 .. Len(s.saves) : v[i] \in SaveSet /\ ~v[i].live
    <2> TAKE i \in 1 .. Len(s.saves)
    <2>1. s.saves[i] \in SaveSet
        BY <1>1
    <2>2. v[i] = [s.saves[i] EXCEPT !.live = FALSE]
        BY <1>1
    <2> HIDE DEF v
    <2> QED BY <2>1, <2>2 DEF SaveSet
<1>3. DOMAIN v = 1 .. Len(s.saves) /\ v = [i \in DOMAIN v |-> v[i]]
    BY <1>1
<1>4. SaveEffect(s) = [s EXCEPT !.armed = TRUE, !.retry = FALSE, !.shown = "saving", !.saves = v]
    BY DEF SaveEffect
<1> HIDE DEF v
<1>5. v \in [1 .. Len(s.saves) -> SaveSet]
    BY <1>2, <1>3
<1>6. v \in Seq(SaveSet) /\ Len(v) = Len(s.saves)
    BY <1>1, <1>5, TupleIs
<1>7. SaveEffect(s) \in Syncs /\ SaveEffect(s).saves = v /\ SaveEffect(s).shown = "saving"
    BY <1>4, <1>6 DEF Syncs, Statuses
<1> QED BY <1>2, <1>6, <1>7 DEF Rests

LEMMA EffectsAre ==
    ASSUME NEW s \in Syncs
    PROVE  /\ Effects(s) \in Syncs /\ Len(Effects(s).saves) = Len(s.saves)
           /\ Rests(Effects(s))
<1> DEFINE t == SaveEffect(s)
<1>1. t \in Syncs /\ Len(t.saves) = Len(s.saves) /\ Rests(t)
    BY SaveEffectIs
<1>2. Effects(s) = [t EXCEPT !.idle = TRUE]
    BY DEF Effects
<1> HIDE DEF t
<1>3. Effects(s) \in Syncs /\ Effects(s).saves = t.saves /\ Effects(s).shown = t.shown
    BY <1>1, <1>2 DEF Syncs
<1> QED BY <1>1, <1>3 DEF Rests

(* The effects run when the first load has ended, else they do nothing.      *)
LEMMA SoonIs ==
    ASSUME NEW s \in Syncs, NoneYet(s, ed), NEW e, e.ready = ed.ready,
           NEW t \in {SaveSoon(s), Changed(s)}
    PROVE  t \in Syncs /\ Len(t.saves) = Len(s.saves) /\ Quiet(t, e)
<1>1. CASE ed.ready
    <2>1. t = SaveEffect(s) \/ t = Effects(s)
        BY <1>1 DEF SaveSoon, Changed
    <2>2. t \in Syncs /\ Len(t.saves) = Len(s.saves) /\ Rests(t)
        BY <2>1, SaveEffectIs, EffectsAre
    <2> QED BY <1>1, <2>2 DEF Quiet, NoneYet
<1>2. CASE ~ed.ready
    <2>1. t = s
        BY <1>2 DEF SaveSoon, Changed
    <2> QED BY <1>2, <2>1 DEF Quiet, NoneYet
<1> QED BY <1>1, <1>2

LEMMA ShowsIs ==
    ASSUME sync \in Syncs, NEW status \in Statuses
    PROVE  /\ Shows(status) \in Syncs /\ Shows(status).saves = sync.saves
           /\ Shows(status).shown = status /\ Shows(status).armed = sync.armed
           /\ Shows(status).overtaken = sync.overtaken
    BY DEF Shows, Syncs

(* The page says something else than that all is saved.                      *)
LEMMA ShowsKeeps ==
    ASSUME sync \in Syncs, NEW e, NEW d, NEW pg, SavesInv(sync, e, d, pg),
           NEW status \in Statuses, status # "cloud"
    PROVE  SavesInv(Shows(status), e, d, pg)
<1> DEFINE t == Shows(status)
<1>1. /\ t.saves = sync.saves /\ t.armed = sync.armed /\ t.overtaken = sync.overtaken
      /\ t.shown # "cloud"
    BY ShowsIs
<1> HIDE DEF t
<1>2. NoneYet(t, e)
    BY <1>1 DEF SavesInv, NoneYet
<1>3. ASSUME NEW i \in 1 .. Len(t.saves), t.saves[i].live PROVE LiveOk(t, e, d, pg, i)
    <2>1. LiveOk(sync, e, d, pg, i)
        BY <1>1, <1>3 DEF SavesInv
    <2> QED BY <1>1, <2>1 DEF LiveOk, OnDisk, InCloud
<1>4. SavesInv(t, e, d, pg)
    BY <1>1, <1>2, <1>3 DEF SavesInv
<1> QED BY <1>4 DEF t

LEMMA TasksOn ==
    ASSUME NEW ts, NEW e \in Editors, NEW f \in Editors, TasksInv(ts, e), Onward(e, f)
    PROVE  TasksInv(ts, f)
<1> SUFFICES ASSUME NEW t \in ts PROVE Since(f, t.opened, t.snap \cup {t.clip})
    BY DEF TasksInv
<1>1. t \in TaskSet /\ Since(e, t.opened, t.snap \cup {t.clip})
    BY DEF TasksInv
<1>2. t.opened \in Nat /\ t.snap \cup {t.clip} \in ClipSets
    BY <1>1 DEF TaskSet, ClipSets
<1> QED BY <1>1, <1>2, SinceOn

LEMMA LoadsOn ==
    ASSUME NEW ls, NEW e, NEW f, LoadsInv(ls, e), e.luts \subseteq f.luts
    PROVE  LoadsInv(ls, f)
    BY DEF LoadsInv

(* The editor changes, and what changes will be saved.                       *)
LEMMA WorkKeeps ==
    ASSUME StudioInv, Keeps(ed, ed'), sync' \in Syncs, Quiet(sync', ed'), Len(sync'.saves) = Len(sync.saves),
           visit' \in Visits, visit'.saves = visit.saves, disk' \in Disks, StoredWhole(disk'),
           TasksInv(tasks', ed), UNCHANGED <<page, loads>>
    PROVE  StudioInv'
<1>1. EdInv(ed') /\ Onward(ed, ed') /\ ed.luts \subseteq ed'.luts
    BY KeepsOn DEF StudioInv
<1>2. ed \in Editors /\ ed' \in Editors
    BY <1>1 DEF StudioInv, EdInv
<1>3. TasksInv(tasks', ed') /\ LoadsInv(loads', ed')
    BY <1>1, <1>2, TasksOn, LoadsOn DEF StudioInv
<1>4. sync' \in Syncs /\ Len(sync'.saves) <= visit'.saves /\ SavesInv(sync', ed', disk', page')
    BY QuietIs DEF StudioInv
<1> QED BY <1>1, <1>3, <1>4 DEF StudioInv

(* The same by a gesture.                                                    *)
LEMMA GestureKeeps ==
    ASSUME StudioInv, Keeps(ed, ed'), sync' = Changed(sync),
           visit' \in Visits, visit'.saves = visit.saves, UNCHANGED <<page, disk, tasks, loads>>
    PROVE  StudioInv'
<1>1. sync \in Syncs /\ NoneYet(sync, ed) /\ ed'.ready = ed.ready
    BY DEF StudioInv, SavesInv, Keeps
<1>2. sync' \in Syncs /\ Len(sync'.saves) = Len(sync.saves) /\ Quiet(sync', ed')
    BY <1>1, SoonIs
<1> QED BY <1>2, WorkKeeps DEF StudioInv

LEMMA MovedIs ==
    ASSUME visit \in Visits, visit.left > 0, Moved
    PROVE  visit' \in Visits /\ visit'.saves = visit.saves
<1> DEFINE l == visit.left - 1
           n == visit.stamp + 1
           M == SUBSET StudioMoves
           O == SUBSET DOMAIN StudioOps
           K == SUBSET Projects
<1>1. l \in Nat /\ n \in Nat
    BY DEF Visits
<1>2. visit' = [visit EXCEPT !.left = l, !.stamp = n]
    BY DEF Moved, Stamp
<1>3. Visits = [signed : BOOLEAN, requested : Nat, known : K, moves : M, ops : O,
                left : Nat, faults : Nat, saves : Nat, stamp : Nat]
    BY DEF Visits
<1> HIDE DEF l, n, M, O, K
<1> QED BY <1>1, <1>2, <1>3

(* The same, when the page does something by itself or fails.                *)
LEMMA StampedIs ==
    ASSUME visit \in Visits, visit' = [visit EXCEPT !.stamp = Stamp]
    PROVE  visit' \in Visits /\ visit'.saves = visit.saves
<1> DEFINE n == visit.stamp + 1
           M == SUBSET StudioMoves
           O == SUBSET DOMAIN StudioOps
           K == SUBSET Projects
<1>1. n \in Nat /\ visit' = [visit EXCEPT !.stamp = n]
    BY DEF Visits, Stamp
<1>2. Visits = [signed : BOOLEAN, requested : Nat, known : K, moves : M, ops : O,
                left : Nat, faults : Nat, saves : Nat, stamp : Nat]
    BY DEF Visits
<1> HIDE DEF n, M, O, K
<1> QED BY <1>1, <1>2

LEMMA FaultIs ==
    ASSUME visit \in Visits, visit.faults > 0,
           \/ visit' = [visit EXCEPT !.faults = @ - 1]
           \/ visit' = [visit EXCEPT !.faults = @ - 1, !.stamp = Stamp]
    PROVE  visit' \in Visits /\ visit'.saves = visit.saves
<1> DEFINE n == visit.stamp + 1
           l == visit.faults - 1
           M == SUBSET StudioMoves
           O == SUBSET DOMAIN StudioOps
           K == SUBSET Projects
<1>1. l \in Nat /\ n \in Nat
    BY DEF Visits
<1>2. visit' = [visit EXCEPT !.faults = l] \/ visit' = [visit EXCEPT !.faults = l, !.stamp = n]
    BY DEF Stamp
<1>3. Visits = [signed : BOOLEAN, requested : Nat, known : K, moves : M, ops : O,
                left : Nat, faults : Nat, saves : Nat, stamp : Nat]
    BY DEF Visits
<1> HIDE DEF n, l, M, O, K
<1> QED BY <1>1, <1>2, <1>3

LEMMA StampIs == visit \in Visits => Stamp \in Nat
    BY DEF Visits, Stamp

(* ---------------------------------------------------------------- editing -- *)

(* The history entry of a handler: what it takes for the clips of the moment *)
(* it began, and what it found when it ended; g is the editor with the doubts*)
(* an await leaves.                                                          *)
Doubts(e, g) ==
    /\ g \in Editors /\ g.clips = e.clips /\ g.luts = e.luts /\ g.undo = e.undo /\ g.redo = e.redo
    /\ g.before = e.before /\ g.project = e.project /\ g.ready = e.ready /\ g.opened = e.opened /\ g.drag = e.drag
    /\ g.clipboard = e.clipboard /\ g.copied = e.copied
    /\ (g.pure => e.pure) /\ (e.stale => g.stale)
Leaves(g, snap, was, key, clips, luts, drag) ==
    LET r == Remember(g, snap, was, key)
    IN \/ ed' = [r EXCEPT !.clips = clips] /\ luts = g.luts /\ drag = g.drag
       \/ ed' = [r EXCEPT !.luts = luts, !.clips = clips] /\ drag = g.drag
       \/ ed' = [r EXCEPT !.drag = drag] /\ drag = NoDrag /\ clips = g.clips /\ luts = g.luts

FineEntry(g, snap, was, clips, luts) ==
    /\ ed.luts \subseteq luts
    /\ g.pure => AllFine(snap \cup clips, ed.project, luts)
    /\ ~g.stale => Content(snap) = Content(was)

LEMMA EntryKeeps ==
    ASSUME EdInv(ed), NEW g, Doubts(ed, g), NEW snap \in ClipSets, NEW was \in ClipSets,
           NEW key \in Int, NEW clips \in ClipSets, NEW luts \in LutSets, NEW drag,
           Leaves(g, snap, was, key, clips, luts, drag), FineEntry(g, snap, was, clips, luts)
    PROVE  Keeps(ed, ed')
<1> DEFINE r == Remember(g, snap, was, key)
<1>1. ed \in Editors /\ UndoOk(ed) /\ g \in Editors /\ Len(g.before) = Len(g.undo)
    BY DEF EdInv, UndoOk, Doubts
<1>2. /\ r \in Editors /\ r.undo = Latest(Append(g.undo, snap)) /\ r.redo = <<>>
      /\ r.before = Latest(Append(g.before, Content(was)))
      /\ r.project = g.project /\ r.ready = g.ready /\ r.opened = g.opened /\ r.clipboard = g.clipboard
      /\ r.copied = g.copied /\ r.drag = g.drag /\ r.luts = g.luts /\ r.clips = g.clips
      /\ r.stale = g.stale /\ r.pure = g.pure
    BY <1>1, RememberIs
<1>3. \/ ed' = [r EXCEPT !.clips = clips] /\ luts = r.luts /\ drag = r.drag
      \/ ed' = [r EXCEPT !.luts = luts, !.clips = clips] /\ drag = r.drag
      \/ ed' = [r EXCEPT !.drag = drag] /\ drag = NoDrag /\ clips = r.clips /\ luts = r.luts
    BY <1>2 DEF Leaves
<1> HIDE DEF r
<1>4. drag \in {r.drag, NoDrag} /\ NoDrag \in Seq(Drags)
    BY <1>3 DEF NoDrag
<1>5. ed' \in Editors /\ ed'.clips = clips /\ ed'.luts = luts /\ ed'.drag = drag
    BY <1>2, <1>3, <1>4 DEF Editors
<1>6. /\ ed'.undo = r.undo /\ ed'.redo = r.redo /\ ed'.before = r.before
      /\ ed'.project = r.project /\ ed'.ready = r.ready /\ ed'.opened = r.opened /\ ed'.clipboard = r.clipboard
      /\ ed'.copied = r.copied /\ ed'.stale = r.stale /\ ed'.pure = r.pure
    BY <1>2, <1>3 DEF Editors
<1>7. Pushes(ed, ed', snap, was)
    BY <1>1, <1>2, <1>4, <1>5, <1>6 DEF Pushes, Doubts, FineEntry
<1> QED BY <1>7, PushKeeps

LEMMA NoDoubts == ASSUME EdInv(ed) PROVE Doubts(ed, ed)
    BY DEF EdInv, Doubts

(* A handler that does not await takes the clips of now.                     *)
Enters(key, clips, luts) == Leaves(ed, ed.clips, ed.clips, key, clips, luts, ed.drag)

LEMMA EntryEdits ==
    ASSUME EdInv(ed), NEW key \in Int, NEW clips \in ClipSets, NEW luts \in LutSets,
           ed.luts \subseteq luts, ed.pure => AllFine(clips, ed.project, luts),
           Enters(key, clips, luts)
    PROVE  Keeps(ed, ed')
<1>1. ed.clips \in ClipSets /\ EdPure(ed)
    BY DEF EdInv, Editors
<1>2. ed.pure => AllFine(ed.clips \cup clips, ed.project, luts)
    BY <1>1 DEF EdPure, AllFine, Retained
<1>3. FineEntry(ed, ed.clips, ed.clips, clips, luts)
    BY <1>2 DEF FineEntry
<1> QED BY <1>1, <1>3, NoDoubts, EntryKeeps DEF Enters

LEMMA DoubtsAre ==
    ASSUME EdInv(ed), NEW opened \in Nat, NEW snap \in ClipSets, NEW now \in ClipSets
    PROVE  /\ Doubts(ed, Impure(ed, opened)) /\ Doubts(ed, Staled(Impure(ed, opened), snap, now))
           /\ Impure(ed, opened).pure => ed.pure /\ opened = ed.opened
           /\ Staled(Impure(ed, opened), snap, now).pure => ed.pure /\ opened = ed.opened
           /\ ~Staled(Impure(ed, opened), snap, now).stale => Content(snap) = Content(now)
<1> DEFINE pure == ed.pure /\ opened = ed.opened
           stale == ed.stale \/ Content(snap) # Content(now)
           i == Impure(ed, opened)
<1>1. ed \in Editors /\ pure \in BOOLEAN /\ stale \in BOOLEAN /\ (pure => ed.pure) /\ (ed.stale => stale)
    BY DEF EdInv, Editors
<1>2. i = [ed EXCEPT !.pure = pure]
    BY DEF Impure
<1> HIDE DEF pure, i
<1>3. i \in Editors /\ i.pure = pure /\ i.stale = ed.stale /\ Doubts(ed, i)
    BY <1>1, <1>2 DEF Editors, Doubts
<1>4. Staled(i, snap, now) = [i EXCEPT !.stale = stale]
    BY <1>3 DEF Staled
<1> HIDE DEF stale
<1>5. /\ Staled(i, snap, now).pure = pure /\ Staled(i, snap, now).stale = stale
      /\ Doubts(ed, Staled(i, snap, now))
    BY <1>1, <1>3, <1>4 DEF Editors, Doubts
<1> QED BY <1>3, <1>5 DEF i, pure, stale

(* Another look for a clip of the timeline.                                  *)
LEMMA ClipIs ==
    ASSUME EdInv(ed), NEW c \in ed.clips
    PROVE  /\ c \in OwnClips /\ c \in StudioClips /\ ed.clips \in ClipSets /\ ed.luts \in LutSets
           /\ ed.pure => AllFine(ed.clips, ed.project, ed.luts)
    BY DEF EdInv, EdPure, AllFine, Retained, Editors, ClipSets, OwnClips

(* The clips change, the history does not.                                   *)
LEMMA ReclipKeeps ==
    ASSUME EdInv(ed), NEW clips \in ClipSets, ed.pure => AllFine(clips, ed.project, ed.luts),
           ed' = [ed EXCEPT !.clips = clips]
    PROVE  Keeps(ed, ed')
<1>1. ed \in Editors /\ UndoOk(ed) /\ EdPure(ed)
    BY DEF EdInv
<1>2. ed' \in Editors
    BY <1>1 DEF Editors
<1>3. /\ ed'.clips = clips /\ ed'.luts = ed.luts /\ ed'.undo = ed.undo /\ ed'.redo = ed.redo
      /\ ed'.before = ed.before /\ ed'.project = ed.project /\ ed'.ready = ed.ready /\ ed'.opened = ed.opened
      /\ ed'.clipboard = ed.clipboard /\ ed'.copied = ed.copied /\ ed'.drag = ed.drag
      /\ ed'.stale = ed.stale /\ ed'.pure = ed.pure
    BY <1>1 DEF Editors
<1>4. UndoOk(ed')
    BY <1>1, <1>3 DEF UndoOk
<1>5. ed.pure => AllFine(Retained(ed'), ed.project, ed.luts)
    BY <1>1, <1>3 DEF EdPure, AllFine, Retained
<1> QED BY <1>2, <1>3, <1>4, <1>5 DEF Keeps

LEMMA EditClipKeeps ==
    ASSUME StudioInv, NEW c, NEW merges, EditClip(c, merges)
    PROVE  StudioInv'
<1> DEFINE d == [c EXCEPT !.rev = Stamp]
           clips == (ed.clips \ {c}) \cup {d}
<1>1. /\ EdInv(ed) /\ visit \in Visits /\ visit.left > 0 /\ c \in ed.clips /\ Moved /\ ed \in Editors
      /\ sync' = Changed(sync) /\ UNCHANGED <<page, disk, tasks, loads>>
    BY DEF StudioInv, EditClip, Move, EdInv
<1>2. d \in OwnClips /\ d.home = c.home /\ d.lut = c.lut /\ c.id \in Int
    BY <1>1, ClipIs, StampIs DEF OwnClips, StudioClips
<1>3. clips \in ClipSets /\ ed.clips \in ClipSets
    BY <1>1, <1>2, ClipIs DEF ClipSets
<1>4. ed.pure => AllFine(clips, ed.project, ed.luts)
    BY <1>1, <1>2, ClipIs DEF AllFine
<1>5. visit' \in Visits /\ visit'.saves = visit.saves
    BY <1>1, MovedIs
<1>6. CASE ~merges
    <2>1. Enters(c.id, clips, ed.luts)
        <3>1. Remember(ed, ed.clips, ed.clips, c.id).clips = ed.clips
            BY <1>1, <1>2, <1>3, RememberIs DEF EdInv, UndoOk
        <3> QED BY <1>6, <3>1 DEF EditClip, Enters, Leaves
    <2> HIDE DEF clips
    <2>2. Keeps(ed, ed')
        BY <1>1, <1>2, <1>3, <1>4, <2>1, ClipIs, EntryEdits
    <2> QED BY <1>1, <1>5, <2>2, GestureKeeps
<1>7. CASE merges
    <2>1. ed' = [ed EXCEPT !.clips = clips]
        BY <1>7 DEF EditClip
    <2> HIDE DEF clips
    <2>2. Keeps(ed, ed')
        BY <1>1, <1>3, <1>4, <2>1, ReclipKeeps
    <2> QED BY <1>1, <1>5, <2>2, GestureKeeps
<1> QED BY <1>6, <1>7

LEMMA GradeClipKeeps ==
    ASSUME StudioInv, NEW c, GradeClip(c)
    PROVE  StudioInv'
<1> DEFINE d == [c EXCEPT !.lut = Stamp]
           clips == (ed.clips \ {c}) \cup {d}
           luts == ed.luts \cup {Stamp}
<1>1. /\ EdInv(ed) /\ visit \in Visits /\ visit.left > 0 /\ c \in ed.clips /\ Moved /\ ed \in Editors
      /\ sync' = Changed(sync) /\ UNCHANGED <<page, disk, tasks, loads>>
    BY DEF StudioInv, GradeClip, Move, EdInv
<1>2. d \in OwnClips /\ d.home = c.home /\ d.lut = Stamp
    BY <1>1, ClipIs, StampIs DEF OwnClips, StudioClips
<1>3. clips \in ClipSets /\ luts \in LutSets /\ ed.luts \subseteq luts /\ ed.clips \in ClipSets
    BY <1>1, <1>2, ClipIs, StampIs DEF ClipSets, LutSets
<1>4. ed.pure => AllFine(clips, ed.project, luts)
    BY <1>1, <1>2, ClipIs DEF AllFine
<1>5. visit' \in Visits /\ visit'.saves = visit.saves
    BY <1>1, MovedIs
<1>6. Enters(0, clips, luts)
    <2>1. /\ Remember(ed, ed.clips, ed.clips, 0).clips = ed.clips
          /\ Remember(ed, ed.clips, ed.clips, 0).luts = ed.luts
        BY <1>1, <1>3, RememberIs DEF EdInv, UndoOk
    <2> QED BY <2>1 DEF GradeClip, Enters, Leaves
<1> HIDE DEF clips, luts
<1>7. Keeps(ed, ed')
    BY <1>1, <1>3, <1>4, <1>6, EntryEdits
<1> QED BY <1>1, <1>5, <1>7, GestureKeeps

LEMMA RemoveClipKeeps ==
    ASSUME StudioInv, NEW c, RemoveClip(c)
    PROVE  StudioInv'
<1> DEFINE clips == ed.clips \ {c}
<1>1. /\ EdInv(ed) /\ visit \in Visits /\ visit.left > 0 /\ c \in ed.clips /\ Moved /\ ed \in Editors
      /\ sync' = Changed(sync) /\ UNCHANGED <<page, disk, tasks, loads>>
    BY DEF StudioInv, RemoveClip, Move, EdInv
<1>2. clips \in ClipSets /\ ed.clips \in ClipSets /\ ed.luts \in LutSets
    BY <1>1, ClipIs DEF ClipSets
<1>3. ed.pure => AllFine(clips, ed.project, ed.luts)
    BY <1>1, ClipIs DEF AllFine
<1>4. visit' \in Visits /\ visit'.saves = visit.saves
    BY <1>1, MovedIs
<1>5. Enters(0, clips, ed.luts)
    <2>1. Remember(ed, ed.clips, ed.clips, 0).clips = ed.clips
        BY <1>1, <1>2, RememberIs DEF EdInv, UndoOk
    <2> QED BY <2>1 DEF RemoveClip, Enters, Leaves
<1> HIDE DEF clips
<1>6. Keeps(ed, ed')
    BY <1>1, <1>2, <1>3, <1>5, EntryEdits
<1> QED BY <1>1, <1>4, <1>6, GestureKeeps

(* What the stores hold is not touched.                                      *)
LEMMA QuietGestureKeeps ==
    ASSUME StudioInv, Keeps(ed, ed'), ed'.project = ed.project, Document(ed') = Document(ed),
           visit' \in Visits, visit'.saves = visit.saves, TasksInv(tasks', ed'),
           UNCHANGED <<page, disk, loads, sync>>
    PROVE  StudioInv'
<1>1. EdInv(ed') /\ ed.luts \subseteq ed'.luts
    BY KeepsOn DEF StudioInv
<1>2. LoadsInv(loads', ed')
    BY <1>1, LoadsOn DEF StudioInv
<1>3. SavesInv(sync', ed', disk', page')
    BY DEF StudioInv, SavesInv, NoneYet, LiveOk, OnDisk, InCloud, Keeps
<1> QED BY <1>1, <1>2, <1>3 DEF StudioInv

LEMMA CopySelectionKeeps ==
    ASSUME StudioInv, NEW c, CopySelection(c)
    PROVE  StudioInv'
<1>1. /\ EdInv(ed) /\ ed \in Editors /\ EdPure(ed) /\ UndoOk(ed) /\ visit \in Visits /\ visit.left > 0
      /\ Moved /\ c \in ed.clips /\ UNCHANGED <<page, disk, tasks, loads, sync>>
      /\ ed' = [ed EXCEPT !.clipboard = {c}, !.copied = ed.opened]
    BY DEF StudioInv, CopySelection, Move, EdInv
<1>2. {c} \in ClipSets /\ ed.opened \in Nat
    BY <1>1, ClipIs DEF ClipSets, Editors
<1>3. /\ ed' \in Editors /\ ed'.clips = ed.clips /\ ed'.luts = ed.luts /\ ed'.undo = ed.undo
      /\ ed'.redo = ed.redo /\ ed'.before = ed.before /\ ed'.project = ed.project /\ ed'.ready = ed.ready
      /\ ed'.opened = ed.opened /\ ed'.drag = ed.drag /\ ed'.stale = ed.stale /\ ed'.pure = ed.pure
      /\ ed'.clipboard = {c} /\ ed'.copied = ed.opened
    BY <1>1, <1>2 DEF Editors
<1>4. UndoOk(ed') /\ Retained(ed') = Retained(ed) /\ Document(ed') = Document(ed)
    BY <1>1, <1>3 DEF UndoOk, Retained, Document
<1>5. CopiedOk(ed')
    BY <1>1, <1>2, <1>3 DEF CopiedOk, Since, EdPure, AllFine, Retained
<1>6. Keeps(ed, ed')
    BY <1>1, <1>3, <1>4, <1>5 DEF Keeps, EdPure
<1>7. TasksInv(tasks', ed')
    BY <1>1, <1>3, <1>6, KeepsOn, TasksOn DEF StudioInv
<1> QED BY <1>1, <1>3, <1>4, <1>6, <1>7, MovedIs, QuietGestureKeeps

LEMMA DragBeginsKeeps ==
    ASSUME StudioInv, NEW c, DragBegins(c)
    PROVE  StudioInv'
<1> DEFINE drag == [clip |-> c, snap |-> ed.clips, opened |-> ed.opened]
<1>1. /\ EdInv(ed) /\ ed \in Editors /\ EdPure(ed) /\ UndoOk(ed) /\ visit \in Visits /\ visit.left > 0
      /\ Moved /\ c \in ed.clips /\ UNCHANGED <<page, disk, tasks, loads, sync>>
      /\ ed' = [ed EXCEPT !.drag = <<drag>>]
    BY DEF StudioInv, DragBegins, Move, EdInv
<1>2. drag \in Drags /\ ed.opened \in Nat
    BY <1>1, ClipIs DEF Drags, Editors
<1>3. drag.snap = ed.clips /\ drag.opened = ed.opened
    OBVIOUS
<1> HIDE DEF drag
<1>4. <<drag>> \in Seq(Drags) /\ <<drag>>[1] = drag
    BY <1>2
<1>5. /\ ed' \in Editors /\ ed'.clips = ed.clips /\ ed'.luts = ed.luts /\ ed'.undo = ed.undo
      /\ ed'.redo = ed.redo /\ ed'.before = ed.before /\ ed'.project = ed.project /\ ed'.ready = ed.ready
      /\ ed'.opened = ed.opened /\ ed'.clipboard = ed.clipboard /\ ed'.copied = ed.copied
      /\ ed'.stale = ed.stale /\ ed'.pure = ed.pure /\ ed'.drag = <<drag>>
    BY <1>1, <1>4 DEF Editors
<1>6. UndoOk(ed') /\ Retained(ed') = Retained(ed) /\ Document(ed') = Document(ed)
    BY <1>1, <1>5 DEF UndoOk, Retained, Document
<1>7. DragOk(ed')
    BY <1>1, <1>2, <1>3, <1>4, <1>5 DEF DragOk, Since, EdPure, AllFine, Retained
<1>8. Keeps(ed, ed')
    BY <1>1, <1>5, <1>6, <1>7 DEF Keeps, EdPure
<1>9. TasksInv(tasks', ed')
    BY <1>1, <1>5, <1>8, KeepsOn, TasksOn DEF StudioInv
<1> QED BY <1>1, <1>5, <1>6, <1>8, <1>9, MovedIs, QuietGestureKeeps

LEMMA CopyClipKeeps ==
    ASSUME StudioInv, NEW c, CopyClip(c)
    PROVE  StudioInv'
<1> DEFINE d == [c EXCEPT !.id = Stamp, !.home = ed.project]
           clips == ed.clips \cup {d}
           opened == IF c \in ed.clips THEN ed.opened ELSE ed.copied
           g == Impure(ed, opened)
<1>1. /\ EdInv(ed) /\ visit \in Visits /\ visit.left > 0 /\ c \in ed.clips \cup ed.clipboard /\ Moved
      /\ sync' = Changed(sync) /\ UNCHANGED <<page, disk, tasks, loads>> /\ ed \in Editors
    BY DEF StudioInv, CopyClip, Move, EdInv
<1>2. /\ ed.clips \in ClipSets /\ ed.clipboard \in ClipSets /\ opened \in Nat /\ ed.luts \in LutSets
      /\ ed.project \in Nat
    BY <1>1 DEF Editors
<1>3. c \in OwnClips /\ Stamp \in Int
    BY <1>1, <1>2, StampIs DEF ClipSets
<1>4. d \in OwnClips /\ d.home = ed.project /\ d.lut = c.lut
    BY <1>2, <1>3 DEF OwnClips, StudioClips
<1>5. clips \in ClipSets
    BY <1>2, <1>4 DEF ClipSets
<1>6. Doubts(ed, g) /\ (g.pure => ed.pure /\ opened = ed.opened)
    BY <1>1, <1>2, DoubtsAre
<1>7. g.pure => AllFine(ed.clips, ed.project, ed.luts) /\ (c \in ed.clips \/ AllFine(ed.clipboard, ed.project, ed.luts))
    BY <1>1, <1>6 DEF EdInv, EdPure, CopiedOk, Since, AllFine, Retained
<1>8. g.pure => AllFine(ed.clips \cup clips, ed.project, ed.luts)
    BY <1>1, <1>4, <1>7 DEF AllFine
<1>9. Leaves(g, ed.clips, ed.clips, 0, clips, ed.luts, ed.drag)
    <2>1. Remember(g, ed.clips, ed.clips, 0).clips = ed.clips
        BY <1>1, <1>2, <1>6, RememberIs DEF EdInv, UndoOk, Doubts
    <2>2. g.luts = ed.luts /\ g.drag = ed.drag
        BY <1>6 DEF Doubts
    <2> QED BY <2>1, <2>2 DEF CopyClip, Leaves
<1> HIDE DEF clips, g, opened
<1>10. Keeps(ed, ed')
    <2>1. FineEntry(g, ed.clips, ed.clips, clips, ed.luts)
        BY <1>8 DEF FineEntry
    <2> QED BY <1>1, <1>2, <1>5, <1>6, <1>9, <2>1, EntryKeeps
<1> QED BY <1>1, <1>10, MovedIs, GestureKeeps

LEMMA DragMovesKeeps ==
    ASSUME StudioInv, DragMoves
    PROVE  StudioInv'
<1> DEFINE new == {[c EXCEPT !.rev = Stamp] : c \in Dragged}
           clips == (ed.clips \ Dragged) \cup new
<1>1. /\ EdInv(ed) /\ visit \in Visits /\ ed' = [ed EXCEPT !.clips = clips]
      /\ visit' = [visit EXCEPT !.stamp = Stamp]
      /\ sync' = Changed(sync) /\ UNCHANGED <<page, disk, tasks, loads>>
    BY DEF StudioInv, DragMoves, EdInv
<1>2. Dragged \subseteq ed.clips /\ Stamp \in Nat
    BY <1>1, StampIs DEF Dragged
<1>3. \A c \in Dragged : /\ [c EXCEPT !.rev = Stamp] \in OwnClips
                         /\ [c EXCEPT !.rev = Stamp].home = c.home /\ [c EXCEPT !.rev = Stamp].lut = c.lut
    <2> TAKE c \in Dragged
    <2>1. c \in StudioClips /\ (c.cut \/ c.cloud \in {0, c.media})
        BY <1>1, <1>2, ClipIs DEF OwnClips
    <2> QED BY <1>2, <2>1 DEF OwnClips, StudioClips
<1>4. clips \in ClipSets
    BY <1>1, <1>2, <1>3 DEF ClipSets, EdInv, Editors
<1>5. ed.pure => AllFine(clips, ed.project, ed.luts)
    BY <1>1, <1>2, <1>3 DEF AllFine, EdInv, EdPure, Retained
<1>6. visit' \in Visits /\ visit'.saves = visit.saves
    BY <1>1, <1>2, StampedIs
<1> HIDE DEF clips
<1>7. Keeps(ed, ed')
    BY <1>1, <1>4, <1>5, ReclipKeeps
<1> QED BY <1>1, <1>6, <1>7, GestureKeeps

LEMMA DragEndsKeeps ==
    ASSUME StudioInv, DragEnds
    PROVE  StudioInv'
<1> DEFINE drag == ed.drag[1]
           new == {[c EXCEPT !.rev = drag.clip.rev] : c \in Dragged}
           was == (ed.clips \ Dragged) \cup new
           g == Staled(Impure(ed, drag.opened), drag.snap, was)
<1>1. /\ EdInv(ed) /\ ed \in Editors /\ visit \in Visits /\ ed.drag # NoDrag
      /\ ed' = [Remember(g, drag.snap, was, 0) EXCEPT !.drag = NoDrag]
      /\ sync' = Changed(sync) /\ UNCHANGED <<visit, page, disk, tasks, loads>>
    BY DEF StudioInv, DragEnds, EdInv, SnapOfDrag
<1>2. drag \in Drags /\ drag.clip \in OwnClips /\ drag.opened \in Nat /\ drag.snap \in ClipSets
    BY <1>1, DragIs
<1>3. drag.clip.rev \in Int
    BY <1>2 DEF OwnClips, StudioClips
<1>4. Dragged \subseteq ed.clips /\ ed.clips \in ClipSets /\ ed.luts \in LutSets
    BY <1>1 DEF Dragged, Editors
<1> HIDE DEF drag
<1>5. \A c \in Dragged : [c EXCEPT !.rev = drag.clip.rev] \in OwnClips
    <2> TAKE c \in Dragged
    <2>1. c \in StudioClips /\ (c.cut \/ c.cloud \in {0, c.media})
        BY <1>4 DEF ClipSets, OwnClips
    <2> QED BY <1>3, <2>1 DEF OwnClips, StudioClips
<1>6. was \in ClipSets
    BY <1>4, <1>5 DEF ClipSets
<1> HIDE DEF was
<1>7. /\ Doubts(ed, g) /\ (g.pure => ed.pure /\ drag.opened = ed.opened)
      /\ (~g.stale => Content(drag.snap) = Content(was))
    BY <1>1, <1>2, <1>6, DoubtsAre
<1> HIDE DEF g
<1>8. g.pure => AllFine(drag.snap, ed.project, ed.luts) /\ AllFine(ed.clips, ed.project, ed.luts)
    BY <1>1, <1>7 DEF EdInv, EdPure, DragOk, Since, AllFine, Retained, drag
<1>9. FineEntry(g, drag.snap, was, ed.clips, ed.luts)
    BY <1>7, <1>8 DEF FineEntry, AllFine
<1>10. Leaves(g, drag.snap, was, 0, ed.clips, ed.luts, NoDrag)
    BY <1>1, <1>7 DEF Leaves, Doubts
<1>11. Keeps(ed, ed')
    BY <1>1, <1>2, <1>4, <1>6, <1>7, <1>9, <1>10, EntryKeeps
<1> QED BY <1>1, <1>11, GestureKeeps

(* ------------------------------------------------------------- undo, redo -- *)

LEMMA AlignedShrinks ==
    ASSUME NEW s \in Histories, NEW b \in Seq(Contents), Len(b) = Len(s), s # <<>>
    PROVE  /\ Front(b) \in Seq(Contents) /\ Len(Front(b)) = Len(Front(s))
           /\ Aligned(s, b) => Aligned(Front(s), Front(b)) /\ Content(Last(s)) = Last(b)
<1>1. s \in Seq(ClipSets) /\ Len(s) \in Nat /\ Len(s) > 0
    BY DEF Histories
<1>2. b # <<>>
    BY <1>1
<1>3. /\ Len(Front(s)) = Len(s) - 1
      /\ \A i \in 1 .. Len(s) - 1 : Front(s)[i] = s[i]
    BY <1>1, FrontIs
<1>4. /\ Front(b) \in Seq(Contents) /\ Len(Front(b)) = Len(b) - 1
      /\ \A i \in 1 .. Len(b) - 1 : Front(b)[i] = b[i]
    BY <1>2, FrontIs
<1>5. ASSUME Aligned(s, b) PROVE Aligned(Front(s), Front(b)) /\ Content(Last(s)) = Last(b)
    <2>1. \A i \in 1 .. Len(s) : Content(s[i]) = b[i]
        BY <1>5 DEF Aligned
    <2>2. Last(s) = s[Len(s)] /\ Last(b) = b[Len(s)] /\ Len(s) \in 1 .. Len(s)
        BY <1>1, <1>2 DEF Last
    <2>3. \A i \in 1 .. Len(Front(s)) : Content(Front(s)[i]) = Front(b)[i]
        BY <1>1, <1>3, <1>4, <2>1
    <2> QED BY <2>1, <2>2, <2>3 DEF Aligned
<1> QED BY <1>3, <1>4, <1>5

LEMMA UndoStepKeeps ==
    ASSUME StudioInv, Undo
    PROVE  StudioInv'
<1> DEFINE undo == Front(ed.undo)
           before == Front(ed.before)
           redo == Latest(Append(ed.redo, ed.clips))
           clips == Last(ed.undo)
<1>1. /\ EdInv(ed) /\ ed \in Editors /\ UndoOk(ed) /\ EdPure(ed) /\ visit \in Visits /\ visit.left > 0
      /\ Moved /\ ed.undo # <<>>
      /\ ed' = [ed EXCEPT !.undo = undo, !.before = before, !.redo = redo, !.clips = clips, !.merge = 0]
      /\ sync' = Changed(sync) /\ UNCHANGED <<page, disk, tasks, loads>>
    BY DEF StudioInv, Undo, Move, EdInv
<1>2. ed.undo \in Histories /\ ed.redo \in Histories /\ ed.clips \in ClipSets /\ ed.before \in Seq(Contents)
    BY <1>1 DEF Editors
<1>3. /\ undo \in Histories /\ clips \in ClipSets
      /\ Pieces(undo) \subseteq Pieces(ed.undo) /\ clips \subseteq Pieces(ed.undo)
    BY <1>1, <1>2, PiecesShrink
<1>4. redo \in Histories /\ Pieces(redo) \subseteq Pieces(ed.redo) \cup ed.clips
    BY <1>2, PiecesGrow
<1>5. /\ before \in Seq(Contents) /\ Len(before) = Len(undo)
      /\ Aligned(ed.undo, ed.before) => Aligned(undo, before)
    BY <1>1, <1>2, AlignedShrinks DEF UndoOk
<1> HIDE DEF undo, before, redo, clips
<1>6. ed' \in Editors
    <2>1. undo \in Histories /\ redo \in Histories /\ before \in Seq(Contents) /\ clips \in ClipSets
        BY <1>3, <1>4, <1>5
    <2> DEFINE none == 0
    <2>2. ed \in Editors /\ none \in Int
        BY <1>1
    <2>3. ed' = [ed EXCEPT !.undo = undo, !.before = before, !.redo = redo, !.clips = clips, !.merge = none]
        BY <1>1
    <2> HIDE DEF none
    <2> QED BY <2>1, <2>2, <2>3 DEF Editors
<1>7. /\ ed'.clips = clips /\ ed'.undo = undo /\ ed'.redo = redo /\ ed'.before = before
      /\ ed'.luts = ed.luts /\ ed'.project = ed.project /\ ed'.ready = ed.ready /\ ed'.opened = ed.opened
      /\ ed'.clipboard = ed.clipboard /\ ed'.copied = ed.copied /\ ed'.drag = ed.drag
      /\ ed'.stale = ed.stale /\ ed'.pure = ed.pure
    BY <1>1 DEF Editors
<1>8. UndoOk(ed')
    BY <1>1, <1>5, <1>7 DEF UndoOk
<1>9. ed.pure => AllFine(Retained(ed'), ed.project, ed.luts)
    BY <1>1, <1>3, <1>4, <1>7 DEF EdPure, AllFine, Retained
<1>10. Keeps(ed, ed')
    BY <1>6, <1>7, <1>8, <1>9 DEF Keeps
<1> QED BY <1>1, <1>10, MovedIs, GestureKeeps

LEMMA RedoKeeps ==
    ASSUME StudioInv, Redo
    PROVE  StudioInv'
<1> DEFINE redo == Front(ed.redo)
           undo == Latest(Append(ed.undo, ed.clips))
           before == Latest(Append(ed.before, Content(ed.clips)))
           clips == Last(ed.redo)
<1>1. /\ EdInv(ed) /\ ed \in Editors /\ UndoOk(ed) /\ EdPure(ed) /\ visit \in Visits /\ visit.left > 0
      /\ Moved /\ ed.redo # <<>>
      /\ ed' = [ed EXCEPT !.redo = redo, !.undo = undo, !.before = before, !.clips = clips, !.merge = 0]
      /\ sync' = Changed(sync) /\ UNCHANGED <<page, disk, tasks, loads>>
    BY DEF StudioInv, Redo, Move, EdInv
<1>2. ed.undo \in Histories /\ ed.redo \in Histories /\ ed.clips \in ClipSets /\ ed.before \in Seq(Contents)
    BY <1>1 DEF Editors
<1>3. /\ redo \in Histories /\ clips \in ClipSets
      /\ Pieces(redo) \subseteq Pieces(ed.redo) /\ clips \subseteq Pieces(ed.redo)
    BY <1>1, <1>2, PiecesShrink
<1>4. undo \in Histories /\ Pieces(undo) \subseteq Pieces(ed.undo) \cup ed.clips
    BY <1>2, PiecesGrow
<1>5. /\ before \in Seq(Contents) /\ Len(before) = Len(undo)
      /\ Aligned(ed.undo, ed.before) => Aligned(undo, before)
    BY <1>1, <1>2, ContentIn, AlignedGrows DEF UndoOk
<1> HIDE DEF undo, before, redo, clips
<1>6. ed' \in Editors
    <2>1. undo \in Histories /\ redo \in Histories /\ before \in Seq(Contents) /\ clips \in ClipSets
        BY <1>3, <1>4, <1>5
    <2> DEFINE none == 0
    <2>2. ed \in Editors /\ none \in Int
        BY <1>1
    <2>3. ed' = [ed EXCEPT !.redo = redo, !.undo = undo, !.before = before, !.clips = clips, !.merge = none]
        BY <1>1
    <2> HIDE DEF none
    <2> QED BY <2>1, <2>2, <2>3 DEF Editors
<1>7. /\ ed'.clips = clips /\ ed'.undo = undo /\ ed'.redo = redo /\ ed'.before = before
      /\ ed'.luts = ed.luts /\ ed'.project = ed.project /\ ed'.ready = ed.ready /\ ed'.opened = ed.opened
      /\ ed'.clipboard = ed.clipboard /\ ed'.copied = ed.copied /\ ed'.drag = ed.drag
      /\ ed'.stale = ed.stale /\ ed'.pure = ed.pure
    BY <1>1 DEF Editors
<1>8. UndoOk(ed')
    BY <1>1, <1>5, <1>7 DEF UndoOk
<1>9. ed.pure => AllFine(Retained(ed'), ed.project, ed.luts)
    BY <1>1, <1>3, <1>4, <1>7 DEF EdPure, AllFine, Retained
<1>10. Keeps(ed, ed')
    BY <1>6, <1>7, <1>8, <1>9 DEF Keeps
<1> QED BY <1>1, <1>10, MovedIs, GestureKeeps

(* -------------------------------------------------------- long operations -- *)

LEMMA OpsCount == \A name \in DOMAIN StudioOps : StudioOps[name].count \in Nat
<1> SUFFICES ASSUME NEW name \in DOMAIN StudioOps PROVE StudioOps[name].count \in Nat
    OBVIOUS
<1>1. StudioOps[name] \in
        {ImportFiles, AddRemoteMediaInstant, GenerateStudioImages, UpdateSelectedText, RunMotionFx,
         GenerateRestyle, RemoveVideoBackground, RemoveBackground, ExtendVideo, UpscaleVideo,
         RetimeClip, ImportCatalogAudio, GenerateAudio, SeparateSelectedAudio}
    BY DEF StudioOps
<1>2. /\ ImportFiles.count \in Nat /\ AddRemoteMediaInstant.count \in Nat
      /\ GenerateStudioImages.count \in Nat /\ UpdateSelectedText.count \in Nat
      /\ RunMotionFx.count \in Nat /\ GenerateRestyle.count \in Nat
      /\ RemoveVideoBackground.count \in Nat /\ RemoveBackground.count \in Nat
    BY DEF StudioOp, ImportFiles, AddRemoteMediaInstant, GenerateStudioImages, UpdateSelectedText,
           RunMotionFx, GenerateRestyle, RemoveVideoBackground, RemoveBackground
<1>3. /\ ExtendVideo.count \in Nat /\ UpscaleVideo.count \in Nat /\ RetimeClip.count \in Nat
      /\ ImportCatalogAudio.count \in Nat /\ GenerateAudio.count \in Nat
      /\ SeparateSelectedAudio.count \in Nat
    BY DEF StudioOp, ExtendVideo, UpscaleVideo, RetimeClip, ImportCatalogAudio, GenerateAudio,
           SeparateSelectedAudio
<1> QED BY <1>1, <1>2, <1>3

LEMMA ClipIn ==
    ASSUME NEW n \in Int, NEW p \in Nat
    PROVE  /\ Clip(n, p) \in OwnClips /\ Clip(n, p).home = p /\ Clip(n, p).lut = 0
           /\ Clip(n, p).media = n /\ Clip(n, p).id = n
    BY DEF Clip, OwnClips, StudioClips

LEMMA TextedIs ==
    ASSUME NEW f \in Texted, NEW k \in Int, NEW n \in Int
    PROVE  With(f, k, n) \in Texted
<1>1. PICK D \in SUBSET Int : f \in [D -> Int]
    BY DEF Texted
<1>2. With(f, k, n) \in [D \cup {k} -> Int] /\ D \cup {k} \in SUBSET Int
    BY <1>1 DEF With
<1> QED BY <1>2 DEF Texted

LEMMA TaskStartsKeeps ==
    ASSUME StudioInv, NEW name, NEW c, TaskStarts(name, c)
    PROVE  StudioInv'
<1> DEFINE t == [op |-> name, n |-> Stamp, pc |-> "work", left |-> StudioOps[name].count,
                 snap |-> ed.clips, project |-> ed.project, opened |-> ed.opened, clip |-> c]
           texted == With(ed.texted, c.id, Stamp)
<1>1. /\ EdInv(ed) /\ ed \in Editors /\ EdPure(ed) /\ UndoOk(ed) /\ visit \in Visits /\ visit.left > 0
      /\ Moved /\ name \in visit.ops /\ (c \in ed.clips \/ c = NoClip)
      /\ tasks' = tasks \cup {t} /\ UNCHANGED <<page, disk, loads, sync>>
      /\ ed' = IF name = "text" THEN [ed EXCEPT !.texted = texted] ELSE ed
    BY DEF StudioInv, TaskStarts, Move, EdInv
<1>2. /\ ed.clips \in ClipSets /\ ed.project \in Nat /\ ed.opened \in Nat /\ ed.texted \in Texted
      /\ Stamp \in Nat /\ name \in DOMAIN StudioOps
    BY <1>1, StampIs DEF Editors, Visits
<1>3. c \in OwnClips /\ c.id \in Int
    BY <1>1, <1>2, ClipIn DEF ClipSets, OwnClips, StudioClips, NoClip, NoProject
<1>4. texted \in Texted
    BY <1>2, <1>3, TextedIs
<1>5. t \in TaskSet
    BY <1>2, <1>3, OpsCount DEF TaskSet
<1>6. t.opened = ed.opened /\ t.snap = ed.clips /\ t.clip = c
    OBVIOUS
<1> HIDE DEF t, texted
<1>7. /\ ed' \in Editors /\ ed'.clips = ed.clips /\ ed'.luts = ed.luts /\ ed'.undo = ed.undo
      /\ ed'.redo = ed.redo /\ ed'.before = ed.before /\ ed'.project = ed.project /\ ed'.ready = ed.ready
      /\ ed'.opened = ed.opened /\ ed'.drag = ed.drag /\ ed'.stale = ed.stale /\ ed'.pure = ed.pure
      /\ ed'.clipboard = ed.clipboard /\ ed'.copied = ed.copied
    <2>1. CASE name = "text"
        BY <1>1, <1>4, <2>1 DEF Editors
    <2>2. CASE name # "text"
        BY <1>1, <2>2
    <2> QED BY <2>1, <2>2
<1>8. UndoOk(ed') /\ Retained(ed') = Retained(ed) /\ Document(ed') = Document(ed)
    BY <1>1, <1>7 DEF UndoOk, Retained, Document
<1>9. Keeps(ed, ed')
    BY <1>1, <1>7, <1>8 DEF Keeps, EdPure
<1>10. TasksInv(tasks, ed')
    BY <1>1, <1>7, <1>9, KeepsOn, TasksOn DEF StudioInv
<1>11. ed.pure => AllFine(ed.clips \cup {c}, ed.project, ed.luts)
    <2>1. NoClip.home = NoProject /\ NoClip.lut = 0
        BY ClipIn DEF NoClip, NoProject
    <2> QED BY <1>1, <2>1 DEF EdPure, AllFine, Retained
<1>12. Since(ed', t.opened, t.snap \cup {t.clip})
    <2>1. t.opened <= ed'.opened
        BY <1>2, <1>6, <1>7
    <2>2. ed'.pure => AllFine(t.snap \cup {t.clip}, ed'.project, ed'.luts)
        BY <1>6, <1>7, <1>11 DEF AllFine
    <2> QED BY <2>1, <2>2 DEF Since
<1>13. TasksInv(tasks', ed')
    BY <1>1, <1>5, <1>10, <1>12 DEF TasksInv
<1> QED BY <1>1, <1>7, <1>8, <1>9, <1>13, MovedIs, QuietGestureKeeps

LEMMA TaskFailsKeeps ==
    ASSUME StudioInv, NEW t, TaskFails(t)
    PROVE  StudioInv'
<1>1. visit' \in Visits /\ visit'.saves = visit.saves
    BY FaultIs DEF StudioInv, TaskFails
<1>2. UNCHANGED <<page, disk, ed, loads, sync>> /\ tasks' \subseteq tasks
    BY DEF TaskFails
<1>3. TasksInv(tasks', ed')
    BY <1>2 DEF StudioInv, TasksInv
<1> QED BY <1>1, <1>2, <1>3 DEF StudioInv

(* Bytes put into the browser's store do no harm.                            *)
LEMMA MediaGrows ==
    ASSUME disk \in Disks, StoredWhole(disk), NEW more \in SUBSET (Nat \X Int),
           disk' = [disk EXCEPT !.media = @ \cup more]
    PROVE  disk' \in Disks /\ StoredWhole(disk') /\ disk'.docs = disk.docs /\ disk'.last = disk.last
<1> DEFINE media == disk.media \cup more
           M == SUBSET (Nat \X Int)
<1>1. media \in M /\ disk.media \subseteq media /\ disk' = [disk EXCEPT !.media = media]
    BY DEF Disks
<1>2. Disks = [docs : DocMaps, media : M, last : Nat]
    BY DEF Disks
<1> HIDE DEF media, M
<1>3. disk' \in Disks /\ disk'.docs = disk.docs /\ disk'.last = disk.last /\ disk'.media = media
    BY <1>1, <1>2
<1> QED BY <1>1, <1>3 DEF StoredWhole

LEMMA MadeIs ==
    ASSUME EdInv(ed), visit \in Visits, NEW t \in TaskSet
    PROVE  /\ Made(t) \in ClipSets
           /\ AllFine(ed.clips \cup {t.clip}, ed.project, ed.luts) => AllFine(Made(t), ed.project, ed.luts)
<1> DEFINE new == Clip(Stamp, ed.project)
           stream == [new EXCEPT !.stream = TRUE]
           cutout == [t.clip EXCEPT !.id = Stamp, !.media = Stamp, !.cut = TRUE, !.home = ed.project]
           mine == {c \in ed.clips : c.id = t.clip.id}
           moved == {[c EXCEPT !.rev = Stamp] : c \in mine}
           other == {[c EXCEPT !.media = Stamp, !.cloud = 0] : c \in mine}
           makes == StudioOps[t.op].makes
<1>1. /\ ed.clips \in ClipSets /\ ed.project \in Nat /\ Stamp \in Int /\ t.clip \in OwnClips
      /\ mine \subseteq ed.clips /\ ed.clips \subseteq OwnClips
    BY StampIs DEF EdInv, Editors, TaskSet, ClipSets
<1>2. new \in OwnClips /\ new.home = ed.project /\ new.lut = 0
    BY <1>1, ClipIn
<1> HIDE DEF new
<1>3. stream \in OwnClips /\ stream.home = ed.project /\ stream.lut = 0
    BY <1>2 DEF OwnClips, StudioClips
<1>4. cutout \in OwnClips /\ cutout.home = ed.project /\ cutout.lut = t.clip.lut
    BY <1>1 DEF OwnClips, StudioClips
<1>5. \A c \in mine : /\ [c EXCEPT !.rev = Stamp] \in OwnClips
                      /\ [c EXCEPT !.rev = Stamp].home = c.home /\ [c EXCEPT !.rev = Stamp].lut = c.lut
    BY <1>1 DEF OwnClips, StudioClips
<1>6. \A c \in mine : /\ [c EXCEPT !.media = Stamp, !.cloud = 0] \in OwnClips
                      /\ [c EXCEPT !.media = Stamp, !.cloud = 0].home = c.home
                      /\ [c EXCEPT !.media = Stamp, !.cloud = 0].lut = c.lut
    <2> TAKE c \in mine
    <2> DEFINE none == 0
    <2>1. c \in StudioClips /\ none \in Int /\ Stamp \in Int
        BY <1>1 DEF OwnClips
    <2>2. [c EXCEPT !.media = Stamp, !.cloud = 0] = [c EXCEPT !.media = Stamp, !.cloud = none]
        OBVIOUS
    <2> HIDE DEF none
    <2>3. /\ [c EXCEPT !.media = Stamp, !.cloud = none] \in StudioClips
          /\ [c EXCEPT !.media = Stamp, !.cloud = none].cloud = none
          /\ [c EXCEPT !.media = Stamp, !.cloud = none].home = c.home
          /\ [c EXCEPT !.media = Stamp, !.cloud = none].lut = c.lut
        BY <2>1 DEF StudioClips
    <2> QED BY <2>2, <2>3 DEF OwnClips, none
<1>7. /\ \A c \in moved : c \in OwnClips /\ \E d \in ed.clips : c.home = d.home /\ c.lut = d.lut
      /\ \A c \in other : c \in OwnClips /\ \E d \in ed.clips : c.home = d.home /\ c.lut = d.lut
    <2>1. mine \subseteq ed.clips
        OBVIOUS
    <2> HIDE DEF mine
    <2>2. ASSUME NEW c \in moved PROVE c \in OwnClips /\ \E d \in ed.clips : c.home = d.home /\ c.lut = d.lut
        <3>1. PICK d \in mine : c = [d EXCEPT !.rev = Stamp]
            OBVIOUS
        <3> QED BY <1>5, <2>1, <3>1
    <2>3. ASSUME NEW c \in other PROVE c \in OwnClips /\ \E d \in ed.clips : c.home = d.home /\ c.lut = d.lut
        <3>1. PICK d \in mine : c = [d EXCEPT !.media = Stamp, !.cloud = 0]
            OBVIOUS
        <3> QED BY <1>6, <2>1, <3>1
    <2> QED BY <2>2, <2>3
<1>8. Made(t) = CASE makes = "clip" -> ed.clips \cup {new}
                  [] makes = "stream" -> ed.clips \cup {stream}
                  [] makes = "cutout" -> ed.clips \cup {cutout}
                  [] makes = "audio" -> (ed.clips \ mine) \cup moved \cup {new}
                  [] OTHER -> (ed.clips \ mine) \cup other
    BY DEF Made, new
<1> HIDE DEF stream, cutout, mine, moved, other, makes
<1>9. \/ Made(t) = ed.clips \cup {new} \/ Made(t) = ed.clips \cup {stream}
      \/ Made(t) = ed.clips \cup {cutout} \/ Made(t) = (ed.clips \ mine) \cup moved \cup {new}
      \/ Made(t) = (ed.clips \ mine) \cup other
    BY <1>8, Zenon
<1>10. \A c \in Made(t) :
          \/ c \in ed.clips
          \/ c \in OwnClips /\ c.home = ed.project /\ c.lut \in {0, t.clip.lut}
          \/ c \in OwnClips /\ \E d \in ed.clips : c.home = d.home /\ c.lut = d.lut
    BY <1>1, <1>2, <1>3, <1>4, <1>7, <1>9
<1>11. Made(t) \in ClipSets
    BY <1>1, <1>10 DEF ClipSets
<1>12. ASSUME AllFine(ed.clips \cup {t.clip}, ed.project, ed.luts) PROVE AllFine(Made(t), ed.project, ed.luts)
    BY <1>10, <1>12 DEF AllFine
<1> QED BY <1>11, <1>12

LEMMA TaskEndsKeeps ==
    ASSUME StudioInv, NEW t \in tasks, TaskEnds(t)
    PROVE  StudioInv'
<1> DEFINE stream == StudioOps[t.op].makes = "stream"
           now == [t EXCEPT !.pc = "bytes", !.clip = Clip(Stamp, ed.project)]
           next == [t EXCEPT !.left = @ - 1]
           rest == IF stream THEN {now} ELSE IF t.left > 1 THEN {next} ELSE {}
           bytes == {<<t.project, Stamp>>}
           g == Staled(Impure(ed, t.opened), t.snap, ed.clips)
<1>1. /\ EdInv(ed) /\ ed \in Editors /\ visit \in Visits /\ disk \in Disks /\ StoredWhole(disk)
      /\ t \in TaskSet /\ Since(ed, t.opened, t.snap \cup {t.clip}) /\ TasksInv(tasks, ed)
      /\ tasks' = (tasks \ {t}) \cup rest /\ UNCHANGED <<page, loads>>
    BY DEF StudioInv, TaskEnds, EdInv, TasksInv
<1>2. /\ t.opened \in Nat /\ t.snap \in ClipSets /\ t.clip \in OwnClips /\ t.project \in Nat /\ t.left \in Nat
      /\ ed.clips \in ClipSets /\ ed.luts \in LutSets /\ ed.project \in Nat /\ Stamp \in Nat
    BY <1>1, StampIs DEF TaskSet, Editors
<1>3. /\ now \in TaskSet /\ now.opened = t.opened /\ now.snap = t.snap /\ now.clip = Clip(Stamp, ed.project)
      /\ Clip(Stamp, ed.project).home = ed.project /\ Clip(Stamp, ed.project).lut = 0
    <2> DEFINE c == Clip(Stamp, ed.project)
    <2>1. c \in OwnClips /\ c.home = ed.project /\ c.lut = 0
        BY <1>2, ClipIn
    <2> HIDE DEF c
    <2>2. /\ [t EXCEPT !.pc = "bytes", !.clip = c] \in TaskSet
          /\ [t EXCEPT !.pc = "bytes", !.clip = c].opened = t.opened
          /\ [t EXCEPT !.pc = "bytes", !.clip = c].snap = t.snap
          /\ [t EXCEPT !.pc = "bytes", !.clip = c].clip = c
        BY <1>1, <2>1 DEF TaskSet
    <2> QED BY <2>1, <2>2 DEF c
<1>4. t.left > 1 => next \in TaskSet /\ next.opened = t.opened /\ next.snap = t.snap /\ next.clip = t.clip
    BY <1>1, <1>2 DEF TaskSet
<1>5. ASSUME NEW u \in rest
      PROVE  u \in TaskSet /\ Since(ed, u.opened, u.snap \cup {u.clip})
    <2>1. CASE u = now
        <3>1. ed.pure /\ t.opened = ed.opened => AllFine(t.snap, ed.project, ed.luts)
            BY <1>1 DEF Since, AllFine
        <3> HIDE DEF now
        <3> QED BY <1>1, <1>3, <2>1, <3>1 DEF Since, AllFine
    <2>2. CASE t.left > 1 /\ u = next
        <3> HIDE DEF next
        <3>1. u \in TaskSet /\ u.opened = t.opened /\ u.snap = t.snap /\ u.clip = t.clip
            BY <1>4, <2>2
        <3> QED BY <1>1, <3>1
    <2> QED BY <1>5, <2>1, <2>2
<1>6. TasksInv(tasks', ed)
    <2> HIDE DEF rest
    <2> QED BY <1>1, <1>5 DEF TasksInv
<1>7. CASE UNCHANGED <<visit, ed, disk, sync>>
    BY <1>1, <1>6, <1>7 DEF StudioInv
<1>8. CASE /\ ed' = [Remember(g, t.snap, ed.clips, 0) EXCEPT !.clips = Made(t)]
           /\ disk' = [disk EXCEPT !.media = @ \cup bytes] \/ disk' = disk
           /\ visit' = [visit EXCEPT !.stamp = Stamp] /\ sync' = Changed(sync)
    <2> HIDE DEF rest, bytes, g
    <2>1. /\ Doubts(ed, g) /\ (g.pure => ed.pure /\ t.opened = ed.opened)
          /\ (~g.stale => Content(t.snap) = Content(ed.clips))
        BY <1>1, <1>2, DoubtsAre DEF g
    <2>2. g.pure => /\ AllFine(t.snap \cup {t.clip}, ed.project, ed.luts)
                    /\ AllFine(ed.clips, ed.project, ed.luts)
        BY <1>1, <2>1 DEF EdInv, EdPure, Since, AllFine, Retained
    <2>3. Made(t) \in ClipSets /\ (g.pure => AllFine(Made(t), ed.project, ed.luts))
        <3>1. g.pure => AllFine(ed.clips \cup {t.clip}, ed.project, ed.luts)
            BY <2>2 DEF AllFine
        <3> QED BY <1>1, <3>1, MadeIs
    <2>4. FineEntry(g, t.snap, ed.clips, Made(t), ed.luts)
        BY <2>1, <2>2, <2>3 DEF FineEntry, AllFine
    <2>5. Leaves(g, t.snap, ed.clips, 0, Made(t), ed.luts, ed.drag)
        BY <1>8, <2>1 DEF Leaves, Doubts
    <2>6. Keeps(ed, ed')
        BY <1>1, <1>2, <2>1, <2>3, <2>4, <2>5, EntryKeeps
    <2>7. visit' \in Visits /\ visit'.saves = visit.saves
        BY <1>1, <1>8, StampedIs
    <2>8. bytes \in SUBSET (Nat \X Int)
        BY <1>2 DEF bytes
    <2>9. disk' \in Disks /\ StoredWhole(disk')
        BY <1>1, <1>8, <2>8, MediaGrows
    <2>10. sync' \in Syncs /\ Len(sync'.saves) = Len(sync.saves) /\ Quiet(sync', ed')
        BY <1>8, <2>6, SoonIs DEF StudioInv, SavesInv, Keeps
    <2> QED BY <1>1, <1>6, <2>6, <2>7, <2>9, <2>10, WorkKeeps
<1> HIDE DEF rest, g
<1> QED BY <1>7, <1>8 DEF TaskEnds, g

(* ------------------------------------------- changes to all that is retained -- *)

Image(G, s) == {G[c] : c \in s}
Images(G, h) == [i \in DOMAIN h |-> Image(G, h[i])]
SameWork(c, d) == c.id = d.id /\ c.media = d.media /\ c.rev = d.rev /\ c.lut = d.lut /\ c.home = d.home

LEMMA ImageIs ==
    ASSUME NEW G \in [OwnClips -> OwnClips], \A c \in OwnClips : SameWork(G[c], c), NEW s \in ClipSets
    PROVE  /\ Image(G, s) \in ClipSets /\ Content(Image(G, s)) = Content(s)
           /\ \A p, luts : AllFine(s, p, luts) => AllFine(Image(G, s), p, luts)
<1>1. s \subseteq OwnClips /\ \A c \in s : G[c] \in OwnClips /\ SameWork(G[c], c)
    BY DEF ClipSets
<1>2. Image(G, s) \in ClipSets
    BY <1>1 DEF Image, ClipSets
<1>3. Content(Image(G, s)) \subseteq Content(s)
    <2> SUFFICES ASSUME NEW x \in Content(Image(G, s)) PROVE x \in Content(s)
        OBVIOUS
    <2>1. PICK d \in Image(G, s) : x = [id |-> d.id, media |-> d.media, rev |-> d.rev, lut |-> d.lut]
        BY DEF Content
    <2>2. PICK c \in s : d = G[c]
        BY DEF Image
    <2>3. x = [id |-> c.id, media |-> c.media, rev |-> c.rev, lut |-> c.lut]
        BY <1>1, <2>1, <2>2 DEF SameWork
    <2> QED BY <2>3 DEF Content
<1>4. Content(s) \subseteq Content(Image(G, s))
    <2> SUFFICES ASSUME NEW c \in s
                 PROVE  [id |-> c.id, media |-> c.media, rev |-> c.rev, lut |-> c.lut] \in Content(Image(G, s))
        BY DEF Content
    <2>1. [id |-> G[c].id, media |-> G[c].media, rev |-> G[c].rev, lut |-> G[c].lut]
            = [id |-> c.id, media |-> c.media, rev |-> c.rev, lut |-> c.lut]
        BY <1>1 DEF SameWork
    <2>2. G[c] \in Image(G, s)
        BY DEF Image
    <2> QED BY <2>1, <2>2 DEF Content
<1>5. ASSUME NEW p, NEW luts, AllFine(s, p, luts) PROVE AllFine(Image(G, s), p, luts)
    BY <1>1, <1>5 DEF AllFine, Image, SameWork
<1> QED BY <1>2, <1>3, <1>4, <1>5

LEMMA ImagesAre ==
    ASSUME NEW G \in [OwnClips -> OwnClips], \A c \in OwnClips : SameWork(G[c], c), NEW h \in Histories
    PROVE  /\ Images(G, h) \in Histories /\ Len(Images(G, h)) = Len(h)
           /\ \A b : Aligned(h, b) => Aligned(Images(G, h), b)
           /\ Pieces(Images(G, h)) = Image(G, Pieces(h))
<1>1. h \in Seq(ClipSets) /\ Len(h) \in Nat /\ Len(h) <= StudioHistory /\ DOMAIN h = 1 .. Len(h)
    BY DEF Histories
<1>2. \A i \in 1 .. Len(h) : h[i] \in ClipSets /\ Image(G, h[i]) \in ClipSets /\ Content(Image(G, h[i])) = Content(h[i])
    BY <1>1, ImageIs
<1>3. DOMAIN Images(G, h) = 1 .. Len(h) /\ \A i \in 1 .. Len(h) : Images(G, h)[i] = Image(G, h[i])
    BY <1>1 DEF Images
<1>4. Images(G, h) \in [1 .. Len(h) -> ClipSets]
    BY <1>1, <1>2 DEF Images
<1>5. Images(G, h) \in Seq(ClipSets) /\ Len(Images(G, h)) = Len(h)
    BY <1>1, <1>4, TupleIs
<1>6. Images(G, h) \in Histories
    BY <1>1, <1>5 DEF Histories
<1>7. ASSUME NEW b, Aligned(h, b) PROVE Aligned(Images(G, h), b)
    BY <1>2, <1>3, <1>5, <1>7 DEF Aligned
<1>8. Pieces(Images(G, h)) = Image(G, Pieces(h))
    <2>1. ASSUME NEW x \in Pieces(Images(G, h)) PROVE x \in Image(G, Pieces(h))
        <3>1. PICK i \in 1 .. Len(h) : x \in Image(G, h[i])
            BY <1>3, <1>5, <1>6, <2>1, PiecesOf
        <3>2. PICK c \in h[i] : x = G[c]
            BY <3>1 DEF Image
        <3>3. c \in Pieces(h)
            BY <3>2, PiecesOf
        <3> QED BY <3>2, <3>3 DEF Image
    <2>2. ASSUME NEW x \in Image(G, Pieces(h)) PROVE x \in Pieces(Images(G, h))
        <3>1. PICK c \in Pieces(h) : x = G[c]
            BY <2>2 DEF Image
        <3>2. PICK i \in 1 .. Len(h) : c \in h[i]
            BY <3>1, PiecesOf
        <3>3. x \in Images(G, h)[i]
            BY <1>3, <3>1, <3>2 DEF Image
        <3> QED BY <1>5, <1>6, <3>3, PiecesOf
    <2> QED BY <2>1, <2>2
<1> QED BY <1>5, <1>6, <1>7, <1>8

Remade(G) == ed' = [ed EXCEPT !.clips = Image(G, @), !.undo = Images(G, @), !.redo = Images(G, @)]

LEMMA RemadeKeeps ==
    ASSUME EdInv(ed), NEW G \in [OwnClips -> OwnClips], \A c \in OwnClips : SameWork(G[c], c), Remade(G)
    PROVE  Keeps(ed, ed')
<1> DEFINE clips == Image(G, ed.clips)
           undo == Images(G, ed.undo)
           redo == Images(G, ed.redo)
<1>1. /\ ed \in Editors /\ UndoOk(ed) /\ EdPure(ed)
      /\ ed.clips \in ClipSets /\ ed.undo \in Histories /\ ed.redo \in Histories
    BY DEF EdInv, Editors
<1>2. clips \in ClipSets /\ \A p, luts : AllFine(ed.clips, p, luts) => AllFine(clips, p, luts)
    BY <1>1, ImageIs
<1>3. /\ undo \in Histories /\ Len(undo) = Len(ed.undo) /\ Pieces(undo) = Image(G, Pieces(ed.undo))
      /\ \A b : Aligned(ed.undo, b) => Aligned(undo, b)
    BY <1>1, ImagesAre
<1>4. redo \in Histories /\ Pieces(redo) = Image(G, Pieces(ed.redo))
    BY <1>1, ImagesAre
<1>5. /\ \A p, luts : AllFine(Pieces(ed.undo), p, luts) => AllFine(Pieces(undo), p, luts)
      /\ \A p, luts : AllFine(Pieces(ed.redo), p, luts) => AllFine(Pieces(redo), p, luts)
    BY <1>1, <1>3, <1>4, ImageIs, PiecesOf
<1>6. ed' = [ed EXCEPT !.clips = clips, !.undo = undo, !.redo = redo]
    BY DEF Remade
<1> HIDE DEF clips, undo, redo
<1>7. /\ ed' \in Editors /\ ed'.clips = clips /\ ed'.undo = undo /\ ed'.redo = redo
      /\ ed'.before = ed.before /\ ed'.luts = ed.luts /\ ed'.project = ed.project /\ ed'.ready = ed.ready
      /\ ed'.opened = ed.opened /\ ed'.drag = ed.drag /\ ed'.stale = ed.stale /\ ed'.pure = ed.pure
      /\ ed'.clipboard = ed.clipboard /\ ed'.copied = ed.copied
    BY <1>1, <1>2, <1>3, <1>4, <1>6 DEF Editors
<1>8. UndoOk(ed')
    BY <1>1, <1>3, <1>7 DEF UndoOk
<1>9. ASSUME ed.pure PROVE AllFine(Retained(ed'), ed.project, ed.luts)
    <2>1. /\ AllFine(ed.clips, ed.project, ed.luts) /\ AllFine(Pieces(ed.undo), ed.project, ed.luts)
          /\ AllFine(Pieces(ed.redo), ed.project, ed.luts)
        BY <1>1, <1>9 DEF EdPure, AllFine, Retained
    <2>2. /\ AllFine(clips, ed.project, ed.luts) /\ AllFine(Pieces(undo), ed.project, ed.luts)
          /\ AllFine(Pieces(redo), ed.project, ed.luts)
        BY <1>2, <1>5, <2>1
    <2> QED BY <1>7, <2>2 DEF AllFine, Retained
<1> QED BY <1>7, <1>8, <1>9 DEF Keeps

LEMMA BytesArriveKeeps ==
    ASSUME StudioInv, NEW t \in tasks, BytesArrive(t)
    PROVE  StudioInv'
<1> DEFINE m == t.clip.media
           G == [c \in OwnClips |-> IF c.media = m THEN [c EXCEPT !.stream = FALSE] ELSE c]
           bytes == {<<t.project, m>>}
<1>1. /\ EdInv(ed) /\ visit \in Visits /\ disk \in Disks /\ StoredWhole(disk) /\ TasksInv(tasks, ed)
      /\ t \in TaskSet /\ tasks' \subseteq tasks /\ sync' = Changed(sync) /\ UNCHANGED <<visit, page, loads>>
      /\ ed' = OnRetained(ed, LAMBDA c : IF c.media = m THEN [c EXCEPT !.stream = FALSE] ELSE c)
      /\ disk' = disk \/ disk' = [disk EXCEPT !.media = @ \cup bytes]
    BY DEF StudioInv, BytesArrive, TasksInv
<1>2. t.clip \in OwnClips /\ t.project \in Nat /\ m \in Int
    BY <1>1 DEF TaskSet, OwnClips, StudioClips
<1> HIDE DEF m
<1>3. ASSUME NEW c \in OwnClips PROVE G[c] \in OwnClips /\ SameWork(G[c], c)
    BY <1>3 DEF OwnClips, StudioClips, SameWork
<1>4. G \in [OwnClips -> OwnClips]
    BY <1>3
<1>5. \A s \in ClipSets : {IF c.media = m THEN [c EXCEPT !.stream = FALSE] ELSE c : c \in s} = Image(G, s)
    BY DEF ClipSets, Image
<1>6. Remade(G)
    <2>1. ed.clips \in ClipSets /\ ed.undo \in Histories /\ ed.redo \in Histories
        BY <1>1 DEF EdInv, Editors
    <2>2. \A h \in Histories : OnPieces(h, LAMBDA c : IF c.media = m THEN [c EXCEPT !.stream = FALSE] ELSE c) = Images(G, h)
        <3> TAKE h \in Histories
        <3>1. \A i \in DOMAIN h : h[i] \in ClipSets
            BY DEF Histories
        <3> QED BY <1>5, <3>1 DEF OnPieces, Images
    <2> HIDE DEF G
    <2> QED BY <1>1, <1>5, <2>1, <2>2 DEF OnRetained, Remade
<1>7. Keeps(ed, ed')
    <2> HIDE DEF G
    <2> QED BY <1>1, <1>3, <1>4, <1>6, RemadeKeeps
<1>8. TasksInv(tasks', ed)
    BY <1>1 DEF TasksInv
<1>9. disk' \in Disks /\ StoredWhole(disk')
    <2>1. bytes \in SUBSET (Nat \X Int)
        BY <1>2
    <2> HIDE DEF bytes
    <2> QED BY <1>1, <2>1, MediaGrows
<1>10. sync' \in Syncs /\ Len(sync'.saves) = Len(sync.saves) /\ Quiet(sync', ed')
    BY <1>1, <1>7, SoonIs DEF StudioInv, SavesInv, Keeps
<1> QED BY <1>1, <1>7, <1>8, <1>9, <1>10, WorkKeeps

(* ---------------------------------------------------------------- uploads -- *)

(* The upload effect's own bookkeeping.                                      *)
LEMMA BatchesKeep ==
    ASSUME StudioInv, UNCHANGED <<page, disk, ed, tasks, loads>>,
           visit' \in Visits, visit'.saves = visit.saves, sync' \in Syncs,
           sync'.saves = sync.saves, sync'.shown = sync.shown, sync'.armed = sync.armed,
           sync'.overtaken = sync.overtaken
    PROVE  StudioInv'
<1>1. SavesInv(sync', ed', disk', page')
    BY DEF StudioInv, SavesInv, NoneYet, LiveOk, OnDisk, InCloud
<1> QED BY <1>1 DEF StudioInv

UploadBatches == SUBSET [left : SUBSET Int, failed : BOOLEAN]

LEMMA UploadStartsKeeps ==
    ASSUME StudioInv, NEW batch, UploadStarts(batch)
    PROVE  StudioInv'
<1> DEFINE new == [left |-> batch, failed |-> FALSE]
           batches == sync.batches \cup {new}
<1>1. /\ EdInv(ed) /\ visit \in Visits /\ sync \in Syncs /\ batch \subseteq Pending
      /\ sync' = [sync EXCEPT !.idle = FALSE, !.batches = batches]
      /\ UNCHANGED <<visit, page, disk, ed, tasks, loads>>
    BY DEF StudioInv, UploadStarts
<1>2. Pending \subseteq Int
    <2> SUFFICES ASSUME NEW c \in Retained(ed) PROVE c.media \in Int
        BY DEF Pending, Waiting
    <2>1. Retained(ed) \subseteq OwnClips
        BY <1>1, PiecesOf DEF EdInv, Editors, Retained, ClipSets
    <2> QED BY <2>1 DEF OwnClips, StudioClips
<1>3. batches \in UploadBatches
    <2>1. new \in [left : SUBSET Int, failed : BOOLEAN] /\ sync.batches \in UploadBatches
        BY <1>1, <1>2 DEF Syncs, UploadBatches
    <2> HIDE DEF new
    <2> QED BY <2>1 DEF UploadBatches
<1> HIDE DEF batches
<1>4. /\ sync' \in Syncs /\ sync'.saves = sync.saves /\ sync'.shown = sync.shown
      /\ sync'.armed = sync.armed /\ sync'.overtaken = sync.overtaken
    <2> DEFINE idle == FALSE
    <2>1. idle \in BOOLEAN /\ TRUE \in BOOLEAN /\ sync' = [sync EXCEPT !.idle = idle, !.batches = batches]
        BY <1>1
    <2> HIDE DEF idle
    <2> QED BY <1>1, <1>3, <2>1 DEF Syncs, UploadBatches
<1> QED BY <1>1, <1>4, BatchesKeep

LEMMA BatchAfterIs ==
    ASSUME sync \in Syncs, NEW b \in sync.batches, NEW media, NEW failed \in BOOLEAN
    PROVE  /\ BatchAfter(b, media, failed) \in Syncs
           /\ BatchAfter(b, media, failed).saves = sync.saves
           /\ BatchAfter(b, media, failed).shown = sync.shown
           /\ BatchAfter(b, media, failed).armed = sync.armed
           /\ BatchAfter(b, media, failed).overtaken = sync.overtaken
           /\ b.left \subseteq Int
<1> DEFINE bad == b.failed \/ failed
           after == [left |-> b.left \ {media}, failed |-> bad]
           batches == (sync.batches \ {b}) \cup (IF after.left = {} THEN {} ELSE {after})
           again == IF after.left = {} THEN after.failed ELSE sync.again
<1>1. /\ sync.batches \in UploadBatches /\ sync.again \in BOOLEAN
      /\ b \in [left : SUBSET Int, failed : BOOLEAN] /\ b.left \subseteq Int /\ bad \in BOOLEAN
    BY DEF Syncs, UploadBatches
<1> HIDE DEF bad
<1>2. after \in [left : SUBSET Int, failed : BOOLEAN] /\ after.failed = bad
    BY <1>1
<1>3. batches \in UploadBatches /\ again \in BOOLEAN
    <2> HIDE DEF after
    <2> QED BY <1>1, <1>2 DEF UploadBatches
<1>4. BatchAfter(b, media, failed) = [sync EXCEPT !.batches = batches, !.again = again]
    BY DEF BatchAfter, bad
<1> HIDE DEF batches, again
<1> QED BY <1>1, <1>3, <1>4 DEF Syncs, UploadBatches

LEMMA UploadEndsKeeps ==
    ASSUME StudioInv, NEW b \in sync.batches, NEW media, UploadEnds(b, media)
    PROVE  StudioInv'
<1> DEFINE G == [c \in OwnClips |-> Attach(c, media)]
           s == BatchAfter(b, media, FALSE)
<1>1. /\ EdInv(ed) /\ visit \in Visits /\ disk \in Disks /\ StoredWhole(disk) /\ TasksInv(tasks, ed)
      /\ sync \in Syncs /\ sync' = Changed(s) /\ UNCHANGED <<visit, page, disk, tasks, loads>>
      /\ ed' = OnRetained(ed, LAMBDA c : Attach(c, media)) /\ media \in b.left
    BY DEF StudioInv, UploadEnds
<1>2. s \in Syncs /\ s.saves = sync.saves /\ s.armed = sync.armed /\ media \in Int
    <2>1. FALSE \in BOOLEAN
        OBVIOUS
    <2> QED BY <1>1, <2>1, BatchAfterIs
<1> HIDE DEF s
<1>3. ASSUME NEW c \in OwnClips PROVE G[c] \in OwnClips /\ SameWork(G[c], c)
    BY <1>2, <1>3 DEF OwnClips, StudioClips, SameWork, Attach
<1>4. G \in [OwnClips -> OwnClips]
    BY <1>3
<1>5. \A z \in ClipSets : {Attach(c, media) : c \in z} = Image(G, z)
    BY DEF ClipSets, Image
<1>6. Remade(G)
    <2>1. ed.clips \in ClipSets /\ ed.undo \in Histories /\ ed.redo \in Histories
        BY <1>1 DEF EdInv, Editors
    <2>2. \A h \in Histories : OnPieces(h, LAMBDA c : Attach(c, media)) = Images(G, h)
        <3> TAKE h \in Histories
        <3>1. \A i \in DOMAIN h : h[i] \in ClipSets
            BY DEF Histories
        <3> QED BY <1>5, <3>1 DEF OnPieces, Images
    <2> HIDE DEF G
    <2> QED BY <1>1, <1>5, <2>1, <2>2 DEF OnRetained, Remade
<1>7. Keeps(ed, ed')
    <2> HIDE DEF G
    <2> QED BY <1>1, <1>3, <1>4, <1>6, RemadeKeeps
<1>8. sync' \in Syncs /\ Quiet(sync', ed') /\ Len(sync'.saves) = Len(sync.saves)
    <2>1. NoneYet(s, ed) /\ ed'.ready = ed.ready
        BY <1>2, <1>7 DEF StudioInv, SavesInv, NoneYet, Keeps
    <2> QED BY <1>1, <1>2, <2>1, SoonIs
<1> QED BY <1>1, <1>7, <1>8, WorkKeeps

LEMMA UploadFailsKeeps ==
    ASSUME StudioInv, NEW b \in sync.batches, NEW media, UploadFails(b, media)
    PROVE  StudioInv'
<1>1. /\ sync \in Syncs /\ sync' = BatchAfter(b, media, TRUE) /\ UNCHANGED <<page, disk, ed, tasks, loads>>
      /\ TRUE \in BOOLEAN
    BY DEF StudioInv, UploadFails
<1>2. visit' \in Visits /\ visit'.saves = visit.saves
    BY FaultIs DEF StudioInv, UploadFails
<1> QED BY <1>1, <1>2, BatchAfterIs, BatchesKeep

LEMMA UploadRetriesKeeps ==
    ASSUME StudioInv, UploadRetries
    PROVE  StudioInv'
<1>1. /\ sync \in Syncs /\ sync' = [sync EXCEPT !.again = FALSE, !.idle = TRUE]
      /\ UNCHANGED <<visit, page, disk, ed, tasks, loads>> /\ visit \in Visits
    BY DEF StudioInv, UploadRetries
<1>2. /\ sync' \in Syncs /\ sync'.saves = sync.saves /\ sync'.shown = sync.shown
      /\ sync'.armed = sync.armed /\ sync'.overtaken = sync.overtaken
    BY <1>1 DEF Syncs
<1> QED BY <1>1, <1>2, BatchesKeep

(* ------------------------------------------------------------------ saves -- *)

LEMMA DocumentIs ==
    ASSUME EdInv(ed)
    PROVE  Document(ed) \in Docs /\ DocPure(Document(ed), ed.project)
<1> DEFINE luts == ed.luts \cap {c.lut : c \in Retained(ed)}
<1>1. /\ ed.clips \in ClipSets /\ ed.undo \in Histories /\ ed.redo \in Histories /\ ed.luts \in LutSets
      /\ ed.pure \in BOOLEAN /\ EdPure(ed)
    BY DEF EdInv, Editors
<1>2. luts \in LutSets
    BY <1>1 DEF LutSets
<1>3. Document(ed) = [clips |-> ed.clips, undo |-> ed.undo, redo |-> ed.redo, luts |-> luts, pure |-> ed.pure]
    BY DEF Document
<1>4. ed.pure => AllFine(Retained(ed), ed.project, luts)
    BY <1>1 DEF EdPure, AllFine
<1> HIDE DEF luts
<1>5. Document(ed) \in Docs /\ Retained(Document(ed)) = Retained(ed)
    BY <1>1, <1>2, <1>3 DEF Docs, Retained
<1> QED BY <1>3, <1>4, <1>5 DEF DocPure

(* Saves come and go, the editor and the stores stay.                        *)
LEMMA SavesKeep ==
    ASSUME StudioInv, UNCHANGED <<page, disk, ed, tasks, loads>>,
           visit' \in Visits, visit'.saves = visit.saves, sync' \in Syncs,
           Len(sync'.saves) <= visit.saves, SavesInv(sync', ed, disk, page)
    PROVE  StudioInv'
    BY DEF StudioInv

LEMMA SaveFiresKeeps ==
    ASSUME StudioInv, SaveFires
    PROVE  StudioInv'
<1> DEFINE s == [pc |-> "disk", project |-> ed.project, doc |-> Document(ed), live |-> TRUE, late |-> FALSE]
           saves == Append(sync.saves, s)
           n == Len(sync.saves)
<1>1. /\ EdInv(ed) /\ ed \in Editors /\ visit \in Visits /\ sync \in Syncs /\ SavesInv(sync, ed, disk, page)
      /\ sync.armed /\ ed.ready /\ ed.project # NoProject /\ Len(sync.saves) < visit.saves
      /\ sync' = [sync EXCEPT !.armed = FALSE, !.saves = saves]
      /\ UNCHANGED <<visit, page, disk, ed, tasks, loads>>
    BY DEF StudioInv, SaveFires, EdInv
<1>2. s \in SaveSet
    <2>1. ed.project \in Projects
        BY <1>1 DEF Editors, Projects, NoProject
    <2> DEFINE doc == Document(ed)
    <2>2. doc \in Docs /\ DocPure(doc, ed.project)
        BY <1>1, DocumentIs
    <2> HIDE DEF doc
    <2> QED BY <2>1, <2>2 DEF SaveSet, doc
<1>3. s.live /\ ~s.late /\ s.pc = "disk" /\ s.project = ed.project /\ s.doc = Document(ed)
    OBVIOUS
<1> HIDE DEF s
<1>4. sync.saves \in Seq(SaveSet) /\ n \in Nat
    BY <1>1 DEF Syncs
<1>5. /\ saves \in Seq(SaveSet) /\ Len(saves) = n + 1
      /\ \A i \in 1 .. n + 1 : saves[i] = IF i = n + 1 THEN s ELSE sync.saves[i]
    BY <1>2, <1>4, AppendIs
<1> HIDE DEF saves
<1>6. /\ sync' \in Syncs /\ sync'.saves = saves /\ ~sync'.armed /\ sync'.shown = sync.shown
    BY <1>1, <1>5 DEF Syncs
<1>7. sync.shown # "cloud" /\ \A i \in 1 .. n : ~sync.saves[i].live
    BY <1>1 DEF SavesInv, LiveOk
<1>8. SavesInv(sync', ed, disk, page)
    <2>1. ASSUME NEW i \in 1 .. Len(sync'.saves), sync'.saves[i].live PROVE LiveOk(sync', ed, disk, page, i)
        <3>1. i = n + 1 /\ sync'.saves[i] = s
            BY <1>4, <1>5, <1>6, <1>7, <2>1
        <3> QED BY <1>3, <1>5, <1>6, <1>7, <3>1 DEF LiveOk
    <2> QED BY <1>1, <1>6, <1>7, <2>1 DEF SavesInv, NoneYet
<1>9. Len(sync'.saves) <= visit.saves
    BY <1>1, <1>4, <1>5, <1>6 DEF Visits
<1> QED BY <1>1, <1>6, <1>8, <1>9, SavesKeep

LEMMA SaveRetriesKeeps ==
    ASSUME StudioInv, SaveRetries
    PROVE  StudioInv'
<1>1. /\ visit \in Visits /\ sync \in Syncs /\ Len(sync.saves) <= visit.saves /\ sync' = SaveSoon(sync)
      /\ UNCHANGED <<visit, page, disk, ed, tasks, loads>>
      /\ NoneYet(sync, ed)
    BY DEF StudioInv, SaveRetries, SavesInv
<1>2. sync' \in Syncs /\ Len(sync'.saves) = Len(sync.saves) /\ Quiet(sync', ed)
    BY <1>1, SoonIs
<1>3. SavesInv(sync', ed, disk, page)
    BY <1>2, QuietIs
<1> QED BY <1>1, <1>2, <1>3, SavesKeep

(* One of the saves is over: not the newest, or the newest and the page says *)
(* how it went.                                                              *)
Over(s, t, i) ==
    /\ t.saves = RemoveAt(s.saves, i) /\ t.armed = s.armed /\ t.overtaken = s.overtaken
    /\ \/ ~s.saves[i].live /\ t.shown = s.shown
       \/ s.saves[i].live /\ (t.shown = "cloud" => s.saves[i].pc = "answer")

LEMMA OverKeeps ==
    ASSUME NEW s \in Syncs, NEW t \in Syncs, NEW e, NEW d, NEW pg, NEW i \in 1 .. Len(s.saves),
           SavesInv(s, e, d, pg), Over(s, t, i)
    PROVE  SavesInv(t, e, d, pg) /\ Len(t.saves) <= Len(s.saves)
<1> DEFINE n == Len(s.saves)
           at(j) == IF j < i THEN j ELSE j + 1
<1>1. s.saves \in Seq(SaveSet) /\ n \in Nat /\ i \in DOMAIN s.saves
    BY DEF Syncs
<1>2. /\ Len(t.saves) = n - 1
      /\ \A j \in 1 .. n - 1 : t.saves[j] = s.saves[at(j)] /\ at(j) \in 1 .. n
    BY <1>1, RemoveIs DEF Over
<1>0. e.ready
    BY <1>1 DEF SavesInv, NoneYet
<1>3. OnDisk(s, e, d) => OnDisk(t, e, d)
    BY <1>2 DEF OnDisk
<1>4. InCloud(s, e, pg) => InCloud(t, e, pg)
    BY <1>2 DEF InCloud, Over
<1>5. CASE ~s.saves[i].live /\ t.shown = s.shown
    <2>1. ASSUME NEW j \in 1 .. Len(t.saves), t.saves[j].live PROVE LiveOk(t, e, d, pg, j)
        <3>1. at(j) \in 1 .. n /\ t.saves[j] = s.saves[at(j)] /\ LiveOk(s, e, d, pg, at(j))
            BY <1>2, <2>1 DEF SavesInv
        <3>2. at(j) = n /\ i # n /\ i <= n
            BY <1>1, <1>5, <2>1, <3>1 DEF LiveOk
        <3>3. j = Len(t.saves)
            BY <1>1, <1>2, <2>1, <3>2
        <3> HIDE DEF at
        <3> QED BY <1>3, <1>4, <1>5, <3>1, <3>3 DEF LiveOk, Over
    <2> QED BY <1>0, <1>3, <1>4, <1>5, <2>1, <1>2, <1>1 DEF SavesInv, NoneYet, Over
<1>6. CASE s.saves[i].live /\ (t.shown = "cloud" => s.saves[i].pc = "answer")
    <2>1. LiveOk(s, e, d, pg, i)
        BY <1>6 DEF SavesInv
    <2>2. ~t.armed /\ i = n
        BY <2>1 DEF LiveOk, Over
    <2>3. \A j \in 1 .. Len(t.saves) : ~t.saves[j].live
        <3> SUFFICES ASSUME NEW j \in 1 .. Len(t.saves), t.saves[j].live PROVE FALSE
            OBVIOUS
        <3>1. j < n /\ j \in 1 .. n /\ t.saves[j] = s.saves[j]
            BY <1>1, <1>2, <2>2
        <3>2. LiveOk(s, e, d, pg, j)
            BY <3>1 DEF SavesInv
        <3> QED BY <1>1, <3>1, <3>2 DEF LiveOk
    <2>4. t.shown = "cloud" => OnDisk(t, e, d) /\ InCloud(t, e, pg)
        BY <1>3, <1>4, <1>6, <2>1 DEF LiveOk
    <2> QED BY <1>0, <1>1, <1>2, <2>2, <2>3, <2>4 DEF SavesInv, NoneYet
<1> QED BY <1>5, <1>6 DEF Over

LEMMA SaveAnsweredKeeps ==
    ASSUME StudioInv, NEW i \in DOMAIN sync.saves, SaveAnswered(i)
    PROVE  StudioInv'
<1> DEFINE live == sync.saves[i].live
           retry == sync.retry /\ ~live
           shown == IF ~live THEN sync.shown
                    ELSE IF \E c \in ed.clips : c.cloud = 0 THEN "uploading" ELSE "cloud"
           saves == RemoveAt(sync.saves, i)
<1>1. /\ visit \in Visits /\ sync \in Syncs /\ Len(sync.saves) <= visit.saves /\ SavesInv(sync, ed, disk, page)
      /\ sync.saves[i].pc = "answer" /\ sync' = [sync EXCEPT !.saves = saves, !.retry = retry, !.shown = shown]
      /\ UNCHANGED <<visit, page, disk, ed, tasks, loads>>
    BY DEF StudioInv, SaveAnswered, Newest
<1>2. /\ sync.saves \in Seq(SaveSet) /\ Len(sync.saves) \in Nat /\ sync.saves[i] \in SaveSet
      /\ i \in 1 .. Len(sync.saves) /\ retry \in BOOLEAN
      /\ sync.shown \in Statuses
    BY <1>1 DEF Syncs
<1>3. saves \in Seq(SaveSet) /\ Len(saves) = Len(sync.saves) - 1
    BY <1>2, RemoveIs
<1>4. shown \in Statuses /\ (~live => shown = sync.shown)
    BY <1>2 DEF Statuses
<1> HIDE DEF retry, shown, saves
<1>5. /\ sync' \in Syncs /\ sync'.saves = saves /\ sync'.armed = sync.armed
      /\ sync'.overtaken = sync.overtaken /\ sync'.shown = shown
    BY <1>1, <1>2, <1>3, <1>4 DEF Syncs
<1>6. Over(sync, sync', i)
    BY <1>1, <1>4, <1>5 DEF Over, saves
<1>7. SavesInv(sync', ed, disk, page) /\ Len(sync'.saves) <= Len(sync.saves)
    BY <1>1, <1>2, <1>5, <1>6, OverKeeps
<1>8. Len(sync'.saves) <= visit.saves
    BY <1>1, <1>2, <1>3, <1>5 DEF Visits
<1> QED BY <1>1, <1>5, <1>7, <1>8, SavesKeep

LEMMA SaveFailsKeeps ==
    ASSUME StudioInv, NEW i \in DOMAIN sync.saves, SaveFails(i)
    PROVE  StudioInv'
<1> DEFINE live == sync.saves[i].live
           retry == IF live THEN page.signed ELSE sync.retry
           shown == IF live THEN "failed" ELSE sync.shown
           saves == RemoveAt(sync.saves, i)
<1>1. /\ visit \in Visits /\ sync \in Syncs /\ Len(sync.saves) <= visit.saves /\ SavesInv(sync, ed, disk, page)
      /\ sync' = [sync EXCEPT !.saves = saves, !.retry = retry, !.shown = shown] /\ page \in Pages
      /\ UNCHANGED <<page, disk, ed, tasks, loads>>
    BY DEF StudioInv, SaveFails, Newest
<1>2. /\ sync.saves \in Seq(SaveSet) /\ Len(sync.saves) \in Nat /\ sync.saves[i] \in SaveSet
      /\ i \in 1 .. Len(sync.saves) /\ retry \in BOOLEAN
      /\ shown \in Statuses
    BY <1>1 DEF Syncs, Pages, Statuses
<1>3. saves \in Seq(SaveSet) /\ Len(saves) = Len(sync.saves) - 1
    BY <1>2, RemoveIs
<1>4. (~live => shown = sync.shown) /\ (live => shown = "failed")
    OBVIOUS
<1> HIDE DEF retry, shown, saves
<1>5. /\ sync' \in Syncs /\ sync'.saves = saves /\ sync'.armed = sync.armed
      /\ sync'.overtaken = sync.overtaken /\ sync'.shown = shown
    BY <1>1, <1>2, <1>3 DEF Syncs
<1>6. Over(sync, sync', i)
    BY <1>1, <1>4, <1>5 DEF Over, saves
<1>7. SavesInv(sync', ed, disk, page) /\ Len(sync'.saves) <= Len(sync.saves)
    BY <1>1, <1>2, <1>5, <1>6, OverKeeps
<1>8. Len(sync'.saves) <= visit.saves
    BY <1>1, <1>2, <1>3, <1>5 DEF Visits
<1>9. visit' \in Visits /\ visit'.saves = visit.saves
    BY <1>1, FaultIs DEF SaveFails
<1> QED BY <1>1, <1>5, <1>7, <1>8, <1>9, SavesKeep

LEMMA StoreIs ==
    ASSUME disk \in Disks, StoredWhole(disk), NEW p \in Projects, NEW doc \in Docs, DocPure(doc, p),
           disk' = [disk EXCEPT !.docs = With(@, p, doc), !.last = p,
                      !.media = {m \in @ : m[1] = p => m \in Kept(p, Retained(doc))}
                                \cup Kept(p, {c \in Retained(doc) : ~c.stream})]
    PROVE  /\ disk' \in Disks /\ StoredWhole(disk')
           /\ p \in DOMAIN disk'.docs /\ disk'.docs[p] = doc
<1> DEFINE docs == With(disk.docs, p, doc)
           stored == Kept(p, {c \in Retained(doc) : ~c.stream})
           media == {m \in disk.media : m[1] = p => m \in Kept(p, Retained(doc))} \cup stored
<1>1. /\ disk.docs \in DocMaps /\ disk.media \in SUBSET (Nat \X Int) /\ p \in Nat
    BY DEF Disks, Projects
<1>2. /\ docs \in DocMaps /\ DOMAIN docs = DOMAIN disk.docs \cup {p} /\ docs[p] = doc
      /\ \A q \in DOMAIN disk.docs : q # p => docs[q] = disk.docs[q]
    BY <1>1, WithIs
<1>3. Retained(doc) \subseteq OwnClips
    BY PiecesOf DEF Docs, Retained, ClipSets
<1>4. media \in SUBSET (Nat \X Int)
    <2>1. \A c \in Retained(doc) : c.media \in Int
        BY <1>3 DEF OwnClips, StudioClips
    <2> QED BY <1>1, <2>1 DEF Kept
<1>5. disk' = [disk EXCEPT !.docs = docs, !.last = p, !.media = media]
    OBVIOUS
<1>6. ASSUME NEW c \in Retained(doc), ~c.stream PROVE <<p, c.media>> \in media
    BY <1>6 DEF Kept
<1>7. ASSUME NEW q \in DOMAIN disk.docs, q # p, NEW x, <<q, x>> \in disk.media PROVE <<q, x>> \in media
    BY <1>7
<1> HIDE DEF docs, stored, media
<1>8. disk' \in Disks /\ disk'.docs = docs /\ disk'.media = media
    BY <1>1, <1>2, <1>4, <1>5 DEF Disks
<1>9. StoredWhole(disk')
    <2> SUFFICES ASSUME NEW q \in DOMAIN docs, NEW c \in Retained(docs[q]), ~c.stream, c.cloud = 0
                 PROVE  <<q, c.media>> \in media
        BY <1>8 DEF StoredWhole
    <2>1. CASE q = p
        BY <1>2, <1>6, <2>1
    <2>2. CASE q # p
        <3>1. q \in DOMAIN disk.docs /\ docs[q] = disk.docs[q]
            BY <1>2, <2>2
        <3>2. <<q, c.media>> \in disk.media
            BY <3>1, c.cloud = 0 DEF StoredWhole
        <3> QED BY <1>7, <2>2, <3>1, <3>2
    <2> QED BY <2>1, <2>2
<1> QED BY <1>2, <1>8, <1>9

(* While a save has yet to reach the disk, nothing is claimed of the disk.   *)
LEMMA DiskIsFree ==
    ASSUME NEW s, NEW e, NEW d, NEW pg, SavesInv(s, e, d, pg), NEW i \in 1 .. Len(s.saves),
           s.saves[i].pc = "disk", NEW f
    PROVE  SavesInv(s, e, f, pg)
<1>1. ~OnDisk(s, e, d)
    BY DEF OnDisk
<1>2. ASSUME NEW j \in 1 .. Len(s.saves), s.saves[j].live PROVE LiveOk(s, e, f, pg, j)
    <2>1. LiveOk(s, e, d, pg, j)
        BY <1>2 DEF SavesInv
    <2> QED BY <1>1, <2>1 DEF LiveOk
<1> QED BY <1>1, <1>2 DEF SavesInv

LEMMA SaveToDiskKeeps ==
    ASSUME StudioInv, NEW i \in DOMAIN sync.saves, SaveToDisk(i)
    PROVE  StudioInv'
<1> DEFINE s == sync.saves[i]
           n == Len(sync.saves)
           put == [s EXCEPT !.pc = "put"]
           shown == IF s.live THEN "disk" ELSE sync.shown
           left == RemoveAt(sync.saves, i)
           sent == [sync.saves EXCEPT ![i] = put]
<1>1. /\ EdInv(ed) /\ visit \in Visits /\ disk \in Disks /\ StoredWhole(disk) /\ sync \in Syncs
      /\ n <= visit.saves /\ SavesInv(sync, ed, disk, page) /\ s.pc = "disk"
      /\ \A j \in 1 .. i - 1 : sync.saves[j].pc # "disk"
      /\ \/ s.live /\ page.signed /\ sync' = [sync EXCEPT !.saves = sent]
         \/ ~(s.live /\ page.signed) /\ sync' = [sync EXCEPT !.saves = left, !.shown = shown]
      /\ UNCHANGED <<visit, page, ed, tasks, loads>>
    BY DEF StudioInv, SaveToDisk, Newest
<1>2. /\ sync.saves \in Seq(SaveSet) /\ n \in Nat /\ i \in 1 .. n /\ s \in SaveSet
      /\ sync.shown \in Statuses
    BY <1>1 DEF Syncs
<1>3. s.project \in Projects /\ s.doc \in Docs /\ DocPure(s.doc, s.project)
    BY <1>2 DEF SaveSet
<1>4. /\ disk' \in Disks /\ StoredWhole(disk')
      /\ s.project \in DOMAIN disk'.docs /\ disk'.docs[s.project] = s.doc
    <2>1. disk' = [disk EXCEPT !.docs = With(@, s.project, s.doc), !.last = s.project,
                     !.media = {m \in @ : m[1] = s.project => m \in Kept(s.project, Retained(s.doc))}
                               \cup Kept(s.project, {c \in Retained(s.doc) : ~c.stream})]
        BY DEF SaveToDisk, FilesOf
    <2> HIDE DEF s
    <2> QED BY <1>1, <1>3, <2>1, StoreIs
<1>5. SavesInv(sync, ed, disk', page)
    BY <1>1, <1>2, DiskIsFree
<1>6. CASE s.live /\ page.signed
    <2>1. put \in SaveSet /\ put.pc = "put" /\ put.project = s.project /\ put.doc = s.doc
          /\ put.live = s.live /\ put.late = s.late
        BY <1>2 DEF SaveSet
    <2> HIDE DEF put
    <2>2. /\ sent \in Seq(SaveSet) /\ Len(sent) = n
          /\ \A j \in 1 .. n : sent[j] = IF j = i THEN put ELSE sync.saves[j]
        BY <1>2, <2>1
    <2>3. sync' = [sync EXCEPT !.saves = sent]
        BY <1>1, <1>6
    <2> HIDE DEF sent
    <2>4. sync' \in Syncs /\ sync'.saves = sent /\ sync'.armed = sync.armed /\ sync'.shown = sync.shown
        BY <1>1, <2>2, <2>3 DEF Syncs
    <2>5. LiveOk(sync, ed, disk, page, i)
        BY <1>1, <1>2, <1>6 DEF SavesInv
    <2>6. /\ i = n /\ ~s.late /\ ~sync.armed /\ sync.shown # "cloud"
          /\ s.project = ed.project /\ s.doc = Document(ed)
        BY <2>5 DEF LiveOk
    <2>7. OnDisk(sync', ed, disk')
        <3>1. \A j \in 1 .. n : sent[j].pc # "disk"
            BY <1>1, <1>2, <2>1, <2>2, <2>6
        <3> QED BY <1>4, <2>2, <2>4, <2>6, <3>1 DEF OnDisk
    <2>8. ASSUME NEW j \in 1 .. n, sent[j].live PROVE LiveOk(sync', ed, disk', page, j)
        <3>1. sync.saves[j].live
            BY <1>6, <2>1, <2>2, <2>8
        <3>2. j = n
            BY <1>1, <3>1 DEF SavesInv, LiveOk
        <3> HIDE DEF s
        <3> QED BY <2>1, <2>2, <2>4, <2>6, <2>7, <3>2 DEF LiveOk
    <2>9. SavesInv(sync', ed, disk', page)
        BY <1>1, <1>2, <2>2, <2>4, <2>6, <2>8 DEF SavesInv, NoneYet
    <2> QED BY <1>1, <1>4, <2>2, <2>4, <2>9 DEF StudioInv
<1>7. CASE ~(s.live /\ page.signed)
    <2>1. left \in Seq(SaveSet) /\ Len(left) = n - 1
        BY <1>2, RemoveIs
    <2>2. /\ shown \in Statuses
          /\ (~s.live => shown = sync.shown) /\ (s.live => shown = "disk")
        BY <1>2 DEF Statuses
    <2>3. sync' = [sync EXCEPT !.saves = left, !.shown = shown]
        BY <1>1, <1>7
    <2> HIDE DEF shown, left
    <2>4. /\ sync' \in Syncs /\ sync'.saves = left /\ sync'.armed = sync.armed
          /\ sync'.overtaken = sync.overtaken /\ sync'.shown = shown
        BY <1>1, <2>1, <2>2, <2>3 DEF Syncs
    <2>5. Over(sync, sync', i)
        BY <2>2, <2>4 DEF Over, left
    <2>6. SavesInv(sync', ed, disk', page)
        BY <1>1, <1>2, <1>5, <2>4, <2>5, OverKeeps
    <2>7. Len(sync'.saves) <= visit.saves
        BY <1>1, <1>2, <2>1, <2>4 DEF Visits
    <2> QED BY <1>1, <1>4, <2>4, <2>6, <2>7 DEF StudioInv
<1> QED BY <1>6, <1>7

LEMMA SaveLandsKeeps ==
    ASSUME StudioInv, NEW i \in DOMAIN sync.saves, SaveLands(i)
    PROVE  StudioInv'
<1> DEFINE s == sync.saves[i]
           n == Len(sync.saves)
           cloud == With(page.cloud, s.project, s.doc)
           landed == [j \in DOMAIN sync.saves |->
                        IF j = i THEN [sync.saves[j] EXCEPT !.pc = "answer"]
                        ELSE IF j < i THEN [sync.saves[j] EXCEPT !.late = TRUE] ELSE sync.saves[j]]
           late == s.late
<1>1. /\ EdInv(ed) /\ visit \in Visits /\ page \in Pages /\ sync \in Syncs
      /\ n <= visit.saves /\ SavesInv(sync, ed, disk, page) /\ s.pc = "put"
      /\ page' = [page EXCEPT !.cloud = cloud]
      /\ sync' = [sync EXCEPT !.overtaken = late, !.saves = landed]
      /\ UNCHANGED <<visit, disk, ed, tasks, loads>>
    BY DEF StudioInv, SaveLands
<1>2. sync.saves \in Seq(SaveSet) /\ n \in Nat /\ i \in 1 .. n /\ DOMAIN sync.saves = 1 .. n /\ s \in SaveSet
    BY <1>1 DEF Syncs
<1>3. s.project \in Projects /\ s.doc \in Docs /\ DocPure(s.doc, s.project) /\ late \in BOOLEAN
    BY <1>2 DEF SaveSet
<1>4. /\ cloud \in DocMaps /\ s.project \in DOMAIN cloud /\ cloud[s.project] = s.doc
    <2> DEFINE p == s.project
               doc == s.doc
               old == page.cloud
    <2>1. old \in DocMaps /\ p \in Projects /\ doc \in Docs /\ DocPure(doc, p)
        BY <1>1, <1>3 DEF Pages
    <2>2. cloud = With(old, p, doc)
        OBVIOUS
    <2> HIDE DEF p, doc, old, cloud
    <2>3. With(old, p, doc) \in DocMaps /\ DOMAIN With(old, p, doc) = DOMAIN old \cup {p}
          /\ With(old, p, doc)[p] = doc
        BY <2>1, WithIs
    <2>4. cloud \in DocMaps /\ p \in DOMAIN cloud /\ cloud[p] = doc
        BY <2>2, <2>3
    <2> QED BY <2>4 DEF p, doc
<1> HIDE DEF cloud
<1>5. page' \in Pages /\ page'.cloud = cloud
    BY <1>1, <1>4 DEF Pages
<1>6. ASSUME NEW j \in 1 .. n
      PROVE  /\ landed[j] \in SaveSet /\ landed[j].live = sync.saves[j].live
             /\ landed[j].project = sync.saves[j].project /\ landed[j].doc = sync.saves[j].doc
             /\ (j = i => landed[j].pc = "answer") /\ (j # i => landed[j].pc = sync.saves[j].pc)
             /\ landed[j].late <=> j < i \/ sync.saves[j].late
    <2> DEFINE r == sync.saves[j]
    <2>1. r \in SaveSet /\ j \in Nat /\ i \in Nat
        BY <1>2
    <2>2. landed[j] = IF j = i THEN [r EXCEPT !.pc = "answer"]
                      ELSE IF j < i THEN [r EXCEPT !.late = TRUE] ELSE r
        BY <1>2
    <2> DEFINE l == landed[j]
               a == [r EXCEPT !.pc = "answer"]
               b == [r EXCEPT !.late = TRUE]
    <2>3. l = IF j = i THEN a ELSE IF j < i THEN b ELSE r
        BY <2>2
    <2> HIDE DEF r, l
    <2>4. /\ a \in SaveSet /\ a.live = r.live /\ a.project = r.project /\ a.doc = r.doc
          /\ a.pc = "answer" /\ a.late = r.late
        BY <2>1 DEF SaveSet
    <2>5. /\ b \in SaveSet /\ b.live = r.live /\ b.project = r.project /\ b.doc = r.doc
          /\ b.pc = r.pc /\ b.late
        BY <2>1 DEF SaveSet
    <2> HIDE DEF a, b
    <2>6. /\ l \in SaveSet /\ l.live = r.live /\ l.project = r.project /\ l.doc = r.doc
          /\ (j = i => l.pc = "answer") /\ (j # i => l.pc = r.pc)
          /\ l.late <=> j < i \/ r.late
        <3>1. CASE j = i
            BY <2>1, <2>3, <2>4, <3>1
        <3>2. CASE j < i
            BY <2>1, <2>3, <2>5, <3>2
        <3>3. CASE j > i
            BY <2>1, <2>3, <3>3
        <3> QED BY <2>1, <3>1, <3>2, <3>3
    <2> QED BY <2>6 DEF l, r
<1>7. landed \in Seq(SaveSet) /\ Len(landed) = n
    <2>1. DOMAIN landed = 1 .. n /\ landed = [j \in DOMAIN landed |-> landed[j]]
        BY <1>2
    <2> HIDE DEF landed
    <2>2. landed \in [1 .. n -> SaveSet]
        BY <1>6, <2>1
    <2> QED BY <1>2, <2>2, TupleIs
<1> HIDE DEF landed
<1>8. /\ sync' \in Syncs /\ sync'.saves = landed /\ sync'.armed = sync.armed /\ sync'.shown = sync.shown
      /\ sync'.overtaken = late
    BY <1>1, <1>3, <1>7 DEF Syncs
<1>9. OnDisk(sync, ed, disk) => OnDisk(sync', ed, disk)
    BY <1>6, <1>7, <1>8 DEF OnDisk
<1>10. InCloud(sync, ed, page) => InCloud(sync', ed, page')
    <2> SUFFICES ASSUME InCloud(sync, ed, page) PROVE InCloud(sync', ed, page')
        OBVIOUS
    <2>1. late
        BY <1>1, <1>2 DEF InCloud
    <2>2. \A j \in 1 .. n : landed[j].pc = "put" => landed[j].late
        <3> TAKE j \in 1 .. n
        <3>1. sync.saves[j].pc = "put" => sync.saves[j].late
            BY DEF InCloud
        <3> QED BY <1>6, <3>1
    <2> QED BY <1>7, <1>8, <2>1, <2>2 DEF InCloud
<1>11. ASSUME NEW j \in 1 .. n, landed[j].live PROVE LiveOk(sync', ed, disk, page', j)
    <2>1. sync.saves[j].live /\ LiveOk(sync, ed, disk, page, j)
        BY <1>1, <1>6, <1>11 DEF SavesInv
    <2>2. /\ j = n /\ ~sync.saves[j].late /\ ~sync.armed /\ sync.shown # "cloud"
          /\ sync.saves[j].project = ed.project /\ sync.saves[j].doc = Document(ed)
          /\ sync.saves[j].pc # "disk" => OnDisk(sync, ed, disk)
          /\ sync.saves[j].pc = "answer" => InCloud(sync, ed, page)
        BY <2>1 DEF LiveOk
    <2>3. ~(j < i)
        BY <1>2, <2>2
    <2>4. ~landed[j].late
        BY <1>6, <2>2, <2>3
    <2>5. landed[j].pc # "disk" => OnDisk(sync', ed, disk)
        BY <1>1, <1>6, <1>9, <2>2
    <2>6. landed[j].pc = "answer" => InCloud(sync', ed, page')
        <3>1. CASE j = i
            <4>1. \A k \in 1 .. n : landed[k].pc = "put" => landed[k].late
                <5> TAKE k \in 1 .. n
                <5>1. k \in Nat /\ i \in Nat /\ (k = i \/ k < i)
                    BY <1>2, <2>2, <3>1
                <5> QED BY <1>6, <5>1
            <4>2. ed.project \in DOMAIN cloud /\ cloud[ed.project] = Document(ed)
                BY <1>4, <2>2, <3>1
            <4> QED BY <1>5, <1>7, <1>8, <4>1, <4>2 DEF InCloud
        <3>2. CASE j # i
            BY <1>6, <1>10, <2>2, <3>2
        <3> QED BY <3>1, <3>2
    <2> QED BY <1>6, <1>7, <1>8, <2>2, <2>4, <2>5, <2>6 DEF LiveOk
<1>12. SavesInv(sync', ed, disk, page')
    BY <1>1, <1>7, <1>8, <1>9, <1>10, <1>11 DEF SavesInv, NoneYet
<1> QED BY <1>1, <1>5, <1>7, <1>8, <1>12 DEF StudioInv

(* --------------------------------------------------------------- projects -- *)

(* Another project's clips and LUTs come in: what began before is of another *)
(* opening.                                                                  *)
Opens(e, f) ==
    /\ f \in Editors /\ f.opened = e.opened + 1 /\ UndoOk(f) /\ EdPure(f)
    /\ f.drag = e.drag /\ f.clipboard = e.clipboard /\ f.copied = e.copied

LEMMA OpensOn ==
    ASSUME NEW e, NEW f, EdInv(e), Opens(e, f)
    PROVE  EdInv(f) /\ Onward(e, f)
<1>1. e \in Editors /\ f \in Editors /\ e.opened \in Nat /\ f.opened = e.opened + 1 /\ e.copied \in Nat
    BY DEF EdInv, Opens, Editors
<1>2. Onward(e, f)
    BY <1>1 DEF Onward
<1>3. CopiedOk(f)
    <2>1. e.copied <= e.opened /\ f.copied = e.copied
        BY DEF EdInv, CopiedOk, Since, Opens
    <2> QED BY <1>1, <2>1 DEF CopiedOk, Since
<1>4. DragOk(f)
    <2> SUFFICES ASSUME f.drag # NoDrag PROVE Since(f, f.drag[1].opened, f.drag[1].snap)
        BY DEF DragOk
    <2>1. f.drag = e.drag /\ e.drag # NoDrag
        BY DEF Opens
    <2>2. e.drag[1].opened \in Nat /\ e.drag[1].opened <= e.opened
        BY <1>1, <2>1, DragIs DEF EdInv, DragOk, Since
    <2> QED BY <1>1, <2>1, <2>2 DEF Since
<1> QED BY <1>1, <1>2, <1>3, <1>4 DEF EdInv, Opens

(* The editor goes on to another project, and that will be saved.            *)
LEMMA ProjectKeeps ==
    ASSUME StudioInv, EdInv(ed'), Onward(ed, ed'), sync' \in Syncs, Quiet(sync', ed'),
           Len(sync'.saves) = Len(sync.saves),
           visit' \in Visits, visit'.saves = visit.saves, page' \in Pages,
           disk' \in Disks, StoredWhole(disk'), LoadsInv(loads', ed'), UNCHANGED tasks
    PROVE  StudioInv'
<1>1. ed \in Editors /\ ed' \in Editors /\ sync \in Syncs /\ Len(sync.saves) <= visit.saves
    BY DEF StudioInv, EdInv
<1>2. TasksInv(tasks', ed')
    BY <1>1, TasksOn DEF StudioInv
<1>3. SavesInv(sync', ed', disk', page')
    BY QuietIs
<1> QED BY <1>1, <1>2, <1>3 DEF StudioInv

(* The same, when the effects run.                                           *)
LEMMA AfterLoadKeeps ==
    ASSUME StudioInv, EdInv(ed'), Onward(ed, ed'), ed'.ready, sync' = Effects(sync),
           visit' \in Visits, visit'.saves = visit.saves, page' \in Pages,
           disk' \in Disks, StoredWhole(disk'), LoadsInv(loads', ed'), UNCHANGED tasks
    PROVE  StudioInv'
<1>1. sync' \in Syncs /\ Len(sync'.saves) = Len(sync.saves) /\ Rests(sync')
    BY EffectsAre DEF StudioInv
<1>2. Quiet(sync', ed')
    BY <1>1 DEF Quiet, NoneYet
<1> QED BY <1>1, <1>2, ProjectKeeps

LEMMA OpenStartsKeeps ==
    ASSUME StudioInv, NEW p, OpenStarts(p)
    PROVE  StudioInv'
<1> DEFINE new == [project |-> p, asked |-> p, pc |-> "start", first |-> FALSE, mixed |-> FALSE]
<1>1. /\ visit \in Visits /\ visit.left > 0 /\ Moved /\ page \in Pages /\ p \in DOMAIN page.cloud
      /\ LoadsInv(loads, ed) /\ loads' = loads \cup {new} /\ UNCHANGED <<page, disk, ed, tasks>>
      /\ sync \in Syncs /\ SavesInv(sync, ed, disk, page) /\ sync' = Shows("loading")
    BY DEF StudioInv, OpenStarts, Move
<1>2. p \in Nat
    <2>1. page.cloud \in DocMaps
        BY <1>1 DEF Pages
    <2> QED BY <1>1, <2>1, MapHas DEF Projects
<1>3. new \in OpenStarting /\ new.pc = "start"
    BY <1>2 DEF OpenStarting
<1> HIDE DEF new
<1>4. LoadsInv(loads', ed)
    BY <1>1, <1>3 DEF LoadsInv
<1>5. visit' \in Visits /\ visit'.saves = visit.saves
    BY <1>1, MovedIs
<1>6. sync' \in Syncs /\ sync'.saves = sync.saves /\ SavesInv(sync', ed, disk, page)
    <2>1. "loading" \in Statuses /\ "loading" # "cloud"
        BY DEF Statuses
    <2> QED BY <1>1, <2>1, ShowsIs, ShowsKeeps
<1> QED BY <1>1, <1>4, <1>5, <1>6 DEF StudioInv

LEMMA LoadIs ==
    ASSUME NEW l \in loads, LoadsInv(loads, ed)
    PROVE  l.project \in Nat /\ l.asked \in Nat /\ l.first \in BOOLEAN /\ l.mixed \in BOOLEAN
    BY DEF LoadsInv, OpenStarting, OpenFetches

LEMMA OpenReadsKeeps ==
    ASSUME StudioInv, NEW l \in loads, OpenReads(l)
    PROVE  StudioInv'
<1> DEFINE p == Wanted(l)
           doc == Found(p)
           new == [project |-> p, asked |-> l.asked, pc |-> "fetch", first |-> l.first,
                   mixed |-> FALSE, doc |-> doc]
           others == {[o EXCEPT !.mixed = TRUE] : o \in loads \ {l}}
           opened == ed.opened + 1
           luts == doc.luts
<1>1. /\ EdInv(ed) /\ ed \in Editors /\ visit \in Visits /\ page \in Pages /\ disk \in Disks /\ StoredWhole(disk)
      /\ LoadsInv(loads, ed) /\ (p \in DOMAIN disk.docs \/ p \in DOMAIN page.cloud)
      /\ loads' = others \cup {new} /\ sync' = SaveSoon(sync)
      /\ ed' = [ed EXCEPT !.luts = luts, !.opened = opened, !.pure = FALSE]
      /\ UNCHANGED <<visit, page, disk, tasks>>
    BY DEF StudioInv, OpenReads, EdInv
<1>2. p \in Nat /\ doc \in Docs /\ DocPure(doc, p) /\ doc.luts \in LutSets
    <2>1. disk.docs \in DocMaps /\ page.cloud \in DocMaps
        BY <1>1 DEF Disks, Pages
    <2> HIDE DEF p
    <2>2. CASE p \in DOMAIN disk.docs
        BY <2>1, <2>2, MapHas DEF Found, Projects, Docs
    <2>3. CASE p \notin DOMAIN disk.docs
        BY <1>1, <2>1, <2>3, MapHas DEF Found, Projects, Docs
    <2> QED BY <2>2, <2>3
<1>3. l.asked \in Nat /\ l.first \in BOOLEAN
    BY <1>1, LoadIs
<1> HIDE DEF p, doc
<1>4. new \in OpenFetches /\ new.doc = doc
    BY <1>2, <1>3 DEF OpenFetches
<1>5. ASSUME NEW o \in others PROVE o \in OpenStarting \cup OpenFetches /\ o.mixed
    <2>1. PICK k \in loads : o = [k EXCEPT !.mixed = TRUE]
        BY <1>5
    <2>2. k \in OpenStarting \/ k \in OpenFetches
        BY <1>1, <2>1 DEF LoadsInv
    <2>3. CASE k \in OpenStarting
        BY <2>1, <2>3 DEF OpenStarting
    <2>4. CASE k \in OpenFetches
        BY <2>1, <2>4 DEF OpenFetches
    <2> QED BY <2>2, <2>3, <2>4
<1>6. /\ ed' \in Editors /\ ed'.luts = luts /\ ed'.opened = opened /\ ~ed'.pure /\ ed'.ready = ed.ready
      /\ ed'.undo = ed.undo /\ ed'.before = ed.before /\ ed'.stale = ed.stale
      /\ ed'.drag = ed.drag /\ ed'.clipboard = ed.clipboard /\ ed'.copied = ed.copied
    <2>1. opened \in Nat /\ luts \in LutSets
        BY <1>1, <1>2 DEF Editors
    <2> HIDE DEF opened, luts
    <2> QED BY <1>1, <2>1 DEF Editors
<1>7. Opens(ed, ed')
    BY <1>1, <1>6 DEF Opens, UndoOk, EdPure, EdInv
<1>8. EdInv(ed') /\ Onward(ed, ed')
    BY <1>1, <1>7, OpensOn
<1> HIDE DEF new, others
<1>9. LoadsInv(loads', ed')
    BY <1>1, <1>4, <1>5, <1>6 DEF LoadsInv
<1>10. sync' \in Syncs /\ Len(sync'.saves) = Len(sync.saves) /\ Quiet(sync', ed')
    BY <1>1, <1>6, SoonIs DEF StudioInv, SavesInv
<1> QED BY <1>1, <1>8, <1>9, <1>10, ProjectKeeps

LEMMA HereIs ==
    ASSUME disk \in Disks, NEW l, NEW s \in ClipSets
    PROVE  /\ Here(l, s) \in ClipSets
           /\ \A p, luts : AllFine(s, p, luts) => AllFine(Here(l, s), p, luts)
<1>1. ASSUME NEW x \in Here(l, s)
      PROVE  x \in OwnClips /\ \E d \in s : x.home = d.home /\ x.lut = d.lut
    <2>1. PICK d \in s : x = [d EXCEPT !.stream = FALSE]
        BY <1>1 DEF Here
    <2>2. d \in OwnClips
        BY DEF ClipSets
    <2>3. x \in OwnClips /\ x.home = d.home /\ x.lut = d.lut
        BY <2>1, <2>2 DEF OwnClips, StudioClips
    <2> QED BY <2>3
<1>2. Here(l, s) \in ClipSets
    BY <1>1 DEF ClipSets
<1>3. ASSUME NEW p, NEW luts, AllFine(s, p, luts) PROVE AllFine(Here(l, s), p, luts)
    BY <1>1, <1>3 DEF AllFine
<1> QED BY <1>2, <1>3

HereAll(l, h) == [i \in DOMAIN h |-> Here(l, h[i])]
Befores(h) == [i \in DOMAIN h |-> Content(h[i])]

LEMMA HereAllIs ==
    ASSUME disk \in Disks, NEW l, NEW h \in Histories
    PROVE  /\ HereAll(l, h) \in Histories
           /\ \A p, luts : AllFine(Pieces(h), p, luts) => AllFine(Pieces(HereAll(l, h)), p, luts)
<1> DEFINE g == HereAll(l, h)
<1>1. h \in Seq(ClipSets) /\ Len(h) \in Nat /\ Len(h) <= StudioHistory /\ DOMAIN h = 1 .. Len(h)
    BY DEF Histories
<1>2. \A i \in 1 .. Len(h) : h[i] \in ClipSets /\ Here(l, h[i]) \in ClipSets
    BY <1>1, HereIs
<1>3. g \in [1 .. Len(h) -> ClipSets] /\ \A i \in 1 .. Len(h) : g[i] = Here(l, h[i])
    BY <1>1, <1>2 DEF HereAll
<1> HIDE DEF g
<1>4. g \in Seq(ClipSets) /\ Len(g) = Len(h)
    BY <1>1, <1>3, TupleIs
<1>5. g \in Histories
    BY <1>1, <1>4 DEF Histories
<1>6. ASSUME NEW p, NEW luts, AllFine(Pieces(h), p, luts) PROVE AllFine(Pieces(g), p, luts)
    <2> SUFFICES ASSUME NEW c \in Pieces(g) PROVE c.home \in {p, NoProject} /\ c.lut \in luts \cup {0}
        BY DEF AllFine
    <2>1. PICK i \in 1 .. Len(h) : c \in Here(l, h[i])
        BY <1>3, <1>4, <1>5, PiecesOf
    <2>2. h[i] \subseteq Pieces(h)
        BY PiecesOf
    <2>3. AllFine(h[i], p, luts)
        BY <1>6, <2>2 DEF AllFine
    <2>4. AllFine(Here(l, h[i]), p, luts)
        BY <1>2, <2>3, HereIs
    <2> QED BY <2>1, <2>4 DEF AllFine
<1> QED BY <1>5, <1>6 DEF g

LEMMA BeforesAre ==
    ASSUME NEW h \in Histories
    PROVE  Befores(h) \in Seq(Contents) /\ Len(Befores(h)) = Len(h) /\ Aligned(h, Befores(h))
<1> DEFINE b == Befores(h)
<1>1. h \in Seq(ClipSets) /\ Len(h) \in Nat /\ DOMAIN h = 1 .. Len(h)
    BY DEF Histories
<1>2. \A i \in 1 .. Len(h) : Content(h[i]) \in Contents
    BY <1>1, ContentIn
<1>3. b \in [1 .. Len(h) -> Contents] /\ \A i \in 1 .. Len(h) : b[i] = Content(h[i])
    BY <1>1, <1>2 DEF Befores
<1> HIDE DEF b
<1>4. b \in Seq(Contents) /\ Len(b) = Len(h)
    BY <1>1, <1>3, TupleIs
<1> QED BY <1>3, <1>4 DEF b, Aligned

LEMMA OpenAppliesKeeps ==
    ASSUME StudioInv, NEW l \in loads, OpenApplies(l)
    PROVE  StudioInv'
<1> DEFINE clips == Here(l, l.doc.clips)
           undo == HereAll(l, l.doc.undo)
           redo == HereAll(l, l.doc.redo)
           before == Befores(undo)
           ready == ed.ready \/ l.first
           opened == ed.opened + 1
           pure == l.doc.pure /\ ~l.mixed
           project == l.project
           more == Kept(project, clips \cup Pieces(undo) \cup Pieces(redo))
<1>1. /\ EdInv(ed) /\ ed \in Editors /\ visit \in Visits /\ page \in Pages /\ disk \in Disks /\ StoredWhole(disk)
      /\ LoadsInv(loads, ed) /\ l.pc = "fetch" /\ loads' = loads \ {l}
      /\ sync' = IF l.first THEN Effects(sync) ELSE Changed(Shows("cloud"))
      /\ page' = [page EXCEPT !.requested = project] /\ UNCHANGED <<visit, tasks>>
    BY DEF StudioInv, OpenApplies, EdInv
<1>2. ed' = [ed EXCEPT !.project = project, !.clips = clips, !.undo = undo, !.redo = redo,
               !.before = before, !.ready = ready, !.opened = opened, !.stale = FALSE, !.pure = pure]
    BY DEF OpenApplies, HereAll, Befores
<1>3. disk' = [disk EXCEPT !.media = @ \cup more]
    BY DEF OpenApplies, HereAll
<1>4. l \in OpenFetches
    BY <1>1 DEF LoadsInv, OpenStarting
<1>5. /\ project \in Nat /\ l.first \in BOOLEAN /\ l.mixed \in BOOLEAN
      /\ l.doc \in Docs /\ DocPure(l.doc, project)
    BY <1>4 DEF OpenFetches
<1>6. /\ l.doc.clips \in ClipSets /\ l.doc.undo \in Histories /\ l.doc.redo \in Histories
      /\ l.doc.pure \in BOOLEAN
    BY <1>5 DEF Docs
<1>7. clips \in ClipSets /\ undo \in Histories /\ redo \in Histories
    BY <1>1, <1>6, HereIs, HereAllIs
<1>8. pure => AllFine(clips, project, ed.luts) /\ AllFine(Pieces(undo), project, ed.luts)
              /\ AllFine(Pieces(redo), project, ed.luts)
    <2> SUFFICES ASSUME pure
                 PROVE  AllFine(clips, project, ed.luts) /\ AllFine(Pieces(undo), project, ed.luts)
                        /\ AllFine(Pieces(redo), project, ed.luts)
        OBVIOUS
    <2>1. l.doc.luts \subseteq ed.luts
        BY <1>1 DEF LoadsInv
    <2>2. AllFine(Retained(l.doc), project, l.doc.luts)
        BY <1>5 DEF DocPure
    <2>3. /\ AllFine(l.doc.clips, project, ed.luts) /\ AllFine(Pieces(l.doc.undo), project, ed.luts)
          /\ AllFine(Pieces(l.doc.redo), project, ed.luts)
        BY <2>1, <2>2 DEF AllFine, Retained
    <2> QED BY <1>1, <1>6, <2>3, HereIs, HereAllIs
<1>9. before \in Seq(Contents) /\ Len(before) = Len(undo) /\ Aligned(undo, before)
    <2> HIDE DEF undo
    <2> QED BY <1>7, BeforesAre
<1>10. more \in SUBSET (Nat \X Int)
    <2> HIDE DEF clips, undo, redo, project
    <2>1. clips \cup Pieces(undo) \cup Pieces(redo) \subseteq OwnClips
        BY <1>7, PiecesOf DEF ClipSets
    <2>2. \A c \in OwnClips : c.media \in Int
        BY DEF OwnClips, StudioClips
    <2> QED BY <1>5, <2>1, <2>2 DEF Kept
<1>11. ready \in BOOLEAN /\ opened \in Nat /\ pure \in BOOLEAN
    BY <1>1, <1>5, <1>6 DEF Editors
<1> HIDE DEF clips, undo, redo, before, ready, opened, pure, more
<1>12. disk' \in Disks /\ StoredWhole(disk')
    BY <1>1, <1>3, <1>10, MediaGrows
<1>13. page' \in Pages
    BY <1>1, <1>5 DEF Pages
<1> HIDE DEF project
<1>14. /\ ed' \in Editors /\ ed'.project = project /\ ed'.clips = clips /\ ed'.undo = undo /\ ed'.redo = redo
       /\ ed'.before = before /\ ed'.opened = opened /\ ed'.pure = pure /\ ed'.luts = ed.luts
       /\ ed'.drag = ed.drag /\ ed'.clipboard = ed.clipboard /\ ed'.copied = ed.copied
       /\ ed'.ready = ready
    BY <1>1, <1>2, <1>5, <1>7, <1>9, <1>11 DEF Editors
<1>15. Opens(ed, ed')
    <2>1. UndoOk(ed')
        BY <1>9, <1>14 DEF UndoOk
    <2>2. EdPure(ed')
        <3> SUFFICES ASSUME pure PROVE AllFine(Retained(ed'), project, ed.luts)
            BY <1>14 DEF EdPure
        <3> QED BY <1>8, <1>14 DEF AllFine, Retained
    <2> QED BY <1>14, <2>1, <2>2 DEF Opens, opened
<1>16. EdInv(ed') /\ Onward(ed, ed')
    BY <1>1, <1>15, OpensOn
<1>17. LoadsInv(loads', ed')
    BY <1>1, <1>14 DEF LoadsInv
<1>18. CASE l.first
    BY <1>1, <1>12, <1>13, <1>14, <1>16, <1>17, <1>18, AfterLoadKeeps DEF ready
<1>19. CASE ~l.first
    <2> DEFINE t == Shows("cloud")
    <2>1. "cloud" \in Statuses
        BY DEF Statuses
    <2>2. t \in Syncs /\ t.saves = sync.saves /\ t.armed = sync.armed /\ NoneYet(sync, ed)
        BY <2>1, ShowsIs DEF StudioInv, SavesInv
    <2>3. NoneYet(t, ed) /\ ed'.ready = ed.ready /\ sync' = Changed(t)
        BY <1>1, <1>14, <1>19, <2>2 DEF NoneYet, ready, Editors
    <2> HIDE DEF t
    <2>4. sync' \in Syncs /\ Len(sync'.saves) = Len(sync.saves) /\ Quiet(sync', ed')
        BY <2>2, <2>3, SoonIs
    <2> QED BY <1>1, <1>12, <1>13, <1>16, <1>17, <2>4, ProjectKeeps
<1> QED BY <1>18, <1>19

LEMMA FirstEndsIs ==
    ASSUME EdInv(ed), NEW p \in Nat, ed' = FirstEnds(p)
    PROVE  EdInv(ed') /\ Onward(ed, ed') /\ ed'.luts = ed.luts /\ ed'.ready
<1> DEFINE pure == ed.pure /\ ed.project = NoProject
           ready == TRUE
<1>1. /\ ed \in Editors /\ UndoOk(ed) /\ EdPure(ed) /\ DragOk(ed) /\ CopiedOk(ed) /\ pure \in BOOLEAN
      /\ ready \in BOOLEAN
    BY DEF EdInv, Editors
<1>2. ed' = [ed EXCEPT !.project = p, !.ready = ready, !.pure = pure]
    BY DEF FirstEnds
<1> HIDE DEF pure, ready
<1>3. /\ ed' \in Editors /\ ed'.project = p /\ ed'.pure = pure /\ ed'.clips = ed.clips /\ ed'.undo = ed.undo
      /\ ed'.redo = ed.redo /\ ed'.before = ed.before /\ ed'.stale = ed.stale /\ ed'.luts = ed.luts
      /\ ed'.drag = ed.drag /\ ed'.clipboard = ed.clipboard /\ ed'.copied = ed.copied
      /\ ed'.opened = ed.opened /\ ed'.ready = ready
    BY <1>1, <1>2 DEF Editors
<1>4. UndoOk(ed')
    BY <1>1, <1>3 DEF UndoOk
<1>5. EdPure(ed')
    BY <1>1, <1>3 DEF EdPure, AllFine, Retained, pure
<1>6. Onward(ed, ed')
    BY <1>1, <1>3 DEF Onward, Editors, pure
<1>7. CopiedOk(ed')
    <2>1. ed.copied \in Nat /\ ed.clipboard \in ClipSets
        BY <1>1 DEF Editors
    <2> QED BY <1>1, <1>3, <1>6, <2>1, SinceOn DEF CopiedOk
<1>8. DragOk(ed')
    <2> SUFFICES ASSUME ed.drag # NoDrag PROVE Since(ed', ed.drag[1].opened, ed.drag[1].snap)
        BY <1>3 DEF DragOk
    <2>1. Since(ed, ed.drag[1].opened, ed.drag[1].snap)
        BY <1>1 DEF DragOk
    <2>2. ed.drag[1].opened \in Nat /\ ed.drag[1].snap \in ClipSets
        BY <1>1, DragIs
    <2> QED BY <1>1, <1>3, <1>6, <2>1, <2>2, SinceOn
<1> QED BY <1>3, <1>4, <1>5, <1>6, <1>7, <1>8 DEF EdInv, ready

LEMMA FreshIs == visit \in Visits => Fresh \in Nat
    BY StampIs DEF Fresh

LEMMA OpenFailsKeeps ==
    ASSUME StudioInv, NEW l \in loads, NEW refused \in BOOLEAN, OpenFails(l, refused)
    PROVE  StudioInv'
<1> DEFINE signed == page.signed /\ ~refused
<1>1. /\ EdInv(ed) /\ visit \in Visits /\ page \in Pages /\ disk \in Disks /\ StoredWhole(disk)
      /\ LoadsInv(loads, ed) /\ loads' = loads \ {l} /\ SavesInv(sync, ed, disk, page)
      /\ page' = [page EXCEPT !.signed = signed] /\ UNCHANGED <<disk, tasks>>
      /\ \/ l.first /\ ed' = FirstEnds(IF l.asked # NoProject THEN l.asked ELSE Fresh) /\ sync' = Effects(sync)
         \/ ~l.first /\ UNCHANGED ed /\ sync' = Shows("failed")
      /\ sync \in Syncs
    BY DEF StudioInv, OpenFails
<1>2. visit' \in Visits /\ visit'.saves = visit.saves
    BY <1>1, FaultIs DEF OpenFails
<1>3. signed \in BOOLEAN
    BY <1>1 DEF Pages
<1> HIDE DEF signed
<1>4. page' \in Pages /\ page'.cloud = page.cloud
    BY <1>1, <1>3 DEF Pages
<1>5. CASE l.first
    <2> DEFINE p == IF l.asked # NoProject THEN l.asked ELSE Fresh
    <2>1. p \in Nat /\ ed' = FirstEnds(p) /\ sync' = Effects(sync)
        BY <1>1, <1>5, LoadIs, FreshIs
    <2> HIDE DEF p
    <2>2. EdInv(ed') /\ Onward(ed, ed') /\ ed'.luts = ed.luts /\ ed'.ready
        BY <1>1, <2>1, FirstEndsIs
    <2>3. LoadsInv(loads', ed')
        BY <1>1, <2>2 DEF LoadsInv
    <2> QED BY <1>1, <1>2, <1>4, <2>1, <2>2, <2>3, AfterLoadKeeps
<1>6. CASE ~l.first
    <2>1. UNCHANGED ed /\ sync' = Shows("failed") /\ "failed" \in Statuses /\ "failed" # "cloud"
        BY <1>1, <1>6 DEF Statuses
    <2>2. LoadsInv(loads', ed')
        BY <1>1, <2>1 DEF LoadsInv
    <2>3. sync' \in Syncs /\ sync'.saves = sync.saves /\ SavesInv(sync', ed, disk, page)
        BY <1>1, <2>1, ShowsIs, ShowsKeeps
    <2>4. SavesInv(sync', ed', disk', page')
        BY <1>1, <1>4, <2>1, <2>3 DEF SavesInv, LiveOk, InCloud
    <2> QED BY <1>1, <1>2, <1>4, <2>1, <2>2, <2>3, <2>4 DEF StudioInv
<1> QED BY <1>5, <1>6

LEMMA FirstIsNewKeeps ==
    ASSUME StudioInv, NEW l \in loads, FirstIsNew(l)
    PROVE  StudioInv'
<1>1. /\ EdInv(ed) /\ visit \in Visits /\ page \in Pages /\ disk \in Disks /\ StoredWhole(disk)
      /\ LoadsInv(loads, ed) /\ loads' = loads \ {l} /\ ed' = FirstEnds(Fresh)
      /\ visit' = [visit EXCEPT !.stamp = Stamp] /\ sync' = Effects(sync)
      /\ UNCHANGED <<page, disk, tasks>>
    BY DEF StudioInv, FirstIsNew
<1>2. visit' \in Visits /\ visit'.saves = visit.saves
    BY <1>1, StampedIs
<1>3. EdInv(ed') /\ Onward(ed, ed') /\ ed'.luts = ed.luts /\ ed'.ready
    BY <1>1, FreshIs, FirstEndsIs
<1>4. LoadsInv(loads', ed')
    BY <1>1, <1>3 DEF LoadsInv
<1> QED BY <1>1, <1>2, <1>3, <1>4, AfterLoadKeeps

LEMMA NothingRetained ==
    ASSUME NEW e, e.clips = {}, e.undo = <<>>, e.redo = <<>>
    PROVE  Retained(e) = {}
    BY NoPieces DEF Retained

LEMMA NewProjectKeeps ==
    ASSUME StudioInv, NewProject
    PROVE  StudioInv'
<1> DEFINE p == Fresh
           none == <<>>
           nothing == {}
           opened == ed.opened + 1
           no == FALSE
           yes == TRUE
<1>1. /\ EdInv(ed) /\ ed \in Editors /\ visit \in Visits /\ visit.left > 0 /\ page \in Pages
      /\ disk \in Disks /\ StoredWhole(disk) /\ LoadsInv(loads, ed) /\ Moved
      /\ sync' = Changed(Shows("saving"))
      /\ page' = [page EXCEPT !.requested = p]
      /\ ed' = [ed EXCEPT !.project = p, !.clips = nothing, !.undo = none, !.redo = none, !.before = none,
                  !.opened = opened, !.stale = no, !.pure = yes]
      /\ UNCHANGED <<disk, tasks, loads>>
    BY DEF StudioInv, NewProject, EdInv, Move
<1>2. /\ p \in Nat /\ none \in Histories /\ none \in Seq(Contents) /\ nothing \in ClipSets /\ opened \in Nat
      /\ no \in BOOLEAN /\ yes \in BOOLEAN
    BY <1>1, FreshIs, NoPieces DEF ClipSets, Editors
<1>3. visit' \in Visits /\ visit'.saves = visit.saves
    BY <1>1, MovedIs
<1> HIDE DEF p, none, nothing, opened, no, yes
<1>4. page' \in Pages
    BY <1>1, <1>2 DEF Pages
<1>5. /\ ed' \in Editors /\ ed'.project = p /\ ed'.clips = nothing /\ ed'.undo = none /\ ed'.redo = none
      /\ ed'.before = none /\ ed'.opened = opened /\ ed'.luts = ed.luts /\ ed'.ready = ed.ready
      /\ ed'.drag = ed.drag /\ ed'.clipboard = ed.clipboard /\ ed'.copied = ed.copied
    BY <1>1, <1>2 DEF Editors
<1>6. Opens(ed, ed')
    <2>1. UndoOk(ed')
        BY <1>5 DEF UndoOk, Aligned, none
    <2>2. Retained(ed') = {}
        BY <1>5, NothingRetained DEF none, nothing
    <2>3. EdPure(ed')
        BY <2>2 DEF EdPure, AllFine
    <2> QED BY <1>5, <2>1, <2>3 DEF Opens, opened
<1>7. EdInv(ed') /\ Onward(ed, ed') /\ LoadsInv(loads', ed')
    BY <1>1, <1>5, <1>6, OpensOn DEF LoadsInv
<1>8. sync' \in Syncs /\ Len(sync'.saves) = Len(sync.saves) /\ Quiet(sync', ed')
    <2> DEFINE t == Shows("saving")
    <2>1. "saving" \in Statuses
        BY DEF Statuses
    <2>2. t \in Syncs /\ t.saves = sync.saves /\ t.armed = sync.armed /\ NoneYet(sync, ed)
        BY <2>1, ShowsIs DEF StudioInv, SavesInv
    <2>3. NoneYet(t, ed)
        BY <2>2 DEF NoneYet
    <2> HIDE DEF t
    <2> QED BY <1>1, <1>5, <2>2, <2>3, SoonIs DEF t
<1> QED BY <1>1, <1>3, <1>4, <1>7, <1>8, ProjectKeeps

LEMMA NewEditorIs == EdInv(EmptyEditor) /\ Retained(EmptyEditor) = {} /\ EmptyEditor \in Editors
<1> DEFINE e == EmptyEditor
<1>1. <<>> \in Histories /\ <<>> \in Seq(Contents) /\ <<>> \in Seq(Drags) /\ {} \in ClipSets /\ {} \in LutSets
    BY NoPieces DEF ClipSets, LutSets
<1>2. <<>> \in Texted
    <2>1. <<>> \in [{} -> Int]
        OBVIOUS
    <2> QED BY <2>1 DEF Texted
<1>3. e \in Editors
    <2> DEFINE none == <<>>
               nothing == {}
               zero == 0
               no == FALSE
               yes == TRUE
    <2>1. /\ none \in Histories /\ none \in Seq(Contents) /\ none \in Seq(Drags) /\ none \in Texted
          /\ nothing \in ClipSets /\ nothing \in LutSets /\ zero \in Nat /\ zero \in Int
          /\ no \in BOOLEAN /\ yes \in BOOLEAN
        BY <1>1, <1>2
    <2>2. e = [project |-> zero, clips |-> nothing, luts |-> nothing, undo |-> none, redo |-> none,
               before |-> none, merge |-> zero, drag |-> none, texted |-> none,
               clipboard |-> nothing, copied |-> zero, opened |-> zero, ready |-> no,
               stale |-> no, pure |-> yes]
        BY DEF EmptyEditor, NoProject, NoDrag
    <2> HIDE DEF none, nothing, zero, no, yes, e
    <2> QED BY <2>1, <2>2 DEF Editors
<1>4. /\ e.clips = {} /\ e.undo = <<>> /\ e.redo = <<>> /\ e.before = <<>> /\ e.drag = NoDrag
      /\ e.copied = 0 /\ e.opened = 0 /\ e.clipboard = {}
    BY DEF EmptyEditor
<1> HIDE DEF e
<1>5. Retained(e) = {}
    BY <1>4, NothingRetained
<1>6. UndoOk(e) /\ EdPure(e) /\ DragOk(e) /\ CopiedOk(e)
    BY <1>4, <1>5 DEF UndoOk, Aligned, EdPure, AllFine, DragOk, CopiedOk, Since
<1> QED BY <1>3, <1>5, <1>6 DEF EdInv, e

LEMMA NoSyncIs ==
    ASSUME NEW e, NEW d, NEW pg
    PROVE  NoSync \in Syncs /\ Len(NoSync.saves) = 0 /\ SavesInv(NoSync, e, d, pg)
<1>1. NoSync \in Syncs
    BY DEF NoSync, Syncs, Statuses
<1>2. ~NoSync.armed /\ NoSync.saves = <<>> /\ NoSync.shown = "loading"
    BY DEF NoSync
<1> QED BY <1>1, <1>2 DEF SavesInv, NoneYet

LEMMA FirstLoadIs ==
    ASSUME NEW requested \in Nat, NEW e
    PROVE  LoadsInv({FirstLoad(requested)}, e)
<1> DEFINE l == FirstLoad(requested)
<1>1. l \in OpenStarting /\ l.pc = "start"
    BY DEF FirstLoad, OpenStarting, NoProject
<1> HIDE DEF l
<1>2. LoadsInv({l}, e)
    BY <1>1 DEF LoadsInv
<1> QED BY <1>2 DEF l

LEMMA ReloadKeeps ==
    ASSUME StudioInv, NEW signIn \in BOOLEAN, Reload(signIn)
    PROVE  StudioInv'
<1> DEFINE signed == page.signed \/ signIn
<1>1. /\ visit \in Visits /\ visit.left > 0 /\ page \in Pages /\ disk \in Disks /\ StoredWhole(disk) /\ Moved
      /\ page' = [page EXCEPT !.signed = signed] /\ ed' = EmptyEditor /\ tasks' = {}
      /\ loads' = {FirstLoad(page.requested)} /\ sync' = NoSync /\ UNCHANGED disk
    BY DEF StudioInv, Reload, Move
<1>2. visit' \in Visits /\ visit'.saves = visit.saves /\ visit.saves \in Nat
    BY <1>1, MovedIs DEF Visits
<1>3. signed \in BOOLEAN /\ page.requested \in Nat
    BY <1>1 DEF Pages
<1> HIDE DEF signed
<1>4. page' \in Pages
    BY <1>1, <1>3 DEF Pages
<1>5. EdInv(ed') /\ TasksInv(tasks', ed')
    BY <1>1, NewEditorIs DEF TasksInv
<1>6. LoadsInv(loads', ed')
    BY <1>1, <1>3, FirstLoadIs
<1>7. sync' \in Syncs /\ Len(sync'.saves) <= visit'.saves /\ SavesInv(sync', ed', disk', page')
    BY <1>1, <1>2, NoSyncIs
<1> QED BY <1>1, <1>2, <1>4, <1>5, <1>6, <1>7 DEF StudioInv

(* ------------------------------------------------------- the whole module -- *)

LEMMA StoredIs ==
    ASSUME NEW p \in Projects
    PROVE  /\ Stored(p) \in Docs /\ DocPure(Stored(p), p)
           /\ \A c \in Retained(Stored(p)) : c.cloud # 0
<1> DEFINE m == -p
           base == Clip(m, p)
           clip == [base EXCEPT !.cloud = m, !.lut = m]
           clips == {clip}
           luts == {m}
           e == [EmptyEditor EXCEPT !.clips = clips, !.luts = luts]
<1>1. p \in Nat /\ m \in Int /\ m # 0
    BY DEF Projects
<1>2. Stored(p) = Document(e)
    BY DEF Stored
<1>3. base \in StudioClips /\ base.media = m /\ base.home = p
    BY <1>1 DEF Clip, StudioClips
<1> HIDE DEF m, base
<1>4. clip \in StudioClips /\ clip.media = m /\ clip.home = p /\ clip.cloud = m /\ clip.lut = m
    BY <1>1, <1>3 DEF StudioClips
<1> HIDE DEF clip
<1>5. clips \in ClipSets /\ luts \in LutSets
    BY <1>1, <1>4 DEF ClipSets, OwnClips, LutSets
<1> HIDE DEF clips, luts
<1>6. EmptyEditor \in Editors /\ EmptyEditor.undo = <<>> /\ EmptyEditor.redo = <<>> /\ EmptyEditor.pure
    BY NewEditorIs DEF EmptyEditor
<1>7. /\ e \in Editors /\ e.clips = clips /\ e.luts = luts /\ e.undo = <<>> /\ e.redo = <<>> /\ e.pure = TRUE
    <2> DEFINE g == EmptyEditor
    <2>1. g \in Editors /\ g.undo = <<>> /\ g.redo = <<>> /\ g.pure = TRUE
        BY <1>6 DEF EmptyEditor
    <2> HIDE DEF g
    <2>2. [g EXCEPT !.clips = clips, !.luts = luts] \in Editors
        BY <1>5, <2>1 DEF Editors
    <2>3. /\ [g EXCEPT !.clips = clips, !.luts = luts].clips = clips
          /\ [g EXCEPT !.clips = clips, !.luts = luts].luts = luts
          /\ [g EXCEPT !.clips = clips, !.luts = luts].undo = <<>>
          /\ [g EXCEPT !.clips = clips, !.luts = luts].redo = <<>>
          /\ [g EXCEPT !.clips = clips, !.luts = luts].pure = TRUE
        BY <2>1 DEF Editors
    <2> QED BY <2>2, <2>3 DEF g
<1> HIDE DEF e
<1>8. Retained(e) = clips
    BY <1>7, NoPieces DEF Retained
<1> DEFINE own == e.luts \cap {c.lut : c \in Retained(e)}
<1>9. own \in LutSets /\ \A c \in clips : c.home = p /\ c.lut \in own /\ c.cloud # 0
    BY <1>1, <1>4, <1>5, <1>7, <1>8 DEF clips, luts, LutSets
<1>10. Document(e) = [clips |-> e.clips, undo |-> e.undo, redo |-> e.redo, luts |-> own, pure |-> e.pure]
    BY DEF Document
<1> HIDE DEF own
<1>11. Document(e) \in Docs /\ Retained(Document(e)) = clips /\ Document(e).luts = own
    <2> DEFINE none == <<>>
               yes == TRUE
    <2>1. /\ none \in Histories /\ yes \in BOOLEAN
          /\ Document(e) = [clips |-> clips, undo |-> none, redo |-> none, luts |-> own, pure |-> yes]
        BY <1>7, <1>10, NoPieces
    <2> HIDE DEF none, yes
    <2>2. /\ Document(e) \in Docs /\ Document(e).clips = clips /\ Document(e).undo = none
          /\ Document(e).redo = none /\ Document(e).luts = own
        BY <1>5, <1>9, <2>1 DEF Docs
    <2> QED BY <2>2, NoPieces DEF Retained, none
<1> QED BY <1>2, <1>9, <1>11 DEF DocPure, AllFine

LEMMA StoresAre ==
    ASSUME NEW known \in SUBSET Projects
    PROVE  [p \in known |-> Stored(p)] \in DocMaps
<1> DEFINE f == [p \in known |-> Stored(p)]
<1>1. DOMAIN f = known /\ \A p \in known : f[p] = Stored(p) /\ Stored(p) \in Docs /\ DocPure(Stored(p), p)
    BY StoredIs
<1>2. f \in [known -> Docs]
    BY StoredIs
<1> HIDE DEF f
<1>3. f \in DocMaps
    BY <1>1, <1>2 DEF DocMaps
<1> QED BY <1>3 DEF f

LEMMA StudioStarts == StudioInit => StudioInv
<1> SUFFICES ASSUME StudioInit PROVE StudioInv
    OBVIOUS
<1>1. visit \in Visits /\ visit.known \in SUBSET Projects /\ visit.requested \in Nat /\ visit.saves \in Nat
      /\ visit.signed \in BOOLEAN
    BY StudioVisitAssumption DEF StudioInit, Visits, Projects, NoProject
<1> DEFINE cloud == [p \in visit.known |-> Stored(p)]
           local == visit.known \cap {1}
           docs == [p \in local |-> Stored(p)]
           media == {<<p, -p>> : p \in local}
           last == IF 1 \in visit.known THEN 1 ELSE NoProject
<1>2. /\ page = [signed |-> visit.signed, requested |-> visit.requested, cloud |-> cloud]
      /\ disk = [docs |-> docs, media |-> media, last |-> last]
      /\ ed = EmptyEditor /\ tasks = {} /\ loads = {FirstLoad(visit.requested)} /\ sync = NoSync
    BY DEF StudioInit
<1>3. local \in SUBSET Projects /\ media \in SUBSET (Nat \X Int) /\ last \in Nat
    BY <1>1 DEF Projects, NoProject
<1>4. DOMAIN docs = local /\ \A p \in local : docs[p] = Stored(p)
    OBVIOUS
<1> HIDE DEF local, media, last
<1>5. cloud \in DocMaps /\ docs \in DocMaps
    BY <1>1, <1>3, StoresAre
<1> HIDE DEF cloud, docs
<1>6. page \in Pages
    BY <1>1, <1>2, <1>5 DEF Pages
<1>7. disk \in Disks /\ disk.docs = docs
    BY <1>2, <1>3, <1>5 DEF Disks
<1>8. StoredWhole(disk)
    BY <1>3, <1>4, <1>7, StoredIs DEF StoredWhole
<1>9. EdInv(ed) /\ TasksInv(tasks, ed) /\ LoadsInv(loads, ed)
    BY <1>1, <1>2, NewEditorIs, FirstLoadIs DEF TasksInv
<1>10. sync \in Syncs /\ Len(sync.saves) <= visit.saves /\ SavesInv(sync, ed, disk, page)
    BY <1>1, <1>2, NoSyncIs
<1> QED BY <1>1, <1>6, <1>7, <1>8, <1>9, <1>10 DEF StudioInv

LEMMA StudioStays == StudioInv /\ UNCHANGED studioVars => StudioInv'
<1> SUFFICES ASSUME StudioInv, UNCHANGED studioVars PROVE StudioInv'
    OBVIOUS
<1>1. visit' = visit /\ page' = page /\ disk' = disk /\ ed' = ed /\ tasks' = tasks /\ loads' = loads /\ sync' = sync
    BY DEF studioVars
<1> QED BY <1>1 DEF StudioInv

LEMMA StudioSteps == StudioInv /\ [StudioNext]_studioVars => StudioInv'
<1> SUFFICES ASSUME StudioInv, [StudioNext]_studioVars PROVE StudioInv'
    OBVIOUS
<1>1. ASSUME NEW c \in ed.clips, NEW merges \in BOOLEAN, EditClip(c, merges) PROVE StudioInv'
    BY <1>1, EditClipKeeps
<1>2. ASSUME NEW c \in ed.clips, GradeClip(c) PROVE StudioInv'
    BY <1>2, GradeClipKeeps
<1>3. ASSUME NEW c \in ed.clips, RemoveClip(c) PROVE StudioInv'
    BY <1>3, RemoveClipKeeps
<1>4. ASSUME NEW c \in ed.clips, DragBegins(c) PROVE StudioInv'
    BY <1>4, DragBeginsKeeps
<1>5. ASSUME NEW c \in ed.clips, CopySelection(c) PROVE StudioInv'
    BY <1>5, CopySelectionKeeps
<1>6. ASSUME NEW c \in ed.clips \cup ed.clipboard, CopyClip(c) PROVE StudioInv'
    BY <1>6, CopyClipKeeps
<1>7. CASE DragMoves
    BY <1>7, DragMovesKeeps
<1>8. CASE DragEnds
    BY <1>8, DragEndsKeeps
<1>9. CASE Undo
    BY <1>9, UndoStepKeeps
<1>10. CASE Redo
    BY <1>10, RedoKeeps
<1>11. ASSUME NEW name \in visit.ops, NEW c \in ed.clips \cup {NoClip}, TaskStarts(name, c) PROVE StudioInv'
    BY <1>11, TaskStartsKeeps
<1>12. ASSUME NEW p \in DOMAIN page.cloud, OpenStarts(p) PROVE StudioInv'
    BY <1>12, OpenStartsKeeps
<1>13. CASE NewProject
    BY <1>13, NewProjectKeeps
<1>14. ASSUME NEW signIn \in BOOLEAN, Reload(signIn) PROVE StudioInv'
    BY <1>14, ReloadKeeps
<1>15. CASE Gestures
    BY <1>1, <1>2, <1>3, <1>4, <1>5, <1>6, <1>7, <1>8, <1>9, <1>10, <1>11, <1>12, <1>13, <1>14, <1>15, Zenon
       DEF Gestures
<1>16. ASSUME NEW t \in tasks, TaskEnds(t) PROVE StudioInv'
    BY <1>16, TaskEndsKeeps
<1>17. ASSUME NEW t \in tasks, BytesArrive(t) PROVE StudioInv'
    BY <1>17, BytesArriveKeeps
<1>18. ASSUME NEW t \in tasks, TaskFails(t) PROVE StudioInv'
    BY <1>18, TaskFailsKeeps
<1>19. ASSUME NEW batch \in SUBSET Pending, UploadStarts(batch) PROVE StudioInv'
    BY <1>19, UploadStartsKeeps
<1>20. ASSUME NEW b \in sync.batches, NEW m \in Uploading, UploadEnds(b, m) PROVE StudioInv'
    BY <1>20, UploadEndsKeeps
<1>21. ASSUME NEW b \in sync.batches, NEW m \in Uploading, UploadFails(b, m) PROVE StudioInv'
    BY <1>21, UploadFailsKeeps
<1>22. CASE UploadRetries
    BY <1>22, UploadRetriesKeeps
<1>23. CASE SaveFires
    BY <1>23, SaveFiresKeeps
<1>24. CASE SaveRetries
    BY <1>24, SaveRetriesKeeps
<1>25. ASSUME NEW i \in DOMAIN sync.saves, SaveToDisk(i) PROVE StudioInv'
    BY <1>25, SaveToDiskKeeps
<1>26. ASSUME NEW i \in DOMAIN sync.saves, SaveLands(i) PROVE StudioInv'
    BY <1>26, SaveLandsKeeps
<1>27. ASSUME NEW i \in DOMAIN sync.saves, SaveAnswered(i) PROVE StudioInv'
    BY <1>27, SaveAnsweredKeeps
<1>28. ASSUME NEW i \in DOMAIN sync.saves, SaveFails(i) PROVE StudioInv'
    BY <1>28, SaveFailsKeeps
<1>29. ASSUME NEW l \in loads, OpenReads(l) PROVE StudioInv'
    BY <1>29, OpenReadsKeeps
<1>30. ASSUME NEW l \in loads, OpenApplies(l) PROVE StudioInv'
    BY <1>30, OpenAppliesKeeps
<1>31. ASSUME NEW l \in loads, FirstIsNew(l) PROVE StudioInv'
    BY <1>31, FirstIsNewKeeps
<1>32. ASSUME NEW l \in loads, NEW refused \in BOOLEAN, OpenFails(l, refused) PROVE StudioInv'
    BY <1>32, OpenFailsKeeps
<1>33. CASE Background
    BY <1>16, <1>17, <1>18, <1>19, <1>20, <1>21, <1>22, <1>23, <1>24, <1>25, <1>26, <1>27, <1>28, <1>29,
       <1>30, <1>31, <1>32, <1>33, Zenon DEF Background
<1>34. CASE UNCHANGED studioVars
    BY <1>34, StudioStays
<1> QED BY <1>15, <1>33, <1>34 DEF StudioNext

(* The editor's invariant: every part of the state is what its handlers      *)
(* take it for (StudioInv), whatever the user does and whatever fails, for   *)
(* every length of the history and every visit.                              *)
THEOREM StudioHolds == StudioSpec => []StudioInv
    BY StudioStarts, StudioSteps, PTL DEF StudioSpec

LEMMA StoredIsWhole ==
    StudioInv => StoredProjectIsWhole
<1> SUFFICES ASSUME StudioInv, NEW p \in DOMAIN disk.docs, NEW c \in Retained(disk.docs[p])
             PROVE  /\ c.stream \/ c.cloud # 0 \/ <<p, c.media>> \in disk.media
                    /\ disk.docs[p].pure => c.lut \in disk.docs[p].luts \cup {0}
    BY DEF StoredProjectIsWhole
<1>1. disk.docs \in DocMaps
    BY DEF StudioInv, Disks
<1>2. DocPure(disk.docs[p], p)
    BY <1>1, MapHas
<1> QED BY <1>2 DEF StudioInv, StoredWhole, DocPure, AllFine

(* saveLocalStudioProject and materializeProject: a stored document keeps    *)
(* the bytes of every clip it retains, in its history too, and the LUTs of   *)
(* one stored from a project whose clips all began there.                    *)
THEOREM StoredProjectIsWholeHolds == StudioSpec => []StoredProjectIsWhole
<1> QED BY StoredIsWhole, StudioHolds, PTL

LEMMA SavedIsSaved ==
    StudioInv => SavedMeansSaved
BY DEF StudioInv, SavesInv, OnDisk, InCloud, SavedMeansSaved

(* The save effect and openProject: once the first load has ended, what the  *)
(* page says is saved is what the stores hold.                               *)
THEOREM SavedMeansSavedHolds == StudioSpec => []SavedMeansSaved
<1> QED BY SavedIsSaved, StudioHolds, PTL

LEMMA UndoneIsOne ==
    ASSUME StudioInv, Undo PROVE ed.stale \/ Content(ed'.clips) = Last(ed.before)
<1> SUFFICES ASSUME ~ed.stale PROVE Content(ed'.clips) = Last(ed.before)
    OBVIOUS
<1>1. ed \in Editors /\ ed.undo # <<>> /\ Len(ed.before) = Len(ed.undo) /\ Aligned(ed.undo, ed.before)
    BY DEF StudioInv, EdInv, UndoOk, Undo
<1>2. ed.undo \in Seq(ClipSets)
    BY <1>1 DEF Editors, Histories
<1>3. ed'.clips = ed.undo[Len(ed.undo)]
    BY <1>1 DEF Undo, Editors, Last
<1>4. Len(ed.undo) \in 1 .. Len(ed.undo)
    BY <1>1, <1>2
<1>5. Content(ed.undo[Len(ed.undo)]) = ed.before[Len(ed.before)]
    BY <1>1, <1>4 DEF Aligned
<1> QED BY <1>3, <1>5 DEF Last

(* rememberEdit and undo: a step back gives the clips of before the last     *)
(* edit.                                                                     *)
THEOREM UndoTakesBackOneEditHolds == StudioSpec => UndoTakesBackOneEdit
<1>1. StudioInv /\ [StudioNext]_studioVars => [Undo => ed.stale \/ Content(ed'.clips) = Last(ed.before)]_studioVars
    BY UndoneIsOne
<1> QED BY <1>1, StudioHolds, PTL DEF StudioSpec, UndoTakesBackOneEdit

LEMMA AddressesOwn ==
    StudioInv => AddressIsOfOwnBytes
<1> SUFFICES ASSUME StudioInv PROVE AddressIsOfOwnBytes
    OBVIOUS
<1>1. Retained(ed) \subseteq OwnClips
    BY PiecesOf DEF StudioInv, EdInv, Editors, Retained, ClipSets
<1> QED BY <1>1 DEF AddressIsOfOwnBytes, OwnClips

LEMMA OfOneProject ==
    StudioInv => HistoryOfOneProject
BY DEF StudioInv, EdInv, EdPure, AllFine, HistoryOfOneProject

LEMMA ClipsOwn == StudioInv => ClipsOfProject
BY OfOneProject, AddressesOwn DEF ClipsOfProject

(* Opening and leaving projects, pasting, and handlers that end in another   *)
(* one than they began in: the history of a project keeps to clips of its    *)
(* own.                                                                      *)
THEOREM ClipsOfProjectHolds == StudioSpec => []ClipsOfProject
<1> QED BY ClipsOwn, StudioHolds, PTL

LEMMA StudioTyped ==
    StudioInv => StudioTypeOK
<1> SUFFICES ASSUME StudioInv PROVE StudioTypeOK
    OBVIOUS
<1>1. /\ visit \in Visits /\ page \in Pages /\ disk \in Disks /\ ed \in Editors /\ sync \in Syncs
      /\ Len(sync.saves) <= visit.saves /\ Len(ed.before) = Len(ed.undo)
    BY DEF StudioInv, EdInv, UndoOk
<1>2. visit.left \in Nat /\ visit.faults \in Nat /\ visit.stamp \in Nat
    BY <1>1 DEF Visits
<1>3. page.signed \in BOOLEAN /\ page.requested \in Projects \cup {NoProject}
    BY <1>1 DEF Pages, Projects, NoProject
<1>4. DOMAIN page.cloud \cup DOMAIN disk.docs \subseteq Projects
    BY <1>1, MapHas DEF Pages, Disks
<1>5. ed.project \in Projects \cup {NoProject} /\ ed.undo \in Histories /\ ed.redo \in Histories
    BY <1>1 DEF Editors, Projects, NoProject
<1>6. Len(ed.undo) <= StudioHistory /\ Len(ed.redo) <= StudioHistory
    BY <1>5 DEF Histories
<1>7. ed.ready \in BOOLEAN /\ ed.stale \in BOOLEAN /\ ed.pure \in BOOLEAN
    BY <1>1 DEF Editors
<1>8. /\ sync.armed \in BOOLEAN /\ sync.retry \in BOOLEAN /\ sync.idle \in BOOLEAN /\ sync.again \in BOOLEAN
      /\ sync.shown \in Statuses
    BY <1>1 DEF Syncs
<1> QED BY <1>1, <1>2, <1>3, <1>4, <1>5, <1>6, <1>7, <1>8 DEF StudioTypeOK, Statuses

(* Type correctness.                                                         *)
THEOREM StudioTypes == StudioSpec => []StudioTypeOK
<1> QED BY StudioTyped, StudioHolds, PTL

(* --------------------------------------------------- the generation list -- *)

Alive == GenEnds \union {"active"}
Answers == {"none", "cancelled", "deleted", "active"}
RowsOK(rows, clock) ==
    \A j \in DOMAIN rows : rows[j].status \in Alive \union {"deleted"} /\ rows[j].stamp \in 1 .. clock
CardsOK(shown, rows) == DOMAIN shown \subseteq DOMAIN rows /\ \A j \in DOMAIN shown : shown[j].status \in Alive
PassOf(pc, timer, rows, left) == [pc |-> pc, timer |-> timer, rows |-> rows, left |-> left]
PassOK(p, rows) ==
    /\ p = PassOf(p.pc, p.timer, p.rows, p.left)
    /\ p.pc \in {"idle", "listing", "refreshing"} /\ p.timer \in BOOLEAN
    /\ CardsOK(p.rows, rows) /\ p.left \subseteq DOMAIN p.rows
AskOf(kind, job, n, jobs, answer, stamp) ==
    [kind |-> kind, job |-> job, n |-> n, jobs |-> jobs, answer |-> answer, stamp |-> stamp]
AskOK(a, rows) ==
    /\ a = AskOf(a.kind, a.job, a.n, a.jobs, a.answer, a.stamp)
    /\ a.kind \in Requests \union {"batch"} /\ a.jobs \subseteq DOMAIN rows /\ a.answer \in Answers

GenInv ==
    /\ genRows = [rows |-> genRows.rows, clock |-> genRows.clock] /\ genRows.clock \in Nat
    /\ RowsOK(genRows.rows, genRows.clock)
    /\ CardsOK(cards, genRows.rows)
    /\ PassOK(pass, genRows.rows)
    /\ \A a \in asks : AskOK(a, genRows.rows)

(* A row that is written leaves those that are there, and time goes on.      *)
LEMMA WrittenKeeps ==
    ASSUME GenInv, NEW j, NEW status \in Alive \union {"deleted"}, RowWritten(j, status)
    PROVE  /\ genRows' = [rows |-> genRows'.rows, clock |-> genRows'.clock] /\ genRows'.clock \in Nat
           /\ RowsOK(genRows'.rows, genRows'.clock)
           /\ DOMAIN genRows'.rows = DOMAIN genRows.rows \union {j}
<1> DEFINE rows == genRows.rows
           clock == genRows.clock
           r == [k \in DOMAIN rows \union {j} |-> IF k = j THEN GenCard(status, clock + 1) ELSE rows[k]]
<1>1. genRows' = [rows |-> r, clock |-> clock + 1] /\ clock \in Nat /\ RowsOK(rows, clock)
    BY DEF RowWritten, GenInv
<1>2. /\ DOMAIN r = DOMAIN rows \union {j}
      /\ r[j].status = status /\ r[j].stamp = clock + 1
      /\ \A k \in DOMAIN rows : k # j => r[k] = rows[k]
    BY DEF GenCard
<1> HIDE DEF r, rows, clock
<1>3. ASSUME NEW k \in DOMAIN r
      PROVE  r[k].status \in Alive \union {"deleted"} /\ r[k].stamp \in 1 .. clock + 1
    <2>1. CASE k = j
        BY <1>1, <1>2, <2>1
    <2>2. CASE k # j
        <3>1. k \in DOMAIN rows /\ r[k] = rows[k]
            BY <1>2, <2>2
        <3> QED BY <1>1, <3>1 DEF RowsOK
    <2> QED BY <2>1, <2>2
<1>4. genRows'.rows = r /\ genRows'.clock = clock + 1
    BY <1>1
<1> QED BY <1>1, <1>2, <1>3, <1>4 DEF RowsOK, rows

(* What is so with some rows is so with more.                                *)
LEMMA MoreRows ==
    ASSUME NEW rows, NEW more, DOMAIN rows \subseteq DOMAIN more
    PROVE  /\ \A shown : CardsOK(shown, rows) => CardsOK(shown, more)
           /\ \A p : PassOK(p, rows) => PassOK(p, more)
           /\ \A a : AskOK(a, rows) => AskOK(a, more)
BY DEF CardsOK, PassOK, AskOK

LEMMA WrittenRest ==
    ASSUME GenInv, NEW j, NEW status \in Alive \union {"deleted"}, RowWritten(j, status),
           UNCHANGED <<cards, pass>>, \A a \in asks' : AskOK(a, genRows.rows)
    PROVE  GenInv'
<1>1. /\ genRows' = [rows |-> genRows'.rows, clock |-> genRows'.clock] /\ genRows'.clock \in Nat
      /\ RowsOK(genRows'.rows, genRows'.clock)
      /\ DOMAIN genRows.rows \subseteq DOMAIN genRows'.rows
    BY WrittenKeeps
<1>2. CardsOK(cards, genRows'.rows) /\ PassOK(pass, genRows'.rows) /\ \A a \in asks' : AskOK(a, genRows'.rows)
    BY <1>1, MoreRows DEF GenInv
<1> QED BY <1>1, <1>2 DEF GenInv

LEMMA PassIs ==
    ASSUME NEW pc \in {"idle", "listing", "refreshing"}, NEW timer \in BOOLEAN, NEW shown, NEW left,
           NEW rows, CardsOK(shown, rows), left \subseteq DOMAIN shown,
           NEW p, p = PassOf(pc, timer, shown, left)
    PROVE  PassOK(p, rows)
<1>1. p.pc = pc /\ p.timer = timer /\ p.rows = shown /\ p.left = left
    BY DEF PassOf
<1> QED BY <1>1 DEF PassOK

LEMMA NoCardsOK ==
    ASSUME NEW rows
    PROVE  CardsOK(NoCards, rows) /\ DOMAIN NoCards = {}
BY DEF CardsOK, NoCards

LEMMA PassEnded ==
    ASSUME NEW rows, NEW p, PassOK(p, rows)
    PROVE  PassOK(PassEnds(p), rows)
<1> DEFINE pc == "idle"
           timer == TRUE
           shown == NoCards
           left == {}
           p1 == [p EXCEPT !.pc = pc]
           p2 == [p1 EXCEPT !.timer = timer]
           p3 == [p2 EXCEPT !.rows = shown]
           p4 == [p3 EXCEPT !.left = left]
<1>1. PassEnds(p) = p4
    BY Zenon DEF PassEnds
<1>2. pc \in {"idle", "listing", "refreshing"} /\ timer \in BOOLEAN /\ CardsOK(shown, rows) /\ left \subseteq DOMAIN shown
    BY NoCardsOK
<1>3. p = PassOf(p.pc, p.timer, p.rows, p.left)
    BY DEF PassOK
<1> HIDE DEF pc, timer, shown, left
<1>4. p4 = PassOf(pc, timer, shown, left)
    <2>1. p1 = PassOf(pc, p.timer, p.rows, p.left)
        BY <1>3 DEF PassOf
    <2> HIDE DEF p1
    <2>2. p2 = PassOf(pc, timer, p.rows, p.left)
        BY <2>1 DEF PassOf
    <2> HIDE DEF p2
    <2>3. p3 = PassOf(pc, timer, shown, p.left)
        BY <2>2 DEF PassOf
    <2> HIDE DEF p3
    <2> QED BY <2>3 DEF PassOf
<1> HIDE DEF p4
<1> QED BY <1>1, <1>2, <1>4, PassIs

LEMMA GenStart == GenInit => GenInv
<1> SUFFICES ASSUME GenInit PROVE GenInv
    OBVIOUS
<1> DEFINE n == NoCards
<1>1. genRows = [rows |-> n, clock |-> 0] /\ cards = n /\ asks = {} /\ DOMAIN n = {} /\ CardsOK(n, n)
    BY NoCardsOK DEF GenInit
<1>2. pass = PassOf("idle", TRUE, n, {})
    BY DEF GenInit, PassOf
<1> HIDE DEF n
<1>3. PassOK(pass, n)
    BY <1>1, <1>2, PassIs
<1>4. genRows.rows = n /\ genRows.clock = 0
    BY <1>1
<1> QED BY <1>1, <1>3, <1>4 DEF GenInv, RowsOK

LEMMA RowEndsKeeps ==
    ASSUME GenInv, NEW j, RowEnds(j)
    PROVE  GenInv'
<1>1. PICK status \in {"completed", "failed"} : RowWritten(j, status)
    BY DEF RowEnds
<1>2. status \in Alive \union {"deleted"}
    BY DEF Alive, GenEnds
<1>3. UNCHANGED <<cards, pass>> /\ \A a \in asks' : AskOK(a, genRows.rows)
    BY DEF RowEnds, GenInv
<1> QED BY <1>1, <1>2, <1>3, WrittenRest

LEMMA OutcomeIs == \A kind \in Requests : Outcome[kind] \in Alive \union {"deleted"} /\ Outcome[kind] \in Answers
BY DEF Requests, Outcome, Alive, GenEnds, Answers

LEMMA OtherKeeps ==
    ASSUME GenInv, NEW kind \in Requests, NEW j, OtherTab(kind, j)
    PROVE  GenInv'
<1>1. /\ RowWritten(j, Outcome[kind]) /\ UNCHANGED <<cards, pass>>
      /\ \A a \in asks' : AskOK(a, genRows.rows)
    BY DEF OtherTab, GenInv
<1> QED BY <1>1, OutcomeIs, WrittenRest

LEMMA CardClickKeeps ==
    ASSUME GenInv, NEW kind \in Requests, NEW j, ClickCard(kind, j)
    PROVE  GenInv'
<1> DEFINE b == Ask(kind, j, 0)
           no == {}
           none == "none"
<1>1. b = AskOf(kind, j, 0, no, none, 0) /\ no \subseteq DOMAIN genRows.rows /\ none \in Answers
    BY DEF Ask, AskOf, Answers
<1>2. asks' = asks \union {b} /\ genRows' = genRows /\ cards' = cards /\ pass' = pass
    BY DEF ClickCard
<1> HIDE DEF b, no, none
<1>3. b.kind = kind /\ b.job = j /\ b.n = 0 /\ b.jobs = no /\ b.answer = none /\ b.stamp = 0
    BY <1>1 DEF AskOf
<1>4. AskOK(b, genRows.rows)
    BY <1>1, <1>3 DEF AskOK
<1> QED BY <1>2, <1>4 DEF GenInv

LEMMA QueueKeeps ==
    ASSUME GenInv, QueueVideos
    PROVE  GenInv'
<1>1. PICK n \in genLeft.batches : asks' = asks \union {Ask("batch", n, n)}
    BY DEF QueueVideos
<1> DEFINE b == Ask("batch", n, n)
           no == {}
           none == "none"
           kind == "batch"
<1>2. b = AskOf(kind, n, n, no, none, 0) /\ no \subseteq DOMAIN genRows.rows /\ none \in Answers /\ kind = "batch"
    BY DEF Ask, AskOf, Answers
<1>3. asks' = asks \union {b} /\ genRows' = genRows /\ cards' = cards /\ pass' = pass
    BY <1>1 DEF QueueVideos
<1> HIDE DEF b, no, none, kind
<1>4. b.kind = kind /\ b.job = n /\ b.n = n /\ b.jobs = no /\ b.answer = none /\ b.stamp = 0
    BY <1>2 DEF AskOf
<1>5. AskOK(b, genRows.rows)
    BY <1>2, <1>4 DEF AskOK
<1> QED BY <1>3, <1>5 DEF GenInv

LEMMA PostKeeps ==
    ASSUME GenInv, NEW a \in asks, VideoPosted(a)
    PROVE  GenInv'
<1> DEFINE job == Cardinality(DOMAIN genRows.rows) + 1
           m == a.n - 1
           js == a.jobs \union {job}
           b == [a EXCEPT !.n = m]
           c == [b EXCEPT !.jobs = js]
           active == "active"
<1>1. AskOK(a, genRows.rows) /\ cards' = cards /\ pass' = pass /\ active \in Alive \union {"deleted"}
    BY DEF GenInv, VideoPosted, Alive
<1>2. a = AskOf(a.kind, a.job, a.n, a.jobs, a.answer, a.stamp)
    BY <1>1 DEF AskOK
<1>3. \/ RowWritten(job, active) /\ asks' = (asks \ {a}) \union {[a EXCEPT !.n = @ - 1, !.jobs = @ \union {job}]}
      \/ asks' = (asks \ {a}) \union {[a EXCEPT !.n = @ - 1]} /\ genRows' = genRows
    BY DEF VideoPosted
<1>4. \/ RowWritten(job, active) /\ asks' = (asks \ {a}) \union {c}
      \/ asks' = (asks \ {a}) \union {b} /\ genRows' = genRows
    BY <1>3, Zenon
<1> HIDE DEF job, m, active
<1>5. b = AskOf(a.kind, a.job, m, a.jobs, a.answer, a.stamp)
    BY <1>2 DEF AskOf
<1> HIDE DEF b, js
<1>6. c = AskOf(a.kind, a.job, m, js, a.answer, a.stamp)
    BY <1>5 DEF AskOf
<1> HIDE DEF c
<1>7. /\ b.kind = a.kind /\ b.job = a.job /\ b.n = m /\ b.jobs = a.jobs /\ b.answer = a.answer /\ b.stamp = a.stamp
      /\ c.kind = a.kind /\ c.job = a.job /\ c.n = m /\ c.jobs = js /\ c.answer = a.answer /\ c.stamp = a.stamp
    BY <1>5, <1>6 DEF AskOf
<1>8. CASE asks' = (asks \ {a}) \union {b} /\ genRows' = genRows
    <2>1. AskOK(b, genRows.rows)
        BY <1>1, <1>5, <1>7 DEF AskOK
    <2> QED BY <1>1, <1>8, <2>1 DEF GenInv
<1>9. CASE RowWritten(job, active) /\ asks' = (asks \ {a}) \union {c}
    <2>1. /\ genRows' = [rows |-> genRows'.rows, clock |-> genRows'.clock] /\ genRows'.clock \in Nat
          /\ RowsOK(genRows'.rows, genRows'.clock)
          /\ DOMAIN genRows'.rows = DOMAIN genRows.rows \union {job}
        BY <1>1, <1>9, WrittenKeeps
    <2>2. /\ CardsOK(cards, genRows'.rows) /\ PassOK(pass, genRows'.rows)
          /\ \A x \in asks : AskOK(x, genRows'.rows)
        BY <2>1, MoreRows DEF GenInv
    <2>3. AskOK(c, genRows'.rows)
        <3>1. js \subseteq DOMAIN genRows'.rows
            BY <1>1, <2>1 DEF AskOK, js
        <3> QED BY <1>1, <1>6, <1>7, <3>1 DEF AskOK
    <2> QED BY <1>1, <1>9, <2>1, <2>2, <2>3 DEF GenInv
<1> QED BY <1>4, <1>8, <1>9

LEMMA BatchKeeps ==
    ASSUME GenInv, NEW a \in asks, BatchShown(a)
    PROVE  GenInv'
<1> DEFINE rows == genRows.rows
           clock == genRows.clock
           shown == [j \in DOMAIN cards \union a.jobs |->
                       IF j \in a.jobs THEN GenCard("active", clock + 1) ELSE cards[j]]
           later == clock + 1
<1>1. /\ cards' = shown /\ genRows' = [genRows EXCEPT !.clock = @ + 1] /\ asks' = asks \ {a} /\ pass' = pass
      /\ genRows = [rows |-> rows, clock |-> clock] /\ clock \in Nat
      /\ RowsOK(rows, clock) /\ CardsOK(cards, rows) /\ PassOK(pass, rows) /\ \A x \in asks : AskOK(x, rows)
    BY DEF BatchShown, GenInv
<1>2. genRows' = [genRows EXCEPT !.clock = later]
    BY <1>1
<1>3. DOMAIN shown = a.jobs \union DOMAIN cards
    OBVIOUS
<1>4. \A j \in DOMAIN shown : shown[j].status \in Alive
    <2>1. \A j \in a.jobs : shown[j].status = "active"
        BY DEF GenCard
    <2>2. \A j \in DOMAIN cards : j \notin a.jobs => shown[j] = cards[j]
        OBVIOUS
    <2>3. "active" \in Alive
        BY DEF Alive
    <2> HIDE DEF shown
    <2> QED BY <1>1, <1>3, <2>1, <2>2, <2>3 DEF CardsOK
<1>5. CardsOK(shown, rows)
    BY <1>1, <1>3, <1>4 DEF CardsOK, AskOK
<1>8. later \in Nat /\ \A x : x \in 1 .. clock => x \in 1 .. later
    BY <1>1
<1> HIDE DEF rows, clock, shown, later
<1>6. genRows' = [rows |-> rows, clock |-> later]
    BY <1>1, <1>2
<1>7. genRows'.rows = rows /\ genRows'.clock = later
    BY <1>6
<1>9. RowsOK(rows, later)
    BY <1>1, <1>8 DEF RowsOK
<1> QED BY <1>1, <1>5, <1>6, <1>7, <1>8, <1>9 DEF GenInv

LEMMA ServedKeeps ==
    ASSUME GenInv, NEW a \in asks, RequestServed(a)
    PROVE  GenInv'
<1>1. AskOK(a, genRows.rows) /\ a.kind \in Requests /\ cards' = cards /\ pass' = pass
    BY DEF GenInv, RequestServed, AskOK
<1> DEFINE o == Outcome[a.kind]
           s == genRows.clock + 1
           b == [a EXCEPT !.answer = o]
           c == [b EXCEPT !.stamp = s]
<1>2. o \in Alive \union {"deleted"} /\ o \in Answers
    BY <1>1, OutcomeIs
<1>3. \/ RowWritten(a.job, o) /\ asks' = (asks \ {a}) \union {[a EXCEPT !.answer = o, !.stamp = s]}
      \/ asks' = asks \ {a} /\ genRows' = genRows
    BY DEF RequestServed
<1>4. \/ RowWritten(a.job, o) /\ asks' = (asks \ {a}) \union {c}
      \/ asks' = asks \ {a} /\ genRows' = genRows
    BY <1>3, Zenon
<1>5. a = AskOf(a.kind, a.job, a.n, a.jobs, a.answer, a.stamp)
    BY <1>1 DEF AskOK
<1> HIDE DEF o, s
<1>6. c = AskOf(a.kind, a.job, a.n, a.jobs, o, s)
    <2>1. b = AskOf(a.kind, a.job, a.n, a.jobs, o, a.stamp)
        BY <1>5 DEF AskOf
    <2> HIDE DEF b
    <2> QED BY <2>1 DEF AskOf
<1> HIDE DEF c
<1>7. c.kind = a.kind /\ c.job = a.job /\ c.n = a.n /\ c.jobs = a.jobs /\ c.answer = o /\ c.stamp = s
    BY <1>6 DEF AskOf
<1>8. AskOK(c, genRows.rows)
    BY <1>1, <1>2, <1>6, <1>7 DEF AskOK
<1>9. CASE asks' = asks \ {a} /\ genRows' = genRows
    BY <1>1, <1>9 DEF GenInv
<1>10. CASE RowWritten(a.job, o) /\ asks' = (asks \ {a}) \union {c}
    <2>1. \A x \in asks' : AskOK(x, genRows.rows)
        BY <1>8, <1>10 DEF GenInv
    <2> QED BY <1>1, <1>2, <1>10, <2>1, WrittenRest
<1> QED BY <1>4, <1>9, <1>10

LEMMA AnswerKeeps ==
    ASSUME GenInv, NEW a \in asks, AnswerShown(a)
    PROVE  GenInv'
<1>1. AskOK(a, genRows.rows) /\ a.answer # "none" /\ CardsOK(cards, genRows.rows)
    BY DEF GenInv, AnswerShown
<1>2. genRows' = genRows /\ pass' = pass /\ asks' = asks \ {a}
    BY DEF AnswerShown
<1>3. CASE a.answer = "deleted"
    <2>1. cards' = [j \in DOMAIN cards \ {a.job} |-> cards[j]]
        BY <1>3 DEF AnswerShown
    <2>2. CardsOK(cards', genRows.rows)
        BY <1>1, <2>1 DEF CardsOK
    <2> QED BY <1>2, <2>2 DEF GenInv
<1>4. CASE a.answer # "deleted"
    <2>1. cards' = [j \in DOMAIN cards |-> IF j = a.job THEN GenCard(a.answer, a.stamp) ELSE cards[j]]
        BY <1>4 DEF AnswerShown
    <2>2. a.answer \in Alive
        BY <1>1, <1>4 DEF AskOK, Answers, Alive, GenEnds
    <2>3. GenCard(a.answer, a.stamp).status = a.answer
        BY DEF GenCard
    <2>4. CardsOK(cards', genRows.rows)
        BY <1>1, <2>1, <2>2, <2>3 DEF CardsOK
    <2> QED BY <1>2, <2>4 DEF GenInv
<1> QED BY <1>3, <1>4

LEMMA PassKeeps ==
    ASSUME GenInv, PassStarts \/ ListAnswered \/ PassShown \/ \E j \in pass.left : RowRefreshed(j)
    PROVE  GenInv'
<1> DEFINE rows == genRows.rows
           p == pass
<1>1. /\ PassOK(p, rows) /\ CardsOK(cards, rows) /\ RowsOK(rows, genRows.clock)
      /\ p = PassOf(p.pc, p.timer, p.rows, p.left)
      /\ p.pc \in {"idle", "listing", "refreshing"} /\ p.timer \in BOOLEAN
      /\ CardsOK(p.rows, rows) /\ p.left \subseteq DOMAIN p.rows
    BY DEF GenInv, PassOK
<1>2. genRows' = genRows /\ asks' = asks
    BY DEF PassStarts, ListAnswered, PassShown, RowRefreshed
<1>3. PassOK(PassEnds(p), rows)
    BY <1>1, PassEnded
<1>4. \A j \in StoredJobs : j \in DOMAIN rows /\ rows[j].status \in Alive
    BY <1>1 DEF StoredJobs, RowsOK
<1>5. CASE PassStarts
    <2> DEFINE pc == "listing"
               timer == FALSE
               p1 == [p EXCEPT !.pc = pc]
               p2 == [p1 EXCEPT !.timer = timer]
    <2>1. pass' = p2 /\ cards' = cards
        BY <1>5, Zenon DEF PassStarts
    <2>2. pc \in {"idle", "listing", "refreshing"} /\ timer \in BOOLEAN
        OBVIOUS
    <2> HIDE DEF pc, timer, p, rows
    <2>3. p2 = PassOf(pc, timer, p.rows, p.left)
        <3>1. p1 = PassOf(pc, p.timer, p.rows, p.left)
            BY <1>1 DEF PassOf
        <3> HIDE DEF p1
        <3> QED BY <3>1 DEF PassOf
    <2> HIDE DEF p2
    <2>4. PassOK(p2, rows)
        BY <1>1, <2>2, <2>3, PassIs
    <2> QED BY <1>2, <2>1, <2>4 DEF GenInv, rows
<1>6. CASE ListAnswered
    <2>1. cards' = cards
        BY <1>6 DEF ListAnswered
    <2>2. CASE pass' = PassEnds(p)
        BY <1>2, <1>3, <2>1, <2>2 DEF GenInv
    <2>3. CASE pass' = [p EXCEPT !.pc = "refreshing", !.rows = ListedRows, !.left = NewestActive(ListedRows)]
        <3> DEFINE pc == "refreshing"
                   shown == ListedRows
                   left == NewestActive(ListedRows)
                   p1 == [p EXCEPT !.pc = pc]
                   p2 == [p1 EXCEPT !.rows = shown]
                   p3 == [p2 EXCEPT !.left = left]
        <3>1. pass' = p3
            BY <2>3, Zenon
        <3>2. CardsOK(shown, rows)
            BY <1>4 DEF CardsOK, ListedRows
        <3>3. left \subseteq DOMAIN shown /\ pc \in {"idle", "listing", "refreshing"}
            BY DEF NewestActive
        <3> HIDE DEF pc, shown, left, p, rows
        <3>4. p3 = PassOf(pc, p.timer, shown, left)
            <4>1. p1 = PassOf(pc, p.timer, p.rows, p.left)
                BY <1>1 DEF PassOf
            <4> HIDE DEF p1
            <4>2. p2 = PassOf(pc, p.timer, shown, p.left)
                BY <4>1 DEF PassOf
            <4> HIDE DEF p2
            <4> QED BY <4>2 DEF PassOf
        <3> HIDE DEF p3
        <3>5. PassOK(p3, rows)
            BY <1>1, <3>2, <3>3, <3>4, PassIs
        <3> QED BY <1>2, <2>1, <3>1, <3>5 DEF GenInv, rows
    <2> QED BY <1>6, <2>2, <2>3 DEF ListAnswered
<1>7. CASE PassShown
    <2>1. cards' = MergeGenerationJobs(cards, p.rows) /\ pass' = PassEnds(p)
        BY <1>7 DEF PassShown
    <2>2. CardsOK(cards', rows)
        BY <1>1, <2>1 DEF CardsOK, MergeGenerationJobs
    <2> QED BY <1>2, <1>3, <2>1, <2>2 DEF GenInv
<1>8. CASE \E j \in pass.left : RowRefreshed(j)
    <2>1. PICK j \in p.left : RowRefreshed(j)
        BY <1>8
    <2> DEFINE left == p.left \ {j}
               shown == [p.rows EXCEPT ![j] = rows[j]]
               p1 == [p EXCEPT !.rows = shown]
               p2 == [p1 EXCEPT !.left = left]
               q == [p EXCEPT !.left = left]
    <2>2. cards' = cards
        BY <2>1 DEF RowRefreshed
    <2>3. \/ j \in StoredJobs /\ pass' = [p EXCEPT !.rows[j] = rows[j], !.left = @ \ {j}]
          \/ pass' = [p EXCEPT !.left = @ \ {j}]
        BY <2>1 DEF RowRefreshed
    <2>4. (j \in StoredJobs /\ pass' = p2) \/ pass' = q
        BY <2>3, Zenon
    <2>5. left \subseteq DOMAIN p.rows
        BY <1>1
    <2>6. j \in StoredJobs => CardsOK(shown, rows) /\ left \subseteq DOMAIN shown
        BY <1>1, <1>4 DEF CardsOK
    <2> HIDE DEF p, rows, left, shown
    <2>7. q = PassOf(p.pc, p.timer, p.rows, left)
        BY <1>1 DEF PassOf
    <2>8. p2 = PassOf(p.pc, p.timer, shown, left)
        <3>1. p1 = PassOf(p.pc, p.timer, shown, p.left)
            BY <1>1 DEF PassOf
        <3> HIDE DEF p1
        <3> QED BY <3>1 DEF PassOf
    <2> HIDE DEF q, p2
    <2>9. PassOK(q, rows) /\ (j \in StoredJobs => PassOK(p2, rows))
        BY <1>1, <2>5, <2>6, <2>7, <2>8, PassIs
    <2> QED BY <1>2, <2>2, <2>4, <2>9 DEF GenInv, rows
<1> QED BY <1>5, <1>6, <1>7, <1>8

LEMMA GenStep == GenInv /\ [GenNext]_genVars => GenInv'
<1> SUFFICES ASSUME GenInv, [GenNext]_genVars PROVE GenInv'
    OBVIOUS
<1>1. CASE GenUser
    BY <1>1, QueueKeeps, CardClickKeeps, OtherKeeps DEF GenUser
<1>2. CASE GenHandlers
    BY <1>2, PostKeeps, BatchKeeps, ServedKeeps, AnswerKeeps DEF GenHandlers
<1>3. CASE GenPass
    BY <1>3, PassKeeps DEF GenPass
<1>4. CASE \E j \in GenJobs : RowEnds(j)
    BY <1>4, RowEndsKeeps
<1>5. CASE UNCHANGED genVars
    BY <1>5 DEF GenInv, genVars
<1> QED BY <1>1, <1>2, <1>3, <1>4, <1>5 DEF GenNext

LEMMA GenTyped == GenInv => GenTypeOK
BY DEF GenInv, GenTypeOK, RowsOK, CardsOK, PassOK, AskOK, GenJobs, Alive

(* The generation cards, for every set of visits and number of rows: every   *)
(* card and every row a pass has read is of a job of the service, none shows *)
(* a deleted one, and no row is from the future.                             *)
THEOREM GenTypes == GenSpec => []GenTypeOK
BY GenStart, GenStep, GenTyped, PTL DEF GenSpec

(* What a pass has read and what a request was answered is the row of then.  *)
Earlier(card, row) == card.stamp \in Nat /\ (card.stamp < row.stamp \/ card = row)

ShownOK(shown, rows, clock) ==
    \A j \in DOMAIN shown : shown[j].stamp \in Nat /\ shown[j].stamp <= clock /\ Follows(shown[j], rows[j])
ReadOK(read, rows) == \A j \in DOMAIN read : Earlier(read[j], rows[j])
AnswerOK(a, rows) ==
    a.answer # "none" => a.job \in DOMAIN rows /\ Earlier(GenCard(a.answer, a.stamp), rows[a.job])

FreshInv ==
    /\ ShownOK(cards, genRows.rows, genRows.clock)
    /\ ReadOK(pass.rows, genRows.rows)
    /\ \A a \in asks : AnswerOK(a, genRows.rows)

(* A row written now is later than everything there is.                      *)
LEMMA LaterRow ==
    ASSUME GenInv, NEW j, NEW status, RowWritten(j, status)
    PROVE  /\ \A k \in DOMAIN genRows.rows : k # j => genRows'.rows[k] = genRows.rows[k]
           /\ genRows'.rows[j] = GenCard(status, genRows.clock + 1)
           /\ genRows'.clock = genRows.clock + 1 /\ genRows.clock \in Nat
           /\ DOMAIN genRows'.rows = DOMAIN genRows.rows \union {j}
           /\ \A k \in DOMAIN genRows.rows : genRows.rows[k].stamp \in 1 .. genRows.clock
BY DEF GenInv, RowWritten, RowsOK

LEMMA CardStamped == \A status, stamp : GenCard(status, stamp).status = status /\ GenCard(status, stamp).stamp = stamp
BY DEF GenCard

LEMMA EarlierStays ==
    ASSUME GenInv, NEW j, NEW status, RowWritten(j, status), NEW k \in DOMAIN genRows.rows
    PROVE  /\ \A c : Earlier(c, genRows.rows[k]) => Earlier(c, genRows'.rows[k])
           /\ \A c : c.stamp \in Nat /\ c.stamp <= genRows.clock /\ Follows(c, genRows.rows[k])
                     => Follows(c, genRows'.rows[k])
<1> DEFINE row == genRows.rows[k]
           new == genRows'.rows[k]
           clock == genRows.clock
<1>1. CASE k # j
    BY <1>1, LaterRow
<1>2. CASE k = j
    <2>1. new.stamp = clock + 1 /\ row.stamp \in 1 .. clock /\ clock \in Nat
        BY <1>2, LaterRow, CardStamped
    <2> HIDE DEF row, new, clock
    <2>2. \A c : Earlier(c, row) => Earlier(c, new)
        <3> SUFFICES ASSUME NEW c, Earlier(c, row) PROVE Earlier(c, new)
            OBVIOUS
        <3>1. c.stamp \in Nat /\ c.stamp <= row.stamp
            BY <2>1 DEF Earlier
        <3> QED BY <2>1, <3>1 DEF Earlier
    <2>3. \A c : c.stamp \in Nat /\ c.stamp <= clock => Follows(c, new)
        BY <2>1 DEF Follows
    <2> QED BY <2>2, <2>3 DEF row, new, clock
<1> QED BY <1>1, <1>2

LEMMA FreshWritten ==
    ASSUME GenInv, FreshInv, NEW j, NEW status, RowWritten(j, status), UNCHANGED <<cards, pass>>,
           NEW more, \A a \in asks' : a \in asks \/ a = more, AnswerOK(more, genRows'.rows) \/ more \in asks
    PROVE  FreshInv'
<1>1. /\ genRows'.clock = genRows.clock + 1 /\ genRows.clock \in Nat
      /\ DOMAIN genRows'.rows = DOMAIN genRows.rows \union {j}
    BY LaterRow
<1>2. ShownOK(cards, genRows'.rows, genRows'.clock)
    <2> SUFFICES ASSUME NEW k \in DOMAIN cards
                 PROVE  cards[k].stamp \in Nat /\ cards[k].stamp <= genRows'.clock /\ Follows(cards[k], genRows'.rows[k])
        BY DEF ShownOK
    <2>1. k \in DOMAIN genRows.rows
        BY DEF GenInv, CardsOK
    <2>2. cards[k].stamp \in Nat /\ cards[k].stamp <= genRows.clock /\ Follows(cards[k], genRows.rows[k])
        BY DEF FreshInv, ShownOK
    <2>3. Follows(cards[k], genRows'.rows[k])
        BY <2>1, <2>2, EarlierStays
    <2> QED BY <1>1, <2>2, <2>3
<1>3. ReadOK(pass.rows, genRows'.rows)
    <2> SUFFICES ASSUME NEW k \in DOMAIN pass.rows PROVE Earlier(pass.rows[k], genRows'.rows[k])
        BY DEF ReadOK
    <2>1. k \in DOMAIN genRows.rows /\ Earlier(pass.rows[k], genRows.rows[k])
        BY DEF GenInv, PassOK, CardsOK, FreshInv, ReadOK
    <2> QED BY <2>1, EarlierStays
<1>4. \A a \in asks : AnswerOK(a, genRows'.rows)
    <2> SUFFICES ASSUME NEW a \in asks, a.answer # "none"
                 PROVE  a.job \in DOMAIN genRows'.rows /\ Earlier(GenCard(a.answer, a.stamp), genRows'.rows[a.job])
        BY DEF AnswerOK
    <2>1. a.job \in DOMAIN genRows.rows /\ Earlier(GenCard(a.answer, a.stamp), genRows.rows[a.job])
        BY DEF FreshInv, AnswerOK
    <2> QED BY <1>1, <2>1, EarlierStays
<1>5. \A a \in asks' : AnswerOK(a, genRows'.rows)
    BY <1>4
<1> QED BY <1>2, <1>3, <1>5 DEF FreshInv

LEMMA FreshRest ==
    ASSUME FreshInv, UNCHANGED genRows, ShownOK(cards', genRows.rows, genRows.clock), ReadOK(pass'.rows, genRows.rows),
           \A a \in asks' : a \in asks \/ a.answer = "none"
    PROVE  FreshInv'
BY DEF FreshInv, AnswerOK

LEMMA NoneRead == \A rows, p : ReadOK(PassEnds(p).rows, rows) \/ p # PassOf(p.pc, p.timer, p.rows, p.left)
<1> SUFFICES ASSUME NEW rows, NEW p, p = PassOf(p.pc, p.timer, p.rows, p.left) PROVE ReadOK(PassEnds(p).rows, rows)
    OBVIOUS
<1> DEFINE n == NoCards
<1>1. DOMAIN n = {}
    BY NoCardsOK
<1> HIDE DEF n
<1>2. PassEnds(p).rows = n
    BY DEF PassEnds, PassOf, n
<1> QED BY <1>1, <1>2 DEF ReadOK

LEMMA FreshStart == GenInit => FreshInv
<1> SUFFICES ASSUME GenInit PROVE FreshInv
    OBVIOUS
<1> DEFINE n == NoCards
<1>1. cards = n /\ asks = {} /\ pass.rows = n /\ DOMAIN n = {}
    BY NoCardsOK DEF GenInit
<1> HIDE DEF n
<1> QED BY <1>1 DEF FreshInv, ShownOK, ReadOK

LEMMA FreshAsked ==
    ASSUME GenInv, FreshInv,
           \/ QueueVideos \/ \E kind \in Requests, j \in GenJobs : ClickCard(kind, j)
    PROVE  FreshInv'
<1>1. genRows' = genRows /\ cards' = cards /\ pass' = pass
    BY DEF QueueVideos, ClickCard
<1>2. \A kind, j, n : Ask(kind, j, n).answer = "none"
    BY DEF Ask
<1>3. \A a \in asks' : a \in asks \/ a.answer = "none"
    <2>1. CASE QueueVideos
        <3>1. PICK n \in genLeft.batches : asks' = asks \union {Ask("batch", n, n)}
            BY <2>1 DEF QueueVideos
        <3> QED BY <1>2, <3>1
    <2>2. CASE \E kind \in Requests, j \in GenJobs : ClickCard(kind, j)
        <3>1. PICK kind \in Requests, j \in GenJobs : ClickCard(kind, j)
            BY <2>2
        <3>2. asks' = asks \union {Ask(kind, j, 0)}
            BY <3>1 DEF ClickCard
        <3> QED BY <1>2, <3>2
    <2> QED BY <2>1, <2>2
<1> QED BY <1>1, <1>3, FreshRest DEF FreshInv

LEMMA FreshPosted ==
    ASSUME GenInv, FreshInv, NEW a \in asks, VideoPosted(a)
    PROVE  FreshInv'
<1> DEFINE job == Cardinality(DOMAIN genRows.rows) + 1
           m == a.n - 1
           js == a.jobs \union {job}
           active == "active"
           b == [a EXCEPT !.n = m]
           c == [b EXCEPT !.jobs = js]
<1>1. /\ cards' = cards /\ pass' = pass
      /\ \/ RowWritten(job, active) /\ asks' = (asks \ {a}) \union {c}
         \/ asks' = (asks \ {a}) \union {b} /\ genRows' = genRows
    BY Zenon DEF VideoPosted
<1>2. a = AskOf(a.kind, a.job, a.n, a.jobs, a.answer, a.stamp) /\ AnswerOK(a, genRows.rows)
    BY DEF GenInv, AskOK, FreshInv
<1> HIDE DEF m, js, job, active
<1>3. b.answer = a.answer /\ b.job = a.job /\ b.stamp = a.stamp /\ b = AskOf(a.kind, a.job, m, a.jobs, a.answer, a.stamp)
    BY <1>2 DEF AskOf
<1> HIDE DEF b
<1>4. c.answer = a.answer /\ c.job = a.job /\ c.stamp = a.stamp
    BY <1>3 DEF AskOf
<1> HIDE DEF c
<1>5. CASE RowWritten(job, active) /\ asks' = (asks \ {a}) \union {c}
    <2>1. AnswerOK(c, genRows'.rows)
        <3> SUFFICES ASSUME c.answer # "none"
                     PROVE  c.job \in DOMAIN genRows'.rows /\ Earlier(GenCard(c.answer, c.stamp), genRows'.rows[c.job])
            BY DEF AnswerOK
        <3>1. c.job \in DOMAIN genRows.rows /\ Earlier(GenCard(c.answer, c.stamp), genRows.rows[c.job])
            BY <1>2, <1>4 DEF AnswerOK
        <3> QED BY <1>5, <3>1, EarlierStays, LaterRow
    <2>2. \A x \in asks' : x \in asks \/ x = c
        BY <1>5
    <2> QED BY <1>1, <1>5, <2>1, <2>2, FreshWritten
<1>6. CASE asks' = (asks \ {a}) \union {b} /\ genRows' = genRows
    <2>1. AnswerOK(b, genRows.rows)
        BY <1>2, <1>3 DEF AnswerOK
    <2> QED BY <1>1, <1>6, <2>1 DEF FreshInv
<1> QED BY <1>1, <1>5, <1>6

(* The card of a batch is later than its job's row, and says active.         *)
LEMMA FreshBatch ==
    ASSUME GenInv, FreshInv, NEW a \in asks, BatchShown(a)
    PROVE  FreshInv'
<1> DEFINE rows == genRows.rows
           clock == genRows.clock
           later == clock + 1
           shown == [j \in DOMAIN cards \union a.jobs |->
                       IF j \in a.jobs THEN GenCard("active", clock + 1) ELSE cards[j]]
<1>1. /\ cards' = shown /\ genRows' = [genRows EXCEPT !.clock = later] /\ asks' = asks \ {a} /\ pass' = pass
      /\ genRows = [rows |-> rows, clock |-> clock] /\ clock \in Nat
      /\ RowsOK(rows, clock) /\ a.jobs \subseteq DOMAIN rows
    BY DEF BatchShown, GenInv, AskOK
<1>2. ASSUME NEW j \in DOMAIN shown
      PROVE  shown[j].stamp \in Nat /\ shown[j].stamp <= later /\ Follows(shown[j], rows[j])
    <2>1. CASE j \in a.jobs
        <3>1. shown[j].stamp = later /\ shown[j].status = "active"
            BY <2>1, CardStamped
        <3>2. rows[j].stamp \in 1 .. clock
            BY <1>1, <2>1 DEF RowsOK
        <3> HIDE DEF shown, rows, clock
        <3> QED BY <1>1, <3>1, <3>2 DEF Follows, IsActive
    <2>2. CASE j \notin a.jobs
        <3>1. j \in DOMAIN cards /\ shown[j] = cards[j]
            BY <2>2
        <3>2. cards[j].stamp \in Nat /\ cards[j].stamp <= clock /\ Follows(cards[j], rows[j])
            BY <3>1 DEF FreshInv, ShownOK
        <3> HIDE DEF shown, rows, clock
        <3> QED BY <1>1, <3>1, <3>2
    <2> QED BY <2>1, <2>2
<1> HIDE DEF shown, later
<1>3. genRows'.rows = rows /\ genRows'.clock = later
    <2> HIDE DEF rows, clock
    <2> QED BY <1>1
<1>4. ShownOK(cards', rows, later)
    BY <1>1, <1>2 DEF ShownOK
<1> QED BY <1>1, <1>3, <1>4 DEF FreshInv

LEMMA FreshServed ==
    ASSUME GenInv, FreshInv, NEW a \in asks, RequestServed(a)
    PROVE  FreshInv'
<1>1. a = AskOf(a.kind, a.job, a.n, a.jobs, a.answer, a.stamp) /\ cards' = cards /\ pass' = pass
    BY DEF GenInv, RequestServed, AskOK
<1> DEFINE o == Outcome[a.kind]
           s == genRows.clock + 1
           b == [a EXCEPT !.answer = o]
           c == [b EXCEPT !.stamp = s]
<1>2. \/ RowWritten(a.job, o) /\ asks' = (asks \ {a}) \union {[a EXCEPT !.answer = o, !.stamp = s]}
      \/ asks' = asks \ {a} /\ genRows' = genRows
    BY DEF RequestServed
<1>3. \/ RowWritten(a.job, o) /\ asks' = (asks \ {a}) \union {c}
      \/ asks' = asks \ {a} /\ genRows' = genRows
    BY <1>2, Zenon
<1>4. s \in Nat
    BY DEF GenInv
<1> HIDE DEF o
<1>5. CASE RowWritten(a.job, o) /\ asks' = (asks \ {a}) \union {c}
    <2>1. a.job \in DOMAIN genRows'.rows /\ genRows'.rows[a.job] = GenCard(o, s)
        BY <1>5, LaterRow
    <2> HIDE DEF s
    <2>2. b = AskOf(a.kind, a.job, a.n, a.jobs, o, a.stamp)
        BY <1>1 DEF AskOf
    <2> HIDE DEF b
    <2>3. c.job = a.job /\ c.answer = o /\ c.stamp = s
        BY <2>2 DEF AskOf
    <2> HIDE DEF c
    <2>4. AnswerOK(c, genRows'.rows)
        BY <1>4, <2>1, <2>3, CardStamped DEF AnswerOK, Earlier
    <2>5. \A x \in asks' : x \in asks \/ x = c
        BY <1>5
    <2> QED BY <1>1, <1>5, <2>4, <2>5, FreshWritten
<1>6. CASE asks' = asks \ {a} /\ genRows' = genRows
    BY <1>1, <1>6 DEF FreshInv
<1> QED BY <1>3, <1>5, <1>6

(* What is read of a row or answered of it can be shown.                     *)
LEMMA EarlierShown ==
    ASSUME NEW card, NEW row, NEW clock \in Nat, Earlier(card, row), row.stamp \in 1 .. clock
    PROVE  card.stamp \in Nat /\ card.stamp <= clock /\ Follows(card, row)
BY DEF Earlier, Follows

LEMMA FreshAnswered ==
    ASSUME GenInv, FreshInv, NEW a \in asks, AnswerShown(a)
    PROVE  FreshInv'
<1>1. genRows' = genRows /\ pass' = pass /\ asks' = asks \ {a} /\ a.answer # "none"
    BY DEF AnswerShown
<1>2. ShownOK(cards, genRows.rows, genRows.clock) /\ ReadOK(pass.rows, genRows.rows)
    BY DEF FreshInv
<1>3. CASE a.answer = "deleted"
    <2>1. cards' = [j \in DOMAIN cards \ {a.job} |-> cards[j]]
        BY <1>3 DEF AnswerShown
    <2>2. ShownOK(cards', genRows.rows, genRows.clock)
        BY <1>2, <2>1 DEF ShownOK
    <2> QED BY <1>1, <1>2, <2>2, FreshRest
<1>4. CASE a.answer # "deleted"
    <2> DEFINE card == GenCard(a.answer, a.stamp)
    <2>1. cards' = [j \in DOMAIN cards |-> IF j = a.job THEN card ELSE cards[j]]
        BY <1>4 DEF AnswerShown
    <2>2. a.job \in DOMAIN genRows.rows /\ Earlier(card, genRows.rows[a.job])
        BY <1>1 DEF FreshInv, AnswerOK
    <2>3. genRows.clock \in Nat /\ genRows.rows[a.job].stamp \in 1 .. genRows.clock
        BY <2>2 DEF GenInv, RowsOK
    <2> HIDE DEF card
    <2>4. card.stamp \in Nat /\ card.stamp <= genRows.clock /\ Follows(card, genRows.rows[a.job])
        BY <2>2, <2>3, EarlierShown
    <2>5. ShownOK(cards', genRows.rows, genRows.clock)
        BY <1>2, <2>1, <2>4 DEF ShownOK
    <2> QED BY <1>1, <1>2, <2>5, FreshRest
<1> QED BY <1>3, <1>4

LEMMA FreshPass ==
    ASSUME GenInv, FreshInv, PassStarts \/ ListAnswered \/ PassShown \/ \E j \in pass.left : RowRefreshed(j)
    PROVE  FreshInv'
<1> DEFINE rows == genRows.rows
           clock == genRows.clock
           p == pass
<1>1. genRows' = genRows /\ asks' = asks
    BY DEF PassStarts, ListAnswered, PassShown, RowRefreshed
<1>2. ShownOK(cards, rows, clock) /\ ReadOK(p.rows, rows)
    BY DEF FreshInv
<1>3. /\ p = PassOf(p.pc, p.timer, p.rows, p.left) /\ DOMAIN p.rows \subseteq DOMAIN rows
      /\ clock \in Nat /\ \A j \in DOMAIN rows : rows[j].stamp \in 1 .. clock
    BY DEF GenInv, PassOK, RowsOK, CardsOK
<1>4. ReadOK(PassEnds(p).rows, rows)
    BY <1>3, NoneRead
<1>5. \A j \in DOMAIN rows : Earlier(rows[j], rows[j])
    BY <1>3 DEF Earlier
<1>6. CASE PassStarts
    <2>1. pass' = [p EXCEPT !.pc = "listing", !.timer = FALSE] /\ cards' = cards
        BY <1>6 DEF PassStarts
    <2>2. pass'.rows = p.rows
        BY <1>3, <2>1 DEF PassOf
    <2> QED BY <1>1, <1>2, <2>1, <2>2, FreshRest
<1>7. CASE ListAnswered
    <2>1. cards' = cards
        BY <1>7 DEF ListAnswered
    <2>2. CASE pass' = PassEnds(p)
        BY <1>1, <1>2, <1>4, <2>1, <2>2, FreshRest
    <2>3. CASE pass' = [p EXCEPT !.pc = "refreshing", !.rows = ListedRows, !.left = NewestActive(ListedRows)]
        <3>1. pass'.rows = ListedRows
            <4> DEFINE read == ListedRows
                       left == NewestActive(ListedRows)
                       p1 == [p EXCEPT !.pc = "refreshing"]
                       p2 == [p1 EXCEPT !.rows = read]
                       p3 == [p2 EXCEPT !.left = left]
            <4>1. pass' = p3
                BY <2>3, Zenon
            <4> HIDE DEF read, left
            <4>2. p1 = PassOf("refreshing", p.timer, p.rows, p.left)
                BY <1>3 DEF PassOf
            <4> HIDE DEF p1
            <4>3. p2 = PassOf("refreshing", p.timer, read, p.left)
                BY <4>2 DEF PassOf
            <4> HIDE DEF p2
            <4>4. p3.rows = read
                BY <4>3 DEF PassOf
            <4> HIDE DEF p3
            <4> QED BY <4>1, <4>4 DEF read
        <3>2. ReadOK(ListedRows, rows)
            BY <1>5 DEF ReadOK, ListedRows, StoredJobs
        <3> QED BY <1>1, <1>2, <2>1, <3>1, <3>2, FreshRest
    <2> QED BY <1>7, <2>2, <2>3 DEF ListAnswered
<1>8. CASE PassShown
    <2>1. cards' = MergeGenerationJobs(cards, p.rows) /\ pass' = PassEnds(p)
        BY <1>8 DEF PassShown
    <2>2. ASSUME NEW j \in DOMAIN cards'
          PROVE  cards'[j].stamp \in Nat /\ cards'[j].stamp <= clock /\ Follows(cards'[j], rows[j])
        <3>1. j \in DOMAIN p.rows /\ (cards'[j] = p.rows[j] \/ (j \in DOMAIN cards /\ cards'[j] = cards[j]))
            BY <2>1, <2>2 DEF MergeGenerationJobs
        <3>2. p.rows[j].stamp \in Nat /\ p.rows[j].stamp <= clock /\ Follows(p.rows[j], rows[j])
            <4>1. Earlier(p.rows[j], rows[j]) /\ rows[j].stamp \in 1 .. clock /\ clock \in Nat
                BY <1>2, <1>3, <3>1 DEF ReadOK
            <4> HIDE DEF rows, clock, p
            <4> QED BY <4>1, EarlierShown
        <3> QED BY <1>2, <3>1, <3>2 DEF ShownOK
    <2>3. ShownOK(cards', rows, clock)
        BY <2>2 DEF ShownOK
    <2> QED BY <1>1, <1>4, <2>1, <2>3, FreshRest
<1>9. CASE \E j \in pass.left : RowRefreshed(j)
    <2>1. PICK j \in p.left : RowRefreshed(j)
        BY <1>9
    <2> DEFINE left == p.left \ {j}
               read == [p.rows EXCEPT ![j] = rows[j]]
               p1 == [p EXCEPT !.rows = read]
               p2 == [p1 EXCEPT !.left = left]
               q == [p EXCEPT !.left = left]
    <2>2. cards' = cards
        BY <2>1 DEF RowRefreshed
    <2>3. \/ j \in StoredJobs /\ pass' = [p EXCEPT !.rows[j] = rows[j], !.left = @ \ {j}]
          \/ pass' = [p EXCEPT !.left = @ \ {j}]
        BY <2>1 DEF RowRefreshed
    <2>4. (j \in StoredJobs /\ pass' = p2) \/ pass' = q
        BY <2>3, Zenon
    <2>5. j \in StoredJobs => ReadOK(read, rows)
        BY <1>2, <1>5 DEF ReadOK, StoredJobs
    <2> HIDE DEF p, rows, left, read
    <2>6. q.rows = p.rows
        BY <1>3 DEF PassOf
    <2>7. p1 = PassOf(p.pc, p.timer, read, p.left)
        BY <1>3 DEF PassOf
    <2> HIDE DEF p1
    <2>8. p2.rows = read
        BY <2>7 DEF PassOf
    <2> HIDE DEF q, p2
    <2>9. ReadOK(pass'.rows, rows)
        BY <1>2, <2>4, <2>5, <2>6, <2>8
    <2> QED BY <1>1, <1>2, <2>2, <2>9, FreshRest DEF rows
<1> QED BY <1>6, <1>7, <1>8, <1>9

LEMMA FreshStep == GenInv /\ FreshInv /\ [GenNext]_genVars => FreshInv'
<1> SUFFICES ASSUME GenInv, FreshInv, [GenNext]_genVars PROVE FreshInv'
    OBVIOUS
<1>1. ASSUME NEW j, NEW status, RowWritten(j, status), UNCHANGED <<cards, pass, asks>> PROVE FreshInv'
    <2>1. CASE asks = {}
        <3>1. AnswerOK([answer |-> "none"], genRows'.rows)
            BY DEF AnswerOK
        <3> QED BY <1>1, <2>1, <3>1, FreshWritten
    <2>2. CASE asks # {}
        <3>1. PICK a \in asks : TRUE
            BY <2>2
        <3> QED BY <1>1, <3>1, FreshWritten
    <2> QED BY <2>1, <2>2
<1>2. CASE GenUser
    <2>1. CASE QueueVideos \/ \E kind \in Requests, j \in GenJobs : ClickCard(kind, j)
        BY <2>1, FreshAsked
    <2>2. CASE \E kind \in Requests, j \in GenJobs : OtherTab(kind, j)
        BY <1>1, <2>2 DEF OtherTab
    <2> QED BY <1>2, <2>1, <2>2 DEF GenUser
<1>3. CASE GenHandlers
    BY <1>3, FreshPosted, FreshBatch, FreshServed, FreshAnswered DEF GenHandlers
<1>4. CASE GenPass
    BY <1>4, FreshPass DEF GenPass
<1>5. CASE \E j \in GenJobs : RowEnds(j)
    BY <1>1, <1>5 DEF RowEnds
<1>6. CASE UNCHANGED genVars
    BY <1>6 DEF FreshInv, genVars
<1> QED BY <1>2, <1>3, <1>4, <1>5, <1>6 DEF GenNext

(* Whatever order lists, refreshed rows and answers come in, a card is an    *)
(* earlier one than its row, or the very row; only a card that says active,  *)
(* which a batch put up, can be later (mergeGenerationJobs).                 *)
THEOREM CardsFollow == GenSpec => []CardsFollowRows
<1>1. GenInit => GenInv /\ FreshInv
    BY GenStart, FreshStart
<1>2. (GenInv /\ FreshInv) /\ [GenNext]_genVars => (GenInv /\ FreshInv)'
    BY GenStep, FreshStep
<1>3. FreshInv => CardsFollowRows
    BY DEF FreshInv, ShownOK, CardsFollowRows
<1> QED BY <1>1, <1>2, <1>3, PTL DEF GenSpec
================================================================================
