---------------------------- MODULE EditingProofs -----------------------------
(***************************************************************************)
(* Theorems about HomePage, for every set of visits, files and sounds, any *)
(* number of gestures, cards and looks; and about CaptionEditor, for every *)
(* set of visits, drag targets and transcripts of any length.              *)
(***************************************************************************)
EXTENDS HomePage, CaptionEditor, FiniteSetTheorems, WellFoundedInduction, TLAPS

(* -------------------------------------------------------------- home page -- *)

(* Induction over the naturals, from the well-foundedness of <.              *)
LEMMA LeastNat ==
    ASSUME NEW T, T \subseteq Nat, T # {}
    PROVE  \E m \in T : \A k \in T : m <= k
<1> DEFINE R == OpToRel(<, Nat)
<1>1. IsWellFoundedOn(R, Nat)
    BY NatLessThanWellFounded
<1>2. \A x, y \in Nat : <<y, x>> \in R <=> y < x
    BY DEF OpToRel
<1> HIDE DEF R
<1>3. PICK m \in T : \A y \in T : ~(<<y, m>> \in R)
    BY <1>1, WFMin
<1>4. \A k \in T : ~(k < m)
    BY <1>2, <1>3
<1>5. \A k \in T : m <= k
    BY <1>4
<1> QED BY <1>5

LEMMA Counted ==
    ASSUME NEW n \in Nat, NEW T, 0 \in T, \A k \in 0 .. n - 1 : k \in T => k + 1 \in T
    PROVE  \A k \in 0 .. n : k \in T
<1> DEFINE B == {k \in 0 .. n : k \notin T}
<1>1. SUFFICES ASSUME B # {} PROVE FALSE
    OBVIOUS
<1>2. PICK m \in B : \A k \in B : m <= k
    <2>1. B \subseteq Nat
        OBVIOUS
    <2> HIDE DEF B
    <2> QED BY <1>1, <2>1, LeastNat
<1>3. m # 0 /\ m \in 0 .. n /\ m \notin T
    BY <1>2
<1>4. m - 1 \in 0 .. n - 1 /\ m - 1 \notin B
    BY <1>2, <1>3
<1>5. m - 1 \in T
    BY <1>3, <1>4
<1> QED BY <1>3, <1>4, <1>5

(* Without, step by step.                                                    *)
LEMMA WithoutSteps ==
    ASSUME NEW s, Len(s) \in Nat, NEW X
    PROVE  \E f : /\ f[0] = <<>>
                  /\ \A k \in 1 .. Len(s) : f[k] = IF s[k] \in X THEN f[k - 1] ELSE Append(f[k - 1], s[k])
                  /\ Without(s, X) = f[Len(s)]
<1> DEFINE n == Len(s)
           More(kept, k) == IF s[k] \in X THEN kept ELSE Append(kept, s[k])
           Keeps(f, m) == f = [k \in 0 .. m |-> IF k = 0 THEN <<>> ELSE More(f[k - 1], k)]
<1>1. n \in Nat
    OBVIOUS
<1> HIDE DEF n
<1>2. \E f : Keeps(f, n)
    <2> DEFINE T == {m \in 0 .. n : \E f : Keeps(f, m)}
    <2>1. 0 \in T
        <3> DEFINE g == [k \in 0 .. 0 |-> <<>>]
        <3>1. \A k \in 0 .. 0 : k = 0
            OBVIOUS
        <3>2. g = [k \in 0 .. 0 |-> IF k = 0 THEN <<>> ELSE More(g[k - 1], k)]
            BY <3>1, Zenon
        <3>3. Keeps(g, 0)
            BY <3>2
        <3> HIDE DEF g, Keeps
        <3> QED BY <1>1, <3>3
    <2>2. ASSUME NEW m \in 0 .. n - 1, m \in T
          PROVE  m + 1 \in T
        <3>1. PICK f : Keeps(f, m)
            BY <2>2
        <3> DEFINE g == [k \in 0 .. m + 1 |-> IF k = m + 1 THEN More(f[m], m + 1) ELSE f[k]]
        <3>2. \A k \in 0 .. m : f[k] = IF k = 0 THEN <<>> ELSE More(f[k - 1], k)
            BY <3>1
        <3> HIDE DEF More
        <3>6. m \in Nat /\ m # m + 1 /\ (m + 1) - 1 = m /\ m + 1 # 0
            BY <1>1
        <3>7. \A k \in 0 .. m : g[k] = f[k]
            BY <3>6
        <3>8. g[m + 1] = More(g[(m + 1) - 1], m + 1)
            BY <3>6, <3>7
        <3> HIDE DEF g
        <3>9. ASSUME NEW k \in 0 .. m + 1 PROVE g[k] = IF k = 0 THEN <<>> ELSE More(g[k - 1], k)
            <4>1. CASE k = m + 1
                BY <3>6, <3>8, <4>1
            <4>2. CASE k # m + 1
                <5>1. k \in 0 .. m /\ (k # 0 => k - 1 \in 0 .. m)
                    BY <3>6, <4>2
                <5> QED BY <3>2, <3>7, <5>1
            <4> QED BY <4>1, <4>2
        <3>3. g = [k \in 0 .. m + 1 |-> IF k = 0 THEN <<>> ELSE More(g[k - 1], k)]
            BY <3>9 DEF g
        <3>4. Keeps(g, m + 1)
            BY <3>3
        <3> HIDE DEF g, Keeps
        <3>5. m + 1 \in 0 .. n
            BY <1>1, <2>2
        <3> QED BY <3>4, <3>5
    <2> HIDE DEF T
    <2>4. \A m \in 0 .. n - 1 : m \in T => m + 1 \in T
        BY <2>2
    <2>3. n \in T
        <3>1. n \in 0 .. n
            BY <1>1
        <3> QED BY <1>1, <2>1, <2>4, <3>1, Counted
    <2> QED BY <2>3 DEF T
<1> DEFINE f == CHOOSE f : Keeps(f, n)
<1>3. Keeps(f, n) /\ Without(s, X) = f[n]
    BY <1>2 DEF Without, n
<1> HIDE DEF f, More
<1>4. \A k \in 0 .. n : f[k] = IF k = 0 THEN <<>> ELSE More(f[k - 1], k)
    BY <1>3
<1>5. f[0] = <<>> /\ \A k \in 1 .. n : f[k] = More(f[k - 1], k)
    BY <1>1, <1>4
<1> QED BY <1>3, <1>5 DEF n, More

LEMMA WithoutIs ==
    ASSUME NEW S, NEW s \in Seq(S), NEW X
    PROVE  /\ Without(s, X) \in Seq(S)
           /\ ToSet(Without(s, X)) = ToSet(s) \ X
           /\ IsInjective(s) => IsInjective(Without(s, X))
<1> DEFINE n == Len(s)
           More(kept, k) == IF s[k] \in X THEN kept ELSE Append(kept, s[k])
<1>1. n \in Nat /\ DOMAIN s = 1 .. n /\ \A k \in 1 .. n : s[k] \in S
    OBVIOUS
<1>2. PICK f : /\ f[0] = <<>>
               /\ \A k \in 1 .. n : f[k] = IF s[k] \in X THEN f[k - 1] ELSE Append(f[k - 1], s[k])
               /\ Without(s, X) = f[n]
    BY <1>1, WithoutSteps
<1>3. Without(s, X) = f[n]
    BY <1>2
<1>5. f[0] = <<>> /\ \A k \in 1 .. n : f[k] = More(f[k - 1], k)
    BY <1>2
<1> HIDE DEF n, More
<1> DEFINE Right(m) == /\ f[m] \in Seq(S)
                       /\ ToSet(f[m]) = {s[k] : k \in 1 .. m} \ X
                       /\ IsInjective(s) => IsInjective(f[m])
           Done == {m \in 0 .. n : Right(m)}
<1>6. 0 \in Done
    <2>1. /\ f[0] \in Seq(S) /\ ToSet(f[0]) = {} /\ IsInjective(f[0])
        BY <1>5 DEF ToSet, IsInjective
    <2>2. {s[k] : k \in 1 .. 0} = {}
        OBVIOUS
    <2>3. 0 \in 0 .. n
        BY <1>1
    <2> QED BY <2>1, <2>2, <2>3
<1>7. ASSUME NEW m \in 0 .. n - 1, m \in Done
      PROVE  m + 1 \in Done
    <2>1. m + 1 \in 1 .. n /\ f[m + 1] = More(f[m], m + 1) /\ s[m + 1] \in S /\ Right(m)
        BY <1>1, <1>5, <1>7
    <2>2. {s[k] : k \in 1 .. m + 1} = {s[k] : k \in 1 .. m} \cup {s[m + 1]}
        BY <1>1
    <2>3. CASE s[m + 1] \in X
        <3>1. f[m + 1] = f[m]
            BY <2>1, <2>3 DEF More
        <3>2. {s[k] : k \in 1 .. m + 1} \ X = {s[k] : k \in 1 .. m} \ X
            BY <2>2, <2>3
        <3> QED BY <1>1, <2>1, <3>1, <3>2
    <2>4. CASE s[m + 1] \notin X
        <3> DEFINE t == f[m]
                   a == s[m + 1]
        <3>1. /\ t \in Seq(S) /\ a \in S /\ f[m + 1] = Append(t, a)
              /\ ToSet(t) = {s[k] : k \in 1 .. m} \ X
              /\ IsInjective(s) => IsInjective(t) /\ a \notin ToSet(t)
            <4>1. IsInjective(s) => a \notin {s[k] : k \in 1 .. m}
                BY <1>1, <2>1 DEF IsInjective
            <4> QED BY <2>1, <2>4, <4>1 DEF More
        <3> HIDE DEF t
        <3>2. /\ Append(t, a) \in Seq(S) /\ Len(t) \in Nat /\ DOMAIN t = 1 .. Len(t)
              /\ DOMAIN Append(t, a) = 1 .. Len(t) + 1
              /\ \A k \in 1 .. Len(t) : Append(t, a)[k] = t[k]
              /\ Append(t, a)[Len(t) + 1] = a
            BY <3>1
        <3> HIDE DEF a
        <3>3. ToSet(Append(t, a)) = ToSet(t) \cup {a}
            BY <3>2 DEF ToSet
        <3>4. IsInjective(s) => IsInjective(Append(t, a))
            BY <3>1, <3>2 DEF ToSet, IsInjective
        <3>5. ToSet(f[m + 1]) = {s[k] : k \in 1 .. m + 1} \ X
            BY <2>2, <2>4, <3>1, <3>3 DEF a
        <3>6. f[m + 1] \in Seq(S) /\ (IsInjective(s) => IsInjective(f[m + 1]))
            BY <3>1, <3>2, <3>4
        <3>7. m + 1 \in 0 .. n
            BY <1>1, <1>7
        <3> QED BY <3>5, <3>6, <3>7
    <2> QED BY <2>3, <2>4
<1> HIDE DEF Done
<1>8. n \in Done
    BY <1>1, <1>6, <1>7, Counted
<1>9. Right(n)
    BY <1>8 DEF Done
<1> QED BY <1>1, <1>3, <1>9 DEF ToSet

LEMMA JoinedIs ==
    ASSUME NEW S, NEW s \in Seq(S), NEW t \in Seq(S)
    PROVE  /\ s \o t \in Seq(S)
           /\ ToSet(s \o t) = ToSet(s) \cup ToSet(t)
           /\ IsInjective(s) /\ IsInjective(t) /\ ToSet(s) \cap ToSet(t) = {} => IsInjective(s \o t)
<1> DEFINE n == Len(s)
           m == Len(t)
<1>1. /\ n \in Nat /\ m \in Nat /\ DOMAIN s = 1 .. n /\ DOMAIN t = 1 .. m
      /\ s \o t \in Seq(S) /\ DOMAIN (s \o t) = 1 .. n + m
      /\ \A k \in 1 .. n : (s \o t)[k] = s[k]
      /\ \A k \in 1 .. n + m : k > n => k - n \in 1 .. m /\ (s \o t)[k] = t[k - n]
      /\ \A k \in 1 .. m : k + n \in 1 .. n + m /\ (s \o t)[k + n] = t[k]
    OBVIOUS
<1> HIDE DEF n, m
<1>2. ToSet(s \o t) \subseteq ToSet(s) \cup ToSet(t)
    <2>1. ASSUME NEW k \in 1 .. n + m
          PROVE  (s \o t)[k] \in ToSet(s) \cup ToSet(t)
        <3>1. CASE k <= n
            BY <1>1, <3>1 DEF ToSet
        <3>2. CASE k > n
            BY <1>1, <3>2 DEF ToSet
        <3> QED BY <1>1, <3>1, <3>2
    <2> QED BY <1>1, <2>1 DEF ToSet
<1>3. ToSet(s) \cup ToSet(t) \subseteq ToSet(s \o t)
    <2>1. ASSUME NEW k \in 1 .. n
          PROVE  s[k] \in ToSet(s \o t)
        <3>1. k \in 1 .. n + m /\ (s \o t)[k] = s[k]
            BY <1>1
        <3> QED BY <1>1, <3>1 DEF ToSet
    <2>2. ASSUME NEW k \in 1 .. m
          PROVE  t[k] \in ToSet(s \o t)
        BY <1>1 DEF ToSet
    <2> QED BY <1>1, <2>1, <2>2 DEF ToSet
<1>4. ASSUME IsInjective(s), IsInjective(t), ToSet(s) \cap ToSet(t) = {},
             NEW k \in 1 .. n + m, NEW l \in 1 .. n + m, (s \o t)[k] = (s \o t)[l]
      PROVE  k = l
    <2>1. \A a \in 1 .. n, b \in 1 .. m : s[a] # t[b]
        BY <1>1, <1>4 DEF ToSet
    <2>2. CASE k <= n /\ l <= n
        BY <1>1, <1>4, <2>2 DEF IsInjective
    <2>3. CASE k > n /\ l > n
        <3>1. k - n \in 1 .. m /\ l - n \in 1 .. m /\ t[k - n] = t[l - n]
            BY <1>1, <1>4, <2>3
        <3>2. k - n = l - n
            BY <1>1, <1>4, <3>1 DEF IsInjective
        <3> QED BY <1>1, <3>2
    <2>4. CASE k <= n /\ l > n
        BY <1>1, <1>4, <2>1, <2>4
    <2>5. CASE k > n /\ l <= n
        BY <1>1, <1>4, <2>1, <2>5
    <2> QED BY <1>1, <2>2, <2>3, <2>4, <2>5
<1> QED BY <1>1, <1>2, <1>3, <1>4 DEF IsInjective

LEMMA OneIs ==
    ASSUME NEW S, NEW x \in S
    PROVE  <<x>> \in Seq(S) /\ ToSet(<<x>>) = {x} /\ IsInjective(<<x>>)
BY DEF ToSet, IsInjective

LEMMA NoneIs == \A S : <<>> \in Seq(S) /\ ToSet(<<>>) = {} /\ IsInjective(<<>>)
BY DEF ToSet, IsInjective

LEMMA AddedIs ==
    ASSUME NEW S, NEW s \in Seq(S), NEW x \in S
    PROVE  /\ Append(s, x) \in Seq(S) /\ ToSet(Append(s, x)) = ToSet(s) \cup {x}
           /\ IsInjective(s) /\ x \notin ToSet(s) => IsInjective(Append(s, x))
<1>1. Append(s, x) = s \o <<x>>
    OBVIOUS
<1>2. <<x>> \in Seq(S) /\ ToSet(<<x>>) = {x} /\ IsInjective(<<x>>)
    BY OneIs
<1>3. /\ s \o <<x>> \in Seq(S) /\ ToSet(s \o <<x>>) = ToSet(s) \cup ToSet(<<x>>)
      /\ IsInjective(s) /\ ToSet(s) \cap ToSet(<<x>>) = {} => IsInjective(s \o <<x>>)
    <2> DEFINE t == <<x>>
    <2>1. t \in Seq(S) /\ IsInjective(t)
        BY <1>2
    <2> HIDE DEF t
    <2>2. /\ s \o t \in Seq(S) /\ ToSet(s \o t) = ToSet(s) \cup ToSet(t)
          /\ IsInjective(s) /\ ToSet(s) \cap ToSet(t) = {} => IsInjective(s \o t)
        BY <2>1, JoinedIs
    <2> QED BY <2>2 DEF t
<1> QED BY <1>1, <1>2, <1>3

LEMMA RemovedAt ==
    ASSUME NEW S, NEW s \in Seq(S), NEW i \in DOMAIN s
    PROVE  /\ RemoveAt(s, i) \in Seq(S) /\ Len(RemoveAt(s, i)) = Len(s) - 1
           /\ \A k \in DOMAIN RemoveAt(s, i) :
                IF k < i THEN k \in DOMAIN s /\ RemoveAt(s, i)[k] = s[k]
                         ELSE k + 1 \in DOMAIN s /\ RemoveAt(s, i)[k] = s[k + 1]
           /\ \A k \in DOMAIN s : k # i => \E l \in DOMAIN RemoveAt(s, i) : RemoveAt(s, i)[l] = s[k]
<1> DEFINE n == Len(s)
           r == RemoveAt(s, i)
           a == SubSeq(s, 1, i - 1)
           b == SubSeq(s, i + 1, n)
<1>1. n \in Nat /\ DOMAIN s = 1 .. n /\ i \in 1 .. n
    OBVIOUS
<1>2. /\ a \in Seq(S) /\ Len(a) = i - 1 /\ \A k \in 1 .. i - 1 : a[k] = s[k]
      /\ b \in Seq(S) /\ Len(b) = n - i /\ \A k \in 1 .. n - i : b[k] = s[i + k]
    BY <1>1
<1>3. r = a \o b
    BY DEF RemoveAt
<1> HIDE DEF n, a, b, r
<1>4. /\ r \in Seq(S) /\ Len(r) = n - 1 /\ DOMAIN r = 1 .. n - 1
      /\ \A k \in 1 .. n - 1 : r[k] = IF k < i THEN a[k] ELSE b[k - (i - 1)]
    <2>1. a \in Seq(S) /\ b \in Seq(S)
        BY <1>2
    <2>2. /\ a \o b \in Seq(S) /\ Len(a \o b) = Len(a) + Len(b)
          /\ \A k \in 1 .. Len(a) + Len(b) : (a \o b)[k] = IF k <= Len(a) THEN a[k] ELSE b[k - Len(a)]
        BY <2>1
    <2>3. Len(a) + Len(b) = n - 1 /\ \A k \in 1 .. n - 1 : k <= Len(a) <=> k < i
        BY <1>1, <1>2
    <2>4. r \in Seq(S) /\ Len(r) = n - 1 /\ DOMAIN r = 1 .. n - 1
        BY <1>3, <2>2, <2>3
    <2>5. ASSUME NEW k \in 1 .. n - 1
          PROVE  r[k] = IF k < i THEN a[k] ELSE b[k - (i - 1)]
        BY <1>2, <1>3, <2>2, <2>3
    <2> QED BY <2>4, <2>5
<1>5. ASSUME NEW k \in 1 .. n - 1
      PROVE  IF k < i THEN k \in 1 .. n /\ r[k] = s[k] ELSE k + 1 \in 1 .. n /\ r[k] = s[k + 1]
    <2>1. CASE k < i
        BY <1>1, <1>2, <1>4, <2>1
    <2>2. CASE ~(k < i)
        <3>1. k - (i - 1) \in 1 .. n - i /\ i + (k - (i - 1)) = k + 1 /\ k + 1 \in 1 .. n
            BY <1>1, <2>2
        <3>2. b[k - (i - 1)] = s[i + (k - (i - 1))]
            BY <1>2, <3>1
        <3> QED BY <1>4, <2>2, <3>1, <3>2
    <2> QED BY <2>1, <2>2
<1>6. ASSUME NEW k \in 1 .. n, k # i
      PROVE  \E l \in 1 .. n - 1 : r[l] = s[k]
    <2>1. CASE k < i
        <3>1. k \in 1 .. n - 1
            BY <1>1, <2>1
        <3> QED BY <1>5, <2>1, <3>1
    <2>2. CASE k > i
        <3>1. k - 1 \in 1 .. n - 1 /\ ~(k - 1 < i) /\ (k - 1) + 1 = k
            BY <1>1, <2>2
        <3> QED BY <1>5, <3>1
    <2> QED BY <1>1, <1>6, <2>1, <2>2
<1> QED BY <1>1, <1>4, <1>5, <1>6 DEF r, n

LEMMA RemovedIs ==
    ASSUME NEW S, NEW s \in Seq(S), IsInjective(s), NEW i \in DOMAIN s
    PROVE  /\ RemoveAt(s, i) \in Seq(S) /\ IsInjective(RemoveAt(s, i))
           /\ ToSet(RemoveAt(s, i)) = ToSet(s) \ {s[i]} /\ Len(RemoveAt(s, i)) = Len(s) - 1
<1> DEFINE r == RemoveAt(s, i)
<1>1. /\ r \in Seq(S) /\ Len(r) = Len(s) - 1
      /\ \A k \in DOMAIN r : IF k < i THEN k \in DOMAIN s /\ r[k] = s[k] ELSE k + 1 \in DOMAIN s /\ r[k] = s[k + 1]
      /\ \A k \in DOMAIN s : k # i => \E l \in DOMAIN r : r[l] = s[k]
    BY RemovedAt
<1>2. DOMAIN s \subseteq Nat /\ DOMAIN r \subseteq Nat
    BY <1>1
<1> HIDE DEF r
<1>3. ASSUME NEW k \in DOMAIN r, NEW l \in DOMAIN r, r[k] = r[l]
      PROVE  k = l
    BY <1>1, <1>2, <1>3 DEF IsInjective
<1>4. \A k \in DOMAIN r : \E l \in DOMAIN s : l # i /\ r[k] = s[l]
    <2> SUFFICES ASSUME NEW k \in DOMAIN r PROVE \E l \in DOMAIN s : l # i /\ r[k] = s[l]
        OBVIOUS
    <2>1. CASE k < i
        BY <1>1, <1>2, <2>1
    <2>2. CASE ~(k < i)
        <3>1. k + 1 # i /\ k + 1 \in DOMAIN s /\ r[k] = s[k + 1]
            BY <1>1, <1>2, <2>2
        <3> QED BY <3>1
    <2> QED BY <2>1, <2>2
<1>5. ToSet(r) = ToSet(s) \ {s[i]}
    BY <1>1, <1>4 DEF ToSet, IsInjective
<1> QED BY <1>1, <1>3, <1>5 DEF r, IsInjective

LEMMA InsertedIs ==
    ASSUME NEW S, NEW s \in Seq(S), IsInjective(s), NEW x \in S, x \notin ToSet(s), NEW j \in 1 .. Len(s) + 1
    PROVE  /\ InsertAt(s, j, x) \in Seq(S) /\ IsInjective(InsertAt(s, j, x))
           /\ ToSet(InsertAt(s, j, x)) = ToSet(s) \cup {x}
<1> DEFINE n == Len(s)
           a == SubSeq(s, 1, j - 1)
           b == SubSeq(s, j, n)
<1>1. n \in Nat /\ DOMAIN s = 1 .. n /\ j \in 1 .. n + 1
    OBVIOUS
<1>2. /\ a \in Seq(S) /\ Len(a) = j - 1 /\ DOMAIN a = 1 .. j - 1 /\ \A k \in 1 .. j - 1 : a[k] = s[k]
      /\ b \in Seq(S) /\ Len(b) = n - j + 1 /\ DOMAIN b = 1 .. n - j + 1
      /\ \A k \in 1 .. n - j + 1 : b[k] = s[j - 1 + k]
    BY <1>1
<1>3. InsertAt(s, j, x) = a \o <<x>> \o b
    BY DEF InsertAt
<1> HIDE DEF n, a, b
<1>4. \A k \in 1 .. j - 1 : k \in 1 .. n
    BY <1>1
<1>5. \A k \in 1 .. n - j + 1 : j - 1 + k \in 1 .. n /\ j - 1 + k \notin 1 .. j - 1
    BY <1>1
<1>6. IsInjective(a) /\ IsInjective(b)
    <2>1. IsInjective(a)
        BY <1>1, <1>2, <1>4 DEF IsInjective
    <2>2. ASSUME NEW k \in 1 .. n - j + 1, NEW l \in 1 .. n - j + 1, b[k] = b[l]
          PROVE  k = l
        <3>1. s[j - 1 + k] = s[j - 1 + l]
            BY <1>2, <2>2
        <3>2. j - 1 + k = j - 1 + l
            BY <1>1, <1>5, <3>1 DEF IsInjective
        <3> QED BY <1>1, <3>2
    <2> QED BY <1>2, <2>1, <2>2 DEF IsInjective
<1>7. ToSet(a) \cap ToSet(b) = {}
    <2>1. ASSUME NEW k \in 1 .. j - 1, NEW l \in 1 .. n - j + 1
          PROVE  a[k] # b[l]
        <3>1. k \in 1 .. n /\ j - 1 + l \in 1 .. n /\ k # j - 1 + l
            BY <1>4, <1>5
        <3>2. s[k] # s[j - 1 + l]
            BY <1>1, <3>1 DEF IsInjective
        <3> QED BY <1>2, <3>2
    <2> QED BY <1>2, <2>1 DEF ToSet
<1>8. ToSet(a) \cup ToSet(b) = ToSet(s)
    <2>1. ToSet(a) \subseteq ToSet(s) /\ ToSet(b) \subseteq ToSet(s)
        <3>1. \A k \in 1 .. j - 1 : a[k] \in ToSet(s)
            BY <1>1, <1>2, <1>4 DEF ToSet
        <3>2. \A k \in 1 .. n - j + 1 : b[k] \in ToSet(s)
            BY <1>1, <1>2, <1>5 DEF ToSet
        <3> QED BY <1>2, <3>1, <3>2 DEF ToSet
    <2>2. ASSUME NEW k \in 1 .. n
          PROVE  s[k] \in ToSet(a) \cup ToSet(b)
        <3>1. CASE k < j
            <4>1. k \in 1 .. j - 1
                BY <1>1, <3>1
            <4> QED BY <1>2, <4>1 DEF ToSet
        <3>2. CASE ~(k < j)
            <4>1. k - j + 1 \in 1 .. n - j + 1 /\ j - 1 + (k - j + 1) = k
                BY <1>1, <3>2
            <4>2. b[k - j + 1] = s[k]
                BY <1>2, <4>1
            <4> QED BY <1>2, <4>1, <4>2 DEF ToSet
        <3> QED BY <3>1, <3>2
    <2>3. ToSet(s) \subseteq ToSet(a) \cup ToSet(b)
        BY <1>1, <2>2 DEF ToSet
    <2> QED BY <2>1, <2>3
<1>9. /\ a \o <<x>> \in Seq(S) /\ ToSet(a \o <<x>>) = ToSet(a) \cup {x} /\ IsInjective(a \o <<x>>)
    <2>1. a \o <<x>> = Append(a, x) /\ x \notin ToSet(a)
        BY <1>2, <1>8
    <2>2. /\ Append(a, x) \in Seq(S) /\ ToSet(Append(a, x)) = ToSet(a) \cup {x}
          /\ IsInjective(a) /\ x \notin ToSet(a) => IsInjective(Append(a, x))
        BY <1>2, AddedIs
    <2> QED BY <1>6, <2>1, <2>2
<1>10. /\ (a \o <<x>>) \o b \in Seq(S) /\ ToSet((a \o <<x>>) \o b) = ToSet(a) \cup {x} \cup ToSet(b)
       /\ IsInjective((a \o <<x>>) \o b)
    <2> DEFINE c == a \o <<x>>
    <2>1. c \in Seq(S) /\ IsInjective(c) /\ ToSet(c) = ToSet(a) \cup {x} /\ ToSet(c) \cap ToSet(b) = {}
        BY <1>7, <1>8, <1>9
    <2> HIDE DEF c
    <2>2. c \o b \in Seq(S) /\ ToSet(c \o b) = ToSet(c) \cup ToSet(b) /\ IsInjective(c \o b)
        BY <1>2, <1>6, <2>1, JoinedIs
    <2> QED BY <2>1, <2>2 DEF c
<1> QED BY <1>3, <1>8, <1>10

LEMMA ReorderedIs ==
    ASSUME NEW S, NEW s \in Seq(S), IsInjective(s), NEW i \in DOMAIN s, NEW j \in DOMAIN s
    PROVE  LET t == InsertAt(RemoveAt(s, i), j, s[i])
           IN t \in Seq(S) /\ IsInjective(t) /\ ToSet(t) = ToSet(s)
<1> DEFINE r == RemoveAt(s, i)
<1>1. /\ r \in Seq(S) /\ IsInjective(r) /\ ToSet(r) = ToSet(s) \ {s[i]} /\ Len(r) = Len(s) - 1
    BY RemovedIs
<1>2. s[i] \in S /\ s[i] \in ToSet(s) /\ j \in 1 .. Len(r) + 1
    BY <1>1 DEF ToSet
<1> HIDE DEF r
<1>3. /\ InsertAt(r, j, s[i]) \in Seq(S) /\ IsInjective(InsertAt(r, j, s[i]))
      /\ ToSet(InsertAt(r, j, s[i])) = ToSet(r) \cup {s[i]}
    BY <1>1, <1>2, InsertedIs
<1> QED BY <1>1, <1>2, <1>3 DEF r

(* What the page and its uploads are made of.                                *)
HomePictures == HomeFiles \cup HomeGallery

HomeRecord ==
    [visit : HomeVisits, key : BOOLEAN, dialog : {"closed", "form", "plans"}, mode : {"signup", "signin"},
     signing : Seq([keyed : BOOLEAN, mode : {"signup", "signin"}]),
     late : Seq([keyed : BOOLEAN, files : Seq(HomeFiles)]), till : {"none", "asked", "shown"},
     refreshing : Nat, pending : Seq(HomeFiles), frames : Seq(HomePictures), sound : Seq(HomeFiles),
     left : 0 .. HomeEdits]

UploadRecord == [files : Seq(HomeFiles), at : Nat]

HomeOK(h) ==
    /\ h \in HomeRecord /\ Len(h.signing) <= 1 /\ Len(h.late) <= 1 /\ Len(h.sound) <= 1
    /\ h.signing # <<>> => h.late = <<>>

UploadsOK(uploads) ==
    /\ uploads \in Seq(UploadRecord)
    /\ \A u \in DOMAIN uploads : uploads[u].at <= Len(uploads[u].files)

FateOK(fate) == fate \in [given : SUBSET HomePictures, taken : SUBSET HomePictures, told : SUBSET HomeFiles]

(* A batch holds a file once, and no two batches that are sent share one.    *)
LateFiles(late) == IF late = <<>> THEN <<>> ELSE late[1].files
SentIn(uploads) == UNION {ToSet(uploads[u].files) : u \in DOMAIN uploads}

Batches(pending, late, frames, uploads) ==
    /\ IsInjective(pending) /\ IsInjective(LateFiles(late)) /\ IsInjective(frames)
    /\ \A u \in DOMAIN uploads : IsInjective(uploads[u].files)
    /\ \A u, v \in DOMAIN uploads : u # v => ToSet(uploads[u].files) \cap ToSet(uploads[v].files) = {}

(* Nothing that was given is in two places, and no picture is in none.       *)
Apart(pending, late, sent, frames, fate) ==
    /\ pending \cap late = {}
    /\ (pending \cup late) \cap sent = {}
    /\ (pending \cup late \cup sent) \cap frames = {}
    /\ (pending \cup late \cup sent \cup frames) \cap fate.taken = {}
    /\ (pending \cup late \cup sent \cup frames \cup fate.taken) \cap fate.told = {}
    /\ pending \cup late \cup sent \cup frames \cup fate.taken \cup fate.told \subseteq fate.given
    /\ fate.given \ HomeSounds \subseteq pending \cup late \cup sent \cup frames \cup fate.taken \cup fate.told

InPlace(pending, late, frames, uploads, fate) ==
    /\ Batches(pending, late, frames, uploads)
    /\ Apart(ToSet(pending), ToSet(LateFiles(late)), SentIn(uploads), ToSet(frames), fate)

FilesInv ==
    /\ HomeOK(home) /\ UploadsOK(homeUploads) /\ FateOK(homeFate)
    /\ InPlace(home.pending, home.late, home.frames, homeUploads, homeFate)

LEMMA FilesInit == HomeInit => FilesInv
<1> SUFFICES ASSUME HomeInit PROVE FilesInv
    OBVIOUS
<1>1. PICK visit \in HomeVisits :
         home = [visit |-> visit, key |-> visit.signed, dialog |-> "closed", mode |-> "signup",
                 signing |-> <<>>, late |-> <<>>, till |-> "none", refreshing |-> 0,
                 pending |-> <<>>, frames |-> <<>>, sound |-> <<>>, left |-> visit.left]
    BY DEF HomeInit
<1>2. visit.signed \in BOOLEAN /\ visit.left \in 0 .. HomeEdits
    BY HomeVisitAssumption
<1>3. /\ home.pending = <<>> /\ home.late = <<>> /\ home.frames = <<>> /\ home.signing = <<>> /\ home.sound = <<>>
      /\ home.left = visit.left
    BY <1>1
<1>4. home \in HomeRecord
    BY <1>1, <1>2 DEF HomeRecord
<1>5. HomeOK(home)
    BY <1>3, <1>4 DEF HomeOK
<1>6. homeUploads = <<>> /\ UploadsOK(homeUploads) /\ SentIn(homeUploads) = {}
    BY DEF HomeInit, UploadsOK, SentIn
<1>7. /\ homeFate = [given |-> {}, taken |-> {}, told |-> {}] /\ FateOK(homeFate)
      /\ homeFate.given = {} /\ homeFate.taken = {} /\ homeFate.told = {}
    BY DEF HomeInit, FateOK
<1>8. ToSet(<<>>) = {} /\ IsInjective(<<>>)
    BY NoneIs
<1>9. LateFiles(home.late) = <<>>
    BY <1>3 DEF LateFiles
<1>10. Batches(home.pending, home.late, home.frames, homeUploads)
    BY <1>3, <1>6, <1>8, <1>9 DEF Batches
<1>11. Apart(ToSet(home.pending), ToSet(LateFiles(home.late)), SentIn(homeUploads), ToSet(home.frames), homeFate)
    BY <1>3, <1>6, <1>7, <1>8, <1>9 DEF Apart
<1> QED BY <1>5, <1>6, <1>7, <1>10, <1>11 DEF FilesInv, InPlace

(* ---- the sign-in, the checkout and the generations leave the files alone --- *)
LEMMA FilesStay ==
    ASSUME FilesInv, HomeOK(home'), UNCHANGED <<homeUploads, homeFate>>,
           home'.pending = home.pending, home'.late = home.late, home'.frames = home.frames
    PROVE  FilesInv'
BY DEF FilesInv

LEMMA AuthOpenedIs ==
    ASSUME NEW h \in HomeRecord, NEW mode \in {"signup", "signin"}
    PROVE  LET a == AuthOpened(h, mode)
           IN /\ a \in HomeRecord /\ a.signing = h.signing /\ a.late = h.late /\ a.sound = h.sound
              /\ a.pending = h.pending /\ a.frames = h.frames /\ a.left = h.left
<1>1. (IF h.till = "asked" THEN "asked" ELSE "none") \in {"none", "asked", "shown"}
    OBVIOUS
<1> QED BY <1>1 DEF AuthOpened, HomeRecord

LEMMA SignStepsStay ==
    ASSUME FilesInv,
           \/ \E mode \in {"signup", "signin"} : OpenAuth(mode)
           \/ CloseAuth \/ SubmitAuth \/ SignInRefused \/ RemoveSound
           \/ StartCheckout \/ (\E ok \in BOOLEAN : CheckoutAnswered(ok)) \/ CheckoutCompleted \/ SoftRefresh
    PROVE  FilesInv'
<1> USE HomeBounds
<1>1. HomeOK(home) /\ home \in HomeRecord
    BY DEF FilesInv, HomeOK
<1>2. ASSUME home.left > 0
      PROVE  LET h == [home EXCEPT !.left = @ - 1]
             IN /\ h \in HomeRecord /\ h.signing = home.signing /\ h.late = home.late /\ h.sound = home.sound
                /\ h.pending = home.pending /\ h.frames = home.frames
    <2>1. home.left - 1 \in 0 .. HomeEdits
        BY <1>1, <1>2 DEF HomeRecord
    <2> QED BY <1>1, <2>1 DEF HomeRecord
<1>3. ASSUME NEW mode \in {"signup", "signin"}, OpenAuth(mode)
      PROVE  FilesInv'
    <2> DEFINE a == AuthOpened(home, mode)
    <2>1. /\ a \in HomeRecord /\ a.signing = home.signing /\ a.late = home.late /\ a.sound = home.sound
          /\ a.pending = home.pending /\ a.frames = home.frames /\ a.left = home.left
        BY <1>1, AuthOpenedIs
    <2>2. home' = [a EXCEPT !.left = @ - 1] /\ home.left > 0 /\ UNCHANGED <<homeUploads, homeFate>>
        BY <1>3 DEF OpenAuth, HomeGesture
    <2> HIDE DEF a
    <2>3. a.left - 1 \in 0 .. HomeEdits
        BY <2>1, <2>2 DEF HomeRecord
    <2>4. /\ home' \in HomeRecord /\ home'.signing = home.signing /\ home'.late = home.late
          /\ home'.sound = home.sound /\ home'.pending = home.pending /\ home'.frames = home.frames
        BY <2>1, <2>2, <2>3 DEF HomeRecord
    <2> QED BY <1>1, <2>2, <2>4, FilesStay DEF HomeOK
<1>4. CASE CloseAuth
    <2>1. /\ UNCHANGED <<homeUploads, homeFate>> /\ home.left - 1 \in 0 .. HomeEdits
          /\ (IF home.till = "asked" THEN "asked" ELSE "none") \in {"none", "asked", "shown"}
        BY <1>1, <1>4 DEF CloseAuth, HomeGesture, HomeRecord
    <2>2. /\ home' \in HomeRecord /\ home'.signing = home.signing /\ home'.late = home.late
          /\ home'.sound = home.sound /\ home'.pending = home.pending /\ home'.frames = home.frames
        BY <1>1, <1>4, <2>1 DEF CloseAuth, HomeRecord
    <2> QED BY <1>1, <2>1, <2>2, FilesStay DEF HomeOK
<1>5. CASE SubmitAuth
    <2>1. /\ UNCHANGED <<homeUploads, homeFate>> /\ home.left - 1 \in 0 .. HomeEdits /\ home.late = <<>>
        BY <1>1, <1>5 DEF SubmitAuth, HomeGesture, HomeRecord
    <2>2. <<[keyed |-> home.key, mode |-> home.mode]>> \in Seq([keyed : BOOLEAN, mode : {"signup", "signin"}])
        BY <1>1 DEF HomeRecord
    <2>3. home' \in HomeRecord
        BY <1>1, <1>5, <2>1, <2>2 DEF SubmitAuth, HomeRecord
    <2>4. /\ Len(home'.signing) = 1 /\ home'.late = home.late
          /\ home'.sound = home.sound /\ home'.pending = home.pending /\ home'.frames = home.frames
        BY <1>1, <1>5 DEF SubmitAuth, HomeRecord
    <2> QED BY <1>1, <2>1, <2>3, <2>4, FilesStay DEF HomeOK
<1>6. CASE SignInRefused
    <2> DEFINE none == <<>>
    <2>1. /\ home' = [home EXCEPT !.signing = none] /\ UNCHANGED <<homeUploads, homeFate>>
          /\ none \in Seq([keyed : BOOLEAN, mode : {"signup", "signin"}]) /\ Len(none) = 0 /\ none = <<>>
        BY <1>6 DEF SignInRefused
    <2> HIDE DEF none
    <2>2. /\ home' \in HomeRecord /\ home'.signing = none
          /\ home'.late = home.late /\ home'.sound = home.sound /\ home'.pending = home.pending
          /\ home'.frames = home.frames
        BY <1>1, <2>1 DEF HomeRecord
    <2> QED BY <1>1, <2>1, <2>2, FilesStay DEF HomeOK
<1>7. CASE RemoveSound
    <2> DEFINE none == <<>>
    <2>1. /\ UNCHANGED <<homeUploads, homeFate>> /\ home.left - 1 \in 0 .. HomeEdits
          /\ home' = [home EXCEPT !.sound = none, !.left = @ - 1] /\ none \in Seq(HomeFiles) /\ Len(none) = 0
        BY <1>1, <1>7 DEF RemoveSound, HomeGesture, HomeRecord
    <2> HIDE DEF none
    <2>2. /\ home' \in HomeRecord /\ home'.signing = home.signing /\ home'.late = home.late
          /\ home'.sound = none /\ home'.pending = home.pending /\ home'.frames = home.frames
        BY <1>1, <2>1 DEF HomeRecord
    <2> QED BY <1>1, <2>1, <2>2, FilesStay DEF HomeOK
<1>8. CASE StartCheckout
    <2>1. UNCHANGED <<homeUploads, homeFate>> /\ home.left - 1 \in 0 .. HomeEdits
        BY <1>1, <1>8 DEF StartCheckout, HomeGesture, HomeRecord
    <2>2. /\ home' \in HomeRecord /\ home'.signing = home.signing /\ home'.late = home.late
          /\ home'.sound = home.sound /\ home'.pending = home.pending /\ home'.frames = home.frames
        BY <1>1, <1>8, <2>1 DEF StartCheckout, HomeRecord
    <2> QED BY <1>1, <2>1, <2>2, FilesStay DEF HomeOK
<1>9. ASSUME NEW ok \in BOOLEAN, CheckoutAnswered(ok)
      PROVE  FilesInv'
    <2> DEFINE till == IF ok /\ home.dialog = "plans" THEN "shown" ELSE "none"
    <2>1. till \in {"none", "asked", "shown"}
        OBVIOUS
    <2>2. home' = [home EXCEPT !.till = till] /\ UNCHANGED <<homeUploads, homeFate>>
        BY <1>9 DEF CheckoutAnswered
    <2> HIDE DEF till
    <2>3. /\ home' \in HomeRecord /\ home'.signing = home.signing /\ home'.late = home.late
          /\ home'.sound = home.sound /\ home'.pending = home.pending /\ home'.frames = home.frames
        BY <1>1, <2>1, <2>2 DEF HomeRecord
    <2> QED BY <1>1, <2>2, <2>3, FilesStay DEF HomeOK
<1>10. CASE CheckoutCompleted
    <2>1. UNCHANGED <<homeUploads, homeFate>> /\ home.refreshing + 2 \in Nat
        BY <1>1, <1>10 DEF CheckoutCompleted, HomeRecord
    <2>2. /\ home' \in HomeRecord /\ home'.signing = home.signing /\ home'.late = home.late
          /\ home'.sound = home.sound /\ home'.pending = home.pending /\ home'.frames = home.frames
        BY <1>1, <1>10, <2>1 DEF CheckoutCompleted, HomeRecord
    <2> QED BY <1>1, <2>1, <2>2, FilesStay DEF HomeOK
<1>11. CASE SoftRefresh
    <2>1. UNCHANGED <<homeUploads, homeFate>> /\ home.refreshing - 1 \in Nat
        BY <1>1, <1>11 DEF SoftRefresh, HomeRecord
    <2>2. /\ home' \in HomeRecord /\ home'.signing = home.signing /\ home'.late = home.late
          /\ home'.sound = home.sound /\ home'.pending = home.pending /\ home'.frames = home.frames
        BY <1>1, <1>11, <2>1 DEF SoftRefresh, HomeRecord
    <2> QED BY <1>1, <2>1, <2>2, FilesStay DEF HomeOK
<1> QED BY <1>3, <1>4, <1>5, <1>6, <1>7, <1>8, <1>9, <1>10, <1>11

(* ------------------------------------------------------ files on their way -- *)
LEMMA UploadAdded ==
    ASSUME NEW uploads, UploadsOK(uploads), NEW files \in Seq(HomeFiles), IsInjective(files),
           \A u \in DOMAIN uploads : IsInjective(uploads[u].files),
           \A u, v \in DOMAIN uploads : u # v => ToSet(uploads[u].files) \cap ToSet(uploads[v].files) = {},
           ToSet(files) \cap SentIn(uploads) = {}
    PROVE  LET more == Append(uploads, [files |-> files, at |-> 0])
           IN /\ UploadsOK(more) /\ SentIn(more) = SentIn(uploads) \cup ToSet(files)
              /\ \A u \in DOMAIN more : IsInjective(more[u].files)
              /\ \A u, v \in DOMAIN more : u # v => ToSet(more[u].files) \cap ToSet(more[v].files) = {}
<1> DEFINE n == Len(uploads)
           new == [files |-> files, at |-> 0]
           more == Append(uploads, new)
<1>1. n \in Nat /\ DOMAIN uploads = 1 .. n /\ \A u \in 1 .. n : uploads[u] \in UploadRecord
    BY DEF UploadsOK
<1>2. new \in UploadRecord /\ new.files = files /\ new.at = 0 /\ Len(files) \in Nat
    BY DEF UploadRecord
<1> HIDE DEF new
<1>3. /\ more \in Seq(UploadRecord) /\ DOMAIN more = 1 .. n + 1
      /\ \A u \in 1 .. n : more[u] = uploads[u]
      /\ more[n + 1] = new
    BY <1>2 DEF UploadsOK
<1> HIDE DEF more, n
<1>4. \A u \in 1 .. n + 1 : u \in 1 .. n \/ u = n + 1
    BY <1>1
<1>5. UploadsOK(more)
    BY <1>1, <1>2, <1>3, <1>4 DEF UploadsOK
<1>6. SentIn(more) = SentIn(uploads) \cup ToSet(files)
    <2>1. \A u \in 1 .. n : u \in 1 .. n + 1
        BY <1>1
    <2>2. n + 1 \in 1 .. n + 1
        BY <1>1
    <2> QED BY <1>1, <1>2, <1>3, <1>4, <2>1, <2>2 DEF SentIn
<1>7. \A u \in DOMAIN more : IsInjective(more[u].files)
    BY <1>1, <1>2, <1>3, <1>4
<1>8. \A u \in 1 .. n : ToSet(uploads[u].files) \cap ToSet(files) = {}
    BY <1>1 DEF SentIn
<1>9. ASSUME NEW u \in DOMAIN more, NEW v \in DOMAIN more, u # v
      PROVE  ToSet(more[u].files) \cap ToSet(more[v].files) = {}
    <2>1. CASE u \in 1 .. n /\ v \in 1 .. n
        BY <1>1, <1>3, <1>9, <2>1
    <2>2. CASE u \in 1 .. n /\ v = n + 1
        BY <1>2, <1>3, <1>8, <2>2
    <2>3. CASE u = n + 1 /\ v \in 1 .. n
        BY <1>2, <1>3, <1>8, <2>3
    <2> QED BY <1>3, <1>4, <1>9, <2>1, <2>2, <2>3
<1> QED BY <1>5, <1>6, <1>7, <1>9 DEF more, new

LEMMA UploadGone ==
    ASSUME NEW uploads, UploadsOK(uploads), NEW i \in DOMAIN uploads,
           \A u \in DOMAIN uploads : IsInjective(uploads[u].files),
           \A u, v \in DOMAIN uploads : u # v => ToSet(uploads[u].files) \cap ToSet(uploads[v].files) = {}
    PROVE  LET less == RemoveAt(uploads, i)
           IN /\ UploadsOK(less) /\ SentIn(less) = SentIn(uploads) \ ToSet(uploads[i].files)
              /\ \A u \in DOMAIN less : IsInjective(less[u].files)
              /\ \A u, v \in DOMAIN less : u # v => ToSet(less[u].files) \cap ToSet(less[v].files) = {}
<1> DEFINE less == RemoveAt(uploads, i)
           At(k) == IF k < i THEN k ELSE k + 1
<1>1. /\ less \in Seq(UploadRecord)
      /\ \A k \in DOMAIN less : IF k < i THEN k \in DOMAIN uploads /\ less[k] = uploads[k]
                                         ELSE k + 1 \in DOMAIN uploads /\ less[k] = uploads[k + 1]
      /\ \A k \in DOMAIN uploads : k # i => \E l \in DOMAIN less : less[l] = uploads[k]
    BY RemovedAt DEF UploadsOK
<1>2. DOMAIN less \subseteq Nat /\ DOMAIN uploads \subseteq Nat
    BY <1>1 DEF UploadsOK
<1> HIDE DEF less
<1>3. \A k \in DOMAIN less : At(k) \in DOMAIN uploads /\ At(k) # i /\ less[k] = uploads[At(k)]
    BY <1>1, <1>2
<1>4. \A k, l \in DOMAIN less : k # l => At(k) # At(l)
    BY <1>2
<1> HIDE DEF At
<1>5. UploadsOK(less)
    BY <1>1, <1>3 DEF UploadsOK
<1>6. SentIn(less) = SentIn(uploads) \ ToSet(uploads[i].files)
    <2>1. ASSUME NEW k \in DOMAIN less, NEW f \in ToSet(less[k].files)
          PROVE  f \in SentIn(uploads) /\ f \notin ToSet(uploads[i].files)
        BY <1>3, <2>1 DEF SentIn
    <2>2. ASSUME NEW k \in DOMAIN uploads, NEW f \in ToSet(uploads[k].files), f \notin ToSet(uploads[i].files)
          PROVE  f \in SentIn(less)
        <3>1. k # i
            BY <2>2
        <3> QED BY <1>1, <2>2, <3>1 DEF SentIn
    <2> QED BY <2>1, <2>2 DEF SentIn
<1>7. \A u \in DOMAIN less : IsInjective(less[u].files)
    BY <1>3
<1>8. \A u, v \in DOMAIN less : u # v => ToSet(less[u].files) \cap ToSet(less[v].files) = {}
    BY <1>3, <1>4
<1> QED BY <1>5, <1>6, <1>7, <1>8 DEF less

LEMMA FileSentKeeps ==
    ASSUME FilesInv, NEW u, FileSent(u)
    PROVE  FilesInv'
<1> DEFINE now == homeUploads[u]
           then == [now EXCEPT !.at = @ + 1]
<1>1. /\ homeUploads \in Seq(UploadRecord) /\ u \in DOMAIN homeUploads /\ now \in UploadRecord
      /\ now.at < Len(now.files) /\ UNCHANGED <<home, homeFate>>
      /\ homeUploads' = [homeUploads EXCEPT ![u] = then]
    BY DEF FilesInv, UploadsOK, FileSent
<1>2. then \in UploadRecord /\ then.files = now.files /\ then.at <= Len(then.files)
    <2>1. now.at + 1 \in Nat /\ now.at + 1 <= Len(now.files)
        <3>1. now.at \in Nat /\ Len(now.files) \in Nat
            BY <1>1 DEF UploadRecord
        <3> HIDE DEF now
        <3> QED BY <1>1, <3>1
    <2>2. then \in UploadRecord /\ then.files = now.files /\ then.at = now.at + 1
        <3> HIDE DEF now
        <3> QED BY <1>1, <2>1 DEF UploadRecord
    <2> QED BY <2>1, <2>2
<1>3. /\ homeUploads' \in Seq(UploadRecord) /\ DOMAIN homeUploads' = DOMAIN homeUploads
      /\ \A v \in DOMAIN homeUploads : v # u => homeUploads'[v] = homeUploads[v]
      /\ homeUploads'[u] = then
    <2> HIDE DEF then, now
    <2> QED BY <1>1, <1>2
<1>4. \A v \in DOMAIN homeUploads : homeUploads'[v].files = homeUploads[v].files
    <2> HIDE DEF then
    <2> QED BY <1>2, <1>3
<1>5. UploadsOK(homeUploads)'
    <2>1. \A v \in DOMAIN homeUploads : homeUploads'[v].at <= Len(homeUploads'[v].files)
        <3> HIDE DEF then
        <3> QED BY <1>2, <1>3 DEF FilesInv, UploadsOK
    <2> QED BY <1>3, <2>1 DEF UploadsOK
<1> HIDE DEF then, now
<1>6. SentIn(homeUploads)' = SentIn(homeUploads)
    BY <1>3, <1>4 DEF SentIn
<1>7. Batches(home.pending, home.late, home.frames, homeUploads)'
    BY <1>1, <1>3, <1>4 DEF FilesInv, InPlace, Batches
<1>8. Apart(ToSet(home.pending), ToSet(LateFiles(home.late)), SentIn(homeUploads), ToSet(home.frames), homeFate)'
    BY <1>1, <1>6 DEF FilesInv, InPlace
<1> QED BY <1>1, <1>5, <1>7, <1>8 DEF FilesInv, InPlace

(* A batch that is nowhere yet is sent, or waits with the others.            *)
LEMMA UploadKeeps ==
    ASSUME FilesInv, NEW h, HomeOK(h), h.pending = home.pending, h.frames = home.frames,
           IsInjective(LateFiles(h.late)), NEW keyed, NEW files \in Seq(HomeFiles), IsInjective(files),
           (ToSet(home.pending) \cup SentIn(homeUploads)) \cap ToSet(files) = {},
           UploadAssets(h, keyed, files)
    PROVE  /\ HomeOK(home)' /\ UploadsOK(homeUploads)'
           /\ Batches(home.pending, home.late, home.frames, homeUploads)'
           /\ home'.frames = home.frames /\ home'.late = h.late
           /\ \/ /\ ToSet(home.pending)' = ToSet(home.pending) \cup ToSet(files)
                 /\ SentIn(homeUploads)' = SentIn(homeUploads)
              \/ /\ ToSet(home.pending)' = ToSet(home.pending)
                 /\ SentIn(homeUploads)' = SentIn(homeUploads) \cup ToSet(files)
<1>1. /\ UploadsOK(homeUploads) /\ \A u \in DOMAIN homeUploads : IsInjective(homeUploads[u].files)
      /\ \A u, v \in DOMAIN homeUploads :
            u # v => ToSet(homeUploads[u].files) \cap ToSet(homeUploads[v].files) = {}
      /\ IsInjective(home.pending) /\ IsInjective(home.frames)
    BY DEF FilesInv, InPlace, Batches
<1>2. h \in HomeRecord
    BY DEF HomeOK
<1>3. CASE keyed
    <2> DEFINE more == Append(homeUploads, [files |-> files, at |-> 0])
    <2>1. home' = h /\ homeUploads' = more
        BY <1>3 DEF UploadAssets
    <2>2. /\ UploadsOK(more) /\ SentIn(more) = SentIn(homeUploads) \cup ToSet(files)
          /\ \A u \in DOMAIN more : IsInjective(more[u].files)
          /\ \A u, v \in DOMAIN more : u # v => ToSet(more[u].files) \cap ToSet(more[v].files) = {}
        <3>1. ToSet(files) \cap SentIn(homeUploads) = {}
            OBVIOUS
        <3> QED BY <1>1, <3>1, UploadAdded
    <2> HIDE DEF more
    <2>3. Batches(h.pending, h.late, h.frames, more)
        BY <1>1, <2>2 DEF Batches
    <2> QED BY <2>1, <2>2, <2>3
<1>4. CASE ~keyed
    <2> DEFINE a == AuthOpened(h, "signup")
               waits == home.pending \o files
    <2>1. home' = [a EXCEPT !.pending = @ \o files] /\ homeUploads' = homeUploads
        BY <1>4 DEF UploadAssets
    <2>2. /\ a \in HomeRecord /\ a.signing = h.signing /\ a.late = h.late /\ a.sound = h.sound
          /\ a.pending = h.pending /\ a.frames = h.frames
        BY <1>2, AuthOpenedIs
    <2> HIDE DEF a
    <2>3. /\ waits \in Seq(HomeFiles) /\ ToSet(waits) = ToSet(home.pending) \cup ToSet(files)
          /\ IsInjective(waits)
        <3>1. home.pending \in Seq(HomeFiles)
            BY DEF FilesInv, HomeOK, HomeRecord
        <3>2. ToSet(home.pending) \cap ToSet(files) = {}
            OBVIOUS
        <3> QED BY <1>1, <3>1, <3>2, JoinedIs
    <2>4. home' = [a EXCEPT !.pending = waits]
        BY <2>1, <2>2
    <2> HIDE DEF waits
    <2>5. /\ home' \in HomeRecord /\ home'.signing = h.signing /\ home'.late = h.late /\ home'.sound = h.sound
          /\ home'.pending = waits /\ home'.frames = home.frames
        BY <2>2, <2>3, <2>4 DEF HomeRecord
    <2>6. HomeOK(home')
        BY <2>5 DEF HomeOK
    <2>7. Batches(home.pending, home.late, home.frames, homeUploads)'
        BY <1>1, <2>1, <2>3, <2>5 DEF Batches
    <2> QED BY <1>1, <2>1, <2>3, <2>5, <2>6, <2>7
<1> QED BY <1>3, <1>4

LEMMA AddFilesKeeps ==
    ASSUME FilesInv, NEW files, AddFiles(files)
    PROVE  FilesInv'
<1> DEFINE h == [home EXCEPT !.left = @ - 1]
<1> USE HomeBounds
<1>1. /\ HomeOK(home) /\ home \in HomeRecord /\ FateOK(homeFate)
      /\ IsInjective(LateFiles(home.late))
    BY DEF FilesInv, HomeOK, InPlace, Batches
<1>2. /\ home.left > 0 /\ files \in home.visit.batches /\ ToSet(files) \cap homeFate.given = {}
      /\ UploadAssets(h, home.key, files)
      /\ homeFate' = [homeFate EXCEPT !.given = @ \cup ToSet(files)]
    BY DEF AddFiles, HomeGesture
<1>3. files \in Seq(HomeFiles) /\ IsInjective(files)
    BY <1>1, <1>2, HomeVisitAssumption DEF HomeRecord
<1>4. ToSet(files) \subseteq HomePictures
    BY <1>3 DEF ToSet, HomePictures
<1>5. /\ h \in HomeRecord /\ h.signing = home.signing /\ h.late = home.late /\ h.sound = home.sound
      /\ h.pending = home.pending /\ h.frames = home.frames
    <2>1. home.left - 1 \in 0 .. HomeEdits
        BY <1>1, <1>2 DEF HomeRecord
    <2> QED BY <1>1, <2>1 DEF HomeRecord
<1> HIDE DEF h
<1>6. HomeOK(h)
    BY <1>1, <1>5 DEF HomeOK
<1> DEFINE P == ToSet(home.pending)
           L == ToSet(LateFiles(home.late))
           U == SentIn(homeUploads)
           F == ToSet(home.frames)
           N == ToSet(files)
<1>7. Apart(P, L, U, F, homeFate)
    BY DEF FilesInv, InPlace
<1>8. (P \cup U) \cap N = {}
    <2> HIDE DEF P, L, U, F, N
    <2>1. P \cup U \subseteq homeFate.given
        BY <1>7 DEF Apart
    <2> QED BY <1>2, <2>1 DEF N
<1>9. /\ HomeOK(home)' /\ UploadsOK(homeUploads)'
      /\ Batches(home.pending, home.late, home.frames, homeUploads)'
      /\ home'.frames = home.frames /\ home'.late = home.late
      /\ \/ P' = P \cup N /\ U' = U
         \/ P' = P /\ U' = U \cup N
    <2>1. (ToSet(home.pending) \cup SentIn(homeUploads)) \cap ToSet(files) = {} /\ IsInjective(LateFiles(h.late))
        BY <1>1, <1>5, <1>8
    <2> QED BY <1>2, <1>3, <1>5, <1>6, <2>1, UploadKeeps
<1>10. /\ homeFate' \in [given : SUBSET HomePictures, taken : SUBSET HomePictures, told : SUBSET HomeFiles]
       /\ homeFate'.given = homeFate.given \cup N /\ homeFate'.taken = homeFate.taken
       /\ homeFate'.told = homeFate.told
    BY <1>1, <1>2, <1>4 DEF FateOK
<1>11. L' = L /\ F' = F
    BY <1>9
<1>12. Apart(P', L', U', F', homeFate')
    <2>1. N \cap homeFate.given = {}
        BY <1>2
    <2> DEFINE p == P'
               l == L'
               s == U'
               f == F'
    <2>2. ((p = P \cup N /\ s = U) \/ (p = P /\ s = U \cup N)) /\ l = L /\ f = F
        BY <1>9, <1>11
    <2> HIDE DEF P, L, U, F, N, p, l, s, f
    <2>3. Apart(p, l, s, f, homeFate')
        BY <1>7, <1>10, <2>1, <2>2 DEF Apart
    <2> QED BY <2>3 DEF p, l, s, f
<1> QED BY <1>9, <1>10, <1>12 DEF FilesInv, FateOK, InPlace

LEMMA LateUploadKeeps ==
    ASSUME FilesInv, LateUpload
    PROVE  FilesInv'
<1> DEFINE h == [home EXCEPT !.late = <<>>]
           files == home.late[1].files
<1>1. /\ HomeOK(home) /\ home \in HomeRecord /\ FateOK(homeFate)
      /\ IsInjective(LateFiles(home.late))
    BY DEF FilesInv, HomeOK, InPlace, Batches
<1>2. home.late # <<>> /\ UploadAssets(h, home.late[1].keyed, files) /\ homeFate' = homeFate
    BY DEF LateUpload
<1>3. LateFiles(home.late) = files
    BY <1>2 DEF LateFiles
<1>4. files \in Seq(HomeFiles) /\ IsInjective(files)
    <2> DEFINE X == [keyed : BOOLEAN, files : Seq(HomeFiles)]
    <2>1. home.late \in Seq(X)
        BY <1>1 DEF HomeRecord
    <2>2. home.late[1] \in X
        <3> HIDE DEF X
        <3> QED BY <1>2, <2>1
    <2> QED BY <1>1, <1>3, <2>2
<1>5. /\ h \in HomeRecord /\ h.signing = home.signing /\ h.late = <<>> /\ h.sound = home.sound
      /\ h.pending = home.pending /\ h.frames = home.frames
    <2> DEFINE none == <<>>
    <2>1. none \in Seq([keyed : BOOLEAN, files : Seq(HomeFiles)])
        OBVIOUS
    <2>2. h = [home EXCEPT !.late = none]
        OBVIOUS
    <2> HIDE DEF none, h
    <2>3. /\ h \in HomeRecord /\ h.signing = home.signing /\ h.late = none /\ h.sound = home.sound
          /\ h.pending = home.pending /\ h.frames = home.frames
        BY <1>1, <2>1, <2>2 DEF HomeRecord
    <2> QED BY <2>3 DEF none
<1>6. HomeOK(h) /\ LateFiles(h.late) = <<>>
    BY <1>1, <1>5 DEF HomeOK, LateFiles
<1> HIDE DEF h
<1> DEFINE P == ToSet(home.pending)
           L == ToSet(LateFiles(home.late))
           U == SentIn(homeUploads)
           F == ToSet(home.frames)
<1>7. Apart(P, L, U, F, homeFate)
    BY DEF FilesInv, InPlace
<1>8. (P \cup U) \cap L = {}
    <2> HIDE DEF P, L, U, F
    <2> QED BY <1>7 DEF Apart
<1>9. /\ HomeOK(home)' /\ UploadsOK(homeUploads)'
      /\ Batches(home.pending, home.late, home.frames, homeUploads)'
      /\ home'.frames = home.frames /\ home'.late = <<>>
      /\ \/ P' = P \cup L /\ U' = U
         \/ P' = P /\ U' = U \cup L
    <2>1. IsInjective(LateFiles(h.late))
        BY <1>6, NoneIs
    <2>2. (ToSet(home.pending) \cup SentIn(homeUploads)) \cap ToSet(files) = {} /\ L = ToSet(files)
        BY <1>3, <1>8
    <2> HIDE DEF files
    <2> QED BY <1>2, <1>4, <1>5, <1>6, <2>1, <2>2, UploadKeeps
<1>10. L' = {} /\ F' = F
    BY <1>9, NoneIs DEF LateFiles
<1>11. Apart(P', L', U', F', homeFate')
    <2> DEFINE p == P'
               l == L'
               s == U'
               f == F'
    <2>1. ((p = P \cup L /\ s = U) \/ (p = P /\ s = U \cup L)) /\ l = {} /\ f = F
        BY <1>9, <1>10
    <2> HIDE DEF P, L, U, F, p, l, s, f
    <2>2. Apart(p, l, s, f, homeFate')
        BY <1>2, <1>7, <2>1 DEF Apart
    <2> QED BY <2>2 DEF p, l, s, f
<1> QED BY <1>1, <1>2, <1>9, <1>11 DEF FilesInv, InPlace

LEMMA AssetsSentKeeps ==
    ASSUME FilesInv, NEW u, AssetsSent(u)
    PROVE  FilesInv'
<1> DEFINE files == homeUploads[u].files
           pictures == Pictures(files)
           sounds == Without(files, ToSet(pictures))
           frames == Attached(home.frames, pictures)
           sound == IF sounds = <<>> THEN home.sound ELSE <<Head(sounds)>>
           U == SentIn(homeUploads)
           F == ToSet(home.frames)
           N == ToSet(files)
<1>1. /\ HomeOK(home) /\ home \in HomeRecord /\ UploadsOK(homeUploads) /\ FateOK(homeFate)
      /\ Batches(home.pending, home.late, home.frames, homeUploads)
      /\ Apart(ToSet(home.pending), ToSet(LateFiles(home.late)), U, F, homeFate)
    BY DEF FilesInv, HomeOK, InPlace
<1>2. /\ u \in DOMAIN homeUploads /\ home' = [home EXCEPT !.frames = frames, !.sound = sound]
      /\ homeUploads' = RemoveAt(homeUploads, u) /\ homeFate' = homeFate
    BY DEF AssetsSent
<1>3. /\ UploadsOK(homeUploads)' /\ U' = U \ N
      /\ \A v \in DOMAIN homeUploads' : IsInjective(homeUploads'[v].files)
      /\ \A v, w \in DOMAIN homeUploads' :
            v # w => ToSet(homeUploads'[v].files) \cap ToSet(homeUploads'[w].files) = {}
    BY <1>1, <1>2, UploadGone DEF Batches
<1>4. files \in Seq(HomeFiles) /\ IsInjective(files) /\ N \subseteq U
    <2>1. homeUploads[u] \in UploadRecord
        BY <1>1, <1>2 DEF UploadsOK
    <2> QED BY <1>1, <1>2, <2>1 DEF Batches, UploadRecord, SentIn
<1> HIDE DEF files
<1>5. pictures \in Seq(HomeFiles) /\ ToSet(pictures) = N \ HomeSounds /\ IsInjective(pictures)
    BY <1>4, WithoutIs DEF Pictures
<1> HIDE DEF pictures
<1>6. sound \in Seq(HomeFiles) /\ Len(sound) <= 1
    <2>1. sounds \in Seq(HomeFiles)
        BY <1>4, WithoutIs
    <2>2. CASE sounds = <<>>
        BY <1>1, <2>2 DEF HomeOK, HomeRecord
    <2>3. CASE sounds # <<>>
        <3>1. Head(sounds) \in HomeFiles
            <4> HIDE DEF sounds
            <4> QED BY <2>1, <2>3
        <3>2. <<Head(sounds)>> \in Seq(HomeFiles) /\ Len(<<Head(sounds)>>) = 1
            <4> HIDE DEF sounds
            <4> QED BY <3>1
        <3> QED BY <2>3, <3>2
    <2> QED BY <2>2, <2>3
<1> HIDE DEF sound, sounds
<1>7. /\ frames \in Seq(HomePictures) /\ IsInjective(frames)
      /\ ToSet(frames) = F \cup (N \ HomeSounds)
    <2> DEFINE more == Without(pictures, F)
    <2>1. frames = home.frames \o more
        BY DEF Attached
    <2>2. more \in Seq(HomeFiles) /\ ToSet(more) = ToSet(pictures) \ F /\ IsInjective(more)
        BY <1>5, WithoutIs
    <2>3. more \in Seq(HomePictures)
        <3>1. HomeFiles \subseteq HomePictures
            BY DEF HomePictures
        <3> HIDE DEF more
        <3> QED BY <2>2, <3>1
    <2>4. home.frames \in Seq(HomePictures) /\ IsInjective(home.frames)
        BY <1>1 DEF HomeRecord, Batches
    <2>5. F \cap ToSet(more) = {}
        BY <2>2
    <2> HIDE DEF more
    <2>6. /\ home.frames \o more \in Seq(HomePictures) /\ ToSet(home.frames \o more) = F \cup ToSet(more)
          /\ IsInjective(home.frames \o more)
        BY <2>2, <2>3, <2>4, <2>5, JoinedIs
    <2> QED BY <1>5, <2>1, <2>2, <2>6
<1> HIDE DEF frames
<1>8. /\ home' \in HomeRecord /\ home'.frames = frames /\ home'.sound = sound /\ home'.signing = home.signing
      /\ home'.late = home.late /\ home'.pending = home.pending
    BY <1>1, <1>2, <1>6, <1>7 DEF HomeRecord
<1>9. HomeOK(home')
    BY <1>1, <1>6, <1>8 DEF HomeOK
<1>10. Batches(home.pending, home.late, home.frames, homeUploads)'
    BY <1>1, <1>3, <1>7, <1>8 DEF Batches
<1>11. Apart(ToSet(home.pending), ToSet(LateFiles(home.late)), U \ N, F \cup (N \ HomeSounds), homeFate)
    <2> DEFINE P == ToSet(home.pending)
               L == ToSet(LateFiles(home.late))
    <2>1. Apart(P, L, U, F, homeFate) /\ N \subseteq U
        BY <1>1, <1>4
    <2> HIDE DEF P, L, U, F, N
    <2>2. Apart(P, L, U \ N, F \cup (N \ HomeSounds), homeFate)
        BY <2>1 DEF Apart
    <2> QED BY <2>2 DEF P, L
<1>12. Apart(ToSet(home.pending), ToSet(LateFiles(home.late)), U, F, homeFate)'
    <2>1. F' = F \cup (N \ HomeSounds)
        BY <1>7, <1>8
    <2> QED BY <1>2, <1>3, <1>8, <1>11, <2>1
<1> QED BY <1>1, <1>2, <1>3, <1>9, <1>10, <1>12 DEF FilesInv, FateOK, InPlace

LEMMA AssetsFailKeeps ==
    ASSUME FilesInv, NEW u, AssetsFail(u)
    PROVE  FilesInv'
<1> DEFINE files == homeUploads[u].files
           P == ToSet(home.pending)
           L == ToSet(LateFiles(home.late))
           U == SentIn(homeUploads)
           F == ToSet(home.frames)
           N == ToSet(files)
<1>1. /\ HomeOK(home) /\ UploadsOK(homeUploads) /\ FateOK(homeFate)
      /\ Batches(home.pending, home.late, home.frames, homeUploads)
      /\ Apart(P, L, U, F, homeFate)
    BY DEF FilesInv, InPlace
<1>2. /\ u \in DOMAIN homeUploads /\ home' = home
      /\ homeUploads' = RemoveAt(homeUploads, u) /\ homeFate' = [homeFate EXCEPT !.told = @ \cup N]
    BY DEF AssetsFail
<1>3. /\ UploadsOK(homeUploads)' /\ U' = U \ N
      /\ \A v \in DOMAIN homeUploads' : IsInjective(homeUploads'[v].files)
      /\ \A v, w \in DOMAIN homeUploads' :
            v # w => ToSet(homeUploads'[v].files) \cap ToSet(homeUploads'[w].files) = {}
    BY <1>1, <1>2, UploadGone DEF Batches
<1>4. N \subseteq HomeFiles /\ N \subseteq U
    <2>1. homeUploads[u] \in UploadRecord
        BY <1>1, <1>2 DEF UploadsOK
    <2>2. files \in Seq(HomeFiles)
        BY <2>1 DEF UploadRecord
    <2> HIDE DEF files
    <2>3. ToSet(files) \subseteq HomeFiles
        BY <2>2 DEF ToSet
    <2> QED BY <1>2, <2>3 DEF SentIn, files
<1>5. /\ FateOK(homeFate') /\ homeFate'.given = homeFate.given /\ homeFate'.taken = homeFate.taken
      /\ homeFate'.told = homeFate.told \cup N
    <2> HIDE DEF N
    <2> QED BY <1>1, <1>2, <1>4 DEF FateOK
<1>6. Batches(home.pending, home.late, home.frames, homeUploads)'
    BY <1>1, <1>2, <1>3 DEF Batches
<1>7. Apart(P, L, U \ N, F, homeFate')
    <2> HIDE DEF P, L, U, F, N
    <2> QED BY <1>1, <1>4, <1>5 DEF Apart
<1>8. Apart(P, L, U, F, homeFate)'
    BY <1>2, <1>3, <1>7
<1> QED BY <1>1, <1>2, <1>3, <1>5, <1>6, <1>8 DEF FilesInv, InPlace

(* No file is a picture of the gallery.                                      *)
LEMMA OwnFiles ==
    ASSUME FilesInv
    PROVE  /\ (ToSet(home.pending) \cup ToSet(LateFiles(home.late)) \cup SentIn(homeUploads)) \cap HomeGallery = {}
           /\ homeFate.told \cap HomeGallery = {}
<1>1. \A s \in Seq(HomeFiles) : ToSet(s) \subseteq HomeFiles
    BY DEF ToSet
<1>2. home.pending \in Seq(HomeFiles)
    BY DEF FilesInv, HomeOK, HomeRecord
<1>3. LateFiles(home.late) \in Seq(HomeFiles)
    <2> DEFINE X == [keyed : BOOLEAN, files : Seq(HomeFiles)]
    <2>1. home.late \in Seq(X)
        BY DEF FilesInv, HomeOK, HomeRecord
    <2>2. home.late # <<>> => home.late[1] \in X
        <3> HIDE DEF X
        <3> QED BY <2>1
    <2> QED BY <2>2 DEF LateFiles
<1>4. \A u \in DOMAIN homeUploads : homeUploads[u].files \in Seq(HomeFiles)
    <2>1. \A u \in DOMAIN homeUploads : homeUploads[u] \in UploadRecord
        BY DEF FilesInv, UploadsOK
    <2> QED BY <2>1 DEF UploadRecord
<1>5. SentIn(homeUploads) \subseteq HomeFiles
    BY <1>1, <1>4 DEF SentIn
<1>6. homeFate.told \subseteq HomeFiles
    BY DEF FilesInv, FateOK
<1> QED BY <1>1, <1>2, <1>3, <1>5, <1>6, HomeVisitAssumption

(* A gesture that changes the frames, and the history of the pictures.       *)
LEMMA FramesChange ==
    ASSUME FilesInv, home.left > 0, NEW frames \in Seq(HomePictures), IsInjective(frames),
           NEW h, h = [home EXCEPT !.frames = frames, !.left = @ - 1]
    PROVE  /\ h \in HomeRecord /\ HomeOK(h) /\ h.frames = frames
           /\ h.pending = home.pending /\ h.late = home.late /\ h.signing = home.signing /\ h.sound = home.sound
           /\ Batches(h.pending, h.late, frames, homeUploads)
<1> USE HomeBounds
<1>1. /\ HomeOK(home) /\ home \in HomeRecord /\ Batches(home.pending, home.late, home.frames, homeUploads)
    BY DEF FilesInv, HomeOK, InPlace
<1>2. home.left - 1 \in 0 .. HomeEdits
    BY <1>1 DEF HomeRecord
<1>3. /\ h \in HomeRecord /\ h.frames = frames /\ h.pending = home.pending /\ h.late = home.late
      /\ h.signing = home.signing /\ h.sound = home.sound
    BY <1>1, <1>2 DEF HomeRecord
<1> QED BY <1>1, <1>3 DEF HomeOK, Batches

LEMMA FramesKeep ==
    ASSUME FilesInv, home.left > 0, NEW frames \in Seq(HomePictures), IsInjective(frames),
           home' = [home EXCEPT !.frames = frames, !.left = @ - 1], UNCHANGED homeUploads,
           FateOK(homeFate'), homeFate'.told = homeFate.told,
           \/ /\ ToSet(frames) \subseteq ToSet(home.frames)
              /\ homeFate'.given = homeFate.given
              /\ homeFate'.taken = homeFate.taken \cup (ToSet(home.frames) \ ToSet(frames))
           \/ \E g \in HomeGallery : /\ ToSet(frames) = ToSet(home.frames) \cup {g}
                                     /\ homeFate'.given = homeFate.given \cup {g}
                                     /\ homeFate'.taken = homeFate.taken \ {g}
    PROVE  FilesInv'
<1> DEFINE P == ToSet(home.pending)
           L == ToSet(LateFiles(home.late))
           U == SentIn(homeUploads)
           F == ToSet(home.frames)
           N == ToSet(frames)
<1>1. /\ HomeOK(home') /\ home'.frames = frames /\ home'.pending = home.pending /\ home'.late = home.late
      /\ Batches(home'.pending, home'.late, frames, homeUploads)
    BY FramesChange
<1>2. UploadsOK(homeUploads) /\ FateOK(homeFate) /\ Apart(P, L, U, F, homeFate)
    BY DEF FilesInv, InPlace
<1>3. (P \cup L \cup U) \cap HomeGallery = {} /\ homeFate.told \cap HomeGallery = {}
    BY OwnFiles
<1>4. Apart(P, L, U, N, homeFate')
    <2> DEFINE fate == homeFate
               then == homeFate'
    <2>1. then.told = fate.told
        OBVIOUS
    <2>2. CASE N \subseteq F /\ then.given = fate.given /\ then.taken = fate.taken \cup (F \ N)
        <3> HIDE DEF P, L, U, F, N, fate, then
        <3>1. Apart(P, L, U, F, fate)
            BY <1>2 DEF fate
        <3>2. Apart(P, L, U, N, then)
            BY <2>1, <2>2, <3>1 DEF Apart
        <3> QED BY <3>2 DEF then
    <2>3. ASSUME NEW g \in HomeGallery, N = F \cup {g}, then.given = fate.given \cup {g},
                 then.taken = fate.taken \ {g}
          PROVE  Apart(P, L, U, N, homeFate')
        <3>1. g \notin P \cup L \cup U \cup fate.told
            BY <1>3
        <3> HIDE DEF P, L, U, F, N, fate, then
        <3>2. Apart(P, L, U, F, fate)
            BY <1>2 DEF fate
        <3>3. Apart(P, L, U, N, then)
            BY <2>1, <2>3, <3>1, <3>2 DEF Apart
        <3> QED BY <3>3 DEF then
    <2> QED BY <2>2, <2>3
<1> QED BY <1>1, <1>2, <1>4 DEF FilesInv, InPlace

LEMMA GestureFrames ==
    ASSUME FilesInv,
           \/ \E f \in ToSet(home.frames) : RemoveFrame(f)
           \/ PromptForSimilar
           \/ \E i, j \in DOMAIN home.frames : ReorderFrames(i, j)
    PROVE  FilesInv'
<1>1. home.frames \in Seq(HomePictures) /\ IsInjective(home.frames) /\ FateOK(homeFate)
    BY DEF FilesInv, HomeOK, HomeRecord, InPlace, Batches
<1>2. ToSet(home.frames) \subseteq HomePictures
    BY <1>1 DEF ToSet
<1>3. ASSUME NEW f \in ToSet(home.frames), RemoveFrame(f)
      PROVE  FilesInv'
    <2> DEFINE frames == Without(home.frames, {f})
    <2>1. frames \in Seq(HomePictures) /\ IsInjective(frames) /\ ToSet(frames) = ToSet(home.frames) \ {f}
        BY <1>1, WithoutIs
    <2>2. /\ home.left > 0 /\ home' = [home EXCEPT !.frames = frames, !.left = @ - 1]
          /\ homeFate' = [homeFate EXCEPT !.taken = @ \cup {f}] /\ UNCHANGED homeUploads
        BY <1>3 DEF RemoveFrame, HomeGesture
    <2> HIDE DEF frames
    <2>3. /\ FateOK(homeFate') /\ homeFate'.told = homeFate.told /\ homeFate'.given = homeFate.given
          /\ homeFate'.taken = homeFate.taken \cup {f}
        BY <1>1, <1>2, <2>2 DEF FateOK
    <2>4. /\ ToSet(frames) \subseteq ToSet(home.frames) /\ {f} = ToSet(home.frames) \ ToSet(frames)
        BY <2>1
    <2> QED BY <2>1, <2>2, <2>3, <2>4, FramesKeep
<1>4. CASE PromptForSimilar
    <2> DEFINE none == <<>>
    <2>1. none \in Seq(HomePictures) /\ IsInjective(none) /\ ToSet(none) = {}
        BY NoneIs
    <2>2. /\ home.left > 0 /\ home' = [home EXCEPT !.frames = none, !.left = @ - 1]
          /\ homeFate' = [homeFate EXCEPT !.taken = @ \cup ToSet(home.frames)] /\ UNCHANGED homeUploads
        BY <1>4 DEF PromptForSimilar, HomeGesture
    <2> HIDE DEF none
    <2>3. /\ FateOK(homeFate') /\ homeFate'.told = homeFate.told /\ homeFate'.given = homeFate.given
          /\ homeFate'.taken = homeFate.taken \cup (ToSet(home.frames) \ ToSet(none))
        BY <1>1, <1>2, <2>1, <2>2 DEF FateOK
    <2> QED BY <2>1, <2>2, <2>3, FramesKeep
<1>5. ASSUME NEW i \in DOMAIN home.frames, NEW j \in DOMAIN home.frames, ReorderFrames(i, j)
      PROVE  FilesInv'
    <2> DEFINE frames == InsertAt(RemoveAt(home.frames, i), j, home.frames[i])
    <2>1. frames \in Seq(HomePictures) /\ IsInjective(frames) /\ ToSet(frames) = ToSet(home.frames)
        BY <1>1, ReorderedIs
    <2>2. /\ home.left > 0 /\ home' = [home EXCEPT !.frames = frames, !.left = @ - 1]
          /\ homeFate' = homeFate /\ UNCHANGED homeUploads
        BY <1>5 DEF ReorderFrames, HomeGesture
    <2> HIDE DEF frames
    <2>3. homeFate'.taken = homeFate.taken \cup (ToSet(home.frames) \ ToSet(frames))
        BY <2>1, <2>2
    <2> QED BY <1>1, <2>1, <2>2, <2>3, FramesKeep
<1> QED BY <1>3, <1>4, <1>5

LEMMA ChosenIs ==
    ASSUME NEW frames \in Seq(HomePictures), IsInjective(frames), NEW g \in HomeGallery,
           NEW chosen \in {ChosenLast(g, frames), Chosen1st(g, frames)}
    PROVE  chosen \in Seq(HomePictures) /\ IsInjective(chosen) /\ ToSet(chosen) = ToSet(frames) \cup {g}
<1>1. g \in HomePictures
    BY DEF HomePictures
<1>2. CASE chosen = ChosenLast(g, frames) /\ g \in ToSet(frames)
    BY <1>2 DEF ChosenLast
<1>3. CASE chosen = ChosenLast(g, frames) /\ g \notin ToSet(frames)
    <2>1. chosen = Append(frames, g)
        BY <1>3 DEF ChosenLast
    <2> QED BY <1>1, <1>3, <2>1, AddedIs
<1>4. CASE chosen = Chosen1st(g, frames)
    <2> DEFINE rest == Without(frames, {g})
               first == <<g>>
    <2>1. rest \in Seq(HomePictures) /\ IsInjective(rest) /\ ToSet(rest) = ToSet(frames) \ {g}
        BY WithoutIs
    <2>2. first \in Seq(HomePictures) /\ IsInjective(first) /\ ToSet(first) = {g}
        BY <1>1, OneIs
    <2>3. chosen = first \o rest
        BY <1>4 DEF Chosen1st
    <2> HIDE DEF first, rest
    <2>4. /\ first \o rest \in Seq(HomePictures) /\ ToSet(first \o rest) = ToSet(first) \cup ToSet(rest)
          /\ IsInjective(first \o rest)
        BY <2>1, <2>2, JoinedIs
    <2> QED BY <2>1, <2>2, <2>3, <2>4
<1> QED BY <1>2, <1>3, <1>4

LEMMA PickGalleryKeeps ==
    ASSUME FilesInv, NEW g \in HomeGallery, NEW frames, PickGallery(g, frames)
    PROVE  FilesInv'
<1>1. home.frames \in Seq(HomePictures) /\ IsInjective(home.frames) /\ FateOK(homeFate) /\ g \in HomePictures
    BY DEF FilesInv, HomeOK, HomeRecord, InPlace, Batches, HomePictures
<1>2. /\ home.left > 0 /\ frames \in {ChosenLast(g, home.frames), Chosen1st(g, home.frames)}
      /\ home' = [home EXCEPT !.frames = frames, !.left = @ - 1] /\ UNCHANGED homeUploads
      /\ homeFate' = [homeFate EXCEPT !.given = @ \cup {g}, !.taken = @ \ {g}]
    BY DEF PickGallery, HomeGesture
<1>3. frames \in Seq(HomePictures) /\ IsInjective(frames) /\ ToSet(frames) = ToSet(home.frames) \cup {g}
    BY <1>1, <1>2, ChosenIs
<1>4. /\ FateOK(homeFate') /\ homeFate'.told = homeFate.told /\ homeFate'.given = homeFate.given \cup {g}
      /\ homeFate'.taken = homeFate.taken \ {g}
    BY <1>1, <1>2 DEF FateOK
<1> QED BY <1>2, <1>3, <1>4, FramesKeep

(* Signed in or not, a gallery picture that is animated is among the frames. *)
LEMMA AnimateKeeps ==
    ASSUME FilesInv, NEW g \in HomeGallery, NEW mode, NEW upscale, AnimateGallery(g, mode, upscale)
    PROVE  FilesInv'
<1> DEFINE frames == ChosenLast(g, home.frames)
           h == [home EXCEPT !.frames = frames, !.left = @ - 1]
           P == ToSet(home.pending)
           L == ToSet(LateFiles(home.late))
           U == SentIn(homeUploads)
<1>1. home.frames \in Seq(HomePictures) /\ IsInjective(home.frames) /\ FateOK(homeFate) /\ g \in HomePictures
    BY DEF FilesInv, HomeOK, HomeRecord, InPlace, Batches, HomePictures
<1>2. /\ home.left > 0 /\ UNCHANGED homeUploads
      /\ home' = h \/ home' = AuthOpened(h, "signup")
      /\ homeFate' = [homeFate EXCEPT !.given = @ \cup {g}, !.taken = @ \ {g}]
    BY DEF AnimateGallery, HomeGesture, GenerateHome
<1>3. frames \in Seq(HomePictures) /\ IsInjective(frames) /\ ToSet(frames) = ToSet(home.frames) \cup {g}
    BY <1>1, ChosenIs
<1>4. /\ FateOK(homeFate') /\ homeFate'.told = homeFate.told /\ homeFate'.given = homeFate.given \cup {g}
      /\ homeFate'.taken = homeFate.taken \ {g}
    BY <1>1, <1>2 DEF FateOK
<1> HIDE DEF frames
<1>5. /\ h \in HomeRecord /\ HomeOK(h) /\ h.frames = frames
      /\ h.pending = home.pending /\ h.late = home.late /\ h.signing = home.signing /\ h.sound = home.sound
      /\ Batches(h.pending, h.late, frames, homeUploads)
    BY <1>2, <1>3, FramesChange
<1>6. /\ home' \in HomeRecord /\ HomeOK(home') /\ home'.frames = frames
      /\ home'.pending = home.pending /\ home'.late = home.late
    <2> HIDE DEF h
    <2>1. LET a == AuthOpened(h, "signup")
          IN /\ a \in HomeRecord /\ a.signing = h.signing /\ a.late = h.late /\ a.sound = h.sound
             /\ a.pending = h.pending /\ a.frames = h.frames
        BY <1>5, AuthOpenedIs
    <2> QED BY <1>2, <1>5, <2>1 DEF HomeOK
<1>7. Batches(home.pending, home.late, home.frames, homeUploads)'
    BY <1>2, <1>5, <1>6
<1>8. Apart(P, L, U, ToSet(home.frames), homeFate)
    BY DEF FilesInv, InPlace
<1>9. g \notin P \cup L \cup U \cup homeFate.told
    BY OwnFiles
<1>10. Apart(P, L, U, ToSet(frames), homeFate')
    <2> DEFINE fate == homeFate
               then == homeFate'
               F == ToSet(home.frames)
               N == ToSet(frames)
    <2>1. /\ then.told = fate.told /\ then.given = fate.given \cup {g} /\ then.taken = fate.taken \ {g}
          /\ N = F \cup {g} /\ g \notin P \cup L \cup U \cup fate.told /\ Apart(P, L, U, F, fate)
        BY <1>3, <1>4, <1>8, <1>9
    <2> HIDE DEF fate, then, F, N, P, L, U
    <2>2. Apart(P, L, U, N, then)
        BY <2>1 DEF Apart
    <2> QED BY <2>2 DEF then, N
<1> QED BY <1>2, <1>4, <1>6, <1>7, <1>10 DEF FilesInv, InPlace

LEMMA SignedInKeeps ==
    ASSUME FilesInv, NEW created \in BOOLEAN, SignedIn(created)
    PROVE  FilesInv'
<1> DEFINE late == IF home.pending = <<>> THEN <<>>
                   ELSE <<[keyed |-> home.signing[1].keyed, files |-> home.pending]>>
           dialog == IF (created \/ home.signing[1].mode = "signup") /\ home.dialog # "closed"
                     THEN "plans" ELSE "closed"
           none == <<>>
           P == ToSet(home.pending)
           L == ToSet(LateFiles(home.late))
           U == SentIn(homeUploads)
           F == ToSet(home.frames)
<1>1. /\ HomeOK(home) /\ home \in HomeRecord /\ Batches(home.pending, home.late, home.frames, homeUploads)
      /\ Apart(P, L, U, F, homeFate)
    BY DEF FilesInv, HomeOK, InPlace
<1>2. /\ home.signing # <<>> /\ UNCHANGED <<homeUploads, homeFate>>
      /\ home' = [home EXCEPT !.key = TRUE, !.signing = none, !.pending = none, !.late = late, !.dialog = dialog]
    BY DEF SignedIn
<1>3. home.late = <<>> /\ L = {}
    BY <1>1, <1>2, NoneIs DEF HomeOK, LateFiles
<1>4. LateFiles(late) = home.pending
    BY DEF LateFiles
<1>5. late \in Seq([keyed : BOOLEAN, files : Seq(HomeFiles)]) /\ Len(late) <= 1
    <2> DEFINE X == [keyed : BOOLEAN, mode : {"signup", "signin"}]
               Y == [keyed : BOOLEAN, files : Seq(HomeFiles)]
               one == [keyed |-> home.signing[1].keyed, files |-> home.pending]
    <2>1. home.signing[1] \in X
        <3>1. home.signing \in Seq(X)
            BY <1>1 DEF HomeRecord
        <3> HIDE DEF X
        <3> QED BY <1>2, <3>1
    <2>2. one \in Y
        BY <1>1, <2>1 DEF HomeRecord
    <2>3. <<one>> \in Seq(Y) /\ Len(<<one>>) <= 1 /\ <<>> \in Seq(Y) /\ Len(<<>>) <= 1
        <3> HIDE DEF one, Y
        <3> QED BY <2>2
    <2> QED BY <2>3
<1>6. dialog \in {"closed", "form", "plans"}
    OBVIOUS
<1>7. /\ none \in Seq(HomeFiles) /\ none \in Seq([keyed : BOOLEAN, mode : {"signup", "signin"}])
      /\ ToSet(none) = {} /\ IsInjective(none) /\ none = <<>> /\ Len(none) <= 1
    BY NoneIs
<1> HIDE DEF late, dialog, none
<1>8. /\ home' \in HomeRecord /\ home'.signing = none /\ home'.pending = none /\ home'.late = late
      /\ home'.frames = home.frames /\ home'.sound = home.sound
    BY <1>1, <1>2, <1>5, <1>6, <1>7 DEF HomeRecord
<1>9. HomeOK(home')
    BY <1>1, <1>5, <1>7, <1>8 DEF HomeOK
<1>10. Batches(home.pending, home.late, home.frames, homeUploads)'
    BY <1>1, <1>2, <1>4, <1>7, <1>8 DEF Batches
<1>11. Apart({}, P, U, F, homeFate)
    <2> HIDE DEF P, L, U, F
    <2> QED BY <1>1, <1>3 DEF Apart
<1>12. Apart(ToSet(home.pending), ToSet(LateFiles(home.late)), SentIn(homeUploads), ToSet(home.frames), homeFate)'
    BY <1>2, <1>4, <1>7, <1>8, <1>11
<1> QED BY <1>2, <1>9, <1>10, <1>12 DEF FilesInv, InPlace

LEMMA ClickKeepsFiles ==
    ASSUME FilesInv, NEW mode, NEW upscale, ClickGenerate(mode, upscale)
    PROVE  FilesInv'
<1> USE HomeBounds
<1> DEFINE a == AuthOpened(home, "signup")
<1>1. HomeOK(home) /\ home \in HomeRecord
    BY DEF FilesInv, HomeOK
<1>2. /\ home.left > 0 /\ UNCHANGED <<homeUploads, homeFate>>
      /\ home' = [home EXCEPT !.left = @ - 1] \/ home' = [a EXCEPT !.left = @ - 1]
    BY DEF ClickGenerate, HomeGesture, GenerateHome
<1>3. /\ a \in HomeRecord /\ a.signing = home.signing /\ a.late = home.late /\ a.sound = home.sound
      /\ a.pending = home.pending /\ a.frames = home.frames /\ a.left = home.left
    BY <1>1, AuthOpenedIs
<1> HIDE DEF a
<1>4. home.left - 1 \in 0 .. HomeEdits
    BY <1>1, <1>2 DEF HomeRecord
<1>5. /\ home' \in HomeRecord /\ home'.signing = home.signing /\ home'.late = home.late
      /\ home'.sound = home.sound /\ home'.pending = home.pending /\ home'.frames = home.frames
    <2>1. CASE home' = [home EXCEPT !.left = @ - 1]
        BY <1>1, <1>4, <2>1 DEF HomeRecord
    <2>2. CASE home' = [a EXCEPT !.left = @ - 1]
        BY <1>3, <1>4, <2>2 DEF HomeRecord
    <2> QED BY <1>2, <2>1, <2>2
<1> QED BY <1>1, <1>2, <1>5, FilesStay DEF HomeOK

(* ------------------------------------------------------------ generations -- *)

TaskRecord ==
    [pc : {"image", "gallery", "anchor", "post", "poll", "enlarge", "pollLarge", "refresh", "end"},
     upscale : BOOLEAN, polls : 0 .. HomePolls,
     card : {"starting", "queued", "processing", "upscaling", "completed", "failed", "off"}]

CardsOf(tasks) == {i \in DOMAIN tasks : tasks[i].card # "off"}

TasksOK(tasks) ==
    /\ tasks \in Seq(TaskRecord)
    /\ IsFiniteSet(CardsOf(tasks)) /\ Cardinality(CardsOf(tasks)) <= HomeCards

LEMMA TaskChanges ==
    ASSUME TasksOK(homeTasks), NEW i \in DOMAIN homeTasks, NEW t \in TaskRecord,
           homeTasks[i].card = "off" => t.card = "off", homeTasks' = [homeTasks EXCEPT ![i] = t]
    PROVE  TasksOK(homeTasks')
<1>1. homeTasks \in Seq(TaskRecord) /\ IsFiniteSet(CardsOf(homeTasks))
    BY DEF TasksOK
<1>2. /\ homeTasks' \in Seq(TaskRecord) /\ DOMAIN homeTasks' = DOMAIN homeTasks
      /\ homeTasks'[i] = t /\ \A j \in DOMAIN homeTasks : j # i => homeTasks'[j] = homeTasks[j]
    BY <1>1
<1>3. CardsOf(homeTasks') \subseteq CardsOf(homeTasks)
    BY <1>2 DEF CardsOf
<1> DEFINE S == CardsOf(homeTasks)
           T == CardsOf(homeTasks')
<1>4. /\ IsFiniteSet(T) /\ Cardinality(T) <= Cardinality(S)
      /\ Cardinality(S) \in Nat /\ Cardinality(T) \in Nat
    <2> HIDE DEF S, T
    <2>1. IsFiniteSet(S) /\ T \subseteq S
        BY <1>1, <1>3 DEF S, T
    <2> QED BY <2>1, FS_Subset, FS_CardinalityType
<1>5. Cardinality(S) <= HomeCards
    BY DEF TasksOK
<1> HIDE DEF S, T
<1>6. Cardinality(T) <= HomeCards
    BY <1>4, <1>5, HomeBounds
<1> QED BY <1>2, <1>4, <1>6 DEF TasksOK, T

LEMMA CardChosen ==
    ASSUME TasksOK(homeTasks), NEW new \in TaskRecord, new.card = "starting"
    PROVE  TasksOK(WithCard(new))
<1> DEFINE n == Len(homeTasks)
           S == CardsOf(homeTasks)
           full == Cardinality(S) >= HomeCards
           oldest == CHOOSE i \in S : \A j \in S : i <= j
           base == IF full THEN [homeTasks EXCEPT ![oldest].card = "off"] ELSE homeTasks
           more == WithCard(new)
           kept == IF full THEN S \ {oldest} ELSE S
<1>1. more = Append(base, new)
    BY DEF WithCard, Carded, CardsOf
<1>2. /\ homeTasks \in Seq(TaskRecord) /\ IsFiniteSet(S) /\ Cardinality(S) <= HomeCards
      /\ n \in Nat /\ DOMAIN homeTasks = 1 .. n /\ S \subseteq 1 .. n
    BY DEF TasksOK, CardsOf
<1>3. full => oldest \in S
    <2>1. ASSUME full PROVE S # {}
        <3>1. Cardinality(S) # 0
            <4> HIDE DEF S
            <4> QED BY <1>2, <2>1, HomeBounds, FS_CardinalityType
        <3> HIDE DEF S
        <3> QED BY <3>1, FS_EmptySet
    <2>2. ASSUME full PROVE \E i \in S : \A j \in S : i <= j
        <3>1. S \subseteq Nat /\ S # {}
            BY <1>2, <2>1, <2>2
        <3> HIDE DEF S
        <3> QED BY <3>1, LeastNat
    <2> HIDE DEF S
    <2> QED BY <2>2
<1>4. /\ base \in Seq(TaskRecord) /\ Len(base) = n /\ CardsOf(base) = kept
    <2>1. CASE full
        <3> DEFINE t == [homeTasks[oldest] EXCEPT !.card = "off"]
        <3>1. oldest \in 1 .. n /\ homeTasks[oldest] \in TaskRecord
            BY <1>2, <1>3, <2>1
        <3>2. t \in TaskRecord /\ t.card = "off"
            BY <3>1 DEF TaskRecord
        <3>3. base = [homeTasks EXCEPT ![oldest] = t]
            BY <2>1
        <3> HIDE DEF t, oldest, base
        <3>4. /\ base \in Seq(TaskRecord) /\ Len(base) = n /\ DOMAIN base = 1 .. n /\ base[oldest] = t
              /\ \A j \in 1 .. n : j # oldest => base[j] = homeTasks[j]
            BY <1>2, <3>1, <3>2, <3>3
        <3>5. CardsOf(base) = S \ {oldest}
            <4> HIDE DEF n
            <4> QED BY <1>2, <3>1, <3>2, <3>4 DEF CardsOf
        <3> QED BY <2>1, <3>4, <3>5
    <2>2. CASE ~full
        BY <1>2, <2>2
    <2> QED BY <2>1, <2>2
<1>5. IsFiniteSet(kept) /\ Cardinality(kept) \in Nat /\ Cardinality(kept) + 1 <= HomeCards
    <2>1. Cardinality(S) \in Nat
        BY <1>2, FS_CardinalityType
    <2>2. CASE full
        <3>1. IsFiniteSet(S) /\ oldest \in S
            BY <1>2, <1>3, <2>2
        <3> HIDE DEF S, oldest
        <3>2. IsFiniteSet(S \ {oldest}) /\ Cardinality(S \ {oldest}) = Cardinality(S) - 1
            BY <3>1, FS_RemoveElement
        <3>3. Cardinality(S \ {oldest}) \in Nat
            BY <3>2, FS_CardinalityType
        <3> QED BY <1>2, <2>1, <2>2, <3>2, <3>3, HomeBounds
    <2>3. CASE ~full
        <3> HIDE DEF S
        <3> QED BY <1>2, <2>1, <2>3, HomeBounds
    <2> QED BY <2>2, <2>3
<1> HIDE DEF base, kept, more, S, full, oldest
<1>6. /\ more \in Seq(TaskRecord) /\ DOMAIN more = 1 .. n + 1 /\ more[n + 1] = new
      /\ \A j \in 1 .. n : more[j] = base[j]
      /\ DOMAIN base = 1 .. n
    BY <1>1, <1>2, <1>4
<1>7. CardsOf(more) = kept \cup {n + 1} /\ n + 1 \notin kept
    <2>1. \A j \in 1 .. n + 1 : j \in 1 .. n \/ j = n + 1
        BY <1>2
    <2>2. \A j \in 1 .. n : j \in 1 .. n + 1 /\ j # n + 1
        BY <1>2
    <2>3. n + 1 \in 1 .. n + 1
        BY <1>2
    <2> HIDE DEF n
    <2> QED BY <1>4, <1>6, <2>1, <2>2, <2>3 DEF CardsOf
<1>8. IsFiniteSet(CardsOf(more)) /\ Cardinality(CardsOf(more)) = Cardinality(kept) + 1
    BY <1>5, <1>7, FS_AddElement
<1>9. TasksOK(more)
    BY <1>5, <1>6, <1>8 DEF TasksOK
<1> QED BY <1>9 DEF more

LEMMA GenerationBegins ==
    ASSUME TasksOK(homeTasks), NEW mode, NEW upscale \in BOOLEAN, NEW frames, GenerateHome(mode, upscale, frames)
    PROVE  TasksOK(homeTasks')
<1> DEFINE new == [pc |-> FirstCall(mode, frames), upscale |-> upscale, polls |-> 0, card |-> "starting"]
<1>1. FirstCall(mode, frames) \in {"image", "anchor", "post"}
    BY DEF FirstCall
<1>2. new \in TaskRecord /\ new.card = "starting"
    BY <1>1, HomeBounds DEF TaskRecord
<1>3. homeTasks' = WithCard(new)
    BY DEF GenerateHome
<1> QED BY <1>2, <1>3, CardChosen

LEMMA MovesKeep ==
    ASSUME TasksOK(homeTasks), NEW i \in DOMAIN homeTasks,
           NEW pc \in {"gallery", "post", "poll", "enlarge", "pollLarge", "refresh", "end"},
           NEW card \in {"starting", "queued", "processing", "upscaling", "completed", "failed", "off"},
           pc = homeTasks[i].pc => homeTasks[i].polls < HomePolls, TaskMoves(i, pc, card)
    PROVE  TasksOK(homeTasks')
<1> DEFINE now == homeTasks[i]
           polls == IF pc = now.pc THEN now.polls + 1 ELSE 0
           shown == IF now.card = "off" THEN "off" ELSE card
           then == [now EXCEPT !.pc = pc, !.card = shown, !.polls = polls]
<1>1. homeTasks \in Seq(TaskRecord) /\ now \in TaskRecord
    BY DEF TasksOK
<1>2. homeTasks' = [homeTasks EXCEPT ![i] = then]
    BY <1>1 DEF TaskMoves, TaskRecord
<1>3. polls \in 0 .. HomePolls
    BY <1>1, HomeBounds DEF TaskRecord
<1>4. shown \in {"starting", "queued", "processing", "upscaling", "completed", "failed", "off"}
    OBVIOUS
<1>5. now.card = "off" => shown = "off"
    OBVIOUS
<1> HIDE DEF polls, shown
<1>6. then \in TaskRecord /\ then.card = shown
    BY <1>1, <1>3, <1>4 DEF TaskRecord
<1> HIDE DEF then
<1> QED BY <1>2, <1>5, <1>6, TaskChanges

LEMMA TaskStepKeeps ==
    ASSUME TasksOK(homeTasks), NEW i \in DOMAIN homeTasks, TaskStep(i) \/ CardLeaves(i)
    PROVE  TasksOK(homeTasks') /\ UNCHANGED <<home, homeUploads, homeFate>>
<1>1. homeTasks \in Seq(TaskRecord) /\ homeTasks[i] \in TaskRecord
    BY DEF TasksOK
<1>2. \A pc \in {"gallery", "post", "poll", "enlarge", "pollLarge", "refresh", "end"},
         card \in {"starting", "queued", "processing", "upscaling", "completed", "failed", "off"} :
         (pc = homeTasks[i].pc => homeTasks[i].polls < HomePolls) /\ TaskMoves(i, pc, card) => TasksOK(homeTasks')
    BY MovesKeep
<1>3. CASE CallAnswered(i)
    <2>1. homeTasks[i].card \in {"starting", "queued", "processing", "upscaling", "completed", "failed", "off"}
        BY <1>1 DEF TaskRecord
    <2> QED BY <1>2, <1>3, <2>1 DEF CallAnswered, TaskAt, TaskMoves
<1>4. CASE JobDone(i)
    BY <1>2, <1>4 DEF JobDone, TaskAt, TaskMoves
<1>5. CASE JobWaits(i)
    <2>1. homeTasks[i].polls < HomePolls
        BY <1>5 DEF JobWaits
    <2>2. ASSUME NEW card \in {"queued", "processing"}, TaskMoves(i, "poll", card)
          PROVE  TasksOK(homeTasks') /\ UNCHANGED <<home, homeUploads, homeFate>>
        BY <1>2, <2>1, <2>2 DEF TaskMoves
    <2>3. CASE TaskMoves(i, "pollLarge", "upscaling")
        BY <1>2, <2>1, <2>3 DEF TaskMoves
    <2> QED BY <1>5, <2>2, <2>3 DEF JobWaits
<1>6. CASE GenerationFails(i)
    BY <1>2, <1>6 DEF GenerationFails, TaskMoves
<1>7. CASE CardLeaves(i)
    <2> DEFINE then == [homeTasks[i] EXCEPT !.card = "off"]
    <2>1. then \in TaskRecord /\ then.card = "off" /\ homeTasks' = [homeTasks EXCEPT ![i] = then]
        BY <1>1, <1>7 DEF CardLeaves, TaskRecord
    <2> HIDE DEF then
    <2> QED BY <1>7, <2>1, TaskChanges DEF CardLeaves
<1> QED BY <1>3, <1>4, <1>5, <1>6, <1>7 DEF TaskStep

HomeInv == FilesInv /\ TasksOK(homeTasks)

LEMMA HomeInitInv == HomeInit => HomeInv
<1> SUFFICES ASSUME HomeInit PROVE TasksOK(homeTasks)
    BY FilesInit DEF HomeInv
<1> DEFINE none == <<>>
<1>1. homeTasks = none /\ none \in Seq(TaskRecord) /\ CardsOf(none) = {}
    BY DEF HomeInit, CardsOf
<1> HIDE DEF none
<1>2. IsFiniteSet({}) /\ Cardinality({}) = 0
    BY FS_EmptySet
<1> QED BY <1>1, <1>2, HomeBounds DEF TasksOK

LEMMA FilesNext == ASSUME HomeInv, HomeNext PROVE HomeInv'
<1>1. FilesInv /\ TasksOK(homeTasks)
    BY DEF HomeInv
<1>2. ASSUME NEW files \in home.visit.batches, AddFiles(files)
      PROVE  HomeInv'
    BY <1>1, <1>2, AddFilesKeeps DEF HomeInv, AddFiles
<1>3. ASSUME NEW u \in DOMAIN homeUploads, FileSent(u) \/ AssetsSent(u) \/ AssetsFail(u)
      PROVE  HomeInv'
    <2>1. UNCHANGED homeTasks
        BY <1>3 DEF FileSent, AssetsSent, AssetsFail
    <2>2. FilesInv'
        BY <1>1, <1>3, FileSentKeeps, AssetsSentKeeps, AssetsFailKeeps
    <2> QED BY <1>1, <2>1, <2>2 DEF HomeInv
<1>4. CASE \/ \E f \in ToSet(home.frames) : RemoveFrame(f)
           \/ PromptForSimilar
           \/ \E i, j \in DOMAIN home.frames : ReorderFrames(i, j)
    <2>1. UNCHANGED homeTasks
        BY <1>4 DEF RemoveFrame, PromptForSimilar, ReorderFrames
    <2> QED BY <1>1, <1>4, <2>1, GestureFrames DEF HomeInv
<1>5. ASSUME NEW g \in HomeGallery, NEW frames, PickGallery(g, frames)
      PROVE  HomeInv'
    BY <1>1, <1>5, PickGalleryKeeps DEF HomeInv, PickGallery
<1>6. ASSUME NEW g \in HomeGallery, NEW mode, NEW upscale \in BOOLEAN, AnimateGallery(g, mode, upscale)
      PROVE  HomeInv'
    <2>1. TasksOK(homeTasks')
        <3>1. GenerateHome(mode, upscale, <<g>>) \/ homeTasks' = homeTasks
            BY <1>6 DEF AnimateGallery
        <3> QED BY <1>1, <3>1, GenerationBegins
    <2> QED BY <1>1, <1>6, <2>1, AnimateKeeps DEF HomeInv
<1>7. CASE \/ \E mode \in {"signup", "signin"} : OpenAuth(mode)
           \/ CloseAuth \/ SubmitAuth \/ SignInRefused \/ RemoveSound
           \/ StartCheckout \/ (\E ok \in BOOLEAN : CheckoutAnswered(ok)) \/ CheckoutCompleted \/ SoftRefresh
    <2>1. UNCHANGED homeTasks
        BY <1>7 DEF OpenAuth, CloseAuth, SubmitAuth, SignInRefused, RemoveSound, StartCheckout,
                    CheckoutAnswered, CheckoutCompleted, SoftRefresh
    <2> QED BY <1>1, <1>7, <2>1, SignStepsStay DEF HomeInv
<1>8. ASSUME NEW created \in BOOLEAN, SignedIn(created)
      PROVE  HomeInv'
    BY <1>1, <1>8, SignedInKeeps DEF HomeInv, SignedIn
<1>9. CASE LateUpload
    BY <1>1, <1>9, LateUploadKeeps DEF HomeInv, LateUpload
<1>10. ASSUME NEW mode, NEW upscale \in BOOLEAN, ClickGenerate(mode, upscale)
       PROVE  HomeInv'
    <2>1. TasksOK(homeTasks')
        <3>1. GenerateHome(mode, upscale, home.frames) \/ homeTasks' = homeTasks
            BY <1>10 DEF ClickGenerate
        <3> QED BY <1>1, <3>1, GenerationBegins
    <2> QED BY <1>1, <1>10, <2>1, ClickKeepsFiles DEF HomeInv
<1>11. ASSUME NEW i \in DOMAIN homeTasks, TaskStep(i) \/ CardLeaves(i)
       PROVE  HomeInv'
    BY <1>1, <1>11, TaskStepKeeps DEF HomeInv, FilesInv
<1> QED BY <1>2, <1>3, <1>4, <1>5, <1>6, <1>7, <1>8, <1>9, <1>10, <1>11 DEF HomeNext, SignStep

LEMMA HomeStep == HomeInv /\ [HomeNext]_homeVars => HomeInv'
<1>1. ASSUME HomeInv, UNCHANGED homeVars
      PROVE  HomeInv'
    BY <1>1 DEF HomeInv, FilesInv, homeVars
<1> QED BY <1>1, FilesNext

LEMMA SingleIs ==
    ASSUME NEW X, NEW s \in Seq(X), Len(s) <= 1, s # <<>>
    PROVE  DOMAIN s = {1}
<1>1. Len(s) \in Nat /\ DOMAIN s = 1 .. Len(s) /\ Len(s) # 0
    OBVIOUS
<1>2. Len(s) = 1
    BY <1>1
<1> QED BY <1>1, <1>2

LEMMA HomeTyped ==
    ASSUME HomeInv
    PROVE  HomeTypeOK
<1>1. \A u \in DOMAIN homeUploads : homeUploads[u].at \in 0 .. Len(homeUploads[u].files)
    <2>1. \A u \in DOMAIN homeUploads : /\ homeUploads[u] \in UploadRecord
                                        /\ homeUploads[u].at <= Len(homeUploads[u].files)
        BY DEF HomeInv, FilesInv, UploadsOK
    <2>2. \A r \in UploadRecord : r.at <= Len(r.files) => r.at \in 0 .. Len(r.files)
        BY DEF UploadRecord
    <2> QED BY <2>1, <2>2
<1>2. Cardinality(Carded) <= HomeCards
    BY DEF HomeInv, TasksOK, Carded, CardsOf
<1>3. \A i \in DOMAIN homeTasks : homeTasks[i].polls \in 0 .. HomePolls
    <2>1. \A i \in DOMAIN homeTasks : homeTasks[i] \in TaskRecord
        BY DEF HomeInv, TasksOK
    <2> QED BY <2>1 DEF TaskRecord
<1> QED BY <1>1, <1>2, <1>3 DEF HomeInv, FilesInv, HomeOK, HomeRecord, HomeTypeOK

(* Type correctness of the home page: among others, no more cards are shown  *)
(* than the page allows and no upload is past its end.                       *)
THEOREM HomeTypes == HomeSpec => []HomeTypeOK
<1>1. HomeInv => HomeTypeOK
    BY HomeTyped
<1> QED BY <1>1, HomeInitInv, HomeStep, PTL DEF HomeSpec

LEMMA FilesPlaced ==
    ASSUME HomeInv
    PROVE  FilesKeepTheirPlace
<1> DEFINE P == ToSet(home.pending)
           L == ToSet(LateFiles(home.late))
           U == SentIn(homeUploads)
           F == ToSet(home.frames)
<1>1. Apart(P, L, U, F, homeFate) /\ IsInjective(home.frames)
    BY DEF HomeInv, FilesInv, InPlace, Batches
<1>2. HomeWaiting = P \cup L /\ HomeSending = U
    <2>1. CASE home.late = <<>>
        BY <2>1, NoneIs DEF HomeWaiting, HomeSending, SentIn, LateFiles
    <2>2. CASE home.late # <<>>
        <3>1. DOMAIN home.late = {1}
            <4> DEFINE X == [keyed : BOOLEAN, files : Seq(HomeFiles)]
            <4>1. home.late \in Seq(X) /\ Len(home.late) <= 1
                BY DEF HomeInv, FilesInv, HomeOK, HomeRecord
            <4>2. \A s \in Seq(X) : Len(s) <= 1 /\ s # <<>> => DOMAIN s = {1}
                BY SingleIs
            <4> QED BY <2>2, <4>1, <4>2
        <3> QED BY <2>2, <3>1 DEF HomeWaiting, HomeSending, SentIn, LateFiles
    <2> QED BY <2>1, <2>2
<1>3. F \subseteq homeFate.given
    <2> HIDE DEF P, L, U, F
    <2> QED BY <1>1 DEF Apart
<1>4. ASSUME NEW f \in homeFate.given \ HomeSounds
      PROVE  \E k \in DOMAIN Places : \A l \in DOMAIN Places : f \in Places[l] <=> l = k
    <2> DEFINE W == P \cup L
               In == <<W, U, F, homeFate.taken, homeFate.told>>
    <2>1. Places = In /\ DOMAIN In = 1 .. 5
        BY <1>2 DEF Places
    <2> HIDE DEF P, L, U, F
    <2>2. /\ \/ f \in W \/ f \in U \/ f \in F \/ f \in homeFate.taken \/ f \in homeFate.told
          /\ f \in W => f \notin U \cup F \cup homeFate.taken \cup homeFate.told
          /\ f \in U => f \notin F \cup homeFate.taken \cup homeFate.told
          /\ f \in F => f \notin homeFate.taken \cup homeFate.told
          /\ f \in homeFate.taken => f \notin homeFate.told
        BY <1>1 DEF Apart
    <2> HIDE DEF W
    <2>3. /\ In[1] = W /\ In[2] = U /\ In[3] = F /\ In[4] = homeFate.taken /\ In[5] = homeFate.told
          /\ \A l \in 1 .. 5 : l \in {1, 2, 3, 4, 5}
        OBVIOUS
    <2> HIDE DEF In
    <2>4. \E k \in 1 .. 5 : \A l \in 1 .. 5 : f \in In[l] <=> l = k
        <3>1. CASE f \in W
            <4>1. \A l \in 1 .. 5 : f \in In[l] <=> l = 1
                BY <2>2, <2>3, <3>1
            <4> QED BY <4>1
        <3>2. CASE f \in U
            <4>1. \A l \in 1 .. 5 : f \in In[l] <=> l = 2
                BY <2>2, <2>3, <3>2
            <4> QED BY <4>1
        <3>3. CASE f \in F
            <4>1. \A l \in 1 .. 5 : f \in In[l] <=> l = 3
                BY <2>2, <2>3, <3>3
            <4> QED BY <4>1
        <3>4. CASE f \in homeFate.taken
            <4>1. \A l \in 1 .. 5 : f \in In[l] <=> l = 4
                BY <2>2, <2>3, <3>4
            <4> QED BY <4>1
        <3>5. CASE f \in homeFate.told
            <4>1. \A l \in 1 .. 5 : f \in In[l] <=> l = 5
                BY <2>2, <2>3, <3>5
            <4> QED BY <4>1
        <3> QED BY <2>2, <3>1, <3>2, <3>3, <3>4, <3>5
    <2> QED BY <2>1, <2>4
<1> QED BY <1>1, <1>3, <1>4 DEF FilesKeepTheirPlace

(* Every picture the visitor gave is in exactly one place, whatever uploads, *)
(* removals, reorderings and sign-ins came in between.                       *)
THEOREM FilesKeepTheirPlaceHolds == HomeSpec => []FilesKeepTheirPlace
<1>1. HomeInv => FilesKeepTheirPlace
    BY FilesPlaced
<1> QED BY <1>1, HomeInitInv, HomeStep, PTL DEF HomeSpec

(* ---------------------------------------------------------- caption page -- *)

(* A set of words whose times and hiding may be anything; those of one video *)
(* are one.                                                                  *)
TimesFree(W) ==
    /\ W \subseteq CapWord
    /\ \A w \in W, s, e \in Int, h \in BOOLEAN : [of |-> w.of, start |-> s, end |-> e, hidden |-> h] \in W
WordsFrom(f) == {w \in CapWord : w.of = f}

LEMMA FreeSets == TimesFree(CapWord) /\ \A f : TimesFree(WordsFrom(f))
BY DEF TimesFree, WordsFrom, CapWord

LEMMA WordIs ==
    ASSUME NEW W, TimesFree(W), NEW w \in W
    PROVE  /\ w \in [of : 0 .. CapFiles, start : Int, end : Int, hidden : BOOLEAN]
           /\ w.of \in 0 .. CapFiles /\ w.start \in Int /\ w.end \in Int /\ w.hidden \in BOOLEAN
           /\ \A s, e \in Int, h \in BOOLEAN : [of |-> w.of, start |-> s, end |-> e, hidden |-> h] \in W
BY DEF TimesFree, CapWord

LEMMA WordTimes ==
    ASSUME NEW W, TimesFree(W)
    PROVE  \A w \in W : w.start \in Int /\ w.end \in Int /\ w.hidden \in BOOLEAN
<1>1. ASSUME NEW w \in W PROVE w.start \in Int /\ w.end \in Int /\ w.hidden \in BOOLEAN
    BY WordIs
<1> QED BY <1>1

LEMMA StartChange ==
    ASSUME NEW W, TimesFree(W), NEW w \in W, NEW s \in Int
    PROVE  [w EXCEPT !.start = s] \in W /\ [w EXCEPT !.start = s].start = s /\ [w EXCEPT !.start = s].end = w.end
<1>1. w \in [of : 0 .. CapFiles, start : Int, end : Int, hidden : BOOLEAN]
    BY WordIs
<1>2. [w EXCEPT !.start = s] = [of |-> w.of, start |-> s, end |-> w.end, hidden |-> w.hidden]
    BY <1>1
<1>3. [of |-> w.of, start |-> s, end |-> w.end, hidden |-> w.hidden] \in W
    BY WordIs
<1> QED BY <1>2, <1>3

LEMMA EndChange ==
    ASSUME NEW W, TimesFree(W), NEW w \in W, NEW e \in Int
    PROVE  [w EXCEPT !.end = e] \in W /\ [w EXCEPT !.end = e].end = e /\ [w EXCEPT !.end = e].start = w.start
<1>1. w \in [of : 0 .. CapFiles, start : Int, end : Int, hidden : BOOLEAN]
    BY WordIs
<1>2. [w EXCEPT !.end = e] = [of |-> w.of, start |-> w.start, end |-> e, hidden |-> w.hidden]
    BY <1>1
<1>3. [of |-> w.of, start |-> w.start, end |-> e, hidden |-> w.hidden] \in W
    BY WordIs
<1> QED BY <1>2, <1>3

LEMMA TwoChange ==
    ASSUME NEW W, TimesFree(W), NEW w \in W, NEW s \in Int, NEW e \in Int
    PROVE  /\ [w EXCEPT !.start = s, !.end = e] \in W /\ Word(w.of, s, e) \in W
           /\ [w EXCEPT !.start = s, !.end = e] = [of |-> w.of, start |-> s, end |-> e, hidden |-> w.hidden]
<1> DEFINE v == [w EXCEPT !.start = s]
<1>1. w \in [of : 0 .. CapFiles, start : Int, end : Int, hidden : BOOLEAN]
    BY WordIs
<1>2. v = [of |-> w.of, start |-> s, end |-> w.end, hidden |-> w.hidden]
    BY <1>1
<1>3. [w EXCEPT !.start = s, !.end = e] = [v EXCEPT !.end = e]
    BY Zenon
<1> HIDE DEF v
<1>4. [v EXCEPT !.end = e] = [of |-> w.of, start |-> s, end |-> e, hidden |-> w.hidden]
    BY <1>2
<1>5. /\ [of |-> w.of, start |-> s, end |-> e, hidden |-> w.hidden] \in W
      /\ [of |-> w.of, start |-> s, end |-> e, hidden |-> FALSE] \in W
    BY WordIs
<1> QED BY <1>3, <1>4, <1>5 DEF Word

LEMMA HiddenChange ==
    ASSUME NEW W, TimesFree(W), NEW w \in W, NEW h \in BOOLEAN
    PROVE  [w EXCEPT !.hidden = h] \in W /\ [w EXCEPT !.hidden = h].start = w.start
           /\ [w EXCEPT !.hidden = h].end = w.end
<1>1. w \in [of : 0 .. CapFiles, start : Int, end : Int, hidden : BOOLEAN]
    BY WordIs
<1>2. [w EXCEPT !.hidden = h] = [of |-> w.of, start |-> w.start, end |-> w.end, hidden |-> h]
    BY <1>1
<1>3. [of |-> w.of, start |-> w.start, end |-> w.end, hidden |-> h] \in W
    BY WordIs
<1> QED BY <1>2, <1>3

(* What stands before i and after j, with something in between.              *)
Spliced(s, i, m, j) == Before(s, i) \o m \o After(s, j)

IsSpliced(r, s, i, m, j) ==
    /\ Len(r) = i - 1 + Len(m) + Len(s) - j
    /\ \A k \in 1 .. i - 1 : r[k] = s[k]
    /\ \A k \in 1 .. Len(m) : r[i - 1 + k] = m[k]
    /\ \A k \in j + 1 .. Len(s) : r[i - 1 + Len(m) + k - j] = s[k]
    /\ \A k \in 1 .. Len(r) : k >= i + Len(m) =>
         /\ k - (i - 1) - Len(m) + j \in j + 1 .. Len(s)
         /\ r[k] = s[k - (i - 1) - Len(m) + j]

LEMMA PartsAre ==
    ASSUME NEW S, NEW s \in Seq(S), NEW i \in 1 .. Len(s) + 1, NEW j \in i - 1 .. Len(s), NEW m \in Seq(S)
    PROVE  Spliced(s, i, m, j) \in Seq(S) /\ IsSpliced(Spliced(s, i, m, j), s, i, m, j)
<1> DEFINE n == Len(s)
           a == Before(s, i)
           b == After(s, j)
           l == Len(m)
<1>1. n \in Nat /\ DOMAIN s = 1 .. n /\ i \in 1 .. n + 1 /\ j \in i - 1 .. n /\ l \in Nat
    OBVIOUS
<1>2. /\ a \in Seq(S) /\ Len(a) = i - 1
      /\ \A k \in 1 .. i - 1 : a[k] = s[k]
      /\ b \in Seq(S) /\ Len(b) = n - j
      /\ \A k \in 1 .. n - j : b[k] = s[j + k]
    <2>1. /\ a \in Seq(S) /\ Len(a) = i - 1
          /\ \A k \in 1 .. i - 1 : a[k] = s[k]
        BY <1>1 DEF Before
    <2>2. /\ b \in Seq(S) /\ Len(b) = n - j
          /\ \A k \in 1 .. n - j : b[k] = s[j + k]
        <3>1. j \in 0 .. Len(s)
            BY <1>1
        <3>2. /\ SubSeq(s, j + 1, Len(s)) \in Seq(S) /\ Len(SubSeq(s, j + 1, Len(s))) = Len(s) - j
              /\ \A k \in 1 .. Len(s) - j : SubSeq(s, j + 1, Len(s))[k] = s[j + k]
            BY <3>1
        <3> QED BY <3>2 DEF After
    <2> QED BY <2>1, <2>2
<1> DEFINE c == a \o m
           r == c \o b
<1> HIDE DEF n, a, b, l
<1>3. /\ c \in Seq(S) /\ Len(c) = i - 1 + l
      /\ \A k \in 1 .. i - 1 : c[k] = s[k]
      /\ \A k \in 1 .. l : c[i - 1 + k] = m[k]
    <2>0. a \in Seq(S)
        BY <1>2
    <2>1. c \in Seq(S) /\ Len(c) = Len(a) + l
          /\ \A k \in 1 .. Len(a) + l : c[k] = IF k <= Len(a) THEN a[k] ELSE m[k - Len(a)]
        BY <2>0 DEF l
    <2>2. \A k \in 1 .. i - 1 : c[k] = s[k]
        BY <1>1, <1>2, <2>1
    <2>3. ASSUME NEW k \in 1 .. l PROVE c[i - 1 + k] = m[k]
        <3>1. i - 1 + k \in 1 .. Len(a) + l /\ ~(i - 1 + k <= Len(a)) /\ i - 1 + k - Len(a) = k
            BY <1>1, <1>2
        <3> QED BY <2>1, <3>1
    <2> QED BY <1>2, <2>1, <2>2, <2>3
<1> HIDE DEF c
<1>4. /\ r \in Seq(S) /\ Len(r) = Len(c) + Len(b)
      /\ \A k \in 1 .. Len(c) + Len(b) : r[k] = IF k <= Len(c) THEN c[k] ELSE b[k - Len(c)]
    <2>1. c \in Seq(S) /\ b \in Seq(S)
        BY <1>2, <1>3
    <2> QED BY <2>1
<1> HIDE DEF r
<1>5. ASSUME NEW k \in 1 .. i - 1 PROVE r[k] = s[k]
    <2>1. k \in 1 .. Len(c) + Len(b) /\ k <= Len(c)
        <3>1. Len(c) = i - 1 + l /\ Len(b) = n - j
            BY <1>2, <1>3
        <3> QED BY <1>1, <3>1
    <2>2. r[k] = c[k] /\ c[k] = s[k]
        BY <1>3, <1>4, <2>1
    <2> QED BY <2>2
<1>6. ASSUME NEW k \in 1 .. l PROVE r[i - 1 + k] = m[k]
    <2>1. i - 1 + k \in 1 .. Len(c) + Len(b) /\ i - 1 + k <= Len(c)
        <3>1. Len(c) = i - 1 + l /\ Len(b) = n - j
            BY <1>2, <1>3
        <3> QED BY <1>1, <3>1
    <2> QED BY <1>3, <1>4, <2>1
<1>7. ASSUME NEW k \in j + 1 .. n PROVE r[i - 1 + l + k - j] = s[k]
    <2> DEFINE x == i - 1 + l + k - j
    <2>1. x \in 1 .. Len(c) + Len(b) /\ ~(x <= Len(c)) /\ x - Len(c) = k - j
        <3>1. Len(c) = i - 1 + l /\ Len(b) = n - j
            BY <1>2, <1>3
        <3> QED BY <1>1, <3>1
    <2>2. k - j \in 1 .. n - j /\ j + (k - j) = k
        BY <1>1
    <2> HIDE DEF x
    <2>3. r[x] = b[x - Len(c)]
        BY <1>4, <2>1
    <2>4. b[k - j] = s[k]
        BY <1>2, <2>2
    <2>5. r[x] = s[k]
        BY <2>1, <2>3, <2>4
    <2> QED BY <2>5 DEF x
<1>8. Len(r) = i - 1 + l + n - j
    BY <1>1, <1>2, <1>3, <1>4
<1>9. ASSUME NEW k \in 1 .. Len(r), k >= i + l
      PROVE  k - (i - 1) - l + j \in j + 1 .. n /\ r[k] = s[k - (i - 1) - l + j]
    <2> DEFINE x == k - (i - 1) - l + j
    <2>1. x \in j + 1 .. n /\ i - 1 + l + x - j = k
        BY <1>1, <1>8, <1>9
    <2> HIDE DEF x
    <2>2. r[i - 1 + l + x - j] = s[x]
        BY <1>7, <2>1
    <2>3. x \in j + 1 .. n /\ r[k] = s[x]
        BY <2>1, <2>2
    <2> QED BY <2>3 DEF x
<1>10. \A k \in 1 .. Len(r) : k >= i + l => k - (i - 1) - l + j \in j + 1 .. n /\ r[k] = s[k - (i - 1) - l + j]
    BY <1>9
<1>11. /\ \A k \in 1 .. i - 1 : r[k] = s[k]
       /\ \A k \in 1 .. l : r[i - 1 + k] = m[k]
       /\ \A k \in j + 1 .. n : r[i - 1 + l + k - j] = s[k]
    BY <1>5, <1>6, <1>7
<1>12. IsSpliced(r, s, i, m, j)
    BY <1>8, <1>10, <1>11 DEF IsSpliced, l, n
<1>13. Spliced(s, i, m, j) = r
    BY DEF Spliced, r, c, a, b
<1> QED BY <1>4, <1>12, <1>13

LEMMA HalvesAre ==
    ASSUME NEW W, TimesFree(W), NEW w \in W, NEW cut \in Int
    PROVE  Halves(w, cut, MinLength) \in Seq(W)
<1> DEFINE end == w.start + CapMax(2 * MinLength, w.end - w.start)
           mid == CapMin(CapMax(cut, w.start + MinLength), end - MinLength)
<1>1. w.start \in Int /\ w.end \in Int
    BY WordTimes
<1>2. end \in Int /\ mid \in Int
    BY <1>1 DEF CapMax, CapMin, MinLength
<1>3. Halves(w, cut, MinLength) = <<[w EXCEPT !.end = mid], [w EXCEPT !.start = mid, !.end = end]>>
    BY DEF Halves
<1> HIDE DEF end, mid
<1>4. [w EXCEPT !.end = mid] \in W /\ [w EXCEPT !.start = mid, !.end = end] \in W
    BY <1>2, EndChange, TwoChange
<1> DEFINE u == [w EXCEPT !.end = mid]
           v == [w EXCEPT !.start = mid, !.end = end]
<1> HIDE DEF u, v
<1>5. u \in W /\ v \in W
    BY <1>4 DEF u, v
<1>6. <<u, v>> \in Seq(W)
    BY <1>5
<1> QED BY <1>3, <1>6 DEF u, v

(* A word of its own in the place of one, two, or none.                      *)
LEMMA OneOrTwo ==
    ASSUME NEW W, NEW u \in W, NEW v \in W
    PROVE  /\ <<u>> \in Seq(W) /\ Len(<<u>>) = 1 /\ <<u>>[1] = u
           /\ <<u, v>> \in Seq(W) /\ Len(<<u, v>>) = 2 /\ <<u, v>>[1] = u /\ <<u, v>>[2] = v
OBVIOUS

LEMMA TextStays ==
    ASSUME NEW W, TimesFree(W), NEW words \in Seq(W), NEW i \in DOMAIN words, NEW t \in Int
    PROVE  SetWordText(words, i, t) \in Seq(W)
<1> DEFINE m == Halves(words[i], t, MinLength)
<1>1. words[i] \in W /\ i \in 1 .. Len(words) + 1 /\ i \in i - 1 .. Len(words)
    OBVIOUS
<1>2. m \in Seq(W)
    BY <1>1, HalvesAre
<1> HIDE DEF m
<1>3. Spliced(words, i, m, i) \in Seq(W)
    BY <1>1, <1>2, PartsAre
<1> QED BY <1>3 DEF SetWordText, Spliced, m

(* What takes the place of some words, within their time, fits.              *)
LEMMA SplicedFits ==
    ASSUME NEW W, TimesFree(W), NEW s \in Seq(W), NEW i \in 1 .. Len(s) + 1, NEW j \in i - 1 .. Len(s),
           NEW m \in Seq(W), i <= j, Len(m) >= 1,
           Fits(s), Fits(m), s[i].start <= m[1].start, m[Len(m)].end <= s[j].end
    PROVE  Fits(Spliced(s, i, m, j))
<1> DEFINE r == Spliced(s, i, m, j)
           n == Len(s)
           l == Len(m)
<1>1. /\ r \in Seq(W) /\ Len(r) = i - 1 + Len(m) + Len(s) - j
      /\ \A k \in 1 .. i - 1 : r[k] = s[k]
      /\ \A k \in 1 .. Len(m) : r[i - 1 + k] = m[k]
      /\ \A k \in 1 .. Len(r) : k >= i + Len(m) =>
            /\ k - (i - 1) - Len(m) + j \in j + 1 .. Len(s)
            /\ r[k] = s[k - (i - 1) - Len(m) + j]
    <2>1. r \in Seq(W) /\ IsSpliced(r, s, i, m, j)
        BY PartsAre
    <2> HIDE DEF r, n, l
    <2> QED BY <2>1 DEF IsSpliced
<1>2. /\ n \in Nat /\ l \in Nat /\ l >= 1 /\ i \in 1 .. n /\ j \in i .. n
      /\ \A k \in 1 .. n : s[k].start \in Int /\ s[k].end \in Int
      /\ \A k \in 1 .. l : m[k].start \in Int /\ m[k].end \in Int
    BY WordTimes
<1>3. /\ \A k \in 1 .. n : 0 <= s[k].start /\ s[k].start < s[k].end
      /\ \A k \in 2 .. n : s[k - 1].end <= s[k].start
      /\ \A k \in 1 .. l : 0 <= m[k].start /\ m[k].start < m[k].end
      /\ \A k \in 2 .. l : m[k - 1].end <= m[k].start
      /\ s[i].start <= m[1].start /\ m[l].end <= s[j].end
    BY DEF Fits
<1> DEFINE p == Len(r)
           d == j - (i - 1) - l
<1>4. /\ p = i - 1 + l + n - j /\ p \in Nat /\ DOMAIN r = 1 .. p
      /\ \A k \in 1 .. i - 1 : r[k] = s[k]
      /\ \A k \in 1 .. l : r[i - 1 + k] = m[k]
    BY <1>1, <1>2
<1>5. ASSUME NEW k \in 1 .. p, k >= i + l PROVE k + d \in j + 1 .. n /\ r[k] = s[k + d]
    <2>1. k - (i - 1) - l + j \in j + 1 .. n /\ r[k] = s[k - (i - 1) - l + j]
        BY <1>1, <1>5
    <2>2. k - (i - 1) - l + j = k + d
        BY <1>2, <1>4
    <2> QED BY <2>1, <2>2
<1>6. d \in Int /\ d = j - (i - 1) - l
    BY <1>2
<1> HIDE DEF r, n, l, p, d
<1>7. ASSUME NEW k \in 1 .. p PROVE 0 <= r[k].start /\ r[k].start < r[k].end
    <2>1. CASE k < i
        <3>1. k \in 1 .. i - 1 /\ k \in 1 .. n
            BY <1>2, <1>4, <2>1
        <3> QED BY <1>3, <1>4, <3>1
    <2>2. CASE k >= i /\ k < i + l
        <3> DEFINE x == k - (i - 1)
        <3>1. x \in 1 .. l /\ i - 1 + x = k
            BY <1>2, <1>4, <2>2
        <3> HIDE DEF x
        <3> QED BY <1>3, <1>4, <3>1
    <2>3. CASE k >= i + l
        <3>1. k + d \in 1 .. n /\ r[k] = s[k + d]
            BY <1>2, <1>5, <2>3
        <3> QED BY <1>3, <3>1
    <2> QED BY <1>2, <1>4, <2>1, <2>2, <2>3
<1>8. ASSUME NEW k \in 2 .. p PROVE r[k - 1].end <= r[k].start
    <2>0. k \in 1 .. p /\ k - 1 \in 1 .. p
        BY <1>4
    <2>1. CASE k < i
        <3>1. k \in 1 .. i - 1 /\ k - 1 \in 1 .. i - 1 /\ k \in 2 .. n
            BY <1>2, <1>4, <2>1
        <3>2. r[k] = s[k] /\ r[k - 1] = s[k - 1] /\ s[k - 1].end <= s[k].start
            BY <1>3, <1>4, <3>1
        <3> QED BY <3>2
    <2>2. CASE k = i
        <3>1. k - 1 \in 1 .. i - 1 /\ i \in 2 .. n /\ 1 \in 1 .. l /\ i - 1 + 1 = k
            BY <1>2, <1>4, <2>2
        <3>2. r[k - 1] = s[k - 1] /\ r[i - 1 + 1] = m[1] /\ s[i - 1].end <= s[i].start
            BY <1>3, <1>4, <3>1
        <3>3. /\ s[i - 1].end \in Int /\ s[i].start \in Int /\ m[1].start \in Int
              /\ r[k - 1].end = s[i - 1].end /\ r[k].start = m[1].start
            <4>1. i - 1 \in 1 .. n /\ i \in 1 .. n /\ 1 \in 1 .. l
                BY <1>2, <2>2, <3>1
            <4>2. s[i - 1].end \in Int /\ s[i].start \in Int /\ m[1].start \in Int
                BY <1>2, <4>1
            <4>3. r[k] = m[1]
                BY <3>1, <3>2
            <4>4. r[k - 1] = s[i - 1]
                BY <2>2, <3>2
            <4>5. r[k - 1].end = s[i - 1].end /\ r[k].start = m[1].start
                BY <4>3, <4>4, Zenon
            <4> QED BY <4>2, <4>5
        <3> DEFINE x == s[i - 1].end
                   y == s[i].start
                   z == m[1].start
        <3>4. y <= z /\ x <= y
            BY <1>3, <3>2
        <3>5. x \in Int /\ y \in Int /\ z \in Int /\ r[k - 1].end = x /\ r[k].start = z
            BY <3>3
        <3> HIDE DEF x, y, z
        <3>6. x <= z
            BY <3>4, <3>5
        <3> QED BY <3>5, <3>6
    <2>3. CASE k > i /\ k < i + l
        <3> DEFINE x == k - (i - 1)
        <3>1. x \in 2 .. l /\ x \in 1 .. l /\ x - 1 \in 1 .. l /\ i - 1 + x = k /\ i - 1 + (x - 1) = k - 1
            BY <1>2, <1>4, <2>3
        <3> HIDE DEF x
        <3>2. r[k] = m[x] /\ r[k - 1] = m[x - 1] /\ m[x - 1].end <= m[x].start
            <4>1. r[i - 1 + x] = m[x] /\ r[i - 1 + (x - 1)] = m[x - 1]
                BY <1>4, <3>1
            <4> QED BY <1>3, <3>1, <4>1
        <3> QED BY <3>2
    <2>4. CASE k = i + l
        <3>1. /\ k + d = j + 1 /\ j + 1 \in 1 .. n /\ r[k] = s[k + d] /\ l \in 1 .. l /\ i - 1 + l = k - 1
              /\ j + 1 \in 2 .. n /\ (j + 1) - 1 = j
            <4>1. k + d \in j + 1 .. n /\ r[k] = s[k + d]
                <5>1. k >= i + l
                    BY <1>2, <2>4
                <5> QED BY <1>5, <2>0, <5>1
            <4> QED BY <1>2, <1>6, <2>4, <4>1
        <3>2. r[i - 1 + l] = m[l] /\ s[(j + 1) - 1].end <= s[j + 1].start
            BY <1>3, <1>4, <3>1
        <3>3. /\ m[l].end \in Int /\ s[j].end \in Int /\ s[j + 1].start \in Int
              /\ r[k - 1].end = m[l].end /\ r[k].start = s[j + 1].start /\ s[j].end <= s[j + 1].start
            <4>1. m[l].end \in Int /\ s[j].end \in Int /\ s[j + 1].start \in Int
                BY <1>2, <3>1
            <4>2. r[k - 1] = m[l] /\ r[k] = s[j + 1] /\ s[j].end <= s[j + 1].start
                BY <3>1, <3>2
            <4> QED BY <4>1, <4>2
        <3>4. m[l].end <= s[j].end
            BY <1>3
        <3> QED BY <3>3, <3>4
    <2>5. CASE k > i + l
        <3>1. k - 1 >= i + l /\ k >= i + l
            BY <1>2, <1>4, <2>5
        <3>2. /\ k + d \in j + 1 .. n /\ r[k] = s[k + d]
              /\ (k - 1) + d \in j + 1 .. n /\ r[k - 1] = s[(k - 1) + d]
            BY <1>5, <2>0, <3>1
        <3>3. (k + d) - 1 = (k - 1) + d /\ k + d \in 2 .. n
            BY <1>2, <1>6, <3>2
        <3>4. s[(k + d) - 1].end <= s[k + d].start
            BY <1>3, <3>3
        <3> QED BY <3>2, <3>3, <3>4
    <2> QED BY <1>2, <1>4, <2>1, <2>2, <2>3, <2>4, <2>5
<1>9. Fits(r)
    BY <1>4, <1>7, <1>8 DEF Fits, p
<1> QED BY <1>9 DEF r

LEMMA DeleteStays ==
    ASSUME NEW W, TimesFree(W), NEW words \in Seq(W), NEW i \in DOMAIN words
    PROVE  /\ DeleteWord(words, i) \in Seq(W)
           /\ Fits(words) => Fits(DeleteWord(words, i))
<1> DEFINE n == Len(words)
           r == DeleteWord(words, i)
<1>1. n \in Nat /\ DOMAIN words = 1 .. n /\ i \in 1 .. n
      /\ \A k \in 1 .. n : words[k] \in W /\ words[k].start \in Int /\ words[k].end \in Int
    BY WordTimes
<1>2. r = RemoveAt(words, i)
    BY DEF DeleteWord, Before, After, RemoveAt
<1>3. /\ r \in Seq(W) /\ Len(r) = n - 1
      /\ \A k \in DOMAIN r : IF k < i THEN r[k] = words[k] ELSE r[k] = words[k + 1]
    BY <1>2, RemovedAt
<1> HIDE DEF r
<1>4. ASSUME Fits(words) PROVE Fits(r)
    <2>1. /\ \A k \in 1 .. n : 0 <= words[k].start /\ words[k].start < words[k].end
          /\ \A k \in 2 .. n : words[k - 1].end <= words[k].start
        BY <1>1, <1>4 DEF Fits
    <2>2. DOMAIN r = 1 .. n - 1 /\ \A k \in 1 .. n - 1 : r[k] = IF k < i THEN words[k] ELSE words[k + 1]
        <3> HIDE DEF n
        <3>1. DOMAIN r = 1 .. n - 1
            BY <1>3
        <3>2. \A k \in DOMAIN r : r[k] = IF k < i THEN words[k] ELSE words[k + 1]
            BY <1>3
        <3> QED BY <3>1, <3>2
    <2>3. \A k \in 1 .. n - 1 : 0 <= r[k].start /\ r[k].start < r[k].end
        <3>1. ASSUME NEW k \in 1 .. n - 1 PROVE \E j \in 1 .. n : r[k] = words[j]
            <4>1. k \in 1 .. n /\ k + 1 \in 1 .. n /\ (r[k] = words[k] \/ r[k] = words[k + 1])
                BY <1>1, <2>2
            <4> QED BY <4>1
        <3> QED BY <2>1, <3>1
    <2>4. ASSUME NEW k \in 2 .. n - 1 PROVE r[k - 1].end <= r[k].start
        <3>1. k - 1 \in 1 .. n - 1 /\ k \in 1 .. n - 1
            BY <1>1
        <3>2. CASE k < i
            <4>1. r[k - 1] = words[k - 1] /\ r[k] = words[k] /\ words[k - 1].end <= words[k].start
                BY <1>1, <2>1, <2>2, <3>1, <3>2
            <4> QED BY <4>1
        <3> HIDE DEF n
        <3>3. k + 1 \in 2 .. n /\ (k + 1) - 1 = k
            BY <1>1
        <3>4. words[k].end <= words[k + 1].start
            BY <2>1, <3>3
        <3>5. CASE k = i
            <4>1. words[k - 1].end <= words[k].start /\ words[k].start < words[k].end
                BY <1>1, <2>1, <3>5
            <4>2. r[k - 1] = words[k - 1] /\ r[k] = words[k + 1]
                BY <1>1, <2>2, <3>1, <3>5
            <4> QED BY <1>1, <3>1, <3>3, <3>4, <4>1, <4>2
        <3>6. CASE k > i
            <4>1. r[k - 1] = words[k] /\ r[k] = words[k + 1]
                BY <1>1, <2>2, <3>1, <3>6
            <4> QED BY <3>4, <4>1
        <3> QED BY <1>1, <3>2, <3>5, <3>6
    <2> QED BY <1>1, <1>3, <2>2, <2>3, <2>4 DEF Fits
<1> QED BY <1>3, <1>4 DEF r

LEMMA MergeStays ==
    ASSUME NEW W, TimesFree(W), NEW words \in Seq(W), NEW i \in DOMAIN words, i > 1
    PROVE  /\ MergeWithPrevious(words, i) \in Seq(W)
           /\ Fits(words) => Fits(MergeWithPrevious(words, i))
<1> DEFINE u == [words[i - 1] EXCEPT !.end = words[i].end]
           j == i - 1
<1>1. /\ words[i - 1] \in W /\ words[i].end \in Int /\ words[i].start \in Int
      /\ words[i - 1].start \in Int /\ words[i - 1].end \in Int
    BY WordTimes
<1>2. u \in W /\ u.start = words[i - 1].start /\ u.end = words[i].end
    BY <1>1, EndChange
<1>3. /\ j \in 1 .. Len(words) + 1 /\ i \in j - 1 .. Len(words) /\ j <= i /\ words[j].start = words[i - 1].start
    OBVIOUS
<1>4. MergeWithPrevious(words, i) = Spliced(words, j, <<u>>, i)
    BY DEF MergeWithPrevious, Spliced
<1> HIDE DEF u
<1> DEFINE m == <<u>>
<1>5. m \in Seq(W) /\ Len(m) = 1 /\ m[1] = u
    BY <1>2, OneOrTwo
<1>6. ASSUME Fits(words) PROVE Fits(m)
    <2>1. /\ 0 <= words[i - 1].start /\ words[i - 1].start < words[i - 1].end
          /\ words[i].start < words[i].end /\ words[i - 1].end <= words[i].start
        BY <1>6 DEF Fits
    <2>2. 0 <= u.start /\ u.start < u.end
        BY <1>1, <1>2, <2>1
    <2> HIDE DEF m
    <2> QED BY <1>5, <2>2 DEF Fits
<1> HIDE DEF m, j
<1>7. Spliced(words, j, m, i) \in Seq(W)
    BY <1>3, <1>5, PartsAre
<1>8. ASSUME Fits(words) PROVE Fits(Spliced(words, j, m, i))
    <2>1. words[j].start <= m[1].start /\ m[Len(m)].end <= words[i].end /\ Len(m) >= 1
        BY <1>1, <1>2, <1>3, <1>5
    <2> QED BY <1>3, <1>5, <1>6, <1>8, <2>1, SplicedFits
<1> QED BY <1>4, <1>7, <1>8 DEF m

LEMMA SplitStays ==
    ASSUME NEW W, TimesFree(W), NEW words \in Seq(W), NEW i \in DOMAIN words, NEW t \in Int
    PROVE  /\ SplitWordAt(words, i, t) \in Seq(W)
           /\ Fits(words) => Fits(SplitWordAt(words, i, t))
<1> DEFINE u == [words[i] EXCEPT !.end = t]
           v == [words[i] EXCEPT !.start = t]
<1>1. words[i] \in W /\ words[i].end \in Int /\ words[i].start \in Int
    BY WordTimes
<1>2. /\ u \in W /\ u.start = words[i].start /\ u.end = t
      /\ v \in W /\ v.start = t /\ v.end = words[i].end
    BY <1>1, StartChange, EndChange
<1>3. i \in 1 .. Len(words) + 1 /\ i \in i - 1 .. Len(words) /\ i <= i
    OBVIOUS
<1>4. CASE t \in words[i].start + 1 .. words[i].end - 1
    <2> DEFINE m == <<u, v>>
    <2>1. SplitWordAt(words, i, t) = Spliced(words, i, m, i)
        BY <1>4 DEF SplitWordAt, Spliced
    <2> HIDE DEF u, v
    <2>2. m \in Seq(W) /\ Len(m) = 2 /\ m[1] = u /\ m[2] = v
        BY <1>2, OneOrTwo
    <2> HIDE DEF m
    <2>3. Spliced(words, i, m, i) \in Seq(W)
        BY <1>3, <2>2, PartsAre
    <2>4. ASSUME Fits(words) PROVE Fits(Spliced(words, i, m, i))
        <3>1. 0 <= words[i].start
            BY <2>4 DEF Fits
        <3>2. 0 <= u.start /\ u.start < u.end /\ u.end <= v.start /\ v.start < v.end /\ 0 <= v.start
            BY <1>1, <1>2, <1>4, <3>1
        <3>3. Fits(m)
            BY <2>2, <3>2 DEF Fits
        <3>4. words[i].start <= m[1].start /\ m[Len(m)].end <= words[i].end /\ Len(m) >= 1
            BY <1>1, <1>2, <2>2
        <3> QED BY <1>3, <2>2, <2>4, <3>3, <3>4, SplicedFits
    <2> QED BY <2>1, <2>3, <2>4
<1>5. CASE t \notin words[i].start + 1 .. words[i].end - 1
    BY <1>5 DEF SplitWordAt
<1> QED BY <1>4, <1>5

LEMMA InsertStays ==
    ASSUME NEW W, TimesFree(W), NEW words \in Seq(W), NEW i \in DOMAIN words
    PROVE  InsertWordAfter(words, i) \in Seq(W)
<1> DEFINE start == words[i].end
           end == IF i = Len(words) THEN start + AtEnd
                  ELSE CapMax(start + Short, CapMin(words[i + 1].start, start + Long))
           v == Word(words[i].of, start, end)
           m == <<words[i], v>>
<1>1. /\ words[i] \in W /\ words[i].end \in Int /\ i \in 1 .. Len(words) + 1 /\ i \in i - 1 .. Len(words)
      /\ i # Len(words) => words[i + 1].start \in Int
    BY WordTimes
<1>2. start \in Int /\ end \in Int
    BY <1>1 DEF CapMax, CapMin, AtEnd, Short, Long
<1>3. InsertWordAfter(words, i) = Spliced(words, i, m, i)
    BY DEF InsertWordAfter, Spliced
<1> HIDE DEF start, end
<1>4. v \in W
    BY <1>1, <1>2, TwoChange
<1> HIDE DEF v
<1>5. m \in Seq(W)
    BY <1>1, <1>4, OneOrTwo
<1> HIDE DEF m
<1>6. Spliced(words, i, m, i) \in Seq(W)
    BY <1>1, <1>5, PartsAre
<1> QED BY <1>3, <1>6

(* One word changed in its place.                                            *)
LEMMA PlacedStays ==
    ASSUME NEW W, NEW words \in Seq(W), NEW i \in DOMAIN words, NEW w \in W
    PROVE  [words EXCEPT ![i] = w] \in Seq(W) /\ Len([words EXCEPT ![i] = w]) = Len(words)
OBVIOUS

LEMMA NotIs == \A b \in BOOLEAN : (~b) \in BOOLEAN
OBVIOUS

LEMMA ChangesStay ==
    ASSUME NEW W, TimesFree(W), NEW words \in Seq(W), NEW i \in DOMAIN words, NEW t \in Int
    PROVE  /\ [words EXCEPT ![i].start = t] \in Seq(W)
           /\ [words EXCEPT ![i].end = t] \in Seq(W)
           /\ [words EXCEPT ![i].hidden = ~@] \in Seq(W)
           /\ Fits(words) => Fits([words EXCEPT ![i].hidden = ~@])
<1>1. words[i] \in W /\ words[i].hidden \in BOOLEAN /\ words[i].start \in Int /\ words[i].end \in Int
    BY WordTimes
<1> DEFINE u == [words[i] EXCEPT !.start = t]
           v == [words[i] EXCEPT !.end = t]
           w == [words[i] EXCEPT !.hidden = ~words[i].hidden]
<1>2. /\ u \in W /\ v \in W
      /\ w \in W /\ w.start = words[i].start /\ w.end = words[i].end
    <2>1. u \in W /\ v \in W
        BY <1>1, StartChange, EndChange
    <2>2. (~words[i].hidden) \in BOOLEAN
        BY <1>1, NotIs
    <2>3. \A h \in BOOLEAN : /\ [words[i] EXCEPT !.hidden = h] \in W
                             /\ [words[i] EXCEPT !.hidden = h].start = words[i].start
                             /\ [words[i] EXCEPT !.hidden = h].end = words[i].end
        BY <1>1, HiddenChange
    <2>4. w \in W /\ w.start = words[i].start /\ w.end = words[i].end
        BY <2>2, <2>3
    <2> QED BY <2>1, <2>4
<1>3. /\ [words EXCEPT ![i].start = t] = [words EXCEPT ![i] = u]
      /\ [words EXCEPT ![i].end = t] = [words EXCEPT ![i] = v]
      /\ [words EXCEPT ![i].hidden = ~@] = [words EXCEPT ![i] = w]
    OBVIOUS
<1> HIDE DEF u, v, w
<1>4. [words EXCEPT ![i] = u] \in Seq(W) /\ [words EXCEPT ![i] = v] \in Seq(W)
    BY <1>2, PlacedStays
<1> DEFINE r == [words EXCEPT ![i] = w]
<1>5. r \in Seq(W) /\ Len(r) = Len(words) /\ DOMAIN r = DOMAIN words
      /\ \A k \in DOMAIN words : r[k].start = words[k].start /\ r[k].end = words[k].end
    BY <1>2, PlacedStays
<1> HIDE DEF r
<1>6. Fits(words) => Fits(r)
    <2> SUFFICES ASSUME Fits(words) PROVE Fits(r)
        OBVIOUS
    <2>1. /\ \A k \in DOMAIN words : 0 <= words[k].start /\ words[k].start < words[k].end
          /\ \A k \in 2 .. Len(words) : words[k - 1].end <= words[k].start
        BY DEF Fits
    <2>2. \A k \in 2 .. Len(words) : k \in DOMAIN words /\ k - 1 \in DOMAIN words
        OBVIOUS
    <2> QED BY <1>5, <2>1, <2>2 DEF Fits
<1> QED BY <1>3, <1>4, <1>5, <1>6 DEF r

LEMMA Clamped ==
    \A a, b, t \in Int : /\ CapMax(a, CapMin(t, b)) \in Int
                         /\ a <= b => a <= CapMax(a, CapMin(t, b)) /\ CapMax(a, CapMin(t, b)) <= b
BY DEF CapMax, CapMin

(* Drags. A word of any kind stays one, and words that fit fit again.        *)
LEMMA MoveStartStays ==
    ASSUME NEW W, TimesFree(W), NEW words \in Seq(W), NEW i \in DOMAIN words, NEW t \in Int
    PROVE  LET r == MoveStart(words, i, t)
           IN r \in Seq(W) /\ Len(r) = Len(words) /\ (Fits(words) => Fits(r))
<1> DEFINE n == Len(words)
           r == MoveStart(words, i, t)
           start == StartOfEdge(words, i, t)
           gap == words[i].start - words[i - 1].end
           follows == i > 1 /\ (gap \in -Touching .. Touching \/ words[i - 1].end > start)
           u == [words[i] EXCEPT !.start = start]
           v == [words[i - 1] EXCEPT !.end = start]
<1>1. /\ n \in Nat /\ DOMAIN words = 1 .. n /\ i \in 1 .. n
      /\ \A k \in 1 .. n : words[k] \in W /\ words[k].start \in Int /\ words[k].end \in Int
    BY WordTimes
<1>2. start \in Int
    <2>1. i # 1 => i - 1 \in 1 .. n
        BY <1>1
    <2> QED BY <1>1, <2>1 DEF StartOfEdge, CapMax, CapMin, MinLength
<1>3. u \in W /\ u.start = start /\ u.end = words[i].end
    BY <1>1, <1>2, StartChange
<1>4. i > 1 => i - 1 \in 1 .. n /\ v \in W /\ v.start = words[i - 1].start /\ v.end = start
    BY <1>1, <1>2, EndChange
<1>5. r = [k \in 1 .. n |-> CASE k = i -> u [] k = i - 1 /\ follows -> v [] OTHER -> words[k]]
    <2>1. r = [k \in 1 .. n |-> CASE k = i -> [words[i] EXCEPT !.start = start]
                                  [] k = i - 1 /\ follows -> [words[k] EXCEPT !.end = start]
                                  [] OTHER -> words[k]]
        BY <1>1 DEF MoveStart
    <2> HIDE DEF follows, start
    <2> QED BY <2>1
<1> HIDE DEF n, r, u, v
<1>6. follows => i > 1
    OBVIOUS
<1> DEFINE f == follows
<1>7. f => i > 1
    BY <1>6
<1>8. r = [k \in 1 .. n |-> CASE k = i -> u [] k = i - 1 /\ f -> v [] OTHER -> words[k]]
    BY <1>5
<1> HIDE DEF f
<1>9. \A k \in 1 .. n : r[k] = IF k = i THEN u ELSE IF k = i - 1 /\ f THEN v ELSE words[k]
    BY <1>1, <1>8
<1>10. r \in Seq(W) /\ Len(r) = n
    <2>1. \A k \in 1 .. n : r[k] \in W
        BY <1>1, <1>3, <1>4, <1>7, <1>9
    <2>2. r \in [1 .. n -> W]
        BY <1>8, <2>1
    <2> QED BY <1>1, <2>2
<1>11. ASSUME Fits(words) PROVE Fits(r)
    <2>1. /\ \A k \in 1 .. n : 0 <= words[k].start /\ words[k].start < words[k].end
          /\ \A k \in 2 .. n : words[k - 1].end <= words[k].start
        BY <1>1, <1>11 DEF Fits, n
    <2>2. /\ 0 <= start /\ start < words[i].end
          /\ i > 1 => /\ words[i - 1].start < start
                      /\ f \/ words[i - 1].end <= start
        <3>1. CASE i = 1
            <4>1. 0 <= words[1].start /\ words[1].start < words[1].end
                BY <1>1, <2>1, <3>1
            <4> QED BY <1>1, <3>1, <4>1 DEF StartOfEdge, CapMax, CapMin, MinLength
        <3>2. CASE i > 1
            <4>1. /\ words[i - 1].start \in Int /\ words[i - 1].end \in Int /\ 0 <= words[i - 1].start
                  /\ words[i].start \in Int /\ words[i].end \in Int
                  /\ words[i - 1].start < words[i - 1].end
                  /\ words[i - 1].end <= words[i].start /\ words[i].start < words[i].end
                BY <1>1, <2>1, <3>2
            <4> DEFINE a == words[i - 1].start + 1
                       b == words[i].end - 1
            <4>4. start = CapMax(a, CapMin(t, b))
                BY <3>2 DEF StartOfEdge, MinLength
            <4>5. a \in Int /\ b \in Int /\ a <= b
                BY <4>1
            <4> HIDE DEF a, b
            <4>6. a <= start /\ start <= b
                BY <4>4, <4>5, Clamped
            <4>2. words[i - 1].start + 1 <= start /\ start <= words[i].end - 1
                BY <4>6 DEF a, b
            <4>3. f \/ words[i - 1].end <= start
                BY <1>2, <3>2, <4>1 DEF f
            <4> QED BY <1>1, <1>2, <3>2, <4>1, <4>2, <4>3
        <3> QED BY <1>1, <3>1, <3>2
    <2> HIDE DEF start
    <2>3. ASSUME NEW k \in 1 .. n PROVE 0 <= r[k].start /\ r[k].start < r[k].end
        <3>1. CASE k = i
            BY <1>3, <1>9, <2>2, <3>1
        <3>2. CASE k = i - 1 /\ f
            <4>1. i > 1 /\ k # i /\ r[k] = v /\ v.start = words[i - 1].start /\ v.end = start
                BY <1>1, <1>4, <1>7, <1>9, <3>2
            <4>2. 0 <= words[i - 1].start /\ words[i - 1].start < start
                BY <2>1, <2>2, <3>2, <4>1
            <4> QED BY <4>1, <4>2
        <3>3. CASE k # i /\ ~(k = i - 1 /\ f)
            BY <1>9, <2>1, <3>3
        <3> QED BY <3>1, <3>2, <3>3
    <2>4. ASSUME NEW k \in 2 .. n PROVE r[k - 1].end <= r[k].start
        <3>0. k \in 1 .. n /\ k - 1 \in 1 .. n /\ words[k - 1].end <= words[k].start
            BY <1>1, <2>1
        <3>1. CASE k = i
            <4>1. r[k] = u /\ r[k - 1] = IF f THEN v ELSE words[k - 1]
                BY <1>1, <1>9, <3>0, <3>1
            <4> QED BY <1>1, <1>2, <1>3, <1>4, <2>2, <3>0, <3>1, <4>1
        <3>2. CASE k - 1 = i
            <4>1. r[k] = words[k] /\ r[k - 1] = u
                BY <1>1, <1>9, <3>0, <3>2
            <4> QED BY <1>3, <3>0, <3>2, <4>1
        <3>3. CASE k = i - 1
            <4>1. r[k].start = words[k].start /\ r[k - 1] = words[k - 1]
                BY <1>1, <1>4, <1>7, <1>9, <3>0, <3>3
            <4> QED BY <3>0, <4>1
        <3>4. CASE k # i /\ k - 1 # i /\ k # i - 1
            <4>1. r[k] = words[k] /\ r[k - 1] = words[k - 1]
                BY <1>1, <1>9, <3>0, <3>4
            <4> QED BY <3>0, <4>1
        <3> QED BY <3>1, <3>2, <3>3, <3>4
    <2> QED BY <1>1, <1>10, <2>3, <2>4 DEF Fits
<1> QED BY <1>10, <1>11 DEF r, n

LEMMA MoveEndStays ==
    ASSUME NEW W, TimesFree(W), NEW words \in Seq(W), NEW i \in DOMAIN words, NEW t \in Int
    PROVE  LET r == MoveEnd(words, i, t)
           IN r \in Seq(W) /\ Len(r) = Len(words) /\ (Fits(words) => Fits(r))
<1> DEFINE n == Len(words)
           r == MoveEnd(words, i, t)
           end == EndOfEdge(words, i, t)
           gap == words[i + 1].start - words[i].end
           follows == i < n /\ (gap \in -Touching .. Touching \/ words[i + 1].start < end)
           u == [words[i] EXCEPT !.end = end]
           v == [words[i + 1] EXCEPT !.start = end]
<1>1. /\ n \in Nat /\ DOMAIN words = 1 .. n /\ i \in 1 .. n
      /\ \A k \in 1 .. n : words[k] \in W /\ words[k].start \in Int /\ words[k].end \in Int
    BY WordTimes
<1>2. end \in Int
    <2>1. i # n => i + 1 \in 1 .. n
        BY <1>1
    <2> QED BY <1>1, <2>1 DEF EndOfEdge, CapMax, CapMin, MinLength
<1>3. u \in W /\ u.start = words[i].start /\ u.end = end
    BY <1>1, <1>2, EndChange
<1>4. i < n => i + 1 \in 1 .. n /\ v \in W /\ v.start = end /\ v.end = words[i + 1].end
    BY <1>1, <1>2, StartChange
<1>5. r = [k \in 1 .. n |-> CASE k = i -> u [] k = i + 1 /\ follows -> v [] OTHER -> words[k]]
    <2>1. r = [k \in 1 .. n |-> CASE k = i -> [words[i] EXCEPT !.end = end]
                                  [] k = i + 1 /\ follows -> [words[k] EXCEPT !.start = end]
                                  [] OTHER -> words[k]]
        BY <1>1 DEF MoveEnd
    <2> HIDE DEF follows, end
    <2> QED BY <2>1
<1> HIDE DEF n, r, u, v
<1>6. follows => i < n
    OBVIOUS
<1> DEFINE f == follows
<1>7. f => i < n
    BY <1>6
<1>8. r = [k \in 1 .. n |-> CASE k = i -> u [] k = i + 1 /\ f -> v [] OTHER -> words[k]]
    BY <1>5
<1> HIDE DEF f
<1>9. \A k \in 1 .. n : r[k] = IF k = i THEN u ELSE IF k = i + 1 /\ f THEN v ELSE words[k]
    BY <1>1, <1>8
<1>10. r \in Seq(W) /\ Len(r) = n
    <2>1. \A k \in 1 .. n : r[k] \in W
        BY <1>1, <1>3, <1>4, <1>7, <1>9
    <2>2. r \in [1 .. n -> W]
        BY <1>8, <2>1
    <2> QED BY <1>1, <2>2
<1>11. ASSUME Fits(words) PROVE Fits(r)
    <2>1. /\ \A k \in 1 .. n : 0 <= words[k].start /\ words[k].start < words[k].end
          /\ \A k \in 2 .. n : words[k - 1].end <= words[k].start
        BY <1>1, <1>11 DEF Fits, n
    <2>2. /\ words[i].start < end
          /\ i < n => /\ end < words[i + 1].end
                      /\ f \/ end <= words[i + 1].start
        <3> DEFINE a == words[i].start + 1
        <3>0. words[i].start \in Int /\ words[i].end \in Int /\ words[i].start < words[i].end
            BY <1>1, <2>1
        <3>1. CASE i = n
            BY <3>0, <3>1 DEF EndOfEdge, CapMax, CapMin, MinLength, n
        <3>2. CASE i < n
            <4> DEFINE b == words[i + 1].end - 1
            <4>0. i + 1 \in 2 .. n /\ (i + 1) - 1 = i
                BY <1>1, <3>2
            <4>1. /\ words[i + 1].start \in Int /\ words[i + 1].end \in Int
                  /\ words[i].end <= words[i + 1].start /\ words[i + 1].start < words[i + 1].end
                <5>1. words[(i + 1) - 1].end <= words[i + 1].start
                    BY <2>1, <4>0
                <5>2. i + 1 \in 1 .. n
                    BY <4>0
                <5> QED BY <1>1, <2>1, <4>0, <5>1, <5>2
            <4>4. end = CapMin(b, CapMax(t, a))
                BY <1>1, <3>2 DEF EndOfEdge, MinLength, n
            <4>5. a \in Int /\ b \in Int /\ a <= b
                BY <3>0, <4>1
            <4> HIDE DEF a, b
            <4>6. a <= end /\ end <= b
                BY <4>4, <4>5 DEF CapMin, CapMax
            <4>2. words[i].start + 1 <= end /\ end <= words[i + 1].end - 1
                BY <4>6 DEF a, b
            <4>3. f \/ end <= words[i + 1].start
                BY <1>2, <3>2, <4>1 DEF f
            <4> QED BY <1>2, <3>0, <3>2, <4>1, <4>2, <4>3
        <3> QED BY <1>1, <3>1, <3>2
    <2> HIDE DEF end
    <2>3. ASSUME NEW k \in 1 .. n PROVE 0 <= r[k].start /\ r[k].start < r[k].end
        <3>1. CASE k = i
            BY <1>3, <1>9, <2>1, <2>2, <3>1
        <3>2. CASE k = i + 1 /\ f
            <4>1. i < n /\ k # i /\ r[k] = v /\ v.start = end /\ v.end = words[i + 1].end
                BY <1>1, <1>4, <1>7, <1>9, <3>2
            <4>2. 0 <= words[i].start /\ words[i].start < end /\ end < words[i + 1].end
                BY <1>1, <2>1, <2>2, <4>1
            <4> QED BY <1>1, <1>2, <4>1, <4>2
        <3>3. CASE k # i /\ ~(k = i + 1 /\ f)
            BY <1>9, <2>1, <3>3
        <3> QED BY <3>1, <3>2, <3>3
    <2>4. ASSUME NEW k \in 2 .. n PROVE r[k - 1].end <= r[k].start
        <3>0. k \in 1 .. n /\ k - 1 \in 1 .. n /\ words[k - 1].end <= words[k].start
            BY <1>1, <2>1
        <3>1. CASE k - 1 = i
            <4>1. r[k - 1] = u /\ r[k] = IF f THEN v ELSE words[k]
                BY <1>1, <1>9, <3>0, <3>1
            <4>2. words[k - 1].start \in Int /\ words[k - 1].end \in Int /\ words[k].start \in Int
                BY <1>1, <3>0
            <4>3. i + 1 = k /\ i < n
                BY <1>1, <3>1
            <4> QED BY <1>2, <1>3, <1>4, <2>2, <3>0, <4>1, <4>2, <4>3
        <3>2. CASE k = i
            <4>1. r[k] = u /\ r[k - 1] = words[k - 1]
                BY <1>1, <1>9, <3>0, <3>2
            <4> QED BY <1>3, <3>0, <3>2, <4>1
        <3>3. CASE k - 1 = i + 1
            <4>1. r[k] = words[k] /\ r[k - 1].end = words[k - 1].end
                BY <1>1, <1>4, <1>7, <1>9, <3>0, <3>3
            <4> QED BY <3>0, <4>1
        <3>4. CASE k # i /\ k - 1 # i /\ k - 1 # i + 1
            <4>1. r[k] = words[k] /\ r[k - 1] = words[k - 1]
                BY <1>1, <1>9, <3>0, <3>4
            <4> QED BY <3>0, <4>1
        <3> QED BY <3>1, <3>2, <3>3, <3>4
    <2> QED BY <1>1, <1>10, <2>3, <2>4 DEF Fits
<1> QED BY <1>10, <1>11 DEF r, n

LEMMA ShiftStays ==
    ASSUME NEW W, TimesFree(W), NEW words \in Seq(W), NEW i \in DOMAIN words, NEW t \in Int
    PROVE  LET r == ShiftWord(words, i, t)
           IN r \in Seq(W) /\ Len(r) = Len(words) /\ (Fits(words) => Fits(r))
<1> DEFINE n == Len(words)
           w == words[i]
           low == IF i = 1 THEN t ELSE CapMax(t, words[i - 1].start + MinLength - w.start)
           high == IF i = n THEN low ELSE CapMin(low, words[i + 1].end - MinLength - w.end)
           by == CapMax(high, -w.start)
           s == w.start + by
           e == w.end + by
           f == words[i - 1].end > s
           g == words[i + 1].start < e
           u == [w EXCEPT !.start = @ + by, !.end = @ + by]
           p == [words[i - 1] EXCEPT !.end = s]
           q == [words[i + 1] EXCEPT !.start = e]
           r == [k \in 1 .. n |-> CASE k = i -> u [] k = i - 1 /\ f -> p [] k = i + 1 /\ g -> q [] OTHER -> words[k]]
<1>1. /\ n \in Nat /\ DOMAIN words = 1 .. n /\ i \in 1 .. n /\ w \in W /\ w.start \in Int /\ w.end \in Int
      /\ \A k \in 1 .. n : words[k] \in W /\ words[k].start \in Int /\ words[k].end \in Int
      /\ i # 1 => i - 1 \in 1 .. n /\ words[i - 1].start \in Int /\ words[i - 1].end \in Int
      /\ i # n => i + 1 \in 1 .. n /\ words[i + 1].start \in Int /\ words[i + 1].end \in Int
    <2>1. \A k \in 1 .. n : words[k] \in W /\ words[k].start \in Int /\ words[k].end \in Int
        BY WordTimes
    <2> QED BY <2>1
<1>0. n \in Nat /\ i \in 1 .. n
    BY <1>1
<1>2. low \in Int /\ high \in Int /\ by \in Int /\ s \in Int /\ e \in Int
    <2>1. low \in Int
        BY <1>1 DEF CapMax, MinLength
    <2> HIDE DEF low
    <2>2. high \in Int
        BY <1>1, <2>1 DEF CapMin, MinLength
    <2> HIDE DEF high
    <2>3. by \in Int
        BY <1>1, <2>2 DEF CapMax
    <2> QED BY <1>1, <2>1, <2>2, <2>3
<1>3. ShiftWord(words, i, t) = IF by = 0 THEN words ELSE r
    <2> DEFINE z == [k \in DOMAIN words |->
                       CASE k = i -> [w EXCEPT !.start = @ + by, !.end = @ + by]
                         [] k = i - 1 /\ words[k].end > w.start + by -> [words[k] EXCEPT !.end = w.start + by]
                         [] k = i + 1 /\ words[k].start < w.end + by -> [words[k] EXCEPT !.start = w.end + by]
                         [] OTHER -> words[k]]
    <2>1. ShiftWord(words, i, t) = IF by = 0 THEN words ELSE z
        BY DEF ShiftWord
    <2> HIDE DEF low, high, by, u
    <2>2. z = r
        BY <1>1 DEF u
    <2> HIDE DEF z, r
    <2> QED BY <2>1, <2>2
<1>4. u = [w EXCEPT !.start = s, !.end = e]
    <2> HIDE DEF by, w, low, high
    <2>1. w \in [of : 0 .. CapFiles, start : Int, end : Int, hidden : BOOLEAN]
        BY <1>1, WordIs
    <2> QED BY <2>1
<1>5. u \in W /\ u.start = s /\ u.end = e
    <2> HIDE DEF s, e, u, w
    <2>1. w \in W /\ s \in Int /\ e \in Int
        BY <1>1, <1>2
    <2>2. [w EXCEPT !.start = s, !.end = e] \in W
        BY <2>1, TwoChange
    <2>3. [w EXCEPT !.start = s, !.end = e] = [of |-> w.of, start |-> s, end |-> e, hidden |-> w.hidden]
        BY <2>1, TwoChange
    <2> QED BY <1>4, <2>2, <2>3
<1>6. i # 1 => p \in W /\ p.start = words[i - 1].start /\ p.end = s
    <2> HIDE DEF s
    <2> QED BY <1>1, <1>2, EndChange
<1>7. i # n => q \in W /\ q.start = e /\ q.end = words[i + 1].end
    <2> HIDE DEF e
    <2> QED BY <1>1, <1>2, StartChange
<1> HIDE DEF low, high, by, s, e, f, g, u, p, q, w, n
<1>8. /\ r \in Seq(W) /\ Len(r) = n
      /\ \A k \in 1 .. n : r[k] = IF k = i THEN u ELSE IF k = i - 1 /\ f THEN p ELSE IF k = i + 1 /\ g THEN q ELSE words[k]
    <2>1. \A k \in 1 .. n : r[k] = IF k = i THEN u ELSE IF k = i - 1 /\ f THEN p ELSE IF k = i + 1 /\ g THEN q ELSE words[k]
        BY <1>1
    <2>2. ASSUME NEW k \in 1 .. n PROVE r[k] \in W
        <3>1. k = i - 1 => i # 1
            BY <1>1
        <3>2. k = i + 1 => i # n
            BY <1>1
        <3> QED BY <1>1, <1>5, <1>6, <1>7, <2>1, <3>1, <3>2
    <2>3. r \in [1 .. n -> W]
        BY <2>2
    <2> HIDE DEF r
    <2> QED BY <1>1, <2>1, <2>3
<1> HIDE DEF r
<1>9. ASSUME Fits(words) PROVE Fits(r)
    <2>1. /\ \A k \in 1 .. n : 0 <= words[k].start /\ words[k].start < words[k].end
          /\ \A k \in 2 .. n : words[k - 1].end <= words[k].start
        BY <1>1, <1>9 DEF Fits, n
    <2>2. /\ 0 <= w.start /\ w.start < w.end
          /\ i # 1 => /\ 0 <= words[i - 1].start /\ words[i - 1].start < words[i - 1].end
                      /\ words[i - 1].end <= w.start
          /\ i # n => /\ w.end <= words[i + 1].start /\ words[i + 1].start < words[i + 1].end
        <3>1. i # 1 => i \in 2 .. n
            BY <1>0
        <3>2. i # n => i + 1 \in 2 .. n /\ (i + 1) - 1 = i
            BY <1>0
        <3>3. i # n => words[(i + 1) - 1].end <= words[i + 1].start
            BY <2>1, <3>2
        <3> QED BY <1>1, <2>1, <3>1, <3>2, <3>3 DEF w
    <2>3. /\ 0 <= s /\ s < e
          /\ i # 1 => words[i - 1].start < s /\ (f \/ words[i - 1].end <= s)
          /\ i # n => e < words[i + 1].end /\ (g \/ e <= words[i + 1].start)
        <3>1. /\ -w.start <= by
              /\ i # 1 => words[i - 1].start + 1 - w.start <= by
              /\ i # n => by <= words[i + 1].end - 1 - w.end
            <4> DEFINE a == words[i - 1].start + MinLength - w.start
                       b == words[i + 1].end - MinLength - w.end
            <4>1. /\ i # 1 => a \in Int /\ a <= 0 /\ low = CapMax(t, a)
                  /\ i # n => b \in Int /\ b >= 0 /\ b >= -w.start /\ high = CapMin(low, b)
                  /\ i = n => high = low
                <5>1. i # 1 => a \in Int /\ a <= 0 /\ low = CapMax(t, a)
                    BY <1>1, <2>2 DEF low, MinLength
                <5>2. ASSUME i # n PROVE b \in Int /\ b >= 0 /\ b >= -w.start
                    <6> DEFINE x == words[i + 1].end
                               y == words[i + 1].start
                               we == w.end
                               ws == w.start
                    <6>1. x \in Int /\ y \in Int /\ we \in Int /\ ws \in Int /\ b = x - 1 - we
                        BY <1>1, <5>2 DEF MinLength
                    <6>2. we <= y /\ y < x /\ 0 <= ws
                        BY <2>2, <5>2
                    <6> HIDE DEF x, y, we, ws, b
                    <6>3. b \in Int /\ b >= 0 /\ b >= -ws
                        BY <6>1, <6>2
                    <6> QED BY <6>3 DEF ws
                <5>3. /\ i # n => high = CapMin(low, b)
                      /\ i = n => high = low
                    BY DEF high
                <5> QED BY <5>1, <5>2, <5>3
            <4>5. by = CapMax(high, -w.start) /\ w.start \in Int
                BY <1>1 DEF by
            <4> HIDE DEF a, b
            <4>2. i # 1 => a <= low
                BY <1>2, <4>1 DEF CapMax
            <4>3. i # 1 => a <= high
                BY <1>2, <4>1, <4>2 DEF CapMin
            <4>4. i # n => high <= b
                BY <1>2, <4>1 DEF CapMin
            <4>6. /\ -w.start <= by
                  /\ i # 1 => a <= by
                BY <1>2, <4>1, <4>3, <4>5 DEF CapMax
            <4>7. i # n => by <= b
                BY <1>2, <4>1, <4>4, <4>5 DEF CapMax
            <4> QED BY <1>1, <4>6, <4>7 DEF a, b, MinLength
        <3>2. 0 <= s /\ s < e
            BY <1>1, <1>2, <2>2, <3>1 DEF s, e
        <3>3. i # 1 => words[i - 1].start < s /\ (f \/ words[i - 1].end <= s)
            BY <1>1, <1>2, <3>1 DEF f, s
        <3>4. i # n => e < words[i + 1].end /\ (g \/ e <= words[i + 1].start)
            BY <1>1, <1>2, <3>1 DEF g, e
        <3> QED BY <3>2, <3>3, <3>4
    <2>4. ASSUME NEW k \in 1 .. n PROVE 0 <= r[k].start /\ r[k].start < r[k].end
        <3>1. CASE k = i
            BY <1>5, <1>8, <2>3, <3>1
        <3>2. CASE k = i - 1 /\ f
            <4>1. k # i /\ i # 1
                BY <1>1, <3>2
            <4> QED BY <1>6, <1>8, <2>2, <2>3, <3>2, <4>1
        <3>3. CASE k = i + 1 /\ g
            <4>1. k # i /\ k # i - 1 /\ i # n
                BY <1>1, <3>3
            <4>2. r[k] = q /\ q.start = e /\ q.end = words[i + 1].end /\ e < words[i + 1].end /\ 0 <= s /\ s < e
                BY <1>7, <1>8, <2>3, <3>3, <4>1
            <4> QED BY <1>2, <4>2
        <3>4. CASE k # i /\ ~(k = i - 1 /\ f) /\ ~(k = i + 1 /\ g)
            <4>1. r[k] = words[k]
                BY <1>8, <3>4
            <4> QED BY <2>1, <4>1
        <3> QED BY <3>1, <3>2, <3>3, <3>4
    <2>5. ASSUME NEW k \in 2 .. n PROVE r[k - 1].end <= r[k].start
        <3>0. /\ k \in 1 .. n /\ k - 1 \in 1 .. n /\ words[k - 1].end <= words[k].start
              /\ words[k - 1].end \in Int /\ words[k].start \in Int
            BY <1>1, <2>1
        <3>1. CASE k = i
            <4>1. i # 1 /\ r[k] = u /\ r[k - 1] = IF f THEN p ELSE words[k - 1]
                BY <1>1, <1>8, <3>0, <3>1
            <4> QED BY <1>2, <1>5, <1>6, <2>3, <3>0, <3>1, <4>1
        <3>2. CASE k - 1 = i
            <4>1. i # n /\ k = i + 1 /\ r[k - 1] = u /\ r[k] = IF g THEN q ELSE words[k]
                BY <1>1, <1>8, <3>0, <3>2
            <4> QED BY <1>2, <1>5, <1>7, <2>3, <3>0, <4>1
        <3>3. CASE k = i - 1
            <4>0. /\ i # 1 /\ k # i /\ k # i + 1 /\ k - 1 # i /\ k - 1 # i - 1 /\ k - 1 # i + 1
                BY <1>0, <3>0, <3>3
            <4>2. r[k] = (IF f THEN p ELSE words[k]) /\ r[k - 1] = words[k - 1]
                BY <1>8, <3>0, <3>3, <4>0
            <4>1. r[k].start = words[k].start /\ r[k - 1] = words[k - 1]
                BY <1>6, <3>3, <4>0, <4>2
            <4> QED BY <3>0, <4>1
        <3>4. CASE k - 1 = i + 1
            <4>0. /\ i # n /\ k # i /\ k # i - 1 /\ k # i + 1 /\ k - 1 # i /\ k - 1 # i - 1
                BY <1>0, <3>0, <3>4
            <4>2. r[k] = words[k] /\ r[k - 1] = (IF g THEN q ELSE words[k - 1])
                BY <1>8, <3>0, <3>4, <4>0
            <4>1. r[k] = words[k] /\ r[k - 1].end = words[k - 1].end
                BY <1>7, <3>4, <4>0, <4>2
            <4> QED BY <3>0, <4>1
        <3>5. CASE k # i /\ k - 1 # i /\ k # i - 1 /\ k - 1 # i + 1
            <4>1. r[k] = words[k] /\ r[k - 1] = words[k - 1]
                BY <1>1, <1>8, <3>0, <3>5
            <4> QED BY <3>0, <4>1
        <3> QED BY <3>1, <3>2, <3>3, <3>4, <3>5
    <2> QED BY <1>1, <1>8, <2>4, <2>5 DEF Fits
<1>10. CASE by = 0
    BY <1>3, <1>10 DEF n
<1>11. CASE by # 0
    BY <1>3, <1>8, <1>9, <1>11 DEF n
<1> QED BY <1>10, <1>11

LEMMA RealignStays ==
    ASSUME NEW W, TimesFree(W), NEW words \in Seq(W), words # <<>>, NEW a \in 0 .. Len(words),
           NEW b \in a + 1 .. Len(words) + 1, NEW n \in 1 .. 2, NEW t \in Int,
           \A s, e \in Int : Word(cap.file, s, e) \in W
    PROVE  RealignText(words, a, b, n, t) \in Seq(W)
<1> DEFINE gap == SubSeq(words, a + 1, b - 1)
           first == IF a = 0 THEN 0 ELSE words[a].end
           last == IF b > Len(words) THEN words[Len(words)].end ELSE words[b].start
           t0 == IF gap = <<>> THEN first ELSE gap[1].start
           t1 == IF gap = <<>> THEN last ELSE gap[Len(gap)].end
           tight == t1 - t0 < 2 * n
           past == b <= Len(words) /\ t0 + Short * n > last
           from == IF tight /\ past THEN CapMax(first, last - Short * n) ELSE t0
           to == IF ~tight THEN t1 ELSE IF past THEN last ELSE t0 + Short * n
           whole == Word(cap.file, from, CapMax(to, from + MinLength))
           m == IF Len(gap) = n THEN gap ELSE IF n = 1 THEN <<whole>> ELSE Halves(whole, t, MinLength)
<1>1. \A w \in W : w.start \in Int /\ w.end \in Int
    BY WordTimes
<1>2. \A k \in DOMAIN words : words[k] \in W
    OBVIOUS
<1>3. gap \in Seq(W)
    OBVIOUS
<1>4. first \in Int /\ last \in Int
    <2>1. Len(words) \in DOMAIN words
        OBVIOUS
    <2>2. a # 0 => a \in DOMAIN words
        OBVIOUS
    <2>3. ~(b > Len(words)) => b \in DOMAIN words
        OBVIOUS
    <2> QED BY <1>1, <1>2, <2>1, <2>2, <2>3
<1> HIDE DEF gap, first, last
<1>5. t0 \in Int /\ t1 \in Int
    <2>1. gap # <<>> => gap[1] \in W /\ gap[Len(gap)] \in W
        BY <1>3
    <2> QED BY <1>1, <1>4, <2>1
<1> HIDE DEF t0, t1
<1>6. from \in Int /\ to \in Int
    <2> HIDE DEF tight, past
    <2> QED BY <1>4, <1>5 DEF CapMax, Short
<1> HIDE DEF from, to
<1>7. whole \in W
    <2>1. CapMax(to, from + MinLength) \in Int
        BY <1>6 DEF CapMax, MinLength
    <2> QED BY <1>6, <2>1
<1> HIDE DEF whole
<1>8. m \in Seq(W)
    <2>1. Halves(whole, t, MinLength) \in Seq(W)
        BY <1>7, HalvesAre
    <2>2. <<whole>> \in Seq(W)
        BY <1>7, OneOrTwo
    <2> QED BY <1>3, <2>1, <2>2
<1>9. RealignText(words, a, b, n, t) = SubSeq(words, 1, a) \o m \o SubSeq(words, b, Len(words))
    BY DEF RealignText, m, whole, to, from, past, tight, t1, t0, last, first, gap
<1> HIDE DEF m
<1> DEFINE i == a + 1
           j == b - 1
<1>10. /\ i \in 1 .. Len(words) + 1 /\ j \in i - 1 .. Len(words) /\ i - 1 = a /\ j + 1 = b
    OBVIOUS
<1>11. RealignText(words, a, b, n, t) = Spliced(words, i, m, j)
    BY <1>9, <1>10 DEF Spliced, Before, After
<1> HIDE DEF i, j
<1>12. i \in 1 .. Len(words) + 1 /\ j \in i - 1 .. Len(words)
    BY <1>10
<1>13. Spliced(words, i, m, j) \in Seq(W)
    BY <1>8, <1>12, PartsAre
<1> QED BY <1>11, <1>13

(* Words given to a video are its own, and keep their times.                 *)
LEMMA GivenAre ==
    ASSUME NEW words \in Seq(CapWord), NEW f \in 0 .. CapFiles
    PROVE  LET r == [i \in DOMAIN words |-> [words[i] EXCEPT !.of = f]]
           IN r \in Seq(WordsFrom(f)) /\ Len(r) = Len(words)
<1> DEFINE r == [i \in DOMAIN words |-> [words[i] EXCEPT !.of = f]]
<1>1. ASSUME NEW i \in DOMAIN words PROVE [words[i] EXCEPT !.of = f] \in WordsFrom(f)
    <2> DEFINE w == words[i]
    <2>0. w \in CapWord
        OBVIOUS
    <2>1. w \in [of : 0 .. CapFiles, start : Int, end : Int, hidden : BOOLEAN]
        BY <2>0 DEF CapWord
    <2> HIDE DEF w
    <2>2. [w EXCEPT !.of = f] = [of |-> f, start |-> w.start, end |-> w.end, hidden |-> w.hidden]
        BY <2>1
    <2>3. [of |-> f, start |-> w.start, end |-> w.end, hidden |-> w.hidden] \in WordsFrom(f)
        BY <2>1 DEF WordsFrom, CapWord
    <2> QED BY <2>2, <2>3 DEF w
<1>2. r \in [1 .. Len(words) -> WordsFrom(f)]
    BY <1>1
<1> HIDE DEF r
<1>3. r \in Seq(WordsFrom(f)) /\ Len(r) = Len(words)
    BY <1>2
<1> QED BY <1>3 DEF r

LEMMA RetimedAre ==
    ASSUME NEW W, TimesFree(W), NEW words \in Seq(W), NEW heard \in Seq(CapWord), Len(heard) = Len(words)
    PROVE  LET r == [i \in DOMAIN words |-> [words[i] EXCEPT !.start = heard[i].start, !.end = heard[i].end]]
           IN r \in Seq(W) /\ Len(r) = Len(words)
<1> DEFINE w(i) == [words[i] EXCEPT !.start = heard[i].start, !.end = heard[i].end]
           r == [i \in DOMAIN words |-> w(i)]
<1>1. ASSUME NEW i \in DOMAIN words
      PROVE  w(i) \in W
    <2>1. heard[i] \in CapWord /\ words[i] \in W
        OBVIOUS
    <2>2. heard[i].start \in Int /\ heard[i].end \in Int
        BY <2>1 DEF CapWord
    <2> QED BY <2>1, <2>2, TwoChange
<1> HIDE DEF w
<1>2. r \in [1 .. Len(words) -> W]
    BY <1>1
<1> HIDE DEF r
<1>3. r \in Seq(W) /\ Len(r) = Len(words)
    BY <1>2
<1> QED BY <1>3 DEF r, w

(* What the page is made of.                                                 *)
CapVisit == [edits : Nat, ops : SUBSET STRING, files : SUBSET (1 .. CapFiles),
             heard : SUBSET CapTranscript, imports : SUBSET CapTranscript]
CapHistory == Seq(CapTranscript)
CapGrabs == Seq([words : CapTranscript, file : 0 .. CapFiles, at : Nat, part : {"start", "end", "whole"}])
CapFile == 0 .. CapFiles
CapBusy == {"", "load", "transcribe", "export"}

CapRec(visit, file, audio, words, past, future, grab, busy, armed, crowded, late) ==
    [visit |-> visit, file |-> file, audio |-> audio, words |-> words, past |-> past, future |-> future,
     grab |-> grab, busy |-> busy, armed |-> armed, crowded |-> crowded, late |-> late]

CapState ==
    [visit : CapVisit, file : CapFile, audio : CapFile, words : CapTranscript, past : CapHistory,
     future : CapHistory, grab : CapGrabs, busy : CapBusy, armed : BOOLEAN, crowded : BOOLEAN, late : BOOLEAN]

LEMMA CapStateIs ==
    ASSUME NEW c \in CapState
    PROVE  /\ c = CapRec(c.visit, c.file, c.audio, c.words, c.past, c.future, c.grab, c.busy, c.armed, c.crowded, c.late)
           /\ c.visit \in CapVisit /\ c.file \in CapFile /\ c.audio \in CapFile /\ c.words \in CapTranscript
           /\ c.past \in CapHistory /\ c.future \in CapHistory /\ c.grab \in CapGrabs /\ c.busy \in CapBusy
           /\ c.armed \in BOOLEAN /\ c.crowded \in BOOLEAN /\ c.late \in BOOLEAN
BY DEF CapState, CapRec

LEMMA CapRecIs ==
    ASSUME NEW v, NEW f, NEW a, NEW w, NEW p, NEW u, NEW g, NEW b, NEW r, NEW c, NEW l
    PROVE  LET d == CapRec(v, f, a, w, p, u, g, b, r, c, l)
           IN /\ d.visit = v /\ d.file = f /\ d.audio = a /\ d.words = w /\ d.past = p /\ d.future = u /\ d.grab = g
              /\ d.busy = b /\ d.armed = r /\ d.crowded = c /\ d.late = l
              /\ v \in CapVisit /\ f \in CapFile /\ a \in CapFile /\ w \in CapTranscript /\ p \in CapHistory
                 /\ u \in CapHistory /\ g \in CapGrabs /\ b \in CapBusy /\ r \in BOOLEAN /\ c \in BOOLEAN /\ l \in BOOLEAN
                 => d \in CapState
BY DEF CapState, CapRec

(* Whose words may be where: of a video, unless an answer came late; and     *)
(* apart, unless something was put where there was no room.                  *)
Own(c, f) == IF c.late THEN CapWord ELSE WordsFrom(f)
KeptIn(c, words, f) == words \in Seq(Own(c, f)) /\ (~c.crowded => Fits(words))

WordsKept(c) ==
    /\ KeptIn(c, c.words, c.file)
    /\ \A k \in DOMAIN c.past : KeptIn(c, c.past[k], c.file)
    /\ \A k \in DOMAIN c.future : KeptIn(c, c.future[k], c.file)
    /\ \A k \in DOMAIN c.grab : c.grab[k].at \in DOMAIN c.grab[k].words /\ KeptIn(c, c.grab[k].words, c.grab[k].file)
    /\ c.armed => c.file # 0

CapCallsOK(calls) == \A call \in calls : call.file \in 1 .. CapFiles
StoreKept(c, store) ==
    /\ store \in [1 .. CapFiles -> CapTranscript]
    /\ \A f \in 1 .. CapFiles : KeptIn(c, store[f], f)

CapInv ==
    /\ cap \in CapState /\ WordsKept(cap)
    /\ CapCallsOK(capCalls) /\ StoreKept(cap, capStore)

(* Less is asked of d than of c.                                             *)
Looser(c, d) ==
    /\ d \in CapState
    /\ d.file = c.file /\ d.words = c.words /\ d.past = c.past /\ d.future = c.future /\ d.grab = c.grab
    /\ d.armed => c.armed
    /\ c.late => d.late
    /\ c.crowded => d.crowded

LEMMA OwnIs ==
    ASSUME NEW c \in CapState, NEW f
    PROVE  TimesFree(Own(c, f)) /\ Own(c, f) \subseteq CapWord
BY FreeSets, CapStateIs DEF Own, WordsFrom

LEMMA KeptLater ==
    ASSUME NEW c \in CapState, NEW d \in CapState, c.late => d.late, c.crowded => d.crowded,
           NEW words, NEW f, KeptIn(c, words, f)
    PROVE  KeptIn(d, words, f)
<1>1. Own(c, f) \subseteq Own(d, f)
    BY DEF Own, WordsFrom
<1>2. words \in Seq(Own(d, f))
    <2> DEFINE X == Own(c, f)
               Y == Own(d, f)
    <2>1. X \subseteq Y /\ words \in Seq(X)
        BY <1>1 DEF KeptIn
    <2> HIDE DEF X, Y
    <2>2. words \in Seq(Y)
        BY <2>1
    <2> QED BY <2>2 DEF Y
<1> QED BY <1>2 DEF KeptIn

LEMMA LooserKeeps ==
    ASSUME NEW c \in CapState, NEW d, WordsKept(c), Looser(c, d)
    PROVE  d \in CapState /\ WordsKept(d)
<1>1. d \in CapState /\ (c.late => d.late) /\ (c.crowded => d.crowded)
    BY DEF Looser
<1>2. \A words, f : KeptIn(c, words, f) => KeptIn(d, words, f)
    BY <1>1, KeptLater
<1> QED BY <1>1, <1>2 DEF WordsKept, Looser

LEMMA StoreLater ==
    ASSUME NEW c \in CapState, NEW d \in CapState, c.late => d.late, c.crowded => d.crowded,
           NEW store, StoreKept(c, store)
    PROVE  StoreKept(d, store)
<1>1. \A words, f : KeptIn(c, words, f) => KeptIn(d, words, f)
    BY KeptLater
<1> QED BY <1>1 DEF StoreKept

LEMMA SpentIs ==
    ASSUME NEW c \in CapState, c.visit.edits > 0
    PROVE  Looser(c, Spent(c))
<1>1. c.visit \in CapVisit
    BY CapStateIs
<1> DEFINE v == [c.visit EXCEPT !.edits = @ - 1]
<1>2. v \in CapVisit
    BY <1>1 DEF CapVisit
<1>3. Spent(c) = [c EXCEPT !.visit = v]
    BY DEF Spent
<1> HIDE DEF v
<1>5. c = CapRec(c.visit, c.file, c.audio, c.words, c.past, c.future, c.grab, c.busy, c.armed, c.crowded, c.late)
    BY CapStateIs
<1>4. Spent(c) = CapRec(v, c.file, c.audio, c.words, c.past, c.future, c.grab, c.busy, c.armed, c.crowded, c.late)
    BY <1>3, <1>5 DEF CapRec
<1> QED BY <1>2, <1>4, CapStateIs, CapRecIs DEF Looser

LEMMA CrowdedIs ==
    ASSUME NEW c \in CapState, NEW words
    PROVE  Looser(c, Crowded(c, words)) /\ (~Crowded(c, words).crowded => Fits(words))
<1> DEFINE x == c.crowded \/ ~Fits(words)
<1>1. x \in BOOLEAN /\ (c.crowded => x) /\ (~x => Fits(words))
    BY CapStateIs
<1>2. Crowded(c, words) = [c EXCEPT !.crowded = x]
    BY DEF Crowded
<1> HIDE DEF x
<1>5. c = CapRec(c.visit, c.file, c.audio, c.words, c.past, c.future, c.grab, c.busy, c.armed, c.crowded, c.late)
    BY CapStateIs
<1>3. Crowded(c, words) = CapRec(c.visit, c.file, c.audio, c.words, c.past, c.future, c.grab, c.busy, c.armed, x, c.late)
    BY <1>2, <1>5 DEF CapRec
<1> QED BY <1>1, <1>3, CapStateIs, CapRecIs DEF Looser

LEMMA LateIs ==
    ASSUME NEW c \in CapState, NEW f
    PROVE  Looser(c, Late(c, f)) /\ (~Late(c, f).late => c.file = f)
<1> DEFINE x == c.late \/ c.file # f
<1>1. x \in BOOLEAN /\ (c.late => x) /\ (~x => c.file = f)
    BY CapStateIs
<1>2. Late(c, f) = [c EXCEPT !.late = x]
    BY DEF Late
<1> HIDE DEF x
<1>5. c = CapRec(c.visit, c.file, c.audio, c.words, c.past, c.future, c.grab, c.busy, c.armed, c.crowded, c.late)
    BY CapStateIs
<1>3. Late(c, f) = CapRec(c.visit, c.file, c.audio, c.words, c.past, c.future, c.grab, c.busy, c.armed, c.crowded, x)
    BY <1>2, <1>5 DEF CapRec
<1> QED BY <1>1, <1>3, CapStateIs, CapRecIs DEF Looser

LEMMA OthersAre ==
    ASSUME NEW c \in CapState
    PROVE  /\ \A b \in CapBusy : Looser(c, [c EXCEPT !.busy = b])
           /\ \A f \in CapFile : Looser(c, [c EXCEPT !.audio = f])
           /\ \A r \in BOOLEAN : (r => c.armed) => Looser(c, [c EXCEPT !.armed = r])
<1>5. c = CapRec(c.visit, c.file, c.audio, c.words, c.past, c.future, c.grab, c.busy, c.armed, c.crowded, c.late)
    BY CapStateIs
<1>1. ASSUME NEW b \in CapBusy PROVE Looser(c, [c EXCEPT !.busy = b])
    <2>1. [c EXCEPT !.busy = b]
            = CapRec(c.visit, c.file, c.audio, c.words, c.past, c.future, c.grab, b, c.armed, c.crowded, c.late)
        BY <1>5 DEF CapRec
    <2> QED BY <2>1, CapStateIs, CapRecIs DEF Looser
<1>2. ASSUME NEW f \in CapFile PROVE Looser(c, [c EXCEPT !.audio = f])
    <2>1. [c EXCEPT !.audio = f]
            = CapRec(c.visit, c.file, f, c.words, c.past, c.future, c.grab, c.busy, c.armed, c.crowded, c.late)
        BY <1>5 DEF CapRec
    <2> QED BY <2>1, CapStateIs, CapRecIs DEF Looser
<1>3. ASSUME NEW r \in BOOLEAN, r => c.armed PROVE Looser(c, [c EXCEPT !.armed = r])
    <2>1. [c EXCEPT !.armed = r]
            = CapRec(c.visit, c.file, c.audio, c.words, c.past, c.future, c.grab, c.busy, r, c.crowded, c.late)
        BY <1>5 DEF CapRec
    <2> QED BY <1>3, <2>1, CapStateIs, CapRecIs DEF Looser
<1> QED BY <1>1, <1>2, <1>3

LEMMA LooserAgain ==
    ASSUME NEW b, NEW c, NEW d, Looser(b, c), Looser(c, d)
    PROVE  Looser(b, d)
BY DEF Looser

LEMMA WithWordsIs ==
    ASSUME NEW c \in CapState, NEW words, NEW past, NEW future
    PROVE  [WithWords(c, words) EXCEPT !.past = past, !.future = future]
             = CapRec(c.visit, c.file, c.audio, words, past, future, c.grab, c.busy,
                      words # <<>> /\ c.file # 0, c.crowded, c.late)
<1> DEFINE r == words # <<>> /\ c.file # 0
           a == [c EXCEPT !.words = words]
           b == [a EXCEPT !.armed = r]
           d == [b EXCEPT !.past = past]
<1>1. c = CapRec(c.visit, c.file, c.audio, c.words, c.past, c.future, c.grab, c.busy, c.armed, c.crowded, c.late)
    BY CapStateIs
<1>2. WithWords(c, words) = b
    BY Zenon DEF WithWords
<1>3. [WithWords(c, words) EXCEPT !.past = past, !.future = future] = [d EXCEPT !.future = future]
    BY <1>2, Zenon
<1> HIDE DEF r
<1>4. a = CapRec(c.visit, c.file, c.audio, words, c.past, c.future, c.grab, c.busy, c.armed, c.crowded, c.late)
    BY <1>1 DEF CapRec
<1> HIDE DEF a
<1>5. b = CapRec(c.visit, c.file, c.audio, words, c.past, c.future, c.grab, c.busy, r, c.crowded, c.late)
    BY <1>4 DEF CapRec
<1> HIDE DEF b
<1>6. d = CapRec(c.visit, c.file, c.audio, words, past, c.future, c.grab, c.busy, r, c.crowded, c.late)
    BY <1>5 DEF CapRec
<1> HIDE DEF d
<1>7. [d EXCEPT !.future = future]
        = CapRec(c.visit, c.file, c.audio, words, past, future, c.grab, c.busy, r, c.crowded, c.late)
    BY <1>6 DEF CapRec
<1> QED BY <1>3, <1>7 DEF r

(* New words, with a history of kept ones.                                   *)
HistoryKept(c, past) == past \in CapHistory /\ \A k \in DOMAIN past : KeptIn(c, past[k], c.file)

LEMMA NewWordsKeep ==
    ASSUME NEW c \in CapState, WordsKept(c), NEW words \in CapTranscript, KeptIn(c, words, c.file),
           NEW past, HistoryKept(c, past), NEW future, HistoryKept(c, future),
           NEW r, r \in BOOLEAN, r => c.file # 0, NEW d,
           d = CapRec(c.visit, c.file, c.audio, words, past, future, c.grab, c.busy, r, c.crowded, c.late)
    PROVE  d \in CapState /\ WordsKept(d) /\ d.late = c.late /\ d.crowded = c.crowded
<1>1. /\ d.late = c.late /\ d.crowded = c.crowded /\ d.file = c.file /\ d.words = words
      /\ d.past = past /\ d.future = future /\ d.grab = c.grab /\ d.armed = r
    BY DEF CapRec
<1>2. d \in CapState
    <2>1. /\ c.visit \in CapVisit /\ c.file \in CapFile /\ c.audio \in CapFile /\ c.grab \in CapGrabs
          /\ c.busy \in CapBusy /\ c.crowded \in BOOLEAN /\ c.late \in BOOLEAN
        BY CapStateIs
    <2>2. past \in CapHistory /\ future \in CapHistory
        BY DEF HistoryKept
    <2> QED BY <2>1, <2>2 DEF CapRec, CapState
<1>3. \A x, f : KeptIn(c, x, f) => KeptIn(d, x, f)
    BY <1>1, <1>2, KeptLater
<1> QED BY <1>1, <1>2, <1>3 DEF WordsKept, HistoryKept

LEMMA EmptyIs == <<>> \in CapHistory /\ (\A c, f : KeptIn(c, <<>>, f)) /\ (\A c : HistoryKept(c, <<>>))
BY DEF CapHistory, KeptIn, Fits, HistoryKept

LEMMA LongerIs ==
    ASSUME NEW c, NEW past, HistoryKept(c, past), NEW words \in CapTranscript, KeptIn(c, words, c.file)
    PROVE  HistoryKept(c, Append(past, words))
<1> DEFINE r == Append(past, words)
           f == c.file
<1>1. past \in Seq(CapTranscript) /\ \A k \in DOMAIN past : KeptIn(c, past[k], f)
    BY DEF HistoryKept, CapHistory
<1> HIDE DEF r, f
<1>2. /\ r \in Seq(CapTranscript) /\ DOMAIN r = 1 .. Len(past) + 1 /\ r[Len(past) + 1] = words
      /\ (\A k \in 1 .. Len(past) : r[k] = past[k])
      /\ DOMAIN past = 1 .. Len(past) /\ Len(past) \in Nat
    BY <1>1 DEF r
<1>3. ASSUME NEW k \in DOMAIN r PROVE KeptIn(c, r[k], f)
    <2>1. CASE k = Len(past) + 1
        BY <1>2, <2>1 DEF f
    <2>2. CASE k # Len(past) + 1
        <3>1. k \in DOMAIN past /\ r[k] = past[k]
            BY <1>2, <2>2
        <3> QED BY <1>1, <3>1
    <2> QED BY <2>1, <2>2
<1> QED BY <1>2, <1>3 DEF HistoryKept, CapHistory, r, f

LEMMA ShorterIs ==
    ASSUME NEW c, NEW past, HistoryKept(c, past), past # <<>>
    PROVE  /\ HistoryKept(c, Front(past))
           /\ Last(past) \in CapTranscript /\ KeptIn(c, Last(past), c.file)
<1> DEFINE f == c.file
           r == Front(past)
           x == Last(past)
<1>1. past \in Seq(CapTranscript) /\ (\A k \in DOMAIN past : KeptIn(c, past[k], f))
    BY DEF HistoryKept, CapHistory
<1> HIDE DEF f
<1>2. Len(past) \in Nat /\ Len(past) >= 1 /\ DOMAIN past = 1 .. Len(past) /\ x = past[Len(past)]
    BY <1>1 DEF Last
<1>3. x \in CapTranscript /\ KeptIn(c, x, f)
    BY <1>1, <1>2
<1>4. r \in Seq(CapTranscript) /\ DOMAIN r = 1 .. Len(past) - 1 /\ (\A k \in DOMAIN r : r[k] = past[k])
    BY <1>1, <1>2 DEF Front
<1> HIDE DEF r, x
<1>5. \A k \in DOMAIN r : KeptIn(c, r[k], f)
    BY <1>1, <1>2, <1>4
<1> QED BY <1>3, <1>4, <1>5 DEF HistoryKept, CapHistory, f, r, x

LEMMA PastIs ==
    ASSUME NEW c \in CapState, WordsKept(c)
    PROVE  /\ HistoryKept(c, c.past) /\ HistoryKept(c, c.future)
           /\ c.words \in CapTranscript /\ KeptIn(c, c.words, c.file)
BY CapStateIs DEF WordsKept, HistoryKept

LEMMA SetWordsKeeps ==
    ASSUME NEW c \in CapState, WordsKept(c), NEW words \in CapTranscript, KeptIn(c, words, c.file),
           NEW keyed \in BOOLEAN, NEW d \in SetWords(c, words, keyed)
    PROVE  d \in CapState /\ WordsKept(d) /\ d.late = c.late /\ d.crowded = c.crowded
<1>1. PICK past \in {Append(c.past, c.words)} \union (IF keyed THEN {c.past} ELSE {}) :
        d = [WithWords(c, words) EXCEPT !.past = past, !.future = <<>>]
    BY DEF SetWords
<1>2. HistoryKept(c, past)
    BY <1>1, PastIs, LongerIs
<1> DEFINE u == <<>>
           r == words # <<>> /\ c.file # 0
<1>3. HistoryKept(c, u)
    BY EmptyIs
<1>4. d = [WithWords(c, words) EXCEPT !.past = past, !.future = u]
    BY <1>1
<1> HIDE DEF u
<1>5. d = CapRec(c.visit, c.file, c.audio, words, past, u, c.grab, c.busy, r, c.crowded, c.late)
    BY <1>4, WithWordsIs, Zenon
<1>6. r \in BOOLEAN /\ (r => c.file # 0)
    OBVIOUS
<1> HIDE DEF r
<1> QED BY <1>2, <1>3, <1>5, <1>6, NewWordsKeep

(* What an edit leaves behind.                                               *)
LEMMA EditKeeps ==
    ASSUME CapInv, NEW c, Looser(cap, c), NEW words \in Seq(Own(c, c.file)), Len(words) <= CapWords,
           ~c.crowded => Fits(words), NEW keyed \in BOOLEAN, cap' \in SetWords(c, words, keyed),
           CapCallsOK(capCalls'), capStore' = capStore
    PROVE  CapInv'
<1>1. c \in CapState /\ WordsKept(c) /\ (cap.late => c.late) /\ (cap.crowded => c.crowded)
    BY LooserKeeps DEF CapInv, Looser
<1>2. KeptIn(c, words, c.file)
    BY DEF KeptIn
<1>3. words \in CapTranscript
    <2> DEFINE X == Own(c, c.file)
    <2>1. X \subseteq CapWord /\ words \in Seq(X)
        BY <1>1, OwnIs
    <2> HIDE DEF X
    <2>2. words \in Seq(CapWord)
        BY <2>1
    <2> QED BY <2>2 DEF CapTranscript
<1>4. cap' \in CapState /\ WordsKept(cap') /\ cap'.late = c.late /\ cap'.crowded = c.crowded
    BY <1>1, <1>2, <1>3, SetWordsKeeps
<1>5. StoreKept(cap', capStore)
    BY <1>1, <1>4, StoreLater DEF CapInv
<1> QED BY <1>4, <1>5 DEF CapInv

LEMMA OwnGrows ==
    ASSUME NEW c \in CapState, NEW d, Looser(c, d), NEW words \in Seq(Own(c, c.file))
    PROVE  words \in Seq(Own(d, d.file))
<1> DEFINE X == Own(c, c.file)
           Y == Own(d, d.file)
<1>1. X \subseteq Y /\ words \in Seq(X)
    BY DEF Looser, Own, WordsFrom
<1> HIDE DEF X, Y
<1>2. words \in Seq(Y)
    BY <1>1
<1> QED BY <1>2 DEF Y

(* The words of a video are among its own.                                   *)
LEMMA FromIsOwn ==
    ASSUME NEW c, NEW f, NEW words \in Seq(WordsFrom(f))
    PROVE  words \in Seq(Own(c, f))
<1> DEFINE X == WordsFrom(f)
           Y == Own(c, f)
<1>1. X \subseteq Y /\ words \in Seq(X)
    BY DEF Own, WordsFrom
<1> HIDE DEF X, Y
<1>2. words \in Seq(Y)
    BY <1>1
<1> QED BY <1>2 DEF Y

LEMMA CapNow ==
    ASSUME CapInv
    PROVE  /\ cap \in CapState /\ WordsKept(cap) /\ CapCallsOK(capCalls) /\ StoreKept(cap, capStore)
           /\ cap.words \in Seq(Own(cap, cap.file)) /\ (~cap.crowded => Fits(cap.words))
           /\ TimesFree(Own(cap, cap.file)) /\ cap.file \in CapFile
BY OwnIs, CapStateIs DEF CapInv, WordsKept, KeptIn

LEMMA EditsKeep ==
    ASSUME CapInv, cap.visit.edits > 0, NEW words \in Seq(Own(cap, cap.file)), Fits(cap.words) => Fits(words),
           NEW keyed \in BOOLEAN, Edits(words, keyed)
    PROVE  CapInv'
<1> DEFINE c == Spent(cap)
<1>1. Looser(cap, c)
    BY CapNow, SpentIs
<1>2. Len(words) <= CapWords /\ cap' \in SetWords(c, words, keyed) /\ capCalls' = capCalls /\ capStore' = capStore
    BY DEF Edits
<1> HIDE DEF c
<1>3. words \in Seq(Own(c, c.file))
    BY <1>1, CapNow, OwnGrows
<1>4. ~c.crowded => Fits(words)
    BY <1>1, CapNow DEF Looser
<1>5. CapCallsOK(capCalls')
    BY <1>2, CapNow
<1> QED BY <1>1, <1>2, <1>3, <1>4, <1>5, EditKeeps

LEMMA FreelyKeep ==
    ASSUME CapInv, cap.visit.edits > 0, NEW words \in Seq(Own(cap, cap.file)),
           NEW keyed \in BOOLEAN, EditsFreely(words, keyed)
    PROVE  CapInv'
<1> DEFINE b == Spent(cap)
           c == Crowded(b, words)
<1>1. Looser(cap, b)
    BY CapNow, SpentIs
<1>2. Len(words) <= CapWords /\ cap' \in SetWords(c, words, keyed) /\ capCalls' = capCalls /\ capStore' = capStore
    BY DEF EditsFreely
<1> HIDE DEF b
<1>3. Looser(b, c) /\ (~c.crowded => Fits(words))
    BY <1>1, CrowdedIs DEF Looser
<1> HIDE DEF c
<1>4. Looser(cap, c)
    BY <1>1, <1>3, LooserAgain
<1>5. words \in Seq(Own(c, c.file))
    BY <1>4, CapNow, OwnGrows
<1>6. CapCallsOK(capCalls')
    BY <1>2, CapNow
<1> QED BY <1>2, <1>3, <1>4, <1>5, <1>6, EditKeeps

LEMMA JoinKeeps ==
    ASSUME CapInv, NEW i \in DOMAIN cap.words, JoinOrDelete(i)
    PROVE  CapInv'
<1> DEFINE W == Own(cap, cap.file)
           w == cap.words
<1>1. TimesFree(W) /\ w \in Seq(W) /\ i \in DOMAIN w
    BY CapNow
<1>2. cap.visit.edits > 0
    BY DEF JoinOrDelete, CapGesture
<1> HIDE DEF W, w
<1>3. CASE i > 1 /\ Edits(MergeWithPrevious(w, i), FALSE)
    <2>1. MergeWithPrevious(w, i) \in Seq(W) /\ (Fits(w) => Fits(MergeWithPrevious(w, i)))
        BY <1>1, <1>3, MergeStays
    <2> QED BY <1>2, <1>3, <2>1, EditsKeep DEF W, w
<1>4. CASE Edits(DeleteWord(w, i), FALSE)
    <2>1. DeleteWord(w, i) \in Seq(W) /\ (Fits(w) => Fits(DeleteWord(w, i)))
        BY <1>1, DeleteStays
    <2> QED BY <1>2, <1>4, <2>1, EditsKeep DEF W, w
<1>5. CASE Edits([w EXCEPT ![i].hidden = ~@], FALSE)
    <2> DEFINE r == [w EXCEPT ![i].hidden = ~@]
    <2>1. r \in Seq(W) /\ (Fits(w) => Fits(r))
        <3>1. 0 \in Int
            OBVIOUS
        <3> QED BY <1>1, <3>1, ChangesStay, Zenon
    <2>2. Edits(r, FALSE)
        BY <1>5
    <2> HIDE DEF r
    <2> QED BY <1>2, <2>1, <2>2, EditsKeep DEF W, w
<1>6. CASE \E t \in CapTargets : Edits(SplitWordAt(w, i, t), FALSE)
    <2>1. PICK t \in CapTargets : Edits(SplitWordAt(w, i, t), FALSE)
        BY <1>6
    <2>2. t \in Int
        BY CapAssumption
    <2>3. SplitWordAt(w, i, t) \in Seq(W) /\ (Fits(w) => Fits(SplitWordAt(w, i, t)))
        BY <1>1, <2>2, SplitStays
    <2> QED BY <1>2, <2>1, <2>3, EditsKeep DEF W, w
<1> QED BY <1>3, <1>4, <1>5, <1>6, Zenon DEF JoinOrDelete, w

LEMMA AddKeeps ==
    ASSUME CapInv, NEW i \in DOMAIN cap.words, AddWord(i)
    PROVE  CapInv'
<1>1. InsertWordAfter(cap.words, i) \in Seq(Own(cap, cap.file))
    BY CapNow, InsertStays
<1> QED BY <1>1, FreelyKeep DEF AddWord, CapGesture

LEMMA TypeKeeps ==
    ASSUME CapInv, NEW i \in DOMAIN cap.words, TypeText(i)
    PROVE  CapInv'
<1> DEFINE W == Own(cap, cap.file)
           w == cap.words
<1>1. TimesFree(W) /\ w \in Seq(W) /\ i \in DOMAIN w
    BY CapNow
<1>2. cap.visit.edits > 0
    BY DEF TypeText, CapGesture
<1>3. PICK t \in CapTargets : \/ EditsFreely(SetWordText(w, i, t), TRUE)
                              \/ EditsFreely([w EXCEPT ![i].start = t], TRUE)
                              \/ EditsFreely([w EXCEPT ![i].end = t], TRUE)
    BY DEF TypeText
<1>4. t \in Int
    BY CapAssumption
<1> DEFINE x == SetWordText(w, i, t)
           y == [w EXCEPT ![i].start = t]
           z == [w EXCEPT ![i].end = t]
<1> HIDE DEF W, w
<1>5. x \in Seq(W) /\ y \in Seq(W) /\ z \in Seq(W)
    BY <1>1, <1>4, TextStays, ChangesStay
<1>6. EditsFreely(x, TRUE) \/ EditsFreely(y, TRUE) \/ EditsFreely(z, TRUE)
    BY <1>3
<1> HIDE DEF x, y, z
<1> QED BY <1>2, <1>5, <1>6, FreelyKeep DEF W

LEMMA ApplyKeeps ==
    ASSUME CapInv, ApplyText
    PROVE  CapInv'
<1> DEFINE W == Own(cap, cap.file)
           w == cap.words
<1>1. TimesFree(W) /\ w \in Seq(W) /\ w # <<>> /\ cap.visit.edits > 0
    BY CapNow DEF ApplyText, CapGesture
<1>6. PICK a \in 0 .. Len(w), n \in 1 .. 2, t \in CapTargets :
        \E b \in a + 1 .. Len(w) + 1 : EditsFreely(RealignText(w, a, b, n, t), FALSE)
    BY DEF ApplyText
<1>2. PICK b \in a + 1 .. Len(w) + 1 : EditsFreely(RealignText(w, a, b, n, t), FALSE)
    BY <1>6
<1>3. t \in Int
    BY CapAssumption
<1>4. \A s, e \in Int : Word(cap.file, s, e) \in W
    BY CapNow DEF Own, WordsFrom, Word, CapWord, CapFile
<1> HIDE DEF W, w
<1>5. RealignText(w, a, b, n, t) \in Seq(W)
    BY <1>1, <1>3, <1>4, RealignStays
<1> QED BY <1>1, <1>2, <1>5, FreelyKeep DEF W

(* Words that are heard or imported are given the video's name.              *)
LEMMA GivenFrom ==
    ASSUME CapInv, NEW f \in CapFile, NEW words, words \in cap.visit.heard \union cap.visit.imports
    PROVE  LET r == [i \in DOMAIN words |-> [words[i] EXCEPT !.of = f]]
           IN /\ words \in Seq(CapWord) /\ Len(words) <= CapWords
              /\ r \in Seq(WordsFrom(f)) /\ Len(r) = Len(words)
<1>1. cap.visit \in CapVisit
    BY CapNow, CapStateIs
<1>2. words \in Seq(CapWord) /\ Len(words) <= CapWords
    BY <1>1 DEF CapVisit, CapTranscript
<1> QED BY <1>2, GivenAre DEF CapFile

LEMMA VoiceKeeps ==
    ASSUME CapInv, TimeToVoice
    PROVE  CapInv'
<1>1. PICK words \in cap.visit.heard :
        EditsFreely([i \in DOMAIN words |-> [words[i] EXCEPT !.of = cap.file]], FALSE)
    BY DEF TimeToVoice, Heard
<1> DEFINE r == [i \in DOMAIN words |-> [words[i] EXCEPT !.of = cap.file]]
<1>2. r \in Seq(WordsFrom(cap.file))
    BY CapNow, GivenFrom
<1>3. EditsFreely(r, FALSE)
    BY <1>1
<1> HIDE DEF r
<1>4. r \in Seq(Own(cap, cap.file))
    BY <1>2, FromIsOwn
<1> QED BY <1>3, <1>4, FreelyKeep DEF TimeToVoice, CapGesture

LEMMA ImportKeeps ==
    ASSUME CapInv, ImportFile
    PROVE  CapInv'
<1>1. PICK words \in cap.visit.imports :
        EditsFreely([i \in DOMAIN words |-> [words[i] EXCEPT !.of = cap.file]], FALSE)
    BY DEF ImportFile
<1> DEFINE r == [i \in DOMAIN words |-> [words[i] EXCEPT !.of = cap.file]]
<1>2. r \in Seq(WordsFrom(cap.file))
    BY CapNow, GivenFrom
<1>3. EditsFreely(r, FALSE)
    BY <1>1
<1> HIDE DEF r
<1>4. r \in Seq(Own(cap, cap.file))
    BY <1>2, FromIsOwn
<1> QED BY <1>3, <1>4, FreelyKeep DEF ImportFile, CapGesture

LEMMA RetimeKeeps ==
    ASSUME CapInv, Retime
    PROVE  CapInv'
<1>1. PICK words \in Heard(cap.file) :
        /\ Len(words) = Len(cap.words)
        /\ EditsFreely([i \in DOMAIN words |-> [cap.words[i] EXCEPT !.start = words[i].start, !.end = words[i].end]],
                       TRUE)
    BY DEF Retime
<1>2. PICK told \in cap.visit.heard : words = [i \in DOMAIN told |-> [told[i] EXCEPT !.of = cap.file]]
    BY DEF Heard
<1> DEFINE w == cap.words
           W == Own(cap, cap.file)
           r == [i \in DOMAIN w |-> [w[i] EXCEPT !.start = words[i].start, !.end = words[i].end]]
<1>3. TimesFree(W) /\ w \in Seq(W)
    BY CapNow
<1>4. words \in Seq(CapWord)
    <2> DEFINE X == WordsFrom(cap.file)
    <2>1. words \in Seq(X) /\ X \subseteq CapWord
        BY <1>2, CapNow, GivenFrom DEF WordsFrom
    <2> HIDE DEF X
    <2> QED BY <2>1
<1>5. DOMAIN words = DOMAIN w /\ Len(words) = Len(w)
    <2>1. Len(words) = Len(w)
        BY <1>1
    <2> HIDE DEF w, W
    <2> QED BY <1>3, <1>4, <2>1
<1>6. EditsFreely(r, TRUE)
    BY <1>1, <1>5
<1> HIDE DEF w, W
<1>7. r \in Seq(W)
    BY <1>3, <1>4, <1>5, RetimedAre
<1> HIDE DEF r
<1> QED BY <1>6, <1>7, FreelyKeep DEF Retime, CapGesture, W

LEMMA LooselyKeeps ==
    ASSUME CapInv, Looser(cap, cap'), CapCallsOK(capCalls'), capStore' = capStore
    PROVE  CapInv'
<1>1. cap' \in CapState /\ WordsKept(cap')
    BY CapNow, LooserKeeps
<1>2. StoreKept(cap', capStore)
    BY <1>1, CapNow, StoreLater DEF Looser
<1> QED BY <1>1, <1>2 DEF CapInv

LEMMA GrabKeeps ==
    ASSUME CapInv, NEW i \in DOMAIN cap.words, GrabWord(i)
    PROVE  CapInv'
<1>1. PICK part \in {"start", "end", "whole"} :
        cap' = [cap EXCEPT !.grab = <<[words |-> cap.words, file |-> cap.file, at |-> i, part |-> part]>>]
    BY DEF GrabWord
<1>2. capCalls' = capCalls /\ capStore' = capStore
    BY DEF GrabWord
<1> DEFINE g == [words |-> cap.words, file |-> cap.file, at |-> i, part |-> part]
           r == <<g>>
<1>3. cap.words \in CapTranscript /\ cap.file \in CapFile /\ i \in Nat
    BY CapNow, CapStateIs
<1>4. r \in CapGrabs /\ DOMAIN r = {1} /\ r[1] = g /\ g.words = cap.words /\ g.file = cap.file /\ g.at = i
    <2> DEFINE G == [words : CapTranscript, file : 0 .. CapFiles, at : Nat, part : {"start", "end", "whole"}]
    <2>1. g \in G /\ g.words = cap.words /\ g.file = cap.file /\ g.at = i
        BY <1>3 DEF CapFile
    <2> HIDE DEF g, G
    <2>2. <<g>> \in Seq(G) /\ DOMAIN <<g>> = {1} /\ <<g>>[1] = g
        BY <2>1
    <2> QED BY <2>1, <2>2 DEF CapGrabs, G
<1>5. cap' = [cap EXCEPT !.grab = r]
    BY <1>1
<1> HIDE DEF r, g
<1> DEFINE c == cap
           d == cap'
<1>6. c \in CapState /\ WordsKept(c) /\ c = CapRec(c.visit, c.file, c.audio, c.words, c.past, c.future, c.grab,
                                                c.busy, c.armed, c.crowded, c.late)
    BY CapNow, CapStateIs
<1>7. d = [c EXCEPT !.grab = r] /\ r \in CapGrabs
    BY <1>4, <1>5
<1> HIDE DEF c, d
<1>8. d = CapRec(c.visit, c.file, c.audio, c.words, c.past, c.future, r, c.busy, c.armed, c.crowded, c.late)
    BY <1>6, <1>7 DEF CapRec
<1>9. /\ d.file = c.file /\ d.words = c.words /\ d.past = c.past /\ d.future = c.future /\ d.grab = r
      /\ d.armed = c.armed /\ d.crowded = c.crowded /\ d.late = c.late
    BY <1>8 DEF CapRec
<1>10. d \in CapState
    BY <1>6, <1>7, <1>8, CapStateIs DEF CapRec, CapState
<1>11. \A x, f : KeptIn(c, x, f) => KeptIn(d, x, f)
    BY <1>6, <1>9, <1>10, KeptLater
<1>12. WordsKept(d)
    <2>1. KeptIn(d, d.words, d.file) /\ (d.armed => d.file # 0)
        BY <1>6, <1>9, <1>11 DEF WordsKept
    <2>2. \A k \in DOMAIN d.past : KeptIn(d, d.past[k], d.file)
        BY <1>6, <1>9, <1>11 DEF WordsKept
    <2>3. \A k \in DOMAIN d.future : KeptIn(d, d.future[k], d.file)
        BY <1>6, <1>9, <1>11 DEF WordsKept
    <2>4. ASSUME NEW k \in DOMAIN d.grab
          PROVE  d.grab[k].at \in DOMAIN d.grab[k].words /\ KeptIn(d, d.grab[k].words, d.grab[k].file)
        <3>1. d.grab[k] = g /\ g.words = d.words /\ g.file = d.file /\ g.at \in DOMAIN d.words
            BY <1>4, <1>9, <2>4 DEF c
        <3> QED BY <2>1, <3>1
    <2> QED BY <2>1, <2>2, <2>3, <2>4 DEF WordsKept
<1>13. StoreKept(d, capStore)
    BY <1>6, <1>9, <1>10, CapNow, StoreLater DEF c
<1> QED BY <1>2, <1>10, <1>12, <1>13, CapNow DEF CapInv, d

(* A move of a drag is an edit of the words that were seized, for the video  *)
(* they were of; if it is not the page's any more, the page is late.         *)
LEMMA DraggedIs ==
    ASSUME NEW W, TimesFree(W), NEW t \in Int, NEW g, g.words \in Seq(W), g.at \in DOMAIN g.words
    PROVE  LET r == DraggedTo(g, t)
           IN r \in Seq(W) /\ Len(r) = Len(g.words) /\ (Fits(g.words) => Fits(r))
<1> DEFINE w == g.words
           i == g.at
<1>1. w \in Seq(W) /\ i \in DOMAIN w
    OBVIOUS
<1>2. t - w[i].start \in Int
    BY <1>1, WordTimes
<1> DEFINE s == t - w[i].start
<1>3. DraggedTo(g, t) = CASE g.part = "start" -> MoveStart(w, i, t)
                          [] g.part = "end" -> MoveEnd(w, i, t)
                          [] OTHER -> ShiftWord(w, i, s)
    BY DEF DraggedTo
<1> HIDE DEF w, i, s
<1>4. CASE g.part = "start"
    <2>1. DraggedTo(g, t) = MoveStart(w, i, t)
        BY <1>3, <1>4
    <2> QED BY <1>1, <2>1, MoveStartStays DEF w
<1>5. CASE g.part = "end"
    <2>1. DraggedTo(g, t) = MoveEnd(w, i, t)
        BY <1>3, <1>5
    <2> QED BY <1>1, <2>1, MoveEndStays DEF w
<1>6. CASE g.part # "start" /\ g.part # "end"
    <2>1. DraggedTo(g, t) = ShiftWord(w, i, s) /\ s \in Int
        BY <1>2, <1>3, <1>6 DEF s
    <2> QED BY <1>1, <2>1, ShiftStays DEF w
<1> QED BY <1>4, <1>5, <1>6

LEMMA DragKeeps ==
    ASSUME CapInv, NEW t \in CapTargets, DragWord(t)
    PROVE  CapInv'
<1> DEFINE g == cap.grab[1]
           b == Spent(cap)
           c == Late(b, g.file)
           r == DraggedTo(g, t)
<1>1. /\ cap.visit.edits > 0 /\ cap.grab # <<>> /\ cap' \in SetWords(c, r, TRUE)
      /\ capCalls' = capCalls /\ capStore' = capStore /\ t \in Int
    BY CapAssumption DEF DragWord, CapGesture
<1>2. /\ g.words \in CapTranscript /\ g.at \in DOMAIN g.words
      /\ KeptIn(cap, g.words, g.file)
    <2>1. cap.grab \in CapGrabs
        BY CapNow, CapStateIs
    <2>2. 1 \in DOMAIN cap.grab /\ g.words \in CapTranscript
        <3> DEFINE G == [words : CapTranscript, file : 0 .. CapFiles, at : Nat, part : {"start", "end", "whole"}]
                   s == cap.grab
        <3>1. s \in Seq(G) /\ s # <<>> /\ g = s[1]
            BY <1>1, <2>1 DEF CapGrabs
        <3> HIDE DEF G, s, g
        <3>2. 1 \in DOMAIN s /\ g \in G
            BY <3>1
        <3> QED BY <3>2 DEF G, s
    <2> QED BY <2>2, CapNow DEF WordsKept
<1>3. Looser(cap, b)
    BY <1>1, CapNow, SpentIs
<1> HIDE DEF b, g
<1>4. Looser(b, c) /\ (~c.late => b.file = g.file)
    BY <1>3, LateIs DEF Looser
<1> HIDE DEF c
<1>5. Looser(cap, c)
    BY <1>3, <1>4, LooserAgain
<1> DEFINE W == Own(c, c.file)
<1>6. TimesFree(W)
    BY <1>5, OwnIs DEF Looser
<1>7. g.words \in Seq(W)
    <2> DEFINE X == Own(cap, g.file)
    <2>1. X \subseteq W
        BY <1>3, <1>4, <1>5 DEF Looser, Own, WordsFrom
    <2>2. g.words \in Seq(X)
        BY <1>2 DEF KeptIn
    <2> HIDE DEF X, W
    <2> QED BY <2>1, <2>2
<1>8. r \in Seq(W) /\ Len(r) = Len(g.words) /\ (Fits(g.words) => Fits(r))
    BY <1>1, <1>2, <1>6, <1>7, DraggedIs
<1> HIDE DEF r, W
<1>9. Len(r) <= CapWords
    BY <1>2, <1>8 DEF CapTranscript
<1>10. ~c.crowded => Fits(r)
    BY <1>2, <1>5, <1>8 DEF Looser, KeptIn
<1>11. CapCallsOK(capCalls')
    BY <1>1, CapNow
<1> QED BY <1>1, <1>5, <1>8, <1>9, <1>10, <1>11, EditKeeps DEF W

LEMMA RecordIs ==
    ASSUME NEW c \in CapState,
           NEW v \in CapVisit, NEW f \in CapFile, NEW a \in CapFile, NEW w \in CapTranscript, NEW p \in CapHistory,
           NEW u \in CapHistory, NEW b \in CapBusy, NEW r \in BOOLEAN,
           NEW d, d = CapRec(v, f, a, w, p, u, c.grab, b, r, c.crowded, c.late)
    PROVE  /\ d \in CapState
           /\ d.file = f /\ d.words = w /\ d.past = p /\ d.future = u /\ d.grab = c.grab
           /\ d.armed = r /\ d.crowded = c.crowded /\ d.late = c.late
<1>1. c.grab \in CapGrabs /\ c.crowded \in BOOLEAN /\ c.late \in BOOLEAN
    BY CapStateIs
<1> QED BY <1>1 DEF CapRec, CapState

LEMMA MoveKeeps ==
    ASSUME CapInv, NEW c \in CapState, Looser(cap, c), NEW words \in CapTranscript, KeptIn(c, words, c.file),
           NEW past, HistoryKept(c, past), NEW future, HistoryKept(c, future),
           cap' = [WithWords(c, words) EXCEPT !.past = past, !.future = future],
           capCalls' = capCalls, capStore' = capStore
    PROVE  CapInv'
<1>1. WordsKept(c)
    BY CapNow, LooserKeeps
<1> DEFINE r == words # <<>> /\ c.file # 0
           d == cap'
<1>2. d = CapRec(c.visit, c.file, c.audio, words, past, future, c.grab, c.busy, r, c.crowded, c.late)
    BY WithWordsIs, Zenon
<1>3. r \in BOOLEAN /\ (r => c.file # 0)
    OBVIOUS
<1> HIDE DEF r, d
<1>4. d \in CapState /\ WordsKept(d) /\ d.late = c.late /\ d.crowded = c.crowded
    BY <1>1, <1>2, <1>3, NewWordsKeep
<1>5. StoreKept(d, capStore)
    BY <1>4, CapNow, StoreLater DEF Looser
<1> QED BY <1>4, <1>5, CapNow DEF CapInv, d

LEMMA UndoKeeps ==
    ASSUME CapInv, CapUndo \/ CapRedo
    PROVE  CapInv'
<1> DEFINE c == Spent(cap)
<1>1. Looser(cap, c) /\ capCalls' = capCalls /\ capStore' = capStore
    BY CapNow, SpentIs DEF CapUndo, CapRedo, CapGesture
<1>2. c \in CapState /\ WordsKept(c) /\ c.words = cap.words /\ c.past = cap.past /\ c.future = cap.future
    BY <1>1, CapNow, LooserKeeps DEF Looser
<1>3. /\ HistoryKept(c, c.past) /\ HistoryKept(c, c.future)
      /\ c.words \in CapTranscript /\ KeptIn(c, c.words, c.file)
    BY <1>2, PastIs
<1>4. \A words : WithWords(c, words).past = c.past /\ WithWords(c, words).future = c.future
    BY <1>2, CapStateIs DEF WithWords, CapRec
<1>5. CASE CapUndo
    <2> DEFINE x == Last(c.past)
               p == Front(c.past)
               f == Append(c.future, c.words)
    <2>1. c.past # <<>>
        BY <1>2, <1>5 DEF CapUndo
    <2>2. cap' = [WithWords(c, x) EXCEPT !.past = Front(@), !.future = Append(@, c.words)]
        BY <1>2, <1>5 DEF CapUndo
    <2>3. cap' = [WithWords(c, x) EXCEPT !.past = p, !.future = f]
        BY <1>4, <2>2
    <2>4. HistoryKept(c, p) /\ x \in CapTranscript /\ KeptIn(c, x, c.file)
        BY <1>3, <2>1, ShorterIs
    <2>5. HistoryKept(c, f)
        BY <1>3, LongerIs
    <2> HIDE DEF c, x, p, f
    <2> QED BY <1>1, <1>2, <2>3, <2>4, <2>5, MoveKeeps
<1>6. CASE CapRedo
    <2> DEFINE x == Last(c.future)
               f == Front(c.future)
               p == Append(c.past, c.words)
    <2>1. c.future # <<>>
        BY <1>2, <1>6 DEF CapRedo
    <2>2. cap' = [WithWords(c, x) EXCEPT !.future = Front(@), !.past = Append(@, c.words)]
        BY <1>2, <1>6 DEF CapRedo
    <2>3. cap' = [WithWords(c, x) EXCEPT !.past = p, !.future = f]
        BY <1>4, <2>2
    <2>4. HistoryKept(c, f) /\ x \in CapTranscript /\ KeptIn(c, x, c.file)
        BY <1>3, <2>1, ShorterIs
    <2>5. HistoryKept(c, p)
        BY <1>3, LongerIs
    <2> HIDE DEF c, x, p, f
    <2> QED BY <1>1, <1>2, <2>3, <2>4, <2>5, MoveKeeps
<1> QED BY <1>5, <1>6

LEMMA ChooseKeeps ==
    ASSUME CapInv, NEW f \in 1 .. CapFiles, Choose(f)
    PROVE  CapInv'
<1> DEFINE b == Spent(cap)
           k == "load"
<1>1. /\ cap.visit.edits > 0 /\ cap' = [b EXCEPT !.busy = k] /\ capStore' = capStore
      /\ capCalls' = capCalls \union {Capt("load", f)} /\ k \in CapBusy
    BY DEF Choose, CapCalls, CapBusy
<1>2. Looser(cap, b)
    BY <1>1, CapNow, SpentIs
<1> HIDE DEF b, k
<1>3. Looser(b, cap')
    BY <1>1, <1>2, OthersAre DEF Looser
<1>4. CapCallsOK(capCalls')
    BY <1>1, CapNow DEF CapCallsOK, Capt
<1> QED BY <1>1, <1>2, <1>3, <1>4, LooserAgain, LooselyKeeps

LEMMA SendKeeps ==
    ASSUME CapInv, Transcribe \/ ExportVideo
    PROVE  CapInv'
<1> DEFINE b == Spent(cap)
<1>1. PICK k \in {"transcribe", "export"}, f \in CapFile :
      /\ cap.visit.edits > 0 /\ cap' = [b EXCEPT !.busy = k] /\ capStore' = capStore /\ f # 0
      /\ capCalls' = capCalls \union {Capt(k, f)}
    BY CapNow, CapStateIs DEF Transcribe, ExportVideo, CapCalls, CapGesture
<1>2. Looser(cap, b)
    BY <1>1, CapNow, SpentIs
<1> HIDE DEF b
<1>5. k \in CapBusy /\ b \in CapState
    BY <1>2 DEF CapBusy, Looser
<1>3. Looser(b, cap')
    BY <1>1, <1>5, OthersAre
<1>4. CapCallsOK(capCalls')
    <2>1. f \in 1 .. CapFiles
        BY <1>1, CapAssumption DEF CapFile
    <2> QED BY <1>1, <2>1, CapNow DEF CapCallsOK, Capt
<1> QED BY <1>1, <1>2, <1>3, <1>4, LooserAgain, LooselyKeeps

LEMMA EndKeeps ==
    ASSUME CapInv, NEW call \in capCalls,
           Exported(call) \/ Loaded(call, FALSE) \/ Transcribed(call, FALSE)
    PROVE  CapInv'
<1> DEFINE k == ""
<1>1. cap' = [cap EXCEPT !.busy = k] /\ capStore' = capStore /\ capCalls' \subseteq capCalls /\ k \in CapBusy
    BY DEF Exported, Loaded, Transcribed, CapReturns, CapBusy
<1> HIDE DEF k
<1>2. Looser(cap, cap')
    BY <1>1, CapNow, OthersAre
<1>3. CapCallsOK(capCalls')
    BY <1>1, CapNow DEF CapCallsOK
<1> QED BY <1>1, <1>2, <1>3, LooselyKeeps

LEMMA DecodedKeeps ==
    ASSUME CapInv, NEW call \in capCalls, Decoded(call)
    PROVE  CapInv'
<1> DEFINE f == call.file
           b == [cap EXCEPT !.audio = f]
<1>1. cap' = Late(b, f) /\ capStore' = capStore /\ capCalls' \subseteq capCalls
    BY DEF Decoded, CapReturns
<1>2. f \in CapFile
    BY CapNow DEF CapCallsOK, CapFile
<1> HIDE DEF f
<1>3. Looser(cap, b)
    BY <1>2, CapNow, OthersAre
<1> HIDE DEF b
<1>4. Looser(b, cap')
    BY <1>1, <1>3, LateIs DEF Looser
<1>5. CapCallsOK(capCalls')
    BY <1>1, CapNow DEF CapCallsOK
<1> QED BY <1>1, <1>3, <1>4, <1>5, LooserAgain, LooselyKeeps

LEMMA TranscribedKeeps ==
    ASSUME CapInv, NEW call \in capCalls, Transcribed(call, TRUE)
    PROVE  CapInv'
<1> DEFINE f == call.file
           k == ""
           a == [cap EXCEPT !.busy = k]
           b == Late(a, f)
<1>1. PICK words \in Heard(f) : cap' \in SetWords(Crowded(b, words), words, FALSE)
    BY DEF Transcribed
<1>2. capStore' = capStore /\ capCalls' \subseteq capCalls
    BY DEF Transcribed, CapReturns
<1>3. PICK told \in cap.visit.heard : words = [i \in DOMAIN told |-> [told[i] EXCEPT !.of = f]]
    BY <1>1 DEF Heard
<1>4. f \in CapFile /\ k \in CapBusy
    BY CapNow DEF CapCallsOK, CapFile, CapBusy
<1> HIDE DEF f, k
<1>5. words \in Seq(WordsFrom(f)) /\ Len(words) <= CapWords
    BY <1>3, <1>4, GivenFrom
<1> DEFINE c == Crowded(b, words)
<1>6. cap' \in SetWords(c, words, FALSE)
    BY <1>1
<1>7. Looser(cap, a)
    BY <1>4, CapNow, OthersAre
<1> HIDE DEF a
<1>8. Looser(a, b) /\ (~b.late => a.file = f) /\ b.file = a.file
    BY <1>7, LateIs DEF Looser
<1> HIDE DEF b
<1>9. Looser(b, c) /\ (~c.crowded => Fits(words))
    BY <1>8, CrowdedIs DEF Looser
<1> HIDE DEF c
<1>10. Looser(cap, c)
    BY <1>7, <1>8, <1>9, LooserAgain
<1>11. words \in Seq(Own(c, c.file))
    <2> DEFINE X == WordsFrom(f)
               Y == Own(c, c.file)
    <2>1. X \subseteq Y
        BY <1>8, <1>9 DEF Looser, Own, WordsFrom
    <2>2. words \in Seq(X)
        BY <1>5
    <2> HIDE DEF X, Y
    <2>3. words \in Seq(Y)
        BY <2>1, <2>2
    <2> QED BY <2>3 DEF Y
<1>12. CapCallsOK(capCalls')
    BY <1>2, CapNow DEF CapCallsOK
<1> QED BY <1>2, <1>5, <1>6, <1>9, <1>10, <1>11, <1>12, EditKeeps

LEMMA LoadedKeeps ==
    ASSUME CapInv, NEW call \in capCalls, Loaded(call, TRUE)
    PROVE  CapInv'
<1> DEFINE f == call.file
           words == capStore[f]
           b == ""
           e == <<>>
           z == 0
           r == words # <<>> /\ f # 0
           c == cap
           d == cap'
<1>1. /\ f \in CapFile /\ f # 0 /\ f \in 1 .. CapFiles /\ b \in CapBusy /\ e \in CapHistory /\ r \in BOOLEAN
      /\ z \in CapFile /\ DOMAIN e = {}
    BY CapNow, CapAssumption DEF CapCallsOK, CapFile, CapBusy, CapHistory
<1>2. words \in CapTranscript /\ KeptIn(c, words, f)
    BY <1>1, CapNow DEF StoreKept
<1>3. /\ d = WithWords([ResetProject(c) EXCEPT !.file = f, !.audio = z, !.busy = b], words)
      /\ capCalls' \subseteq capCalls \union {Capt("decode", f)} /\ capStore' = capStore
    BY DEF Loaded
<1> DEFINE q == [ResetProject(c) EXCEPT !.file = f, !.audio = z, !.busy = b]
<1>4. c \in CapState /\ WordsKept(c)
    BY CapNow
<1>5. c.visit \in CapVisit
    BY <1>4, CapStateIs
<1>6. q.file = f
    BY <1>4, CapStateIs DEF ResetProject, CapRec
<1>7. d = CapRec(c.visit, f, z, words, e, e, c.grab, b, r, c.crowded, c.late)
    <2> DEFINE c1 == [c EXCEPT !.words = e]
               c2 == [c1 EXCEPT !.past = e]
               c3 == [c2 EXCEPT !.future = e]
               c4 == [c3 EXCEPT !.file = f]
               c5 == [c4 EXCEPT !.audio = z]
               c6 == [c5 EXCEPT !.busy = b]
               c7 == [c6 EXCEPT !.words = words]
               c8 == [c7 EXCEPT !.armed = r]
    <2>1. ResetProject(c) = c3
        BY Zenon DEF ResetProject
    <2>2. q = c6
        BY <2>1, Zenon
    <2>3. d = [q EXCEPT !.words = words, !.armed = r]
        BY <1>3, <1>6 DEF WithWords
    <2>4. d = c8
        BY <2>2, <2>3, Zenon
    <2>5. c = CapRec(c.visit, c.file, c.audio, c.words, c.past, c.future, c.grab, c.busy, c.armed, c.crowded, c.late)
        BY <1>4, CapStateIs
    <2> HIDE DEF q, d, r, words, e, z, b, f
    <2>6. c1 = CapRec(c.visit, c.file, c.audio, e, c.past, c.future, c.grab, c.busy, c.armed, c.crowded, c.late)
        BY <2>5 DEF CapRec
    <2> HIDE DEF c1
    <2>7. c2 = CapRec(c.visit, c.file, c.audio, e, e, c.future, c.grab, c.busy, c.armed, c.crowded, c.late)
        BY <2>6 DEF CapRec
    <2> HIDE DEF c2
    <2>8. c3 = CapRec(c.visit, c.file, c.audio, e, e, e, c.grab, c.busy, c.armed, c.crowded, c.late)
        BY <2>7 DEF CapRec
    <2> HIDE DEF c3
    <2>9. c4 = CapRec(c.visit, f, c.audio, e, e, e, c.grab, c.busy, c.armed, c.crowded, c.late)
        BY <2>8 DEF CapRec
    <2> HIDE DEF c4
    <2>10. c5 = CapRec(c.visit, f, z, e, e, e, c.grab, c.busy, c.armed, c.crowded, c.late)
        BY <2>9 DEF CapRec
    <2> HIDE DEF c5
    <2>11. c6 = CapRec(c.visit, f, z, e, e, e, c.grab, b, c.armed, c.crowded, c.late)
        BY <2>10 DEF CapRec
    <2> HIDE DEF c6
    <2>12. c7 = CapRec(c.visit, f, z, words, e, e, c.grab, b, c.armed, c.crowded, c.late)
        BY <2>11 DEF CapRec
    <2> HIDE DEF c7
    <2>13. c8 = CapRec(c.visit, f, z, words, e, e, c.grab, b, r, c.crowded, c.late)
        BY <2>12 DEF CapRec
    <2> QED BY <2>4, <2>13
<1> HIDE DEF q, d, r, words, e, z, b, f, c
<1>8. /\ d \in CapState
      /\ d.file = f /\ d.words = words /\ d.past = e /\ d.future = e /\ d.grab = c.grab
      /\ d.crowded = c.crowded /\ d.late = c.late
    BY <1>1, <1>2, <1>4, <1>5, <1>7, RecordIs
<1>9. \A x, y : KeptIn(c, x, y) => KeptIn(d, x, y)
    BY <1>4, <1>8, KeptLater
<1>10. WordsKept(d)
    BY <1>1, <1>2, <1>4, <1>8, <1>9 DEF WordsKept
<1>11. StoreKept(d, capStore)
    BY <1>4, <1>8, CapNow, StoreLater DEF c
<1>12. CapCallsOK(capCalls')
    BY <1>1, <1>3, CapNow DEF CapCallsOK, Capt
<1> QED BY <1>3, <1>8, <1>10, <1>11, <1>12 DEF CapInv, d

LEMMA SavedKeeps ==
    ASSUME CapInv, WordsSaved
    PROVE  CapInv'
<1> DEFINE f == cap.file
           r == FALSE
<1>1. /\ cap' = [cap EXCEPT !.armed = r] /\ capCalls' = capCalls
      /\ capStore' = [capStore EXCEPT ![f] = cap.words] /\ f # 0 /\ r \in BOOLEAN /\ ~r
    BY CapNow DEF WordsSaved, WordsKept
<1>2. f \in 1 .. CapFiles /\ cap.words \in CapTranscript /\ KeptIn(cap, cap.words, f)
    BY <1>1, CapNow, CapStateIs, CapAssumption DEF CapFile, WordsKept
<1> HIDE DEF r
<1>3. Looser(cap, cap')
    BY <1>1, CapNow, OthersAre
<1>4. cap' \in CapState /\ WordsKept(cap')
    BY <1>3, CapNow, LooserKeeps
<1>5. StoreKept(cap, capStore')
    BY <1>1, <1>2, CapNow DEF StoreKept
<1>6. StoreKept(cap', capStore')
    BY <1>3, <1>4, <1>5, CapNow, StoreLater DEF Looser
<1> QED BY <1>1, <1>4, <1>6, CapNow DEF CapInv

LEMMA CapStart ==
    ASSUME CapInit
    PROVE  CapInv
<1> DEFINE e == <<>>
           z == 0
           no == FALSE
           b == ""
<1>1. PICK visit \in CapVisits : cap = CapRec(visit, z, z, e, e, e, e, b, no, no, no)
    BY DEF CapInit, CapRec
<1>2. visit \in CapVisit /\ z \in CapFile /\ no \in BOOLEAN /\ ~no /\ b \in CapBusy
    BY CapAssumption DEF CapVisit, CapFile, CapBusy
<1>3. /\ e \in CapTranscript /\ e \in CapHistory /\ e \in CapGrabs /\ DOMAIN e = {}
      /\ \A c, f : KeptIn(c, e, f)
    BY EmptyIs, CapAssumption DEF CapTranscript, CapHistory, CapGrabs
<1>4. capStore \in [1 .. CapFiles -> CapTranscript] /\ \A f \in 1 .. CapFiles : capStore[f] = e
    BY <1>3 DEF CapInit
<1> HIDE DEF e, z, no, b
<1>5. cap \in CapState
    BY <1>1, <1>2, <1>3 DEF CapRec, CapState
<1>6. /\ cap.file = z /\ cap.words = e /\ cap.past = e /\ cap.future = e /\ cap.grab = e /\ cap.armed = no
    BY <1>1 DEF CapRec
<1>7. WordsKept(cap)
    BY <1>2, <1>3, <1>6 DEF WordsKept
<1>8. StoreKept(cap, capStore)
    BY <1>3, <1>4 DEF StoreKept
<1> QED BY <1>5, <1>7, <1>8 DEF CapInv, CapInit, CapCallsOK

LEMMA CapStep ==
    ASSUME CapInv, [CapNext]_capVars
    PROVE  CapInv'
<1>1. CASE \E i \in DOMAIN cap.words : GrabWord(i) \/ JoinOrDelete(i) \/ AddWord(i) \/ TypeText(i)
    BY <1>1, GrabKeeps, JoinKeeps, AddKeeps, TypeKeeps
<1>2. CASE \E t \in CapTargets : DragWord(t)
    BY <1>2, DragKeeps
<1>3. CASE ApplyText \/ TimeToVoice \/ Retime \/ ImportFile
    BY <1>3, ApplyKeeps, VoiceKeeps, RetimeKeeps, ImportKeeps
<1>4. CASE CapUndo \/ CapRedo
    BY <1>4, UndoKeeps
<1>5. CASE Transcribe \/ ExportVideo
    BY <1>5, SendKeeps
<1>6. CASE \E f \in 1 .. CapFiles : Choose(f)
    BY <1>6, ChooseKeeps
<1>7. CASE \E call \in capCalls : Decoded(call) \/ Exported(call)
    BY <1>7, DecodedKeeps, EndKeeps
<1>8. CASE \E call \in capCalls, ok \in BOOLEAN : Loaded(call, ok) \/ Transcribed(call, ok)
    <2>1. PICK call \in capCalls, ok \in BOOLEAN : Loaded(call, ok) \/ Transcribed(call, ok)
        BY <1>8
    <2>2. CASE ok = TRUE
        <3>1. Loaded(call, TRUE) \/ Transcribed(call, TRUE)
            BY <2>1, <2>2
        <3> QED BY <3>1, LoadedKeeps, TranscribedKeeps
    <2>3. CASE ok = FALSE
        <3>1. Loaded(call, FALSE) \/ Transcribed(call, FALSE)
            BY <2>1, <2>3
        <3> QED BY <3>1, EndKeeps
    <2> QED BY <2>1, <2>2, <2>3
<1>9. CASE WordsSaved
    BY <1>9, SavedKeeps
<1>10. CASE UNCHANGED capVars
    BY <1>10 DEF CapInv, capVars, CapCallsOK
<1> QED BY <1>1, <1>2, <1>3, <1>4, <1>5, <1>6, <1>7, <1>8, <1>9, <1>10 DEF CapNext, CapUser, CapAnswers

LEMMA CapTyped ==
    CapInv => CapTypeOK
<1> SUFFICES ASSUME CapInv PROVE CapTypeOK
    OBVIOUS
<1>1. {cap.file, cap.audio} \subseteq 0 .. CapFiles /\ cap.busy \in {"", "load", "transcribe", "export"}
    BY CapNow, CapStateIs DEF CapFile, CapBusy
<1>2. cap.words \in Seq(CapWord) /\ Len(cap.words) <= CapWords
    BY CapNow, CapStateIs DEF CapTranscript
<1>3. \A i \in DOMAIN cap.words : cap.words[i].start \in Int /\ cap.words[i].end \in Int
    <2> DEFINE w == cap.words
    <2>1. w \in Seq(CapWord)
        BY <1>2
    <2> HIDE DEF w
    <2>2. \A i \in DOMAIN w : w[i].start \in Int /\ w[i].end \in Int
        BY <2>1, FreeSets, WordTimes
    <2> QED BY <2>2 DEF w
<1>4. \A f \in 1 .. CapFiles : Len(capStore[f]) <= CapWords
    BY CapNow DEF StoreKept, CapTranscript
<1> QED BY <1>1, <1>2, <1>3, <1>4, CapNow DEF CapTypeOK, CapCallsOK

(* The caption page, for every set of visits, drag targets and transcripts:  *)
(* the words, their history and those that are kept for each video are of    *)
(* their types, and no transcript grows past its bound.                      *)
THEOREM CaptionTypes == CapSpec => []CapTypeOK
<1> QED BY CapTyped, CapStart, CapStep, PTL DEF CapSpec

(* The search for the last page that has begun by t finds it, where the      *)
(* pages that have begun are the first p.                                    *)
LEMMA PageFound ==
    ASSUME NEW pages, Len(pages) \in Nat, NEW t \in Int, NEW p \in 0 .. Len(pages),
           \A k \in 1 .. Len(pages) : (pages[k].show <= t) <=> k <= p
    PROVE  PageAt(pages, t) = IF p # 0 /\ t < pages[p].hide THEN p ELSE 0
<1> DEFINE n == Len(pages)
           D == (1 .. n + 1) \X (0 .. n) \X (0 .. n)
           Mid(lo, hi) == (lo + hi) \div 2
           Next1(f, lo, hi, best) ==
               IF lo > hi THEN best
               ELSE IF pages[Mid(lo, hi)].show <= t THEN f[<<Mid(lo, hi) + 1, hi, Mid(lo, hi)>>]
               ELSE f[<<lo, Mid(lo, hi) - 1, best>>]
           Is(f) == f = [s \in D |-> Next1(f, s[1], s[2], s[3])]
           Found(lo, hi, best) == IF lo > hi \/ p < lo THEN best ELSE IF p < hi THEN p ELSE hi
<1>1. \A lo \in 1 .. n + 1, hi \in 0 .. n, best \in 0 .. n :
        LET s == <<lo, hi, best>> IN s \in D /\ s[1] = lo /\ s[2] = hi /\ s[3] = best
    OBVIOUS
<1>2. \A s \in D : s[1] \in 1 .. n + 1 /\ s[2] \in 0 .. n /\ s[3] \in 0 .. n /\ s = <<s[1], s[2], s[3]>>
    OBVIOUS
<1>3. \A lo \in 1 .. n + 1, hi \in 0 .. n : lo <= hi =>
        /\ Mid(lo, hi) \in lo .. hi /\ Mid(lo, hi) \in 1 .. n
        /\ Mid(lo, hi) + 1 \in 1 .. n + 1 /\ Mid(lo, hi) - 1 \in 0 .. n
    OBVIOUS
<1>0. n \in Nat /\ 1 \in 1 .. n + 1 /\ n \in 0 .. n /\ 0 \in 0 .. n
    OBVIOUS
<1> HIDE DEF D, Mid
<1>4. ASSUME NEW lo \in 1 .. n + 1, NEW hi \in 0 .. n, NEW best \in 0 .. n, lo <= hi
      PROVE  Found(lo, hi, best) = IF pages[Mid(lo, hi)].show <= t THEN Found(Mid(lo, hi) + 1, hi, Mid(lo, hi))
                                   ELSE Found(lo, Mid(lo, hi) - 1, best)
    <2> DEFINE mid == Mid(lo, hi)
    <2>1. mid \in lo .. hi /\ mid \in 1 .. n
        BY <1>3, <1>4
    <2>2. (pages[mid].show <= t) <=> mid <= p
        BY <2>1
    <2> HIDE DEF mid, n
    <2>3. CASE mid <= p
        <3>1. Found(lo, hi, best) = Found(mid + 1, hi, mid)
            BY <2>1, <2>3
        <3> QED BY <2>2, <2>3, <3>1 DEF mid
    <2>4. CASE ~(mid <= p)
        <3>1. Found(lo, hi, best) = Found(lo, mid - 1, best)
            BY <2>1, <2>4
        <3> QED BY <2>2, <2>4, <3>1 DEF mid
    <2> QED BY <2>3, <2>4
<1>5. \E f : Is(f)
    <2> DEFINE g == [s \in D |-> Found(s[1], s[2], s[3])]
    <2>1. \A lo \in 1 .. n + 1, hi \in 0 .. n, best \in 0 .. n : g[<<lo, hi, best>>] = Found(lo, hi, best)
        BY <1>1
    <2> HIDE DEF n
    <2>2. ASSUME NEW s \in D
          PROVE  Found(s[1], s[2], s[3]) = Next1(g, s[1], s[2], s[3])
        <3> DEFINE lo == s[1]
                   hi == s[2]
                   best == s[3]
        <3>1. lo \in 1 .. n + 1 /\ hi \in 0 .. n /\ best \in 0 .. n
            BY <1>2
        <3> HIDE DEF lo, hi, best, g
        <3>2. CASE lo > hi
            <4>1. Found(lo, hi, best) = best
                BY <3>2
            <4> QED BY <3>2, <4>1 DEF lo, hi, best
        <3>3. CASE lo <= hi
            <4> DEFINE mid == Mid(lo, hi)
            <4>1. ~(lo > hi) /\ mid \in 1 .. n /\ mid + 1 \in 1 .. n + 1 /\ mid - 1 \in 0 .. n /\ mid \in 0 .. n
                BY <1>3, <3>1, <3>3
            <4>2. /\ g[<<mid + 1, hi, mid>>] = Found(mid + 1, hi, mid)
                  /\ g[<<lo, mid - 1, best>>] = Found(lo, mid - 1, best)
                BY <2>1, <3>1, <4>1
            <4>3. Found(lo, hi, best) = IF pages[mid].show <= t THEN Found(mid + 1, hi, mid)
                                        ELSE Found(lo, mid - 1, best)
                BY <1>4, <3>1, <3>3
            <4> HIDE DEF Found
            <4>4. Found(lo, hi, best) = Next1(g, lo, hi, best)
                BY <4>1, <4>2, <4>3
            <4> QED BY <4>4 DEF lo, hi, best
        <3>4. lo > hi \/ lo <= hi
            BY <3>1
        <3> QED BY <3>2, <3>3, <3>4
    <2> HIDE DEF Found, Next1
    <2>3. g = [s \in D |-> Next1(g, s[1], s[2], s[3])]
        BY <2>2
    <2> HIDE DEF g
    <2> QED BY <2>3
<1> DEFINE f == CHOOSE f : Is(f)
<1>6. Is(f)
    BY <1>5
<1>7. PageAt(pages, t) = IF f[<<1, n, 0>>] # 0 /\ t < pages[f[<<1, n, 0>>]].hide THEN f[<<1, n, 0>>] ELSE 0
    BY DEF PageAt, D, Mid
<1> HIDE DEF f
<1>8. ASSUME NEW lo \in 1 .. n + 1, NEW hi \in 0 .. n, NEW best \in 0 .. n
      PROVE  f[<<lo, hi, best>>] = Next1(f, lo, hi, best)
    <2> DEFINE s == <<lo, hi, best>>
    <2>1. s \in D /\ s[1] = lo /\ s[2] = hi /\ s[3] = best
        BY <1>1
    <2> HIDE DEF s, Next1
    <2>2. f[s] = Next1(f, s[1], s[2], s[3])
        BY <1>6, <2>1
    <2> QED BY <2>1, <2>2 DEF s
<1> HIDE DEF n
<1> DEFINE Right(m) == \A lo \in 1 .. n + 1, hi \in 0 .. n, best \in 0 .. n :
                         hi - lo < m => f[<<lo, hi, best>>] = Found(lo, hi, best)
           T == {m \in 0 .. n : Right(m)}
<1>9. 0 \in T
    <2>1. ASSUME NEW lo \in 1 .. n + 1, NEW hi \in 0 .. n, NEW best \in 0 .. n, hi - lo < 0
          PROVE  f[<<lo, hi, best>>] = Found(lo, hi, best)
        <3>1. lo \in Int /\ hi \in Int
            BY <1>0
        <3>2. lo > hi
            BY <2>1, <3>1
        <3>3. f[<<lo, hi, best>>] = best
            BY <1>8, <3>2
        <3> QED BY <3>2, <3>3
    <2>2. 0 \in 0 .. n
        BY <1>0
    <2> QED BY <2>1, <2>2
<1>10. ASSUME NEW m \in 0 .. n - 1, m \in T
       PROVE  m + 1 \in T
    <2>1. Right(m)
        BY <1>10
    <2>2. ASSUME NEW lo \in 1 .. n + 1, NEW hi \in 0 .. n, NEW best \in 0 .. n, hi - lo < m + 1
          PROVE  f[<<lo, hi, best>>] = Found(lo, hi, best)
        <3>1. CASE lo > hi
            BY <1>8, <3>1
        <3>2. CASE lo <= hi
            <4> DEFINE mid == Mid(lo, hi)
            <4>1. ~(lo > hi) /\ mid \in lo .. hi /\ mid \in 0 .. n /\ mid + 1 \in 1 .. n + 1 /\ mid - 1 \in 0 .. n
                <5>1. lo \in Int /\ hi \in Int
                    BY <1>0
                <5>2. /\ mid \in lo .. hi /\ mid \in 1 .. n /\ mid + 1 \in 1 .. n + 1 /\ mid - 1 \in 0 .. n
                    BY <1>3, <3>2
                <5> QED BY <1>0, <3>2, <5>1, <5>2
            <4>2. hi - (mid + 1) < m /\ (mid - 1) - lo < m
                BY <2>2, <4>1
            <4>3. /\ f[<<mid + 1, hi, mid>>] = Found(mid + 1, hi, mid)
                  /\ f[<<lo, mid - 1, best>>] = Found(lo, mid - 1, best)
                BY <2>1, <4>1, <4>2
            <4>4. Found(lo, hi, best) = IF pages[mid].show <= t THEN Found(mid + 1, hi, mid)
                                        ELSE Found(lo, mid - 1, best)
                BY <1>4, <3>2
            <4>5. f[<<lo, hi, best>>] = IF pages[mid].show <= t THEN f[<<mid + 1, hi, mid>>]
                                        ELSE f[<<lo, mid - 1, best>>]
                BY <1>8, <4>1
            <4> HIDE DEF Found
            <4> QED BY <4>3, <4>4, <4>5
        <3> QED BY <3>1, <3>2
    <2>3. m + 1 \in 0 .. n
        BY <1>0
    <2> QED BY <2>2, <2>3
<1> HIDE DEF T
<1>11. n \in T
    BY <1>0, <1>9, <1>10, Counted
<1>12. f[<<1, n, 0>>] = Found(1, n, 0)
    <2>1. Right(n) /\ n - 1 < n
        BY <1>0, <1>11 DEF T
    <2> HIDE DEF Found
    <2> QED BY <1>0, <2>1
<1>13. Found(1, n, 0) = p
    BY <1>0 DEF n
<1> QED BY <1>7, <1>12, <1>13

(* What is left of a list is in the order the list is in.                    *)
LEMMA WithoutInOrder ==
    ASSUME NEW S, NEW s \in Seq(S), NEW X, NEW R,
           \A j, k \in DOMAIN s : j < k => <<s[j], s[k]>> \in R
    PROVE  LET r == Without(s, X) IN \A j, k \in DOMAIN r : j < k => <<r[j], r[k]>> \in R
<1> DEFINE n == Len(s)
<1>1. n \in Nat /\ DOMAIN s = 1 .. n /\ \A k \in 1 .. n : s[k] \in S
    OBVIOUS
<1>2. PICK f : /\ f[0] = <<>>
               /\ \A k \in 1 .. n : f[k] = IF s[k] \in X THEN f[k - 1] ELSE Append(f[k - 1], s[k])
               /\ Without(s, X) = f[n]
    BY <1>1, WithoutSteps
<1> DEFINE In(t, m) == \A j \in DOMAIN t : \E l \in 1 .. m : t[j] = s[l]
           Sorted(t) == \A j, k \in DOMAIN t : j < k => <<t[j], t[k]>> \in R
           Right(m) == f[m] \in Seq(S) /\ In(f[m], m) /\ Sorted(f[m])
           Done == {m \in 0 .. n : Right(m)}
<1> HIDE DEF n
<1>3. 0 \in Done
    <2>1. f[0] \in Seq(S) /\ DOMAIN f[0] = {}
        BY <1>2
    <2>2. 0 \in 0 .. n
        BY <1>1
    <2> QED BY <2>1, <2>2
<1>4. ASSUME NEW m \in 0 .. n - 1, m \in Done
      PROVE  m + 1 \in Done
    <2> DEFINE t == f[m]
               a == s[m + 1]
               u == f[m + 1]
    <2>1. /\ t \in Seq(S) /\ In(t, m) /\ Sorted(t) /\ a \in S /\ m + 1 \in 1 .. n /\ m + 1 \in 0 .. n
          /\ u = IF a \in X THEN t ELSE Append(t, a)
        <3>1. m + 1 \in 1 .. n /\ m + 1 \in 0 .. n /\ (m + 1) - 1 = m
            BY <1>1
        <3> QED BY <1>1, <1>2, <1>4, <3>1
    <2> HIDE DEF t, u, Sorted
    <2>2. CASE a \in X
        <3>1. In(t, m + 1)
            BY <1>1, <2>1
        <3> QED BY <2>1, <2>2, <3>1 DEF t, u
    <2>3. CASE a \notin X
        <3>1. /\ u \in Seq(S) /\ Len(t) \in Nat /\ DOMAIN t = 1 .. Len(t) /\ DOMAIN u = 1 .. Len(t) + 1
              /\ (\A k \in 1 .. Len(t) : u[k] = t[k])
              /\ u[Len(t) + 1] = a
            <4>1. u = Append(t, a) /\ t \in Seq(S) /\ a \in S
                BY <2>1, <2>3
            <4> HIDE DEF a
            <4> QED BY <4>1
        <3>2. In(u, m + 1)
            <4> SUFFICES ASSUME NEW j \in DOMAIN u PROVE \E l \in 1 .. m + 1 : u[j] = s[l]
                OBVIOUS
            <4>1. CASE j = Len(t) + 1
                BY <1>1, <3>1, <4>1
            <4>2. CASE j # Len(t) + 1
                <5>1. j \in DOMAIN t /\ u[j] = t[j]
                    BY <3>1, <4>2
                <5>2. PICK l \in 1 .. m : t[j] = s[l]
                    BY <2>1, <5>1
                <5>3. l \in 1 .. m + 1
                    BY <1>1
                <5> QED BY <5>1, <5>2, <5>3
            <4> QED BY <4>1, <4>2
        <3>3. Sorted(u)
            <4> SUFFICES ASSUME NEW j \in DOMAIN u, NEW k \in DOMAIN u, j < k PROVE <<u[j], u[k]>> \in R
                BY DEF Sorted
            <4>1. j \in DOMAIN t /\ u[j] = t[j]
                BY <3>1
            <4>2. CASE k = Len(t) + 1
                <5>1. PICK l \in 1 .. m : t[j] = s[l]
                    BY <2>1, <4>1
                <5>2. l \in 1 .. n /\ m + 1 \in 1 .. n /\ l < m + 1
                    BY <1>1, <2>1
                <5>3. <<s[l], s[m + 1]>> \in R
                    BY <1>1, <5>2
                <5> QED BY <3>1, <4>1, <4>2, <5>1, <5>3
            <4>3. CASE k # Len(t) + 1
                <5>1. k \in DOMAIN t /\ u[k] = t[k]
                    BY <3>1, <4>3
                <5> QED BY <2>1, <4>1, <5>1 DEF Sorted
            <4> QED BY <4>2, <4>3
        <3> QED BY <2>1, <3>1, <3>2, <3>3 DEF u
    <2> QED BY <2>2, <2>3
<1> HIDE DEF Done
<1>5. n \in Done
    BY <1>1, <1>3, <1>4, Counted
<1> QED BY <1>2, <1>5 DEF Done

(* A list that does not fall from one place to the next does not fall.       *)
LEMMA NeverFalls ==
    ASSUME NEW n \in Nat, NEW f, \A k \in 1 .. n : f[k] \in Int, \A k \in 2 .. n : f[k - 1] <= f[k],
           NEW j \in 1 .. n, NEW k \in 1 .. n, j <= k
    PROVE  f[j] <= f[k]
<1> DEFINE T == {m \in 0 .. n : j + m <= n => f[j] <= f[j + m]}
<1>1. 0 \in T
    <2>1. j + 0 = j /\ f[j] <= f[j]
        OBVIOUS
    <2> QED BY <2>1
<1>2. ASSUME NEW m \in 0 .. n - 1, m \in T PROVE m + 1 \in T
    <2>1. CASE j + (m + 1) <= n
        <3> DEFINE x == j + m
        <3>1. x \in 1 .. n /\ x + 1 \in 2 .. n /\ x + 1 \in 1 .. n /\ (x + 1) - 1 = x /\ j + (m + 1) = x + 1 /\ x <= n
            BY <2>1
        <3>2. f[j] <= f[x]
            BY <1>2, <3>1
        <3> HIDE DEF x
        <3>3. f[(x + 1) - 1] <= f[x + 1]
            BY <3>1
        <3>4. f[j] \in Int /\ f[x] \in Int /\ f[x + 1] \in Int /\ f[x] <= f[x + 1]
            BY <3>1, <3>3
        <3>5. f[j] <= f[x + 1]
            BY <3>2, <3>4
        <3>6. m + 1 \in 0 .. n
            OBVIOUS
        <3> QED BY <3>1, <3>5, <3>6
    <2>2. m + 1 \in 0 .. n
        OBVIOUS
    <2> QED BY <2>1, <2>2
<1> HIDE DEF T
<1>3. \A m \in 0 .. n : m \in T
    BY <1>1, <1>2, Counted
<1>4. k - j \in 0 .. n /\ j + (k - j) = k /\ j + (k - j) <= n
    OBVIOUS
<1>5. k - j \in T
    BY <1>3, <1>4
<1>6. f[j] <= f[j + (k - j)]
    BY <1>4, <1>5 DEF T
<1> QED BY <1>4, <1>6

LEMMA GreatestIs ==
    ASSUME NEW n \in Nat, NEW T, T \subseteq 1 .. n, T # {}
    PROVE  \E m \in T : \A k \in T : k <= m
<1> DEFINE U == {k \in Nat : n - k \in T}
<1>1. U \subseteq Nat /\ U # {}
    <2>1. PICK k \in T : TRUE
        OBVIOUS
    <2>2. n - k \in Nat /\ n - (n - k) = k
        BY <2>1
    <2> QED BY <2>1, <2>2
<1>2. PICK u \in U : \A k \in U : u <= k
    BY <1>1, LeastNat
<1>3. ASSUME NEW k \in T PROVE k <= n - u
    <2>1. n - k \in Nat /\ n - (n - k) = k /\ k \in Nat
        OBVIOUS
    <2>2. n - k \in U
        BY <2>1
    <2>3. u <= n - k /\ u \in Nat
        BY <1>2, <2>2
    <2> HIDE DEF U
    <2> QED BY <2>1, <2>3
<1> QED BY <1>2, <1>3

(* The visible words of a transcript in order are in order.                  *)
LEMMA VisibleAre ==
    ASSUME NEW words \in Seq(CapWord), InOrder(words)
    PROVE  VisibleWords(words) \in Seq(CapWord) /\ InOrder(VisibleWords(words))
<1> DEFINE R == {p \in CapWord \X CapWord : p[1].start <= p[2].start /\ p[1].end <= p[2].end}
           n == Len(words)
           X == {w \in ToSet(words) : w.hidden}
           r == VisibleWords(words)
           starts == [k \in 1 .. n |-> words[k].start]
           ends == [k \in 1 .. n |-> words[k].end]
<1>1. n \in Nat /\ DOMAIN words = 1 .. n /\ \A k \in 1 .. n : words[k] \in CapWord
    OBVIOUS
<1>2. /\ \A k \in 1 .. n : words[k].start < words[k].end
      /\ \A k \in 2 .. n : words[k - 1].start <= words[k].start /\ words[k - 1].end <= words[k].end
    BY <1>1 DEF InOrder
<1>3. \A w \in CapWord : w.start \in Int /\ w.end \in Int
    BY FreeSets, WordTimes
<1> HIDE DEF n
<1>4. \A j, k \in 1 .. n : j < k => <<words[j], words[k]>> \in R
    <2> SUFFICES ASSUME NEW j \in 1 .. n, NEW k \in 1 .. n, j < k
                 PROVE  words[j].start <= words[k].start /\ words[j].end <= words[k].end
        BY <1>1
    <2>1. (\A l \in 1 .. n : starts[l] \in Int) /\ (\A l \in 1 .. n : ends[l] \in Int)
        BY <1>1, <1>3
    <2>2. \A l \in 2 .. n : l \in 1 .. n /\ l - 1 \in 1 .. n
        BY <1>1
    <2>3. (\A l \in 2 .. n : starts[l - 1] <= starts[l]) /\ (\A l \in 2 .. n : ends[l - 1] <= ends[l])
        BY <1>2, <2>2
    <2>4. starts[j] = words[j].start /\ starts[k] = words[k].start /\ ends[j] = words[j].end /\ ends[k] = words[k].end
        OBVIOUS
    <2>5. j <= k
        BY <1>1
    <2> HIDE DEF starts, ends
    <2>6. starts[j] <= starts[k]
        BY <1>1, <2>1, <2>3, <2>5, NeverFalls
    <2>7. ends[j] <= ends[k]
        BY <1>1, <2>1, <2>3, <2>5, NeverFalls
    <2> QED BY <2>4, <2>6, <2>7
<1>5. r = Without(words, X)
    BY DEF VisibleWords
<1>6. \A w \in ToSet(words) : w.start < w.end
    BY <1>1, <1>2 DEF ToSet
<1> HIDE DEF R, X, r
<1>7. r \in Seq(CapWord) /\ ToSet(r) \subseteq ToSet(words)
    BY <1>5, WithoutIs
<1>8. \A j, k \in DOMAIN r : j < k => <<r[j], r[k]>> \in R
    BY <1>1, <1>4, <1>5, WithoutInOrder
<1>9. ASSUME NEW k \in DOMAIN r PROVE r[k].start < r[k].end
    BY <1>6, <1>7 DEF ToSet
<1>10. ASSUME NEW k \in 2 .. Len(r) PROVE r[k - 1].start <= r[k].start /\ r[k - 1].end <= r[k].end
    <2>1. k - 1 \in DOMAIN r /\ k \in DOMAIN r /\ k - 1 < k
        BY <1>7
    <2>2. <<r[k - 1], r[k]>> \in R
        BY <1>8, <2>1
    <2> QED BY <2>2 DEF R
<1> QED BY <1>7, <1>9, <1>10 DEF InOrder, r

(* Where the pages begin: the first at the first word, each after the one    *)
(* before it; and what a page is.                                            *)
Begins(begins, n) ==
    /\ Len(begins) \in Nat /\ Len(begins) >= 1 /\ begins[1] = 1
    /\ \A k \in 1 .. Len(begins) : begins[k] \in 1 .. n
    /\ \A j, k \in 1 .. Len(begins) : j < k => begins[j] < begins[k]
Ends(begins, n, k) == IF k = Len(begins) THEN n ELSE begins[k + 1] - 1
IsPage(page, words, begins, k) ==
    LET end == words[Ends(begins, Len(words), k)].end IN
    /\ page.first = begins[k] /\ page.last = Ends(begins, Len(words), k) /\ page.show = words[begins[k]].start
    /\ page.hide = IF k = Len(begins) THEN end + Linger
                   ELSE IF words[begins[k + 1]].start - end < LinkGap THEN words[begins[k + 1]].start
                   ELSE CapMin(end + Linger, words[begins[k + 1]].start)

LEMMA PagesAre ==
    ASSUME NEW words \in Seq(CapWord), words # <<>>, NEW cuts
    PROVE  LET pages == BuildPages(words, cuts)
           IN \E begins : /\ Begins(begins, Len(words)) /\ Len(pages) = Len(begins)
                          /\ \A k \in 1 .. Len(begins) : IsPage(pages[k], words, begins, k)
<1> DEFINE n == Len(words)
           s == [i \in 1 .. n |-> i]
           X == 2 .. n \ cuts
           b == Without(s, X)
           S == 1 .. n
           R == {p \in Nat \X Nat : p[1] < p[2]}
<1>1. n \in Nat /\ n >= 1 /\ DOMAIN words = 1 .. n
    OBVIOUS
<1> HIDE DEF n
<1>2. s \in Seq(S) /\ DOMAIN s = 1 .. n /\ \A i \in 1 .. n : s[i] = i
    BY <1>1
<1>3. \A j, k \in DOMAIN s : j < k => <<s[j], s[k]>> \in R
    BY <1>1, <1>2
<1>4. 1 \in ToSet(s) /\ 1 \notin X
    BY <1>1, <1>2 DEF ToSet
<1> HIDE DEF s, X, b, R, S
<1>5. b \in Seq(S) /\ 1 \in ToSet(b)
    BY <1>2, <1>4, WithoutIs DEF b
<1>6. \A j, k \in DOMAIN b : j < k => <<b[j], b[k]>> \in R
    BY <1>2, <1>3, WithoutInOrder DEF b
<1>7. PICK l \in DOMAIN b : b[l] = 1
    BY <1>5 DEF ToSet
<1>8. /\ Len(b) \in Nat /\ Len(b) >= 1 /\ DOMAIN b = 1 .. Len(b)
      /\ \A k \in 1 .. Len(b) : b[k] \in 1 .. n
    <2>1. Len(b) \in Nat /\ DOMAIN b = 1 .. Len(b) /\ \A k \in 1 .. Len(b) : b[k] \in S
        BY <1>5
    <2>2. Len(b) >= 1
        BY <1>7, <2>1
    <2> QED BY <2>1, <2>2 DEF S
<1>9. \A j, k \in 1 .. Len(b) : j < k => b[j] < b[k]
    BY <1>6, <1>8 DEF R
<1>10. b[1] = 1
    <2>1. 1 \in 1 .. Len(b) /\ l \in 1 .. Len(b)
        BY <1>7, <1>8
    <2>2. 1 < l => b[1] < 1
        BY <1>7, <1>9, <2>1
    <2>3. b[1] \in 1 .. n
        BY <1>8, <2>1
    <2>4. ~(b[1] < 1)
        BY <1>1, <2>3
    <2>5. l = 1
        BY <2>1, <2>2, <2>4, <1>8
    <2> QED BY <1>7, <2>5
<1>11. Begins(b, n)
    BY <1>8, <1>9, <1>10 DEF Begins
<1> DEFINE end(k) == words[Ends(b, n, k)].end
           show(k) == words[b[k]].start
           page(k) == [first |-> b[k], last |-> Ends(b, n, k), show |-> show(k),
                       hide |-> IF k = Len(b) THEN end(k) + Linger
                                ELSE IF show(k + 1) - end(k) < LinkGap THEN show(k + 1)
                                ELSE CapMin(end(k) + Linger, show(k + 1))]
           pages == BuildPages(words, cuts)
<1>12. pages = [k \in 1 .. Len(b) |-> page(k)]
    <2>1. pages = [k \in DOMAIN b |-> page(k)]
        BY <1>1 DEF BuildPages, Ends, b, s, X, n
    <2> QED BY <1>8, <2>1
<1>13. Len(pages) = Len(b)
    <2> DEFINE p == Len(b)
    <2>1. p \in Nat /\ DOMAIN pages = 1 .. p
        BY <1>8, <1>12
    <2> HIDE DEF p, pages
    <2>2. Len(pages) = p
        BY <2>1
    <2> QED BY <2>2 DEF p
<1>14. ASSUME NEW k \in 1 .. Len(b) PROVE IsPage(pages[k], words, b, k)
    <2>1. pages[k] = page(k)
        BY <1>12
    <2> HIDE DEF pages
    <2> QED BY <2>1 DEF IsPage, n
<1> QED BY <1>11, <1>13, <1>14 DEF n

(* While a word is heard, the page of the last one heard is up.              *)
LEMMA HeardShown ==
    ASSUME NEW words \in Seq(CapWord), InOrder(words), NEW cuts, NEW i \in DOMAIN words,
           NEW t \in words[i].start .. words[i].end - 1
    PROVE  UpAt(words, BuildPages(words, cuts), t)
<1> DEFINE n == Len(words)
           pages == BuildPages(words, cuts)
           H == Sounding(words, t)
           starts == [k \in 1 .. n |-> words[k].start]
           ends == [k \in 1 .. n |-> words[k].end]
<1>1. n \in Nat /\ DOMAIN words = 1 .. n /\ words # <<>> /\ i \in 1 .. n
    OBVIOUS
<1>2. \A k \in 1 .. n : words[k].start \in Int /\ words[k].end \in Int
    BY <1>1, FreeSets, WordTimes
<1>3. t \in Int /\ words[i].start <= t /\ t < words[i].end
    BY <1>1, <1>2
<1>4. PICK b : /\ Begins(b, n) /\ Len(pages) = Len(b)
               /\ \A k \in 1 .. Len(b) : IsPage(pages[k], words, b, k)
    BY <1>1, PagesAre
<1>5. /\ \A j, k \in 1 .. n : j <= k => words[j].start <= words[k].start
      /\ \A j, k \in 1 .. n : j <= k => words[j].end <= words[k].end
    <2> HIDE DEF n
    <2>1. (\A l \in 1 .. n : starts[l] \in Int) /\ (\A l \in 1 .. n : ends[l] \in Int)
        BY <1>2
    <2>2. \A l \in 2 .. n : l \in 1 .. n /\ l - 1 \in 1 .. n
        BY <1>1
    <2>3. (\A l \in 2 .. n : starts[l - 1] <= starts[l]) /\ (\A l \in 2 .. n : ends[l - 1] <= ends[l])
        BY <2>2 DEF InOrder, n
    <2>4. \A k \in 1 .. n : starts[k] = words[k].start /\ ends[k] = words[k].end
        OBVIOUS
    <2> HIDE DEF starts, ends
    <2>5. ASSUME NEW j \in 1 .. n, NEW k \in 1 .. n, j <= k
          PROVE  words[j].start <= words[k].start /\ words[j].end <= words[k].end
        <3>1. starts[j] <= starts[k]
            BY <1>1, <2>1, <2>3, <2>5, NeverFalls
        <3>2. ends[j] <= ends[k]
            BY <1>1, <2>1, <2>3, <2>5, NeverFalls
        <3> QED BY <2>4, <3>1, <3>2
    <2> QED BY <2>5
<1> HIDE DEF n, pages, H
<1> DEFINE P == Len(b)
<1>6. /\ P \in Nat /\ P >= 1 /\ b[1] = 1
      /\ \A k \in 1 .. P : b[k] \in 1 .. n
      /\ \A j, k \in 1 .. P : j < k => b[j] < b[k]
    BY <1>4 DEF Begins
<1> HIDE DEF P
(* The last page that has begun, p.                                          *)
<1> DEFINE T == {k \in 1 .. P : words[b[k]].start <= t}
<1>7. PICK p \in T : \A k \in T : k <= p
    <2>1. 1 \in 1 .. P /\ 1 \in 1 .. n /\ 1 <= i
        BY <1>1, <1>6
    <2>2. words[b[1]].start <= words[i].start
        BY <1>1, <1>5, <1>6, <2>1
    <2>3. 1 \in T
        BY <1>1, <1>2, <1>3, <1>6, <2>1, <2>2
    <2>4. T \subseteq 1 .. P
        OBVIOUS
    <2> HIDE DEF T
    <2> QED BY <1>6, <2>3, <2>4, GreatestIs
<1>8. /\ p \in 1 .. P /\ words[b[p]].start <= t /\ b[p] \in 1 .. n
      /\ \A k \in 1 .. P : words[b[k]].start <= t => k <= p
    BY <1>6, <1>7
<1> HIDE DEF T
<1>9. \A k \in 1 .. P : (pages[k].show <= t) <=> k <= p
    <2> SUFFICES ASSUME NEW k \in 1 .. P PROVE (pages[k].show <= t) <=> k <= p
        OBVIOUS
    <2>1. pages[k].show = words[b[k]].start /\ b[k] \in 1 .. n
        BY <1>4, <1>6 DEF IsPage, P
    <2>2. CASE k <= p
        <3>1. b[k] <= b[p]
            <4>1. k < p \/ k = p
                BY <1>6, <1>8, <2>2
            <4>2. b[k] \in Int /\ b[p] \in Int
                BY <1>8, <2>1
            <4> QED BY <1>6, <1>8, <4>1, <4>2
        <3>2. words[b[k]].start <= words[b[p]].start
            BY <1>5, <1>8, <2>1, <3>1
        <3>3. words[b[k]].start \in Int /\ words[b[p]].start \in Int
            BY <1>2, <1>8, <2>1
        <3>4. words[b[k]].start <= t
            BY <1>3, <1>8, <3>2, <3>3
        <3> QED BY <2>1, <2>2, <3>4
    <2>3. CASE ~(k <= p)
        BY <1>8, <2>1, <2>3
    <2> QED BY <2>2, <2>3
<1>17. \A hide : hide = pages[p].hide /\ t < hide => PageAt(pages, t) = p /\ p # 0
    <2>1. Len(pages) = P
        BY <1>4 DEF P
    <2>2. Len(pages) \in Nat /\ p \in 0 .. Len(pages) /\ p # 0
        BY <1>6, <1>8, <2>1
    <2>3. \A k \in 1 .. Len(pages) : (pages[k].show <= t) <=> k <= p
        BY <1>9, <2>1
    <2>4. PageAt(pages, t) = IF p # 0 /\ t < pages[p].hide THEN p ELSE 0
        BY <1>3, <2>2, <2>3, PageFound
    <2> QED BY <2>2, <2>4
(* The last word that is heard, m.                                           *)
<1>10. /\ H \subseteq 1 .. n /\ i \in H
       /\ \A k \in 1 .. n : k \in H <=> words[k].start <= t /\ t < words[k].end
    BY <1>1, <1>3 DEF H, Sounding
<1>11. \E m \in H : \A k \in H : k <= m
    BY <1>1, <1>10, GreatestIs
<1> DEFINE m == CHOOSE m \in H : \A k \in H : k <= m
<1>12. m \in H /\ \A k \in H : k <= m
    BY <1>11
<1> HIDE DEF m
<1>13. m \in 1 .. n /\ words[m].start <= t /\ t < words[m].end
    BY <1>10, <1>12
(* It is on that page.                                                       *)
<1> DEFINE e == Ends(b, n, p)
<1>14. b[p] <= m
    <2> SUFFICES ASSUME ~(b[p] <= m) PROVE FALSE
        OBVIOUS
    <2>1. m <= b[p] /\ m # b[p]
        BY <1>8, <1>13
    <2>2. words[m].end <= words[b[p]].end
        BY <1>5, <1>8, <1>13, <2>1
    <2>3. words[m].end \in Int /\ words[b[p]].end \in Int
        BY <1>2, <1>8, <1>13
    <2>4. t < words[b[p]].end
        BY <1>3, <1>13, <2>2, <2>3
    <2>5. b[p] \in H
        BY <1>8, <1>10, <2>4
    <2> QED BY <1>12, <2>5
<1>15. CASE p = P
    <2>1. e = n
        BY <1>15 DEF Ends, P
    <2>2. m <= e /\ e \in 1 .. n
        BY <1>1, <1>13, <2>1
    <2>3. words[m].end <= words[e].end
        BY <1>5, <1>13, <2>2
    <2>4. words[e].end \in Int /\ words[m].end \in Int
        BY <1>2, <1>13, <2>2
    <2>5. pages[p].hide = words[e].end + Linger /\ pages[p].first = b[p] /\ pages[p].last = e
        BY <1>4, <1>8, <1>15 DEF IsPage, P, n
    <2> HIDE DEF e
    <2>6. t < pages[p].hide
        <3> DEFINE x == words[m].end
                   y == words[e].end
                   z == pages[p].hide
        <3>1. t \in Int /\ x \in Int /\ y \in Int /\ t < x /\ x <= y /\ z = y + 7
            BY <1>3, <1>13, <2>3, <2>4, <2>5 DEF Linger
        <3> HIDE DEF x, y, z
        <3>2. t < z
            BY <3>1
        <3> QED BY <3>2 DEF z
    <2>7. m \in pages[p].first .. pages[p].last
        BY <1>8, <1>13, <1>14, <2>2, <2>5
    <2>8. PageAt(pages, t) = p
        BY <1>17, <2>6
    <2>9. p # 0
        BY <1>17, <2>6
    <2> QED BY <2>7, <2>8, <2>9 DEF UpAt, m, H, pages
<1>16. CASE p # P
    <2> DEFINE q == b[p + 1]
    <2>1. p + 1 \in 1 .. P /\ ~(p + 1 <= p) /\ p < p + 1
        BY <1>6, <1>8, <1>16
    <2>2. q \in 1 .. n /\ b[p] < q
        BY <1>6, <1>8, <2>1
    <2>3. words[q].start \in Int /\ ~(words[q].start <= t)
        BY <1>2, <1>8, <2>1, <2>2
    <2>4. e = q - 1
        BY <1>16 DEF Ends, P
    <2> HIDE DEF q
    <2>5. m < q
        <3> SUFFICES ASSUME ~(m < q) PROVE FALSE
            OBVIOUS
        <3>1. q <= m
            BY <1>13, <2>2
        <3>2. words[q].start <= words[m].start /\ words[m].start \in Int
            BY <1>2, <1>5, <1>13, <2>2, <3>1
        <3> QED BY <1>3, <1>13, <2>3, <3>2
    <2>6. e \in 1 .. n /\ m <= e
        <3> DEFINE x == b[p]
        <3>1. x \in 1 .. n /\ q \in 1 .. n /\ x < q /\ m \in 1 .. n /\ m < q /\ e = q - 1
            BY <1>8, <1>13, <2>2, <2>4, <2>5
        <3> HIDE DEF x, e
        <3>2. q - 1 \in 1 .. n /\ m <= q - 1
            BY <1>1, <3>1
        <3> QED BY <3>1, <3>2
    <2>7. words[m].end <= words[e].end /\ words[e].end \in Int /\ words[m].end \in Int
        BY <1>2, <1>5, <1>13, <2>6
    <2>8. /\ pages[p].hide = (IF words[q].start - words[e].end < LinkGap THEN words[q].start
                              ELSE CapMin(words[e].end + Linger, words[q].start))
          /\ pages[p].first = b[p] /\ pages[p].last = e
        BY <1>4, <1>8, <1>16 DEF IsPage, P, n, q
    <2> HIDE DEF e
    <2>9. t < pages[p].hide
        <3> DEFINE x == words[m].end
                   y == words[e].end
                   s == words[q].start
                   z == pages[p].hide
        <3>1. /\ t \in Int /\ x \in Int /\ y \in Int /\ s \in Int /\ t < x /\ x <= y /\ t < s
              /\ z = IF s - y < LinkGap THEN s ELSE CapMin(y + Linger, s)
            BY <1>3, <1>13, <2>3, <2>7, <2>8
        <3> HIDE DEF x, y, z, s
        <3>2. t < z
            BY <3>1 DEF CapMin, Linger, LinkGap
        <3> QED BY <3>2 DEF z
    <2>10. m \in pages[p].first .. pages[p].last
        BY <1>8, <1>13, <1>14, <2>6, <2>8
    <2>11. PageAt(pages, t) = p
        BY <1>17, <2>9
    <2>12. p # 0
        BY <1>17, <2>9
    <2> QED BY <2>10, <2>11, <2>12 DEF UpAt, m, H, pages
<1> QED BY <1>15, <1>16

LEMMA WordsHold ==
    CapInv => WordsOfVideo
<1> SUFFICES ASSUME CapInv PROVE WordsOfVideo
    OBVIOUS
<1> DEFINE w == cap.words
           v == VisibleWords(w)
<1>1. w \in Seq(CapWord)
    BY CapNow, CapStateIs DEF CapTranscript
<1>2. ASSUME InOrder(w), NEW cuts, NEW i \in DOMAIN v, NEW t \in v[i].start .. v[i].end - 1
      PROVE  UpAt(v, BuildPages(v, cuts), t)
    <2>1. v \in Seq(CapWord) /\ InOrder(v)
        BY <1>1, <1>2, VisibleAre
    <2> HIDE DEF v
    <2> QED BY <1>2, <2>1, HeardShown
<1>3. HeardIsShown
    BY <1>2, CapNow DEF HeardIsShown
<1>4. CaptionsOfVideo
    <2> SUFFICES ASSUME ~cap.late
                 PROVE  /\ AllOf(cap.words, cap.file)
                        /\ \A k \in DOMAIN cap.past : AllOf(cap.past[k], cap.file)
                        /\ \A f \in 1 .. CapFiles : AllOf(capStore[f], f)
        BY DEF CaptionsOfVideo
    <2>1. \A words, f : KeptIn(cap, words, f) => AllOf(words, f)
        <3> SUFFICES ASSUME NEW words, NEW f, KeptIn(cap, words, f) PROVE AllOf(words, f)
            OBVIOUS
        <3> DEFINE X == WordsFrom(f)
        <3>1. words \in Seq(X)
            BY DEF KeptIn, Own
        <3> HIDE DEF X
        <3>2. \A k \in DOMAIN words : words[k] \in X
            BY <3>1
        <3> QED BY <3>2 DEF AllOf, X, WordsFrom
    <2> QED BY <2>1, CapNow DEF WordsKept, StoreKept
<1> QED BY <1>3, <1>4 DEF WordsOfVideo

(* For every set of visits, drag targets and transcripts: the captions are   *)
(* those of the video unless an answer or a drag came late, words that were  *)
(* put where there was room stay apart, and while one is heard the caption   *)
(* it is on is up, however the words are grouped.                            *)
THEOREM WordsOfVideoHolds == CapSpec => []WordsOfVideo
<1> QED BY WordsHold, CapStart, CapStep, PTL DEF CapSpec
===============================================================================
