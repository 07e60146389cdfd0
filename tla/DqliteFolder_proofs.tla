------------------------- MODULE DqliteFolder_proofs ------------------------
(***************************************************************************)
(* Lemmas about the operators of DqliteFolder and about those of the       *)
(* community modules that the models use, for the proofs about the modules *)
(* that use them: maxima and minima, how many entries a sequence of        *)
(* segments has, and FlattenSeq.                                           *)
(***************************************************************************)
EXTENDS DqliteFolder, SequencesExt, TLAPS, FiniteSetTheorems, SequenceTheorems, WellFoundedInduction

-----------------------------------------------------------------------------
(* Maxima: FiniteSetsExt!Max is a CHOOSE, these lemmas say what it chooses. *)
Above == {ss \in Nat \X Nat : ss[1] < ss[2]}

(* Induction, as the provers can use it: a set of numbers that is not empty, say
   of those for which a claim fails, has a least element. *)
LEMMA LeastNumber ==
  ASSUME NEW T, T \subseteq Nat, T # {}
  PROVE  \E m \in T : \A n \in T : m <= n
<1>1. IsWellFoundedOn(Above, Nat)
  BY NatLessThanWellFounded DEF OpToRel, Above
<1>2. PICK m \in T : \A n \in T : <<n, m>> \notin Above
  BY <1>1, WFMin
<1>3. ASSUME NEW n \in T PROVE m <= n
  <2>1. m \in Nat /\ n \in Nat
    OBVIOUS
  <2>2. ~(n < m)
    BY <1>2, <2>1 DEF Above
  <2> QED BY <2>1, <2>2
<1> QED BY <1>3

(* A bounded set of numbers that is not empty has a greatest element: the
   MAX(log_idx) of the queries exists. *)
LEMMA MaxExists ==
  ASSUME NEW S, S \subseteq Nat, S # {}, NEW b \in Nat, \A x \in S : x <= b
  PROVE  /\ Max(S) \in S
         /\ \A x \in S : x <= Max(S)
<1> DEFINE T == {b - x : x \in S}
<1>1. T \subseteq Nat /\ T # {}
  OBVIOUS
<1>2. PICK t \in T : \A y \in T : <<y, t>> \notin Above
  <2>1. IsWellFoundedOn(Above, Nat)
    BY NatLessThanWellFounded DEF OpToRel, Above
  <2> HIDE DEF T
  <2> QED BY <1>1, <2>1, WFMin
<1>3. PICK m \in S : t = b - m
  OBVIOUS
<1>4. ASSUME NEW x \in S PROVE x <= m
  <2>1. b - x \in T
    OBVIOUS
  <2>2. ~(b - x < t)
    BY <1>1, <1>2, <2>1 DEF Above
  <2> QED BY <1>3, <2>2
<1>5. \E x \in S : \A y \in S : x >= y
  BY <1>4
<1> QED BY <1>5 DEF Max

(* An upper bound that is in the set is its maximum. *)
LEMMA MaxIs ==
  ASSUME NEW S, S \subseteq Nat, NEW m \in S, \A x \in S : x <= m
  PROVE  Max(S) = m
<1>1. /\ Max(S) \in S
      /\ \A x \in S : x <= Max(S)
  BY MaxExists
<1>2. ASSUME NEW k \in S, \A x \in S : x <= k
      PROVE  k = m
  BY <1>2
<1> QED BY <1>1, <1>2

(* Minima likewise. *)
LEMMA MinIs ==
  ASSUME NEW S, S \subseteq Nat, NEW m \in S, \A x \in S : m <= x
  PROVE  Min(S) = m
<1>1. \E k \in S : \A x \in S : k <= x
  OBVIOUS
<1>2. Min(S) \in S /\ \A x \in S : Min(S) <= x
  BY <1>1 DEF Min
<1>3. Min(S) \in Nat /\ m \in Nat /\ Min(S) <= m /\ m <= Min(S)
  BY <1>2
<1> QED BY <1>3

(* A finite set of numbers has a minimum, which Min chooses. *)
LEMMA MinExists ==
  ASSUME NEW S, S \subseteq Nat, S # {}
  PROVE  Min(S) \in S /\ \A x \in S : Min(S) <= x
<1>1. \E k \in S : \A x \in S : k <= x
  BY LeastNumber
<1> QED BY <1>1 DEF Min

-----------------------------------------------------------------------------
(* Entries of segments: the segments are a sequence over S, each with a sequence
   of entries over E. *)
LEMMA PlacesAreFinite ==
  ASSUME NEW S, NEW E, \A segment \in S : segment.entries \in Seq(E),
         NEW segments \in Seq(S)
  PROVE  /\ IsFiniteSet(Places(segments))
         /\ NumEntries(segments) \in Nat
<1> DEFINE Column(s) == {s} \X DOMAIN segments[s].entries
           Columns == {Column(s) : s \in DOMAIN segments}
           f == [s \in DOMAIN segments |-> Column(s)]
<1>1. ASSUME NEW s \in DOMAIN segments
      PROVE  IsFiniteSet(Column(s))
  <2>1. segments[s].entries \in Seq(E)
    OBVIOUS
  <2>2. DOMAIN segments[s].entries = 1..Len(segments[s].entries)
        /\ Len(segments[s].entries) \in Nat
    BY <2>1
  <2>3. IsFiniteSet(DOMAIN segments[s].entries)
    BY <2>2, FS_Interval
  <2> QED BY <2>3, FS_Singleton, FS_Product
<1>2. IsFiniteSet(Columns)
  <2>1. DOMAIN segments = 1..Len(segments) /\ Len(segments) \in Nat
    OBVIOUS
  <2>2. IsFiniteSet(DOMAIN segments)
    BY <2>1, FS_Interval
  <2>3. f \in Surjection(DOMAIN segments, Columns)
    BY DEF Surjection
  <2> HIDE DEF Columns, f
  <2> QED BY <2>2, <2>3, FS_Surjection
<1>3. IsFiniteSet(UNION Columns)
  <2>1. \A T \in Columns : IsFiniteSet(T)
    BY <1>1
  <2> HIDE DEF Columns
  <2> QED BY <1>2, <2>1, FS_UNION
<1>4. IsFiniteSet(Places(segments))
  BY <1>3 DEF Places
<1> QED BY <1>4, FS_CardinalityType DEF NumEntries

(* No segments have no entries. *)
LEMMA NoEntries == NumEntries(<<>>) = 0
<1>1. Places(<<>>) = {}
  BY DEF Places
<1> QED BY <1>1, FS_EmptySet DEF NumEntries

(* The entries of one segment. *)
LEMMA ColumnIsCounted ==
  ASSUME NEW E, NEW entries \in Seq(E), NEW s
  PROVE  /\ IsFiniteSet({s} \X DOMAIN entries)
         /\ Cardinality({s} \X DOMAIN entries) = Len(entries)
<1>1. DOMAIN entries = 1..Len(entries) /\ Len(entries) \in Nat
  OBVIOUS
<1> DEFINE C == {s} \X DOMAIN entries
           f == [e \in 1..Len(entries) |-> <<s, e>>]
<1>2. f \in Bijection(1..Len(entries), C)
  <2>1. f \in [1..Len(entries) -> C]
    BY <1>1
  <2>2. \A d, e \in 1..Len(entries) : f[d] = f[e] => d = e
    OBVIOUS
  <2>3. ASSUME NEW p \in C PROVE \E e \in 1..Len(entries) : f[e] = p
    <3>1. p = <<s, p[2]>> /\ p[2] \in 1..Len(entries)
      BY <1>1
    <3> QED BY <3>1
  <2> HIDE DEF C, f
  <2> QED BY <2>1, <2>2, <2>3 DEF Bijection, Injection, Surjection, IsInjective
<1>3. IsFiniteSet(1..Len(entries)) /\ Cardinality(1..Len(entries)) = Len(entries)
  BY <1>1, FS_Interval
<1> HIDE DEF C, f
<1>4. IsFiniteSet(C) /\ Cardinality(C) = Len(entries)
  BY <1>2, <1>3, FS_Bijection DEF ExistsBijection
<1> QED BY <1>4 DEF C

(* A segment at the end adds its entries. *)
LEMMA AppendEntries ==
  ASSUME NEW S, NEW E, \A segment \in S : segment.entries \in Seq(E),
         NEW segments \in Seq(S), NEW segment \in S
  PROVE  NumEntries(Append(segments, segment)) = NumEntries(segments) + Len(segment.entries)
<1> DEFINE t == Append(segments, segment)
           n == Len(segments) + 1
           C == {n} \X DOMAIN segment.entries
<1>1. /\ t \in Seq(S) /\ DOMAIN t = DOMAIN segments \cup {n} /\ n \notin DOMAIN segments
      /\ t[n] = segment /\ \A s \in DOMAIN segments : t[s] = segments[s]
  OBVIOUS
<1>2. IsFiniteSet(C) /\ Cardinality(C) = Len(segment.entries)
  BY ColumnIsCounted
<1>3. IsFiniteSet(Places(segments)) /\ NumEntries(segments) \in Nat
  BY PlacesAreFinite
<1> HIDE DEF t, n
<1>4. Places(t) = Places(segments) \cup C
  BY <1>1 DEF Places
<1>5. Places(segments) \cap C = {}
  BY <1>1 DEF Places
<1> HIDE DEF C
<1>6. Cardinality(Places(t)) = Cardinality(Places(segments)) + Cardinality(C) - Cardinality({})
  BY <1>2, <1>3, <1>4, <1>5, FS_Union
<1>7. Len(segment.entries) \in Nat
  OBVIOUS
<1> QED BY <1>2, <1>3, <1>6, <1>7, FS_EmptySet DEF NumEntries, t

(* So does one at the front. *)
LEMMA HeadEntries ==
  ASSUME NEW S, NEW E, \A segment \in S : segment.entries \in Seq(E),
         NEW segments \in Seq(S), segments # <<>>
  PROVE  NumEntries(segments) = Len(Head(segments).entries) + NumEntries(Tail(segments))
<1> DEFINE t == Tail(segments)
           C == {1} \X DOMAIN Head(segments).entries
           R == {p \in Places(segments) : p[1] # 1}
           f == [p \in Places(t) |-> <<p[1] + 1, p[2]>>]
<1>1. /\ t \in Seq(S) /\ DOMAIN segments = 1..Len(segments) /\ Len(segments) \in Nat \ {0}
      /\ DOMAIN t = 1..(Len(segments) - 1) /\ Head(segments) = segments[1]
      /\ \A s \in DOMAIN t : t[s] = segments[s + 1]
      /\ Head(segments) \in S
  OBVIOUS
<1>2. IsFiniteSet(C) /\ Cardinality(C) = Len(Head(segments).entries)
  BY <1>1, ColumnIsCounted
<1>3. IsFiniteSet(Places(t)) /\ NumEntries(t) \in Nat
  BY <1>1, PlacesAreFinite
<1> HIDE DEF t
<1>4. Places(segments) = C \cup R
  <2>1. C \subseteq Places(segments)
    BY <1>1 DEF Places
  <2>2. ASSUME NEW p \in Places(segments), p[1] = 1 PROVE p \in C
    BY <1>1, <2>2 DEF Places
  <2> QED BY <2>1, <2>2
<1>5. C \cap R = {}
  OBVIOUS
<1>6. f \in Bijection(Places(t), R)
  <2>1. ASSUME NEW p \in Places(t)
        PROVE  /\ p = <<p[1], p[2]>> /\ p[1] \in DOMAIN t /\ p[1] + 1 # 1
               /\ p[1] \in Nat
               /\ <<p[1] + 1, p[2]>> \in R
    <3>1. PICK s \in DOMAIN t : p \in {s} \X DOMAIN t[s].entries
      BY DEF Places
    <3>2. s + 1 \in DOMAIN segments /\ t[s] = segments[s + 1] /\ s + 1 # 1 /\ s \in Nat
      BY <1>1
    <3>3. p = <<s, p[2]>> /\ p[1] = s
      BY <3>1
    <3>4. <<s + 1, p[2]>> \in Places(segments)
      BY <3>1, <3>2 DEF Places
    <3>5. <<s + 1, p[2]>> \in R
      BY <3>2, <3>4
    <3> QED BY <3>2, <3>3, <3>5
  <2>2. ASSUME NEW q \in R PROVE \E p \in Places(t) : f[p] = q
    <3>1. PICK s \in DOMAIN segments : q \in {s} \X DOMAIN segments[s].entries
      BY DEF Places
    <3>2. s - 1 \in DOMAIN t /\ t[s - 1] = segments[s] /\ (s - 1) + 1 = s
      BY <1>1, <3>1
    <3>3. <<s - 1, q[2]>> \in Places(t)
      BY <3>1, <3>2 DEF Places
    <3>4. f[<<s - 1, q[2]>>] = q
      BY <3>1, <3>2, <3>3
    <3> QED BY <3>3, <3>4
  <2>3. f \in [Places(t) -> R]
    BY <2>1
  <2>4. ASSUME NEW p \in Places(t), NEW q \in Places(t), f[p] = f[q] PROVE p = q
    <3>1. f[p] = <<p[1] + 1, p[2]>> /\ f[q] = <<q[1] + 1, q[2]>>
      OBVIOUS
    <3> HIDE DEF f
    <3>2. p[1] + 1 = q[1] + 1 /\ p[2] = q[2]
      <4>1. <<p[1] + 1, p[2]>> = <<q[1] + 1, q[2]>>
        BY ONLY <2>4, <3>1
      <4> QED BY ONLY <4>1
    <3>3. p[1] \in Nat /\ q[1] \in Nat /\ p = <<p[1], p[2]>> /\ q = <<q[1], q[2]>>
      BY <2>1
    <3>4. p[1] = q[1]
      BY <3>2, <3>3
    <3> QED BY <3>2, <3>3, <3>4
  <2> HIDE DEF f, R
  <2> QED BY <2>2, <2>3, <2>4 DEF Bijection, Injection, Surjection, IsInjective
<1>7. IsFiniteSet(R) /\ Cardinality(R) = NumEntries(t)
  <2> HIDE DEF R, f
  <2> QED BY <1>3, <1>6, FS_Bijection DEF ExistsBijection, NumEntries
<1> HIDE DEF C, R
<1>8. Cardinality(Places(segments)) = Cardinality(C) + Cardinality(R) - Cardinality({})
  BY <1>2, <1>4, <1>5, <1>7, FS_Union
<1>9. Len(Head(segments).entries) \in Nat
  BY <1>1
<1> QED BY <1>2, <1>3, <1>7, <1>8, <1>9, FS_EmptySet DEF NumEntries, t

(* One of the segments gets one entry more. *)
LEMMA OneEntryMore ==
  ASSUME NEW S, NEW E, \A segment \in S : segment.entries \in Seq(E),
         NEW segments \in Seq(S), NEW t, NEW k \in DOMAIN segments, NEW x,
         DOMAIN t = DOMAIN segments,
         \A s \in DOMAIN segments \ {k} : t[s] = segments[s],
         t[k].entries = Append(segments[k].entries, x)
  PROVE  NumEntries(t) = NumEntries(segments) + 1
<1> DEFINE p == <<k, Len(segments[k].entries) + 1>>
<1>1. IsFiniteSet(Places(segments)) /\ NumEntries(segments) \in Nat
  BY PlacesAreFinite
<1>2. /\ DOMAIN segments[k].entries = 1..Len(segments[k].entries)
      /\ Len(segments[k].entries) \in Nat
      /\ DOMAIN t[k].entries = 1..(Len(segments[k].entries) + 1)
  <2>1. segments[k].entries \in Seq(E)
    OBVIOUS
  <2> QED BY <2>1
<1>3. Places(t) = Places(segments) \cup {p}
  <2>1. \A s \in DOMAIN segments \ {k} :
          {s} \X DOMAIN t[s].entries = {s} \X DOMAIN segments[s].entries
    OBVIOUS
  <2>2. {k} \X DOMAIN t[k].entries = ({k} \X DOMAIN segments[k].entries) \cup {p}
    BY <1>2
  <2> DEFINE Column(g, s) == {s} \X DOMAIN g[s].entries
  <2>3. ASSUME NEW q \in Places(t) PROVE q \in Places(segments) \cup {p}
    <3>1. PICK s \in DOMAIN segments : q \in Column(t, s)
      BY DEF Places
    <3>2. CASE s = k
      BY <2>2, <3>1, <3>2 DEF Places
    <3>3. CASE s # k
      BY <2>1, <3>1, <3>3 DEF Places
    <3> QED BY <3>2, <3>3
  <2>4. ASSUME NEW q \in Places(segments) \cup {p} PROVE q \in Places(t)
    <3>1. CASE q = p
      <4>1. q \in Column(t, k)
        BY <2>2, <3>1
      <4> QED BY <4>1 DEF Places
    <3>2. CASE q \in Places(segments)
      <4>1. PICK s \in DOMAIN segments : q \in Column(segments, s)
        BY <3>2 DEF Places
      <4>2. q \in Column(t, s)
        BY <2>1, <2>2, <4>1
      <4> QED BY <4>2 DEF Places
    <3> QED BY <3>1, <3>2
  <2> QED BY <2>3, <2>4
<1>4. p \notin Places(segments)
  BY <1>2 DEF Places
<1> QED BY <1>1, <1>3, <1>4, FS_AddElement DEF NumEntries

(* The entries before and up to a segment. *)
LEMMA EntriesBefore ==
  ASSUME NEW S, NEW E, \A segment \in S : segment.entries \in Seq(E),
         NEW segments \in Seq(S), NEW k \in DOMAIN segments
  PROVE  /\ NumEntries(SubSeq(segments, 1, k - 1)) \in Nat
         /\ NumEntries(SubSeq(segments, 1, k))
              = NumEntries(SubSeq(segments, 1, k - 1)) + Len(segments[k].entries)
         /\ NumEntries(SubSeq(segments, 1, 0)) = 0
<1> DEFINE s == SubSeq(segments, 1, k - 1)
<1>1. /\ s \in Seq(S) /\ segments[k] \in S
      /\ SubSeq(segments, 1, k) = Append(s, segments[k])
  OBVIOUS
<1>2. SubSeq(segments, 1, 0) = <<>>
  OBVIOUS
<1> HIDE DEF s
<1>3. NumEntries(s) \in Nat
  BY <1>1, PlacesAreFinite
<1>4. NumEntries(Append(s, segments[k])) = NumEntries(s) + Len(segments[k].entries)
  BY <1>1, AppendEntries
<1> QED BY <1>1, <1>2, <1>3, <1>4, NoEntries DEF s

(* Segments at the end that have none. *)
LEMMA TrailingEmpty ==
  ASSUME NEW S, NEW segments \in Seq(S), NEW k \in DOMAIN segments,
         \A s \in DOMAIN segments : s > k => segments[s].entries = <<>>
  PROVE  NumEntries(segments) = NumEntries(SubSeq(segments, 1, k))
<1> DEFINE t == SubSeq(segments, 1, k)
<1>1. /\ DOMAIN segments = 1..Len(segments) /\ Len(segments) \in Nat /\ k \in 1..Len(segments)
      /\ DOMAIN t = 1..k /\ \A s \in 1..k : t[s] = segments[s]
  OBVIOUS
<1> HIDE DEF t
<1>2. ASSUME NEW q \in Places(segments) PROVE q \in Places(t)
  <2>1. PICK s \in DOMAIN segments : q \in {s} \X DOMAIN segments[s].entries
    BY DEF Places
  <2>2. segments[s].entries # <<>>
    BY <2>1
  <2>3. s \in DOMAIN t /\ t[s] = segments[s]
    BY <1>1, <2>2
  <2> QED BY <2>1, <2>3 DEF Places
<1>3. ASSUME NEW q \in Places(t) PROVE q \in Places(segments)
  <2>1. PICK s \in DOMAIN t : q \in {s} \X DOMAIN t[s].entries
    BY DEF Places
  <2>2. s \in DOMAIN segments /\ t[s] = segments[s]
    BY <1>1
  <2> QED BY <2>1, <2>2 DEF Places
<1>4. Places(segments) = Places(t)
  BY <1>2, <1>3
<1> QED BY <1>4 DEF NumEntries, t

(* What two sequences have in common at the front. *)
LEMMA SamePrefix ==
  ASSUME NEW S, NEW a \in Seq(S), NEW b \in Seq(S), NEW n \in Nat,
         n <= Len(a), n <= Len(b), \A i \in 1..n : a[i] = b[i]
  PROVE  SubSeq(a, 1, n) = SubSeq(b, 1, n)
<1> DEFINE x == SubSeq(a, 1, n)
           y == SubSeq(b, 1, n)
<1>1. x \in Seq(S) /\ Len(x) = n /\ \A i \in 1..n : x[i] = a[i]
  OBVIOUS
<1>2. y \in Seq(S) /\ Len(y) = n /\ \A i \in 1..n : y[i] = b[i]
  OBVIOUS
<1> HIDE DEF x, y
<1>3. x = y
  BY <1>1, <1>2
<1> QED BY <1>3 DEF x, y

(* Nothing is cut off behind the last segment. *)
LEMMA AllEntries ==
  ASSUME NEW S, NEW segments \in Seq(S)
  PROVE  SubSeq(segments, 1, Len(segments)) = segments
OBVIOUS

(* The entries up to a segment and those behind it. *)
LEMMA EntriesSplit ==
  ASSUME NEW S, NEW E, \A segment \in S : segment.entries \in Seq(E),
         NEW segments \in Seq(S), NEW k \in 0..Len(segments)
  PROVE  NumEntries(segments) =
           NumEntries(SubSeq(segments, 1, k)) + NumEntries(SubSeq(segments, k + 1, Len(segments)))
<1> DEFINE h == SubSeq(segments, 1, k)
           t == SubSeq(segments, k + 1, Len(segments))
           R == {p \in Places(segments) : p[1] > k}
           f == [p \in Places(t) |-> <<p[1] + k, p[2]>>]
<1>1. /\ DOMAIN segments = 1..Len(segments) /\ Len(segments) \in Nat /\ k \in Nat /\ k <= Len(segments)
      /\ h \in Seq(S) /\ t \in Seq(S)
  OBVIOUS
<1>2. /\ DOMAIN h = 1..k /\ \A s \in 1..k : h[s] = segments[s]
      /\ DOMAIN t = 1..(Len(segments) - k) /\ \A s \in DOMAIN t : t[s] = segments[s + k]
  OBVIOUS
<1>3. /\ IsFiniteSet(Places(h)) /\ NumEntries(h) \in Nat
      /\ IsFiniteSet(Places(t)) /\ NumEntries(t) \in Nat
  BY <1>1, PlacesAreFinite
<1> HIDE DEF h, t
<1>4. Places(segments) = Places(h) \cup R
  <2>1. ASSUME NEW p \in Places(h) PROVE p \in Places(segments)
    <3>1. PICK s \in DOMAIN h : p \in {s} \X DOMAIN h[s].entries
      BY DEF Places
    <3>2. s \in DOMAIN segments /\ h[s] = segments[s]
      BY <1>1, <1>2
    <3> QED BY <3>1, <3>2 DEF Places
  <2>2. ASSUME NEW p \in Places(segments), ~(p[1] > k) PROVE p \in Places(h)
    <3>1. PICK s \in DOMAIN segments : p \in {s} \X DOMAIN segments[s].entries
      BY DEF Places
    <3>2. p[1] = s
      BY <3>1
    <3>3. s \in DOMAIN h /\ h[s] = segments[s]
      BY <1>1, <1>2, <2>2, <3>2
    <3> QED BY <3>1, <3>3 DEF Places
  <2> QED BY <2>1, <2>2
<1>5. Places(h) \cap R = {}
  <2>1. ASSUME NEW p \in Places(h) PROVE ~(p[1] > k)
    <3>1. PICK s \in DOMAIN h : p \in {s} \X DOMAIN h[s].entries
      BY DEF Places
    <3>2. p[1] = s /\ s \in 1..k
      BY <1>2, <3>1
    <3> QED BY <1>1, <3>2
  <2> QED BY <2>1
<1>6. f \in Bijection(Places(t), R)
  <2>1. ASSUME NEW p \in Places(t)
        PROVE  /\ p = <<p[1], p[2]>> /\ p[1] \in Nat
               /\ <<p[1] + k, p[2]>> \in R
    <3>1. PICK s \in DOMAIN t : p \in {s} \X DOMAIN t[s].entries
      BY DEF Places
    <3>2. s + k \in DOMAIN segments /\ t[s] = segments[s + k] /\ s + k > k /\ s \in Nat
      BY <1>1, <1>2
    <3>3. p = <<s, p[2]>> /\ p[1] = s
      BY <3>1
    <3>4. <<s + k, p[2]>> \in Places(segments)
      BY <3>1, <3>2 DEF Places
    <3>5. <<s + k, p[2]>> \in R
      BY <3>2, <3>4
    <3> QED BY <3>2, <3>3, <3>5
  <2>2. ASSUME NEW q \in R PROVE \E p \in Places(t) : f[p] = q
    <3>1. PICK s \in DOMAIN segments : q \in {s} \X DOMAIN segments[s].entries
      BY DEF Places
    <3>2. s - k \in DOMAIN t /\ t[s - k] = segments[s] /\ (s - k) + k = s
      BY <1>1, <1>2, <3>1
    <3>3. <<s - k, q[2]>> \in Places(t)
      BY <3>1, <3>2 DEF Places
    <3>4. f[<<s - k, q[2]>>] = q
      BY <3>1, <3>2, <3>3
    <3> QED BY <3>3, <3>4
  <2>3. f \in [Places(t) -> R]
    BY <2>1
  <2>4. ASSUME NEW p \in Places(t), NEW q \in Places(t), f[p] = f[q] PROVE p = q
    <3>1. p[1] + k = q[1] + k /\ p[2] = q[2]
      BY <2>4
    <3>2. p[1] \in Nat /\ q[1] \in Nat
      BY <2>1
    <3>3. \A a, b \in Nat : a + k = b + k => a = b
      BY <1>1
    <3>4. p[1] = q[1]
      BY <3>1, <3>2, <3>3
    <3> QED BY <2>1, <3>1, <3>4
  <2> HIDE DEF f, R
  <2> QED BY <2>2, <2>3, <2>4 DEF Bijection, Injection, Surjection, IsInjective
<1>7. IsFiniteSet(R) /\ Cardinality(R) = NumEntries(t)
  <2> HIDE DEF R, f
  <2> QED BY <1>3, <1>6, FS_Bijection DEF ExistsBijection, NumEntries
<1> HIDE DEF R
<1>8. Cardinality(Places(segments)) = Cardinality(Places(h)) + Cardinality(R) - Cardinality({})
  BY <1>3, <1>4, <1>5, <1>7, FS_Union
<1> QED BY <1>3, <1>7, <1>8, FS_EmptySet DEF NumEntries, h, t

(* More segments have no fewer entries. *)
LEMMA EntriesGrow ==
  ASSUME NEW S, NEW E, \A segment \in S : segment.entries \in Seq(E),
         NEW segments \in Seq(S), NEW k \in 0..Len(segments), NEW j \in 0..k
  PROVE  NumEntries(SubSeq(segments, 1, j)) <= NumEntries(SubSeq(segments, 1, k))
<1> DEFINE t == SubSeq(segments, 1, k)
<1>1. t \in Seq(S) /\ Len(t) = k /\ SubSeq(t, 1, j) = SubSeq(segments, 1, j)
      /\ SubSeq(t, j + 1, k) \in Seq(S) /\ SubSeq(t, 1, j) \in Seq(S)
  OBVIOUS
<1> HIDE DEF t
<1>2. NumEntries(t) = NumEntries(SubSeq(t, 1, j)) + NumEntries(SubSeq(t, j + 1, k))
  BY <1>1, EntriesSplit
<1>3. NumEntries(SubSeq(t, 1, j)) \in Nat /\ NumEntries(SubSeq(t, j + 1, k)) \in Nat
  BY <1>1, PlacesAreFinite
<1>4. NumEntries(SubSeq(t, 1, j)) <= NumEntries(t)
  BY <1>2, <1>3
<1> QED BY <1>1, <1>4 DEF t

-----------------------------------------------------------------------------
(* FlattenSeq is a recursive function: that there is one, which one, and what it
   is for a sequence that ends with s. *)
(* The recursive function of FlattenSeq, on the first n sequences. *)
FlattensTo(f, seqs, n) ==
  \A i \in 1..n : f[i] = IF i = 1 THEN seqs[i] ELSE f[i - 1] \o seqs[i]

(* A flattened sequence exists, *)
LEMMA FlattenExists ==
  ASSUME NEW S, NEW seqs \in Seq(Seq(S)), NEW n \in 0..Len(seqs)
  PROVE  \E f \in [1..n -> Seq(S)] : FlattensTo(f, seqs, n)
<1> DEFINE Bad == {k \in 0..Len(seqs) : ~\E f \in [1..k -> Seq(S)] : FlattensTo(f, seqs, k)}
<1>1. SUFFICES ASSUME Bad # {} PROVE FALSE
  OBVIOUS
<1>2. PICK k \in Bad : \A j \in Bad : k <= j
  <2>1. Bad \subseteq Nat
    OBVIOUS
  <2> HIDE DEF Bad
  <2> QED BY <1>1, <2>1, LeastNumber
<1>3. CASE k = 0
  <2>1. [i \in 1..0 |-> <<>>] \in [1..0 -> Seq(S)]
    OBVIOUS
  <2>2. FlattensTo([i \in 1..0 |-> <<>>], seqs, 0)
    BY DEF FlattensTo
  <2> QED BY <1>3, <2>1, <2>2
<1>4. CASE k # 0
  <2>1. k \in 1..Len(seqs) /\ k - 1 \in 0..Len(seqs) /\ k - 1 \notin Bad
    <3>1. k \in 0..Len(seqs) /\ Len(seqs) \in Nat
      OBVIOUS
    <3>2. ~(k <= k - 1)
      BY <3>1
    <3> HIDE DEF Bad
    <3> QED BY <1>2, <1>4, <3>1, <3>2
  <2>2. PICK f \in [1..(k - 1) -> Seq(S)] : FlattensTo(f, seqs, k - 1)
    BY <2>1
  <2> DEFINE g == [i \in 1..k |-> IF i = k THEN (IF k = 1 THEN seqs[k] ELSE f[k - 1] \o seqs[k])
                                  ELSE f[i]]
  <2>3. seqs[k] \in Seq(S)
    BY <2>1
  <2>4. k # 1 => f[k - 1] \in Seq(S)
    BY <2>1
  <2>5. (IF k = 1 THEN seqs[k] ELSE f[k - 1] \o seqs[k]) \in Seq(S)
    BY <2>3, <2>4, ConcatProperties
  <2>6. g \in [1..k -> Seq(S)]
    <3> HIDE DEF Bad
    <3> QED BY <2>1, <2>5
  <2>7. FlattensTo(g, seqs, k)
    <3> SUFFICES ASSUME NEW i \in 1..k
                 PROVE  g[i] = IF i = 1 THEN seqs[i] ELSE g[i - 1] \o seqs[i]
      BY DEF FlattensTo
    <3>1. CASE i = k
      <4>1. k # 1 => g[k - 1] = f[k - 1]
        BY <2>1
      <4> QED BY <3>1, <4>1
    <3>2. CASE i # k
      <4>1. i \in 1..(k - 1) /\ g[i] = f[i] /\ (i # 1 => g[i - 1] = f[i - 1])
        BY <2>1, <3>2
      <4> QED BY <2>2, <4>1 DEF FlattensTo
    <3> QED BY <3>1, <3>2
  <2> QED BY <1>2, <2>6, <2>7
<1> QED BY <1>3, <1>4

(* there is only one, *)
LEMMA FlattenUnique ==
  ASSUME NEW seqs, NEW n \in Nat, NEW f, NEW g,
         FlattensTo(f, seqs, n), FlattensTo(g, seqs, n)
  PROVE  \A i \in 1..n : f[i] = g[i]
<1> DEFINE Bad == {k \in 1..n : f[k] # g[k]}
<1>1. SUFFICES ASSUME Bad # {} PROVE FALSE
  OBVIOUS
<1>2. PICK k \in Bad : \A j \in Bad : k <= j
  <2>1. Bad \subseteq Nat
    OBVIOUS
  <2> HIDE DEF Bad
  <2> QED BY <1>1, <2>1, LeastNumber
<1>3. k \in 1..n /\ f[k] # g[k]
  OBVIOUS
<1>4. k # 1 => k - 1 \in 1..n /\ k - 1 \notin Bad
  BY <1>2, <1>3
<1>5. k # 1 => f[k - 1] = g[k - 1]
  BY <1>4
<1> HIDE DEF Bad
<1> QED BY <1>3, <1>5 DEF FlattensTo

(* FlattenSeq by its last sequence. *)
LEMMA FlattenFunction ==
  ASSUME NEW S, NEW seqs \in Seq(Seq(S)), seqs # <<>>
  PROVE  \E f \in [1..Len(seqs) -> Seq(S)] :
           FlattensTo(f, seqs, Len(seqs)) /\ FlattenSeq(seqs) = f[Len(seqs)]
<1> DEFINE n == Len(seqs)
           Is(f) == f = [i \in 1..n |-> IF i = 1 THEN seqs[i] ELSE f[i - 1] \o seqs[i]]
<1>1. n \in Nat \ {0}
  BY EmptySeq
<1>2. PICK f \in [1..n -> Seq(S)] : FlattensTo(f, seqs, n)
  <2>1. n \in 0..Len(seqs)
    BY <1>1
  <2> HIDE DEF n
  <2> QED BY <2>1, FlattenExists
<1>3. Is(f)
  BY <1>2 DEF FlattensTo
<1>4. Is(CHOOSE g : Is(g))
  BY <1>3
<1> DEFINE h == CHOOSE g : Is(g)
<1>5. FlattenSeq(seqs) = h[n]
  BY <1>1 DEF FlattenSeq
<1>6. FlattensTo(h, seqs, n)
  <2> HIDE DEF h
  <2>1. h = [i \in 1..n |-> IF i = 1 THEN seqs[i] ELSE h[i - 1] \o seqs[i]]
    BY <1>4 DEF h
  <2> HIDE DEF n
  <2> QED BY <2>1 DEF FlattensTo
<1>7. h[n] = f[n]
  <2> HIDE DEF h, n
  <2>1. \A i \in 1..n : h[i] = f[i]
    BY <1>1, <1>2, <1>6, FlattenUnique
  <2> QED BY <1>1, <2>1
<1> QED BY <1>2, <1>5, <1>7

(* that of no sequences is empty, *)
LEMMA FlattenEmpty == FlattenSeq(<<>>) = <<>>
BY DEF FlattenSeq

(* and one more sequence comes behind the others. *)
LEMMA FlattenAppend ==
  ASSUME NEW S, NEW seqs \in Seq(Seq(S)), NEW s \in Seq(S)
  PROVE  /\ FlattenSeq(seqs) \in Seq(S)
         /\ FlattenSeq(Append(seqs, s)) = FlattenSeq(seqs) \o s
<1> DEFINE t == Append(seqs, s)
           n == Len(seqs)
<1>1. /\ t \in Seq(Seq(S)) /\ t # <<>> /\ Len(t) = n + 1 /\ n \in Nat
      /\ t[n + 1] = s /\ \A i \in 1..n : t[i] = seqs[i]
  BY AppendProperties
<1> HIDE DEF t
<1>2. PICK g : g \in [1..(n + 1) -> Seq(S)] /\
           FlattensTo(g, t, n + 1) /\ FlattenSeq(t) = g[n + 1]
  BY <1>1, FlattenFunction
<1>3. CASE seqs = <<>>
  <2>1. n = 0 /\ FlattenSeq(seqs) = <<>>
    BY <1>3, FlattenEmpty
  <2>2. g[1] = s
    BY <1>1, <1>2, <2>1 DEF FlattensTo
  <2>3. <<>> \o s = s
    BY ConcatEmptySeq
  <2>4. <<>> \in Seq(S)
    OBVIOUS
  <2> QED BY <1>2, <2>1, <2>2, <2>3, <2>4 DEF t
<1>4. CASE seqs # <<>>
  <2>1. n \in Nat \ {0}
    BY <1>4, EmptySeq
  <2>2. PICK f : f \in [1..n -> Seq(S)] /\ FlattensTo(f, seqs, n) /\ FlattenSeq(seqs) = f[n]
    BY <1>4, FlattenFunction
  <2>3. FlattensTo(g, seqs, n)
    <3> SUFFICES ASSUME NEW i \in 1..n
                 PROVE  g[i] = IF i = 1 THEN seqs[i] ELSE g[i - 1] \o seqs[i]
      BY DEF FlattensTo
    <3>1. i \in 1..(n + 1) /\ t[i] = seqs[i]
      BY <1>1
    <3> QED BY <1>2, <3>1 DEF FlattensTo
  <2>4. g[n] = f[n]
    <3> HIDE DEF n
    <3>1. n \in Nat /\ n \in 1..n
      BY <2>1
    <3>2. FlattensTo(f, seqs, n)
      BY <2>2
    <3>3. \A i \in 1..n : g[i] = f[i]
      BY <2>3, <3>1, <3>2, FlattenUnique
    <3> QED BY <3>1, <3>3
  <2>5. g[n + 1] = g[n] \o s
    <3>1. n + 1 \in 1..(n + 1) /\ n + 1 # 1 /\ (n + 1) - 1 = n
      BY <2>1
    <3> QED BY <1>1, <1>2, <3>1 DEF FlattensTo
  <2> QED BY <1>2, <2>1, <2>2, <2>4, <2>5 DEF t
<1> QED BY <1>3, <1>4

(* The elements of two sequences one behind the other. *)
LEMMA ConcatIs ==
  ASSUME NEW S, NEW s \in Seq(S), NEW t \in Seq(S)
  PROVE  /\ s \o t \in Seq(S)
         /\ Len(s \o t) = Len(s) + Len(t)
         /\ \A i \in 1..Len(s) : (s \o t)[i] = s[i]
         /\ \A i \in 1..Len(t) : (s \o t)[Len(s) + i] = t[i]
<1>1. Len(s) \in Nat /\ Len(t) \in Nat
  OBVIOUS
<1> DEFINE u == s \o t
<1>2. /\ u \in Seq(S) /\ Len(u) = Len(s) + Len(t)
      /\ \A i \in 1..(Len(s) + Len(t)) : u[i] = IF i <= Len(s) THEN s[i] ELSE t[i - Len(s)]
  BY ConcatProperties
<1> HIDE DEF u
<1>3. ASSUME NEW i \in 1..Len(t) PROVE u[Len(s) + i] = t[i]
  <2>1. /\ Len(s) + i \in 1..(Len(s) + Len(t)) /\ ~(Len(s) + i <= Len(s))
        /\ (Len(s) + i) - Len(s) = i
    BY <1>1
  <2> QED BY <1>2, <2>1
<1>4. ASSUME NEW i \in 1..Len(s) PROVE u[i] = s[i]
  <2>1. i \in 1..(Len(s) + Len(t)) /\ i <= Len(s)
    BY <1>1
  <2> QED BY <1>2, <2>1
<1> QED BY <1>2, <1>3, <1>4 DEF u

(* FlattenSeq goes on from one prefix to the next. *)
LEMMA FlattenPrefix ==
  ASSUME NEW S, NEW seqs \in Seq(Seq(S)), NEW k \in 0..(Len(seqs) - 1)
  PROVE  /\ FlattenSeq(SubSeq(seqs, 1, k)) \in Seq(S)
         /\ FlattenSeq(SubSeq(seqs, 1, k + 1)) = FlattenSeq(SubSeq(seqs, 1, k)) \o seqs[k + 1]
<1>1. k + 1 \in 1..Len(seqs) /\ Len(seqs) \in Nat
  OBVIOUS
<1>2. seqs[k + 1] \in Seq(S) /\ SubSeq(seqs, 1, k) \in Seq(Seq(S))
  BY <1>1
<1>3. SubSeq(seqs, 1, k + 1) = Append(SubSeq(seqs, 1, k), seqs[k + 1])
  BY <1>1
<1> QED BY <1>2, <1>3, FlattenAppend

(* Every element of a flattened sequence of sequences of one length. *)
LEMMA FlattenEqualLengths ==
  ASSUME NEW S, NEW seqs \in Seq(Seq(S)), NEW w \in Nat, \A s \in DOMAIN seqs : Len(seqs[s]) = w
  PROVE  /\ FlattenSeq(seqs) \in Seq(S)
         /\ Len(FlattenSeq(seqs)) = w * Len(seqs)
         /\ \A s \in DOMAIN seqs, i \in 1..w : FlattenSeq(seqs)[w * (s - 1) + i] = seqs[s][i]
<1> DEFINE flat(k) == FlattenSeq(SubSeq(seqs, 1, k))
           Good(k) == /\ flat(k) \in Seq(S)
                      /\ Len(flat(k)) = w * k
                      /\ \A s \in 1..k, i \in 1..w : flat(k)[w * (s - 1) + i] = seqs[s][i]
           Bad == {k \in 0..Len(seqs) : ~Good(k)}
<1>0. Len(seqs) \in Nat /\ DOMAIN seqs = 1..Len(seqs)
  OBVIOUS
<1>1. Bad = {}
  <2>1. SUFFICES ASSUME Bad # {} PROVE FALSE
    OBVIOUS
  <2>2. PICK k \in Bad : \A j \in Bad : k <= j
    <3>1. Bad \subseteq Nat
      BY <1>0
    <3> HIDE DEF Bad
    <3> QED BY <2>1, <3>1, LeastNumber
  <2>3. k \in 0..Len(seqs) /\ ~Good(k)
    OBVIOUS
  <2>4. k # 0
    <3>1. SUFFICES ASSUME k = 0 PROVE FALSE
      OBVIOUS
    <3>2. flat(0) = <<>>
      <4>1. SubSeq(seqs, 1, 0) = <<>>
        BY SubSeqEmpty
      <4> QED BY <4>1, FlattenEmpty
    <3>3. <<>> \in Seq(S) /\ Len(<<>>) = 0 /\ w * 0 = 0
      OBVIOUS
    <3> HIDE DEF flat
    <3>4. Good(0)
      <4>1. flat(0) \in Seq(S) /\ Len(flat(0)) = w * 0
        BY <3>2, <3>3
      <4>2. 1..0 = {}
        OBVIOUS
      <4> QED BY <4>1, <4>2
    <3> HIDE DEF Good
    <3> QED BY <2>3, <3>1, <3>4
  <2>5. PICK j \in Nat : k = j + 1
    <3>1. k - 1 \in Nat /\ k = (k - 1) + 1
      BY <1>0, <2>3, <2>4
    <3> QED BY <3>1
  <2>6. j \in 0..(Len(seqs) - 1) /\ j \in 0..Len(seqs) /\ j + 1 \in DOMAIN seqs
    BY <1>0, <2>3, <2>5
  <2>7. Good(j)
    <3>1. ~(k <= j)
      BY <2>5
    <3>2. j \notin Bad
      <4> HIDE DEF Bad
      <4> QED BY <2>2, <3>1
    <3> QED BY <2>6, <3>2
  <2>8. seqs[j + 1] \in Seq(S) /\ Len(seqs[j + 1]) = w
    BY <2>6
  <2>9. flat(j) \in Seq(S) /\ flat(j + 1) = flat(j) \o seqs[j + 1]
    BY <2>6, FlattenPrefix
  <2> HIDE DEF flat
  <2>10. PICK m \in Nat : m = w * j
    OBVIOUS
  <2>11. w * (j + 1) = m + w
    BY <2>10
  <2>12. /\ flat(j + 1) \in Seq(S) /\ Len(flat(j + 1)) = m + w
         /\ \A i \in 1..(m + w) : flat(j + 1)[i] = IF i <= m THEN flat(j)[i] ELSE seqs[j + 1][i - m]
    <3>1. Len(flat(j)) = m
      BY <2>7, <2>10
    <3> DEFINE s1 == flat(j)
               s2 == seqs[j + 1]
    <3>2. s1 \in Seq(S) /\ s2 \in Seq(S) /\ Len(s1) = m /\ Len(s2) = w
      BY <2>8, <2>9, <3>1
    <3> HIDE DEF s1, s2, Bad, Good
    <3>3. /\ s1 \o s2 \in Seq(S) /\ Len(s1 \o s2) = m + w
          /\ \A i \in 1..(m + w) : (s1 \o s2)[i] = IF i <= m THEN s1[i] ELSE s2[i - m]
      BY <3>2, ConcatProperties
    <3> QED BY <2>9, <3>3 DEF s1, s2
  <2>13. ASSUME NEW s \in 1..(j + 1), NEW i \in 1..w
         PROVE  flat(j + 1)[w * (s - 1) + i] = seqs[s][i]
    <3>1. CASE s = j + 1
      <4>1. w * (s - 1) = m
        BY <2>10, <3>1
      <4>2. m + i \in 1..(m + w) /\ ~(m + i <= m) /\ (m + i) - m = i
        OBVIOUS
      <4> QED BY <2>12, <3>1, <4>1, <4>2
    <3>2. CASE s # j + 1
      <4>1. s \in 1..j
        BY <3>2
      <4>2. PICK d \in Nat : j = s + d
        <5>1. j - s \in Nat /\ j = s + (j - s)
          BY <4>1
        <5> QED BY <5>1
      <4>3. m = w * (s - 1) + w + w * d
        BY <2>10, <4>2
      <4>4. w * (s - 1) \in Nat /\ w * d \in Nat
        BY <4>1
      <4>5. w * (s - 1) + i \in 1..(m + w) /\ w * (s - 1) + i <= m
        <5> DEFINE a == w * (s - 1)
                   b == w * d
        <5>1. a \in Nat /\ b \in Nat /\ m = a + w + b
          BY <4>3, <4>4
        <5> HIDE DEF a, b
        <5>2. a + i \in 1..(m + w) /\ a + i <= m
          BY <5>1
        <5> QED BY <5>2 DEF a
      <4>6. flat(j)[w * (s - 1) + i] = seqs[s][i]
        BY <2>7, <4>1
      <4> QED BY <2>12, <4>5, <4>6
    <3> QED BY <3>1, <3>2
  <2>14. Good(j + 1)
    BY <2>11, <2>12, <2>13
  <2> QED BY <2>3, <2>5, <2>14
<1>2. Good(Len(seqs))
  <2>1. Len(seqs) \in 0..Len(seqs)
    BY <1>0
  <2> HIDE DEF Good
  <2> QED BY <1>1, <2>1
<1>3. flat(Len(seqs)) = FlattenSeq(seqs)
  <2>1. SubSeq(seqs, 1, Len(seqs)) = seqs
    BY SubSeqFull
  <2> QED BY <2>1
<1> HIDE DEF flat
<1> QED BY <1>0, <1>2, <1>3
=============================================================================
