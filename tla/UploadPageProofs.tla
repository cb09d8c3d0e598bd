-------------------------- MODULE UploadPageProofs --------------------------
(* Theorems about UploadPage, for every forest of files and directories,     *)
(* every set of systems and orgs, and any number of uploads.                *)
EXTENDS UploadPage, SequenceTheorems, FiniteSetTheorems, TLAPS

-----------------------------------------------------------------------------
(* Induction.  The library's theorems take an operator; here a set of        *)
(* naturals has a least member, and a set of entries that a directory joins *)
(* as soon as all it holds has joined is the set of all entries.            *)

\* Of any collection of intervals from 0, one lies below all the others.
LEMMA LeastNumber ==
    ASSUME NEW T, T \subseteq Nat, T # {}
    PROVE  \E n \in T : \A m \in T : n <= m
<1>1. PICK m0 \in T : TRUE
  OBVIOUS
<1>. DEFINE S == 0..m0
            Low == {s \in SUBSET S : \E n \in T : s = 0..n}
<1>2. PICK s \in Low : \A t \in Low : <<t, s>> \notin StrictSubsetOrdering(S)
  <2>1. IsFiniteSet(S)
    BY <1>1, FS_Interval
  <2>2. Low \subseteq FiniteSubsetsOf(S)
    BY <2>1, FS_FiniteSubsetsOfFinite
  <2>3. 0..m0 \in Low
    BY <1>1
  <2>. HIDE DEF Low, S
  <2>. QED
    BY <2>2, <2>3, FS_StrictSubsetOrderingWellFounded, WFMin
<1>3. PICK n \in T : s = 0..n
  OBVIOUS
<1>4. ASSUME NEW m \in T, m < n PROVE FALSE
  <2>1. 0..m \subseteq s /\ 0..m \in Low /\ n \in s /\ n \notin 0..m
    BY <1>3, <1>4
  <2>2. <<0..m, s>> \in StrictSubsetOrdering(S)
    BY <2>1 DEF StrictSubsetOrdering
  <2>. QED
    BY <1>2, <2>1, <2>2
<1>. QED
  BY <1>3, <1>4

LEMMA TreeInduction ==
    ASSUME NEW S \in SUBSET Entry,
           \A e \in Entry : 
              (e \in Folder => \A k \in DOMAIN Children[e] : Children[e][k] \in S) => e \in S
    PROVE  S = Entry
<1>1. PICK depth \in [Entry -> 0..Cardinality(Entry)] :
          \A d \in Folder : \A k \in DOMAIN Children[d] :
              depth[Children[d][k]] = depth[d] + 1
  BY TreeAssumption
<1>2. Cardinality(Entry) \in Nat
  BY TreeAssumption, FS_CardinalityType
<1>. DEFINE height(e) == Cardinality(Entry) - depth[e]
            Heights == {n \in Nat : \E e \in Entry \ S : n = height(e)}
<1>3. \A e \in Entry : height(e) \in Nat
  BY <1>2
<1>4. SUFFICES ASSUME Entry \ S # {} PROVE FALSE
  OBVIOUS
<1>5. PICK n \in Heights : \A m \in Heights : n <= m
  <2>1. Heights # {} /\ Heights \subseteq Nat
    BY <1>3, <1>4
  <2>. HIDE DEF Heights
  <2>. QED
    BY <2>1, LeastNumber
<1>6. PICK e \in Entry \ S : n = height(e)
  OBVIOUS
<1>7. ASSUME e \in Folder, NEW k \in DOMAIN Children[e] PROVE Children[e][k] \in S
  <2>1. Children[e][k] \in Entry
    BY <1>7, TreeAssumption
  <2>2. depth[Children[e][k]] = depth[e] + 1
    BY <1>1, <1>7
  <2>3. height(Children[e][k]) < n /\ height(Children[e][k]) \in Nat
    BY <1>2, <1>3, <1>6, <2>1, <2>2
  <2>. QED
    BY <1>5, <2>1, <2>3
<1>. QED
  BY <1>6, <1>7

-----------------------------------------------------------------------------
(* Nth counts through a set of rows from the top.                          *)

UpTo(S, i) == {j \in S : j <= i}
Rank(S, i) == Cardinality(UpTo(S, i))

LEMMA RankGrows ==
    ASSUME NEW S \in SUBSET Nat, IsFiniteSet(S)
    PROVE  /\ \A i \in S : Rank(S, i) \in 1..Cardinality(S)
           /\ \A i, j \in S : i < j => Rank(S, i) < Rank(S, j)
<1>1. \A i \in S : UpTo(S, i) \in SUBSET S /\ i \in UpTo(S, i)
  BY DEF UpTo
<1>2. \A i \in S : IsFiniteSet(UpTo(S, i)) /\ Rank(S, i) \in Nat
                   /\ Rank(S, i) <= Cardinality(S)
  BY <1>1, FS_Subset, FS_CardinalityType DEF Rank
<1>3. ASSUME NEW i \in S PROVE Rank(S, i) \in 1..Cardinality(S)
  <2>1. Rank(S, i) # 0
    BY <1>1, <1>2, FS_EmptySet DEF Rank
  <2>2. Cardinality(S) \in Nat
    BY FS_CardinalityType
  <2>. QED
    BY <1>2, <2>1, <2>2
<1>4. ASSUME NEW i \in S, NEW j \in S, i < j PROVE Rank(S, i) < Rank(S, j)
  <2>0. \A x \in S : x \in Nat /\ (x <= i => x <= j) /\ ~(j <= i)
    BY <1>4
  <2>1. UpTo(S, i) \in SUBSET UpTo(S, j) /\ j \notin UpTo(S, i)
    BY <2>0 DEF UpTo
  <2>2. /\ Rank(S, i) <= Rank(S, j)
        /\ Rank(S, i) = Rank(S, j) => UpTo(S, i) = UpTo(S, j)
    BY <1>2, <2>1, FS_Subset DEF Rank
  <2>. QED
    BY <1>1, <1>2, <2>1, <2>2
<1>. QED
  BY <1>3, <1>4

\* Every row of S is counted once, in order; rows that nothing above is missing
\* from keep their number.
LEMMA NthProperties ==
    ASSUME NEW S \in SUBSET (Nat \ {0}), IsFiniteSet(S)
    PROVE  /\ \A k \in 1..Cardinality(S) : Nth(S, k) \in S
           /\ \A i \in S : \E k \in 1..Cardinality(S) : Nth(S, k) = i
           /\ \A j, k \in 1..Cardinality(S) : Nth(S, j) = Nth(S, k) => j = k
           /\ \A k \in Nat \ {0} : 1..k \subseteq S => k <= Cardinality(S) /\ Nth(S, k) = k
<1>. DEFINE n == Cardinality(S)
            rank == [i \in S |-> Rank(S, i)]
<1>1. n \in Nat
  BY FS_CardinalityType
<1>2. /\ \A i \in S : Rank(S, i) \in 1..n
      /\ \A i, j \in S : i < j => Rank(S, i) < Rank(S, j)
  BY RankGrows
<1>3. \A i, j \in S : Rank(S, i) = Rank(S, j) => i = j
  <2>1. \A i, j \in S : i < j \/ j < i \/ i = j
    OBVIOUS
  <2>. QED
    BY <1>1, <1>2, <2>1
<1>4. \A k \in 1..n : \E i \in S : Rank(S, i) = k
  <2>1. rank \in Injection(S, 1..n)
    BY <1>2, <1>3 DEF Injection, IsInjective
  <2>2. IsFiniteSet(1..n) /\ Cardinality(1..n) = n
    BY <1>1, FS_Interval
  <2>3. rank \in Surjection(S, 1..n)
    BY <2>1, <2>2, FS_Injection
  <2>. QED
    BY <2>3 DEF Surjection
<1>5. \A k \in 1..n : Nth(S, k) \in S /\ Rank(S, Nth(S, k)) = k
  BY <1>4 DEF Nth, Rank, UpTo
<1>6. \A i \in S : Nth(S, Rank(S, i)) = i
  BY <1>2, <1>3, <1>5
<1>7. ASSUME NEW k \in Nat \ {0}, 1..k \subseteq S
      PROVE  k <= n /\ Nth(S, k) = k
  <2>0. k \in 1..k /\ \A x \in S : x \in Nat \ {0} /\ (x <= k <=> x \in 1..k)
    OBVIOUS
  <2>1. k \in S /\ UpTo(S, k) = 1..k
    BY <1>7, <2>0 DEF UpTo
  <2>2. Rank(S, k) = k
    BY <2>1, FS_Interval DEF Rank
  <2>. QED
    BY <1>1, <1>2, <1>6, <2>1, <2>2
<1>. QED
  BY <1>2, <1>5, <1>6, <1>7
-----------------------------------------------------------------------------
(* Flattening.  FlattenSeq is defined by a recursive function, whose        *)
(* existence has to be shown before its equation can be used.              *)

FlatStep(h, ss, i) == IF i = 1 THEN ss[i] ELSE h[i - 1] \o ss[i]

IsFlat(h, ss, n) == h = [i \in 1..n |-> FlatStep(h, ss, i)]

LEMMA FlatExists ==
    ASSUME NEW ss, NEW n \in Nat
    PROVE  \E h : IsFlat(h, ss, n)
<1>. DEFINE Bad == {m \in Nat : ~ \E h : IsFlat(h, ss, m)}
<1>1. SUFFICES ASSUME Bad # {} PROVE FALSE
  OBVIOUS
<1>2. PICK m \in Bad : \A j \in Bad : m <= j
  <2>1. Bad \subseteq Nat
    OBVIOUS
  <2>. HIDE DEF Bad
  <2>. QED
    BY <1>1, <2>1, LeastNumber
<1>3. m # 0
  <2>1. IsFlat([i \in 1..0 |-> {}], ss, 0)
    BY DEF IsFlat
  <2>. QED
    BY <2>1
<1>4. PICK h : IsFlat(h, ss, m - 1)
  <2>1. m - 1 \in Nat /\ m - 1 \notin Bad
    BY <1>2, <1>3
  <2>. QED
    BY <2>1
<1>. DEFINE g == [i \in 1..m |-> FlatStep(h, ss, i)]
<1>5. \A i \in 1..(m - 1) : g[i] = h[i]
  BY <1>3, <1>4 DEF IsFlat
<1>6. ASSUME NEW i \in 1..m PROVE FlatStep(g, ss, i) = FlatStep(h, ss, i)
  <2>1. i # 1 => i - 1 \in 1..(m - 1)
    BY <1>2
  <2>2. i # 1 => g[i - 1] = h[i - 1]
    BY <1>5, <2>1
  <2>. QED
    BY <2>2 DEF FlatStep
<1>7. IsFlat(g, ss, m)
  BY <1>6 DEF IsFlat
<1>. QED
  BY <1>7

LEMMA FlattenSteps ==
    ASSUME NEW ss, Len(ss) \in Nat \ {0}
    PROVE  \E h : IsFlat(h, ss, Len(ss)) /\ FlattenSeq(ss) = h[Len(ss)]
<1>. DEFINE h == CHOOSE h : IsFlat(h, ss, Len(ss))
<1>1. IsFlat(h, ss, Len(ss))
  BY FlatExists
<1>2. FlattenSeq(ss) = h[Len(ss)]
  BY DEF FlattenSeq, IsFlat, FlatStep
<1>. QED
  BY <1>1, <1>2

NoRepeat(s) == \A j, k \in DOMAIN s : s[j] = s[k] => j = k

LEMMA ConcatParts ==
    ASSUME NEW T, NEW s \in Seq(T), NEW t \in Seq(T)
    PROVE  /\ s \o t \in Seq(T)
           /\ Range(s \o t) = Range(s) \cup Range(t)
           /\ NoRepeat(s) /\ NoRepeat(t) /\ Range(s) \cap Range(t) = {}
                => NoRepeat(s \o t)
<1>1. /\ s \o t \in Seq(T) /\ Len(s \o t) = Len(s) + Len(t)
      /\ \A i \in 1..(Len(s) + Len(t)) :
            (s \o t)[i] = IF i <= Len(s) THEN s[i] ELSE t[i - Len(s)]
  BY ConcatProperties
<1>2. /\ Len(s) \in Nat /\ DOMAIN s = 1..Len(s)
      /\ Len(t) \in Nat /\ DOMAIN t = 1..Len(t)
      /\ DOMAIN (s \o t) = 1..(Len(s) + Len(t))
  BY <1>1, LenProperties
<1>3. ASSUME NoRepeat(s), NoRepeat(t), Range(s) \cap Range(t) = {},
             NEW j \in 1..(Len(s) + Len(t)), NEW k \in 1..(Len(s) + Len(t)),
             (s \o t)[j] = (s \o t)[k]
      PROVE  j = k
  <2>1. CASE j <= Len(s) /\ k <= Len(s)
    BY <1>1, <1>2, <1>3, <2>1 DEF NoRepeat
  <2>2. CASE j > Len(s) /\ k > Len(s)
    <3>1. /\ j - Len(s) \in DOMAIN t /\ k - Len(s) \in DOMAIN t
          /\ t[j - Len(s)] = t[k - Len(s)]
      BY <1>1, <1>2, <1>3, <2>2
    <3>2. j - Len(s) = k - Len(s)
      BY <1>3, <3>1 DEF NoRepeat
    <3>. QED
      BY <1>2, <3>2
  <2>3. CASE j <= Len(s) /\ k > Len(s)
    <3>1. s[j] = t[k - Len(s)] /\ j \in DOMAIN s /\ k - Len(s) \in DOMAIN t
      BY <1>1, <1>2, <1>3, <2>3
    <3>. QED
      BY <1>3, <3>1 DEF Range
  <2>4. CASE j > Len(s) /\ k <= Len(s)
    <3>1. s[k] = t[j - Len(s)] /\ k \in DOMAIN s /\ j - Len(s) \in DOMAIN t
      BY <1>1, <1>2, <1>3, <2>4
    <3>. QED
      BY <1>3, <3>1 DEF Range
  <2>. QED
    BY <1>2, <2>1, <2>2, <2>3, <2>4
<1>4. Range(s \o t) = Range(s) \cup Range(t)
  BY RangeConcatenation
<1>. QED
  BY <1>1, <1>2, <1>3, <1>4 DEF NoRepeat

\* What is flattened holds what the pieces hold, once if they do not overlap.
LEMMA FlattenProperties ==
    ASSUME NEW T, NEW ss \in Seq(Seq(T))
    PROVE  /\ FlattenSeq(ss) \in Seq(T)
           /\ Range(FlattenSeq(ss)) = UNION {Range(ss[k]) : k \in DOMAIN ss}
           /\ /\ \A k \in DOMAIN ss : NoRepeat(ss[k])
              /\ \A j, k \in DOMAIN ss : j # k => Range(ss[j]) \cap Range(ss[k]) = {}
              => NoRepeat(FlattenSeq(ss))
<1>. DEFINE n == Len(ss)
            Apart == /\ \A k \in DOMAIN ss : NoRepeat(ss[k])
                     /\ \A j, k \in DOMAIN ss : j # k => Range(ss[j]) \cap Range(ss[k]) = {}
            Upper(i) == UNION {Range(ss[k]) : k \in 1..i}
            Right(s, i) == /\ s \in Seq(T)
                           /\ Range(s) = Upper(i)
                           /\ Apart => NoRepeat(s)
<1>1. n \in Nat /\ DOMAIN ss = 1..n
  BY LenProperties
<1>2. SUFFICES Right(FlattenSeq(ss), n)
  BY <1>1
<1>3. CASE n = 0
  <2>1. ss = <<>> /\ FlattenSeq(ss) = <<>>
    BY <1>3, EmptySeq DEF FlattenSeq
  <2>2. Range(<<>>) = {} /\ NoRepeat(<<>>) /\ Upper(0) = {} /\ <<>> \in Seq(T)
    BY EmptySeq DEF Range, NoRepeat
  <2>3. Right(<<>>, 0)
    <3>. HIDE DEF Upper, Apart
    <3>. QED
      BY <2>2
  <2>. QED
    BY <1>3, <2>1, <2>3
<1>4. CASE n # 0
  <2>1. PICK h : IsFlat(h, ss, n) /\ FlattenSeq(ss) = h[n]
    BY <1>1, <1>4, FlattenSteps
  <2>. DEFINE Bad == {i \in 1..n : ~Right(h[i], i)}
  <2>2. ASSUME Bad # {} PROVE FALSE
    <3>1. PICK i \in Bad : \A j \in Bad : i <= j
      <4>1. Bad \subseteq Nat
        OBVIOUS
      <4>. HIDE DEF Bad
      <4>. QED
        BY <2>2, <4>1, LeastNumber
    <3>2. i \in 1..n /\ ss[i] \in Seq(T)
      BY <1>1, ElementOfSeq
    <3>3. i # 1
      <4>1. h[1] = ss[1] /\ 1..1 = {1}
        BY <1>1, <1>4, <2>1 DEF IsFlat, FlatStep
      <4>2. Upper(1) = Range(ss[1])
        BY <4>1
      <4>3. Apart => NoRepeat(ss[1])
        BY <1>1, <1>4
      <4>4. i = 1 => Right(h[i], i)
        BY <3>2, <4>1, <4>2, <4>3
      <4>. QED
        BY <4>4
    <3>4. i - 1 \in 1..n /\ i - 1 \notin Bad
      <4>1. i - 1 \in 1..n /\ ~(i <= i - 1)
        BY <1>1, <3>2, <3>3
      <4>. HIDE DEF Bad
      <4>. QED
        BY <3>1, <4>1
    <3>5. Right(h[i - 1], i - 1)
      BY <3>4
    <3>6. h[i] = h[i - 1] \o ss[i]
      BY <2>1, <3>2, <3>3 DEF IsFlat, FlatStep
    <3>7. Upper(i) = Upper(i - 1) \cup Range(ss[i])
      <4>1. 1..i = 1..(i - 1) \cup {i}
        BY <1>1, <3>2
      <4>. QED
        BY <4>1
    <3>8. Apart => NoRepeat(ss[i]) /\ Upper(i - 1) \cap Range(ss[i]) = {}
      <4>1. \A k \in 1..(i - 1) : k \in 1..n /\ k # i
        BY <1>1, <3>2
      <4>. QED
        BY <1>1, <3>2, <4>1
    <3>9. Right(h[i], i)
      <4>. HIDE DEF Upper, Apart
      <4>. QED
        BY <3>2, <3>5, <3>6, <3>7, <3>8, ConcatParts
    <3>. QED
      BY <3>9
  <2>3. n \in 1..n
    BY <1>1, <1>4
  <2>4. Right(h[n], n)
    <3>. HIDE DEF Right
    <3>. QED
      BY <2>2, <2>3
  <2>. QED
    BY <2>1, <2>4
<1>. QED
  BY <1>3, <1>4
-----------------------------------------------------------------------------
(* Reading a directory batch by batch reads all of it.                      *)

Reach(d, k) == IF k * BatchSize < Len(Children[d]) THEN k * BatchSize ELSE Len(Children[d])

LEMMA Multiples ==
    ASSUME NEW k \in Nat
    PROVE  /\ k * BatchSize \in Nat
           /\ (k + 1) * BatchSize = k * BatchSize + BatchSize
           /\ k <= k * BatchSize
           /\ 0 * BatchSize = 0
<1>1. BatchSize \in Nat \ {0}
  BY TreeAssumption
<1>2. \A b \in Nat \ {0} : /\ k * b \in Nat
                           /\ (k + 1) * b = k * b + b
                           /\ k <= k * b
                           /\ 0 * b = 0
  OBVIOUS
<1>. QED
  BY <1>1, <1>2

LEMMA ChildrenAreEntries ==
    ASSUME NEW d \in Folder
    PROVE  /\ Children[d] \in Seq(Entry)
           /\ Len(Children[d]) \in Nat
           /\ DOMAIN Children[d] = 1..Len(Children[d])
<1>1. Children[d] \in Seq(Entry)
  BY TreeAssumption
<1>. QED
  BY <1>1, LenProperties

LEMMA BatchProperties ==
    ASSUME NEW d \in Folder, NEW k \in Nat
    PROVE  /\ Batch(d, k + 1) = SubSeq(Children[d], k * BatchSize + 1, Reach(d, k + 1))
           /\ Batch(d, k + 1) \in Seq(Entry)
           /\ Batch(d, k + 1) = <<>> <=> Len(Children[d]) <= k * BatchSize
<1>. DEFINE c == Children[d]
            low == k * BatchSize + 1
            high == Reach(d, k + 1)
<1>1. c \in Seq(Entry) /\ Len(c) \in Nat
  BY ChildrenAreEntries
<1>2. /\ low \in Nat \ {0} /\ high \in Nat /\ high <= Len(c)
      /\ low <= high <=> ~ (Len(c) <= k * BatchSize)
  <2>1. /\ k * BatchSize \in Nat
        /\ (k + 1) * BatchSize = k * BatchSize + BatchSize
    BY Multiples
  <2>2. BatchSize \in Nat \ {0}
    BY TreeAssumption
  <2>3. high = IF k * BatchSize + BatchSize < Len(c)
               THEN k * BatchSize + BatchSize ELSE Len(c)
    BY <2>1 DEF Reach
  <2>. HIDE DEF c, high
  <2>. QED
    BY <1>1, <2>1, <2>2, <2>3
<1>3. Batch(d, k + 1) = SubSeq(c, low, high)
  <2>1. (k + 1) - 1 = k
    OBVIOUS
  <2>. QED
    BY <2>1 DEF Batch, Reach
<1>4. \A i \in low..high : c[i] \in Entry
  BY <1>1, <1>2, ElementOfSeq
<1>5. /\ SubSeq(c, low, high) \in Seq(Entry)
      /\ Len(SubSeq(c, low, high)) = IF low <= high THEN high - low + 1 ELSE 0
  <2>. HIDE DEF low, high, c
  <2>. QED
    BY <1>2, <1>4, SubSeqProperties
<1>6. SubSeq(c, low, high) = <<>> <=> ~ (low <= high)
  <2>. HIDE DEF low, high, c
  <2>. QED
    BY <1>2, <1>5, EmptySeq
<1>. QED
  BY <1>2, <1>3, <1>5, <1>6

LEMMA ReadsAll == ASSUME NEW d \in Folder PROVE ReadAllEntries(d) = Children[d]
<1>. DEFINE c == Children[d]
            n == Len(c)
            End(k) == /\ Batch(d, k) = <<>>
                      /\ \A j \in 1..(k - 1) : Batch(d, j) # <<>>
            calls == CHOOSE k \in 1..(n + 1) : End(k)
            batches == [k \in 1..(calls - 1) |-> Batch(d, k)]
<1>1. c \in Seq(Entry) /\ n \in Nat
  BY ChildrenAreEntries
<1>2. calls \in 1..(n + 1) /\ End(calls)
  <2>. DEFINE Empty == {k \in 1..(n + 1) : Batch(d, k) = <<>>}
  <2>1. n + 1 \in Empty
    BY <1>1, BatchProperties, Multiples
  <2>2. PICK k \in Empty : \A j \in Empty : k <= j
    <3>1. Empty \subseteq Nat /\ Empty # {}
      BY <2>1
    <3>. HIDE DEF Empty
    <3>. QED
      BY <3>1, LeastNumber
  <2>3. k \in 1..(n + 1) /\ Batch(d, k) = <<>>
    OBVIOUS
  <2>4. ASSUME NEW j \in 1..(k - 1) PROVE Batch(d, j) # <<>>
    <3>1. j \in 1..(n + 1) /\ ~ (k <= j)
      BY <1>1, <2>3
    <3>. QED
      BY <2>2, <3>1
  <2>5. End(k)
    BY <2>3, <2>4
  <2>. HIDE DEF End
  <2>. QED
    BY <2>3, <2>5
<1>3. calls - 1 \in Nat /\ (calls - 1) + 1 = calls
  BY <1>1, <1>2
<1>4. n <= (calls - 1) * BatchSize
  <2>. HIDE DEF calls
  <2>. QED
    BY <1>2, <1>3, BatchProperties
<1>5. ReadAllEntries(d) = FlattenSeq(batches)
  BY DEF ReadAllEntries
<1>. HIDE DEF calls
<1>6. Len(batches) = calls - 1
  BY <1>3
<1>7. CASE calls = 1
  <2>1. n = 0 /\ c = <<>>
    <3>1. n <= 0 * BatchSize
      BY <1>4, <1>7
    <3>2. n = 0
      <4>1. 0 * BatchSize = 0
        BY Multiples
      <4>. QED
        BY <1>1, <3>1, <4>1
    <3>. QED
      BY <1>1, <3>2, EmptySeq
  <2>2. batches = <<>>
    BY <1>7
  <2>3. FlattenSeq(<<>>) = <<>>
    BY DEF FlattenSeq
  <2>. QED
    BY <1>5, <2>1, <2>2, <2>3
<1>8. CASE calls # 1
  <2>1. PICK h : IsFlat(h, batches, calls - 1) /\ FlattenSeq(batches) = h[calls - 1]
    <3>1. Len(batches) \in Nat \ {0}
      BY <1>3, <1>6, <1>8
    <3>. QED
      BY <1>6, <3>1, FlattenSteps
  <2>2. /\ h[1] = Batch(d, 1)
        /\ \A i \in 1..(calls - 1) : i # 1 => h[i] = h[i - 1] \o Batch(d, i)
    <3>1. \A i \in 1..(calls - 1) : h[i] = FlatStep(h, batches, i)
      BY <2>1 DEF IsFlat
    <3>2. 1 \in 1..(calls - 1) /\ batches[1] = Batch(d, 1)
      BY <1>3, <1>8
    <3>3. \A i \in 1..(calls - 1) : batches[i] = Batch(d, i)
      OBVIOUS
    <3>. HIDE DEF batches
    <3>. QED
      BY <3>1, <3>2, <3>3 DEF FlatStep
  <2>. DEFINE Short == {i \in 1..(calls - 1) : h[i] # SubSeq(c, 1, Reach(d, i))}
  <2>3. ASSUME Short # {} PROVE FALSE
    <3>1. PICK i \in Short : \A j \in Short : i <= j
      <4>1. Short \subseteq Nat
        OBVIOUS
      <4>. HIDE DEF Short
      <4>. QED
        BY <2>3, <4>1, LeastNumber
    <3>2. i \in 1..(calls - 1) /\ i - 1 \in Nat /\ (i - 1) + 1 = i
      BY <1>3
    <3>3. Batch(d, i) = SubSeq(c, (i - 1) * BatchSize + 1, Reach(d, i))
      BY <3>2, BatchProperties
    <3>4. i # 1
      <4>0. (1 - 1) * BatchSize + 1 = 1
        BY Multiples
      <4>1. i = 1 => h[i] = SubSeq(c, 1, Reach(d, i))
        BY <2>2, <3>3, <4>0
      <4>. QED
        BY <4>1
    <3>5. i - 1 \in 1..(calls - 1) /\ ~ (i <= i - 1)
      BY <1>3, <3>2, <3>4
    <3>6. h[i - 1] = SubSeq(c, 1, Reach(d, i - 1))
      BY <3>1, <3>5
    <3>7. Batch(d, i) # <<>>
      BY <1>2, <3>2
    <3>8. ~ (n <= (i - 1) * BatchSize)
      BY <3>2, <3>7, BatchProperties
    <3>9. /\ Reach(d, i - 1) = (i - 1) * BatchSize
          /\ Reach(d, i - 1) \in 0..n
          /\ Reach(d, i) \in Reach(d, i - 1)..n
      <4>1. /\ (i - 1) * BatchSize \in Nat
            /\ i * BatchSize = (i - 1) * BatchSize + BatchSize
        BY <3>2, Multiples
      <4>. QED
        BY <1>1, <3>8, <4>1, TreeAssumption DEF Reach
    <3>10. SubSeq(c, 1, Reach(d, i - 1)) \o SubSeq(c, Reach(d, i - 1) + 1, Reach(d, i))
              = SubSeq(c, 1, Reach(d, i))
      <4>1. 1 \in 1..(n + 1) /\ Reach(d, i - 1) \in (1 - 1)..n
        BY <1>1, <3>9
      <4>. HIDE DEF c
      <4>. QED
        BY <1>1, <3>9, <4>1, ConcatAdjacentSubSeq
    <3>11. h[i] = SubSeq(c, 1, Reach(d, i))
      BY <2>2, <3>2, <3>3, <3>4, <3>6, <3>9, <3>10
    <3>. QED
      BY <3>11
  <2>4. h[calls - 1] = SubSeq(c, 1, Reach(d, calls - 1))
    <3>1. calls - 1 \in 1..(calls - 1)
      BY <1>3, <1>8
    <3>. QED
      BY <2>3, <3>1
  <2>5. Reach(d, calls - 1) = n
    <3>1. (calls - 1) * BatchSize \in Nat
      BY <1>3, Multiples
    <3>. QED
      BY <1>1, <1>4, <3>1 DEF Reach
  <2>. QED
    BY <1>1, <1>5, <2>1, <2>4, <2>5, SubSeqFull
<1>. QED
  BY <1>7, <1>8
-----------------------------------------------------------------------------
(* The walk of a dropped folder.  WalkEntry is recursive too: that such a   *)
(* function exists follows from the depth of the forest.                    *)

Depth == CHOOSE depth \in [Entry -> 0..Cardinality(Entry)] :
            \A d \in Folder : \A k \in DOMAIN Children[d] :
                depth[Children[d][k]] = depth[d] + 1

Height(e) == Cardinality(Entry) - Depth[e]

WalkStep(w, e) ==
    IF e \in File
    THEN [ok |-> TRUE, files |-> IF e \in Unreadable THEN <<>> ELSE <<e>>]
    ELSE LET children == ReadAllEntries(e)
         IN  IF e \in Unreadable \/ \E k \in DOMAIN children : ~w[children[k]].ok
             THEN [ok |-> FALSE, files |-> <<>>]
             ELSE [ok |-> TRUE,
                   files |-> FlattenSeq([k \in DOMAIN children |->
                                            w[children[k]].files])]

LEMMA DepthProperties ==
    /\ Depth \in [Entry -> Nat]
    /\ \A d \in Folder : \A k \in DOMAIN Children[d] :
          /\ Children[d][k] \in Entry
          /\ Depth[Children[d][k]] = Depth[d] + 1
          /\ Height(Children[d][k]) + 1 = Height(d)
    /\ \A e \in Entry : Height(e) \in 0..Cardinality(Entry)
    /\ Cardinality(Entry) \in Nat
<1>1. Cardinality(Entry) \in Nat
  BY TreeAssumption, FS_CardinalityType
<1>2. /\ Depth \in [Entry -> 0..Cardinality(Entry)]
      /\ \A d \in Folder : \A k \in DOMAIN Children[d] :
            Depth[Children[d][k]] = Depth[d] + 1
  BY TreeAssumption DEF Depth
<1>3. \A d \in Folder : d \in Entry /\ \A k \in DOMAIN Children[d] : Children[d][k] \in Entry
  BY ChildrenAreEntries, ElementOfSeq DEF Entry
<1>4. \A e \in Entry : Depth[e] \in 0..Cardinality(Entry) /\ Depth[e] \in Nat
  BY <1>1, <1>2
<1>5. \A e \in Entry : Height(e) \in 0..Cardinality(Entry)
  BY <1>1, <1>4 DEF Height
<1>6. ASSUME NEW d \in Folder, NEW k \in DOMAIN Children[d]
      PROVE  Height(Children[d][k]) + 1 = Height(d)
  BY <1>1, <1>2, <1>3, <1>4 DEF Height
<1>. QED
  BY <1>1, <1>2, <1>3, <1>4, <1>5, <1>6

\* One step of the walk looks at the walks of the children, and at no others.
LEMMA WalkStepAgrees ==
    ASSUME NEW v, NEW w, NEW e \in Entry,
           e \in Folder => \A k \in DOMAIN Children[e] : v[Children[e][k]] = w[Children[e][k]]
    PROVE  WalkStep(v, e) = WalkStep(w, e)
<1>1. CASE e \in File
  BY <1>1 DEF WalkStep
<1>2. CASE e \notin File
  <2>1. e \in Folder /\ ReadAllEntries(e) = Children[e]
    BY <1>2, ReadsAll DEF Entry
  <2>2. [k \in DOMAIN Children[e] |-> v[Children[e][k]].files]
          = [k \in DOMAIN Children[e] |-> w[Children[e][k]].files]
    BY <2>1
  <2>3. (\E k \in DOMAIN Children[e] : ~v[Children[e][k]].ok)
          <=> \E k \in DOMAIN Children[e] : ~w[Children[e][k]].ok
    BY <2>1
  <2>. QED
    BY <1>2, <2>1, <2>2, <2>3 DEF WalkStep
<1>. QED
  BY <1>1, <1>2

LEMMA WalkExists == \E w : w = [e \in Entry |-> WalkStep(w, e)]
<1>. DEFINE Walks(w, m) == /\ w = [e \in Entry |-> w[e]]
                           /\ \A e \in Entry : Height(e) < m => w[e] = WalkStep(w, e)
            Bad == {m \in Nat : ~ \E w : Walks(w, m)}
<1>1. ASSUME Bad # {} PROVE FALSE
  <2>1. PICK m \in Bad : \A j \in Bad : m <= j
    <3>1. Bad \subseteq Nat
      OBVIOUS
    <3>. HIDE DEF Bad
    <3>. QED
      BY <1>1, <3>1, LeastNumber
  <2>2. m # 0
    <3>1. \A e \in Entry : ~ (Height(e) < 0)
      BY DepthProperties
    <3>2. Walks([e \in Entry |-> {}], 0)
      BY <3>1
    <3>. QED
      BY <3>2
  <2>3. PICK w : Walks(w, m - 1)
    <3>1. m - 1 \in Nat /\ ~ (m <= m - 1)
      BY <2>2
    <3>2. m - 1 \notin Bad
      BY <2>1, <3>1
    <3>. HIDE DEF Walks
    <3>. QED
      BY <3>1, <3>2
  <2>. DEFINE v == [e \in Entry |-> IF Height(e) = m - 1 THEN WalkStep(w, e) ELSE w[e]]
  <2>4. \A e \in Entry : Height(e) \in Nat
    BY DepthProperties
  <2>5. ASSUME NEW e \in Entry, Height(e) < m PROVE v[e] = WalkStep(v, e)
    <3>1. ASSUME e \in Folder, NEW k \in DOMAIN Children[e]
          PROVE  v[Children[e][k]] = w[Children[e][k]]
      <4>1. /\ Children[e][k] \in Entry
            /\ Height(Children[e][k]) + 1 = Height(e)
        BY <3>1, DepthProperties
      <4>2. Height(Children[e][k]) # m - 1
        BY <2>4, <2>5, <4>1
      <4>. QED
        BY <4>1, <4>2
    <3>2. WalkStep(v, e) = WalkStep(w, e)
      <4>. HIDE DEF v
      <4>. QED
        BY <3>1, WalkStepAgrees
    <3>3. CASE Height(e) = m - 1
      BY <3>2, <3>3
    <3>4. CASE Height(e) # m - 1
      <4>1. Height(e) < m - 1
        BY <2>4, <2>5, <3>4
      <4>2. w[e] = WalkStep(w, e)
        BY <2>3, <4>1
      <4>. QED
        BY <3>2, <3>4, <4>2
    <3>. QED
      BY <3>3, <3>4
  <2>6. v = [e \in Entry |-> v[e]]
    OBVIOUS
  <2>7. Walks(v, m)
    <3>. HIDE DEF v
    <3>. QED
      BY <2>5, <2>6
  <2>. QED
    BY <2>7
<1>2. PICK w : Walks(w, Cardinality(Entry) + 1)
  <2>1. Cardinality(Entry) + 1 \in Nat
    BY DepthProperties
  <2>. HIDE DEF Walks
  <2>. QED
    BY <1>1, <2>1
<1>3. \A e \in Entry : Height(e) < Cardinality(Entry) + 1
  BY DepthProperties
<1>. QED
  BY <1>2, <1>3

LEMMA WalkUnfolds == \A e \in Entry : WalkEntry[e] = WalkStep(WalkEntry, e)
<1>. DEFINE w == CHOOSE w : w = [e \in Entry |-> WalkStep(w, e)]
<1>1. w = [e \in Entry |-> WalkStep(w, e)]
  BY WalkExists
<1>2. WalkEntry = w
  BY DEF WalkEntry, WalkStep
<1>. HIDE DEF w
<1>. QED
  BY <1>1, <1>2
Files(e) == WalkEntry[e].files
Pieces(d) == [k \in DOMAIN Children[d] |-> Files(Children[d][k])]

LEMMA WalkOfFile ==
    ASSUME NEW e \in File
    PROVE  /\ e \in Unreadable => WalkEntry[e] = [ok |-> TRUE, files |-> <<>>]
           /\ e \notin Unreadable => WalkEntry[e] = [ok |-> TRUE, files |-> <<e>>]
<1>1. e \in Entry
  BY DEF Entry
<1>. QED
  BY <1>1, WalkUnfolds DEF WalkStep

LEMMA WalkOfFolder ==
    ASSUME NEW d \in Folder
    PROVE  \/ WalkEntry[d] = [ok |-> FALSE, files |-> <<>>]
           \/ /\ WalkEntry[d] = [ok |-> TRUE, files |-> FlattenSeq(Pieces(d))]
              /\ \A k \in DOMAIN Children[d] : WalkEntry[Children[d][k]].ok
<1>1. d \in Entry /\ d \notin File
  BY TreeAssumption DEF Entry
<1>2. ReadAllEntries(d) = Children[d]
  BY ReadsAll
<1>. QED
  BY <1>1, <1>2, WalkUnfolds DEF WalkStep, Pieces, Files

LEMMA EmptyAndSingle ==
    /\ Range(<<>>) = {} /\ NoRepeat(<<>>)
    /\ \A x : Range(<<x>>) = {x} /\ NoRepeat(<<x>>)
    /\ \A T : <<>> \in Seq(T) /\ \A x \in T : <<x>> \in Seq(T)
BY EmptySeq DEF Range, NoRepeat

LEMMA WalkRecords ==
    /\ \A b \in BOOLEAN : \A s \in Seq(File) :
          [ok |-> b, files |-> s] \in [ok : BOOLEAN, files : Seq(File)]
    /\ \A r, b, s : r = [ok |-> b, files |-> s] => r.ok = b /\ r.files = s
OBVIOUS

LEMMA WalkType == \A e \in Entry : WalkEntry[e] \in [ok : BOOLEAN, files : Seq(File)]
<1>. DEFINE Typed == {e \in Entry : WalkEntry[e] \in [ok : BOOLEAN, files : Seq(File)]}
<1>1. ASSUME NEW e \in Entry,
             e \in Folder => \A k \in DOMAIN Children[e] : Children[e][k] \in Typed
      PROVE  e \in Typed
  <2>1. CASE e \in File
    <3>1. <<>> \in Seq(File) /\ <<e>> \in Seq(File)
      BY <2>1, EmptyAndSingle
    <3>2. \/ WalkEntry[e] = [ok |-> TRUE, files |-> <<>>]
          \/ WalkEntry[e] = [ok |-> TRUE, files |-> <<e>>]
      BY <2>1, WalkOfFile
    <3>. QED
      BY <3>1, <3>2, WalkRecords, Zenon
  <2>2. CASE e \in Folder
    <3>1. Children[e] \in Seq(Entry) /\ DOMAIN Children[e] = 1..Len(Children[e])
          /\ Len(Children[e]) \in Nat
      BY <2>2, ChildrenAreEntries
    <3>2. \A k \in DOMAIN Children[e] : Files(Children[e][k]) \in Seq(File)
      BY <1>1, <2>2 DEF Files
    <3>3. Pieces(e) \in Seq(Seq(File))
      BY <3>1, <3>2 DEF Pieces
    <3>4. FlattenSeq(Pieces(e)) \in Seq(File)
      BY <3>3, FlattenProperties
    <3>5. <<>> \in Seq(File)
      BY EmptyAndSingle
    <3>6. \/ WalkEntry[e] = [ok |-> FALSE, files |-> <<>>]
          \/ WalkEntry[e] = [ok |-> TRUE, files |-> FlattenSeq(Pieces(e))]
      BY <2>2, WalkOfFolder
    <3>. QED
      BY <3>4, <3>5, <3>6, WalkRecords, Zenon
  <2>. QED
    BY <2>1, <2>2 DEF Entry
<1>2. Typed \in SUBSET Entry
  OBVIOUS
<1>3. Typed = Entry
  <2>. HIDE DEF Typed
  <2>. QED
    BY <1>1, <1>2, TreeInduction
<1>. QED
  BY <1>3

LEMMA PiecesType == \A d \in Folder : Pieces(d) \in Seq(Seq(File))
<1>. SUFFICES ASSUME NEW d \in Folder PROVE Pieces(d) \in Seq(Seq(File))
  OBVIOUS
<1>1. DOMAIN Children[d] = 1..Len(Children[d]) /\ Len(Children[d]) \in Nat
  BY ChildrenAreEntries
<1>2. \A k \in DOMAIN Children[d] : Files(Children[d][k]) \in Seq(File)
  BY DepthProperties, WalkType DEF Files
<1>. QED
  BY <1>1, <1>2 DEF Pieces

\* The files of a directory that could be walked are those of what it holds.
LEMMA FilesOfFolder ==
    ASSUME NEW d \in Folder
    PROVE  /\ WalkEntry[d].ok =>
                /\ \A k \in DOMAIN Children[d] : WalkEntry[Children[d][k]].ok
                /\ Files(d) = FlattenSeq(Pieces(d))
                /\ Range(Files(d)) = UNION {Range(Files(Children[d][k])) : k \in DOMAIN Children[d]}
           /\ ~WalkEntry[d].ok => Files(d) = <<>>
           /\ \A f \in Range(Files(d)) :
                \E k \in DOMAIN Children[d] : f \in Range(Files(Children[d][k]))
<1>1. /\ DOMAIN Pieces(d) = DOMAIN Children[d]
      /\ \A k \in DOMAIN Children[d] : Pieces(d)[k] = Files(Children[d][k])
  BY DEF Pieces
<1>2. Range(FlattenSeq(Pieces(d))) = UNION {Range(Pieces(d)[k]) : k \in DOMAIN Pieces(d)}
  BY PiecesType, FlattenProperties
<1>3. Range(FlattenSeq(Pieces(d)))
        = UNION {Range(Files(Children[d][k])) : k \in DOMAIN Children[d]}
  BY <1>1, <1>2
<1>4. CASE /\ WalkEntry[d] = [ok |-> TRUE, files |-> FlattenSeq(Pieces(d))]
           /\ \A k \in DOMAIN Children[d] : WalkEntry[Children[d][k]].ok
  <2>1. Files(d) = FlattenSeq(Pieces(d)) /\ WalkEntry[d].ok
    BY <1>4 DEF Files
  <2>. QED
    BY <1>3, <1>4, <2>1
<1>5. CASE WalkEntry[d] = [ok |-> FALSE, files |-> <<>>]
  <2>1. Files(d) = <<>> /\ ~WalkEntry[d].ok
    BY <1>5 DEF Files
  <2>. QED
    BY <2>1, EmptyAndSingle
<1>. QED
  BY <1>4, <1>5, WalkOfFolder

LEMMA FilesOfFile ==
    ASSUME NEW e \in File
    PROVE  /\ NoRepeat(Files(e))
           /\ Range(Files(e)) = {e} \ Unreadable
           /\ WalkEntry[e].ok
<1>1. /\ e \in Unreadable => Files(e) = <<>>
      /\ e \notin Unreadable => Files(e) = <<e>>
      /\ WalkEntry[e].ok
  <2>1. CASE e \in Unreadable
    <3>1. WalkEntry[e] = [ok |-> TRUE, files |-> <<>>]
      BY <2>1, WalkOfFile
    <3>2. WalkEntry[e].files = <<>> /\ WalkEntry[e].ok = TRUE
      BY <3>1, WalkRecords, Zenon
    <3>. QED
      BY <2>1, <3>2 DEF Files
  <2>2. CASE e \notin Unreadable
    <3>1. WalkEntry[e] = [ok |-> TRUE, files |-> <<e>>]
      BY <2>2, WalkOfFile
    <3>2. WalkEntry[e].files = <<e>> /\ WalkEntry[e].ok = TRUE
      BY <3>1, WalkRecords, Zenon
    <3>. QED
      BY <2>2, <3>2 DEF Files
  <2>. QED
    BY <2>1, <2>2
<1>. QED
  BY <1>1, EmptyAndSingle

\* A walk goes down.
LEMMA WalkGoesDown ==
    \A e \in Entry : \A f \in Range(Files(e)) :
        f \in File /\ Depth[e] <= Depth[f] /\ (e \in Folder => Depth[e] < Depth[f])
<1>. DEFINE Down == {e \in Entry : \A f \in Range(Files(e)) :
                f \in File /\ Depth[e] <= Depth[f] /\ (e \in Folder => Depth[e] < Depth[f])}
<1>1. ASSUME NEW e \in Entry,
             e \in Folder => \A k \in DOMAIN Children[e] : Children[e][k] \in Down
      PROVE  e \in Down
  <2>1. CASE e \in File
    <3>1. e \notin Folder /\ Depth[e] \in Nat
      BY <2>1, TreeAssumption, DepthProperties
    <3>. QED
      BY <2>1, <3>1, FilesOfFile
  <2>2. CASE e \in Folder
    <3>. SUFFICES ASSUME NEW f \in Range(Files(e))
                  PROVE  f \in File /\ Depth[e] <= Depth[f] /\ Depth[e] < Depth[f]
      OBVIOUS
    <3>1. PICK k \in DOMAIN Children[e] : f \in Range(Files(Children[e][k]))
      BY <2>2, FilesOfFolder
    <3>2. f \in File /\ Depth[Children[e][k]] <= Depth[f]
      BY <1>1, <2>2, <3>1
    <3>3. Depth[Children[e][k]] = Depth[e] + 1 /\ Depth[e] \in Nat /\ Depth[f] \in Nat
      BY <2>2, <3>2, DepthProperties DEF Entry
    <3>. QED
      BY <3>2, <3>3
  <2>. QED
    BY <2>1, <2>2 DEF Entry
<1>2. Down \in SUBSET Entry
  OBVIOUS
<1>3. Down = Entry
  <2>. HIDE DEF Down
  <2>. QED
    BY <1>1, <1>2, TreeInduction
<1>. QED
  BY <1>3

\* What is below one entry is below no other of the same depth.
LEMMA WalksAreApart ==
    \A e, d \in Entry :
        Depth[e] = Depth[d] /\ e # d => Range(Files(e)) \cap Range(Files(d)) = {}
<1>. DEFINE Apart == {e \in Entry : \A d \in Entry :
        Depth[e] = Depth[d] /\ e # d => Range(Files(e)) \cap Range(Files(d)) = {}}
<1>1. ASSUME NEW e \in Entry,
             e \in Folder => \A k \in DOMAIN Children[e] : Children[e][k] \in Apart
      PROVE  e \in Apart
  <2>. SUFFICES ASSUME NEW d \in Entry, Depth[e] = Depth[d],
                       NEW f \in Range(Files(e)), f \in Range(Files(d))
                PROVE  e = d
    OBVIOUS
  <2>1. /\ f \in File /\ Depth[f] \in Nat /\ Depth[e] \in Nat
        /\ e \in Folder => Depth[e] < Depth[f]
        /\ d \in Folder => Depth[d] < Depth[f]
    BY WalkGoesDown, DepthProperties DEF Entry
  <2>2. CASE e \in File
    <3>1. f = e /\ d \notin Folder
      BY <2>1, <2>2, FilesOfFile
    <3>2. d \in File
      BY <3>1 DEF Entry
    <3>. QED
      BY <3>1, <3>2, FilesOfFile
  <2>3. CASE e \in Folder
    <3>1. d \in Folder
      <4>1. d \in File => f = d
        BY FilesOfFile
      <4>. QED
        BY <2>1, <2>3, <4>1 DEF Entry
    <3>2. PICK j \in DOMAIN Children[e] : f \in Range(Files(Children[e][j]))
      BY <2>3, FilesOfFolder
    <3>3. PICK k \in DOMAIN Children[d] : f \in Range(Files(Children[d][k]))
      BY <3>1, FilesOfFolder
    <3>4. Depth[Children[e][j]] = Depth[Children[d][k]] /\ Children[d][k] \in Entry
      BY <2>3, <3>1, DepthProperties
    <3>5. Children[e][j] = Children[d][k]
      BY <1>1, <2>3, <3>2, <3>3, <3>4
    <3>. QED
      BY <2>3, <3>1, <3>5, TreeAssumption
  <2>. QED
    BY <2>2, <2>3 DEF Entry
<1>2. Apart \in SUBSET Entry
  OBVIOUS
<1>3. Apart = Entry
  <2>. HIDE DEF Apart
  <2>. QED
    BY <1>1, <1>2, TreeInduction
<1>. QED
  BY <1>3

\* A drop adds a file once.
LEMMA WalkAddsOnce == \A e \in Entry : NoRepeat(Files(e))
<1>. DEFINE Once == {e \in Entry : NoRepeat(Files(e))}
<1>1. ASSUME NEW e \in Entry,
             e \in Folder => \A k \in DOMAIN Children[e] : Children[e][k] \in Once
      PROVE  e \in Once
  <2>1. CASE e \in File
    BY <2>1, FilesOfFile
  <2>2. CASE e \in Folder
    <3>1. /\ DOMAIN Pieces(e) = DOMAIN Children[e]
          /\ \A k \in DOMAIN Children[e] : Pieces(e)[k] = Files(Children[e][k])
      BY DEF Pieces
    <3>2. \A k \in DOMAIN Pieces(e) : NoRepeat(Pieces(e)[k])
      BY <1>1, <2>2, <3>1
    <3>3. ASSUME NEW j \in DOMAIN Pieces(e), NEW k \in DOMAIN Pieces(e), j # k
          PROVE  Range(Pieces(e)[j]) \cap Range(Pieces(e)[k]) = {}
      <4>1. Children[e][j] # Children[e][k]
        BY <2>2, <3>1, <3>3, TreeAssumption
      <4>2. /\ Children[e][j] \in Entry /\ Children[e][k] \in Entry
            /\ Depth[Children[e][j]] = Depth[Children[e][k]]
        BY <2>2, <3>1, <3>3, DepthProperties
      <4>. QED
        BY <3>1, <3>3, <4>1, <4>2, WalksAreApart
    <3>4. NoRepeat(FlattenSeq(Pieces(e)))
      BY <2>2, <3>2, <3>3, PiecesType, FlattenProperties
    <3>. QED
      BY <2>2, <3>4, FilesOfFolder, EmptyAndSingle
  <2>. QED
    BY <2>1, <2>2 DEF Entry
<1>2. Once \in SUBSET Entry
  OBVIOUS
<1>3. Once = Entry
  <2>. HIDE DEF Once
  <2>. QED
    BY <1>1, <1>2, TreeInduction
<1>. QED
  BY <1>3

\* A drop takes all readable files of a directory, and of those in it.
LEMMA WalkTakesAll ==
    ASSUME NEW d \in Folder, WalkEntry[d].ok
    PROVE  /\ \A f \in (Range(Children[d]) \cap File) \ Unreadable : f \in Range(Files(d))
           /\ \A e \in Range(Children[d]) :
                Range(Files(e)) \subseteq Range(Files(d)) /\ WalkEntry[e].ok
<1>1. \A e \in Range(Children[d]) :
          Range(Files(e)) \subseteq Range(Files(d)) /\ WalkEntry[e].ok
  <2>. SUFFICES ASSUME NEW e \in Range(Children[d])
                PROVE  Range(Files(e)) \subseteq Range(Files(d)) /\ WalkEntry[e].ok
    OBVIOUS
  <2>1. PICK k \in DOMAIN Children[d] : e = Children[d][k]
    BY DEF Range
  <2>. QED
    BY <2>1, FilesOfFolder
<1>. QED
  BY <1>1, FilesOfFile
-----------------------------------------------------------------------------
(* The types.                                                              *)

TypeInv == TypeOK /\ Len(uploads) <= MaxStarts

\* The selected org is one of the selected system, before anything is sent.
DestInv ==
    /\ systemId = NULL => orgs = {} /\ orgReq = {} /\ orgId = NULL
    /\ ~mispicked /\ orgId # NULL => orgId \in OrgsOf[systemId]
    /\ OrgOfSystem

RowsDiffer == \A i, j \in DOMAIN items : items[i].file = items[j].file => i = j

WalkIsNew ==
    \A d \in walks : walks = {d} /\ Taken \cap Range(WalkEntry[d].files) = {}

\* What the server has was sent by this page.
CopiesWereSent ==
    /\ \A f \in File : copies[f] > 0 => \E n \in DOMAIN uploads : uploads[n].file = f
    /\ \A n \in DOMAIN uploads : uploads[n].phase = "published" => copies[uploads[n].file] > 0
    /\ \A n \in DOMAIN uploads : uploads[n].phase = "unfinalised" => uploads[n].file \in unfinalised

\* A running upload still finds its row at the index it was started with.
IndexFinds ==
    \A n \in Sent : /\ uploads[n].index \in DOMAIN items
                    /\ items[uploads[n].index].file = uploads[n].file

\* A file that was sent once: it is being sent (perhaps it has been, and has to be
\* published yet), or it is published and its upload about to say so, or its row
\* says so.
Unpublished == {"sending", "unfinalised"}

SentOnce(f) ==
    /\ copies[f] <= 1
    /\ \A m, n \in Sent : uploads[m].file = f /\ uploads[n].file = f => m = n
    /\ \A n \in DOMAIN uploads :
          uploads[n].file = f /\ uploads[n].phase \in Unpublished => copies[f] = 0
    /\ copies[f] > 0 /\ ~Running(f) =>
          \A i \in DOMAIN items : items[i].file = f => items[i].state = "success"

\* What holds whatever rows are cleared, and what holds while none is cleared
\* under a running upload.
SteadyInv == RowsDiffer /\ WalkIsNew /\ CopiesWereSent

\* A file the page may call done.
Stored(f) == copies[f] > 0 \/ f \in unfinalised

UnshiftedInv ==
    /\ IndexFinds
    /\ \A i \in RowsIn("success") : Stored(items[i].file)
    /\ \A f \in File \ (again \cup unanswered) : SentOnce(f)

QueueInv == SteadyInv /\ (~shifted => UnshiftedInv)

-----------------------------------------------------------------------------
(* What the handlers do to the queue and to the uploads.                    *)

RowState == {"queued", "uploading", "success", "error"}
RowType == [file : File, state : RowState]
LiveUpload == [file : File, index : Nat \ {0}, system : System,
               org : Org \cup {NULL}, phase : LivePhase]
DoneUpload == [file : File, phase : {"done"}]
UploadType == LiveUpload \cup DoneUpload

LEMMA RowsTyped ==
    ASSUME TypeOK
    PROVE  /\ items \in Seq(RowType)
           /\ Len(items) \in Nat /\ DOMAIN items = 1..Len(items)
           /\ \A i \in DOMAIN items :
                items[i] \in RowType /\ items[i].file \in File /\ items[i].state \in RowState
<1>1. items \in Seq(RowType)
  BY DEF TypeOK, RowType, RowState
<1>2. Len(items) \in Nat /\ DOMAIN items = 1..Len(items)
  BY <1>1, LenProperties
<1>3. \A i \in DOMAIN items : items[i] \in RowType
  BY <1>1, <1>2, ElementOfSeq
<1>. QED
  BY <1>1, <1>2, <1>3 DEF RowType

LEMMA UploadTyped ==
    ASSUME NEW u \in UploadType
    PROVE  /\ u.file \in File /\ u.phase \in LivePhase \cup {"done"}
           /\ Live(u) => u \in LiveUpload
           /\ u \in LiveUpload => /\ Live(u) /\ u.index \in Nat \ {0} /\ u.system \in System
                                  /\ u.org \in Org \cup {NULL}
BY DEF UploadType, LiveUpload, DoneUpload, Live, LivePhase

LEMMA UploadsTyped ==
    ASSUME TypeOK
    PROVE  /\ uploads \in Seq(UploadType)
           /\ Len(uploads) \in Nat /\ DOMAIN uploads = 1..Len(uploads)
           /\ \A n \in DOMAIN uploads :
                uploads[n] \in UploadType /\ uploads[n].file \in File
<1>1. uploads \in Seq(UploadType)
  BY DEF TypeOK, UploadType, LiveUpload, DoneUpload
<1>2. Len(uploads) \in Nat /\ DOMAIN uploads = 1..Len(uploads)
  BY <1>1, LenProperties
<1>3. \A n \in DOMAIN uploads : uploads[n] \in UploadType
  BY <1>1, <1>2, ElementOfSeq
<1>. QED
  BY <1>1, <1>2, <1>3, UploadTyped

LEMMA RowSets ==
    ASSUME TypeOK, NEW S \in SUBSET DOMAIN items
    PROVE  IsFiniteSet(S) /\ S \in SUBSET (Nat \ {0}) /\ Cardinality(S) \in Nat
<1>1. IsFiniteSet(DOMAIN items) /\ DOMAIN items \subseteq Nat \ {0}
  <2>1. DOMAIN items = 1..Len(items) /\ Len(items) \in Nat
    BY RowsTyped
  <2>2. IsFiniteSet(1..Len(items))
    BY <2>1, FS_Interval
  <2>. QED
    BY <2>1, <2>2
<1>. QED
  BY <1>1, FS_Subset, FS_CardinalityType

LEMMA ClosureTyped ==
    ASSUME TypeOK, systemId # NULL, NEW i \in DOMAIN items
    PROVE  /\ Closure(i) \in LiveUpload
           /\ Closure(i).file = items[i].file /\ Closure(i).index = i
           /\ Closure(i).phase = "sending"
           /\ Closure(i).org = orgId /\ Closure(i).system = systemId
<1>1. items[i].file \in File /\ i \in Nat \ {0}
  BY RowsTyped
<1>2. systemId \in System /\ orgId \in Org \cup {NULL}
  BY DEF TypeOK
<1>. QED
  BY <1>1, <1>2 DEF Closure, LiveUpload, LivePhase

\* uploadOne for the rows of S adds one upload for each and leaves the others.
LEMMA RowsAreUploaded ==
    ASSUME TypeOK, systemId # NULL, NEW S \in SUBSET DOMAIN items, UploadRows(S)
    PROVE  /\ uploads' \in Seq(UploadType) /\ Len(uploads') <= MaxStarts
           /\ DOMAIN uploads \subseteq DOMAIN uploads'
           /\ \A n \in DOMAIN uploads : uploads'[n] = uploads[n]
           /\ \A n \in DOMAIN uploads' \ DOMAIN uploads : \E i \in S : uploads'[n] = Closure(i)
           /\ \A m, n \in DOMAIN uploads' \ DOMAIN uploads :
                uploads'[m].index = uploads'[n].index => m = n
           /\ \A i \in S : \E n \in DOMAIN uploads' \ DOMAIN uploads : uploads'[n] = Closure(i)
<1>. DEFINE c == Cardinality(S)
            new == [k \in 1..c |-> Closure(Nth(S, k))]
            l == Len(uploads)
<1>1. /\ c \in Nat
      /\ \A k \in 1..c : Nth(S, k) \in S
      /\ \A i \in S : \E k \in 1..c : Nth(S, k) = i
      /\ \A j, k \in 1..c : Nth(S, j) = Nth(S, k) => j = k
  BY RowSets, NthProperties
<1>2. uploads \in Seq(UploadType) /\ l \in Nat /\ DOMAIN uploads = 1..l
  BY UploadsTyped
<1>3. \A k \in 1..c : Closure(Nth(S, k)) \in UploadType /\ Closure(Nth(S, k)).index = Nth(S, k)
  BY <1>1, ClosureTyped DEF UploadType
<1>4. new \in Seq(UploadType) /\ Len(new) = c
  BY <1>1, <1>3
<1>5. uploads' = uploads \o new /\ l + c <= MaxStarts
  BY DEF UploadRows
<1>. HIDE DEF new
<1>6. /\ uploads' \in Seq(UploadType) /\ Len(uploads') = l + c
      /\ DOMAIN uploads' = 1..(l + c)
      /\ \A n \in 1..(l + c) : uploads'[n] = IF n <= l THEN uploads[n] ELSE new[n - l]
  <2>1. /\ uploads \o new \in Seq(UploadType)
        /\ Len(uploads \o new) = Len(uploads) + Len(new)
        /\ \A n \in 1..(Len(uploads) + Len(new)) :
              (uploads \o new)[n] = IF n <= Len(uploads) THEN uploads[n]
                                    ELSE new[n - Len(uploads)]
    BY <1>2, <1>4, ConcatProperties
  <2>2. DOMAIN uploads' = 1..Len(uploads')
    BY <1>5, <2>1, LenProperties
  <2>. QED
    BY <1>4, <1>5, <2>1, <2>2
<1>7. /\ DOMAIN uploads \subseteq DOMAIN uploads'
      /\ \A n \in DOMAIN uploads : uploads'[n] = uploads[n]
  BY <1>1, <1>2, <1>6
<1>8. \A k \in 1..c : /\ l + k \in DOMAIN uploads' \ DOMAIN uploads
                      /\ uploads'[l + k] = Closure(Nth(S, k))
  <2>1. \A k \in 1..c : l + k \in 1..(l + c) /\ ~ (l + k <= l) /\ (l + k) - l = k
    BY <1>1, <1>2
  <2>2. \A k \in 1..c : new[k] = Closure(Nth(S, k))
    BY DEF new
  <2>. HIDE DEF c, l
  <2>. QED
    BY <1>2, <1>6, <2>1, <2>2
<1>9. \A n \in DOMAIN uploads' \ DOMAIN uploads : \E k \in 1..c : n = l + k
  <2>1. \A n \in DOMAIN uploads' \ DOMAIN uploads : n - l \in 1..c /\ n = l + (n - l)
    BY <1>1, <1>2, <1>6
  <2>. QED
    BY <2>1
<1>. HIDE DEF c, l
<1>10. \A n \in DOMAIN uploads' \ DOMAIN uploads : \E i \in S : uploads'[n] = Closure(i)
  BY <1>1, <1>8, <1>9
<1>11. ASSUME NEW m \in DOMAIN uploads' \ DOMAIN uploads,
              NEW n \in DOMAIN uploads' \ DOMAIN uploads,
              uploads'[m].index = uploads'[n].index
       PROVE  m = n
  <2>1. PICK j \in 1..c : m = l + j
    BY <1>9
  <2>2. PICK k \in 1..c : n = l + k
    BY <1>9
  <2>3. Nth(S, j) = Nth(S, k)
    BY <1>3, <1>8, <1>11, <2>1, <2>2
  <2>. QED
    BY <1>1, <2>1, <2>2, <2>3
<1>12. \A i \in S : \E n \in DOMAIN uploads' \ DOMAIN uploads : uploads'[n] = Closure(i)
  BY <1>1, <1>8
<1>. QED
  BY <1>5, <1>6, <1>7, <1>10, <1>11, <1>12 DEF c, l

\* Removing rows keeps the others in order, and where nothing above is removed
\* at their place.
LEMMA RowsAreKept ==
    ASSUME TypeOK, NEW S \in SUBSET DOMAIN items, KeepRows(S)
    PROVE  /\ items' \in Seq(RowType)
           /\ \A k \in DOMAIN items' : Nth(S, k) \in DOMAIN items /\ items'[k] = items[Nth(S, k)]
           /\ \A j, k \in DOMAIN items' : Nth(S, j) = Nth(S, k) => j = k
           /\ \A k \in DOMAIN items : 1..k \subseteq S => k \in DOMAIN items' /\ items'[k] = items[k]
<1>. DEFINE c == Cardinality(S)
<1>1. /\ c \in Nat
      /\ \A k \in 1..c : Nth(S, k) \in S
      /\ \A j, k \in 1..c : Nth(S, j) = Nth(S, k) => j = k
      /\ \A k \in Nat \ {0} : 1..k \subseteq S => k <= c /\ Nth(S, k) = k
  BY RowSets, NthProperties
<1>2. items' = [k \in 1..c |-> items[Nth(S, k)]]
  BY DEF KeepRows
<1>. HIDE DEF c
<1>3. \A k \in 1..c : items[Nth(S, k)] \in RowType
  BY <1>1, RowsTyped
<1>4. items' \in Seq(RowType) /\ DOMAIN items' = 1..c
  BY <1>1, <1>2, <1>3
<1>5. \A k \in DOMAIN items : k \in Nat \ {0}
  BY RowsTyped
<1>6. \A k \in DOMAIN items : 1..k \subseteq S => k \in 1..c /\ Nth(S, k) = k
  BY <1>1, <1>5
<1>. QED
  BY <1>1, <1>2, <1>4, <1>6

\* A callback changes the state of one row at most, a retry that of its rows.
Restates(S, state) ==
    /\ items' \in Seq(RowType) /\ DOMAIN items' = DOMAIN items
    /\ \A i \in DOMAIN items :
         /\ items'[i].file = items[i].file
         /\ i \in S => items'[i].state = state
         /\ i \notin S => items'[i] = items[i]

LEMMA RestatedRows ==
    ASSUME TypeOK, NEW S, NEW state \in RowState,
           items' = [i \in DOMAIN items |->
                        IF i \in S THEN [items[i] EXCEPT !.state = state] ELSE items[i]]
    PROVE  Restates(S, state)
<1>1. \A i \in DOMAIN items :
        /\ [items[i] EXCEPT !.state = state] \in RowType
        /\ [items[i] EXCEPT !.state = state].file = items[i].file
        /\ [items[i] EXCEPT !.state = state].state = state
  BY RowsTyped DEF RowType
<1>2. DOMAIN items' = 1..Len(items) /\ Len(items) \in Nat
  BY RowsTyped
<1>3. \A i \in 1..Len(items) : items'[i] \in RowType
  BY <1>1, RowsTyped
<1>4. items' \in Seq(RowType)
  <2>1. items' = [i \in 1..Len(items) |-> items'[i]]
    BY RowsTyped
  <2>. QED
    BY <1>2, <1>3, <2>1
<1>. QED
  BY <1>1, <1>4 DEF Restates

LEMMA ProgressRestates ==
    ASSUME TypeOK, NEW n \in DOMAIN uploads, NEW state \in RowState, SetProgress(n, state)
    PROVE  Restates({uploads[n].index}, state)
BY RestatedRows DEF SetProgress

LEMMA RequeueRestates ==
    ASSUME TypeOK, NEW S, Requeue(S)
    PROVE  Restates(S, "queued")
BY RestatedRows DEF Requeue, RowState

LEMMA FilesAreAdded ==
    ASSUME TypeOK, NEW fs \in Seq(File), AddFiles(fs)
    PROVE  /\ items' \in Seq(RowType)
           /\ DOMAIN items \subseteq DOMAIN items'
           /\ \A i \in DOMAIN items : items'[i] = items[i]
           /\ \A i \in DOMAIN items' \ DOMAIN items :
                /\ i - Len(items) \in DOMAIN fs /\ items'[i].file = fs[i - Len(items)]
                /\ items'[i].state = "queued"
<1>. DEFINE q == Queued(fs)
            l == Len(items)
<1>1. items \in Seq(RowType) /\ l \in Nat /\ DOMAIN items = 1..l
  BY RowsTyped
<1>2. DOMAIN fs = 1..Len(fs) /\ Len(fs) \in Nat /\ \A k \in DOMAIN fs : fs[k] \in File
  BY LenProperties, ElementOfSeq
<1>3. /\ q \in Seq(RowType) /\ Len(q) = Len(fs)
      /\ \A k \in DOMAIN fs : q[k].file = fs[k] /\ q[k].state = "queued"
  BY <1>2 DEF Queued, RowType, RowState
<1>. HIDE DEF q
<1>4. /\ items' \in Seq(RowType) /\ DOMAIN items' = 1..(l + Len(fs))
      /\ \A i \in 1..(l + Len(fs)) : items'[i] = IF i <= l THEN items[i] ELSE q[i - l]
  <2>1. items' = items \o q
    BY DEF AddFiles, q
  <2>2. /\ items \o q \in Seq(RowType)
        /\ Len(items \o q) = Len(items) + Len(q)
        /\ \A i \in 1..(Len(items) + Len(q)) :
              (items \o q)[i] = IF i <= Len(items) THEN items[i] ELSE q[i - Len(items)]
    <3>1. items \in Seq(RowType) /\ q \in Seq(RowType)
      BY <1>1, <1>3
    <3>. QED
      BY <3>1, ConcatProperties
  <2>3. DOMAIN items' = 1..Len(items')
    BY <2>1, <2>2, LenProperties
  <2>. QED
    BY <1>3, <2>1, <2>2, <2>3
<1>5. /\ DOMAIN items \subseteq DOMAIN items'
      /\ \A i \in DOMAIN items : items'[i] = items[i]
  BY <1>1, <1>2, <1>4
<1>6. \A i \in DOMAIN items' \ DOMAIN items : i - l \in DOMAIN fs /\ items'[i] = q[i - l]
  BY <1>1, <1>2, <1>4
<1>. QED
  BY <1>3, <1>4, <1>5, <1>6

LEMMA UploadFinishes ==
    ASSUME TypeOK, NEW n \in DOMAIN uploads, Finish(n)
    PROVE  /\ uploads' \in Seq(UploadType) /\ Len(uploads') = Len(uploads)
           /\ DOMAIN uploads' = DOMAIN uploads
           /\ uploads'[n].file = uploads[n].file /\ uploads'[n].phase = "done"
           /\ \A m \in DOMAIN uploads : m # n => uploads'[m] = uploads[m]
<1>. DEFINE u == [file |-> uploads[n].file, phase |-> "done"]
<1>1. u \in UploadType
  BY UploadsTyped DEF UploadType, DoneUpload
<1>2. uploads' = [uploads EXCEPT ![n] = u]
  BY DEF Finish
<1>. HIDE DEF u
<1>3. /\ uploads' \in Seq(UploadType) /\ Len(uploads') = Len(uploads)
      /\ \A m \in 1..Len(uploads) : uploads'[m] = IF m = n THEN u ELSE uploads[m]
  BY <1>1, <1>2, UploadsTyped, ExceptSeq
<1>4. uploads'[n] = u /\ DOMAIN uploads' = DOMAIN uploads
  BY <1>2, <1>3, UploadsTyped
<1>. QED
  BY <1>3, <1>4, UploadsTyped DEF u

LEMMA PhaseChanges ==
    ASSUME TypeOK, NEW n \in Sent, NEW ph \in LivePhase, uploads' = [uploads EXCEPT ![n].phase = ph]
    PROVE  /\ uploads' \in Seq(UploadType) /\ Len(uploads') = Len(uploads)
           /\ DOMAIN uploads' = DOMAIN uploads /\ Sent' = Sent
           /\ \A m \in DOMAIN uploads : uploads'[m].file = uploads[m].file
           /\ uploads'[n].index = uploads[n].index
           /\ uploads'[n].org = uploads[n].org /\ uploads'[n].system = uploads[n].system
           /\ uploads'[n].phase = ph
           /\ \A m \in DOMAIN uploads : m # n => uploads'[m] = uploads[m]
<1>. DEFINE u == [uploads[n] EXCEPT !.phase = ph]
<1>1. n \in DOMAIN uploads /\ uploads[n] \in LiveUpload
  BY UploadsTyped, UploadTyped DEF Sent
<1>2. /\ u \in LiveUpload
      /\ u.file = uploads[n].file /\ u.index = uploads[n].index
      /\ u.org = uploads[n].org /\ u.system = uploads[n].system /\ u.phase = ph
  BY <1>1 DEF LiveUpload
<1>3. u \in UploadType
  BY <1>2 DEF UploadType
<1>4. uploads' = [uploads EXCEPT ![n] = u]
  OBVIOUS
<1>. HIDE DEF u
<1>5. /\ uploads' \in Seq(UploadType) /\ Len(uploads') = Len(uploads)
      /\ \A m \in 1..Len(uploads) : uploads'[m] = IF m = n THEN u ELSE uploads[m]
  BY <1>1, <1>3, <1>4, UploadsTyped, ExceptSeq
<1>6. uploads'[n] = u /\ DOMAIN uploads' = DOMAIN uploads
  BY <1>1, <1>4, <1>5, UploadsTyped
<1>7. /\ \A m \in DOMAIN uploads : m # n => uploads'[m] = uploads[m]
      /\ \A m \in DOMAIN uploads : uploads'[m].file = uploads[m].file
  BY <1>2, <1>5, <1>6, UploadsTyped
<1>8. Live(uploads'[n]) /\ Live(uploads[n])
  BY <1>1, <1>2, <1>6 DEF Live, Sent
<1>9. Sent' = Sent
  BY <1>1, <1>6, <1>7, <1>8 DEF Sent
<1>. QED
  BY <1>1, <1>2, <1>5, <1>6, <1>7, <1>9

\* The answers of the server, and sending again: only the phase of an upload that
\* is under way changes.
Answers(n) == Publish(n) \/ FinaliseFails(n) \/ Resend(n)

LEMMA AnswersChangePhases ==
    ASSUME TypeOK, NEW n \in DOMAIN uploads, Answers(n)
    PROVE  /\ n \in Sent
           /\ \E ph \in LivePhase : uploads' = [uploads EXCEPT ![n].phase = ph]
BY DEF Answers, Publish, FinaliseFails, Resend, Sent, Live, LivePhase

LEMMA UploadIsPublished ==
    ASSUME TypeOK, NEW n \in DOMAIN uploads, Publish(n)
    PROVE  /\ DOMAIN uploads' = DOMAIN uploads /\ Sent' = Sent /\ n \in Sent
           /\ uploads'[n].phase = "published"
           /\ \A m \in DOMAIN uploads : uploads'[m].file = uploads[m].file
           /\ \A m \in DOMAIN uploads : m # n => uploads'[m] = uploads[m]
<1>1. /\ n \in Sent /\ "published" \in LivePhase
      /\ uploads' = [uploads EXCEPT ![n].phase = "published"]
  BY DEF Publish, Sent, Live, LivePhase
<1>. QED
  BY <1>1, PhaseChanges
-----------------------------------------------------------------------------
(* Type correctness.                                                       *)

DestTypes ==
    /\ auth \in Role \cup {"loading", "none"}
    /\ systemId \in System \cup {NULL}
    /\ orgs \subseteq Org
    /\ orgId \in Org \cup {NULL}
    /\ orgSeeded \in BOOLEAN
    /\ orgReq \subseteq System
    /\ mispicked \in BOOLEAN

QueueTypes ==
    /\ items \in Seq(RowType)
    /\ walks \subseteq Folder
    /\ uploads \in Seq(UploadType)
    /\ shifted \in BOOLEAN
    /\ again \subseteq File
    /\ unanswered \subseteq File
    /\ unfinalised \subseteq File
    /\ Len(uploads) <= MaxStarts

CopiesTyped == copies \in [File -> Nat]

LEMMA TypeInvParts == TypeInv <=> DestTypes /\ QueueTypes /\ CopiesTyped
BY DEF TypeInv, TypeOK, DestTypes, QueueTypes, CopiesTyped, RowType, RowState, UploadType,
       LiveUpload, DoneUpload

LEMMA DestinationLeavesQueue == Destination => UNCHANGED queueVars
BY DEF Destination, AuthLoaded, SystemsLoaded, ChooseSystem, OrgsLoaded, OrgsFailed, ChooseOrg,
       queueVars

LEMMA QueueLeavesDestination ==
    /\ Queue => UNCHANGED destVars
    /\ \A n \in DOMAIN uploads : Callback(n) => UNCHANGED destVars
<1>1. Queue => UNCHANGED destVars
  BY DEF Queue, AddPlainFile, DropFolder, Walked, UploadAll, RetryAllFailed, ClearCompleted,
         RetryOne, RemoveRow, KeepRows, destVars
<1>2. \A n \in DOMAIN uploads : Callback(n) => UNCHANGED destVars
  BY DEF Callback, OnProgress, Publish, FinaliseFails, Resend, OnSuccess, OnError, destVars
<1>. QED
  BY <1>1, <1>2

LEMMA DestTypesStep == DestTypes /\ Destination => DestTypes'
<1>. SUFFICES ASSUME DestTypes, Destination PROVE DestTypes'
  OBVIOUS
<1>. USE DEF DestTypes
<1>1. ASSUME NEW r \in {"editor", "viewer", "none"}, AuthLoaded(r) PROVE DestTypes'
  BY <1>1 DEF AuthLoaded, Role
<1>2. ASSUME SystemsLoaded PROVE DestTypes'
  BY <1>2, DestinationAssumption DEF SystemsLoaded, Select
<1>3. ASSUME NEW s \in System, ChooseSystem(s) PROVE DestTypes'
  BY <1>3 DEF ChooseSystem, Select
<1>4. ASSUME NEW s \in System, OrgsLoaded(s) PROVE DestTypes'
  <2>1. OrgsOf[s] \subseteq Org
    BY DEF Org
  <2>2. mispicked' \in BOOLEAN
    BY <1>4 DEF OrgsLoaded
  <2>. QED
    BY <1>4, <2>1, <2>2 DEF OrgsLoaded
<1>5. ASSUME NEW s \in System, OrgsFailed(s) PROVE DestTypes'
  BY <1>5 DEF OrgsFailed
<1>6. ASSUME NEW o \in Org \cup {NULL}, ChooseOrg(o) PROVE DestTypes'
  <2>1. mispicked' \in BOOLEAN
    BY <1>6 DEF ChooseOrg
  <2>. QED
    BY <1>6, <2>1 DEF ChooseOrg
<1>. QED
  BY <1>1, <1>2, <1>3, <1>4, <1>5, <1>6 DEF Destination

LEMMA AnswersTyped ==
    ASSUME TypeInv, NEW n \in DOMAIN uploads, Answers(n)
    PROVE  QueueTypes' /\ CopiesTyped'
<1>1. TypeOK /\ QueueTypes /\ CopiesTyped
  BY TypeInvParts DEF TypeInv
<1>2. uploads' \in Seq(UploadType) /\ Len(uploads') = Len(uploads)
  BY <1>1, AnswersChangePhases, PhaseChanges
<1>3. uploads[n].file \in File
  BY <1>1, UploadsTyped
<1>4. unanswered' \subseteq File /\ unfinalised' \subseteq File
  BY <1>1, <1>3 DEF Answers, Publish, FinaliseFails, Resend, QueueTypes
<1>5. UNCHANGED <<items, walks, shifted, again>>
  BY DEF Answers, Publish, FinaliseFails, Resend
<1>6. QueueTypes'
  BY <1>1, <1>2, <1>4, <1>5 DEF QueueTypes
<1>7. CopiesTyped'
  BY <1>1, <1>3 DEF Answers, Publish, FinaliseFails, Resend, CopiesTyped
<1>. QED
  BY <1>6, <1>7

LEMMA CopiesStayTyped == TypeInv /\ UNCHANGED copies => CopiesTyped'
BY TypeInvParts DEF CopiesTyped

\* Starting uploads, finishing one, and leaving them alone keeps the types.
LEMMA StartsTyped ==
    ASSUME TypeInv, systemId # NULL, NEW S \in SUBSET DOMAIN items, UploadRows(S),
           items' \in Seq(RowType), UNCHANGED <<walks, copies, shifted, unanswered, unfinalised>>
    PROVE  QueueTypes' /\ CopiesTyped'
<1>1. TypeOK /\ QueueTypes
  BY TypeInvParts DEF TypeInv
<1>2. /\ uploads' \in Seq(UploadType) /\ Len(uploads') <= MaxStarts
      /\ DOMAIN uploads \subseteq DOMAIN uploads'
      /\ \A n \in DOMAIN uploads : uploads'[n] = uploads[n]
  BY <1>1, RowsAreUploaded
<1>3. again' \subseteq File
  <2>1. \A i \in S : items[i].file \in File
    BY <1>1, RowsTyped
  <2>. QED
    BY <1>1, <2>1 DEF UploadRows, QueueTypes
<1>4. QueueTypes'
  BY <1>1, <1>2, <1>3 DEF QueueTypes
<1>. QED
  BY <1>4, CopiesStayTyped

LEMMA EndsTyped ==
    ASSUME TypeInv, NEW n \in DOMAIN uploads, Finish(n),
           items' \in Seq(RowType), unanswered' \subseteq File,
           UNCHANGED <<walks, copies, shifted, again, unfinalised>>
    PROVE  QueueTypes' /\ CopiesTyped'
<1>1. TypeOK /\ QueueTypes
  BY TypeInvParts DEF TypeInv
<1>2. /\ uploads' \in Seq(UploadType) /\ Len(uploads') = Len(uploads)
      /\ DOMAIN uploads' = DOMAIN uploads
      /\ uploads'[n].file = uploads[n].file /\ uploads'[n].phase = "done"
      /\ \A m \in DOMAIN uploads : m # n => uploads'[m] = uploads[m]
  BY <1>1, UploadFinishes
<1>3. QueueTypes'
  BY <1>1, <1>2 DEF QueueTypes
<1>. QED
  BY <1>3, CopiesStayTyped

LEMMA QueueOnlyTyped ==
    ASSUME TypeInv, items' \in Seq(RowType), walks' \subseteq Folder, shifted' \in BOOLEAN,
           UNCHANGED <<uploads, copies, again, unanswered, unfinalised>>
    PROVE  QueueTypes' /\ CopiesTyped'
<1>1. QueueTypes'
  BY TypeInvParts DEF QueueTypes
<1>. QED
  BY <1>1, CopiesStayTyped

LEMMA QueueTypesStep == TypeInv /\ Queue => QueueTypes' /\ CopiesTyped'
<1>. SUFFICES ASSUME TypeInv, Queue PROVE QueueTypes' /\ CopiesTyped'
  OBVIOUS
<1>. DEFINE Goal == QueueTypes' /\ CopiesTyped'
<1>1. TypeOK /\ QueueTypes
  BY TypeInvParts DEF TypeInv
<1>2. ASSUME NEW f \in File, AddPlainFile(f) PROVE Goal
  <2>1. <<f>> \in Seq(File)
    BY EmptyAndSingle
  <2>2. items' \in Seq(RowType)
    BY <1>1, <1>2, <2>1, FilesAreAdded DEF AddPlainFile
  <2>3. walks' \subseteq Folder /\ shifted' \in BOOLEAN
    BY <1>1, <1>2 DEF AddPlainFile, QueueTypes
  <2>. QED
    BY <1>2, <2>2, <2>3, QueueOnlyTyped DEF AddPlainFile
<1>3. ASSUME NEW d \in Folder, DropFolder(d) PROVE Goal
  <2>1. /\ items' \in Seq(RowType) /\ walks' \subseteq Folder /\ shifted' \in BOOLEAN
        /\ UNCHANGED <<uploads, copies, again, unanswered, unfinalised>>
    BY <1>1, <1>3 DEF DropFolder, QueueTypes
  <2>. QED
    BY <2>1, QueueOnlyTyped
<1>4. ASSUME NEW d \in Folder, Walked(d) PROVE Goal
  <2>1. WalkEntry[d].files \in Seq(File)
    BY WalkType DEF Entry
  <2>2. items' \in Seq(RowType)
    BY <1>1, <1>4, <2>1, FilesAreAdded DEF Walked
  <2>3. /\ walks' \subseteq Folder /\ shifted' \in BOOLEAN
        /\ UNCHANGED <<uploads, copies, again, unanswered, unfinalised>>
    BY <1>1, <1>4 DEF Walked, QueueTypes
  <2>. QED
    BY <2>2, <2>3, QueueOnlyTyped
<1>5. ASSUME UploadAll PROVE Goal
  <2>1. RowsIn("queued") \in SUBSET DOMAIN items
    BY DEF RowsIn
  <2>2. items' \in Seq(RowType)
    BY <1>1, <1>5 DEF UploadAll, QueueTypes
  <2>. QED
    BY <1>5, <2>1, <2>2, StartsTyped DEF UploadAll
<1>6. ASSUME RetryAllFailed PROVE Goal
  <2>1. RowsIn("error") \in SUBSET DOMAIN items
    BY DEF RowsIn
  <2>2. items' \in Seq(RowType)
    BY <1>1, <1>6, RequeueRestates DEF RetryAllFailed, Restates
  <2>. QED
    BY <1>6, <2>1, <2>2, StartsTyped DEF RetryAllFailed
<1>7. ASSUME NEW i \in DOMAIN items, RetryOne(i) PROVE Goal
  <2>1. items' \in Seq(RowType)
    BY <1>1, <1>7, RequeueRestates DEF RetryOne, Restates
  <2>. QED
    BY <1>7, <2>1, StartsTyped DEF RetryOne
<1>8. ASSUME NEW S \in SUBSET DOMAIN items, KeepRows(S) PROVE Goal
  <2>1. items' \in Seq(RowType)
    BY <1>1, <1>8, RowsAreKept
  <2>2. walks' \subseteq Folder /\ UNCHANGED <<uploads, copies, again, unanswered, unfinalised>>
    BY <1>1, <1>8 DEF KeepRows, QueueTypes
  <2>3. shifted' \in BOOLEAN
    BY <1>1, <1>8 DEF KeepRows, QueueTypes
  <2>. QED
    BY <2>1, <2>2, <2>3, QueueOnlyTyped
<1>9. ClearCompleted => Goal
  <2>1. {i \in DOMAIN items : items[i].state # "success"} \in SUBSET DOMAIN items
    OBVIOUS
  <2>. QED
    BY <1>8, <2>1 DEF ClearCompleted
<1>10. \A i \in DOMAIN items : RemoveRow(i) => Goal
  <2>1. \A i \in DOMAIN items : DOMAIN items \ {i} \in SUBSET DOMAIN items
    OBVIOUS
  <2>. QED
    BY <1>8, <2>1 DEF RemoveRow
<1>. QED
  BY <1>2, <1>3, <1>4, <1>5, <1>6, <1>7, <1>9, <1>10 DEF Queue

LEMMA CallbackTypesStep ==
    ASSUME TypeInv, NEW n \in DOMAIN uploads, Callback(n)
    PROVE  QueueTypes' /\ CopiesTyped'
<1>1. TypeOK /\ QueueTypes
  BY TypeInvParts DEF TypeInv
<1>2. CASE OnProgress(n)
  <2>1. items' \in Seq(RowType)
    BY <1>1, <1>2, ProgressRestates DEF OnProgress, Restates, RowState
  <2>2. walks' \subseteq Folder /\ shifted' \in BOOLEAN
        /\ UNCHANGED <<uploads, copies, again, unanswered, unfinalised>>
    BY <1>1, <1>2 DEF OnProgress, QueueTypes
  <2>. QED
    BY <2>1, <2>2, QueueOnlyTyped
<1>3. ASSUME Answers(n) PROVE QueueTypes' /\ CopiesTyped'
  BY <1>3, AnswersTyped
<1>4. CASE OnSuccess(n)
  <2>1. items' \in Seq(RowType)
    BY <1>1, <1>4, ProgressRestates DEF OnSuccess, Restates, RowState
  <2>2. unanswered' \subseteq File /\ UNCHANGED <<walks, copies, shifted, again, unfinalised>> /\ Finish(n)
    BY <1>1, <1>4 DEF OnSuccess, QueueTypes
  <2>. QED
    BY <2>1, <2>2, EndsTyped
<1>5. CASE OnError(n)
  <2>1. items' \in Seq(RowType)
    BY <1>1, <1>5, ProgressRestates DEF OnError, Restates, RowState
  <2>2. UNCHANGED <<walks, copies, shifted, again, unfinalised>> /\ Finish(n)
    BY <1>5 DEF OnError
  <2>3. unanswered' \subseteq File
    BY <1>1, <1>5, UploadsTyped DEF OnError, QueueTypes
  <2>. QED
    BY <2>1, <2>2, <2>3, EndsTyped
<1>. QED
  BY <1>2, <1>3, <1>4, <1>5 DEF Callback, Answers

LEMMA TypeInit == Init => TypeInv
<1>. SUFFICES ASSUME Init PROVE TypeInv
  OBVIOUS
<1>1. DestTypes
  BY DEF Init, DestTypes
<1>2. QueueTypes
  <2>1. <<>> \in Seq(RowType) /\ <<>> \in Seq(UploadType) /\ Len(<<>>) = 0
    BY EmptySeq
  <2>2. items \in Seq(RowType) /\ uploads \in Seq(UploadType)
    BY <2>1, Zenon DEF Init
  <2>3. Len(uploads) <= MaxStarts
    BY <2>1, BoundAssumption DEF Init
  <2>4. walks = {} /\ shifted = FALSE /\ again = {} /\ unanswered = {} /\ unfinalised = {}
    BY DEF Init
  <2>. QED
    BY <2>2, <2>3, <2>4 DEF QueueTypes
<1>4. CopiesTyped
  BY DEF Init, CopiesTyped
<1>. QED
  BY <1>1, <1>2, <1>4, TypeInvParts

LEMMA TypeStep == TypeInv /\ [Next]_vars => TypeInv'
<1>. SUFFICES ASSUME TypeInv, [Next]_vars PROVE TypeInv'
  OBVIOUS
<1>1. DestTypes /\ QueueTypes /\ CopiesTyped
  BY TypeInvParts
<1>2. UNCHANGED destVars => DestTypes'
  BY <1>1 DEF destVars, DestTypes
<1>3. UNCHANGED queueVars => QueueTypes' /\ CopiesTyped'
  BY <1>1 DEF queueVars, QueueTypes, CopiesTyped
<1>4. DestTypes' /\ QueueTypes' /\ CopiesTyped'
  <2>1. CASE Destination
    BY <1>1, <1>3, <2>1, DestTypesStep, DestinationLeavesQueue
  <2>2. CASE Queue
    BY <1>2, <2>2, QueueTypesStep, QueueLeavesDestination
  <2>3. ASSUME NEW n \in DOMAIN uploads, Callback(n)
        PROVE  DestTypes' /\ QueueTypes' /\ CopiesTyped'
    BY <1>2, <2>3, CallbackTypesStep, QueueLeavesDestination
  <2>4. CASE UNCHANGED vars
    BY <1>2, <1>3, <2>4 DEF vars
  <2>. QED
    BY <2>1, <2>2, <2>3, <2>4 DEF Next
<1>. QED
  BY <1>4, TypeInvParts, PTL

\* Every variable of the page keeps its type: a callback finds the upload it belongs
\* to at every phase, and an index it kept is a position a row can have.
THEOREM TypeCorrect == Spec => []TypeOK
<1>1. TypeInv => TypeOK
  BY DEF TypeInv
<1>. QED
  BY <1>1, TypeInit, TypeStep, PTL DEF Spec
-----------------------------------------------------------------------------
(* What a drop takes.                                                      *)

\* A walk that succeeds takes every readable file of the dropped directory and
\* of the directories in it, in whatever batches the browser hands them out.
THEOREM DropsAreWhole == Spec => []DropIsWhole
<1>1. TypeInv => DropIsWhole
  <2>. SUFFICES ASSUME TypeInv, NEW d \in walks, WalkEntry[d].ok,
                       NEW e \in Folder, e = d \/ e \in Range(Children[d]),
                       NEW f \in (Range(Children[e]) \cap File) \ Unreadable
                PROVE  f \in Range(Files(d))
    BY DEF DropIsWhole, Files
  <2>1. d \in Folder
    BY DEF TypeInv, TypeOK
  <2>2. CASE e = d
    BY <2>1, <2>2, WalkTakesAll
  <2>3. CASE e \in Range(Children[d])
    <3>1. Range(Files(e)) \subseteq Range(Files(d)) /\ WalkEntry[e].ok
      BY <2>1, <2>3, WalkTakesAll
    <3>2. f \in Range(Files(e))
      BY <3>1, WalkTakesAll
    <3>. QED
      BY <3>1, <3>2
  <2>. QED
    BY <2>2, <2>3
<1>. QED
  BY <1>1, TypeInit, TypeStep, PTL DEF Spec

-----------------------------------------------------------------------------
(* Where the uploads go.                                                    *)

LEMMA SentTyped ==
    ASSUME TypeOK, NEW n \in Sent
    PROVE  n \in DOMAIN uploads /\ uploads[n] \in LiveUpload
BY UploadsTyped, UploadTyped DEF Sent

\* An upload under way was under way before, or a row has just been sent.
SameGoal(n) ==
    /\ n \in Sent
    /\ uploads'[n].file = uploads[n].file /\ uploads'[n].index = uploads[n].index
    /\ uploads'[n].system = uploads[n].system /\ uploads'[n].org = uploads[n].org

LEMMA SentBefore ==
    ASSUME TypeInv, Queue \/ \E n \in DOMAIN uploads : Callback(n)
    PROVE  \A n \in Sent' :
              SameGoal(n) \/ (systemId # NULL /\ \E i \in DOMAIN items : uploads'[n] = Closure(i))
<1>. DEFINE Goal == \A n \in Sent' : SameGoal(n) 
                \/ (systemId # NULL /\ \E i \in DOMAIN items : uploads'[n] = Closure(i))
<1>1. TypeOK
  BY DEF TypeInv
<1>2. UNCHANGED uploads => Goal
  BY DEF SameGoal, Sent
<1>3. ASSUME NEW S \in SUBSET DOMAIN items, UploadRows(S), systemId # NULL PROVE Goal
  <2>1. /\ \A n \in DOMAIN uploads : uploads'[n] = uploads[n]
        /\ \A n \in DOMAIN uploads' \ DOMAIN uploads : \E i \in S : uploads'[n] = Closure(i)
    BY <1>1, <1>3, RowsAreUploaded
  <2>. QED
    BY <1>3, <2>1 DEF SameGoal, Sent
<1>4. ASSUME NEW n \in DOMAIN uploads, Finish(n) PROVE Goal
  <2>1. /\ DOMAIN uploads' = DOMAIN uploads /\ uploads'[n].phase = "done"
        /\ \A m \in DOMAIN uploads : m # n => uploads'[m] = uploads[m]
    BY <1>1, <1>4, UploadFinishes
  <2>. QED
    BY <2>1 DEF SameGoal, Sent, Live, LivePhase
<1>5. ASSUME NEW n \in DOMAIN uploads, Answers(n) PROVE Goal
  <2>1. /\ Sent' = Sent
        /\ uploads'[n].index = uploads[n].index
        /\ uploads'[n].org = uploads[n].org /\ uploads'[n].system = uploads[n].system
        /\ \A m \in DOMAIN uploads : uploads'[m].file = uploads[m].file
        /\ \A m \in DOMAIN uploads : m # n => uploads'[m] = uploads[m]
    BY <1>1, <1>5, AnswersChangePhases, PhaseChanges
  <2>2. \A m \in Sent' : SameGoal(m)
    BY <2>1 DEF SameGoal, Sent
  <2>. QED
    BY <2>2
<1>6. CASE Queue
  <2>1. RowsIn("queued") \in SUBSET DOMAIN items /\ RowsIn("error") \in SUBSET DOMAIN items
    BY DEF RowsIn
  <2>2. UploadAll => Goal
    BY <1>3, <2>1 DEF UploadAll
  <2>3. RetryAllFailed => Goal
    BY <1>3, <2>1 DEF RetryAllFailed
  <2>4. \A i \in DOMAIN items : RetryOne(i) => Goal
    BY <1>3 DEF RetryOne
  <2>5. \/ UNCHANGED uploads \/ UploadAll \/ RetryAllFailed
        \/ \E i \in DOMAIN items : RetryOne(i)
    BY <1>6 DEF Queue, AddPlainFile, DropFolder, Walked, ClearCompleted, RemoveRow, KeepRows
  <2>. QED
    BY <1>2, <2>2, <2>3, <2>4, <2>5
<1>7. ASSUME NEW n \in DOMAIN uploads, Callback(n) PROVE Goal
  BY <1>2, <1>4, <1>5, <1>7 DEF Callback, Answers, OnProgress, OnSuccess, OnError
<1>. QED
  BY <1>6, <1>7

LEMMA DestInit == Init => DestInv
BY DEF Init, DestInv, OrgOfSystem, Sent

\* Choosing keeps the org within the system, or marks the pick.
LEMMA ChoosingKeeps ==
    ASSUME TypeInv, DestInv, Destination
    PROVE  /\ systemId' = NULL => orgs' = {} /\ orgReq' = {} /\ orgId' = NULL
           /\ ~mispicked' /\ orgId' # NULL => orgId' \in OrgsOf[systemId']
           /\ ~mispicked' => ~mispicked
<1>. DEFINE Goal == /\ systemId' = NULL => orgs' = {} /\ orgReq' = {} /\ orgId' = NULL
                    /\ ~mispicked' /\ orgId' # NULL => orgId' \in OrgsOf[systemId']
                    /\ ~mispicked' => ~mispicked
<1>0. NULL \notin System /\ NULL \notin Org
  BY DestinationAssumption
<1>1. ASSUME NEW r \in {"editor", "viewer", "none"}, AuthLoaded(r) PROVE Goal
  BY <1>1 DEF AuthLoaded, DestInv
<1>2. ASSUME SystemsLoaded PROVE Goal
  BY <1>0, <1>2, DestinationAssumption DEF SystemsLoaded, Select, DestInv
<1>3. ASSUME NEW s \in System, ChooseSystem(s) PROVE Goal
  BY <1>0, <1>3 DEF ChooseSystem, Select, DestInv
<1>4. ASSUME NEW s \in System, OrgsLoaded(s) PROVE Goal
  <2>1. systemId # NULL /\ systemId' = systemId
    BY <1>4 DEF OrgsLoaded, DestInv
  <2>2. CASE ~orgSeeded /\ CtxOrg \in OrgsOf[s]
    <3>1. orgId' = CtxOrg /\ mispicked' = (mispicked \/ s # systemId)
      BY <1>4, <2>2 DEF OrgsLoaded
    <3>. QED
      BY <2>1, <2>2, <3>1
  <2>3. CASE ~(~orgSeeded /\ CtxOrg \in OrgsOf[s])
    <3>1. orgId' = orgId /\ mispicked' = (mispicked \/ FALSE)
      BY <1>4, <2>3 DEF OrgsLoaded
    <3>. QED
      BY <2>1, <3>1 DEF DestInv
  <2>. QED
    BY <2>2, <2>3
<1>5. ASSUME NEW s \in System, OrgsFailed(s) PROVE Goal
  BY <1>5 DEF OrgsFailed, DestInv
<1>6. ASSUME NEW o \in Org \cup {NULL}, ChooseOrg(o) PROVE Goal
  <2>1. systemId # NULL
    BY <1>6 DEF ChooseOrg, DestInv
  <2>2. /\ systemId' = systemId /\ orgId' = o
        /\ mispicked' = (mispicked \/ (o # NULL /\ o \notin OrgsOf[systemId]))
    BY <1>6 DEF ChooseOrg
  <2>. QED
    BY <2>1, <2>2
<1>. QED
  BY <1>1, <1>2, <1>3, <1>4, <1>5, <1>6 DEF Destination

LEMMA DestStep == TypeInv /\ DestInv /\ [Next]_vars => DestInv'
<1>. SUFFICES ASSUME TypeInv, DestInv, [Next]_vars PROVE DestInv'
  OBVIOUS
<1>1. CASE Destination
  <2>1. UNCHANGED uploads
    BY <1>1, DestinationLeavesQueue DEF queueVars
  <2>2. ~mispicked' => ~mispicked
    BY <1>1, ChoosingKeeps
  <2>3. OrgOfSystem'
    BY <2>1, <2>2 DEF DestInv, OrgOfSystem, Sent
  <2>. QED
    BY <1>1, <2>3, ChoosingKeeps DEF DestInv
<1>2. CASE Queue \/ \E n \in DOMAIN uploads : Callback(n)
  <2>1. UNCHANGED <<systemId, orgs, orgId, orgReq, mispicked>>
    BY <1>2, QueueLeavesDestination DEF destVars
  <2>2. ASSUME ~mispicked', NEW n \in Sent', uploads'[n].org # NULL
        PROVE  uploads'[n].org \in OrgsOf[uploads'[n].system]
    <3>1. CASE SameGoal(n)
      BY <2>1, <2>2, <3>1 DEF SameGoal, DestInv, OrgOfSystem
    <3>2. ASSUME systemId # NULL, NEW i \in DOMAIN items, uploads'[n] = Closure(i)
          PROVE  uploads'[n].org \in OrgsOf[uploads'[n].system]
      <4>1. uploads'[n].org = orgId /\ uploads'[n].system = systemId
        BY <3>2, ClosureTyped DEF TypeInv
      <4>. QED
        BY <2>1, <2>2, <4>1 DEF DestInv
    <3>. QED
      BY <1>2, <3>1, <3>2, SentBefore
  <2>3. OrgOfSystem'
    BY <2>2 DEF OrgOfSystem
  <2>. QED
    BY <2>1, <2>3 DEF DestInv
<1>3. CASE UNCHANGED vars
  BY <1>3 DEF vars, destVars, queueVars, DestInv, OrgOfSystem, Sent
<1>. QED
  BY <1>1, <1>2, <1>3 DEF Next

\* What is sent names an org of the system it names, unless an org was picked or
\* seeded from the list of another system: changing the system forgets the org at
\* once, and an upload keeps the destination it was started with.
THEOREM SentOrgsFit == Spec => []OrgOfSystem
<1>1. DestInv => OrgOfSystem
  BY DEF DestInv
<1>. QED
  BY <1>1, TypeInit, TypeStep, DestInit, DestStep, PTL DEF Spec
-----------------------------------------------------------------------------
(* What a row says is what the server has, and one start stores one copy.   *)
(* First what holds whatever rows are cleared: rows and the files still     *)
(* being walked are different files, and copies are of files sent.          *)

LEMMA TakenShrinks ==
    ASSUME WalkIsNew, UNCHANGED walks, Taken' \subseteq Taken
    PROVE  WalkIsNew'
BY DEF WalkIsNew

LEMMA SameFilesDiffer ==
    ASSUME RowsDiffer, NEW S, NEW state, Restates(S, state)
    PROVE  RowsDiffer'
BY DEF RowsDiffer, Restates

LEMMA CopiesStaySent ==
    ASSUME CopiesWereSent, UNCHANGED <<copies, unfinalised>>,
           \A n \in DOMAIN uploads : n \in DOMAIN uploads' /\ uploads'[n].file = uploads[n].file,
           \A n \in DOMAIN uploads' : uploads'[n].phase \in {"published", "unfinalised"} =>
              /\ n \in DOMAIN uploads /\ uploads[n].phase = uploads'[n].phase
              /\ uploads'[n].file = uploads[n].file
    PROVE  CopiesWereSent'
BY DEF CopiesWereSent

LEMMA AddingIsSteady ==
    ASSUME TypeOK, SteadyInv, NEW fs \in Seq(File), AddFiles(fs), NoRepeat(fs),
           Range(fs) \cap Taken = {}, UNCHANGED <<uploads, copies, unfinalised>>
    PROVE  RowsDiffer' /\ CopiesWereSent' /\ Taken' \subseteq Taken \cup Range(fs)
<1>1. /\ \A i \in DOMAIN items : i \in DOMAIN items' /\ items'[i] = items[i]
      /\ \A i \in DOMAIN items' \ DOMAIN items :
            i - Len(items) \in DOMAIN fs /\ items'[i].file = fs[i - Len(items)]
  BY FilesAreAdded
<1>2. \A i \in DOMAIN items' \ DOMAIN items : items'[i].file \in Range(fs)
  BY <1>1 DEF Range
<1>3. /\ Taken' = {items'[i].file : i \in DOMAIN items'} 
                    \cup {uploads[n].file : n \in DOMAIN uploads}
      /\ Taken = {items[i].file : i \in DOMAIN items} 
                    \cup {uploads[n].file : n \in DOMAIN uploads}
  BY DEF Taken
<1>4. Taken' \subseteq Taken \cup Range(fs)
  BY <1>1, <1>2, <1>3
<1>5. ASSUME NEW i \in DOMAIN items', NEW j \in DOMAIN items', items'[i].file = items'[j].file
      PROVE  i = j
  <2>1. CASE i \in DOMAIN items /\ j \in DOMAIN items
    BY <1>1, <1>5, <2>1 DEF SteadyInv, RowsDiffer
  <2>2. \A k \in DOMAIN items : items'[k].file \in Taken
    BY <1>1, <1>3
  <2>3. CASE i \notin DOMAIN items /\ j \notin DOMAIN items
    <3>1. i - Len(items) = j - Len(items)
      BY <1>1, <1>5, <2>3 DEF NoRepeat
    <3>2. i \in Int /\ j \in Int /\ Len(items) \in Int
      <4>1. items' \in Seq(RowType)
        BY FilesAreAdded
      <4>2. DOMAIN items' = 1..Len(items')
        BY <4>1, LenProperties
      <4>. QED
        BY <4>2, RowsTyped
    <3>. QED
      BY <3>1, <3>2
  <2>. QED
    BY <1>2, <1>5, <2>1, <2>2, <2>3
<1>6. CopiesWereSent'
  BY CopiesStaySent DEF SteadyInv
<1>. QED
  BY <1>4, <1>5, <1>6 DEF RowsDiffer

LEMMA StartingIsSteady ==
    ASSUME TypeOK, SteadyInv, systemId # NULL, NEW S \in SUBSET DOMAIN items, UploadRows(S),
           UNCHANGED items \/ Restates(S, "queued"), UNCHANGED <<walks, copies, unfinalised>>
    PROVE  SteadyInv'
<1>1. /\ DOMAIN uploads \subseteq DOMAIN uploads'
      /\ \A n \in DOMAIN uploads : uploads'[n] = uploads[n]
      /\ \A n \in DOMAIN uploads' \ DOMAIN uploads : \E i \in S : uploads'[n] = Closure(i)
  BY RowsAreUploaded
<1>2. \A i \in S : Closure(i).file = items[i].file /\ Closure(i).phase = "sending"
  BY ClosureTyped
<1>3. DOMAIN items' = DOMAIN items /\ \A i \in DOMAIN items : items'[i].file = items[i].file
  BY DEF Restates
<1>4. Taken' \subseteq Taken
  <2>1. \A i \in DOMAIN items : items[i].file \in Taken
    BY DEF Taken
  <2>2. \A n \in DOMAIN uploads : uploads[n].file \in Taken
    BY DEF Taken
  <2>3. \A n \in DOMAIN uploads' : uploads'[n].file \in Taken
    BY <1>1, <1>2, <2>1, <2>2
  <2>. QED
    BY <1>3, <2>1, <2>3 DEF Taken
<1>5. CopiesWereSent'
  <2>1. "sending" \notin {"published", "unfinalised"}
    OBVIOUS
  <2>. QED
    BY <1>1, <1>2, <2>1, CopiesStaySent DEF SteadyInv
<1>6. RowsDiffer'
  BY <1>3 DEF RowsDiffer, SteadyInv
<1>. QED
  BY <1>4, <1>5, <1>6, TakenShrinks DEF SteadyInv

LEMMA KeepingIsSteady ==
    ASSUME TypeOK, SteadyInv, NEW S \in SUBSET DOMAIN items, KeepRows(S)
    PROVE  SteadyInv'
<1>1. /\ \A k \in DOMAIN items' : Nth(S, k) \in DOMAIN items /\ items'[k] = items[Nth(S, k)]
      /\ \A j, k \in DOMAIN items' : Nth(S, j) = Nth(S, k) => j = k
      /\ UNCHANGED <<walks, uploads, copies, unfinalised>>
  BY RowsAreKept DEF KeepRows
<1>2. RowsDiffer'
  BY <1>1 DEF SteadyInv, RowsDiffer
<1>3. Taken' \subseteq Taken
  BY <1>1 DEF Taken
<1>4. CopiesWereSent'
  BY <1>1, CopiesStaySent DEF SteadyInv
<1>. QED
  BY <1>1, <1>2, <1>3, <1>4, TakenShrinks DEF SteadyInv

LEMMA EndingIsSteady ==
    ASSUME TypeOK, SteadyInv, NEW n \in DOMAIN uploads, Finish(n),
           NEW S, NEW state, Restates(S, state), UNCHANGED <<walks, copies, unfinalised>>
    PROVE  SteadyInv'
<1>1. /\ DOMAIN uploads' = DOMAIN uploads
      /\ \A m \in DOMAIN uploads : uploads'[m].file = uploads[m].file
      /\ \A m \in DOMAIN uploads : uploads'[m].phase \in {"published", "unfinalised"} =>
            uploads[m].phase = uploads'[m].phase
  BY UploadFinishes
<1>2. RowsDiffer'
  BY SameFilesDiffer DEF SteadyInv
<1>3. Taken' \subseteq Taken
  BY <1>1 DEF Taken, Restates
<1>4. CopiesWereSent'
  BY <1>1, CopiesStaySent DEF SteadyInv
<1>. QED
  BY <1>2, <1>3, <1>4, TakenShrinks DEF SteadyInv

LEMMA PublishCounts ==
    ASSUME TypeInv, NEW n \in DOMAIN uploads, Publish(n)
    PROVE  /\ copies'[uploads[n].file] = copies[uploads[n].file] + 1
           /\ \A f \in File : f # uploads[n].file => copies'[f] = copies[f]
           /\ \A f \in File : copies[f] \in Nat
<1>1. /\ copies \in [File -> Nat] /\ uploads[n].file \in File
      /\ copies' = [copies EXCEPT ![uploads[n].file] = @ + 1]
  BY UploadsTyped DEF TypeInv, TypeOK, Publish
<1>. QED
  BY <1>1

LEMMA AnswersAreSteady ==
    ASSUME TypeInv, SteadyInv, NEW n \in DOMAIN uploads, Answers(n)
    PROVE  SteadyInv'
<1>1. /\ DOMAIN uploads' = DOMAIN uploads
      /\ \A m \in DOMAIN uploads : uploads'[m].file = uploads[m].file
      /\ \A m \in DOMAIN uploads : m # n => uploads'[m] = uploads[m]
      /\ \A m \in DOMAIN uploads : uploads[m].file \in File
  BY AnswersChangePhases, PhaseChanges, UploadsTyped DEF TypeInv
<1>2. UNCHANGED <<items, walks>>
  BY DEF Answers, Publish, FinaliseFails, Resend
<1>3. RowsDiffer' /\ Taken' \subseteq Taken
  BY <1>1, <1>2 DEF RowsDiffer, SteadyInv, Taken
<1>4. /\ \A f \in File : copies[f] > 0 => copies'[f] > 0
      /\ \A f \in File : copies'[f] > 0 => copies[f] > 0 \/ f = uploads[n].file
      /\ uploads'[n].phase = "published" => copies'[uploads[n].file] > 0
  <2>1. CASE Publish(n)
    <3>1. copies[uploads[n].file] \in Nat
      BY <1>1, <2>1, PublishCounts
    <3>. QED
      BY <2>1, <3>1, PublishCounts
  <2>2. ASSUME FinaliseFails(n) \/ Resend(n)
        PROVE  UNCHANGED copies /\ uploads'[n].phase # "published"
    <3>1. \A ph \in {"sending", "unfinalised"} :
              uploads' = [uploads EXCEPT ![n].phase = ph] => uploads'[n].phase = ph
      BY <2>2, AnswersChangePhases, PhaseChanges DEF TypeInv, Answers, LivePhase
    <3>. QED
      BY <2>2, <3>1 DEF FinaliseFails, Resend
  <2>. QED
    BY <2>1, <2>2 DEF Answers
<1>5. /\ unfinalised \subseteq unfinalised'
      /\ uploads'[n].phase = "unfinalised" => uploads[n].file \in unfinalised'
  <2>1. CASE Publish(n)
    BY <2>1, UploadIsPublished DEF Publish, TypeInv
  <2>2. CASE FinaliseFails(n)
    BY <2>2 DEF FinaliseFails
  <2>3. CASE Resend(n)
    <3>1. uploads' = [uploads EXCEPT ![n].phase = "sending"] /\ UNCHANGED unfinalised
      BY <2>3 DEF Resend
    <3>2. uploads'[n].phase = "sending"
      BY <2>3, <3>1, AnswersChangePhases, PhaseChanges DEF TypeInv, Answers, LivePhase
    <3>. QED
      BY <3>1, <3>2
  <2>. QED
    BY <2>1, <2>2, <2>3 DEF Answers
<1>6. \A f \in File : copies'[f] > 0 => \E m \in DOMAIN uploads' : uploads'[m].file = f
  BY <1>1, <1>4 DEF SteadyInv, CopiesWereSent
<1>7. \A m \in DOMAIN uploads' :
          uploads'[m].phase = "published" => copies'[uploads'[m].file] > 0
  BY <1>1, <1>4 DEF SteadyInv, CopiesWereSent
<1>8. \A m \in DOMAIN uploads' :
          uploads'[m].phase = "unfinalised" => uploads'[m].file \in unfinalised'
  BY <1>1, <1>5 DEF SteadyInv, CopiesWereSent
<1>. QED
  BY <1>2, <1>3, <1>6, <1>7, <1>8, TakenShrinks DEF SteadyInv, CopiesWereSent

LEMMA SteadyInit == Init => SteadyInv
<1>. SUFFICES ASSUME Init PROVE SteadyInv
  OBVIOUS
<1>1. DOMAIN items = {} /\ DOMAIN uploads = {} /\ walks = {} /\ \A f \in File : copies[f] = 0
  BY DEF Init
<1>. QED
  BY <1>1 DEF SteadyInv, RowsDiffer, WalkIsNew, CopiesWereSent

LEMMA SteadyStep == TypeInv /\ SteadyInv /\ [Next]_vars => SteadyInv'
<1>. SUFFICES ASSUME TypeInv, SteadyInv, [Next]_vars PROVE SteadyInv'
  OBVIOUS
<1>0. TypeOK
  BY DEF TypeInv
<1>1. ASSUME UNCHANGED queueVars PROVE SteadyInv'
  <2>1. UNCHANGED <<items, walks, uploads, copies, unfinalised>>
    BY <1>1 DEF queueVars
  <2>2. RowsDiffer' /\ CopiesWereSent' /\ Taken' = Taken
    BY <2>1 DEF SteadyInv, RowsDiffer, CopiesWereSent, Taken
  <2>. QED
    BY <2>1, <2>2, TakenShrinks DEF SteadyInv
<1>2. ASSUME NEW f \in File, AddPlainFile(f) PROVE SteadyInv'
  <2>1. /\ <<f>> \in Seq(File) /\ NoRepeat(<<f>>) /\ Range(<<f>>) = {f}
        /\ f \notin Taken /\ \A d \in walks : f \notin Range(WalkEntry[d].files)
        /\ AddFiles(<<f>>) /\ UNCHANGED <<walks, uploads, copies, unfinalised>>
    BY <1>2, EmptyAndSingle DEF AddPlainFile
  <2>2. RowsDiffer' /\ CopiesWereSent' /\ Taken' \subseteq Taken \cup {f}
    BY <1>0, <2>1, AddingIsSteady
  <2>3. WalkIsNew'
    BY <2>1, <2>2 DEF SteadyInv, WalkIsNew
  <2>. QED
    BY <2>2, <2>3 DEF SteadyInv
<1>3. ASSUME NEW d \in Folder, DropFolder(d) PROVE SteadyInv'
  <2>1. /\ walks' = {d} /\ Taken \cap Range(WalkEntry[d].files) = {}
        /\ UNCHANGED <<items, uploads, copies, unfinalised>>
    BY <1>3 DEF DropFolder
  <2>. QED
    BY <2>1 DEF SteadyInv, RowsDiffer, WalkIsNew, CopiesWereSent, Taken
<1>4. ASSUME NEW d \in Folder, Walked(d) PROVE SteadyInv'
  <2>1. WalkEntry[d].files \in Seq(File) /\ NoRepeat(WalkEntry[d].files)
    BY WalkType, WalkAddsOnce DEF Entry, Files
  <2>2. /\ walks' = {} /\ AddFiles(WalkEntry[d].files) /\ UNCHANGED <<uploads, copies, unfinalised>>
        /\ Range(WalkEntry[d].files) \cap Taken = {}
    BY <1>4 DEF Walked, SteadyInv, WalkIsNew
  <2>3. RowsDiffer' /\ CopiesWereSent'
    BY <1>0, <2>1, <2>2, AddingIsSteady
  <2>. QED
    BY <2>2, <2>3 DEF SteadyInv, WalkIsNew
<1>5. UploadAll => SteadyInv'
  <2>1. RowsIn("queued") \in SUBSET DOMAIN items
    BY DEF RowsIn
  <2>. QED
    BY <1>0, <2>1, StartingIsSteady DEF UploadAll
<1>6. RetryAllFailed => SteadyInv'
  <2>1. RowsIn("error") \in SUBSET DOMAIN items
    BY DEF RowsIn
  <2>. QED
    BY <1>0, <2>1, RequeueRestates, StartingIsSteady DEF RetryAllFailed
<1>7. ASSUME NEW i \in DOMAIN items, RetryOne(i) PROVE SteadyInv'
  BY <1>0, <1>7, RequeueRestates, StartingIsSteady DEF RetryOne
<1>8. ClearCompleted => SteadyInv'
  <2>1. {i \in DOMAIN items : items[i].state # "success"} \in SUBSET DOMAIN items
    OBVIOUS
  <2>. QED
    BY <1>0, <2>1, KeepingIsSteady DEF ClearCompleted
<1>9. \A i \in DOMAIN items : RemoveRow(i) => SteadyInv'
  <2>1. \A i \in DOMAIN items : DOMAIN items \ {i} \in SUBSET DOMAIN items
    OBVIOUS
  <2>. QED
    BY <1>0, <2>1, KeepingIsSteady DEF RemoveRow
<1>10. ASSUME NEW n \in DOMAIN uploads, Callback(n) PROVE SteadyInv'
  <2>1. CASE OnProgress(n)
    <3>1. Restates({uploads[n].index}, "uploading") /\ UNCHANGED <<walks, uploads, copies, unfinalised>>
      BY <1>0, <2>1, ProgressRestates DEF OnProgress, RowState
    <3>2. Taken' \subseteq Taken
      BY <3>1 DEF Taken, Restates
    <3>3. RowsDiffer'
      BY <3>1, SameFilesDiffer DEF SteadyInv
    <3>4. CopiesWereSent'
      BY <3>1, CopiesStaySent DEF SteadyInv
    <3>. QED
      BY <3>1, <3>2, <3>3, <3>4, TakenShrinks DEF SteadyInv
  <2>2. ASSUME Answers(n) PROVE SteadyInv'
    BY <2>2, AnswersAreSteady
  <2>3. CASE OnSuccess(n)
    BY <1>0, <2>3, ProgressRestates, EndingIsSteady DEF OnSuccess, RowState
  <2>4. CASE OnError(n)
    BY <1>0, <2>4, ProgressRestates, EndingIsSteady DEF OnError, RowState
  <2>. QED
    BY <1>10, <2>1, <2>2, <2>3, <2>4 DEF Callback, Answers
<1>11. CASE Destination
  BY <1>1, <1>11, DestinationLeavesQueue
<1>12. CASE UNCHANGED vars
  BY <1>1, <1>12 DEF vars
<1>. QED
  BY <1>2, <1>3, <1>4, <1>5, <1>6, <1>7, <1>8, <1>9, <1>10, <1>11, <1>12 DEF Next, Queue
-----------------------------------------------------------------------------
(* Then what holds while no row is cleared under a running upload: indexes  *)
(* still find the rows they were taken from.                                *)

DonePublished == \A i \in RowsIn("success") : Stored(items[i].file)
OnceEach == \A f \in File \ (again \cup unanswered) : SentOnce(f)

LEMMA UnshiftedParts == UnshiftedInv <=> IndexFinds /\ DonePublished /\ OnceEach
BY DEF UnshiftedInv, DonePublished, OnceEach

\* f is not touched: its uploads and its copies are the same, its rows too.
Aside(f) ==
    /\ copies'[f] = copies[f]
    /\ \A m \in DOMAIN uploads' : uploads'[m].file = f =>
          m \in DOMAIN uploads /\ uploads'[m] = uploads[m]
    /\ \A m \in DOMAIN uploads : uploads[m].file = f =>
          m \in DOMAIN uploads' /\ uploads'[m] = uploads[m]
    /\ \A i \in DOMAIN items' : items'[i].file = f =>
          \E j \in DOMAIN items : items'[i] = items[j]

LEMMA AsideStays == ASSUME NEW f, SentOnce(f), Aside(f) PROVE SentOnce(f)'
<1>1. \A m \in Sent' : uploads'[m].file = f => m \in Sent /\ uploads[m].file = f
  BY DEF Sent, Aside
<1>2. Running(f) => Running(f)'
  BY DEF Running, Aside
<1>3. \A m \in DOMAIN uploads' : uploads'[m].file = f =>
          m \in DOMAIN uploads /\ uploads[m].file = f /\ uploads'[m].phase = uploads[m].phase
  BY DEF Aside
<1>4. copies'[f] = copies[f]
  BY DEF Aside
<1>5. \A i \in DOMAIN items' : items'[i].file = f =>
          \E j \in DOMAIN items : items'[i] = items[j] /\ items[j].file = f
  BY DEF Aside
<1>6. copies'[f] > 0 /\ ~Running(f)' =>
          \A i \in DOMAIN items' : items'[i].file = f => items'[i].state = "success"
  BY <1>2, <1>4, <1>5 DEF SentOnce
<1>. QED
  BY <1>1, <1>3, <1>4, <1>6 DEF SentOnce

\* Rows are the same files at the same indexes.
LEMMA IndexStillFinds ==
    ASSUME TypeInv, IndexFinds, Queue \/ \E n \in DOMAIN uploads : Callback(n),
           \A i \in DOMAIN items : i \in DOMAIN items' /\ items'[i].file = items[i].file
    PROVE  IndexFinds'
<1>. SUFFICES ASSUME NEW n \in Sent'
              PROVE  /\ uploads'[n].index \in DOMAIN items'
                     /\ items'[uploads'[n].index].file = uploads'[n].file
  BY DEF IndexFinds
<1>1. CASE SameGoal(n)
  BY <1>1 DEF SameGoal, IndexFinds
<1>2. ASSUME systemId # NULL, NEW i \in DOMAIN items, uploads'[n] = Closure(i)
      PROVE  /\ uploads'[n].index \in DOMAIN items'
             /\ items'[uploads'[n].index].file = uploads'[n].file
  <2>1. uploads'[n].index = i /\ uploads'[n].file = items[i].file
    BY <1>2, ClosureTyped DEF TypeInv
  <2>. QED
    BY <2>1
<1>. QED
  BY <1>1, <1>2, SentBefore

LEMMA AddingUnshifted ==
    ASSUME TypeInv, SteadyInv, UnshiftedInv, Queue, NEW fs \in Seq(File), AddFiles(fs),
           Range(fs) \cap Taken = {}, UNCHANGED <<uploads, copies, again, unanswered, unfinalised>>
    PROVE  UnshiftedInv'
<1>1. /\ \A i \in DOMAIN items : i \in DOMAIN items' /\ items'[i] = items[i]
      /\ \A i \in DOMAIN items' \ DOMAIN items :
            /\ i - Len(items) \in DOMAIN fs /\ items'[i].file = fs[i - Len(items)]
            /\ items'[i].state = "queued"
  BY FilesAreAdded DEF TypeInv
<1>2. IndexFinds'
  BY <1>1, IndexStillFinds DEF UnshiftedInv
<1>3. DonePublished'
  <2>1. \A i \in RowsIn("success")' : i \in RowsIn("success") /\ items'[i] = items[i]
    BY <1>1 DEF RowsIn
  <2>. QED
    BY <2>1 DEF DonePublished, UnshiftedInv, Stored
<1>4. ASSUME NEW f \in File, SentOnce(f) PROVE SentOnce(f)'
  <2>1. Sent' = Sent /\ (Running(f)' <=> Running(f))
    BY DEF Sent, Running
  <2>2. ASSUME copies[f] > 0, ~Running(f), NEW i \in DOMAIN items', items'[i].file = f
        PROVE  items'[i].state = "success"
    <3>1. CASE i \in DOMAIN items
      BY <1>1, <1>4, <2>2, <3>1 DEF SentOnce
    <3>2. CASE i \notin DOMAIN items
      <4>1. f \in Range(fs)
        BY <1>1, <2>2, <3>2 DEF Range
      <4>2. f \in Taken
        BY <2>2 DEF Taken, SteadyInv, CopiesWereSent
      <4>. QED
        BY <4>1, <4>2
    <3>. QED
      BY <3>1, <3>2
  <2>. QED
    BY <1>4, <2>1, <2>2 DEF SentOnce
<1>5. OnceEach'
  BY <1>4, UnshiftedParts DEF OnceEach
<1>. QED
  BY <1>2, <1>3, <1>5 DEF UnshiftedInv, DonePublished, OnceEach

LEMMA StartingUnshifted ==
    ASSUME TypeInv, SteadyInv, UnshiftedInv, Queue, systemId # NULL,
           NEW S \in SUBSET DOMAIN items, UploadRows(S),
           \A i \in S : items[i].state # "success",
           UNCHANGED items \/ Restates(S, "queued"), UNCHANGED <<copies, unanswered, unfinalised>>
    PROVE  UnshiftedInv'
<1>0. TypeOK
  BY DEF TypeInv
<1>1. /\ DOMAIN uploads \subseteq DOMAIN uploads'
      /\ \A n \in DOMAIN uploads : uploads'[n] = uploads[n]
      /\ \A n \in DOMAIN uploads' \ DOMAIN uploads : \E i \in S : uploads'[n] = Closure(i)
      /\ \A m, n \in DOMAIN uploads' \ DOMAIN uploads :
            uploads'[m].index = uploads'[n].index => m = n
      /\ \A i \in S : \E n \in DOMAIN uploads' \ DOMAIN uploads : uploads'[n] = Closure(i)
  BY <1>0, RowsAreUploaded
<1>2. \A i \in S : /\ Closure(i).file = items[i].file /\ Closure(i).index = i
                   /\ Closure(i).phase = "sending"
  BY <1>0, ClosureTyped
<1>3. /\ DOMAIN items' = DOMAIN items
      /\ \A i \in DOMAIN items : /\ items'[i].file = items[i].file
                                 /\ i \notin S => items'[i] = items[i]
                                 /\ i \in S => items'[i].state # "success"
  BY DEF Restates
<1>4. IndexFinds'
  BY <1>3, IndexStillFinds DEF UnshiftedInv
<1>5. DonePublished'
  <2>1. \A i \in RowsIn("success")' : i \in RowsIn("success") /\ items'[i].file = items[i].file
    BY <1>3 DEF RowsIn
  <2>. QED
    BY <2>1 DEF DonePublished, UnshiftedInv, Stored
<1>6. ASSUME NEW f \in File \ (again' \cup unanswered'), SentOnce(f) PROVE SentOnce(f)'
  <2>1. ASSUME NEW i \in S, items[i].file = f PROVE SentOnce(f)'
    <3>1. ~Running(f)
      BY <1>6, <2>1 DEF UploadRows
    <3>2. copies[f] <= 1 /\ ~ (copies[f] > 0)
      BY <1>6, <2>1, <3>1 DEF SentOnce
    <3>3. copies[f] = 0
      <4>1. copies[f] \in Nat
        BY <1>0 DEF TypeOK
      <4>. QED
        BY <3>2, <4>1
    <3>4. \A m \in Sent' : uploads'[m].file = f => m \in DOMAIN uploads' \ DOMAIN uploads
      BY <1>1, <3>1 DEF Sent, Running
    <3>5. \A m \in DOMAIN uploads' \ DOMAIN uploads :
              uploads'[m].file = f => uploads'[m].index = i
      <4>1. \A j \in S : items[j].file = f => j = i
        BY <2>1 DEF SteadyInv, RowsDiffer
      <4>. QED
        BY <1>1, <1>2, <4>1
    <3>6. \A m, n \in Sent' : uploads'[m].file = f /\ uploads'[n].file = f => m = n
      BY <1>1, <3>4, <3>5
    <3>. QED
      BY <3>3, <3>6 DEF SentOnce
  <2>2. ASSUME \A i \in S : items[i].file # f PROVE SentOnce(f)'
    <3>1. \A m \in DOMAIN uploads' : uploads'[m].file = f =>
              m \in DOMAIN uploads /\ uploads'[m] = uploads[m]
      BY <1>1, <1>2, <2>2
    <3>2. \A i \in DOMAIN items' : items'[i].file = f =>
              \E j \in DOMAIN items : items'[i] = items[j]
      BY <1>3, <2>2
    <3>3. Aside(f)
      BY <1>1, <3>1, <3>2 DEF Aside
    <3>. QED
      BY <1>6, <3>3, AsideStays
  <2>. QED
    BY <2>1, <2>2
<1>7. OnceEach'
  BY <1>6 DEF OnceEach, UnshiftedInv, UploadRows
<1>. QED
  BY <1>4, <1>5, <1>7 DEF UnshiftedInv, DonePublished, OnceEach

LEMMA KeepingUnshifted ==
    ASSUME TypeInv, UnshiftedInv, NEW S \in SUBSET DOMAIN items, KeepRows(S), ~shifted'
    PROVE  UnshiftedInv'
<1>0. TypeOK
  BY DEF TypeInv
<1>1. /\ \A k \in DOMAIN items' : Nth(S, k) \in DOMAIN items /\ items'[k] = items[Nth(S, k)]
      /\ \A k \in DOMAIN items : 1..k \subseteq S => k \in DOMAIN items' /\ items'[k] = items[k]
      /\ UNCHANGED <<uploads, copies, again, unanswered, unfinalised>>
  BY <1>0, RowsAreKept DEF KeepRows
<1>2. \A n \in Sent : \A j \in DOMAIN items \ S : ~ (j <= uploads[n].index)
  BY DEF KeepRows, Sent
<1>3. \A n \in Sent : 1..uploads[n].index \subseteq S
  <2>. SUFFICES ASSUME NEW n \in Sent, NEW j \in 1..uploads[n].index PROVE j \in S
    OBVIOUS
  <2>1. uploads[n].index \in DOMAIN items
    BY DEF UnshiftedInv, IndexFinds
  <2>2. j \in DOMAIN items /\ j <= uploads[n].index
    BY <1>0, <2>1, RowsTyped
  <2>. QED
    BY <1>2, <2>2
<1>4. IndexFinds'
  BY <1>1, <1>3 DEF UnshiftedInv, IndexFinds, Sent
<1>5. DonePublished'
  <2>1. \A i \in RowsIn("success")' : \E j \in RowsIn("success") : items'[i] = items[j]
    BY <1>1 DEF RowsIn
  <2>. QED
    BY <1>1, <2>1 DEF DonePublished, UnshiftedInv, Stored
<1>6. \A f \in File : Aside(f)
  BY <1>1 DEF Aside
<1>7. OnceEach'
  BY <1>1, <1>6, AsideStays DEF OnceEach, UnshiftedInv
<1>. QED
  BY <1>4, <1>5, <1>7 DEF UnshiftedInv, DonePublished, OnceEach

-----------------------------------------------------------------------------
(* The callbacks.                                                          *)

\* A callback of an upload of f writes the row of f.
LEMMA CallbackRow ==
    ASSUME TypeOK, UnshiftedInv, NEW n \in Sent, NEW state \in RowState, SetProgress(n, state)
    PROVE  /\ DOMAIN items' = DOMAIN items
           /\ \A i \in DOMAIN items : items'[i].file = items[i].file
           /\ uploads[n].index \in DOMAIN items
           /\ items[uploads[n].index].file = uploads[n].file
           /\ items'[uploads[n].index].state = state
           /\ \A i \in DOMAIN items : i # uploads[n].index => items'[i] = items[i]
<1>1. n \in DOMAIN uploads
  BY DEF Sent
<1>2. Restates({uploads[n].index}, state)
  BY <1>1, ProgressRestates
<1>. QED
  BY <1>2 DEF Restates, UnshiftedInv, IndexFinds

LEMMA CallbackDone ==
    ASSUME TypeOK, UnshiftedInv, NEW n \in Sent, NEW state \in RowState, SetProgress(n, state),
           state = "success" => Stored(uploads[n].file), UNCHANGED <<copies, unfinalised>>
    PROVE  DonePublished'
<1>1. /\ DOMAIN items' = DOMAIN items
      /\ \A i \in DOMAIN items : items'[i].file = items[i].file
      /\ items[uploads[n].index].file = uploads[n].file
      /\ items'[uploads[n].index].state = state
      /\ \A i \in DOMAIN items : i # uploads[n].index => items'[i] = items[i]
  BY CallbackRow
<1>2. ASSUME NEW i \in RowsIn("success")' PROVE Stored(items'[i].file)
  <2>1. i \in DOMAIN items /\ items'[i].state = "success"
    BY <1>1, <1>2 DEF RowsIn
  <2>2. CASE i = uploads[n].index
    BY <1>1, <2>1, <2>2
  <2>3. CASE i # uploads[n].index
    BY <1>1, <2>1, <2>3 DEF UnshiftedInv, RowsIn
  <2>. QED
    BY <2>2, <2>3
<1>. QED
  BY <1>2 DEF DonePublished, Stored

LEMMA OthersAside ==
    ASSUME TypeInv, UnshiftedInv, NEW n \in Sent, NEW state \in RowState, SetProgress(n, state),
           Finish(n) \/ UNCHANGED uploads, UNCHANGED copies, NEW f, f # uploads[n].file
    PROVE  Aside(f)
<1>1. /\ DOMAIN items' = DOMAIN items
      /\ \A i \in DOMAIN items : items'[i].file = items[i].file
      /\ items[uploads[n].index].file = uploads[n].file
      /\ \A i \in DOMAIN items : i # uploads[n].index => items'[i] = items[i]
  BY CallbackRow DEF TypeInv
<1>2. /\ DOMAIN uploads' = DOMAIN uploads
      /\ uploads'[n].file = uploads[n].file
      /\ \A m \in DOMAIN uploads : m # n => uploads'[m] = uploads[m]
  BY UploadFinishes DEF TypeInv, Sent
<1>3. \A i \in DOMAIN items' : items'[i].file = f =>
          i \in DOMAIN items /\ items'[i] = items[i]
  BY <1>1
<1>4. \A m \in DOMAIN uploads : 
          uploads[m].file = f \/ uploads'[m].file = f => m # n
  BY <1>2
<1>. QED
  BY <1>2, <1>3, <1>4 DEF Aside

LEMMA ProgressUnshifted ==
    ASSUME TypeInv, UnshiftedInv, NEW n \in DOMAIN uploads, OnProgress(n)
    PROVE  UnshiftedInv'
<1>0. TypeOK /\ n \in Sent /\ "uploading" \in RowState /\ SetProgress(n, "uploading")
  BY DEF TypeInv, OnProgress, Sent, Live, LivePhase, RowState
<1>1. /\ DOMAIN items' = DOMAIN items
      /\ \A i \in DOMAIN items : items'[i].file = items[i].file
  BY <1>0, CallbackRow
<1>2. UNCHANGED <<uploads, copies, again, unanswered, unfinalised>>
  BY DEF OnProgress
<1>3. IndexFinds'
  BY <1>1, IndexStillFinds DEF UnshiftedInv, Callback
<1>4. DonePublished'
  BY <1>0, <1>2, CallbackDone
<1>5. ASSUME NEW f \in File, SentOnce(f) PROVE SentOnce(f)'
  <2>1. CASE f = uploads[n].file
    <3>1. Running(f) /\ Running(f)' /\ Sent' = Sent
      BY <1>0, <1>2, <2>1 DEF Running, Sent
    <3>. QED
      BY <1>2, <1>5, <3>1 DEF SentOnce
  <2>2. CASE f # uploads[n].file
    BY <1>0, <1>2, <1>5, <2>2, OthersAside, AsideStays
  <2>. QED
    BY <2>1, <2>2
<1>6. OnceEach'
  BY <1>2, <1>5 DEF OnceEach, UnshiftedInv
<1>. QED
  BY <1>3, <1>4, <1>6 DEF UnshiftedInv, DonePublished, OnceEach

LEMMA PublishUnshifted ==
    ASSUME TypeInv, UnshiftedInv, NEW n \in DOMAIN uploads, Publish(n)
    PROVE  UnshiftedInv'
<1>0. TypeOK /\ n \in Sent /\ uploads[n].file \in File /\ uploads[n].phase = "sending"
  BY UploadsTyped DEF TypeInv, Publish, Sent, Live, LivePhase
<1>1. UNCHANGED <<items, again, unanswered, unfinalised>>
  BY DEF Publish
<1>2. /\ DOMAIN uploads' = DOMAIN uploads
      /\ uploads'[n].file = uploads[n].file /\ uploads'[n].phase = "published"
      /\ \A m \in DOMAIN uploads : m # n => uploads'[m] = uploads[m]
  BY <1>0, UploadIsPublished
<1>3. /\ copies'[uploads[n].file] = copies[uploads[n].file] + 1
      /\ \A f \in File : f # uploads[n].file => copies'[f] = copies[f]
      /\ \A f \in File : copies[f] \in Nat
  BY PublishCounts
<1>4. IndexFinds'
  BY <1>1, IndexStillFinds DEF UnshiftedInv, Callback
<1>5. DonePublished'
  <2>1. \A f \in File : copies[f] > 0 => copies'[f] > 0
    BY <1>0, <1>3
  <2>2. \A i \in DOMAIN items : items[i].file \in File
    BY <1>0, RowsTyped
  <2>. QED
    BY <1>1, <2>1, <2>2 DEF DonePublished, UnshiftedInv, RowsIn, Stored
<1>6. ASSUME NEW f \in File, SentOnce(f) PROVE SentOnce(f)'
  <2>1. CASE f = uploads[n].file
    <3>1. copies[f] = 0
      BY <1>0, <1>6, <2>1 DEF SentOnce, Unpublished
    <3>2. copies'[f] = 1
      BY <1>3, <2>1, <3>1
    <3>3. Sent' = Sent
      BY <1>0, UploadIsPublished
    <3>4. \A m \in DOMAIN uploads : uploads'[m].file = uploads[m].file
      BY <1>2
    <3>5. \A l, m \in Sent' : uploads'[l].file = f /\ uploads'[m].file = f => l = m
      BY <1>6, <3>3, <3>4 DEF SentOnce, Sent
    <3>6. \A m \in DOMAIN uploads' :
              ~ (uploads'[m].file = f /\ uploads'[m].phase \in Unpublished)
      <4>. SUFFICES ASSUME NEW m \in DOMAIN uploads', uploads'[m].file = f, 
                           uploads'[m].phase \in Unpublished
                    PROVE  FALSE
        OBVIOUS
      <4>1. m # n /\ m \in DOMAIN uploads
        BY <1>2 DEF Unpublished
      <4>2. m \in Sent' /\ n \in Sent'
        BY <1>0, <1>2, <3>3 DEF Sent, Live, LivePhase, Unpublished
      <4>. QED
        BY <1>2, <2>1, <3>5, <4>1, <4>2
    <3>7. Running(f)'
      BY <1>2, <2>1 DEF Running, Live, LivePhase
    <3>. QED
      BY <3>2, <3>5, <3>6, <3>7 DEF SentOnce
  <2>2. CASE f # uploads[n].file
    <3>1. \A m \in DOMAIN uploads : 
              uploads[m].file = f \/ uploads'[m].file = f => m # n
      BY <1>2, <2>2
    <3>2. Aside(f)
      BY <1>1, <1>2, <1>3, <2>2, <3>1 DEF Aside
    <3>. QED
      BY <1>6, <3>2, AsideStays
  <2>. QED
    BY <2>1, <2>2
<1>7. OnceEach'
  BY <1>1, <1>6 DEF OnceEach, UnshiftedInv
<1>. QED
  BY <1>4, <1>5, <1>7 DEF UnshiftedInv, DonePublished, OnceEach

LEMMA PhaseUnshifted ==
    ASSUME TypeInv, UnshiftedInv, NEW n \in DOMAIN uploads, FinaliseFails(n) \/ Resend(n)
    PROVE  UnshiftedInv'
<1>0. /\ TypeOK /\ uploads[n].file \in File /\ UNCHANGED <<items, copies, again>>
      /\ unanswered \subseteq unanswered' /\ unfinalised \subseteq unfinalised'
      /\ uploads[n].phase \in Unpublished \/ uploads[n].file \in unanswered'
  BY UploadsTyped DEF TypeInv, FinaliseFails, Resend, Unpublished
<1>1. /\ n \in Sent /\ Sent' = Sent /\ DOMAIN uploads' = DOMAIN uploads
      /\ \A m \in DOMAIN uploads : uploads'[m].file = uploads[m].file
      /\ \A m \in DOMAIN uploads : m # n => uploads'[m] = uploads[m]
  BY <1>0, AnswersChangePhases, PhaseChanges DEF Answers
<1>2. IndexFinds'
  BY <1>0, IndexStillFinds DEF UnshiftedInv, Callback
<1>3. DonePublished'
  BY <1>0 DEF DonePublished, UnshiftedInv, Stored, RowsIn
<1>4. ASSUME NEW f \in File \ (again' \cup unanswered'), SentOnce(f) PROVE SentOnce(f)'
  <2>1. CASE f = uploads[n].file
    <3>1. copies[f] = 0 /\ copies'[f] = 0
      BY <1>0, <1>4, <2>1 DEF SentOnce
    <3>2. \A l, m \in Sent' : uploads'[l].file = f /\ uploads'[m].file = f => l = m
      BY <1>1, <1>4 DEF SentOnce, Sent
    <3>. QED
      BY <3>1, <3>2 DEF SentOnce
  <2>2. CASE f # uploads[n].file
    <3>1. Aside(f)
      BY <1>0, <1>1, <2>2 DEF Aside
    <3>. QED
      BY <1>4, <3>1, AsideStays
  <2>. QED
    BY <2>1, <2>2
<1>5. OnceEach'
  BY <1>0, <1>4 DEF OnceEach, UnshiftedInv
<1>. QED
  BY <1>2, <1>3, <1>5 DEF UnshiftedInv, DonePublished, OnceEach

LEMMA SuccessUnshifted ==
    ASSUME TypeInv, SteadyInv, UnshiftedInv, NEW n \in DOMAIN uploads, OnSuccess(n)
    PROVE  UnshiftedInv'
<1>0. /\ TypeOK /\ n \in Sent /\ "success" \in RowState /\ SetProgress(n, "success")
      /\ Finish(n) /\ uploads[n].phase \in {"published", "unfinalised"}
      /\ UNCHANGED <<copies, again, unanswered, unfinalised>>
  BY DEF TypeInv, OnSuccess, Sent, Live, LivePhase, RowState
<1>1. /\ DOMAIN items' = DOMAIN items
      /\ \A i \in DOMAIN items : items'[i].file = items[i].file
      /\ uploads[n].index \in DOMAIN items
      /\ items[uploads[n].index].file = uploads[n].file
      /\ items'[uploads[n].index].state = "success"
  BY <1>0, CallbackRow
<1>2. /\ DOMAIN uploads' = DOMAIN uploads
      /\ uploads'[n].file = uploads[n].file /\ uploads'[n].phase = "done"
      /\ \A m \in DOMAIN uploads : m # n => uploads'[m] = uploads[m]
  BY <1>0, UploadFinishes
<1>3. IndexFinds'
  BY <1>1, IndexStillFinds DEF UnshiftedInv, Callback
<1>4. DonePublished'
  BY <1>0, CallbackDone DEF SteadyInv, CopiesWereSent, Stored
<1>5. ASSUME NEW f \in File, SentOnce(f) PROVE SentOnce(f)'
  <2>1. CASE f = uploads[n].file
    <3>1. \A m \in Sent' : m \in Sent /\ m # n /\ uploads'[m] = uploads[m]
      BY <1>2 DEF Sent, Live, LivePhase
    <3>2. \A m \in DOMAIN uploads' : uploads'[m].phase \in Unpublished =>
              m \in DOMAIN uploads /\ uploads'[m] = uploads[m]
      BY <1>2 DEF Unpublished
    <3>3. \A i \in DOMAIN items' : items'[i].file = f => items'[i].state = "success"
      BY <1>1, <2>1 DEF SteadyInv, RowsDiffer
    <3>4. \A l, m \in Sent' : uploads'[l].file = f /\ uploads'[m].file = f => l = m
      BY <1>5, <3>1 DEF SentOnce
    <3>5. \A m \in DOMAIN uploads' :
              uploads'[m].file = f /\ uploads'[m].phase \in Unpublished => copies'[f] = 0
      BY <1>0, <1>5, <3>2 DEF SentOnce
    <3>. QED
      BY <1>0, <1>5, <3>3, <3>4, <3>5 DEF SentOnce
  <2>2. CASE f # uploads[n].file
    BY <1>0, <1>5, <2>2, OthersAside, AsideStays
  <2>. QED
    BY <2>1, <2>2
<1>6. OnceEach'
  BY <1>0, <1>5 DEF OnceEach, UnshiftedInv
<1>. QED
  BY <1>3, <1>4, <1>6 DEF UnshiftedInv, DonePublished, OnceEach

LEMMA ErrorUnshifted ==
    ASSUME TypeInv, UnshiftedInv, NEW n \in DOMAIN uploads, OnError(n)
    PROVE  UnshiftedInv'
<1>0. /\ TypeOK /\ n \in Sent /\ "error" \in RowState /\ SetProgress(n, "error")
      /\ Finish(n) /\ UNCHANGED <<copies, again, unfinalised>>
      /\ uploads[n].phase = "published" => uploads[n].file \in unanswered'
      /\ unanswered \subseteq unanswered'
  BY DEF TypeInv, OnError, Sent, RowState
<1>1. /\ DOMAIN items' = DOMAIN items
      /\ \A i \in DOMAIN items : items'[i].file = items[i].file
  BY <1>0, CallbackRow
<1>2. /\ DOMAIN uploads' = DOMAIN uploads
      /\ uploads'[n].file = uploads[n].file /\ uploads'[n].phase = "done"
      /\ \A m \in DOMAIN uploads : m # n => uploads'[m] = uploads[m]
  BY <1>0, UploadFinishes
<1>3. IndexFinds'
  BY <1>1, IndexStillFinds DEF UnshiftedInv, Callback
<1>4. DonePublished'
  BY <1>0, CallbackDone
<1>5. ASSUME NEW f \in File \ (again' \cup unanswered'), SentOnce(f) PROVE SentOnce(f)'
  <2>1. CASE f = uploads[n].file
    <3>1. uploads[n].phase \in Unpublished
      BY <1>0, <1>5, <2>1 DEF Sent, Live, LivePhase, Unpublished
    <3>2. copies[f] = 0 /\ copies'[f] = 0
      BY <1>0, <1>5, <2>1, <3>1 DEF SentOnce
    <3>3. \A m \in Sent' : m \in Sent /\ uploads'[m] = uploads[m]
      BY <1>2 DEF Sent, Live, LivePhase
    <3>4. \A l, m \in Sent' : uploads'[l].file = f /\ uploads'[m].file = f => l = m
      BY <1>5, <3>3 DEF SentOnce
    <3>. QED
      BY <3>2, <3>4 DEF SentOnce
  <2>2. CASE f # uploads[n].file
    BY <1>0, <1>5, <2>2, OthersAside, AsideStays
  <2>. QED
    BY <2>1, <2>2
<1>6. OnceEach'
  BY <1>0, <1>5 DEF OnceEach, UnshiftedInv
<1>. QED
  BY <1>3, <1>4, <1>6 DEF UnshiftedInv, DonePublished, OnceEach
LEMMA ShiftedStays == [Next]_vars /\ ~shifted' => ~shifted
BY DEF Next, Destination, AuthLoaded, SystemsLoaded, ChooseSystem, OrgsLoaded, OrgsFailed,
       ChooseOrg, Queue, AddPlainFile, DropFolder, Walked, UploadAll, RetryAllFailed,
       ClearCompleted, RetryOne, RemoveRow, KeepRows, Callback, OnProgress, Publish, FinaliseFails,
       Resend, OnSuccess, OnError, vars, queueVars

LEMMA QueueInit == Init => QueueInv
<1>. SUFFICES ASSUME Init PROVE UnshiftedInv
  BY SteadyInit DEF QueueInv
<1>1. DOMAIN items = {} /\ DOMAIN uploads = {} /\ \A f \in File : copies[f] = 0
  BY DEF Init
<1>. QED
  BY <1>1 DEF UnshiftedInv, IndexFinds, RowsIn, SentOnce, Sent, Running

LEMMA QueueStep == TypeInv /\ QueueInv /\ [Next]_vars => QueueInv'
<1>. SUFFICES ASSUME TypeInv, SteadyInv, UnshiftedInv, [Next]_vars, ~shifted'
              PROVE  UnshiftedInv'
  BY SteadyStep, ShiftedStays DEF QueueInv
<1>1. ASSUME UNCHANGED queueVars PROVE UnshiftedInv'
  BY <1>1 DEF queueVars, UnshiftedInv, IndexFinds, RowsIn, SentOnce, Sent, Running, Stored
<1>2. ASSUME NEW f \in File, AddPlainFile(f), Queue PROVE UnshiftedInv'
  <2>1. /\ <<f>> \in Seq(File) /\ Range(<<f>>) = {f} /\ f \notin Taken
        /\ AddFiles(<<f>>) /\ UNCHANGED <<uploads, copies, again, unanswered, unfinalised>>
    BY <1>2, EmptyAndSingle DEF AddPlainFile
  <2>2. Range(<<f>>) \cap Taken = {}
    BY <2>1
  <2>. QED
    BY <1>2, <2>1, <2>2, AddingUnshifted
<1>3. ASSUME NEW d \in Folder, DropFolder(d) PROVE UnshiftedInv'
  BY <1>3 DEF DropFolder, UnshiftedInv, IndexFinds, RowsIn, SentOnce, Sent, Running, Stored
<1>4. ASSUME NEW d \in Folder, Walked(d), Queue PROVE UnshiftedInv'
  <2>1. WalkEntry[d].files \in Seq(File)
    BY WalkType DEF Entry
  <2>2. /\ AddFiles(WalkEntry[d].files) /\ Range(WalkEntry[d].files) \cap Taken = {}
        /\ UNCHANGED <<uploads, copies, again, unanswered, unfinalised>>
    BY <1>4 DEF Walked, SteadyInv, WalkIsNew
  <2>. QED
    BY <1>4, <2>1, <2>2, AddingUnshifted
<1>5. ASSUME UploadAll, Queue PROVE UnshiftedInv'
  <2>1. /\ RowsIn("queued") \in SUBSET DOMAIN items
        /\ \A i \in RowsIn("queued") : items[i].state # "success"
    BY DEF RowsIn
  <2>. QED
    BY <1>5, <2>1, StartingUnshifted DEF UploadAll
<1>6. ASSUME RetryAllFailed, Queue PROVE UnshiftedInv'
  <2>1. /\ RowsIn("error") \in SUBSET DOMAIN items
        /\ \A i \in RowsIn("error") : items[i].state # "success"
    BY DEF RowsIn
  <2>2. Restates(RowsIn("error"), "queued")
    BY <1>6, RequeueRestates DEF RetryAllFailed, TypeInv
  <2>. QED
    BY <1>6, <2>1, <2>2, StartingUnshifted DEF RetryAllFailed
<1>7. ASSUME NEW i \in DOMAIN items, RetryOne(i), Queue PROVE UnshiftedInv'
  <2>1. {i} \in SUBSET DOMAIN items /\ \A j \in {i} : items[j].state # "success"
    BY <1>7 DEF RetryOne
  <2>2. Restates({i}, "queued")
    BY <1>7, RequeueRestates DEF RetryOne, TypeInv
  <2>. QED
    BY <1>7, <2>1, <2>2, StartingUnshifted DEF RetryOne
<1>8. ClearCompleted => UnshiftedInv'
  <2>1. {i \in DOMAIN items : items[i].state # "success"} \in SUBSET DOMAIN items
    OBVIOUS
  <2>. QED
    BY <2>1, KeepingUnshifted DEF ClearCompleted
<1>9. \A i \in DOMAIN items : RemoveRow(i) => UnshiftedInv'
  <2>1. \A i \in DOMAIN items : DOMAIN items \ {i} \in SUBSET DOMAIN items
    OBVIOUS
  <2>. QED
    BY <2>1, KeepingUnshifted DEF RemoveRow
<1>10. ASSUME NEW n \in DOMAIN uploads, Callback(n) PROVE UnshiftedInv'
  BY <1>10, ProgressUnshifted, PublishUnshifted, PhaseUnshifted, SuccessUnshifted, ErrorUnshifted
  DEF Callback
<1>11. CASE Destination
  BY <1>1, <1>11, DestinationLeavesQueue
<1>12. CASE UNCHANGED vars
  BY <1>1, <1>12 DEF vars
<1>13. CASE Queue
  BY <1>2, <1>3, <1>4, <1>5, <1>6, <1>7, <1>8, <1>9, <1>13 DEF Queue
<1>. QED
  BY <1>10, <1>11, <1>12, <1>13 DEF Next

\* While no row is cleared under a running upload, a row that says Done is a file
\* the server has, unless it is a large one whose finalise failed once its last byte
\* was recorded; and a file is stored once unless it was started again while it
\* was being sent, or the answer to a start that succeeded was lost.
THEOREM DoneFilesArePublished == Spec => []DoneIsPublishedOnce
<1>1. QueueInv => DoneIsPublishedOnce
  BY DEF QueueInv, UnshiftedInv, SentOnce, Stored, DoneIsPublishedOnce
<1>. QED
  BY <1>1, TypeInit, TypeStep, QueueInit, QueueStep, PTL DEF Spec
=============================================================================
