--------------------------- MODULE FilesPageProofs ---------------------------
(* Theorems about FilesPage and the layouts, for every set of files,         *)
(* folders and systems, every page size and limit of a list, and any number *)
(* of navigations and operations.                                           *)
EXTENDS FilesPage, SequenceTheorems, FiniteSetTheorems, TLAPS

-----------------------------------------------------------------------------
(* Induction.  The library's theorems take an operator; here a collection of *)
(* subsets of a finite set has a smallest member, and a set of naturals.    *)

\* Of any collection of subsets of a finite set, one has none below it.
LEMMA LeastSubset ==
    ASSUME NEW S, IsFiniteSet(S), NEW T, T \subseteq SUBSET S, T # {}
    PROVE  \E s \in T : \A t \in T : t \subseteq s => t = s
<1>1. T \subseteq FiniteSubsetsOf(S)
    BY FS_FiniteSubsetsOfFinite
<1>2. PICK s \in T : \A t \in T : <<t, s>> \notin StrictSubsetOrdering(S)
    BY <1>1, FS_StrictSubsetOrderingWellFounded, WFMin
<1>3. \A t \in T : <<t, s>> \in (SUBSET S) \X (SUBSET S)
    OBVIOUS
<1> QED
    BY <1>2, <1>3 DEF StrictSubsetOrdering

LEMMA LeastNumber ==
    ASSUME NEW T, T \subseteq Nat, T # {}
    PROVE  \E n \in T : \A m \in T : n <= m
<1>1. PICK m0 \in T : TRUE
    OBVIOUS
<1> DEFINE S == 0..m0
<1> DEFINE Fam == {s \in SUBSET S : \E n \in T : s = 0..n}
<1>2. IsFiniteSet(S)
    BY <1>1, FS_Interval
<1>3. 0..m0 \in Fam
    BY <1>1
<1>4. PICK s \in Fam : \A t \in Fam : t \subseteq s => t = s
  <2>1. Fam \subseteq SUBSET S /\ Fam # {}
    BY <1>3
  <2> HIDE DEF Fam, S
  <2> QED
    BY <1>2, <2>1, LeastSubset
<1>5. PICK n \in T : s = 0..n
    OBVIOUS
<1>6. ASSUME NEW m \in T, m < n PROVE FALSE
  <2>1. 0..m \subseteq s /\ 0..m \in Fam /\ n \in s /\ n \notin 0..m
    BY <1>4, <1>5, <1>6
  <2> QED
    BY <1>4, <2>1
<1> QED
    BY <1>5, <1>6

-----------------------------------------------------------------------------
(* At takes the elements of a sequence at a set of positions, in order.      *)

UpTo(S, i) == {j \in S : j <= i}
Rank(S, i) == Cardinality(UpTo(S, i))

LEMMA RankGrows ==
    ASSUME NEW S \in SUBSET Nat, IsFiniteSet(S)
    PROVE  /\ \A i \in S : Rank(S, i) \in 1..Cardinality(S)
           /\ \A i, j \in S : i < j => Rank(S, i) < Rank(S, j)
<1>1. \A i \in S : UpTo(S, i) \in SUBSET S /\ i \in UpTo(S, i)
  BY DEF UpTo
<1>2. \A i \in S : IsFiniteSet(UpTo(S, i)) /\ Rank(S, i) \in Nat
                   /\ Rank(S, i) <= Cardinality(S)
  BY <1>1, FS_Subset, FS_CardinalityType DEF Rank
<1>3. ASSUME NEW i \in S PROVE Rank(S, i) \in 1..Cardinality(S)
  <2>1. Rank(S, i) # 0
    BY <1>1, <1>2, FS_EmptySet DEF Rank
  <2>2. Cardinality(S) \in Nat
    BY FS_CardinalityType
  <2>. QED
    BY <1>2, <2>1, <2>2
<1>4. ASSUME NEW i \in S, NEW j \in S, i < j PROVE Rank(S, i) < Rank(S, j)
  <2>0. \A x \in S : x \in Nat /\ (x <= i => x <= j) /\ ~(j <= i)
    BY <1>4
  <2>1. UpTo(S, i) \in SUBSET UpTo(S, j) /\ j \notin UpTo(S, i)
    BY <2>0 DEF UpTo
  <2>2. /\ Rank(S, i) <= Rank(S, j)
        /\ Rank(S, i) = Rank(S, j) => UpTo(S, i) = UpTo(S, j)
    BY <1>2, <2>1, FS_Subset DEF Rank
  <2>. QED
    BY <1>1, <1>2, <2>1, <2>2
<1>. QED
  BY <1>3, <1>4

\* Every position is counted once.
LEMMA NthProperties ==
    ASSUME NEW S \in SUBSET (Nat \ {0}), IsFiniteSet(S)
    PROVE  /\ \A k \in 1..Cardinality(S) : Nth(S, k) \in S
           /\ \A i \in S : \E k \in 1..Cardinality(S) : Nth(S, k) = i
           /\ \A j, k \in 1..Cardinality(S) : Nth(S, j) = Nth(S, k) => j = k
<1>. DEFINE n == Cardinality(S)
            rank == [i \in S |-> Rank(S, i)]
<1>1. n \in Nat
  BY FS_CardinalityType
<1>2. /\ \A i \in S : Rank(S, i) \in 1..n
      /\ \A i, j \in S : i < j => Rank(S, i) < Rank(S, j)
  BY RankGrows
<1>3. \A i, j \in S : Rank(S, i) = Rank(S, j) => i = j
  <2>1. \A i, j \in S : i < j \/ j < i \/ i = j
    OBVIOUS
  <2>. QED
    BY <1>1, <1>2, <2>1
<1>4. \A k \in 1..n : \E i \in S : Rank(S, i) = k
  <2>1. rank \in Injection(S, 1..n)
    BY <1>2, <1>3 DEF Injection, IsInjective
  <2>2. IsFiniteSet(1..n) /\ Cardinality(1..n) = n
    BY <1>1, FS_Interval
  <2>3. rank \in Surjection(S, 1..n)
    BY <2>1, <2>2, FS_Injection
  <2>. QED
    BY <2>3 DEF Surjection
<1>5. \A k \in 1..n : Nth(S, k) \in S /\ Rank(S, Nth(S, k)) = k
  BY <1>4 DEF Nth, Rank, UpTo
<1>6. \A i \in S : Nth(S, Rank(S, i)) = i
  BY <1>2, <1>3, <1>5
<1>. QED
  BY <1>2, <1>5, <1>6

\* What stands at the positions I is taken as often as it stands there.
LEMMA AtProperties ==
    ASSUME NEW T, NEW s \in Seq(T), NEW I \in SUBSET (DOMAIN s)
    PROVE  /\ At(s, I) \in Seq(T)
           /\ Len(At(s, I)) = Cardinality(I) /\ Cardinality(I) \in Nat
           /\ Range(At(s, I)) = {s[i] : i \in I}
           /\ (\A i, j \in I : s[i] = s[j] => i = j) => IsInjective(At(s, I))
<1>1. DOMAIN s = 1..Len(s) /\ Len(s) \in Nat /\ \A i \in 1..Len(s) : s[i] \in T
  BY LenProperties, ElementOfSeq
<1>2. IsFiniteSet(I) /\ Cardinality(I) \in Nat /\ I \in SUBSET (Nat \ {0})
  <2>1. IsFiniteSet(1..Len(s)) /\ I \in SUBSET (1..Len(s))
    BY <1>1, FS_Interval
  <2>2. IsFiniteSet(I) /\ Cardinality(I) \in Nat
    BY <2>1, FS_Subset, FS_CardinalityType
  <2>. QED
    BY <1>1, <2>1, <2>2
<1>3. /\ \A k \in 1..Cardinality(I) : Nth(I, k) \in I
      /\ \A i \in I : \E k \in 1..Cardinality(I) : Nth(I, k) = i
      /\ \A j, k \in 1..Cardinality(I) : Nth(I, j) = Nth(I, k) => j = k
  BY <1>2, NthProperties
<1>4. /\ At(s, I) \in [1..Cardinality(I) -> T]
      /\ \A k \in 1..Cardinality(I) : At(s, I)[k] = s[Nth(I, k)]
  BY <1>1, <1>3 DEF At
<1>5. At(s, I) \in Seq(T) /\ Len(At(s, I)) = Cardinality(I)
      /\ DOMAIN At(s, I) = 1..Cardinality(I)
  BY <1>2, <1>4, IsASeq, LenProperties
<1>6. Range(At(s, I)) = {s[i] : i \in I}
  BY <1>3, <1>4, <1>5 DEF Range
<1>7. ASSUME \A i, j \in I : s[i] = s[j] => i = j PROVE IsInjective(At(s, I))
  BY <1>3, <1>4, <1>5, <1>7 DEF IsInjective
<1>. QED
  BY <1>2, <1>5, <1>6, <1>7

LEMMA OnlyProperties ==
    ASSUME NEW T, NEW s \in Seq(T), NEW S
    PROVE  /\ Only(s, S) \in Seq(T)
           /\ Range(Only(s, S)) = Range(s) \cap S
           /\ Len(Only(s, S)) = Cardinality({i \in DOMAIN s : s[i] \in S})
           /\ Len(Only(s, S)) \in Nat
           /\ IsInjective(s) => IsInjective(Only(s, S))
<1>. DEFINE I == {i \in DOMAIN s : s[i] \in S}
<1>1. I \in SUBSET (DOMAIN s) /\ Only(s, S) = At(s, I)
  BY DEF Only
<1>2. {s[i] : i \in I} = Range(s) \cap S
  BY DEF Range
<1>3. IsInjective(s) => \A i, j \in I : s[i] = s[j] => i = j
  BY DEF IsInjective
<1>. HIDE DEF I
<1>4. /\ At(s, I) \in Seq(T)
      /\ Len(At(s, I)) = Cardinality(I) /\ Cardinality(I) \in Nat
      /\ Range(At(s, I)) = {s[i] : i \in I}
      /\ (\A i, j \in I : s[i] = s[j] => i = j) => IsInjective(At(s, I))
  BY <1>1, AtProperties
<1>. QED
  BY <1>1, <1>2, <1>3, <1>4 DEF I

\* Each value is kept, where it stands first.
LEMMA DistinctProperties ==
    ASSUME NEW T, NEW s \in Seq(T)
    PROVE  /\ Distinct(s) \in Seq(T)
           /\ Range(Distinct(s)) = Range(s)
           /\ IsInjective(Distinct(s))
<1>. DEFINE I == {i \in DOMAIN s : \A j \in DOMAIN s : s[j] = s[i] => i <= j}
<1>1. DOMAIN s = 1..Len(s) /\ Len(s) \in Nat
  BY LenProperties
<1>2. ASSUME NEW i \in DOMAIN s PROVE \E j \in I : s[j] = s[i]
  <2>. DEFINE same == {j \in DOMAIN s : s[j] = s[i]}
  <2>1. same \subseteq Nat /\ same # {}
    BY <1>1
  <2>2. PICK j \in same : \A k \in same : j <= k
    <3>. HIDE DEF same
    <3>. QED
      BY <2>1, LeastNumber
  <2>. QED
    BY <2>2
<1>3. \A i, j \in I : s[i] = s[j] => i = j
  <2>. SUFFICES ASSUME NEW i \in I, NEW j \in I, s[i] = s[j] PROVE i = j
    OBVIOUS
  <2>1. i <= j /\ j <= i /\ i \in Nat /\ j \in Nat
    BY <1>1
  <2>. QED
    BY <2>1
<1>4. I \in SUBSET (DOMAIN s) /\ Distinct(s) = At(s, I) /\ {s[i] : i \in I} = Range(s)
  BY <1>2 DEF Distinct, Range
<1>. HIDE DEF I
<1>5. /\ At(s, I) \in Seq(T)
      /\ Range(At(s, I)) = {s[i] : i \in I}
      /\ (\A i, j \in I : s[i] = s[j] => i = j) => IsInjective(At(s, I))
  BY <1>4, AtProperties
<1>. QED
  BY <1>3, <1>4, <1>5

\* A sequence that repeats nothing is as long as what it holds is many.
LEMMA InjectiveLength ==
    ASSUME NEW T, NEW s \in Seq(T), IsInjective(s)
    PROVE  IsFiniteSet(Range(s)) /\ Cardinality(Range(s)) = Len(s)
<1>1. s \in [1..Len(s) -> Range(s)] /\ Len(s) \in Nat /\ DOMAIN s = 1..Len(s)
  BY LenProperties DEF Range
<1>2. s \in Surjection(1..Len(s), Range(s)) /\ s \in Injection(1..Len(s), Range(s))
  BY <1>1 DEF Surjection, Injection, Range
<1>3. IsFiniteSet(1..Len(s)) /\ Cardinality(1..Len(s)) = Len(s)
  <2>1. /\ IsFiniteSet(1..Len(s))
        /\ Cardinality(1..Len(s)) = IF 1 > Len(s) THEN 0 ELSE Len(s) - 1 + 1
    BY <1>1, FS_Interval
  <2>. QED
    BY <1>1, <2>1
<1>. QED
  BY <1>2, <1>3, FS_Surjection

LEMMA TakeProperties ==
    ASSUME NEW T, NEW s \in Seq(T), NEW n \in Nat
    PROVE  /\ Take(s, n) \in Seq(T)
           /\ Len(Take(s, n)) = IF n < Len(s) THEN n ELSE Len(s)
           /\ Len(Take(s, n)) \in Nat /\ Len(Take(s, n)) <= Len(s)
           /\ Range(Take(s, n)) \subseteq Range(s)
           /\ Len(s) <= n => Take(s, n) = s
           /\ IsInjective(s) => IsInjective(Take(s, n))
<1>. DEFINE m == IF n < Len(s) THEN n ELSE Len(s)
            t == SubSeq(s, 1, m)
<1>1. Len(s) \in Nat /\ DOMAIN s = 1..Len(s) /\ m \in Nat /\ m <= Len(s)
  BY LenProperties
<1>2. \A i \in 1..m : s[i] \in T /\ i \in DOMAIN s
  BY <1>1, ElementOfSeq
<1>3. /\ t \in Seq(T) /\ Len(t) = m
      /\ \A i \in 1..m : t[i] = s[i]
  <2>1. /\ t \in Seq(T)
        /\ Len(t) = IF 1 <= m THEN m - 1 + 1 ELSE 0
        /\ \A i \in 1..m-1+1 : t[i] = s[1 + i - 1]
    <3>. HIDE DEF m
    <3>. QED
      BY <1>1, <1>2, SubSeqProperties
  <2>2. \A i \in 1..m : i \in 1..m-1+1 /\ 1 + i - 1 = i
    BY <1>1
  <2>3. (IF 1 <= m THEN m - 1 + 1 ELSE 0) = m
    <3>. HIDE DEF m
    <3>. QED
      BY <1>1
  <2>. HIDE DEF m, t
  <2>. QED
    BY <2>1, <2>2, <2>3
<1>4. DOMAIN t = 1..m
  BY <1>3, LenProperties
<1>5. Range(t) \subseteq Range(s)
  BY <1>2, <1>3, <1>4 DEF Range
<1>6. IsInjective(s) => IsInjective(t)
  BY <1>2, <1>3, <1>4 DEF IsInjective
<1>7. Len(s) <= n => t = s
  <2>0. \A k \in Nat : k <= n => (IF n < k THEN n ELSE k) = k
    OBVIOUS
  <2>1. Len(s) <= n => m = Len(s)
    BY <1>1, <2>0
  <2>. HIDE DEF m, t
  <2>. QED
    BY <1>1, <1>3, <2>1, SeqEqual
<1>8. Take(s, n) = t
  BY DEF Take
<1>. HIDE DEF t
<1>. QED
  BY <1>1, <1>3, <1>5, <1>6, <1>7, <1>8


-----------------------------------------------------------------------------
(* Sums.  SumFunctionOnSet is a fold, defined by recursion over the subsets  *)
(* of its index set, and the recursion has to be shown to define a function. *)

First(s) == CHOOSE x \in s : TRUE

\* One unfolding of the fold that SumFunctionOnSet(fun, s) is.
Unfold(g, fun, s) == IF s = {} THEN 0 ELSE fun[First(s)] + g[s \ {First(s)}]

IsFold(g, fun, S) == g = [s \in SUBSET S |-> Unfold(g, fun, s)]

LEMMA FirstIn == ASSUME NEW s, s # {} PROVE First(s) \in s
BY DEF First

Upto(S, n) == {s \in SUBSET S : Cardinality(s) <= n}

PartFold(g, fun, S, n) == g = [s \in Upto(S, n) |-> Unfold(g, fun, s)]

LEMMA FoldGrows ==
    ASSUME NEW fun, NEW S, IsFiniteSet(S), NEW n \in Nat, 
           NEW g, PartFold(g, fun, S, n)
    PROVE  \E h : PartFold(h, fun, S, n + 1)
<1> DEFINE h == [s \in Upto(S, n + 1) |->
                    IF s \in Upto(S, n) THEN g[s] ELSE Unfold(g, fun, s)]
<1>1. ASSUME NEW s \in Upto(S, n + 1), s # {}
      PROVE  /\ s \ {First(s)} \in Upto(S, n) 
             /\ s \ {First(s)} \in Upto(S, n + 1)
  <2>1. First(s) \in s /\ s \in SUBSET S /\ IsFiniteSet(s)
        /\ Cardinality(s) \in Nat /\ Cardinality(s) <= n + 1
    BY <1>1, FirstIn, FS_Subset, FS_CardinalityType DEF Upto
  <2>2. Cardinality(s \ {First(s)}) = Cardinality(s) - 1
    BY <2>1, FS_RemoveElement
  <2> QED
    BY <2>1, <2>2 DEF Upto
<1>2. ASSUME NEW s \in Upto(S, n) PROVE s \in Upto(S, n + 1)
  <2>1. Cardinality(s) \in Nat
    BY <1>2, FS_Subset, FS_CardinalityType DEF Upto
  <2> QED
    BY <2>1 DEF Upto
<1>3. ASSUME NEW s \in Upto(S, n) PROVE h[s] = g[s] /\ g[s] = Unfold(g, fun, s)
    BY <1>2 DEF PartFold
<1>4. ASSUME NEW s \in Upto(S, n + 1) PROVE h[s] = Unfold(h, fun, s)
  <2>1. h[s] = Unfold(g, fun, s)
    BY <1>3, <1>4
  <2>2. s # {} => h[s \ {First(s)}] = g[s \ {First(s)}]
    BY <1>1, <1>3, <1>4
  <2> QED
    BY <2>1, <2>2 DEF Unfold
<1>5. h = [s \in Upto(S, n + 1) |-> Unfold(h, fun, s)]
    BY <1>4
<1> QED
    BY <1>5 DEF PartFold

LEMMA FoldExists ==
    ASSUME NEW fun, NEW S, IsFiniteSet(S)
    PROVE  \E g : IsFold(g, fun, S)
<1> DEFINE Bad == {n \in Nat : ~ \E g : PartFold(g, fun, S, n)}
<1>1. \E g : PartFold(g, fun, S, 0)
  <2> DEFINE g == [s \in Upto(S, 0) |-> 0]
  <2>1. ASSUME NEW s \in Upto(S, 0) PROVE s = {}
    <3>1. IsFiniteSet(s) /\ Cardinality(s) \in Nat /\ Cardinality(s) <= 0
      BY <2>1, FS_Subset, FS_CardinalityType DEF Upto
    <3> QED
      BY <3>1, FS_EmptySet
  <2>2. g = [s \in Upto(S, 0) |-> Unfold(g, fun, s)]
    BY <2>1 DEF Unfold
  <2> QED
    BY <2>2 DEF PartFold
<1>2. Bad = {}
  <2> SUFFICES ASSUME Bad # {} PROVE FALSE
    OBVIOUS
  <2>1. PICK n \in Bad : \A m \in Bad : n <= m
    <3>1. Bad \subseteq Nat
      OBVIOUS
    <3> HIDE DEF Bad
    <3> QED
      BY <3>1, LeastNumber
  <2>2. n # 0
    BY <1>1
  <2>3. n - 1 \in Nat /\ n - 1 \notin Bad
    BY <2>1, <2>2
  <2>4. PICK g : PartFold(g, fun, S, n - 1)
    BY <2>3
  <2>5. \E h : PartFold(h, fun, S, (n - 1) + 1)
    BY <2>3, <2>4, FoldGrows
  <2> QED
    BY <2>1, <2>3, <2>5
<1>3. Cardinality(S) \in Nat
    BY FS_CardinalityType
<1>4. PICK g : PartFold(g, fun, S, Cardinality(S))
    BY <1>2, <1>3
<1>5. Upto(S, Cardinality(S)) = SUBSET S
    BY FS_Subset DEF Upto
<1> QED
    BY <1>4, <1>5 DEF PartFold, IsFold

\* What the sum is: the value at S of some fold over the subsets of S.
LEMMA SumIsFold ==
    ASSUME NEW fun, NEW S, IsFiniteSet(S)
    PROVE  \E g : IsFold(g, fun, S) /\ SumFunctionOnSet(fun, S) = g[S]
<1>1. SumFunctionOnSet(fun, S) = (CHOOSE g : IsFold(g, fun, S))[S]
    BY DEF SumFunctionOnSet, FoldFunctionOnSet, MapThenFoldSet, IsFold, Unfold,
      First
<1> QED
    BY <1>1, FoldExists

\* The sizes of parts that do not overlap add up to the size of the whole.
LEMMA SumOfParts ==
    ASSUME NEW S, IsFiniteSet(S), NEW D, IsFiniteSet(D),
           NEW P \in [S -> SUBSET D], NEW fun,
           \A x \in S : fun[x] = Cardinality(P[x]),
           \A x, y \in S : x # y => P[x] \cap P[y] = {}
    PROVE  SumFunctionOnSet(fun, S) = Cardinality(UNION {P[x] : x \in S})
<1>. DEFINE whole(s) == UNION {P[x] : x \in s}
<1>1. PICK g : IsFold(g, fun, S) /\ SumFunctionOnSet(fun, S) = g[S]
  BY SumIsFold
<1>. DEFINE Off == {s \in SUBSET S : g[s] # Cardinality(whole(s))}
<1>2. ASSUME Off # {} PROVE FALSE
  <2>1. PICK s \in Off : \A t \in Off : t \subseteq s => t = s
    <3>1. Off \subseteq SUBSET S
      OBVIOUS
    <3>. HIDE DEF Off
    <3>. QED
      BY <1>2, <3>1, LeastSubset
  <2>2. s \in SUBSET S /\ g[s] # Cardinality(whole(s))
    OBVIOUS
  <2>3. g[s] = Unfold(g, fun, s)
    BY <1>1, <2>2 DEF IsFold
  <2>4. s # {}
    <3>1. s = {} => whole(s) = {}
      OBVIOUS
    <3>. QED
      BY <2>2, <2>3, <3>1, FS_EmptySet DEF Unfold
  <2>. DEFINE y == First(s)
              rest == s \ {y}
  <2>5. y \in s /\ y \in S /\ rest \in SUBSET S /\ rest \subseteq s /\ rest # s
    BY <2>2, <2>4, FirstIn
  <2>6. g[s] = fun[y] + g[rest]
    BY <2>3, <2>4 DEF Unfold
  <2>. HIDE DEF y
  <2>7. g[rest] = Cardinality(whole(rest))
    <3>1. rest \notin Off
      <4>. HIDE DEF Off, rest
      <4>. QED
        BY <2>1, <2>5
    <3>. HIDE DEF whole, rest
    <3>. QED
      BY <2>5, <3>1
  <2>8. whole(s) = P[y] \cup whole(rest) /\ P[y] \cap whole(rest) = {}
    <3>1. s = {y} \cup rest
      BY <2>5
    <3>2. \A x \in rest : P[y] \cap P[x] = {}
      BY <2>5
    <3>. QED
      BY <2>5, <3>1, <3>2
  <2>9. P[y] \in SUBSET D /\ whole(rest) \in SUBSET D
    BY <2>5
  <2>10. fun[y] = Cardinality(P[y])
    BY <2>5
  <2>. HIDE DEF whole, rest
  <2>11. /\ IsFiniteSet(P[y]) /\ Cardinality(P[y]) \in Nat
         /\ IsFiniteSet(whole(rest)) /\ Cardinality(whole(rest)) \in Nat
    BY <2>9, FS_Subset, FS_CardinalityType
  <2>12. Cardinality(P[y] \cup whole(rest))
            = Cardinality(P[y]) + Cardinality(whole(rest)) - Cardinality({})
    BY <2>8, <2>11, FS_Union
  <2>13. Cardinality(whole(s)) = Cardinality(P[y]) + Cardinality(whole(rest))
    BY <2>8, <2>11, <2>12, FS_EmptySet
  <2>. QED
    BY <2>2, <2>6, <2>7, <2>10, <2>13
<1>3. g[S] = Cardinality(whole(S))
  <2>. HIDE DEF whole
  <2>. QED
    BY <1>2
<1>. QED
  BY <1>1, <1>3

-----------------------------------------------------------------------------
(* The layouts.  Each of them puts every file in one class, and the lane of  *)
(* a class holds the rows of it.                                            *)

LEMMA LaneProperties ==
    ASSUME NEW T, NEW s \in Seq(T), NEW n \in Nat
    PROVE  /\ Range(Lane(s, n).shown) \subseteq Range(s)
           /\ Len(Lane(s, n).shown) + Lane(s, n).more = Len(s)
<1>1. Len(s) \in Nat
  BY LenProperties
<1>2. /\ Range(Take(s, n)) \subseteq Range(s)
      /\ Len(Take(s, n)) \in Nat
  BY TakeProperties
<1>3. Lane(s, n).shown = Take(s, n) /\ Lane(s, n).more = Len(s) - Len(Take(s, n))
  BY DEF Lane
<1>4. \A a, b \in Nat : a + (b - a) = b
  OBVIOUS
<1>. QED
  BY <1>1, <1>2, <1>3, <1>4

LEMMA ClassesPartition ==
    ASSUME NEW rows \in Seq(File), IsInjective(rows),
           NEW L, IsFiniteSet(L), NEW class \in [L -> SUBSET File],
           NEW lanes, DOMAIN lanes = L,
           \A l \in L : \E n \in Nat : lanes[l] = Lane(Only(rows, class[l]), n),
           \A f \in Range(rows) : \E l \in L : f \in class[l],
           \A l, m \in L : l # m => class[l] \cap class[m] = {}
    PROVE  Partition(rows, lanes)
<1>. DEFINE D == DOMAIN rows
            P == [l \in L |-> {i \in D : rows[i] \in class[l]}]
            size == [l \in L |-> Len(lanes[l].shown) + lanes[l].more]
<1>1. D = 1..Len(rows) /\ Len(rows) \in Nat /\ IsFiniteSet(D) /\ Cardinality(D) = Len(rows)
  <2>1. D = 1..Len(rows) /\ Len(rows) \in Nat
    BY LenProperties
  <2>2. /\ IsFiniteSet(1..Len(rows))
        /\ Cardinality(1..Len(rows)) = IF 1 > Len(rows) THEN 0 ELSE Len(rows) - 1 + 1
    BY <2>1, FS_Interval
  <2>. HIDE DEF D
  <2>. QED
    BY <2>1, <2>2
<1>2. ASSUME NEW l \in L
      PROVE  /\ Range(lanes[l].shown) \subseteq Range(rows) \cap class[l]
             /\ size[l] = Cardinality(P[l])
  <2>1. PICK n \in Nat : lanes[l] = Lane(Only(rows, class[l]), n)
    OBVIOUS
  <2>2. /\ Only(rows, class[l]) \in Seq(File)
        /\ Range(Only(rows, class[l])) = Range(rows) \cap class[l]
        /\ Len(Only(rows, class[l])) = Cardinality(P[l])
    <3>1. P[l] = {i \in DOMAIN rows : rows[i] \in class[l]}
      OBVIOUS
    <3>. HIDE DEF P
    <3>2. /\ Only(rows, class[l]) \in Seq(File)
          /\ Range(Only(rows, class[l])) = Range(rows) \cap class[l]
          /\ Len(Only(rows, class[l])) = Cardinality({i \in DOMAIN rows : rows[i] \in class[l]})
      BY ONLY rows \in Seq(File), OnlyProperties
    <3>. QED
      BY <3>1, <3>2
  <2>3. /\ Range(lanes[l].shown) \subseteq Range(Only(rows, class[l]))
        /\ Len(lanes[l].shown) + lanes[l].more = Len(Only(rows, class[l]))
    BY <2>1, <2>2, LaneProperties
  <2>. HIDE DEF P
  <2>. QED
    BY <2>2, <2>3
<1>3. ASSUME NEW f \in Range(rows)
      PROVE  Cardinality({l \in L : f \in Range(lanes[l].shown)}) <= 1
  <2>1. PICK m \in L : f \in class[m]
    OBVIOUS
  <2>2. \A l \in L : f \in Range(lanes[l].shown) => l = m
    BY <1>2, <2>1
  <2>3. {l \in L : f \in Range(lanes[l].shown)} \in SUBSET {m}
    BY <2>2
  <2>4. IsFiniteSet({m}) /\ Cardinality({m}) = 1
    BY FS_Singleton
  <2>. QED
    BY <2>3, <2>4, FS_Subset
<1>4. P \in [L -> SUBSET D] /\ \A l, m \in L : l # m => P[l] \cap P[m] = {}
  OBVIOUS
<1>5. UNION {P[l] : l \in L} = D
  <2>1. ASSUME NEW i \in D PROVE \E l \in L : i \in P[l]
    <3>1. rows[i] \in Range(rows)
      BY DEF Range
    <3>2. PICK l \in L : rows[i] \in class[l]
      BY <3>1
    <3>. QED
      BY <3>2
  <2>2. \A l \in L : P[l] \subseteq D
    OBVIOUS
  <2>. HIDE DEF D, P
  <2>. QED
    BY <2>1, <2>2
<1>6. SumFunctionOnSet(size, L) = Cardinality(D)
  <2>. HIDE DEF D, P, size
  <2>1. SumFunctionOnSet(size, L) = Cardinality(UNION {P[l] : l \in L})
    <3>1. /\ IsFiniteSet(L) /\ IsFiniteSet(D) /\ P \in [L -> SUBSET D]
          /\ \A l \in L : size[l] = Cardinality(P[l])
          /\ \A l, m \in L : l # m => P[l] \cap P[m] = {}
      BY <1>1, <1>2, <1>4
    <3>. QED
      BY ONLY <3>1, SumOfParts
  <2>. QED
    BY <1>5, <2>1
<1>7. SumFunction([l \in DOMAIN lanes |-> Len(lanes[l].shown) + lanes[l].more]) = Len(rows)
  <2>1. DOMAIN size = L /\ size = [l \in DOMAIN lanes |-> Len(lanes[l].shown) + lanes[l].more]
    OBVIOUS
  <2>. HIDE DEF D, size
  <2>. QED
    BY <1>1, <1>6, <2>1 DEF SumFunction
<1>. QED
  BY <1>3, <1>7 DEF Partition

LEMMA FinitePositions == ASSUME NEW T, NEW s \in Seq(T) PROVE IsFiniteSet(DOMAIN s)
<1>1. DOMAIN s = 1..Len(s) /\ Len(s) \in Nat
  BY LenProperties
<1>. QED
  BY <1>1, FS_Interval

LEMMA RowsAreFiles ==
    ASSUME NEW rows \in Seq(File)
    PROVE  /\ \A i \in DOMAIN rows : rows[i] \in File
           /\ \A f \in Range(rows) : f \in File
<1>1. \A i \in DOMAIN rows : rows[i] \in File
  BY LenProperties, ElementOfSeq
<1>. QED
  BY <1>1 DEF Range

LEMMA FileFinite == /\ Modified \in Seq(File) /\ IsInjective(Modified)
                    /\ IsFiniteSet(File) /\ Cardinality(File) = Len(Modified)
                    /\ Cardinality(File) \in Nat
<1>1. Modified \in Seq(File) /\ IsInjective(Modified)
  BY LayoutsAssumption
<1>2. IsFiniteSet(File) /\ Cardinality(File) = Len(Modified)
  BY <1>1, InjectiveLength DEF File
<1>. QED
  BY <1>1, <1>2, FS_CardinalityType

\* The values a field has in the rows, and the position of each in the columns.
LEMMA ColumnOfRow ==
    ASSUME NEW rows \in Seq(File), NEW field,
           NEW values, values \in Seq({field[f] : f \in File}), DOMAIN values = DOMAIN rows,
           \A i \in DOMAIN rows : values[i] = field[rows[i]]
    PROVE  LET columns == Distinct(values) IN
           /\ IsFiniteSet(DOMAIN columns)
           /\ IsInjective(columns)
           /\ \A f \in Range(rows) : \E c \in DOMAIN columns : field[f] = columns[c]
           /\ \A c \in DOMAIN columns : \E f \in Range(rows) : field[f] = columns[c]
<1>. DEFINE columns == Distinct(values)
<1>3. /\ columns \in Seq({field[f] : f \in File})
      /\ Range(columns) = Range(values)
      /\ IsInjective(columns)
  BY DistinctProperties
<1>4. Range(values) = {field[f] : f \in Range(rows)}
  BY DEF Range
<1>. HIDE DEF columns
<1>5. \A f \in Range(rows) : \E c \in DOMAIN columns : field[f] = columns[c]
  <2>1. \A f \in Range(rows) : field[f] \in Range(columns)
    BY <1>3, <1>4
  <2>. QED
    BY <2>1 DEF Range
<1>6. \A c \in DOMAIN columns : \E f \in Range(rows) : field[f] = columns[c]
  <2>1. \A c \in DOMAIN columns : columns[c] \in Range(columns)
    BY DEF Range
  <2>. QED
    BY <1>3, <1>4, <2>1
<1>7. IsFiniteSet(DOMAIN columns)
  BY <1>3, FinitePositions
<1>. QED
  BY <1>3, <1>5, <1>6, <1>7 DEF columns

\* Lanes by the values of a field: the columns may be fixed or those that occur.
LEMMA ColumnsPartition ==
    ASSUME NEW rows \in Seq(File), IsInjective(rows),
           NEW field, NEW columns, IsFiniteSet(DOMAIN columns), IsInjective(columns),
           \A f \in Range(rows) : \E c \in DOMAIN columns : field[f] = columns[c],
           NEW class \in [DOMAIN columns -> SUBSET File],
           \A c \in DOMAIN columns, f \in File : f \in class[c] <=> field[f] = columns[c],
           NEW lanes, DOMAIN lanes = DOMAIN columns,
           \A c \in DOMAIN columns : \E n \in Nat : lanes[c] = Lane(Only(rows, class[c]), n)
    PROVE  Partition(rows, lanes)
<1>2. \A f \in Range(rows) : f \in File
  BY RowsAreFiles
<1>3. \A f \in Range(rows) : \E c \in DOMAIN columns : f \in class[c]
  BY <1>2
<1>4. \A c, d \in DOMAIN columns : c # d => class[c] \cap class[d] = {}
  BY DEF IsInjective
<1>. QED
  BY <1>3, <1>4, ClassesPartition

LEMMA LimitsAreNumbers == LaneSize \in Nat /\ CellSize \in Nat
BY LayoutsAssumption

LEMMA WholeIsLane ==
    ASSUME NEW rows \in Seq(File), NEW S
    PROVE  \E n \in Nat : Whole(Only(rows, S)) = Lane(Only(rows, S), n)
<1>1. Len(Only(rows, S)) \in Nat
  BY OnlyProperties
<1>. QED
  BY <1>1 DEF Whole

LEMMA BoardPartitions ==
    ASSUME NEW rows \in Seq(File), IsInjective(rows), NEW group \in {"status", "owner"}
    PROVE  Partition(rows, Board(rows, group))
<1>. DEFINE lanes == Board(rows, group)
<1>1. CASE group = "status"
  <2>. DEFINE field == [f \in File |-> StatusToCol(f)]
              columns == STATUS_COLUMNS
              class == [c \in DOMAIN columns |-> {f \in File : StatusToCol(f) = columns[c]}]
  <2>1. /\ columns \in Seq({"Inbox", "Review", "Approved", "Archived"})
        /\ IsInjective(columns)
        /\ DOMAIN columns = 1..4 /\ IsFiniteSet(DOMAIN columns)
        /\ columns[1] = "Inbox" /\ columns[2] = "Review"
        /\ columns[3] = "Approved" /\ columns[4] = "Archived"
    <3>1. DOMAIN columns = 1..4 /\ columns \in Seq({"Inbox", "Review", "Approved", "Archived"})
      BY DEF STATUS_COLUMNS
    <3>2. IsFiniteSet(DOMAIN columns)
      BY <3>1, FinitePositions
    <3>. QED
      BY <3>1, <3>2 DEF STATUS_COLUMNS, IsInjective
  <2>2. \A f \in File : field[f] \in {"Inbox", "Review", "Approved", "Archived"}
    BY DEF StatusToCol
  <2>3. /\ class \in [DOMAIN columns -> SUBSET File]
        /\ \A c \in DOMAIN columns, f \in File : f \in class[c] <=> field[f] = columns[c]
    OBVIOUS
  <2>4. lanes = [c \in DOMAIN columns |->
                    Lane(Only(rows, {f \in File : StatusToCol(f) = columns[c]}), LaneSize)]
    BY <1>1 DEF Board
  <2>5. DOMAIN lanes = DOMAIN columns
        /\ \A c \in DOMAIN columns : lanes[c] = Lane(Only(rows, class[c]), LaneSize)
    BY <2>4
  <2>. HIDE DEF lanes, field, class, columns
  <2>6. \A f \in Range(rows) : \E c \in DOMAIN columns : field[f] = columns[c]
    BY <2>1, <2>2, RowsAreFiles
  <2>7. \A c \in DOMAIN columns : \E n \in Nat : lanes[c] = Lane(Only(rows, class[c]), n)
    BY <2>5, LimitsAreNumbers
  <2>8. Partition(rows, lanes)
    <3>1. IsFiniteSet(DOMAIN columns) /\ IsInjective(columns)
      BY <2>1
    <3>. QED
      BY <2>3, <2>5, <2>6, <2>7, <3>1, ColumnsPartition
  <2>. QED
    BY <2>8 DEF lanes
<1>2. CASE group = "owner"
  <2>. DEFINE field == [f \in File |-> OwnerOf[f]]
              columns == Distinct([i \in DOMAIN rows |-> field[rows[i]]])
              class == [c \in DOMAIN columns |-> {f \in File : OwnerOf[f] = columns[c]}]
  <2>1. [i \in DOMAIN rows |-> field[rows[i]]] = [i \in DOMAIN rows |-> OwnerOf[rows[i]]]
    BY RowsAreFiles
  <2>2. lanes = [c \in DOMAIN columns |->
                    Lane(Only(rows, {f \in File : OwnerOf[f] = columns[c]}), LaneSize)]
    BY <1>2, <2>1 DEF Board
  <2>4. /\ class \in [DOMAIN columns -> SUBSET File]
        /\ \A c \in DOMAIN columns, f \in File : f \in class[c] <=> field[f] = columns[c]
    <3>. HIDE DEF columns
    <3>. QED
      OBVIOUS
  <2>5. DOMAIN lanes = DOMAIN columns
        /\ \A c \in DOMAIN columns : lanes[c] = Lane(Only(rows, class[c]), LaneSize)
    <3>. HIDE DEF columns
    <3>. QED
      BY <2>2
  <2>. HIDE DEF lanes, field, class
  <2>6. /\ IsFiniteSet(DOMAIN columns) /\ IsInjective(columns)
        /\ \A f \in Range(rows) : \E c \in DOMAIN columns : field[f] = columns[c]
    <3>. DEFINE values == [i \in DOMAIN rows |-> field[rows[i]]]
    <3>1. columns = Distinct(values)
      OBVIOUS
    <3>2. /\ values \in Seq({field[f] : f \in File}) /\ DOMAIN values = DOMAIN rows
          /\ \A i \in DOMAIN rows : values[i] = field[rows[i]]
      <4>1. DOMAIN rows = 1..Len(rows) /\ Len(rows) \in Nat
        BY LenProperties
      <4>2. values \in [1..Len(rows) -> {field[f] : f \in File}]
        BY <4>1, RowsAreFiles
      <4>. QED
        BY <4>1, <4>2
    <3>. HIDE DEF columns, values
    <3>. QED
      BY <3>1, <3>2, ColumnOfRow
  <2>. HIDE DEF columns
  <2>7. \A c \in DOMAIN columns : \E n \in Nat : lanes[c] = Lane(Only(rows, class[c]), n)
    BY <2>5, LimitsAreNumbers
  <2>8. Partition(rows, lanes)
    BY <2>4, <2>5, <2>6, <2>7, ColumnsPartition
  <2>. QED
    BY <2>8 DEF lanes
<1>. QED
  BY <1>1, <1>2

LEMMA GalleryPartitions ==
    ASSUME NEW rows \in Seq(File), IsInjective(rows)
    PROVE  Partition(rows, Gallery(rows))
<1>. DEFINE lanes == Gallery(rows)
            class == [s \in 1..2 |-> IF s = 1 THEN Recent ELSE File \ Recent]
<1>1. Recent \subseteq File
  BY LayoutsAssumption
<1>2. /\ class \in [1..2 -> SUBSET File]
      /\ \A l, m \in 1..2 : l # m => class[l] \cap class[m] = {}
      /\ \A f \in File : \E l \in 1..2 : f \in class[l]
  BY <1>1
<1>3. DOMAIN lanes = 1..2 /\ \A s \in 1..2 : lanes[s] = Whole(Only(rows, class[s]))
  BY DEF Gallery, BucketByDay
<1>4. \A s \in 1..2 : \E n \in Nat : lanes[s] = Lane(Only(rows, class[s]), n)
  <2>. HIDE DEF lanes, class
  <2>. QED
    BY <1>3, WholeIsLane
<1>5. \A f \in Range(rows) : f \in File
  <2>1. \A i \in DOMAIN rows : rows[i] \in File
    BY LenProperties, ElementOfSeq
  <2>. QED
    BY <2>1 DEF Range
<1>6. IsFiniteSet(1..2)
  <2>1. 1 \in Int /\ 2 \in Int
    OBVIOUS
  <2>. QED
    BY <2>1, FS_Interval
<1>. HIDE DEF lanes, class
<1>7. Partition(rows, lanes)
  BY <1>2, <1>3, <1>4, <1>5, <1>6, ClassesPartition
<1>. QED
  BY <1>7 DEF lanes

LEMMA TimelinePartitions ==
    ASSUME NEW rows \in Seq(File), IsInjective(rows)
    PROVE  Partition(rows, Timeline(rows))
<1>. DEFINE field == [f \in File |-> DayOf[f]]
            lanes == Timeline(rows)
            days == Distinct([i \in DOMAIN rows |-> field[rows[i]]])
            class == [d \in DOMAIN days |-> {f \in File : DayOf[f] = days[d]}]
<1>1. [i \in DOMAIN rows |-> field[rows[i]]] = [i \in DOMAIN rows |-> DayOf[rows[i]]]
  BY RowsAreFiles
<1>2. lanes = [d \in DOMAIN days |-> Whole(Only(rows, {f \in File : DayOf[f] = days[d]}))]
  BY <1>1 DEF Timeline
<1>4. /\ class \in [DOMAIN days -> SUBSET File]
      /\ \A d \in DOMAIN days, f \in File : f \in class[d] <=> field[f] = days[d]
  <2>. HIDE DEF days
  <2>. QED
    OBVIOUS
<1>5. /\ DOMAIN lanes = DOMAIN days
      /\ \A d \in DOMAIN days : lanes[d] = Whole(Only(rows, class[d]))
  <2>. HIDE DEF days
  <2>. QED
    BY <1>2
<1>. HIDE DEF lanes, field, class
<1>6. /\ IsFiniteSet(DOMAIN days) /\ IsInjective(days)
      /\ \A f \in Range(rows) : \E d \in DOMAIN days : field[f] = days[d]
  <2>. DEFINE values == [i \in DOMAIN rows |-> field[rows[i]]]
  <2>1. days = Distinct(values)
    OBVIOUS
  <2>2. /\ values \in Seq({field[f] : f \in File}) /\ DOMAIN values = DOMAIN rows
        /\ \A i \in DOMAIN rows : values[i] = field[rows[i]]
    <3>1. DOMAIN rows = 1..Len(rows) /\ Len(rows) \in Nat
      BY LenProperties
    <3>2. values \in [1..Len(rows) -> {field[f] : f \in File}]
      BY <3>1, RowsAreFiles
    <3>. QED
      BY <3>1, <3>2
  <2>. HIDE DEF days, values
  <2>. QED
    BY <2>1, <2>2, ColumnOfRow
<1>. HIDE DEF days
<1>7. \A d \in DOMAIN days : \E n \in Nat : lanes[d] = Lane(Only(rows, class[d]), n)
  BY <1>5, WholeIsLane
<1>8. Partition(rows, lanes)
  BY <1>4, <1>5, <1>6, <1>7, ColumnsPartition
<1>. QED
  BY <1>8 DEF lanes

LEMMA CalendarPartitions ==
    ASSUME NEW rows \in Seq(File), IsInjective(rows)
    PROVE  Partition(rows, [at \in (DOMAIN Months) \X (1..42) |-> Calendar(rows, at[1])[at[2]]])
<1>. DEFINE L == (DOMAIN Months) \X (1..42)
            lanes == [at \in L |-> Calendar(rows, at[1])[at[2]]]
            class == [at \in L |-> {f \in File :
                        DayOf[f] = <<at[1], MonthGrid(Months[at[1]])[at[2]]>>}]
<1>1. \A m \in DOMAIN Months : Months[m].first \in 0..6 /\ Months[m].days \in 28..31
  <2>1. Months \in Seq([first : 0..6, days : 28..31])
    BY LayoutsAssumption
  <2>2. \A m \in DOMAIN Months : Months[m] \in [first : 0..6, days : 28..31]
    BY <2>1, LenProperties, ElementOfSeq
  <2>. QED
    BY <2>2
<1>2. ASSUME NEW m \in DOMAIN Months, NEW c \in 1..42
      PROVE  MonthGrid(Months[m])[c]
                = IF c - Months[m].first \in 1..Months[m].days THEN c - Months[m].first ELSE 0
  BY DEF MonthGrid
<1>3. ASSUME NEW f \in Range(rows) PROVE \E at \in L : f \in class[at]
  <2>1. f \in File
    <3>1. \A i \in DOMAIN rows : rows[i] \in File
      BY LenProperties, ElementOfSeq
    <3>. QED
      BY <3>1 DEF Range
  <2>2. PICK m \in DOMAIN Months : DayOf[f] \in {m} \X (1..Months[m].days)
    BY <2>1, LayoutsAssumption
  <2>3. PICK d \in 1..Months[m].days : DayOf[f] = <<m, d>>
    BY <2>2
  <2>. DEFINE c == d + Months[m].first
  <2>4. c \in 1..42 /\ c - Months[m].first = d
    <3>1. \A x \in 0..6, y \in 28..31 : \A z \in 1..y : z + x \in 1..42 /\ (z + x) - x = z
      OBVIOUS
    <3>. QED
      BY <1>1, <3>1
  <2>. HIDE DEF c
  <2>5. MonthGrid(Months[m])[c] = d
    BY <1>2, <2>4
  <2>6. <<m, c>> \in L /\ f \in class[<<m, c>>]
    BY <2>1, <2>3, <2>4, <2>5
  <2>. QED
    BY <2>6
<1>4. ASSUME NEW a \in L, NEW b \in L, a # b PROVE class[a] \cap class[b] = {}
  <2>1. SUFFICES ASSUME NEW f \in class[a], f \in class[b] PROVE FALSE
    OBVIOUS
  <2>2. PICK m \in DOMAIN Months, c \in 1..42 : a = <<m, c>>
    OBVIOUS
  <2>3. PICK n \in DOMAIN Months, e \in 1..42 : b = <<n, e>>
    OBVIOUS
  <2>4. /\ f \in File
        /\ DayOf[f] = <<m, MonthGrid(Months[m])[c]>>
        /\ DayOf[f] = <<n, MonthGrid(Months[n])[e]>>
    BY <2>1, <2>2, <2>3
  <2>5. m = n /\ MonthGrid(Months[m])[c] = MonthGrid(Months[m])[e]
    BY <2>4
  <2>6. PICK k \in DOMAIN Months : DayOf[f] \in {k} \X (1..Months[k].days)
    BY <2>4, LayoutsAssumption
  <2>7. MonthGrid(Months[m])[c] # 0
    <3>1. MonthGrid(Months[m])[c] \in 1..Months[k].days
      BY <2>4, <2>6
    <3>. QED
      BY <1>1, <3>1
  <2>8. c = e
    <3>. DEFINE x == Months[m].first
    <3>1. x \in Int /\ c \in Int /\ e \in Int
      <4>1. x \in 0..6
        BY <1>1
      <4>. HIDE DEF x
      <4>. QED
        BY <4>1
    <3>2. c - x # 0 /\ c - x = e - x
      <4>1. /\ MonthGrid(Months[m])[c] = IF c - x \in 1..Months[m].days THEN c - x ELSE 0
            /\ MonthGrid(Months[m])[e] = IF e - x \in 1..Months[m].days THEN e - x ELSE 0
        BY <1>2
      <4>. HIDE DEF x
      <4>. QED
        BY <2>5, <2>7, <4>1
    <3>. HIDE DEF x
    <3>. QED
      BY <3>1, <3>2
  <2>. QED
    BY <1>4, <2>2, <2>3, <2>5, <2>8
<1>5. ASSUME NEW at \in L PROVE \E n \in Nat : lanes[at] = Lane(Only(rows, class[at]), n)
  <2>1. PICK m \in DOMAIN Months, c \in 1..42 : at = <<m, c>>
    OBVIOUS
  <2>2. lanes[at] = Calendar(rows, m)[c]
    BY <2>1
  <2>3. DOMAIN MonthGrid(Months[m]) = 1..42
    BY DEF MonthGrid
  <2>4. Calendar(rows, m)[c]
           = Lane(Only(rows, {f \in File : DayOf[f] = <<m, MonthGrid(Months[m])[c]>>}), CellSize)
    BY <2>3 DEF Calendar
  <2>5. class[at] = {f \in File : DayOf[f] = <<m, MonthGrid(Months[m])[c]>>}
    BY <2>1
  <2>. HIDE DEF lanes, class
  <2>. QED
    BY <2>2, <2>4, <2>5, LimitsAreNumbers
<1>6. IsFiniteSet(L)
  <2>1. IsFiniteSet(DOMAIN Months)
    BY FinitePositions, LayoutsAssumption
  <2>2. IsFiniteSet(1..42)
    <3>1. 1 \in Int /\ 42 \in Int
      OBVIOUS
    <3>. QED
      BY <3>1, FS_Interval
  <2>. QED
    BY <2>1, <2>2, FS_Product
<1>7. class \in [L -> SUBSET File] /\ DOMAIN lanes = L
  OBVIOUS
<1>. HIDE DEF lanes, class, L
<1>8. Partition(rows, lanes)
  BY <1>3, <1>4, <1>5, <1>6, <1>7, ClassesPartition
<1>. QED
  BY <1>8 DEF lanes, L

LEMMA LayoutsPartition ==
    ASSUME NEW rows \in Seq(File), IsInjective(rows) PROVE LanesPartition(rows)
BY BoardPartitions, GalleryPartitions, TimelinePartitions, CalendarPartitions DEF LanesPartition

\* Every list of different files is laid out, and the arrows visit every month.
LEMMA EveryList == EveryListPartitions
<1>1. ASSUME NEW rows \in Lists PROVE rows \in Seq(File) /\ IsInjective(rows)
  <2>1. PICK F \in SUBSET File : rows \in SetToSeqs(F)
    BY <1>1 DEF Lists
  <2>2. IsFiniteSet(F) /\ Cardinality(F) \in Nat
    BY FileFinite, FS_Subset, FS_CardinalityType
  <2>3. /\ rows \in [1..Cardinality(F) -> F]
        /\ \A i, j \in 1..Cardinality(F) : i # j => rows[i] # rows[j]
    BY <2>1 DEF SetToSeqs
  <2>4. rows \in [1..Cardinality(F) -> File]
    BY <2>3
  <2>. QED
    BY <2>2, <2>3, <2>4 DEF IsInjective
<1>2. MonthsInOrder
  BY DEF MonthsInOrder, NextMonth, PrevMonth, ReadMonth
<1>. QED
  BY <1>1, <1>2, LayoutsPartition DEF EveryListPartitions

-----------------------------------------------------------------------------
(* Flattening.  FlattenSeq is defined by a recursive function, whose        *)
(* existence has to be shown before its equation can be used.              *)

FlatStep(h, ss, i) == IF i = 1 THEN ss[i] ELSE h[i - 1] \o ss[i]

IsFlat(h, ss, n) == h = [i \in 1..n |-> FlatStep(h, ss, i)]

LEMMA FlatExists ==
    ASSUME NEW ss, NEW n \in Nat
    PROVE  \E h : IsFlat(h, ss, n)
<1>. DEFINE Bad == {m \in Nat : ~ \E h : IsFlat(h, ss, m)}
<1>1. SUFFICES ASSUME Bad # {} PROVE FALSE
  OBVIOUS
<1>2. PICK m \in Bad : \A j \in Bad : m <= j
  <2>1. Bad \subseteq Nat
    OBVIOUS
  <2>. HIDE DEF Bad
  <2>. QED
    BY <1>1, <2>1, LeastNumber
<1>3. m # 0
  <2>1. IsFlat([i \in 1..0 |-> {}], ss, 0)
    BY DEF IsFlat
  <2>. QED
    BY <2>1
<1>4. PICK h : IsFlat(h, ss, m - 1)
  <2>1. m - 1 \in Nat /\ m - 1 \notin Bad
    BY <1>2, <1>3
  <2>. QED
    BY <2>1
<1>. DEFINE g == [i \in 1..m |-> FlatStep(h, ss, i)]
<1>5. \A i \in 1..(m - 1) : g[i] = h[i]
  BY <1>3, <1>4 DEF IsFlat
<1>6. ASSUME NEW i \in 1..m PROVE FlatStep(g, ss, i) = FlatStep(h, ss, i)
  <2>1. i # 1 => i - 1 \in 1..(m - 1)
    BY <1>2
  <2>2. i # 1 => g[i - 1] = h[i - 1]
    BY <1>5, <2>1
  <2>. QED
    BY <2>2 DEF FlatStep
<1>7. IsFlat(g, ss, m)
  BY <1>6 DEF IsFlat
<1>. QED
  BY <1>7

LEMMA FlattenSteps ==
    ASSUME NEW ss, Len(ss) \in Nat \ {0}
    PROVE  \E h : IsFlat(h, ss, Len(ss)) /\ FlattenSeq(ss) = h[Len(ss)]
<1>. DEFINE h == CHOOSE h : IsFlat(h, ss, Len(ss))
<1>1. IsFlat(h, ss, Len(ss))
  BY FlatExists
<1>2. FlattenSeq(ss) = h[Len(ss)]
  BY DEF FlattenSeq, IsFlat, FlatStep
<1>. QED
  BY <1>1, <1>2

LEMMA ConcatParts ==
    ASSUME NEW T, NEW s \in Seq(T), NEW t \in Seq(T)
    PROVE  /\ s \o t \in Seq(T)
           /\ Range(s \o t) = Range(s) \cup Range(t)
           /\ IsInjective(s) /\ IsInjective(t) /\ Range(s) \cap Range(t) = {}
                => IsInjective(s \o t)
<1>1. /\ s \o t \in Seq(T) /\ Len(s \o t) = Len(s) + Len(t)
      /\ \A i \in 1..(Len(s) + Len(t)) :
            (s \o t)[i] = IF i <= Len(s) THEN s[i] ELSE t[i - Len(s)]
  BY ConcatProperties
<1>2. /\ Len(s) \in Nat /\ DOMAIN s = 1..Len(s)
      /\ Len(t) \in Nat /\ DOMAIN t = 1..Len(t)
      /\ DOMAIN (s \o t) = 1..(Len(s) + Len(t))
  BY <1>1, LenProperties
<1>3. ASSUME IsInjective(s), IsInjective(t), Range(s) \cap Range(t) = {},
             NEW j \in 1..(Len(s) + Len(t)), NEW k \in 1..(Len(s) + Len(t)),
             (s \o t)[j] = (s \o t)[k]
      PROVE  j = k
  <2>1. CASE j <= Len(s) /\ k <= Len(s)
    BY <1>1, <1>2, <1>3, <2>1 DEF IsInjective
  <2>2. CASE j > Len(s) /\ k > Len(s)
    <3>1. /\ j - Len(s) \in DOMAIN t /\ k - Len(s) \in DOMAIN t
          /\ t[j - Len(s)] = t[k - Len(s)]
      BY <1>1, <1>2, <1>3, <2>2
    <3>2. j - Len(s) = k - Len(s)
      BY <1>3, <3>1 DEF IsInjective
    <3>. QED
      BY <1>2, <3>2
  <2>3. CASE j <= Len(s) /\ k > Len(s)
    <3>1. s[j] = t[k - Len(s)] /\ j \in DOMAIN s /\ k - Len(s) \in DOMAIN t
      BY <1>1, <1>2, <1>3, <2>3
    <3>. QED
      BY <1>3, <3>1 DEF Range
  <2>4. CASE j > Len(s) /\ k <= Len(s)
    <3>1. s[k] = t[j - Len(s)] /\ k \in DOMAIN s /\ j - Len(s) \in DOMAIN t
      BY <1>1, <1>2, <1>3, <2>4
    <3>. QED
      BY <1>3, <3>1 DEF Range
  <2>. QED
    BY <1>2, <2>1, <2>2, <2>3, <2>4
<1>4. Range(s \o t) = Range(s) \cup Range(t)
  BY RangeConcatenation
<1>. QED
  BY <1>1, <1>2, <1>3, <1>4 DEF IsInjective

\* What is flattened holds what the pieces hold, once if they do not overlap.
LEMMA FlattenProperties ==
    ASSUME NEW T, NEW ss \in Seq(Seq(T))
    PROVE  /\ FlattenSeq(ss) \in Seq(T)
           /\ Range(FlattenSeq(ss)) = UNION {Range(ss[k]) : k \in DOMAIN ss}
           /\ /\ \A k \in DOMAIN ss : IsInjective(ss[k])
              /\ \A j, k \in DOMAIN ss : j # k => Range(ss[j]) \cap Range(ss[k]) = {}
              => IsInjective(FlattenSeq(ss))
<1>. DEFINE n == Len(ss)
            Apart == /\ \A k \in DOMAIN ss : IsInjective(ss[k])
                     /\ \A j, k \in DOMAIN ss : j # k => Range(ss[j]) \cap Range(ss[k]) = {}
            Upper(i) == UNION {Range(ss[k]) : k \in 1..i}
            Right(s, i) == /\ s \in Seq(T)
                           /\ Range(s) = Upper(i)
                           /\ Apart => IsInjective(s)
<1>1. n \in Nat /\ DOMAIN ss = 1..n
  BY LenProperties
<1>2. SUFFICES Right(FlattenSeq(ss), n)
  BY <1>1
<1>3. CASE n = 0
  <2>1. ss = <<>> /\ FlattenSeq(ss) = <<>>
    BY <1>3, EmptySeq DEF FlattenSeq
  <2>2. Range(<<>>) = {} /\ IsInjective(<<>>) /\ Upper(0) = {} /\ <<>> \in Seq(T)
    BY EmptySeq DEF Range, IsInjective
  <2>3. Right(<<>>, 0)
    <3>. HIDE DEF Upper, Apart
    <3>. QED
      BY <2>2
  <2>. QED
    BY <1>3, <2>1, <2>3
<1>4. CASE n # 0
  <2>1. PICK h : IsFlat(h, ss, n) /\ FlattenSeq(ss) = h[n]
    BY <1>1, <1>4, FlattenSteps
  <2>. DEFINE Bad == {i \in 1..n : ~Right(h[i], i)}
  <2>2. ASSUME Bad # {} PROVE FALSE
    <3>1. PICK i \in Bad : \A j \in Bad : i <= j
      <4>1. Bad \subseteq Nat
        OBVIOUS
      <4>. HIDE DEF Bad
      <4>. QED
        BY <2>2, <4>1, LeastNumber
    <3>2. i \in 1..n /\ ss[i] \in Seq(T)
      BY <1>1, ElementOfSeq
    <3>3. i # 1
      <4>1. h[1] = ss[1] /\ 1..1 = {1}
        BY <1>1, <1>4, <2>1 DEF IsFlat, FlatStep
      <4>2. Upper(1) = Range(ss[1])
        BY <4>1
      <4>3. Apart => IsInjective(ss[1])
        BY <1>1, <1>4
      <4>4. i = 1 => Right(h[i], i)
        BY <3>2, <4>1, <4>2, <4>3
      <4>. QED
        BY <4>4
    <3>4. i - 1 \in 1..n /\ i - 1 \notin Bad
      <4>1. i - 1 \in 1..n /\ ~(i <= i - 1)
        BY <1>1, <3>2, <3>3
      <4>. HIDE DEF Bad
      <4>. QED
        BY <3>1, <4>1
    <3>5. Right(h[i - 1], i - 1)
      BY <3>4
    <3>6. h[i] = h[i - 1] \o ss[i]
      BY <2>1, <3>2, <3>3 DEF IsFlat, FlatStep
    <3>7. Upper(i) = Upper(i - 1) \cup Range(ss[i])
      <4>1. 1..i = 1..(i - 1) \cup {i}
        BY <1>1, <3>2
      <4>. QED
        BY <4>1
    <3>8. Apart => IsInjective(ss[i]) /\ Upper(i - 1) \cap Range(ss[i]) = {}
      <4>1. \A k \in 1..(i - 1) : k \in 1..n /\ k # i
        BY <1>1, <3>2
      <4>. QED
        BY <1>1, <3>2, <4>1
    <3>9. Right(h[i], i)
      <4>. HIDE DEF Upper, Apart
      <4>. QED
        BY <3>2, <3>5, <3>6, <3>7, <3>8, ConcatParts
    <3>. QED
      BY <3>9
  <2>3. n \in 1..n
    BY <1>1, <1>4
  <2>4. Right(h[n], n)
    <3>. HIDE DEF Right
    <3>. QED
      BY <2>2, <2>3
  <2>. QED
    BY <2>1, <2>4
<1>. QED
  BY <1>3, <1>4

-----------------------------------------------------------------------------
(* Pages and groups: what the table shows of its rows.                      *)

\* Every position is on exactly one of the pages.
LEMMA Multiples ==
    ASSUME NEW b \in Nat \ {0}, NEW p \in Nat
    PROVE  /\ p * b \in Nat /\ (p = 0 => p * b = 0)
           /\ \A q \in Nat : p < q => p * b + b <= q * b
<1>1. p * b \in Nat /\ (p = 0 => p * b = 0)
  OBVIOUS
<1>2. ASSUME NEW q \in Nat, p < q PROVE p * b + b <= q * b
  <2>1. PICK k \in Nat : q = p + 1 + k
    <3>1. q - p - 1 \in Nat /\ q = p + 1 + (q - p - 1)
      BY <1>2
    <3>. QED
      BY <3>1
  <2>2. q * b = p * b + b + k * b /\ k * b \in Nat
    BY <2>1
  <2>. QED
    BY <1>1, <2>2
<1>. QED
  BY <1>1, <1>2

LEMMA PagesCover ==
    ASSUME NEW b \in Nat \ {0}, NEW n \in Nat \ {0}
    PROVE  LET c == (n + b - 1) \div b
           IN  /\ c \in Nat \ {0}
               /\ (c - 1) * b < n
               /\ \A i \in 1..n : \E p \in 0..(c - 1) : p * b < i /\ i <= p * b + b
<1>. DEFINE m == n + b - 1
            c == m \div b
<1>1. m \in Nat /\ m >= b
  OBVIOUS
<1>2. c \in Nat /\ c * b <= m /\ m < c * b + b
  BY <1>1
<1>3. c # 0
  <2>1. 0 * b = 0
    OBVIOUS
  <2>. HIDE DEF c, m
  <2>. QED
    BY <1>1, <1>2, <2>1
<1>4. (c - 1) * b + b = c * b
  <2>. HIDE DEF c
  <2>. QED
    BY <1>2
<1>5. (c - 1) * b \in Int /\ c * b \in Nat
  <2>. HIDE DEF c
  <2>. QED
    BY <1>2
<1>6. (c - 1) * b < n /\ n <= c * b
  <2>1. m = n + b - 1
    OBVIOUS
  <2>. HIDE DEF c, m
  <2>. QED
    BY <1>2, <1>4, <1>5, <2>1
<1>7. ASSUME NEW i \in 1..n PROVE \E p \in 0..(c - 1) : p * b < i /\ i <= p * b + b
  <2>. DEFINE p == (i - 1) \div b
  <2>1. i - 1 \in Nat /\ p \in Nat /\ p * b <= i - 1 /\ i - 1 < p * b + b
    OBVIOUS
  <2>. HIDE DEF p
  <2>2. p < c
    <3>1. SUFFICES ASSUME c <= p PROVE FALSE
      BY <1>2, <2>1
    <3>. HIDE DEF c
    <3>2. c * b <= p * b
      <4>1. c = p \/ c < p
        BY <1>2, <2>1, <3>1
      <4>. QED
        BY <1>2, <2>1, <4>1, Multiples
    <3>3. p * b \in Nat
      BY <2>1, Multiples
    <3>. QED
      BY <1>5, <1>6, <2>1, <3>2, <3>3
  <2>3. p * b \in Nat
    BY <2>1, Multiples
  <2>4. p \in 0..(c - 1)
    <3>. HIDE DEF c
    <3>. QED
      BY <1>2, <2>1, <2>2
  <2>5. p * b < i /\ i <= p * b + b
    BY <2>1, <2>3
  <2>. QED
    BY <2>4, <2>5
<1>. QED
  BY <1>2, <1>3, <1>6, <1>7

LEMMA OnePage ==
    ASSUME NEW b \in Nat \ {0}, NEW p \in Nat, NEW q \in Nat, NEW i \in Nat,
           p * b < i, i <= p * b + b, q * b < i, i <= q * b + b
    PROVE  p = q
<1>1. p * b \in Nat /\ q * b \in Nat
  BY Multiples
<1>2. p < q => p * b + b <= q * b
  BY Multiples
<1>3. q < p => q * b + b <= p * b
  BY Multiples
<1>. QED
  BY <1>1, <1>2, <1>3

\* The positions of rows on page p.
OnPage(rows, p) == {i \in DOMAIN rows : p * PageSize < i /\ i <= p * PageSize + PageSize}

LEMMA PageSizePositive == PageSize \in Nat \ {0}
BY FilesAssumption

LEMMA PageCountProperties ==
    ASSUME NEW u, NEW rows \in Seq(File)
    PROVE  /\ PageCount(u, rows) \in Nat \ {0}
           /\ ~Paginates(u) => PageCount(u, rows) = 1
           /\ Paginates(u) /\ rows # <<>> =>
                /\ \A p \in 0..(PageCount(u, rows) - 1) : p * PageSize < Len(rows)
                /\ \A i \in DOMAIN rows : \E p \in 0..(PageCount(u, rows) - 1) : i \in OnPage(rows, p)
<1>. DEFINE n == Len(rows)
            c == (n + PageSize - 1) \div PageSize
<1>1. n \in Nat /\ DOMAIN rows = 1..n /\ (rows # <<>> => n # 0)
  BY LenProperties, EmptySeq
<1>2. CASE Paginates(u) /\ rows # <<>>
  <2>1. PageCount(u, rows) = c
    BY <1>2 DEF PageCount
  <2>2. /\ c \in Nat \ {0}
        /\ (c - 1) * PageSize < n
        /\ \A i \in 1..n : \E p \in 0..(c - 1) : p * PageSize < i /\ i <= p * PageSize + PageSize
    <3>1. n \in Nat \ {0}
      BY <1>1, <1>2
    <3>. HIDE DEF n
    <3>. QED
      BY <3>1, PageSizePositive, PagesCover
  <2>. HIDE DEF c
  <2>3. ASSUME NEW p \in 0..(c - 1) PROVE p * PageSize < n
    <3>1. p \in Nat /\ c - 1 \in Nat /\ (p = c - 1 \/ p < c - 1)
      BY <2>2
    <3>2. p * PageSize \in Nat /\ (c - 1) * PageSize \in Nat
      BY <3>1, PageSizePositive, Multiples
    <3>3. p < c - 1 => p * PageSize + PageSize <= (c - 1) * PageSize
      BY <3>1, PageSizePositive, Multiples
    <3>. HIDE DEF n
    <3>. QED
      BY <1>1, <2>2, <3>1, <3>2, <3>3, PageSizePositive
  <2>4. \A i \in DOMAIN rows : \E p \in 0..(c - 1) : i \in OnPage(rows, p)
    BY <1>1, <2>2 DEF OnPage
  <2>. QED
    BY <1>2, <2>1, <2>2, <2>3, <2>4
<1>3. CASE ~(Paginates(u) /\ rows # <<>>)
  <2>1. PageCount(u, rows) = 1
    BY <1>3 DEF PageCount
  <2>. QED
    BY <1>3, <2>1
<1>. QED
  BY <1>2, <1>3

LEMMA PageProperties ==
    ASSUME NEW u, u.page \in Nat, NEW rows \in Seq(File)
    PROVE  /\ Page(u, rows) \in 0..(PageCount(u, rows) - 1)
           /\ Paginates(u) /\ u.page < PageCount(u, rows) => Page(u, rows) = u.page
BY PageCountProperties DEF Page

\* What one page takes of the rows.
LEMMA PageRowsProperties ==
    ASSUME NEW u, u.page \in Nat, NEW rows \in Seq(File)
    PROVE  /\ PageRows(u, rows) \in Seq(File)
           /\ IsInjective(rows) => IsInjective(PageRows(u, rows))
           /\ Range(PageRows(u, rows)) \subseteq Range(rows)
           /\ rows # <<>> => Range(PageRows(u, rows)) # {}
           /\ ~Paginates(u) => PageRows(u, rows) = rows
           /\ Paginates(u) => Range(PageRows(u, rows)) = {rows[i] : i \in OnPage(rows, Page(u, rows))}
<1>. DEFINE n == Len(rows)
            p == Page(u, rows)
            from == p * PageSize
            upto == IF from + PageSize < n THEN from + PageSize ELSE n
            t == SubSeq(rows, from + 1, upto)
<1>1. n \in Nat /\ DOMAIN rows = 1..n /\ (rows # <<>> <=> n # 0) /\ \A i \in 1..n : rows[i] \in File
  BY LenProperties, EmptySeq, ElementOfSeq
<1>2. p \in Nat /\ from \in Nat
  <2>1. p \in Nat
    BY PageProperties, PageCountProperties
  <2>. HIDE DEF p
  <2>. QED
    BY <2>1, Multiples, PageSizePositive
<1>3. CASE ~Paginates(u)
  <2>1. PageRows(u, rows) = rows
    BY <1>3 DEF PageRows
  <2>2. rows # <<>> => Range(rows) # {}
    BY <1>1 DEF Range
  <2>. QED
    BY <1>3, <2>1, <2>2
<1>4. CASE Paginates(u)
  <2>1. PageRows(u, rows) = t
    BY <1>4 DEF PageRows
  <2>2. /\ upto \in Nat /\ upto <= n /\ upto <= from + PageSize
        /\ \A i \in 1..n : i <= from + PageSize => i <= upto
    <3>. HIDE DEF from, n
    <3>. QED
      BY <1>1, <1>2, PageSizePositive
  <2>3. /\ t \in Seq(File)
        /\ Len(t) = IF from + 1 <= upto THEN upto - (from + 1) + 1 ELSE 0
        /\ \A i \in 1 .. upto - (from + 1) + 1 : t[i] = rows[(from + 1) + i - 1]
    <3>1. from + 1 \in Int /\ upto \in Int /\ \A i \in (from + 1)..upto : rows[i] \in File
      <4>. HIDE DEF from, n, upto
      <4>. QED
        BY <1>1, <1>2, <2>2
    <3>. HIDE DEF from, upto
    <3>. QED
      BY <3>1, SubSeqProperties
  <2>. HIDE DEF upto, t
  <2>4. DOMAIN t = {i \in Nat : 1 <= i /\ i <= upto - from} /\ \A i \in DOMAIN t : t[i] = rows[from + i]
    <3>1. DOMAIN t = 1..Len(t) /\ Len(t) \in Nat
      BY <2>3, LenProperties
    <3>. HIDE DEF from, n
    <3>2. \A i \in DOMAIN t : i \in 1 .. upto - (from + 1) + 1 /\ (from + 1) + i - 1 = from + i
      BY <1>2, <2>2, <2>3, <3>1
    <3>3. DOMAIN t = {i \in Nat : 1 <= i /\ i <= upto - from}
      BY <1>2, <2>2, <2>3, <3>1
    <3>. QED
      BY <2>3, <3>2, <3>3
  <2>5. ASSUME NEW i \in DOMAIN t PROVE from + i \in OnPage(rows, p)
    <3>1. i \in Nat /\ 1 <= i /\ i <= upto - from
      BY <2>4
    <3>2. from + i \in 1..n /\ from < from + i /\ from + i <= from + PageSize
      <4>. HIDE DEF from, n
      <4>. QED
        BY <1>1, <1>2, <2>2, <3>1, PageSizePositive
    <3>. QED
      BY <1>1, <3>2 DEF OnPage
  <2>6. ASSUME NEW i \in OnPage(rows, p) PROVE i - from \in DOMAIN t /\ from + (i - from) = i
    <3>1. i \in 1..n /\ from < i /\ i <= from + PageSize
      BY <1>1 DEF OnPage
    <3>. HIDE DEF from, n
    <3>2. i - from \in Nat /\ 1 <= i - from /\ i - from <= upto - from /\ from + (i - from) = i
      BY <1>1, <1>2, <2>2, <3>1
    <3>. QED
      BY <2>4, <3>2
  <2>7. Range(t) = {rows[i] : i \in OnPage(rows, p)}
    <3>. HIDE DEF from
    <3>. QED
      BY <2>4, <2>5, <2>6 DEF Range
  <2>8. ASSUME IsInjective(rows) PROVE IsInjective(t)
    <3>. SUFFICES ASSUME NEW i \in DOMAIN t, NEW j \in DOMAIN t, t[i] = t[j] PROVE i = j
      BY DEF IsInjective
    <3>1. from + i \in DOMAIN rows /\ from + j \in DOMAIN rows
      BY <2>5 DEF OnPage
    <3>2. rows[from + i] = rows[from + j]
      BY <2>4
    <3>3. from + i = from + j
      BY <2>8, <3>1, <3>2 DEF IsInjective
    <3>4. i \in Nat /\ j \in Nat
      BY <2>4
    <3>. HIDE DEF from
    <3>. QED
      BY <1>2, <3>3, <3>4
  <2>9. Range(t) \subseteq Range(rows)
    BY <2>7 DEF Range, OnPage
  <2>10. ASSUME rows # <<>> PROVE Range(t) # {}
    <3>1. p \in 0..(PageCount(u, rows) - 1)
      BY PageProperties
    <3>2. from < n
      BY <1>4, <2>10, <3>1, PageCountProperties
    <3>3. from + 1 \in 1..n /\ from < from + 1 /\ from + 1 <= from + PageSize
      <4>. HIDE DEF from, n
      <4>. QED
        BY <1>1, <1>2, <3>2, PageSizePositive
    <3>4. from + 1 \in OnPage(rows, p)
      BY <1>1, <3>3 DEF OnPage
    <3>. QED
      BY <2>7, <3>4
  <2>. QED
    BY <1>4, <2>1, <2>3, <2>7, <2>8, <2>9, <2>10
<1>. QED
  BY <1>3, <1>4


\* The groups of a page share out what the page shows.
LEMMA GroupsProperties ==
    ASSUME NEW u, u.page \in Nat, NEW rows \in Seq(File), IsInjective(rows)
    PROVE  LET groups == Groups(u, rows) IN
           /\ groups \in Seq(Seq(File))
           /\ \A k \in DOMAIN groups : IsInjective(groups[k])
           /\ \A j, k \in DOMAIN groups : j # k => Range(groups[j]) \cap Range(groups[k]) = {}
           /\ UNION {Range(groups[k]) : k \in DOMAIN groups} = Range(PageRows(u, rows))
<1>. DEFINE groups == Groups(u, rows)
            shown == PageRows(u, rows)
            field == [f \in File |-> StatusOf[f]]
            values == [i \in DOMAIN shown |-> field[shown[i]]]
            columns == Distinct(values)
            class == [k \in DOMAIN columns |-> {f \in File : StatusOf[f] = columns[k]}]
<1>1. shown \in Seq(File) /\ IsInjective(shown)
  BY PageRowsProperties
<1>2. CASE Paginates(u)
  <2>1. groups = <<shown>>
    BY <1>2 DEF Groups
  <2>. HIDE DEF groups, shown
  <2>2. groups \in Seq(Seq(File)) /\ DOMAIN groups = {1} /\ groups[1] = shown
    BY <1>1, <2>1
  <2>3. UNION {Range(groups[k]) : k \in DOMAIN groups} = Range(shown)
    BY <2>2
  <2>4. /\ \A k \in DOMAIN groups : IsInjective(groups[k])
        /\ \A j, k \in DOMAIN groups : j # k => Range(groups[j]) \cap Range(groups[k]) = {}
    BY <1>1, <2>2
  <2>. QED
    BY <2>2, <2>3, <2>4 DEF groups, shown
<1>3. CASE ~Paginates(u)
  <2>. HIDE DEF shown
  <2>1. \A i \in DOMAIN shown : shown[i] \in File
    BY <1>1, RowsAreFiles
  <2>2. values = [i \in DOMAIN shown |-> StatusOf[shown[i]]]
    BY <2>1
  <2>3. groups = [k \in DOMAIN columns |-> Only(shown, {f \in File : StatusOf[f] = columns[k]})]
    BY <1>3, <2>2 DEF Groups, shown
  <2>4. values \in Seq({field[f] : f \in File})
    <3>1. DOMAIN shown = 1..Len(shown) /\ Len(shown) \in Nat
      BY <1>1, LenProperties
    <3>. HIDE DEF field
    <3>. QED
      BY <2>1, <3>1
  <2>5. DOMAIN values = DOMAIN shown /\ \A i \in DOMAIN shown : values[i] = field[shown[i]]
    OBVIOUS
  <2>. HIDE DEF values
  <2>6. /\ IsInjective(columns)
        /\ \A f \in Range(shown) : \E k \in DOMAIN columns : field[f] = columns[k]
    <3>1. shown \in Seq(File)
      BY <1>1
    <3>. HIDE DEF field, columns
    <3>2. columns = Distinct(values)
      BY DEF columns
    <3>3. LET c == Distinct(values) IN
          /\ IsFiniteSet(DOMAIN c)
          /\ IsInjective(c)
          /\ \A f \in Range(shown) : \E k \in DOMAIN c : field[f] = c[k]
          /\ \A k \in DOMAIN c : \E f \in Range(shown) : field[f] = c[k]
      BY ONLY <2>4, <2>5, <3>1, ColumnOfRow
    <3>. QED
      BY <3>2, <3>3
  <2>7. \A k \in DOMAIN columns : groups[k] = Only(shown, class[k])
    BY <2>3
  <2>8. DOMAIN groups = DOMAIN columns
    BY <2>3
  <2>9. \A k \in DOMAIN columns, f \in File : f \in class[k] <=> field[f] = columns[k]
    OBVIOUS
  <2>10. DOMAIN columns = 1..Len(columns) /\ Len(columns) \in Nat
    BY <2>4, DistinctProperties, LenProperties
  <2>. HIDE DEF groups, columns, class, field
  <2>11. ASSUME NEW k \in DOMAIN columns
         PROVE  /\ groups[k] \in Seq(File) /\ IsInjective(groups[k])
                /\ Range(groups[k]) = Range(shown) \cap class[k]
    <3>1. shown \in Seq(File) /\ IsInjective(shown)
      BY <1>1
    <3>2. /\ Only(shown, class[k]) \in Seq(File) /\ IsInjective(Only(shown, class[k]))
          /\ Range(Only(shown, class[k])) = Range(shown) \cap class[k]
      BY ONLY <3>1, OnlyProperties
    <3>. QED
      BY <2>7, <3>2
  <2>12. groups \in Seq(Seq(File))
    <3>1. groups = [k \in 1..Len(columns) |-> groups[k]]
      BY <2>3, <2>10 DEF groups, columns
    <3>. QED
      BY <2>8, <2>10, <2>11, <3>1
  <2>13. \A f \in Range(shown) : f \in File
    BY <1>1, RowsAreFiles
  <2>14. \A j, k \in DOMAIN groups : j # k => Range(groups[j]) \cap Range(groups[k]) = {}
    BY <2>6, <2>8, <2>9, <2>11, <2>13 DEF IsInjective
  <2>15. UNION {Range(groups[k]) : k \in DOMAIN groups} = Range(shown)
    BY <2>6, <2>8, <2>9, <2>11, <2>13
  <2>. QED
    BY <2>8, <2>11, <2>12, <2>14, <2>15 DEF groups, shown
<1>. QED
  BY <1>2, <1>3

\* What the table shows of a render.
LEMMA ShownProperties ==
    ASSUME NEW s, s.url.page \in Nat, s.rows \in Seq(File), IsInjective(s.rows)
    PROVE  /\ Shown(s) \in Seq(File) /\ IsInjective(Shown(s))
           /\ Range(Shown(s)) = Range(PageRows(s.url, s.rows))
           /\ Range(Shown(s)) \subseteq Range(s.rows) /\ Range(Shown(s)) \subseteq File
           /\ s.rows # <<>> => Range(Shown(s)) # {}
           /\ IsFiniteSet(Range(Shown(s))) /\ Cardinality(Range(Shown(s))) = Len(Shown(s))
<1>. DEFINE groups == Groups(s.url, s.rows)
<1>1. /\ groups \in Seq(Seq(File))
      /\ \A k \in DOMAIN groups : IsInjective(groups[k])
      /\ \A j, k \in DOMAIN groups : j # k => Range(groups[j]) \cap Range(groups[k]) = {}
      /\ UNION {Range(groups[k]) : k \in DOMAIN groups} = Range(PageRows(s.url, s.rows))
  BY GroupsProperties
<1>. HIDE DEF groups
<1>2. /\ FlattenSeq(groups) \in Seq(File)
      /\ Range(FlattenSeq(groups)) = UNION {Range(groups[k]) : k \in DOMAIN groups}
      /\ IsInjective(FlattenSeq(groups))
  BY <1>1, FlattenProperties
<1>3. Shown(s) = FlattenSeq(groups)
  BY DEF Shown, groups
<1>4. /\ Range(PageRows(s.url, s.rows)) \subseteq Range(s.rows)
      /\ s.rows # <<>> => Range(PageRows(s.url, s.rows)) # {}
  BY PageRowsProperties
<1>5. \A f \in Range(s.rows) : f \in File
  BY RowsAreFiles
<1>6. Shown(s) \in Seq(File) /\ IsInjective(Shown(s))
      /\ Range(Shown(s)) = Range(PageRows(s.url, s.rows))
  BY <1>1, <1>2, <1>3
<1>7. IsFiniteSet(Range(Shown(s))) /\ Cardinality(Range(Shown(s))) = Len(Shown(s))
  BY <1>6, InjectiveLength
<1>. QED
  BY <1>4, <1>5, <1>6, <1>7

\* The pages of a render, each asked for by its number.
LEMMA PagesShowRows ==
    ASSUME scr.url \in Url, scr.rows \in Seq(File), IsInjective(scr.rows)
    PROVE  EveryRowOnAPage
<1>. DEFINE u == scr.url
            rows == scr.rows
            link(p) == [u EXCEPT !.page = p]
            at(p) == Range(PageRows(link(p), rows))
            pages == 0..(PageCount(u, rows) - 1)
<1>1. u.page \in Nat
  BY FileFinite DEF Url
<1>2. /\ Len(Shown(scr)) = Cardinality(AllIds)
      /\ AllIds \subseteq Range(rows)
      /\ rows # <<>> => AllIds # {}
  BY <1>1, ShownProperties DEF AllIds
<1>3. ASSUME NEW f \in Range(rows) PROVE Cardinality({p \in pages : f \in at(p)}) = 1
  <2>1. PICK i \in DOMAIN rows : rows[i] = f
    BY DEF Range
  <2>2. PageCount(u, rows) \in Nat \ {0} /\ rows # <<>>
    BY <2>1, PageCountProperties
  <2>3. ASSUME NEW p \in pages
        PROVE  /\ p \in Nat /\ link(p).page = p
               /\ Paginates(link(p)) = Paginates(u)
               /\ PageCount(link(p), rows) = PageCount(u, rows)
    <3>1. p \in Nat
      BY <2>2
    <3>2. link(p).page = p /\ link(p).layout = u.layout /\ link(p).group = u.group
      BY DEF Url
    <3>3. Paginates(link(p)) = Paginates(u)
      BY <3>2 DEF Paginates
    <3>. HIDE DEF link
    <3>. QED
      BY <3>1, <3>2, <3>3 DEF PageCount
  <2>4. \E q \in pages : \A p \in pages : f \in at(p) <=> p = q
    <3>1. CASE Paginates(u)
      <4>. HIDE DEF link
      <4>1. PICK q \in pages : i \in OnPage(rows, q)
        BY <2>1, <2>2, <3>1, PageCountProperties
      <4>2. ASSUME NEW p \in pages PROVE at(p) = {rows[j] : j \in OnPage(rows, p)}
        <5>1. p < PageCount(u, rows)
          BY <2>2
        <5>2. Page(link(p), rows) = p
          BY <2>3, <3>1, <5>1, PageProperties
        <5>. QED
          <6>1. link(p).page \in Nat /\ Paginates(link(p))
            BY <2>3, <3>1
          <6>2. Range(PageRows(link(p), rows)) = {rows[j] : j \in OnPage(rows, Page(link(p), rows))}
            BY ONLY <6>1, rows \in Seq(File), PageRowsProperties
          <6>. QED
            BY <5>2, <6>2
      <4>3. ASSUME NEW p \in pages, f \in at(p) PROVE p = q
        <5>1. PICK j \in OnPage(rows, p) : rows[j] = f
          BY <4>2, <4>3
        <5>2. j = i
          BY <2>1, <5>1 DEF OnPage, IsInjective
        <5>3. i \in Nat /\ q \in Nat /\ p \in Nat
          BY <2>1, <2>3, LenProperties
        <5>4. /\ p * PageSize < i /\ i <= p * PageSize + PageSize
              /\ q * PageSize < i /\ i <= q * PageSize + PageSize
          BY <4>1, <5>1, <5>2 DEF OnPage
        <5>. QED
          BY ONLY <5>3, <5>4, PageSizePositive, OnePage
      <4>4. f \in at(q)
        BY <2>1, <4>1, <4>2
      <4>. QED
        BY <4>3, <4>4
    <3>2. CASE ~Paginates(u)
      <4>1. pages = {0}
        BY <3>2, PageCountProperties
      <4>2. at(0) = Range(rows)
        <5>. HIDE DEF link
        <5>. QED
          BY <2>3, <3>2, <4>1, PageRowsProperties
      <4>. HIDE DEF link, pages
      <4>. QED
        BY <4>1, <4>2
    <3>. QED
      BY <3>1, <3>2
  <2>. HIDE DEF link, pages
  <2>5. PICK q : {p \in pages : f \in at(p)} = {q}
    <3>1. PICK q \in pages : \A p \in pages : f \in at(p) <=> p = q
      BY <2>4
    <3>. HIDE DEF at
    <3>2. {p \in pages : f \in at(p)} = {q}
      BY <3>1
    <3>. QED
      BY <3>2
  <2>. QED
    BY <2>5, FS_Singleton
<1>. QED
  BY <1>2, <1>3 DEF EveryRowOnAPage

-----------------------------------------------------------------------------
(* What a render makes of the files.                                        *)

LEMMA ReverseProperties ==
    ASSUME NEW T, NEW s \in Seq(T)
    PROVE  /\ Reverse(s) \in Seq(T)
           /\ Range(Reverse(s)) = Range(s)
           /\ IsInjective(s) => IsInjective(Reverse(s))
<1>. DEFINE n == Len(s)
            r == Reverse(s)
<1>1. n \in Nat /\ DOMAIN s = 1..n /\ \A i \in 1..n : s[i] \in T
  BY LenProperties, ElementOfSeq
<1>2. r = [i \in 1..n |-> s[(n - i) + 1]]
  BY DEF Reverse
<1>. HIDE DEF n, r
<1>3. \A i \in 1..n : (n - i) + 1 \in 1..n /\ (n - ((n - i) + 1)) + 1 = i
  BY <1>1
<1>4. DOMAIN r = 1..n /\ \A i \in 1..n : r[i] = s[(n - i) + 1] /\ r[i] \in T
  BY <1>1, <1>2, <1>3
<1>5. r \in Seq(T)
  BY <1>1, <1>2, <1>3
<1>6. Range(r) = Range(s)
  <2>1. \A i \in 1..n : \E j \in 1..n : s[i] = r[j]
    BY <1>3, <1>4
  <2>2. \A i \in 1..n : \E j \in 1..n : r[i] = s[j]
    BY <1>3, <1>4
  <2>3. Range(r) = {r[i] : i \in 1..n} /\ Range(s) = {s[i] : i \in 1..n}
    BY <1>1, <1>4 DEF Range
  <2>. QED
    BY <2>1, <2>2, <2>3
<1>7. ASSUME IsInjective(s) PROVE IsInjective(r)
  <2>. SUFFICES ASSUME NEW i \in 1..n, NEW j \in 1..n, r[i] = r[j] PROVE i = j
    BY <1>4 DEF IsInjective
  <2>1. (n - i) + 1 = (n - j) + 1
    BY <1>1, <1>3, <1>4, <1>7 DEF IsInjective
  <2>. QED
    BY <1>1, <2>1
<1>. QED
  BY <1>5, <1>6, <1>7 DEF r

\* Sorting keeps the rows.
LEMMA SortedProperties ==
    ASSUME NEW rows \in Seq(File), IsInjective(rows), NEW u
    PROVE  /\ Sorted(rows, u) \in Seq(File) /\ IsInjective(Sorted(rows, u))
           /\ Range(Sorted(rows, u)) = Range(rows)
           /\ Len(Sorted(rows, u)) = Len(rows)
<1>. DEFINE falling == IF u.sort = "name" THEN Reverse(Named) ELSE Modified
            order == IF u.dir = "desc" THEN falling ELSE Reverse(falling)
<1>1. CASE u.layout # "table" \/ (u.q /\ u.sort = "modified")
  BY <1>1 DEF Sorted
<1>2. CASE ~(u.layout # "table" \/ (u.q /\ u.sort = "modified"))
  <2>1. Sorted(rows, u) = Only(order, Range(rows))
    BY <1>2 DEF Sorted
  <2>2. /\ Modified \in Seq(File) /\ IsInjective(Modified) /\ Range(Modified) = File
        /\ Named \in Seq(File) /\ IsInjective(Named) /\ Range(Named) = File
    BY FileFinite, FilesAssumption DEF File
  <2>3. falling \in Seq(File) /\ IsInjective(falling) /\ Range(falling) = File
    BY <2>2, ReverseProperties
  <2>. HIDE DEF falling
  <2>4. order \in Seq(File) /\ IsInjective(order) /\ Range(order) = File
    BY <2>3, ReverseProperties
  <2>. HIDE DEF order
  <2>5. \A f \in Range(rows) : f \in File
    BY RowsAreFiles
  <2>6. /\ Only(order, Range(rows)) \in Seq(File) /\ IsInjective(Only(order, Range(rows)))
        /\ Range(Only(order, Range(rows))) = File \cap Range(rows)
    BY ONLY <2>4, OnlyProperties
  <2>7. Sorted(rows, u) \in Seq(File) /\ IsInjective(Sorted(rows, u))
        /\ Range(Sorted(rows, u)) = Range(rows)
    BY <2>1, <2>5, <2>6
  <2>8. Len(Sorted(rows, u)) = Len(rows)
    BY <2>7, InjectiveLength
  <2>. QED
    BY <2>7, <2>8
<1>. QED
  BY <1>1, <1>2

\* A prefix of some of the files, newest first.
LEMMA NewestFirst ==
    ASSUME NEW S, NEW n \in Nat
    PROVE  /\ Only(Modified, S) \in Seq(File) /\ IsInjective(Only(Modified, S))
           /\ Take(Only(Modified, S), n) \in Seq(File) /\ IsInjective(Take(Only(Modified, S), n))
<1>1. Modified \in Seq(File) /\ IsInjective(Modified)
  BY FileFinite
<1>2. Only(Modified, S) \in Seq(File) /\ IsInjective(Only(Modified, S))
  BY ONLY <1>1, OnlyProperties
<1>. QED
  BY ONLY <1>2, n \in Nat, TakeProperties

LEMMA Limits == /\ ListLimit \in Nat \ {0} /\ SearchLimit \in Nat \ {0}
                /\ BoardLimit \in Nat \ {0} /\ TrashLimit \in Nat \ {0}
BY FilesAssumption

LEMMA FetchProperties ==
    ASSUME NEW u, binned \in Seq(File), IsInjective(binned)
    PROVE  Fetch(u) \in Seq(File) /\ IsInjective(Fetch(u))
<1>1. SearchFiles \in Seq(File) /\ IsInjective(SearchFiles)
  BY NewestFirst, Limits DEF SearchFiles, Found
<1>2. TrashList \in Seq(File) /\ IsInjective(TrashList)
  BY TakeProperties, Limits DEF TrashList
<1>3. \A n \in Nat : ListFiles(u, n) \in Seq(File) /\ IsInjective(ListFiles(u, n))
  BY NewestFirst DEF ListFiles
<1>4. TableFetch(u) \in Seq(File) /\ IsInjective(TableFetch(u))
  BY <1>1, <1>3, Limits DEF TableFetch
<1>5. BoardFetch(u) \in Seq(File) /\ IsInjective(BoardFetch(u))
  BY <1>1, <1>3, Limits DEF BoardFetch
<1>. QED
  BY <1>2, <1>4, <1>5 DEF Fetch

LEMMA RowsProperties ==
    ASSUME NEW fetched \in Seq(File), IsInjective(fetched), NEW u
    PROVE  /\ Rows(fetched, u) \in Seq(File) /\ IsInjective(Rows(fetched, u))
           /\ Range(Rows(fetched, u)) = Range(fetched) \cap {f \in File : MatchesFilters(f, u)}
           /\ (\A f \in Range(fetched) : MatchesFilters(f, u)) => Len(Rows(fetched, u)) = Len(fetched)
<1>. DEFINE S == {f \in File : MatchesFilters(f, u)}
            kept == Only(fetched, S)
<1>1. /\ kept \in Seq(File) /\ IsInjective(kept)
      /\ Range(kept) = Range(fetched) \cap S
  BY ONLY fetched \in Seq(File), IsInjective(fetched), OnlyProperties
<1>2. ASSUME \A f \in Range(fetched) : MatchesFilters(f, u) PROVE Len(kept) = Len(fetched)
  <2>1. Range(kept) = Range(fetched)
    BY <1>1, <1>2, RowsAreFiles
  <2>. HIDE DEF kept
  <2>. QED
    BY <1>1, <2>1, InjectiveLength
<1>3. Rows(fetched, u) = Sorted(kept, u)
  BY DEF Rows
<1>. HIDE DEF kept, S
<1>4. /\ Sorted(kept, u) \in Seq(File) /\ IsInjective(Sorted(kept, u))
      /\ Range(Sorted(kept, u)) = Range(kept) /\ Len(Sorted(kept, u)) = Len(kept)
  BY <1>1, SortedProperties
<1>. QED
  BY <1>1, <1>2, <1>3, <1>4 DEF S

LEMMA ScreenProperties ==
    ASSUME NEW u \in Url, NEW fetched \in Seq(File), IsInjective(fetched), NEW d \in BOOLEAN
    PROVE  LET s == Screen(u, fetched, d) IN
           /\ s \in [url : Url, rows : Seq(File), folders : SUBSET Folder, degraded : BOOLEAN]
           /\ s.url = u /\ s.rows = Rows(fetched, u) /\ s.degraded = d
           /\ IsInjective(s.rows)
           /\ Range(Shown(s)) \subseteq File
<1>. DEFINE s == Screen(u, fetched, d)
<1>1. Rows(fetched, u) \in Seq(File) /\ IsInjective(Rows(fetched, u))
  BY RowsProperties
<1>2. ListFolders(u) \subseteq Folder
  BY DEF ListFolders
<1>3. /\ s \in [url : Url, rows : Seq(File), folders : SUBSET Folder, degraded : BOOLEAN]
      /\ s.url = u /\ s.rows = Rows(fetched, u) /\ s.degraded = d
  BY <1>1, <1>2 DEF Screen
<1>. HIDE DEF s
<1>4. u.page \in Nat
  BY FileFinite DEF Url
<1>5. Range(Shown(s)) \subseteq File
  BY <1>1, <1>3, <1>4, ShownProperties
<1>. QED
  BY <1>1, <1>3, <1>5 DEF s

-----------------------------------------------------------------------------
(* The inductive invariant.  A table shows each row once only if its list  *)
(* holds each file once, which every render preserves: the lists of the    *)
(* server, the filter and the sort all take positions of an order.         *)

Job == [op : {"delete", "move", "rename", "restore", "purge", "folder"},
        ids : SUBSET (File \cup Folder), waiting : SUBSET (File \cup Folder),
        to : Folder \cup {NULL}, system : System,
        state : {"running", "done", "failed"}, orphan : BOOLEAN]

PageInv ==
    /\ TypeOK
    /\ IsInjective(binned)
    /\ IsInjective(scr.rows)
    /\ selected \subseteq AllIds

\* A step that leaves what is on screen, and checks rows of it only.
LEMMA AllIdsStay == ASSUME UNCHANGED scr PROVE AllIds' = AllIds
BY DEF AllIds

LEMMA UrlsAreTyped ==
    /\ PlainUrl \in Url
    /\ \A l \in Layout : PageUrl(l) \in Url
    /\ 0 \in 0..Cardinality(File)
<1>1. 0 \in 0..Cardinality(File)
  BY FileFinite
<1>. QED
  BY <1>1 DEF PlainUrl, PageUrl, Url, Layout

LEMMA SystemsListed == \A u \in Url : ActiveSystem(u) \in System
<1>1. Systems \in Seq(System) /\ Systems # <<>>
  BY FilesAssumption
<1>2. Systems[1] \in System
  BY <1>1
<1>. QED
  BY <1>2 DEF ActiveSystem, Url

LEMMA JobsAreTyped == ASSUME TypeOK PROVE /\ jobs \in Seq(Job) /\ DOMAIN jobs = 1..Len(jobs)
                                         /\ Len(jobs) \in Nat
                                         /\ \A n \in DOMAIN jobs : jobs[n] \in Job
<1>1. jobs \in Seq(Job)
  BY DEF TypeOK, Job
<1>. QED
  BY ONLY <1>1, LenProperties, ElementOfSeq

\* All of the invariant but the list of rows and the selection, part by part.
LEMMA TypeParts ==
    ASSUME db \in [File -> FileRows], binned \in Seq(File), folders \in [Folder -> FolderRows \cup {NULL}],
           scr \in [url : Url, rows : Seq(File), folders : SUBSET Folder, degraded : BOOLEAN],
           nav \in Url \cup {NULL}, selected \subseteq File, busy \in BOOLEAN, jobs \in Seq(Job),
           views \subseteq [system : System \cup {NULL}, status : Status \cup {"Archived", NULL}],
           navs \in 0..MaxNavs, ops \in 0..MaxOps, faults \in 0..MaxFaults, disturbed \subseteq File
    PROVE  TypeOK
BY DEF TypeOK, Job

LEMMA InitCorrect == Init => PageInv
<1>. SUFFICES ASSUME Init PROVE PageInv
  OBVIOUS
<1>1. Links \subseteq Url
  <2>1. ASSUME NEW g \in Folder, InitFolders[g] # NULL PROVE InitFolders[g] \in FolderRows
    BY <2>1, FilesAssumption
  <2>2. ASSUME NEW g \in Folder, InitFolders[g] \in FolderRows
        PROVE  [PlainUrl EXCEPT !.system = InitFolders[g].system, !.folder = g] \in Url
    BY <2>2, UrlsAreTyped DEF FolderRows, Url
  <2>. QED
    BY <2>1, <2>2, UrlsAreTyped DEF Links, Layout
<1>2. PICK u \in Links : scr = Screen(u, Fetch(u), FALSE)
  BY DEF Init
<1>0. binned \in Seq(File) /\ IsInjective(binned)
  BY NewestFirst DEF Init
<1>3. /\ scr \in [url : Url, rows : Seq(File), folders : SUBSET Folder, degraded : BOOLEAN]
      /\ IsInjective(scr.rows)
  BY <1>0, <1>1, <1>2, FetchProperties, ScreenProperties
<1>4. jobs \in Seq(Job)
  BY DEF Init
<1>5. MaxNavs \in Nat /\ MaxOps \in Nat /\ MaxFaults \in Nat
  BY FilesAssumption
<1>6. /\ db \in [File -> FileRows]
      /\ folders \in [Folder -> FolderRows \cup {NULL}]
      /\ nav = NULL /\ selected = {} /\ busy = FALSE
      /\ views = {} /\ navs = 0 /\ ops = 0 /\ faults = 0 /\ disturbed = {}
  BY FilesAssumption DEF Init
<1>7. TypeOK
  <2>1. navs \in 0..MaxNavs /\ ops \in 0..MaxOps /\ faults \in 0..MaxFaults
    BY <1>5, <1>6
  <2>. QED
    BY <1>0, <1>3, <1>4, <1>6, <2>1, TypeParts
<1>. QED
  BY <1>0, <1>3, <1>6, <1>7 DEF PageInv

-----------------------------------------------------------------------------
(* Navigation.                                                              *)

LEMMA PushKeeps ==
    ASSUME PageInv, NEW u \in Url, Push(u)
    PROVE  PageInv'
<1>1. navs' \in 0..MaxNavs
  BY FilesAssumption DEF PageInv, TypeOK, Push
<1>2. nav' \in Url
  BY DEF Push
<1>3. UNCHANGED <<ops, faults, db, binned, folders, scr, selected, busy, jobs, views, disturbed>>
  BY DEF Push
<1>4. TypeOK'
  BY <1>1, <1>2, <1>3 DEF PageInv, TypeOK
<1>. QED
  BY <1>3, <1>4, AllIdsStay DEF PageInv

\* What the controls change in the URL of the screen leaves it one.
LEMMA LinksAreUrls ==
    ASSUME TypeOK
    PROVE  /\ scr.url \in Url /\ ViewParams \in Url
           /\ \A l \in {"table", "board"} : [ViewParams EXCEPT !.layout = l] \in Url
           /\ \A s \in Status \cup {NULL} : [ViewParams EXCEPT !.status = s] \in Url
           /\ [ViewParams EXCEPT !.system = NULL] \in Url
           /\ \A q \in BOOLEAN : [ViewParams EXCEPT !.q = q] \in Url
           /\ \A g \in {"none", "status"} : [ViewParams EXCEPT !.group = g] \in Url
           /\ \A g \in Folder \cup {NULL} : [ViewParams EXCEPT !.folder = g] \in Url
           /\ \A key \in {"modified", "name"}, dir \in {"asc", "desc"} :
                 [ViewParams EXCEPT !.sort = key, !.dir = dir] \in Url
           /\ \A p \in 0..Cardinality(File) : [scr.url EXCEPT !.page = p] \in Url
           /\ \A v \in views : HrefForView(v) \in Url
           /\ \A s \in System : [PlainUrl EXCEPT !.system = s] \in Url
           /\ [PlainUrl EXCEPT !.q = TRUE] \in Url
<1>1. scr.url \in Url
  BY DEF TypeOK
<1>2. ViewParams \in Url
  BY <1>1, UrlsAreTyped DEF ViewParams, Url
<1>3. /\ \A l \in {"table", "board"} : [ViewParams EXCEPT !.layout = l] \in Url
      /\ \A s \in Status \cup {NULL} : [ViewParams EXCEPT !.status = s] \in Url
      /\ [ViewParams EXCEPT !.system = NULL] \in Url
  BY <1>2 DEF Url, Layout
<1>4. /\ \A q \in BOOLEAN : [ViewParams EXCEPT !.q = q] \in Url
      /\ \A g \in {"none", "status"} : [ViewParams EXCEPT !.group = g] \in Url
      /\ \A g \in Folder \cup {NULL} : [ViewParams EXCEPT !.folder = g] \in Url
  BY <1>2 DEF Url
<1>5. \A key \in {"modified", "name"}, dir \in {"asc", "desc"} :
         [ViewParams EXCEPT !.sort = key, !.dir = dir] \in Url
  BY <1>2 DEF Url
<1>6. \A p \in 0..Cardinality(File) : [scr.url EXCEPT !.page = p] \in Url
  BY <1>1 DEF Url
<1>7. \A v \in views : HrefForView(v) \in Url
  <2>1. \A v \in views : /\ v.system \in System \cup {NULL}
                         /\ v.status \in Status \cup {"Archived", NULL}
    BY DEF TypeOK
  <2>. QED
    BY <2>1, UrlsAreTyped DEF HrefForView, Url
<1>8. /\ \A s \in System : [PlainUrl EXCEPT !.system = s] \in Url
      /\ [PlainUrl EXCEPT !.q = TRUE] \in Url
  BY UrlsAreTyped DEF Url
<1>. QED
  BY <1>1, <1>2, <1>3, <1>4, <1>5, <1>6, <1>7, <1>8

LEMMA SaveViewKeeps == ASSUME PageInv, SaveView PROVE PageInv'
<1>1. scr.url \in Url
  BY DEF PageInv, TypeOK
<1>2. views' \subseteq [system : System \cup {NULL}, status : Status \cup {"Archived", NULL}]
  BY <1>1 DEF SaveView, PageInv, TypeOK, Url
<1>3. ops' \in 0..MaxOps /\ UNCHANGED <<navs, faults>>
  BY FilesAssumption DEF SaveView, Op, PageInv, TypeOK
<1>4. UNCHANGED <<db, binned, folders, scr, nav, selected, busy, jobs, disturbed>>
  BY DEF SaveView
<1>5. TypeOK'
  BY <1>2, <1>3, <1>4 DEF PageInv, TypeOK
<1>. QED
  BY <1>4, <1>5, AllIdsStay DEF PageInv

LEMMA NavigateKeeps == ASSUME PageInv, Navigate PROVE PageInv'
<1>1. CASE SaveView
  BY <1>1, SaveViewKeeps
<1>2. CASE \E u \in Url : Push(u)
  BY <1>2, PushKeeps
<1>3. TypeOK
  BY DEF PageInv
<1>4. CASE \E l \in {"table", "board"} : ViewTabs(l)
  BY <1>2, <1>3, <1>4, LinksAreUrls DEF ViewTabs
<1>5. CASE FilterBar
  BY <1>2, <1>3, <1>5, LinksAreUrls DEF FilterBar, FilterMenu, ViewSearch, RemoveSystem
<1>6. CASE \E key \in {"modified", "name"} : SortMenu(key)
  <2>1. PICK key \in {"modified", "name"} : SortMenu(key)
    BY <1>6
  <2>2. PICK dir \in {"asc", "desc"} : Push([ViewParams EXCEPT !.sort = key, !.dir = dir])
    BY <2>1 DEF SortMenu
  <2>. QED
    BY <1>2, <1>3, <2>2, LinksAreUrls
<1>7. CASE ViewOptionsMenu
  BY <1>1, <1>2, <1>3, <1>7, LinksAreUrls DEF ViewOptionsMenu, GroupMenu
<1>8. CASE \E p \in 0..Cardinality(File) : Pager(p)
  BY <1>2, <1>3, <1>8, LinksAreUrls DEF Pager
<1>9. CASE \E g \in Folder \cup {NULL} : OpenFolder(g)
  BY <1>2, <1>3, <1>9, LinksAreUrls DEF OpenFolder
<1>10. CASE \E v \in views : OpenView(v)
  BY <1>2, <1>3, <1>10, LinksAreUrls DEF OpenView
<1>11. CASE GlobalSearch
  BY <1>2, <1>3, <1>11, LinksAreUrls DEF GlobalSearch
<1>12. CASE \E s \in System : SidebarSystem(s)
  BY <1>2, <1>3, <1>12, LinksAreUrls DEF SidebarSystem
<1>13. CASE \E l \in {"trash", "archive"} : SidebarPage(l)
  BY <1>2, <1>13, UrlsAreTyped DEF SidebarPage, Layout
<1>. QED
  BY <1>4, <1>5, <1>6, <1>7, <1>8, <1>9, <1>10, <1>11, <1>12, <1>13 DEF Navigate

-----------------------------------------------------------------------------
(* Renders and the selection.                                               *)

LEMMA RenderKeeps == ASSUME PageInv, NEW ok \in BOOLEAN, Render(ok) PROVE PageInv'
<1>. DEFINE fetched == IF ok THEN Fetch(nav) ELSE <<>>
            s == Screen(nav, fetched, ~ok)
<1>1. nav \in Url
  BY DEF PageInv, TypeOK, Render
<1>2. fetched \in Seq(File) /\ IsInjective(fetched)
  <2>1. <<>> \in Seq(File) /\ IsInjective(<<>>)
    BY DEF IsInjective
  <2>. QED
    BY <2>1, FetchProperties DEF PageInv, TypeOK
<1>3. /\ scr' = s /\ selected' = Prune(selected, s) /\ busy' = (busy /\ Mounted(s))
      /\ jobs' = [n \in DOMAIN jobs |-> [jobs[n] EXCEPT !.orphan = @ \/ Unmounted(jobs[n], s)]]
      /\ nav' = NULL /\ UNCHANGED <<db, binned, folders, views, navs, ops, faults, disturbed>>
  BY DEF Render
<1>. HIDE DEF fetched
<1>4. /\ s \in [url : Url, rows : Seq(File), folders : SUBSET Folder, degraded : BOOLEAN]
      /\ IsInjective(s.rows) /\ Range(Shown(s)) \subseteq File
  BY <1>1, <1>2, ScreenProperties
<1>. HIDE DEF s
<1>5. selected' \subseteq Range(Shown(s))
  BY <1>3 DEF Prune
<1>6. jobs' \in Seq(Job)
  <2>1. jobs \in Seq(Job) /\ DOMAIN jobs = 1..Len(jobs) /\ Len(jobs) \in Nat
        /\ \A n \in DOMAIN jobs : jobs[n] \in Job
    BY JobsAreTyped DEF PageInv
  <2>2. ASSUME NEW j \in Job PROVE [j EXCEPT !.orphan = @ \/ Unmounted(j, s)] \in Job
    <3>1. Unmounted(j, s) \in BOOLEAN /\ j.orphan \in BOOLEAN
      BY DEF Unmounted, Mounted, Job
    <3>2. (j.orphan \/ Unmounted(j, s)) \in BOOLEAN
      BY <3>1
    <3>. QED
      BY <3>2 DEF Job
  <2>3. jobs' = [n \in 1..Len(jobs) |-> [jobs[n] EXCEPT !.orphan = @ \/ Unmounted(jobs[n], s)]]
    BY <1>3, <2>1
  <2>. QED
    BY <2>1, <2>2, <2>3
<1>7. busy' \in BOOLEAN
  BY <1>3 DEF PageInv, TypeOK, Mounted
<1>8. TypeOK'
  <2>1. selected' \subseteq File
    BY <1>4, <1>5
  <2>. QED
    BY <1>3, <1>4, <1>6, <1>7, <2>1 DEF PageInv, TypeOK, Job
<1>9. AllIds' = Range(Shown(s))
  BY <1>3 DEF AllIds
<1>. QED
  BY <1>3, <1>4, <1>5, <1>8, <1>9 DEF PageInv

\* The rows of the screen are files.
LEMMA ShownFiles ==
    ASSUME PageInv
    PROVE  /\ AllIds \subseteq File
           /\ IsFiniteSet(AllIds)
           /\ Mounted(scr) => AllIds # {}
<1>1. scr.url.page \in Nat /\ scr.rows \in Seq(File) /\ IsInjective(scr.rows)
  BY FileFinite DEF PageInv, TypeOK, Url
<1>. QED
  BY <1>1, ShownProperties DEF AllIds, Mounted

LEMMA SelectKeeps ==
    ASSUME PageInv, selected' \subseteq AllIds,
           UNCHANGED <<db, binned, folders, scr, nav, busy, jobs, views, navs, ops, faults, disturbed>>
    PROVE  PageInv'
<1>1. selected' \subseteq File
  BY ShownFiles
<1>2. TypeOK'
  BY <1>1 DEF PageInv, TypeOK
<1>. QED
  BY <1>2, AllIdsStay DEF PageInv

LEMMA ToggleKeeps == ASSUME PageInv, NEW f \in File, Toggle(f) PROVE PageInv'
<1>1. selected' \subseteq AllIds
  BY DEF Toggle, PageInv
<1>. QED
  BY <1>1, SelectKeeps DEF Toggle

LEMMA ToggleAllKeeps == ASSUME PageInv, ToggleAll PROVE PageInv'
<1>1. selected' \subseteq AllIds
  BY DEF ToggleAll
<1>. QED
  BY <1>1, SelectKeeps DEF ToggleAll

-----------------------------------------------------------------------------
(* Operations.                                                              *)

\* The counters stay within their bounds.
LEMMA OpCounts ==
    ASSUME TypeOK, Op
    PROVE  ops' \in 0..MaxOps /\ UNCHANGED <<navs, faults>>
<1>1. ops \in 0..MaxOps /\ MaxOps \in Nat
  BY FilesAssumption DEF TypeOK
<1>. QED
  BY <1>1 DEF Op

LEMMA FaultCounts ==
    ASSUME TypeOK, Fault
    PROVE  faults' \in 0..MaxFaults
<1>1. faults \in 0..MaxFaults /\ MaxFaults \in Nat
  BY FilesAssumption DEF TypeOK
<1>. QED
  BY <1>1 DEF Fault

LEMMA StartKeeps ==
    ASSUME PageInv, NEW op \in {"delete", "move", "rename", "restore", "purge", "folder"},
           NEW ids \in SUBSET (File \cup Folder), NEW to \in Folder \cup {NULL},
           Start(op, ids, to)
    PROVE  PageInv'
<1>. DEFINE job == [op |-> op, ids |-> ids, waiting |-> ids, to |-> to,
                    system |-> ActiveSystem(scr.url), state |-> "running", orphan |-> FALSE]
<1>1. jobs \in Seq(Job) /\ scr.url \in Url
  BY JobsAreTyped DEF PageInv, TypeOK
<1>2. job \in Job
  BY <1>1, SystemsListed DEF Job
<1>3. jobs' = Append(jobs, job)
  BY DEF Start
<1>. HIDE DEF job
<1>4. jobs' \in Seq(Job)
  BY <1>1, <1>2, <1>3
<1>5. /\ ops' \in 0..MaxOps /\ UNCHANGED <<navs, faults>>
      /\ busy' \in BOOLEAN
      /\ UNCHANGED <<db, binned, folders, scr, nav, selected, views, disturbed>>
  <2>1. Op /\ TypeOK
    BY DEF Start, PageInv
  <2>2. busy' \in BOOLEAN /\ UNCHANGED <<db, binned, folders, scr, nav, selected, views, disturbed>>
    BY DEF Start, PageInv, TypeOK
  <2>. QED
    BY <2>1, <2>2, OpCounts
<1>6. TypeOK'
  BY <1>4, <1>5 DEF PageInv, TypeOK, Job
<1>. QED
  BY <1>5, <1>6, AllIdsStay DEF PageInv

LEMMA TableKeeps == ASSUME PageInv, Table PROVE PageInv'
<1>1. /\ selected \in SUBSET (File \cup Folder)
      /\ scr.folders \cup {NULL} \subseteq Folder \cup {NULL}
      /\ NULL \in Folder \cup {NULL}
      /\ \A f \in File : {f} \in SUBSET (File \cup Folder)
  BY DEF PageInv, TypeOK
<1>2. CASE ToggleAll
  BY <1>2, ToggleAllKeeps
<1>3. CASE DeleteSelected
  BY <1>1, <1>3, StartKeeps DEF DeleteSelected
<1>4. CASE MoveMenu
  BY <1>1, <1>4, StartKeeps DEF MoveMenu, MoveSelected
<1>5. ASSUME NEW f \in File, Toggle(f) PROVE PageInv'
  BY <1>5, ToggleKeeps
<1>6. ASSUME NEW f \in File, RowMenu(f) PROVE PageInv'
  BY <1>1, <1>6, StartKeeps DEF RowMenu, RenameRow, DeleteRow
<1>. QED
  BY <1>2, <1>3, <1>4, <1>5, <1>6 DEF Table, BulkBar

LEMMA TrashRowKeeps ==
    ASSUME PageInv, NEW f \in File, NEW op \in {"restore", "purge"}, TrashRow(op, f)
    PROVE  PageInv'
BY StartKeeps DEF TrashRow

LEMMA NewFolderKeeps == ASSUME PageInv, NEW g \in Folder, NewFolder(g) PROVE PageInv'
<1>1. scr.url.folder \in Folder \cup {NULL}
  BY DEF PageInv, TypeOK, Url
<1>. QED
  BY <1>1, StartKeeps DEF NewFolder

\* A file is in the trash once.
LEMMA BinProperties ==
    ASSUME NEW f \in File, NEW to, binned \in Seq(File), IsInjective(binned)
    PROVE  BinWith(f, to) \in Seq(File) /\ IsInjective(BinWith(f, to))
<1>. DEFINE rest == Only(binned, File \ {f})
<1>1. /\ rest \in Seq(File) /\ IsInjective(rest)
      /\ Range(rest) = Range(binned) \cap (File \ {f})
  BY OnlyProperties
<1>2. BinWith(f, to) = IF to.state = "trashed" THEN <<f>> \o rest ELSE rest
  BY DEF BinWith
<1>. HIDE DEF rest
<1>3. /\ Len(rest) \in Nat /\ DOMAIN rest = 1..Len(rest)
      /\ \A i \in 1..Len(rest) : rest[i] \in File /\ rest[i] # f
  <2>1. Len(rest) \in Nat /\ DOMAIN rest = 1..Len(rest)
    BY <1>1, LenProperties
  <2>2. \A i \in 1..Len(rest) : rest[i] \in Range(rest)
    BY <2>1 DEF Range
  <2>. QED
    BY <1>1, <2>1, <2>2
<1>4. <<f>> \o rest \in Seq(File) /\ IsInjective(<<f>> \o rest)
  <2>. DEFINE c == <<f>> \o rest
  <2>1. c \in Seq(File) /\ Len(c) = 1 + Len(rest)
    BY <1>1
  <2>2. DOMAIN c = 1..(1 + Len(rest))
    BY <2>1, LenProperties
  <2>3. c[1] = f /\ \A i \in 2..(1 + Len(rest)) : c[i] = rest[i - 1] /\ i - 1 \in 1..Len(rest)
    BY <1>1, <1>3
  <2>. HIDE DEF c
  <2>4. ASSUME NEW i \in DOMAIN c, NEW j \in DOMAIN c, c[i] = c[j] PROVE i = j
    <3>1. \A k \in DOMAIN c : k = 1 \/ k \in 2..(1 + Len(rest))
      BY <1>3, <2>2
    <3>2. CASE i \in 2..(1 + Len(rest)) /\ j \in 2..(1 + Len(rest))
      <4>1. i - 1 = j - 1
        BY <1>1, <1>3, <2>3, <2>4, <3>2 DEF IsInjective
      <4>. QED
        BY <3>2, <4>1
    <3>3. CASE ~(i \in 2..(1 + Len(rest)) /\ j \in 2..(1 + Len(rest)))
      BY <1>3, <2>3, <2>4, <3>1, <3>3
    <3>. QED
      BY <3>2, <3>3
  <2>. QED
    BY <2>1, <2>4 DEF IsInjective, c
<1>. QED
  BY <1>1, <1>2, <1>4

\* The part of the server in one request of a job.
LEMMA ApplyKeeps ==
    ASSUME PageInv, NEW n \in DOMAIN jobs, NEW id \in jobs[n].waiting,
           Apply(n, id) \/ UNCHANGED <<db, binned, folders>>
    PROVE  /\ db' \in [File -> FileRows] /\ folders' \in [Folder -> FolderRows \cup {NULL}]
           /\ binned' \in Seq(File) /\ IsInjective(binned')
<1>1. jobs[n] \in Job
  BY JobsAreTyped DEF PageInv
<1>2. id \in File \cup Folder
  BY <1>1 DEF Job
<1>3. /\ db \in [File -> FileRows] /\ folders \in [Folder -> FolderRows \cup {NULL}]
      /\ binned \in Seq(File) /\ IsInjective(binned)
  BY DEF PageInv, TypeOK
<1>4. CASE UNCHANGED <<db, binned, folders>>
  BY <1>3, <1>4
<1>5. CASE Apply(n, id) /\ id \in File
  <2>1. db[id] \in FileRows /\ jobs[n].to \in Folder \cup {NULL}
    BY <1>1, <1>3, <1>5 DEF Job
  <2>2. FileAfter(n, id) \in FileRows
    BY <2>1 DEF FileAfter, Moved, FileRows
  <2>3. binned' = binned \/ binned' = BinWith(id, FileAfter(n, id))
    BY <1>5 DEF Apply
  <2>. QED
    BY <1>3, <1>5, <2>2, <2>3, BinProperties DEF Apply
<1>6. CASE Apply(n, id) /\ id \notin File
  <2>1. [system |-> jobs[n].system, parent |-> jobs[n].to] \in FolderRows
    BY <1>1 DEF Job, FolderRows
  <2>. QED
    BY <1>2, <1>3, <1>6, <2>1 DEF Apply
<1>. QED
  BY <1>4, <1>5, <1>6

\* A job waits for one answer less, or ends.
LEMMA JobsKeep ==
    ASSUME TypeOK, NEW n \in DOMAIN jobs, NEW W, W \subseteq jobs[n].waiting,
           NEW st \in {"running", "done", "failed"},
           jobs' = [jobs EXCEPT ![n] = [@ EXCEPT !.waiting = W, !.state = st]]
    PROVE  jobs' \in Seq(Job)
<1>1. jobs \in Seq(Job) /\ jobs[n] \in Job /\ DOMAIN jobs = 1..Len(jobs) /\ Len(jobs) \in Nat
  BY JobsAreTyped
<1>2. [jobs[n] EXCEPT !.waiting = W, !.state = st] \in Job
  BY <1>1 DEF Job
<1>. QED
  BY <1>1, <1>2

LEMMA AnswerKeeps ==
    ASSUME PageInv, NEW n \in DOMAIN jobs, NEW id \in jobs[n].waiting, NEW ok \in BOOLEAN,
           Answer(n, id, ok)
    PROVE  PageInv'
<1>1. TypeOK /\ jobs[n] \in Job
  BY JobsAreTyped DEF PageInv
<1>2. /\ db' \in [File -> FileRows] /\ folders' \in [Folder -> FolderRows \cup {NULL}]
      /\ binned' \in Seq(File) /\ IsInjective(binned')
  BY <1>1, ApplyKeeps DEF Answer
<1>3. jobs' \in Seq(Job)
  <2>. DEFINE st == IF ok \/ jobs[n].op \in TableOps THEN jobs[n].state ELSE "failed"
  <2>1. st \in {"running", "done", "failed"}
    BY <1>1 DEF Job
  <2>2. jobs' = [jobs EXCEPT ![n] = [@ EXCEPT !.waiting = jobs[n].waiting \ {id}, !.state = st]]
    BY <1>1 DEF Answer, Job
  <2>. HIDE DEF st
  <2>. QED
    BY <1>1, <2>1, <2>2, JobsKeep
<1>4. /\ faults' \in 0..MaxFaults /\ disturbed' \subseteq File
      /\ UNCHANGED <<scr, nav, selected, busy, views, navs, ops>>
  <2>1. disturbed' \subseteq File /\ UNCHANGED <<scr, nav, selected, busy, views, navs, ops>>
    BY DEF Answer, PageInv, TypeOK
  <2>2. UNCHANGED faults \/ Fault
    BY DEF Answer
  <2>3. faults' \in 0..MaxFaults
    BY <1>1, <2>2, FaultCounts DEF TypeOK
  <2>. QED
    BY <2>1, <2>3
<1>5. TypeOK'
  BY <1>1, <1>2, <1>3, <1>4 DEF TypeOK, Job
<1>. QED
  BY <1>2, <1>4, <1>5, AllIdsStay DEF PageInv

LEMMA LoseKeeps ==
    ASSUME PageInv, NEW n \in DOMAIN jobs, NEW id \in jobs[n].waiting, NEW arrived \in BOOLEAN,
           Lose(n, id, arrived)
    PROVE  PageInv'
<1>1. TypeOK /\ jobs[n] \in Job
  BY JobsAreTyped DEF PageInv
<1>2. /\ db' \in [File -> FileRows] /\ folders' \in [Folder -> FolderRows \cup {NULL}]
      /\ binned' \in Seq(File) /\ IsInjective(binned')
  BY <1>1, ApplyKeeps DEF Lose
<1>3. jobs' \in Seq(Job)
  <2>1. jobs' = [jobs EXCEPT ![n] = [@ EXCEPT !.waiting = jobs[n].waiting \ {id}, !.state = "failed"]]
    BY <1>1 DEF Lose, Job
  <2>. QED
    BY <1>1, <2>1, JobsKeep
<1>4. /\ faults' \in 0..MaxFaults /\ disturbed' \subseteq File /\ busy' \in BOOLEAN
      /\ UNCHANGED <<scr, nav, selected, views, navs, ops>>
  <2>1. faults' \in 0..MaxFaults
    BY <1>1, FaultCounts DEF Lose
  <2>2. disturbed' \subseteq File
    BY DEF Lose, PageInv, TypeOK
  <2>3. busy' = busy \/ busy' = FALSE
    BY DEF Lose, BusyAfter
  <2>4. busy' \in BOOLEAN
    BY <2>3 DEF PageInv, TypeOK
  <2>. QED
    BY <2>1, <2>2, <2>4 DEF Lose
<1>5. TypeOK'
  BY <1>1, <1>2, <1>3, <1>4 DEF TypeOK, Job
<1>. QED
  BY <1>2, <1>4, <1>5, AllIdsStay DEF PageInv

LEMMA FinishKeeps == ASSUME PageInv, NEW n \in DOMAIN jobs, Finish(n) PROVE PageInv'
<1>1. TypeOK /\ jobs[n] \in Job
  BY JobsAreTyped DEF PageInv
<1>2. jobs' \in Seq(Job)
  <2>1. jobs' = [jobs EXCEPT ![n] = [@ EXCEPT !.waiting = jobs[n].waiting, !.state = "done"]]
    BY <1>1 DEF Finish, Job
  <2>. QED
    BY <1>1, <2>1, JobsKeep
<1>3. /\ selected' \subseteq selected /\ busy' \in BOOLEAN /\ nav' \in Url \cup {NULL}
      /\ UNCHANGED <<db, binned, folders, scr, views, navs, ops, faults, disturbed>>
  BY DEF Finish, BusyAfter, PageInv, TypeOK
<1>4. TypeOK'
  BY <1>1, <1>2, <1>3 DEF TypeOK, Job
<1>. QED
  BY <1>3, <1>4, AllIdsStay DEF PageInv

LEMMA ElsewhereKeeps ==
    ASSUME PageInv, NEW f \in File, NEW to \in [state : {"live", "trashed"}, folder : {NULL}],
           Elsewhere(f, to)
    PROVE  PageInv'
<1>1. to \in FileRows
  BY DEF FileRows
<1>0. binned' \in Seq(File) /\ IsInjective(binned')
  BY BinProperties DEF Elsewhere, PageInv, TypeOK
<1>2. /\ db' \in [File -> FileRows] /\ disturbed' \subseteq File
      /\ ops' \in 0..MaxOps /\ UNCHANGED <<navs, faults>>
      /\ UNCHANGED <<folders, scr, nav, selected, busy, jobs, views>>
  <2>1. Op /\ TypeOK
    BY DEF Elsewhere, PageInv
  <2>2. /\ db' \in [File -> FileRows] /\ disturbed' \subseteq File
        /\ UNCHANGED <<folders, scr, nav, selected, busy, jobs, views>>
    BY <1>1 DEF Elsewhere, PageInv, TypeOK
  <2>. QED
    BY <2>1, <2>2, OpCounts
<1>3. TypeOK'
  BY <1>0, <1>2 DEF PageInv, TypeOK
<1>. QED
  BY <1>0, <1>2, <1>3, AllIdsStay DEF PageInv

LEMMA StepsKeep == ASSUME PageInv, [Next]_vars PROVE PageInv'
<1>1. CASE Navigate
  BY <1>1, NavigateKeeps
<1>2. CASE \E ok \in BOOLEAN : Render(ok)
  BY <1>2, RenderKeeps
<1>3. CASE Table
  BY <1>3, TableKeeps
<1>4. CASE \E f \in File, op \in {"restore", "purge"} : TrashRow(op, f)
  BY <1>4, TrashRowKeeps
<1>5. CASE \E g \in Folder : NewFolder(g)
  BY <1>5, NewFolderKeeps
<1>6. ASSUME NEW n \in DOMAIN jobs,
             \/ \E id \in jobs[n].waiting, b \in BOOLEAN : Answer(n, id, b) \/ Lose(n, id, b)
             \/ Finish(n)
      PROVE  PageInv'
  BY <1>6, AnswerKeeps, LoseKeeps, FinishKeeps
<1>7. CASE \E f \in File, to \in [state : {"live", "trashed"}, folder : {NULL}] : Elsewhere(f, to)
  BY <1>7, ElsewhereKeeps
<1>8. CASE UNCHANGED vars
  <2>1. UNCHANGED <<db, binned, folders, scr, nav, selected, busy, jobs, views, navs, ops, faults, disturbed>>
    BY <1>8 DEF vars
  <2>2. TypeOK'
    BY <2>1 DEF PageInv, TypeOK
  <2>. QED
    BY <2>1, <2>2, AllIdsStay DEF PageInv
<1>. QED
  BY <1>1, <1>2, <1>3, <1>4, <1>5, <1>6, <1>7, <1>8 DEF Next

\* No action puts a file twice into the rows, or leaves a row checked that a
\* render has taken from the screen.
THEOREM PageInvariant == Spec => []PageInv
BY InitCorrect, StepsKeep, PTL DEF Spec

-----------------------------------------------------------------------------
(* Theorems.                                                                *)

\* The database, the screen, the selection, the jobs and the saved views stay what
\* FilesPage says they are (src/frontend/app/files and the pages beside it).
THEOREM TypeCorrect == Spec => []TypeOK
<1>1. PageInv => TypeOK
  BY DEF PageInv
<1>. QED
  BY <1>1, PageInvariant, PTL

\* Whatever render replaces the rows under a selection, the bulk bar acts on rows of
\* the screen, and the header box, which compares two sizes, is checked exactly when
\* every row is (files-table.tsx:37-50).
THEOREM SelectionStaysOnScreen == Spec => []SelectionIsOnScreen
<1>1. ASSUME PageInv PROVE SelectionIsOnScreen
  <2>1. selected \subseteq AllIds /\ IsFiniteSet(AllIds) /\ (Mounted(scr) => AllIds # {})
    BY <1>1, ShownFiles DEF PageInv
  <2>2. Cardinality(selected) = Cardinality(AllIds) <=> selected = AllIds
    BY <2>1, FS_Subset
  <2>. QED
    BY <2>1, <2>2 DEF SelectionIsOnScreen, AllChecked
<1>. QED
  BY <1>1, PageInvariant, PTL

\* No page, group, board lane, day or calendar cell drops a row or shows one twice:
\* of the rows on screen, and of every list of files (files/page.tsx:122-130,
\* board/page.tsx:70-91, gallery, timeline and calendar/page.tsx).
THEOREM RowsAreShownOnce == Spec => []EveryRowOnce
<1>1. ASSUME PageInv PROVE EveryRowOnce
  <2>1. scr.url \in Url /\ scr.rows \in Seq(File) /\ IsInjective(scr.rows)
    BY <1>1 DEF PageInv, TypeOK
  <2>2. EveryRowOnAPage
    BY <2>1, PagesShowRows
  <2>3. LanesPartition(scr.rows)
    BY <2>1, LayoutsPartition
  <2>. QED
    BY <2>2, <2>3, EveryList DEF EveryRowOnce
<1>. QED
  BY <1>1, PageInvariant, PTL

\* The list behind a table is complete or as long as its limit.
LEMMA TableIsComplete ==
    ASSUME PageInv, NEW u \in Url, u.layout = "table", ~u.q
    PROVE  \/ Matching(u) \subseteq Range(Rows(Fetch(u), u))
           \/ Len(Rows(Fetch(u), u)) = ListLimit
<1>. DEFINE S == {f \in File : /\ db[f].state = "live"
                               /\ u.system \in {NULL, SystemOf[f]}
                               /\ u.status \in {NULL, StatusOf[f]}
                               /\ u.folder \in {NULL, db[f].folder}}
            all == Only(Modified, S)
            fetched == Take(all, ListLimit)
<1>1. Fetch(u) = fetched
  BY DEF Fetch, TableFetch, ListFiles
<1>2. \A f \in File : f \in S => MatchesFilters(f, u)
  BY DEF MatchesFilters
<1>3. Matching(u) \subseteq S
  BY DEF Matching, MatchesFilters
<1>. HIDE DEF S
<1>4. all \in Seq(File) /\ Range(all) = File \cap S /\ Len(all) \in Nat
  <2>1. Modified \in Seq(File) /\ Range(Modified) = File
    BY FileFinite DEF File
  <2>. QED
    BY <2>1, OnlyProperties
<1>. HIDE DEF all
<1>5. /\ Len(fetched) = IF ListLimit < Len(all) THEN ListLimit ELSE Len(all)
      /\ Len(all) <= ListLimit => fetched = all
      /\ Range(fetched) \subseteq Range(all)
  BY <1>4, Limits, TakeProperties
<1>6. fetched \in Seq(File) /\ IsInjective(fetched)
  BY <1>1, FetchProperties DEF PageInv, TypeOK
<1>. HIDE DEF fetched
<1>7. \A f \in Range(fetched) : MatchesFilters(f, u)
  BY <1>2, <1>4, <1>5
<1>8. /\ Range(Rows(fetched, u)) = Range(fetched) \cap {f \in File : MatchesFilters(f, u)}
      /\ Len(Rows(fetched, u)) = Len(fetched)
  BY <1>6, <1>7, RowsProperties
<1>9. CASE Len(all) <= ListLimit
  <2>1. \A f \in Matching(u) : f \in File /\ f \in S
    BY <1>3 DEF Matching
  <2>2. Matching(u) \subseteq Range(Rows(fetched, u))
    BY <1>2, <1>4, <1>5, <1>8, <1>9, <2>1
  <2>. QED
    BY <1>1, <2>2
<1>10. CASE ~(Len(all) <= ListLimit)
  <2>1. Len(fetched) = ListLimit
    BY <1>4, <1>5, <1>10, Limits
  <2>. QED
    BY <1>1, <1>8, <2>1
<1>. QED
  BY <1>9, <1>10

\* The list behind a search is complete unless the server cut what it found.
LEMMA SearchIsComplete ==
    ASSUME PageInv, NEW u \in Url, u.layout = "table", u.q
    PROVE  Matching(u) \subseteq Range(Rows(Fetch(u), u)) \/ Len(Found) > SearchLimit
<1>. DEFINE S == {f \in Hits : db[f].state = "live"}
<1>1. Fetch(u) = Take(Found, SearchLimit)
  BY DEF Fetch, TableFetch, SearchFiles
<1>2. Matching(u) \subseteq {f \in File : f \in S /\ MatchesFilters(f, u)}
  BY DEF Matching
<1>3. Found \in Seq(File) /\ Range(Found) = File \cap S /\ Len(Found) \in Nat
  <2>1. Modified \in Seq(File) /\ Range(Modified) = File
    BY FileFinite DEF File
  <2>2. Found = Only(Modified, S)
    BY DEF Found
  <2>. HIDE DEF S
  <2>. QED
    BY <2>1, <2>2, OnlyProperties
<1>4. Fetch(u) \in Seq(File) /\ IsInjective(Fetch(u))
  BY FetchProperties DEF PageInv, TypeOK
<1>5. Range(Rows(Fetch(u), u)) = Range(Fetch(u)) \cap {f \in File : MatchesFilters(f, u)}
  BY <1>4, RowsProperties
<1>6. CASE Len(Found) <= SearchLimit
  <2>1. Fetch(u) = Found
    BY <1>1, <1>3, <1>6, Limits, TakeProperties
  <2>. HIDE DEF S
  <2>. QED
    BY <1>2, <1>3, <1>5, <2>1
<1>. QED
  BY <1>3, <1>6, Limits

\* A fresh table that leaves out a matching file says that it is capped, for the
\* filter drops nothing that the server returned and a full list stays full
\* (files/page.tsx:22-24, :328); a search leaves out files, unsaid, only when it
\* found more than its limit.  Failed fetches and the other layouts are outside.
THEOREM CapsAreFlagged == Spec => CapIsFlagged
<1>. DEFINE Flagged == scr'.url.layout = "table" /\ ~scr'.degraded =>
                          \/ Matching(scr'.url) \subseteq Range(scr'.rows)
                          \/ IF scr'.url.q THEN Len(Found) > SearchLimit ELSE Capped(scr')
<1>1. ASSUME PageInv, NEW ok \in BOOLEAN, Render(ok) PROVE Flagged
  <2>. DEFINE fetched == IF ok THEN Fetch(nav) ELSE <<>>
  <2>1. nav \in Url /\ scr' = Screen(nav, fetched, ~ok)
    BY <1>1 DEF PageInv, TypeOK, Render
  <2>2. fetched \in Seq(File) /\ IsInjective(fetched)
    <3>1. <<>> \in Seq(File) /\ IsInjective(<<>>)
      BY DEF IsInjective
    <3>. QED
      BY <1>1, <3>1, FetchProperties DEF PageInv, TypeOK
  <2>3. ok => fetched = Fetch(nav)
    OBVIOUS
  <2>. HIDE DEF fetched
  <2>4. scr'.url = nav /\ scr'.rows = Rows(fetched, nav) /\ scr'.degraded = ~ok
    BY <2>1, <2>2, ScreenProperties
  <2>5. CASE ok /\ nav.layout = "table" /\ ~nav.q
    <3>1. \/ Matching(nav) \subseteq Range(Rows(fetched, nav))
          \/ Len(Rows(fetched, nav)) = ListLimit
      BY <1>1, <2>1, <2>3, <2>5, TableIsComplete
    <3>2. ListLimit >= ListLimit
      BY Limits
    <3>. QED
      BY <2>4, <2>5, <3>1, <3>2 DEF Capped
  <2>6. CASE ok /\ nav.layout = "table" /\ nav.q
    <3>1. Matching(nav) \subseteq Range(Rows(fetched, nav)) \/ Len(Found) > SearchLimit
      BY <1>1, <2>1, <2>3, <2>6, SearchIsComplete
    <3>. QED
      BY <2>4, <2>6, <3>1
  <2>7. CASE ~ok \/ nav.layout # "table"
    BY <2>4, <2>7
  <2>. QED
    BY <2>5, <2>6, <2>7
<1>2. ASSUME PageInv, [Next]_vars
      PROVE  [scr' # scr /\ scr'.url.layout = "table" /\ ~scr'.degraded =>
                 \/ Matching(scr'.url) \subseteq Range(scr'.rows)
                 \/ IF scr'.url.q THEN Len(Found) > SearchLimit ELSE Capped(scr')]_vars
  <2>1. CASE \E ok \in BOOLEAN : Render(ok)
    BY <1>1, <1>2, <2>1
  <2>2. CASE Navigate
    BY <2>2 DEF Navigate, ViewTabs, FilterBar, FilterMenu, ViewSearch, RemoveSystem, SortMenu,
                ViewOptionsMenu, GroupMenu, SaveView, Pager, OpenFolder, OpenView, GlobalSearch,
                SidebarSystem, SidebarPage, Push
  <2>3. CASE Table
    BY <2>3 DEF Table, ToggleAll, BulkBar, DeleteSelected, MoveMenu, MoveSelected, Toggle,
                RowMenu, RenameRow, DeleteRow, Start
  <2>4. CASE \E f \in File, op \in {"restore", "purge"} : TrashRow(op, f)
    BY <2>4 DEF TrashRow, Start
  <2>5. CASE \E g \in Folder : NewFolder(g)
    BY <2>5 DEF NewFolder, Start
  <2>6. CASE \E n \in DOMAIN jobs :
                \/ \E id \in jobs[n].waiting, b \in BOOLEAN : Answer(n, id, b) \/ Lose(n, id, b)
                \/ Finish(n)
    <3>1. ASSUME NEW n \in DOMAIN jobs, NEW id \in jobs[n].waiting, NEW b \in BOOLEAN,
                 Answer(n, id, b) \/ Lose(n, id, b)
          PROVE  UNCHANGED scr
      BY <3>1 DEF Answer, Lose
    <3>2. ASSUME NEW n \in DOMAIN jobs, Finish(n) PROVE UNCHANGED scr
      BY <3>2 DEF Finish
    <3>3. UNCHANGED scr
      BY <2>6, <3>1, <3>2
    <3>. HIDE DEF Flagged
    <3>. QED
      BY <3>3
  <2>7. CASE \E f \in File, to \in [state : {"live", "trashed"}, folder : {NULL}] : Elsewhere(f, to)
    BY <2>7 DEF Elsewhere
  <2>8. CASE UNCHANGED vars
    BY <2>8
  <2>. QED
    BY <1>2, <2>1, <2>2, <2>3, <2>4, <2>5, <2>6, <2>7, <2>8 DEF Next
<1>. QED
  BY <1>2, PageInvariant, PTL DEF Spec, CapIsFlagged
=============================================================================
