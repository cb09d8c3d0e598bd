---------------------------- MODULE QuotaProofs ----------------------------
(* Theorems about Quota, for every set of files, units, users, scopes and   *)
(* concurrent requests, every nesting of the scopes, every cap and every    *)
(* bound on the size of a body.                                             *)
EXTENDS Quota, FiniteSetTheorems, TLAPS

-----------------------------------------------------------------------------
(* Sums.  SumFunctionOnSet is a fold, defined by recursion over the subsets  *)
(* of its index set, and the induction theorems of the library take an      *)
(* operator.  Induction is done here without one: among the subsets that    *)
(* fail to have a property there is a smallest (the strict subset ordering  *)
(* of a finite set is well founded), and it cannot fail.                    *)

First(s) == CHOOSE x \in s : TRUE

\* One unfolding of the fold that SumFunctionOnSet(fun, s) is.
Unfold(g, fun, s) == IF s = {} THEN 0 ELSE fun[First(s)] + g[s \ {First(s)}]

IsFold(g, fun, S) == g = [s \in SUBSET S |-> Unfold(g, fun, s)]

LEMMA FirstIn == ASSUME NEW s, s # {} PROVE First(s) \in s
BY DEF First

\* Of any collection of subsets of a finite set, one has none below it.
LEMMA LeastSubset ==
    ASSUME NEW S, IsFiniteSet(S), NEW T, T \subseteq SUBSET S, T # {}
    PROVE  \E s \in T : \A t \in T : t \subseteq s => t = s
<1>1. T \subseteq FiniteSubsetsOf(S)
    BY FS_FiniteSubsetsOfFinite
<1>2. PICK s \in T : \A t \in T : <<t, s>> \notin StrictSubsetOrdering(S)
    BY <1>1, FS_StrictSubsetOrderingWellFounded, WFMin
<1>3. \A t \in T : <<t, s>> \in (SUBSET S) \X (SUBSET S)
    OBVIOUS
<1> QED
    BY <1>2, <1>3 DEF StrictSubsetOrdering

LEMMA LeastNumber ==
    ASSUME NEW T, T \subseteq Nat, T # {}
    PROVE  \E n \in T : \A m \in T : n <= m
<1>1. PICK m0 \in T : TRUE
    OBVIOUS
<1> DEFINE S == 0..m0
<1> DEFINE Fam == {s \in SUBSET S : \E n \in T : s = 0..n}
<1>2. IsFiniteSet(S)
    BY <1>1, FS_Interval
<1>3. 0..m0 \in Fam
    BY <1>1
<1>4. PICK s \in Fam : \A t \in Fam : t \subseteq s => t = s
  <2>1. Fam \subseteq SUBSET S /\ Fam # {}
    BY <1>3
  <2> HIDE DEF Fam, S
  <2> QED
    BY <1>2, <2>1, LeastSubset
<1>5. PICK n \in T : s = 0..n
    OBVIOUS
<1>6. ASSUME NEW m \in T, m < n PROVE FALSE
  <2>1. 0..m \subseteq s /\ 0..m \in Fam /\ n \in s /\ n \notin 0..m
    BY <1>4, <1>5, <1>6
  <2> QED
    BY <1>4, <2>1
<1> QED
    BY <1>5, <1>6

Upto(S, n) == {s \in SUBSET S : Cardinality(s) <= n}

PartFold(g, fun, S, n) == g = [s \in Upto(S, n) |-> Unfold(g, fun, s)]

LEMMA FoldGrows ==
    ASSUME NEW fun, NEW S, IsFiniteSet(S), NEW n \in Nat, 
           NEW g, PartFold(g, fun, S, n)
    PROVE  \E h : PartFold(h, fun, S, n + 1)
<1> DEFINE h == [s \in Upto(S, n + 1) |->
                    IF s \in Upto(S, n) THEN g[s] ELSE Unfold(g, fun, s)]
<1>1. ASSUME NEW s \in Upto(S, n + 1), s # {}
      PROVE  /\ s \ {First(s)} \in Upto(S, n) 
             /\ s \ {First(s)} \in Upto(S, n + 1)
  <2>1. First(s) \in s /\ s \in SUBSET S /\ IsFiniteSet(s)
        /\ Cardinality(s) \in Nat /\ Cardinality(s) <= n + 1
    BY <1>1, FirstIn, FS_Subset, FS_CardinalityType DEF Upto
  <2>2. Cardinality(s \ {First(s)}) = Cardinality(s) - 1
    BY <2>1, FS_RemoveElement
  <2> QED
    BY <2>1, <2>2 DEF Upto
<1>2. ASSUME NEW s \in Upto(S, n) PROVE s \in Upto(S, n + 1)
  <2>1. Cardinality(s) \in Nat
    BY <1>2, FS_Subset, FS_CardinalityType DEF Upto
  <2> QED
    BY <2>1 DEF Upto
<1>3. ASSUME NEW s \in Upto(S, n) PROVE h[s] = g[s] /\ g[s] = Unfold(g, fun, s)
    BY <1>2 DEF PartFold
<1>4. ASSUME NEW s \in Upto(S, n + 1) PROVE h[s] = Unfold(h, fun, s)
  <2>1. h[s] = Unfold(g, fun, s)
    BY <1>3, <1>4
  <2>2. s # {} => h[s \ {First(s)}] = g[s \ {First(s)}]
    BY <1>1, <1>3, <1>4
  <2> QED
    BY <2>1, <2>2 DEF Unfold
<1>5. h = [s \in Upto(S, n + 1) |-> Unfold(h, fun, s)]
    BY <1>4
<1> QED
    BY <1>5 DEF PartFold

LEMMA FoldExists ==
    ASSUME NEW fun, NEW S, IsFiniteSet(S)
    PROVE  \E g : IsFold(g, fun, S)
<1> DEFINE Bad == {n \in Nat : ~ \E g : PartFold(g, fun, S, n)}
<1>1. \E g : PartFold(g, fun, S, 0)
  <2> DEFINE g == [s \in Upto(S, 0) |-> 0]
  <2>1. ASSUME NEW s \in Upto(S, 0) PROVE s = {}
    <3>1. IsFiniteSet(s) /\ Cardinality(s) \in Nat /\ Cardinality(s) <= 0
      BY <2>1, FS_Subset, FS_CardinalityType DEF Upto
    <3> QED
      BY <3>1, FS_EmptySet
  <2>2. g = [s \in Upto(S, 0) |-> Unfold(g, fun, s)]
    BY <2>1 DEF Unfold
  <2> QED
    BY <2>2 DEF PartFold
<1>2. Bad = {}
  <2> SUFFICES ASSUME Bad # {} PROVE FALSE
    OBVIOUS
  <2>1. PICK n \in Bad : \A m \in Bad : n <= m
    <3>1. Bad \subseteq Nat
      OBVIOUS
    <3> HIDE DEF Bad
    <3> QED
      BY <3>1, LeastNumber
  <2>2. n # 0
    BY <1>1
  <2>3. n - 1 \in Nat /\ n - 1 \notin Bad
    BY <2>1, <2>2
  <2>4. PICK g : PartFold(g, fun, S, n - 1)
    BY <2>3
  <2>5. \E h : PartFold(h, fun, S, (n - 1) + 1)
    BY <2>3, <2>4, FoldGrows
  <2> QED
    BY <2>1, <2>3, <2>5
<1>3. Cardinality(S) \in Nat
    BY FS_CardinalityType
<1>4. PICK g : PartFold(g, fun, S, Cardinality(S))
    BY <1>2, <1>3
<1>5. Upto(S, Cardinality(S)) = SUBSET S
    BY FS_Subset DEF Upto
<1> QED
    BY <1>4, <1>5 DEF PartFold, IsFold

\* What the sum is: the value at S of some fold over the subsets of S.
LEMMA SumIsFold ==
    ASSUME NEW fun, NEW S, IsFiniteSet(S)
    PROVE  \E g : IsFold(g, fun, S) /\ SumFunctionOnSet(fun, S) = g[S]
<1>1. SumFunctionOnSet(fun, S) = (CHOOSE g : IsFold(g, fun, S))[S]
    BY DEF SumFunctionOnSet, FoldFunctionOnSet, MapThenFoldSet, IsFold, Unfold,
      First
<1> QED
    BY <1>1, FoldExists

\* Folds agree wherever the functions they fold do.
LEMMA FoldsAgree ==
    ASSUME NEW fun, NEW fun2, NEW S, NEW T, IsFiniteSet(S), NEW g, NEW h,
           IsFold(g, fun, S), IsFold(h, fun2, T),
           T \subseteq S, \A x \in T : fun[x] = fun2[x]
    PROVE  g[T] = h[T]
<1> DEFINE Bad == {s \in SUBSET T : g[s] # h[s]}
<1> SUFFICES ASSUME Bad # {} PROVE FALSE
    OBVIOUS
<1>1. PICK s \in Bad : \A t \in Bad : t \subseteq s => t = s
  <2>1. Bad \subseteq SUBSET S
    OBVIOUS
  <2> HIDE DEF Bad
  <2> QED
    BY <2>1, LeastSubset
<1>2. g[s] = Unfold(g, fun, s) /\ h[s] = Unfold(h, fun2, s)
    BY DEF IsFold
<1>3. CASE s = {}
    BY <1>2, <1>3 DEF Unfold
<1>4. CASE s # {}
  <2> DEFINE x == First(s)
  <2>1. x \in s
    BY <1>4, FirstIn
  <2>2. g[s \ {x}] = h[s \ {x}]
    BY <1>1, <2>1
  <2>3. fun[x] = fun2[x]
    BY <2>1
  <2> QED
    BY <1>2, <1>4, <2>2, <2>3 DEF Unfold
<1> QED
    BY <1>3, <1>4

LEMMA SumsAgree ==
    ASSUME NEW S, IsFiniteSet(S), NEW fun, NEW fun2,
           \A x \in S : fun[x] = fun2[x]
    PROVE  SumFunctionOnSet(fun, S) = SumFunctionOnSet(fun2, S)
<1>1. PICK g : IsFold(g, fun, S) /\ SumFunctionOnSet(fun, S) = g[S]
    BY SumIsFold
<1>2. PICK h : IsFold(h, fun2, S) /\ SumFunctionOnSet(fun2, S) = h[S]
    BY SumIsFold
<1>4. IsFold(g, fun, S) /\ IsFold(h, fun2, S)
    BY <1>1, <1>2
<1>3. g[S] = h[S]
    BY <1>4, FoldsAgree
<1> QED
    BY <1>1, <1>2, <1>3

\* Every element can be taken out of the sum first.
LEMMA FoldTakes ==
    ASSUME NEW S, IsFiniteSet(S), NEW fun \in [S -> Nat], NEW g, IsFold(g, fun, S)
    PROVE  \A s \in SUBSET S :
              g[s] \in Nat /\ \A x \in s : g[s] = fun[x] + g[s \ {x}]
<1>z. \A x \in S : fun[x] \in Nat
    OBVIOUS
<1> DEFINE Good(s) == g[s] \in Nat /\ \A x \in s : g[s] = fun[x] + g[s \ {x}]
<1> DEFINE Bad == {s \in SUBSET S : ~ Good(s)}
<1>0. SUFFICES ASSUME Bad # {} PROVE FALSE
    OBVIOUS
<1>1. PICK s \in Bad : \A t \in Bad : t \subseteq s => t = s
  <2>1. Bad \subseteq SUBSET S
    OBVIOUS
  <2> HIDE DEF Bad
  <2> QED
    BY <1>0, <2>1, LeastSubset
<1>2. ASSUME NEW t \in SUBSET S, t \subseteq s, t # s PROVE Good(t)
    BY <1>1, <1>2
<1> HIDE DEF Good
<1>3. s \in SUBSET S /\ ~ Good(s)
    OBVIOUS
<1>4. g[s] = Unfold(g, fun, s)
    BY <1>3 DEF IsFold
<1>5. CASE s = {}
    BY <1>3, <1>4, <1>5 DEF Unfold, Good
<1>6. CASE s # {}
  <2> DEFINE y == First(s)
  <2>1. y \in s /\ y \in S
    BY <1>3, <1>6, FirstIn
  <2> HIDE DEF y
  <2>2. g[s] = fun[y] + g[s \ {y}]
    BY <1>4, <1>6 DEF Unfold, y
  <2>3. Good(s \ {y})
    BY <1>2, <1>3, <2>1
  <2>4. fun[y] \in Nat /\ g[s \ {y}] \in Nat /\ g[s] \in Nat
    BY <2>1, <2>2, <2>3 DEF Good
  <2>5. ASSUME NEW x \in s PROVE g[s] = fun[x] + g[s \ {x}]
    <3>0. fun[x] \in Nat
      <4>1. x \in S
        BY <1>3
      <4>. QED
        BY ONLY <1>z, <4>1
    <3>1. CASE x = y
      BY <2>2, <3>1
    <3>2. CASE x # y
      <4>1. x \in s \ {y} /\ y \in s \ {x} /\ x \in S
        BY <1>3, <2>1, <3>2
      <4>2. Good(s \ {x})
        BY <1>2, <1>3, <2>5
      <4>3. g[s \ {y}] = fun[x] + g[(s \ {y}) \ {x}]
        BY <2>3, <4>1 DEF Good
      <4>5. (s \ {x}) \ {y} = (s \ {y}) \ {x}
        OBVIOUS
      <4>4. g[s \ {x}] = fun[y] + g[(s \ {y}) \ {x}]
        BY <4>1, <4>2, <4>5 DEF Good
      <4>6. (s \ {y}) \ {x} \in SUBSET S /\ (s \ {y}) \ {x} # s
        BY <1>3, <2>1
      <4>8. Good((s \ {y}) \ {x})
        BY <1>2, <4>6
      <4>7. g[(s \ {y}) \ {x}] \in Nat
        BY ONLY <4>8 DEF Good
      <4> QED
        BY ONLY <2>2, <2>4, <3>0, <4>3, <4>4, <4>7
    <3> QED
      BY <3>1, <3>2
  <2> QED
    BY <1>3, <2>4, <2>5 DEF Good
<1> QED
    BY <1>5, <1>6

LEMMA SumEmpty == ASSUME NEW fun PROVE SumFunctionOnSet(fun, {}) = 0
<1>1. IsFiniteSet({})
    BY FS_EmptySet
<1>2. PICK g : IsFold(g, fun, {}) /\ SumFunctionOnSet(fun, {}) = g[{}]
    BY <1>1, SumIsFold
<1> QED
    BY <1>2 DEF IsFold, Unfold

LEMMA SumTakes ==
    ASSUME NEW S, IsFiniteSet(S), NEW fun \in [S -> Nat], NEW x \in S
    PROVE  /\ SumFunctionOnSet(fun, S) \in Nat
           /\ SumFunctionOnSet(fun, S \ {x}) \in Nat
           /\ SumFunctionOnSet(fun, S) = fun[x] + SumFunctionOnSet(fun, S \ {x})
<1> DEFINE T == S \ {x}
<1>0. IsFiniteSet(T) /\ T \in SUBSET S
    BY FS_RemoveElement
<1>1. PICK g : IsFold(g, fun, S) /\ SumFunctionOnSet(fun, S) = g[S]
    BY SumIsFold
<1>2. PICK h : IsFold(h, fun, T) /\ SumFunctionOnSet(fun, T) = h[T]
    BY <1>0, SumIsFold
<1>3. g[T] = h[T]
    BY <1>0, <1>1, <1>2, FoldsAgree
<1>4. \A s \in SUBSET S :
         g[s] \in Nat /\ \A y \in s : g[s] = fun[y] + g[s \ {y}]
    BY <1>1, FoldTakes
<1>5. g[T] \in Nat /\ g[S] \in Nat /\ g[S] = fun[x] + g[T]
    BY <1>0, <1>4
<1> QED
    BY <1>1, <1>2, <1>3, <1>5

-----------------------------------------------------------------------------
(* How a sum changes when the function changes at one argument. *)

\* The sum of fun but for its value at x, which may be outside its domain.
SumBut(fun, x) == SumFunctionOnSet(fun, (DOMAIN fun) \ {x})

LEMMA SumSplits ==
    ASSUME NEW S, IsFiniteSet(S), NEW fun \in [S -> Nat], NEW x
    PROVE  /\ SumFunction(fun) \in Nat
           /\ SumBut(fun, x) \in Nat
           /\ x \in S => SumFunction(fun) = SumBut(fun, x) + fun[x]
           /\ x \notin S => SumFunction(fun) = SumBut(fun, x)
<1>1. DOMAIN fun = S
  OBVIOUS
<1>2. CASE x \in S
  <2>1. fun[x] \in Nat
    BY <1>2
  <2>. QED
    BY <1>1, <1>2, <2>1, SumTakes DEF SumFunction, SumBut
<1>3. CASE x \notin S
  <2>1. S \ {x} = S
    BY <1>3
  <2>2. SumFunctionOnSet(fun, S) \in Nat
    <3>1. CASE S = {}
      BY <3>1, SumEmpty
    <3>2. CASE S # {}
      BY <3>2, SumTakes
    <3>. QED
      BY <3>1, <3>2
  <2>. QED
    BY <1>1, <1>3, <2>1, <2>2 DEF SumFunction, SumBut
<1>. QED
  BY <1>2, <1>3

LEMMA SumButAgrees ==
    ASSUME NEW S, NEW T, IsFiniteSet(S), IsFiniteSet(T),
           NEW fun \in [S -> Nat], NEW fun2 \in [T -> Nat],
           NEW x, S \ {x} = T \ {x}, \A y \in S \ {x} : fun[y] = fun2[y]
    PROVE  SumBut(fun, x) = SumBut(fun2, x)
<1>1. IsFiniteSet(S \ {x})
  BY FS_RemoveElement
<1>2. SumFunctionOnSet(fun, S \ {x}) = SumFunctionOnSet(fun2, S \ {x})
  BY <1>1, SumsAgree
<1>. QED
  BY <1>2 DEF SumBut

LEMMA SumAtMost ==
    ASSUME NEW S, IsFiniteSet(S), NEW m \in Nat, NEW fun \in [S -> 0..m]
    PROVE  SumFunction(fun) <= Cardinality(S) * m
<1> DEFINE Fine(s) == SumFunctionOnSet(fun, s) <= Cardinality(s) * m
<1> DEFINE Bad == {s \in SUBSET S : ~ Fine(s)}
<1>1. fun \in [S -> Nat] /\ DOMAIN fun = S
  OBVIOUS
<1>2. SUFFICES ASSUME Bad # {} PROVE FALSE
  BY <1>1 DEF SumFunction
<1>3. PICK s \in Bad : \A t \in Bad : t \subseteq s => t = s
  <2>1. Bad \subseteq SUBSET S
    OBVIOUS
  <2> HIDE DEF Bad
  <2>. QED
    BY <1>2, <2>1, LeastSubset
<1>4. s \in SUBSET S /\ IsFiniteSet(s)
  BY FS_Subset
<1>5. CASE s = {}
  <2>1. SumFunctionOnSet(fun, s) = 0 /\ Cardinality(s) = 0
    BY <1>5, SumEmpty, FS_EmptySet
  <2>. QED
    BY <2>1
<1>6. CASE s # {}
  <2>1. PICK x \in s : TRUE
    BY <1>6
  <2> DEFINE t == s \ {x}
  <2>2. Cardinality(t) \in Nat /\ Cardinality(s) = Cardinality(t) + 1
    <3>1. IsFiniteSet(t) /\ Cardinality(t) = Cardinality(s) - 1
      BY <1>4, <2>1, FS_RemoveElement
    <3>2. Cardinality(s) \in Nat /\ Cardinality(t) \in Nat
      BY <1>4, <3>1, FS_CardinalityType
    <3>. QED
      BY <3>1, <3>2
  <2>3. Fine(t)
    BY <1>3, <2>1
  <2>4. /\ SumFunctionOnSet(fun, t) \in Nat
        /\ SumFunctionOnSet(fun, s) = fun[x] + SumFunctionOnSet(fun, t)
    <3> DEFINE part == [y \in s |-> fun[y]]
    <3>1. part \in [s -> Nat] /\ part[x] = fun[x]
      BY <1>1, <1>4, <2>1
    <3>2. /\ SumFunctionOnSet(part, t) \in Nat
          /\ SumFunctionOnSet(part, s) = part[x] + SumFunctionOnSet(part, t)
      BY <1>4, <2>1, <3>1, SumTakes
    <3>3. SumFunctionOnSet(part, s) = SumFunctionOnSet(fun, s)
      BY <1>4, SumsAgree
    <3>4. SumFunctionOnSet(part, t) = SumFunctionOnSet(fun, t)
      <4>1. IsFiniteSet(t) /\ \A y \in t : part[y] = fun[y]
        BY <1>4, FS_RemoveElement
      <4>. QED
        BY <4>1, SumsAgree
    <3>. QED
      BY <3>1, <3>2, <3>3, <3>4
  <2>5. fun[x] \in Nat /\ fun[x] <= m
    BY <1>4, <2>1
  <2>6. (Cardinality(t) + 1) * m = Cardinality(t) * m + m
    BY <2>2
  <2>7. Cardinality(t) * m \in Nat
    BY <2>2
  <2> HIDE DEF t
  <2>8. Fine(s)
    BY <2>2, <2>3, <2>4, <2>5, <2>6, <2>7
  <2>. QED
    BY <1>3, <2>8
<1>. QED
  BY <1>5, <1>6

-----------------------------------------------------------------------------
(* The invariant.  A request that has passed the check of the watched scope *)
(* is about to add its size there, so its bytes are added to the ones the   *)
(* scope holds: a write moves them from one term to the other, and the sum  *)
(* grows only when a check passes.                                          *)

Todo(p) == {req[p].todo[i] : i \in DOMAIN req[p].todo}

\* p is charged to the watched scope ...
Entered(p) == req[p] # Idle /\ watch \in ScopesOf(req[p].unit, req[p].user)

\* ... and has no check of it left.
Passed == {p \in Proc : Entered(p) /\ watch \notin Todo(p)}

Carried == [p \in Passed |-> req[p].size]

InFlight == SumFunction(Carried)

\* A save is of a file that exists or existed.
SavesKnown ==
    \A p \in Proc : req[p] # Idle /\ req[p].op # "upload" =>
        file[req[p].op] # Unborn

TypeInv == TypeOK /\ SavesKnown

\* What the other requests carry at most.
Slack == (Cardinality(Proc) - 1) * MaxSize

OvershootInv ==
    ~loosened =>
        cap[watch] = 0 \/ Used(watch) + InFlight <= cap[watch] + Slack

-----------------------------------------------------------------------------
LEMMA ChainType ==
    ASSUME NEW u \in Unit, NEW x \in User
    PROVE  Chain(u, x) \in Seq(Scope)
<1>1. Above[u] \in Seq(Scope) /\ <<x>> \in Seq(Scope)
  BY QuotaConstants DEF Scope
<1>. QED
  BY <1>1 DEF Chain

LEMMA TypeInit == Init => TypeInv
<1> SUFFICES ASSUME Init PROVE TypeInv
  OBVIOUS
<1>1. cap \in [Scope -> Nat]
  BY QuotaConstants DEF Init
<1>. QED
  BY <1>1 DEF Init, TypeInv, TypeOK, SavesKnown

\* A row is neither of the markers, a request is not Idle.
LEMMA RowsAndMarkers ==
    /\ \A row \in FileRow : row # Unborn /\ row # Purged
    /\ Unborn # Purged
    /\ Unborn.life = "unborn" /\ Purged.life = "purged"
BY DEF FileRow, Unborn, Purged

LEMMA TypeStep == TypeInv /\ [Next]_vars => TypeInv'
<1> SUFFICES ASSUME TypeInv, [Next]_vars
             PROVE  TypeInv'
  OBVIOUS
<1> USE DEF TypeInv
<1>1. ASSUME NEW p \in Proc, NEW u \in Unit, NEW x \in User, NEW n \in Size,
             NEW op \in {"upload"} \cup File,
             op # "upload" => file[op] # Unborn,
             Begin(p, op, u, x, n)
      PROVE  TypeInv'
  <2> DEFINE r == [op |-> op, unit |-> u, user |-> x, size |-> n,
                   todo |-> Chain(u, x)]
  <2>1. r \in Request
    BY ChainType DEF Request
  <2>2. req' = [req EXCEPT ![p] = r] /\ file' = file /\ cap' = cap /\ watch' = watch
        /\ loosened' = loosened /\ overlapped' \in BOOLEAN
    BY <1>1 DEF Begin
  <2> HIDE DEF r
  <2>3. TypeOK'
    BY <2>1, <2>2 DEF TypeOK
  <2>4. ASSUME NEW q \in Proc, req'[q] # Idle, req'[q].op # "upload"
        PROVE  file'[req'[q].op] # Unborn
    <3>1. CASE q = p
      BY <1>1, <2>2, <2>4, <3>1 DEF r, TypeOK
    <3>2. CASE q # p
      BY <2>2, <2>4, <3>2 DEF TypeOK, SavesKnown
    <3>. QED
      BY <3>1, <3>2
  <2>. QED
    BY <2>3, <2>4 DEF SavesKnown
<1>2. ASSUME NEW p \in Proc, NEW u \in Unit, NEW x \in User, NEW n \in Size,
             UploadBegin(p, u, x, n)
      PROVE  TypeInv'
  BY <1>1, <1>2 DEF UploadBegin
<1>3. ASSUME NEW p \in Proc, NEW f \in File, NEW x \in User, NEW n \in Size,
             SaveBegin(p, f, x, n)
      PROVE  TypeInv'
  <2>1. file[f].life = "live" /\ Begin(p, f, file[f].unit, x, n)
    BY <1>3 DEF SaveBegin
  <2>2. file[f] \in FileRow
    BY <2>1, RowsAndMarkers DEF TypeOK
  <2>3. file[f] # Unborn /\ file[f].unit \in Unit
    BY <2>2, RowsAndMarkers DEF FileRow
  <2>. QED
    BY <1>1, <2>1, <2>3
<1>4. ASSUME NEW p \in Proc, Check(p)
      PROVE  TypeInv'
  <2>1. req[p] \in Request /\ req[p].todo # <<>>
    BY <1>4 DEF Check, Checking, TypeOK
  <2>2. Tail(req[p].todo) \in Seq(Scope)
    BY <2>1 DEF Request
  <2>3. [req[p] EXCEPT !.todo = Tail(@)] \in Request
    BY <2>1, <2>2 DEF Request
  <2>4. req' = [req EXCEPT ![p] = [req[p] EXCEPT !.todo = Tail(@)]]
        /\ file' = file /\ cap' = cap /\ watch' = watch
        /\ loosened' = loosened /\ overlapped' = overlapped
    BY <1>4 DEF Check, TypeOK
  <2>5. TypeOK'
    BY <2>3, <2>4 DEF TypeOK
  <2>6. \A q \in Proc : req'[q] # Idle /\ req'[q].op # "upload" =>
            req[q] # Idle /\ req'[q].op = req[q].op
    BY <1>4, <2>1, <2>4 DEF Check, Checking, TypeOK, Request
  <2>. QED
    BY <2>4, <2>5, <2>6 DEF SavesKnown
<1>5. ASSUME NEW p \in Proc, NEW f \in File, InsertFile(p, f)
      PROVE  TypeInv'
  <2> DEFINE row == [life |-> "live", size |-> req[p].size,
                     unit |-> req[p].unit, creator |-> req[p].user]
  <2>1. req[p] \in Request
    BY <1>5 DEF InsertFile, Admitted, TypeOK
  <2>2. row \in FileRow
    BY <2>1 DEF Request, FileRow
  <2>3. file' = [file EXCEPT ![f] = row] /\ req' = [req EXCEPT ![p] = Idle]
        /\ cap' = cap /\ watch' = watch
        /\ loosened' = loosened /\ overlapped' = overlapped
    BY <1>5 DEF InsertFile, Finish
  <2>4. TypeOK'
    BY <2>2, <2>3 DEF TypeOK
  <2>5. file'[f] # Unborn
    BY <2>2, <2>3, RowsAndMarkers DEF TypeOK
  <2>. QED
    BY <2>3, <2>4, <2>5 DEF SavesKnown, TypeOK
<1>6. ASSUME NEW p \in Proc, SaveFile(p)
      PROVE  TypeInv'
  <2> DEFINE f == req[p].op
  <2>1. req[p] \in Request /\ req[p] # Idle /\ f # "upload" /\ f \in File
    BY <1>6 DEF SaveFile, Admitted, TypeOK, Request
  <2>2. file[f] # Unborn
    BY <2>1 DEF SavesKnown
  <2>3. req' = [req EXCEPT ![p] = Idle] /\ cap' = cap /\ watch' = watch
        /\ overlapped' = overlapped
    BY <1>6 DEF SaveFile, Finish
  <2>4. CASE file[f] = Purged
    <3>1. file' = file /\ loosened' = loosened
      BY <1>6, <2>4 DEF SaveFile
    <3>. QED
      BY <2>3, <3>1 DEF TypeOK, SavesKnown
  <2>5. CASE file[f] # Purged
    <3>1. file' = [file EXCEPT ![f].size = req[p].size]
          /\ loosened' \in BOOLEAN
      BY <1>6, <2>5 DEF SaveFile, Loosen
    <3>2. file[f] \in FileRow
      BY <2>1, <2>2, <2>5 DEF TypeOK
    <3>3. [file[f] EXCEPT !.size = req[p].size] \in FileRow
      BY <2>1, <3>2 DEF FileRow, Request
    <3>4. file' = [file EXCEPT ![f] = [file[f] EXCEPT !.size = req[p].size]]
      BY <3>1 DEF TypeOK
    <3>5. TypeOK'
      BY <2>3, <3>1, <3>3, <3>4 DEF TypeOK
    <3>6. \A g \in File : file[g] # Unborn => file'[g] # Unborn
      BY <3>3, <3>4, RowsAndMarkers DEF TypeOK
    <3>7. \A q \in Proc : req[q] # Idle /\ req[q].op # "upload" => req[q].op \in File
      BY DEF TypeOK, Request
    <3>. QED
      BY <2>3, <3>5, <3>6, <3>7 DEF SavesKnown, TypeOK
  <2>. QED
    BY <2>4, <2>5
<1>7. ASSUME NEW p \in Proc, Fail(p)
      PROVE  TypeInv'
  BY <1>7 DEF Fail, Finish, TypeOK, SavesKnown
<1>8. ASSUME NEW f \in File, NEW row \in FileRow \cup {Purged},
             file' = [file EXCEPT ![f] = row],
             UNCHANGED <<cap, req, watch, overlapped>>, loosened' \in BOOLEAN
      PROVE  TypeInv'
  <2>1. row # Unborn
    BY RowsAndMarkers
  <2>. QED
    BY <1>8, <2>1 DEF TypeOK, SavesKnown
<1>9. ASSUME NEW f \in File, file[f].life \in {"live", "trash"}
      PROVE  file[f] \in FileRow /\ file[f] # Unborn
  BY <1>9, RowsAndMarkers DEF TypeOK
<1>10. ASSUME NEW f \in File, Trash(f) \/ Restore(f) \/ Purge(f)
       PROVE  TypeInv'
  <2>1. file[f] \in FileRow /\ file[f] # Unborn
    BY <1>9, <1>10 DEF Trash, Restore, Purge
  <2>2. /\ [file[f] EXCEPT !.life = "live"] \in FileRow
        /\ [file[f] EXCEPT !.life = "trash"] \in FileRow
    BY <2>1 DEF FileRow
  <2>3. CASE Trash(f)
    <3>1. file' = [file EXCEPT ![f] = [file[f] EXCEPT !.life = "trash"]]
      BY <2>3 DEF Trash, TypeOK
    <3>. QED
      BY <1>8, <2>1, <2>2, <2>3, <3>1 DEF Trash, TypeOK
  <2>4. CASE Restore(f)
    <3>1. file' = [file EXCEPT ![f] = [file[f] EXCEPT !.life = "live"]]
      BY <2>4 DEF Restore, TypeOK
    <3>. QED
      BY <1>8, <2>1, <2>2, <2>4, <3>1 DEF Restore, Loosen
  <2>5. CASE Purge(f)
    BY <1>8, <2>1, <2>5 DEF Purge, TypeOK
  <2>. QED
    BY <1>10, <2>3, <2>4, <2>5
<1>11. ASSUME NEW f \in File, NEW u \in Unit, Move(f, u)
       PROVE  TypeInv'
  <2>1. file[f] \in FileRow /\ file[f] # Unborn
    BY <1>9, <1>11 DEF Move
  <2>2. [file[f] EXCEPT !.unit = u] \in FileRow
    BY <2>1 DEF FileRow
  <2>3. file' = [file EXCEPT ![f] = [file[f] EXCEPT !.unit = u]]
    BY <1>11 DEF Move, TypeOK
  <2>. QED
    BY <1>8, <1>11, <2>1, <2>2, <2>3 DEF Move, Loosen
<1>14. ASSUME NEW f \in File, NEW u \in Orgless, NEW x \in User, NEW n \in Size,
              Import(f, u, x, n)
       PROVE  TypeInv'
  <2>1. [life |-> "live", size |-> n, unit |-> u, creator |-> x] \in FileRow
    BY QuotaConstants DEF FileRow
  <2>. QED
    BY <1>8, <1>14, <2>1 DEF Import, Loosen, TypeOK
<1>12. ASSUME NEW s \in Scope, NEW c \in Caps, SetCap(s, c)
       PROVE  TypeInv'
  BY <1>12, QuotaConstants DEF SetCap, Loosen, TypeOK, SavesKnown
<1>13. CASE UNCHANGED vars
  BY <1>13 DEF vars, TypeOK, SavesKnown
<1>. QED
  BY <1>2, <1>3, <1>4, <1>5, <1>6, <1>7, <1>10, <1>11, <1>12, <1>13, <1>14
     DEF Next, Admission

\* Every reachable state is well typed: rows keep their shape through saves,
\* moves and the trash, and a walk of the scopes never runs past its end.
THEOREM TypeCorrect == Spec => []TypeOK
<1>1. TypeInv => TypeOK
  BY DEF TypeInv
<1>. QED
  BY <1>1, TypeInit, TypeStep, PTL DEF Spec

-----------------------------------------------------------------------------
(* The two terms of the sum, when one file or one request changes. *)

Held == {f \in File : Counts(f, watch)}

LEMMA SizesType ==
    ASSUME TypeOK
    PROVE  Sizes(watch) \in [Held -> Nat] /\ IsFiniteSet(Held)
<1>1. \A f \in Held : file[f].size \in Nat
  BY RowsAndMarkers DEF Held, Counts, TypeOK, FileRow, Size
<1>2. IsFiniteSet(Held)
  BY QuotaConstants, FS_Subset DEF Held
<1>. QED
  BY <1>1, <1>2 DEF Sizes, Held

LEMMA UsedType == ASSUME TypeOK PROVE Used(watch) \in Nat
BY SizesType, SumSplits DEF Used

\* A file that is not counted after the step does not add to the sum, one that
\* is adds at most its size.
LEMMA UsedMoves ==
    ASSUME TypeOK, TypeOK', NEW f \in File, watch' = watch,
           \A g \in File \ {f} : file'[g] = file[g]
    PROVE  /\ Used(watch) \in Nat /\ Used(watch)' \in Nat
           /\ ~ Counts(f, watch)' => Used(watch)' <= Used(watch)
           /\ Counts(f, watch)' =>
                 Used(watch)' <= Used(watch) + file'[f].size
<1> DEFINE S == Held
<1> DEFINE T == Held'
<1> DEFINE before == Sizes(watch)
<1> DEFINE after == Sizes(watch)'
<1>1. before \in [S -> Nat] /\ IsFiniteSet(S)
  BY SizesType
<1>0. (Sizes(watch) \in [Held -> Nat] /\ IsFiniteSet(Held))'
  BY SizesType, PTL
<1>2. after \in [T -> Nat] /\ IsFiniteSet(T)
  BY <1>0
<1>3. S \ {f} = T \ {f}
  BY DEF Held, Counts, ScopesOf, Chain
<1>4. \A g \in S \ {f} : before[g] = after[g]
  BY <1>3 DEF Sizes, Held
<1>5. f \in T <=> Counts(f, watch)'
  BY DEF Held
<1>6. f \in T => after[f] = file'[f].size
  BY DEF Sizes, Held
<1>7. Used(watch) = SumFunction(before) /\ Used(watch)' = SumFunction(after)
  BY DEF Used
<1> HIDE DEF S, T, before, after
<1>8. SumBut(before, f) = SumBut(after, f)
  BY <1>1, <1>2, <1>3, <1>4, SumButAgrees
<1>9. /\ SumFunction(before) \in Nat /\ SumBut(before, f) \in Nat
      /\ f \in S => SumFunction(before) = SumBut(before, f) + before[f]
      /\ f \notin S => SumFunction(before) = SumBut(before, f)
  BY <1>1, SumSplits
<1>10. /\ SumFunction(after) \in Nat
       /\ f \in T => SumFunction(after) = SumBut(after, f) + after[f]
       /\ f \notin T => SumFunction(after) = SumBut(after, f)
  BY <1>2, SumSplits
<1>11. SumBut(before, f) <= SumFunction(before)
  <2>1. f \in S => before[f] \in Nat
    BY <1>1
  <2>. QED
    BY <1>9, <2>1
<1>12. f \in T => after[f] \in Nat
  BY <1>2
<1>. QED
  BY <1>5, <1>6, <1>7, <1>8, <1>9, <1>10, <1>11, <1>12

LEMMA UsedStays ==
    ASSUME TypeOK, watch' = watch, file' = file
    PROVE  Used(watch)' = Used(watch) /\ Used(watch) \in Nat
BY UsedType DEF Used, Sizes, Counts, ScopesOf, Chain

LEMMA CarriedType ==
    ASSUME TypeOK
    PROVE  Carried \in [Passed -> 0..MaxSize] /\ Carried \in [Passed -> Nat]
           /\ IsFiniteSet(Passed)
<1>1. \A p \in Passed : req[p].size \in 0..MaxSize
  BY QuotaConstants DEF Passed, Entered, TypeOK, Request, Size
<1>2. IsFiniteSet(Passed)
  BY QuotaConstants, FS_Subset DEF Passed
<1>. QED
  BY <1>1, <1>2, QuotaConstants DEF Carried

\* What the requests other than p carry.
Others(p) == SumBut(Carried, p)

LEMMA InFlightSplits ==
    ASSUME TypeOK, NEW p \in Proc
    PROVE  /\ InFlight \in Nat /\ Others(p) \in Nat
           /\ p \in Passed => InFlight = Others(p) + req[p].size
           /\ p \notin Passed => InFlight = Others(p)
<1>1. p \in Passed => Carried[p] = req[p].size
  BY DEF Carried
<1>. QED
  BY <1>1, CarriedType, SumSplits DEF InFlight, Others

LEMMA OthersStay ==
    ASSUME TypeOK, TypeOK', NEW p \in Proc, watch' = watch,
           \A q \in Proc \ {p} : req'[q] = req[q]
    PROVE  Others(p)' = Others(p)
<1>1. Carried \in [Passed -> Nat] /\ IsFiniteSet(Passed)
  BY CarriedType
<1>2. (Carried \in [Passed -> Nat] /\ IsFiniteSet(Passed))'
  BY CarriedType, PTL
<1>3. Passed \ {p} = Passed' \ {p}
  BY DEF Passed, Entered, Todo, ScopesOf, Chain
<1>4. \A q \in Passed \ {p} : Carried[q] = Carried'[q]
  BY <1>3 DEF Carried, Passed
<1>5. SumBut(Carried, p) = SumBut(Carried', p)
  BY <1>1, <1>2, <1>3, <1>4, SumButAgrees
<1>. QED
  BY <1>5 DEF Others, SumBut

LEMMA InFlightStays ==
    ASSUME TypeOK, watch' = watch, req' = req
    PROVE  InFlight' = InFlight /\ InFlight \in Nat
<1>1. Passed' = Passed /\ Carried' = Carried
  BY DEF Passed, Entered, Todo, ScopesOf, Chain, Carried
<1>. QED
  BY <1>1, CarriedType, SumSplits DEF InFlight

\* A request that ends or moves on without passing a check of watch carries
\* no more than before; whatever it does, it carries at most its size.
LEMMA InFlightMoves ==
    ASSUME TypeOK, TypeOK', NEW p \in Proc, watch' = watch,
           \A q \in Proc \ {p} : req'[q] = req[q]
    PROVE  /\ InFlight \in Nat /\ InFlight' \in Nat /\ Others(p) \in Nat
           /\ Others(p) <= InFlight
           /\ p \in Passed => InFlight = Others(p) + req[p].size
           /\ p \notin Passed' => InFlight' = Others(p)
           /\ p \in Passed' => InFlight' = Others(p) + req'[p].size
<1>1. /\ InFlight \in Nat /\ Others(p) \in Nat
      /\ p \in Passed => InFlight = Others(p) + req[p].size
      /\ p \notin Passed => InFlight = Others(p)
  BY InFlightSplits
<1>2. (TypeOK => /\ InFlight \in Nat
                 /\ p \in Passed => InFlight = Others(p) + req[p].size
                 /\ p \notin Passed => InFlight = Others(p))'
  BY InFlightSplits, PTL
<1>3. Others(p)' = Others(p)
  BY OthersStay
<1>4. p \in Passed => req[p].size \in Nat
  BY QuotaConstants DEF Passed, Entered, TypeOK, Request, Size
<1>. QED
  BY <1>1, <1>2, <1>3, <1>4

\* The other requests carry at most MaxSize each.
LEMMA OthersAtMost ==
    ASSUME TypeOK, NEW p \in Proc
    PROVE  Others(p) <= Slack /\ Slack \in Nat
<1> DEFINE S == Passed \ {p}
<1> DEFINE part == [q \in S |-> Carried[q]]
<1>1. Carried \in [Passed -> 0..MaxSize] /\ IsFiniteSet(S)
  BY CarriedType, FS_RemoveElement
<1>2. part \in [S -> 0..MaxSize] /\ DOMAIN part = S
  BY <1>1
<1>3. SumFunction(part) = Others(p)
  <2>1. SumFunctionOnSet(part, S) = SumFunctionOnSet(Carried, S)
    BY <1>1, SumsAgree
  <2>. QED
    BY <1>1, <1>2, <2>1 DEF SumFunction, Others, SumBut
<1>4. SumFunction(part) <= Cardinality(S) * MaxSize
  BY <1>1, <1>2, QuotaConstants, SumAtMost
<1>5. Cardinality(S) \in Nat /\ Cardinality(Proc) - 1 \in Nat
      /\ Cardinality(S) <= Cardinality(Proc) - 1
  <2>1. IsFiniteSet(Proc \ {p}) /\ Cardinality(Proc \ {p}) = Cardinality(Proc) - 1
    BY QuotaConstants, FS_RemoveElement
  <2>2. Cardinality(S) <= Cardinality(Proc \ {p})
    BY <2>1, FS_Subset DEF Passed
  <2>. QED
    BY <1>1, <2>1, <2>2, FS_CardinalityType
<1>6. \A k, n, m \in Nat : k <= n => k * m <= n * m /\ k * m \in Nat /\ n * m \in Nat
  <2> SUFFICES ASSUME NEW k \in Nat, NEW n \in Nat, NEW m \in Nat, k <= n
               PROVE  k * m <= n * m /\ k * m \in Nat /\ n * m \in Nat
    OBVIOUS
  <2>1. (n - k) \in Nat /\ n * m = k * m + (n - k) * m
    OBVIOUS
  <2>2. (n - k) * m \in Nat /\ k * m \in Nat /\ n * m \in Nat
    BY <2>1
  <2>. QED
    BY <2>1, <2>2
<1>7. Cardinality(S) * MaxSize <= Slack /\ Slack \in Nat
      /\ Cardinality(S) * MaxSize \in Nat
  BY <1>5, <1>6, QuotaConstants DEF Slack
<1>8. Others(p) \in Nat
  BY InFlightSplits
<1>. QED
  BY <1>3, <1>4, <1>7, <1>8

LEMMA TermTypes == TypeOK => Used(watch) \in Nat /\ InFlight \in Nat
BY UsedType, CarriedType, SumSplits DEF InFlight

-----------------------------------------------------------------------------
\* What a step that loosens nothing does to the sum: it does not grow, or the
\* step is a check of the watched scope that passes, and then what the other
\* requests carry is all that can take the scope past its cap.
LEMMA SumStep ==
    ASSUME TypeInv, TypeInv', [Next]_vars, ~loosened'
    PROVE  /\ ~loosened /\ watch' = watch /\ cap'[watch] = cap[watch]
           /\ cap[watch] \in Nat /\ Used(watch) \in Nat /\ InFlight \in Nat
           /\ Used(watch)' \in Nat /\ InFlight' \in Nat
           /\ \/ Used(watch)' + InFlight' <= Used(watch) + InFlight
              \/ cap[watch] = 0
              \/ \E p \in Proc :
                    /\ Entered(p) /\ overlapped' = overlapped
                    /\ Used(watch)' + InFlight' <= cap[watch] + Others(p)
<1> DEFINE Same == ~loosened /\ watch' = watch /\ cap'[watch] = cap[watch]
<1> DEFINE Shrinks == Used(watch)' + InFlight' <= Used(watch) + InFlight
<1> DEFINE Passes == \E p \in Proc :
              /\ Entered(p) /\ overlapped' = overlapped
              /\ Used(watch)' + InFlight' <= cap[watch] + Others(p)
<1>0. TypeOK /\ TypeOK'
  BY DEF TypeInv
<1>1. cap[watch] \in Nat /\ Used(watch) \in Nat /\ InFlight \in Nat
      /\ Used(watch)' \in Nat /\ InFlight' \in Nat
  <2>1. (TypeOK => Used(watch) \in Nat /\ InFlight \in Nat)'
    BY TermTypes, PTL
  <2>. QED
    BY <1>0, <2>1, TermTypes DEF TypeOK
<1>2. ASSUME NEW p \in Proc, NEW u, NEW x, NEW n, NEW op, Begin(p, op, u, x, n)
      PROVE  Same /\ Shrinks
  <2>1. Same /\ file' = file /\ \A q \in Proc \ {p} : req'[q] = req[q]
    BY <1>0, <1>2 DEF Begin, TypeOK
  <2>2. req'[p].todo = Chain(u, x) /\ req'[p].unit = u /\ req'[p].user = x
    BY <1>0, <1>2 DEF Begin, TypeOK
  <2>3. p \notin Passed'
    <3>1. Entered(p)' => watch \in ScopesOf(u, x)
      BY <2>1, <2>2 DEF Entered, ScopesOf, Chain
    <3>2. Todo(p)' = ScopesOf(u, x)
      BY <2>2 DEF Todo, ScopesOf
    <3>. QED
      BY <2>1, <3>1, <3>2 DEF Passed
  <2>4. InFlight' <= InFlight
    BY <1>0, <2>1, <2>3, InFlightMoves
  <2>5. Used(watch)' = Used(watch)
    BY <1>0, <2>1, UsedStays
  <2>. QED
    BY <1>1, <2>1, <2>4, <2>5
<1>3. ASSUME NEW p \in Proc, Fail(p)
      PROVE  Same /\ Shrinks
  <2>1. Same /\ file' = file /\ req'[p] = Idle
        /\ \A q \in Proc \ {p} : req'[q] = req[q]
    BY <1>0, <1>3 DEF Fail, Finish, TypeOK
  <2>2. p \notin Passed'
    BY <2>1 DEF Passed, Entered
  <2>3. InFlight' <= InFlight
    BY <1>0, <2>1, <2>2, InFlightMoves
  <2>4. Used(watch)' = Used(watch)
    BY <1>0, <2>1, UsedStays
  <2>. QED
    BY <1>1, <2>1, <2>3, <2>4
<1>4. ASSUME NEW p \in Proc, Check(p)
      PROVE  Same /\ (Shrinks \/ cap[watch] = 0 \/ Passes)
  <2> DEFINE s == Head(req[p].todo)
  <2>1. req[p] \in Request /\ req[p] # Idle /\ req[p].todo # <<>> /\ Fits(s, req[p].size)
    BY <1>0, <1>4 DEF Check, Checking, TypeOK
  <2>2. /\ Same /\ file' = file /\ overlapped' = overlapped
        /\ \A q \in Proc \ {p} : req'[q] = req[q]
        /\ req'[p] = [req[p] EXCEPT !.todo = Tail(@)]
    BY <1>0, <1>4 DEF Check, TypeOK
  <2>3. /\ req'[p].todo = Tail(req[p].todo) /\ req'[p].size = req[p].size
        /\ req'[p].unit = req[p].unit /\ req'[p].user = req[p].user
    BY <2>1, <2>2 DEF Request
  <2>4. Used(watch)' = Used(watch)
    BY <1>0, <2>2, UsedStays
  <2>5. Entered(p)' => Entered(p)
    BY <2>1, <2>2, <2>3 DEF Entered, ScopesOf, Chain
  <2>6. /\ Others(p) \in Nat /\ Others(p) <= InFlight
        /\ p \in Passed => InFlight = Others(p) + req[p].size
        /\ p \notin Passed' => InFlight' = Others(p)
        /\ p \in Passed' => InFlight' = Others(p) + req[p].size
    BY <1>0, <2>2, <2>3, InFlightMoves
  <2>7. CASE p \notin Passed'
    BY <1>1, <2>2, <2>4, <2>6, <2>7
  <2>8. CASE p \in Passed' /\ s # watch
    <3>1. \A i \in DOMAIN req[p].todo :
             req[p].todo[i] = s \/ \E j \in DOMAIN req'[p].todo :
                                      req'[p].todo[j] = req[p].todo[i]
      <4> DEFINE td == req[p].todo
      <4>1. td \in Seq(Scope) /\ td # <<>>
        BY <2>1 DEF Request
      <4> HIDE DEF td
      <4>2. \A i \in DOMAIN td : i = 1 \/ (i - 1 \in DOMAIN Tail(td) /\ Tail(td)[i - 1] = td[i])
        BY <4>1
      <4>3. Head(td) = td[1]
        BY <4>1
      <4>. QED
        BY <2>3, <4>2, <4>3 DEF td
    <3>4. \A j \in DOMAIN req'[p].todo : req'[p].todo[j] # watch
      BY <2>2, <2>8 DEF Passed, Todo
    <3>2. watch \notin Todo(p)
      BY <2>8, <3>1, <3>4 DEF Todo
    <3>3. p \in Passed
      BY <2>5, <2>8, <3>2 DEF Passed
    <3>. QED
      BY <1>1, <2>2, <2>4, <2>6, <2>8, <3>3
  <2>9. CASE p \in Passed' /\ s = watch
    <3>1. Entered(p)
      BY <2>5, <2>9 DEF Passed
    <3>2. cap[watch] = 0 \/ Used(watch) + req[p].size <= cap[watch]
      BY <2>1, <2>9 DEF Fits
    <3>3. req[p].size \in Nat
      BY <2>1, QuotaConstants DEF Request, Size
    <3>4. cap[watch] = 0 \/ Used(watch)' + InFlight' <= cap[watch] + Others(p)
      BY <1>1, <2>4, <2>6, <2>9, <3>2, <3>3
    <3>. QED
      BY <2>2, <3>1, <3>4
  <2>. QED
    BY <2>7, <2>8, <2>9
<1>5. ASSUME NEW p \in Proc, NEW f \in File, watch' = watch, Admitted(p), req'[p] = Idle,
             \A q \in Proc \ {p} : req'[q] = req[q],
             \A g \in File \ {f} : file'[g] = file[g],
             Counts(f, watch)' =>
                /\ file'[f].size = req[p].size
                /\ watch \in ScopesOf(req[p].unit, req[p].user)
      PROVE  Shrinks
  <2>1. req[p] \in Request /\ req[p] # Idle /\ req[p].todo = <<>>
    BY <1>0, <1>5 DEF Admitted, TypeOK
  <2>2. req[p].size \in Nat
    BY <2>1, QuotaConstants DEF Request, Size
  <2>3. p \notin Passed'
    BY <1>5 DEF Passed, Entered
  <2>4. /\ Others(p) \in Nat /\ Others(p) <= InFlight /\ InFlight' = Others(p)
        /\ p \in Passed => InFlight = Others(p) + req[p].size
    BY <1>0, <1>5, <2>3, InFlightMoves
  <2>5. CASE Counts(f, watch)'
    <3>1. p \in Passed
      <4>1. Todo(p) = {}
        BY <2>1 DEF Todo
      <4>. QED
        BY <1>5, <2>1, <2>5, <4>1 DEF Passed, Entered
    <3>2. Used(watch)' <= Used(watch) + req[p].size
      BY <1>0, <1>5, <2>5, UsedMoves
    <3>. QED
      BY <1>1, <2>2, <2>4, <3>1, <3>2
  <2>6. CASE ~ Counts(f, watch)'
    <3>1. Used(watch)' <= Used(watch)
      BY <1>0, <1>5, <2>6, UsedMoves
    <3>. QED
      BY <1>1, <2>4, <3>1
  <2>. QED
    BY <2>5, <2>6
<1>6. ASSUME NEW p \in Proc, NEW f \in File, InsertFile(p, f)
      PROVE  Same /\ Shrinks
  <2>1. /\ Same /\ Admitted(p) /\ req'[p] = Idle
        /\ \A q \in Proc \ {p} : req'[q] = req[q]
        /\ \A g \in File \ {f} : file'[g] = file[g]
        /\ file'[f] = [life |-> "live", size |-> req[p].size,
                       unit |-> req[p].unit, creator |-> req[p].user]
    BY <1>0, <1>6 DEF InsertFile, Finish, TypeOK
  <2>2. Counts(f, watch)' =>
            /\ file'[f].size = req[p].size
            /\ watch \in ScopesOf(req[p].unit, req[p].user)
    BY <2>1 DEF Counts, ScopesOf, Chain
  <2>. QED
    BY <1>5, <2>1, <2>2
<1>7. ASSUME NEW p \in Proc, SaveFile(p)
      PROVE  Same /\ Shrinks
  <2>0. PICK f : f = req[p].op
    OBVIOUS
  <2>1. /\ Admitted(p) /\ f # "upload" /\ watch' = watch /\ cap' = cap
        /\ req'[p] = Idle /\ \A q \in Proc \ {p} : req'[q] = req[q]
    BY <1>0, <1>7, <2>0 DEF SaveFile, Finish, TypeOK
  <2>2. f \in File /\ file[f] # Unborn
    BY <1>0, <2>0, <2>1 DEF Admitted, TypeInv, TypeOK, SavesKnown, Request
  <2>3. CASE file[f] = Purged
    <3>1. Same /\ file' = file
      BY <1>7, <2>0, <2>1, <2>3 DEF SaveFile
    <3>2. ~ Counts(f, watch)'
      BY <2>3, <3>1, RowsAndMarkers DEF Counts
    <3>3. Shrinks
      BY <1>5, <2>1, <2>2, <3>1, <3>2
    <3>. QED
      BY <3>1, <3>3
  <2>4. CASE file[f] # Purged
    <3>1. file' = [file EXCEPT ![f] = [file[f] EXCEPT !.size = req[p].size]]
      BY <1>0, <1>7, <2>0, <2>2, <2>4 DEF SaveFile, TypeOK
    <3>2. file[f] \in FileRow
      BY <1>0, <2>2, <2>4 DEF TypeOK
    <3>3. /\ file'[f].size = req[p].size /\ file'[f].unit = file[f].unit
          /\ file'[f].creator = file[f].creator
          /\ \A g \in File \ {f} : file'[g] = file[g]
      BY <1>0, <2>2, <3>1, <3>2 DEF TypeOK, FileRow
    <3>4. ~loosened /\ ~(watch \in ScopesOf(file[f].unit, file[f].creator)
                                     \ ScopesOf(req[p].unit, req[p].user))
      BY <1>7, <2>0, <2>4 DEF SaveFile, Loosen
    <3>5. Counts(f, watch)' => watch \in ScopesOf(req[p].unit, req[p].user)
      <4>1. Counts(f, watch)' => watch \in ScopesOf(file[f].unit, file[f].creator)
        BY <2>1, <3>3 DEF Counts, ScopesOf
      <4>. QED
        BY <3>4, <4>1
    <3>6. Shrinks
      BY <1>5, <2>1, <2>2, <3>3, <3>5
    <3>. QED
      BY <2>1, <3>4, <3>6
  <2>. QED
    BY <2>3, <2>4
<1>8. ASSUME NEW f \in File, watch' = watch, req' = req,
             \A g \in File \ {f} : file'[g] = file[g], ~ Counts(f, watch)'
      PROVE  Shrinks
  <2>1. Used(watch)' <= Used(watch)
    BY <1>0, <1>8, UsedMoves
  <2>2. InFlight' = InFlight
    BY <1>0, <1>8, InFlightStays
  <2>. QED
    BY <1>1, <2>1, <2>2
<1>9. ASSUME NEW f \in File, Trash(f)
      PROVE  Same /\ Shrinks
  <2>1. file'[f].life = "trash" /\ Same /\ req' = req
        /\ \A g \in File \ {f} : file'[g] = file[g]
    <3>1. file[f] \in FileRow
      BY <1>0, <1>9, RowsAndMarkers DEF Trash, TypeOK
    <3>. QED
      BY <1>0, <1>9, <3>1 DEF Trash, TypeOK, FileRow
  <2>. QED
    BY <1>8, <2>1 DEF Counts
<1>10. ASSUME NEW f \in File, Purge(f)
       PROVE  Same /\ Shrinks
  <2>1. file'[f] = Purged /\ Same /\ req' = req
        /\ \A g \in File \ {f} : file'[g] = file[g]
    BY <1>0, <1>10 DEF Purge, TypeOK
  <2>. QED
    BY <1>8, <2>1, RowsAndMarkers DEF Counts
<1>11. ASSUME NEW f \in File, Restore(f)
       PROVE  Same /\ Shrinks
  <2>1. file[f] \in FileRow
    BY <1>0, <1>11, RowsAndMarkers DEF Restore, TypeOK
  <2>2. file'[f].unit = file[f].unit /\ file'[f].creator = file[f].creator
        /\ Same /\ req' = req /\ \A g \in File \ {f} : file'[g] = file[g]
    BY <1>0, <1>11, <2>1 DEF Restore, Loosen, TypeOK, FileRow
  <2>3. watch \notin ScopesOf(file[f].unit, file[f].creator)
    BY <1>11 DEF Restore, Loosen
  <2>4. ~ Counts(f, watch)'
    BY <2>2, <2>3 DEF Counts, ScopesOf, Chain
  <2>. QED
    BY <1>8, <2>2, <2>4
<1>12. ASSUME NEW f \in File, NEW u \in Unit, Move(f, u)
       PROVE  Same /\ Shrinks
  <2>1. file[f] \in FileRow
    BY <1>0, <1>12, RowsAndMarkers DEF Move, TypeOK
  <2>2. file'[f].unit = u /\ file'[f].creator = file[f].creator
        /\ Same /\ req' = req /\ \A g \in File \ {f} : file'[g] = file[g]
    BY <1>0, <1>12, <2>1 DEF Move, Loosen, TypeOK, FileRow
  <2>3. watch \notin ScopesOf(u, file[f].creator)
    BY <1>12 DEF Move, Loosen
  <2>4. ~ Counts(f, watch)'
    BY <2>2, <2>3 DEF Counts, ScopesOf, Chain
  <2>. QED
    BY <1>8, <2>2, <2>4
<1>13. ASSUME watch' = watch, file' = file, req' = req
       PROVE  Shrinks
  BY <1>0, <1>1, <1>13, UsedStays, InFlightStays
<1>14. ASSUME NEW s \in Scope, NEW c \in Caps, SetCap(s, c)
       PROVE  Same /\ Shrinks
  <2>1. s # watch /\ ~loosened
    BY <1>14 DEF SetCap, Loosen
  <2>2. watch' = watch /\ file' = file /\ req' = req /\ cap'[watch] = cap[watch]
    BY <1>0, <1>14, <2>1 DEF SetCap, TypeOK
  <2>. QED
    BY <1>13, <2>1, <2>2
<1>15. ASSUME UNCHANGED vars
       PROVE  Same /\ Shrinks
  <2>1. Same /\ watch' = watch /\ file' = file /\ req' = req
    BY <1>15 DEF vars
  <2>. QED
    BY <1>13, <2>1
<1>17. ASSUME NEW f \in File, NEW u \in Orgless, NEW x \in User, NEW n \in Size,
              Import(f, u, x, n)
       PROVE  Same /\ Shrinks
  <2>1. file'[f].unit = u /\ file'[f].creator = x
        /\ Same /\ req' = req /\ \A g \in File \ {f} : file'[g] = file[g]
    BY <1>0, <1>17 DEF Import, Loosen, TypeOK
  <2>2. watch \notin ScopesOf(u, x)
    BY <1>17 DEF Import, Loosen
  <2>3. ~ Counts(f, watch)'
    BY <2>1, <2>2 DEF Counts, ScopesOf, Chain
  <2>. QED
    BY <1>8, <2>1, <2>3
<1>16. Same /\ (Shrinks \/ cap[watch] = 0 \/ Passes)
  <2>1. ASSUME NEW p \in Proc, Admission(p)
        PROVE  Same /\ (Shrinks \/ cap[watch] = 0 \/ Passes)
    BY <1>2, <1>3, <1>4, <1>6, <1>7, <2>1 DEF Admission, UploadBegin, SaveBegin
  <2>. QED
    BY <1>9, <1>10, <1>11, <1>12, <1>14, <1>15, <1>17, <2>1 DEF Next
<1>. QED
  BY <1>1, <1>16

-----------------------------------------------------------------------------
LEMMA InitialSum == Init => Used(watch) + InFlight = 0
<1> SUFFICES ASSUME Init PROVE Used(watch) + InFlight = 0
  OBVIOUS
<1>1. DOMAIN Sizes(watch) = {}
  BY DEF Init, Sizes, Counts, Unborn
<1>2. DOMAIN Carried = {}
  BY DEF Init, Carried, Passed, Entered
<1>3. Used(watch) = 0 /\ InFlight = 0
  BY <1>1, <1>2, SumEmpty DEF Used, InFlight, SumFunction
<1>. QED
  BY <1>3

LEMMA OvershootInit == Init => OvershootInv
<1> SUFFICES ASSUME Init PROVE OvershootInv
  OBVIOUS
<1>1. PICK p \in Proc : TRUE
  BY QuotaConstants
<1>2. TypeOK
  BY TypeInit DEF TypeInv
<1>3. Slack \in Nat
  BY <1>1, <1>2, OthersAtMost
<1>4. cap[watch] \in Nat
  BY <1>2 DEF TypeOK
<1>. QED
  BY <1>3, <1>4, InitialSum DEF OvershootInv

LEMMA OvershootStep ==
    TypeInv /\ TypeInv' /\ OvershootInv /\ [Next]_vars => OvershootInv'
<1> SUFFICES ASSUME TypeInv, TypeInv', OvershootInv, [Next]_vars, ~loosened'
             PROVE  cap'[watch'] = 0 \/ Used(watch)' + InFlight'
                                            <= cap'[watch'] + Slack
  BY DEF OvershootInv, Slack
<1>1. /\ ~loosened /\ watch' = watch /\ cap'[watch] = cap[watch]
      /\ cap[watch] \in Nat /\ Used(watch) \in Nat /\ InFlight \in Nat
      /\ Used(watch)' \in Nat /\ InFlight' \in Nat
  BY SumStep
<1>2. cap[watch] = 0 \/ Used(watch) + InFlight <= cap[watch] + Slack
  BY <1>1 DEF OvershootInv
<1>3. TypeOK
  BY DEF TypeInv
<1>4. PICK o \in Proc : TRUE
  BY QuotaConstants
<1>5. Slack \in Nat
  BY <1>3, <1>4, OthersAtMost
<1>6. CASE Used(watch)' + InFlight' <= Used(watch) + InFlight
  BY <1>1, <1>2, <1>5, <1>6
<1>7. CASE cap[watch] = 0
  BY <1>1, <1>7
<1>8. ASSUME NEW p \in Proc,
             Used(watch)' + InFlight' <= cap[watch] + Others(p)
      PROVE  Used(watch)' + InFlight' <= cap[watch] + Slack
  <2>1. Others(p) \in Nat /\ Others(p) <= Slack
    BY <1>3, OthersAtMost, InFlightSplits
  <2>. QED
    BY <1>1, <1>5, <1>8, <2>1
<1>. QED
  BY <1>1, <1>6, <1>7, <1>8, SumStep

\* Where admissions did not overlap, at most one request is charged to watch.
OneEntered ==
    ~overlapped => \A p, q \in Proc : Entered(p) /\ Entered(q) => p = q

LEMMA OneEnteredStep ==
    TypeInv /\ OneEntered /\ [Next]_vars => OneEntered'
<1> SUFFICES ASSUME TypeInv, OneEntered, [Next]_vars, ~overlapped'
             PROVE  \A p, q \in Proc : Entered(p)' /\ Entered(q)' => p = q
  BY DEF OneEntered
<1>0. TypeOK
  BY DEF TypeInv
<1>1. ASSUME ~overlapped, \A q \in Proc : Entered(q)' => Entered(q)
      PROVE  \A p, q \in Proc : Entered(p)' /\ Entered(q)' => p = q
  BY <1>1 DEF OneEntered
<1>2. ASSUME watch' = watch, req' = req, NEW q \in Proc, Entered(q)'
      PROVE  Entered(q)
  BY <1>2 DEF Entered, ScopesOf, Chain
<1>3. ASSUME NEW p \in Proc, NEW u, NEW x, NEW n, NEW op, Begin(p, op, u, x, n)
      PROVE  \A q1, q2 \in Proc : Entered(q1)' /\ Entered(q2)' => q1 = q2
  <2>1. /\ ~overlapped /\ watch' = watch
        /\ watch \in ScopesOf(u, x) => ~ Contended(p)
        /\ req'[p].unit = u /\ req'[p].user = x
        /\ \A q \in Proc \ {p} : req'[q] = req[q]
    BY <1>0, <1>3 DEF Begin, TypeOK
  <2>2. Entered(p)' => watch \in ScopesOf(u, x)
    BY <2>1 DEF Entered, ScopesOf, Chain
  <2>3. \A q \in Proc \ {p} : Entered(q)' => Entered(q)
    BY <2>1 DEF Entered, ScopesOf, Chain
  <2>4. Entered(p)' => \A q \in Proc \ {p} : ~ Entered(q)
    BY <2>1, <2>2 DEF Contended, Entered
  <2>5. \A q1, q2 \in Proc : Entered(q1) /\ Entered(q2) => q1 = q2
    BY <2>1 DEF OneEntered
  <2>. QED
    BY <2>3, <2>4, <2>5
<1>4. ASSUME NEW p \in Proc, watch' = watch, overlapped' = overlapped,
             \A q \in Proc \ {p} : req'[q] = req[q], Entered(p)' => Entered(p)
      PROVE  \A q1, q2 \in Proc : Entered(q1)' /\ Entered(q2)' => q1 = q2
  <2>1. \A q \in Proc : Entered(q)' => Entered(q)
    BY <1>4 DEF Entered, ScopesOf, Chain
  <2>. QED
    BY <1>1, <1>4, <2>1
<1>5. ASSUME NEW p \in Proc, Check(p)
      PROVE  \A q1, q2 \in Proc : Entered(q1)' /\ Entered(q2)' => q1 = q2
  <2>1. req[p] \in Request /\ req[p] # Idle
    BY <1>0, <1>5 DEF Check, Checking, TypeOK
  <2>2. /\ watch' = watch /\ overlapped' = overlapped
        /\ \A q \in Proc \ {p} : req'[q] = req[q]
        /\ req'[p].unit = req[p].unit /\ req'[p].user = req[p].user
    BY <1>0, <1>5, <2>1 DEF Check, TypeOK, Request
  <2>3. Entered(p)' => Entered(p)
    BY <2>1, <2>2 DEF Entered, ScopesOf, Chain
  <2>. QED
    BY <1>4, <2>2, <2>3
<1>6. ASSUME NEW p \in Proc,
             Fail(p) \/ SaveFile(p) \/ \E f \in File : InsertFile(p, f)
      PROVE  \A q1, q2 \in Proc : Entered(q1)' /\ Entered(q2)' => q1 = q2
  <2>1. /\ watch' = watch /\ overlapped' = overlapped /\ req'[p] = Idle
        /\ \A q \in Proc \ {p} : req'[q] = req[q]
    BY <1>0, <1>6 DEF Fail, SaveFile, InsertFile, Finish, TypeOK
  <2>2. ~ Entered(p)'
    BY <2>1 DEF Entered
  <2>. QED
    BY <1>4, <2>1, <2>2
<1>7. ASSUME watch' = watch, req' = req, overlapped' = overlapped
      PROVE  \A q1, q2 \in Proc : Entered(q1)' /\ Entered(q2)' => q1 = q2
  BY <1>1, <1>2, <1>7
<1>8. ASSUME NEW p \in Proc, Admission(p)
      PROVE  \A q1, q2 \in Proc : Entered(q1)' /\ Entered(q2)' => q1 = q2
  BY <1>3, <1>5, <1>6, <1>8 DEF Admission, UploadBegin, SaveBegin
<1>9. ASSUME NEW f \in File, Trash(f) \/ Restore(f) \/ Purge(f)
      PROVE  \A q1, q2 \in Proc : Entered(q1)' /\ Entered(q2)' => q1 = q2
  BY <1>7, <1>9 DEF Trash, Restore, Purge
<1>10. ASSUME NEW f \in File, NEW u \in Unit, Move(f, u)
       PROVE  \A q1, q2 \in Proc : Entered(q1)' /\ Entered(q2)' => q1 = q2
  BY <1>7, <1>10 DEF Move
<1>11. ASSUME NEW s \in Scope, NEW c \in Caps, SetCap(s, c)
       PROVE  \A q1, q2 \in Proc : Entered(q1)' /\ Entered(q2)' => q1 = q2
  BY <1>7, <1>11 DEF SetCap
<1>13. ASSUME NEW f \in File, NEW u \in Orgless, NEW x \in User, NEW n \in Size,
              Import(f, u, x, n)
       PROVE  \A q1, q2 \in Proc : Entered(q1)' /\ Entered(q2)' => q1 = q2
  BY <1>7, <1>13 DEF Import
<1>12. ASSUME UNCHANGED vars
       PROVE  \A q1, q2 \in Proc : Entered(q1)' /\ Entered(q2)' => q1 = q2
  BY <1>7, <1>12 DEF vars
<1>. QED
  BY <1>8, <1>9, <1>10, <1>11, <1>12, <1>13 DEF Next

\* The request that enters alone finds nobody else's bytes in flight.
LEMMA AloneCarriesAll ==
    ASSUME TypeOK, OneEntered, ~overlapped, NEW p \in Proc, Entered(p)
    PROVE  Others(p) = 0
<1>1. DOMAIN Carried = Passed
  BY DEF Carried
<1>2. Passed \ {p} = {}
  BY DEF Passed, OneEntered
<1>. QED
  BY <1>1, <1>2, SumEmpty DEF Others, SumBut

FitInv ==
    ~loosened /\ ~overlapped =>
        cap[watch] = 0 \/ Used(watch) + InFlight <= cap[watch]

SoloInv == OneEntered /\ FitInv

LEMMA SoloInit == Init => SoloInv
<1> SUFFICES ASSUME Init PROVE SoloInv
  OBVIOUS
<1>1. OneEntered
  BY DEF Init, OneEntered, Entered
<1>2. cap[watch] \in Nat
  BY TypeInit DEF TypeInv, TypeOK
<1>. QED
  BY <1>1, <1>2, InitialSum DEF SoloInv, FitInv

LEMMA SoloStep ==
    TypeInv /\ TypeInv' /\ SoloInv /\ [Next]_vars => SoloInv'
<1> SUFFICES ASSUME TypeInv, TypeInv', SoloInv, [Next]_vars
             PROVE  SoloInv'
  OBVIOUS
<1>1. OneEntered /\ FitInv /\ OneEntered'
  BY OneEnteredStep DEF SoloInv
<1>2. ASSUME ~loosened', ~overlapped'
      PROVE  cap'[watch'] = 0 \/ Used(watch)' + InFlight' <= cap'[watch']
  <2>1. /\ ~loosened /\ watch' = watch /\ cap'[watch] = cap[watch]
        /\ cap[watch] \in Nat /\ Used(watch) \in Nat /\ InFlight \in Nat
        /\ Used(watch)' \in Nat /\ InFlight' \in Nat
        /\ \/ Used(watch)' + InFlight' <= Used(watch) + InFlight
           \/ cap[watch] = 0
           \/ \E p \in Proc :
                 /\ Entered(p) /\ overlapped' = overlapped
                 /\ Used(watch)' + InFlight' <= cap[watch] + Others(p)
    BY <1>2, SumStep
  <2>2. ~overlapped
    BY <1>2 DEF Next, Admission, UploadBegin, SaveBegin, Begin, Check,
      InsertFile, SaveFile, Fail, Trash, Restore, Purge, Move, Import, SetCap, vars,
      TypeInv, TypeOK
  <2>3. cap[watch] = 0 \/ Used(watch) + InFlight <= cap[watch]
    BY <1>1, <2>1, <2>2 DEF FitInv
  <2>4. ASSUME NEW p \in Proc, Entered(p),
               Used(watch)' + InFlight' <= cap[watch] + Others(p)
        PROVE  Used(watch)' + InFlight' <= cap[watch]
    <3>1. Others(p) = 0
      BY <1>1, <2>2, <2>4, AloneCarriesAll DEF TypeInv
    <3>. QED
      BY <2>1, <2>4, <3>1
  <2>. QED
    BY <2>1, <2>3, <2>4
<1>. QED
  BY <1>1, <1>2 DEF SoloInv, FitInv

-----------------------------------------------------------------------------
\* However many requests overlap in a scope, and wherever else their walks
\* pass, they take it past its cap by at most what the others carry, as long
\* as nothing that asks no quota (restore, move, import, a save by somebody else,
\* a change of the cap) touched it.
THEOREM OvershootIsBounded == Spec => []OvershootIsInFlight
<1>1. TypeInv /\ OvershootInv => OvershootIsInFlight
  <2> SUFFICES ASSUME TypeInv, OvershootInv, ~loosened, cap[watch] # 0
               PROVE  Used(watch) <= cap[watch] + Slack
    BY DEF OvershootIsInFlight, Slack
  <2>1. Used(watch) \in Nat /\ InFlight \in Nat
    BY TermTypes DEF TypeInv
  <2>2. Used(watch) + InFlight <= cap[watch] + Slack
    BY DEF OvershootInv
  <2>3. cap[watch] \in Nat
    BY DEF TypeInv, TypeOK
  <2>4. PICK p \in Proc : TRUE
    BY QuotaConstants
  <2>5. Slack \in Nat
    BY <2>4, OthersAtMost DEF TypeInv
  <2>. QED
    BY <2>1, <2>2, <2>3, <2>5
<1>. QED
  BY <1>1, TypeInit, TypeStep, OvershootInit, OvershootStep, PTL DEF Spec

\* A scope whose admissions never overlap stays within its cap, whatever
\* happens above and below it and however many handlers stop between the check
\* and the write.
THEOREM SoloAdmissionsFit == Spec => []SoloFits
<1>1. TypeInv /\ SoloInv => SoloFits
  <2> SUFFICES ASSUME TypeInv, SoloInv, ~loosened, ~overlapped, cap[watch] # 0
               PROVE  Used(watch) <= cap[watch]
    BY DEF SoloFits
  <2>1. Used(watch) \in Nat /\ InFlight \in Nat
    BY TermTypes DEF TypeInv
  <2>2. Used(watch) + InFlight <= cap[watch]
    BY DEF SoloInv, FitInv
  <2>3. cap[watch] \in Nat
    BY DEF TypeInv, TypeOK
  <2>. QED
    BY <2>1, <2>2, <2>3
<1>. QED
  BY <1>1, TypeInit, TypeStep, SoloInit, SoloStep, PTL DEF Spec
=============================================================================
