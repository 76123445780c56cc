---------------------------- MODULE FoldTheorems ----------------------------
(***************************************************************************)
(* Folds over finite sets, the recursion of the community modules' folds,  *)
(* and sums of integers, SumFunctionOnSet: what the balance sheets of the  *)
(* token and of the router add up to.  Each induction is on a smallest     *)
(* counterexample.                                                         *)
(***************************************************************************)
EXTENDS FiniteSetTheorems, TLAPS

-----------------------------------------------------------------------------
(* Smallest elements.                                                      *)

\* A set of natural numbers that is not empty has a smallest one.
LEMMA SmallestNumber ==
  ASSUME NEW T \in SUBSET Nat, T # {}
  PROVE  \E m \in T : \A n \in T : m <= n
<1> DEFINE R == OpToRel(<, Nat)
<1>1. \E m \in T : \A n \in T : <<n, m>> \notin R
  BY NatLessThanWellFounded, WFMin
<1>2. \A n, m \in Nat : <<n, m>> \in R <=> n < m
  BY DEF OpToRel
<1> HIDE DEF R
<1>3. PICK m \in T : \A n \in T : <<n, m>> \notin R
  BY <1>1
<1>4. ASSUME NEW n \in T PROVE m <= n
  <2>1. m \in Nat /\ n \in Nat /\ ~ (n < m)
    BY <1>2, <1>3
  <2>2. QED
    BY <2>1
<1>5. QED
  BY <1>4

\* A set of subsets of a finite set that is not empty has a minimal one.
LEMMA MinimalSubset ==
  ASSUME NEW S, IsFiniteSet(S), NEW T \in SUBSET (SUBSET S), T # {}
  PROVE  \E U \in T : \A V \in T : V \subseteq U => V = U
<1>1. IsWellFoundedOn(StrictSubsetOrdering(S), SUBSET S)
  BY FS_StrictSubsetOrderingWellFounded, FS_FiniteSubsetsOfFinite
<1>2. \E U \in T : \A V \in T : <<V, U>> \notin StrictSubsetOrdering(S)
  BY <1>1, WFMin
<1>3. \A U, V \in SUBSET S :
        (V \subseteq U /\ V # U) => <<V, U>> \in StrictSubsetOrdering(S)
  BY DEF StrictSubsetOrdering
<1>4. QED
  BY <1>2, <1>3

-----------------------------------------------------------------------------
(* The recursion behind a fold.                                            *)

\* pick names an element of each set.
Picks(pick, S) == \A s \in SUBSET S : s # {} => pick[s] \in s

\* On the sets of D, `it' applies F to the element that pick names and to its
\* own result for the others.
FoldsOn(it, pick, F, base, D) ==
  \A s \in D : it[s] = IF s = {} THEN base ELSE F[pick[s]][it[s \ {pick[s]}]]

\* The subsets of S of at most n elements have a fold, for every n.
Small(S, n) == {s \in SUBSET S : Cardinality(s) <= n}

LEMMA SmallWithout ==
  ASSUME NEW S, IsFiniteSet(S), NEW n \in Nat, NEW s \in Small(S, n + 1), NEW x \in s
  PROVE  x \in S /\ s \ {x} \in Small(S, n)
<1>1. IsFiniteSet(s) /\ s \subseteq S /\ Cardinality(s) <= n + 1 /\ Cardinality(s) \in Nat
  BY FS_Subset, FS_CardinalityType DEF Small
<1>2. Cardinality(s \ {x}) = Cardinality(s) - 1
  BY <1>1, FS_RemoveElement
<1>3. QED
  BY <1>1, <1>2 DEF Small

LEMMA FoldStep ==
  ASSUME NEW S, IsFiniteSet(S), NEW R, NEW base \in R, NEW F \in [S -> [R -> R]],
         NEW pick, Picks(pick, S),
         NEW n \in Nat, NEW h \in [Small(S, n) -> R], FoldsOn(h, pick, F, base, Small(S, n))
  PROVE  \E it \in [Small(S, n + 1) -> R] : FoldsOn(it, pick, F, base, Small(S, n + 1))
<1> DEFINE v(s) == IF s = {} THEN base ELSE F[pick[s]][h[s \ {pick[s]}]]
           it == [s \in Small(S, n + 1) |-> v(s)]
<1>0. \A s \in Small(S, n + 1) : s # {} => pick[s] \in s
  BY DEF Small, Picks
<1>1. ASSUME NEW s \in Small(S, n + 1) PROVE v(s) \in R
  <2>1. CASE s = {}
    BY <2>1
  <2>2. CASE s # {}
    <3>1. pick[s] \in S /\ s \ {pick[s]} \in Small(S, n)
      BY <1>0, <2>2, SmallWithout
    <3>2. QED
      BY <3>1, <2>2
  <2>3. QED
    BY <2>1, <2>2
<1>2. \A s \in Small(S, n) : s \in Small(S, n + 1)
  <2>1. \A s \in SUBSET S : Cardinality(s) \in Nat
    BY FS_Subset, FS_CardinalityType
  <2>2. QED
    BY <2>1 DEF Small
<1>3. \A s \in Small(S, n) : it[s] = h[s]
  BY <1>2 DEF FoldsOn
<1>4. it \in [Small(S, n + 1) -> R]
  BY <1>1
<1>5. ASSUME NEW s \in Small(S, n + 1)
      PROVE  it[s] = IF s = {} THEN base ELSE F[pick[s]][it[s \ {pick[s]}]]
  <2>1. CASE s = {}
    BY <2>1
  <2>2. CASE s # {}
    <3>1. it[s \ {pick[s]}] = h[s \ {pick[s]}]
      BY <1>0, <2>2, SmallWithout, <1>3
    <3>2. it[s] = F[pick[s]][h[s \ {pick[s]}]]
      BY <2>2
    <3>3. QED
      BY <3>1, <3>2, <2>2
  <2>3. QED
    BY <2>1, <2>2
<1> HIDE DEF it
<1>6. QED
  BY <1>4, <1>5 DEF FoldsOn

LEMMA FoldSmall ==
  ASSUME NEW S, IsFiniteSet(S), NEW R, NEW base \in R, NEW F \in [S -> [R -> R]],
         NEW pick, Picks(pick, S), NEW n \in Nat
  PROVE  \E it \in [Small(S, n) -> R] : FoldsOn(it, pick, F, base, Small(S, n))
<1> DEFINE Bad == {k \in Nat :
              ~ \E it \in [Small(S, k) -> R] : FoldsOn(it, pick, F, base, Small(S, k))}
<1>1. 0 \notin Bad
  <2> DEFINE z == [s \in Small(S, 0) |-> base]
  <2>1. \A s \in Small(S, 0) : s = {}
    BY FS_Subset, FS_CardinalityType, FS_EmptySet DEF Small
  <2>2. z \in [Small(S, 0) -> R] /\ FoldsOn(z, pick, F, base, Small(S, 0))
    BY <2>1 DEF FoldsOn
  <2> HIDE DEF z
  <2>3. QED
    BY <2>2
<1>2. \A k \in Nat : k \notin Bad => k + 1 \notin Bad
  BY FoldStep
<1>3. Bad \in SUBSET Nat
  OBVIOUS
<1> HIDE DEF Bad
<1>4. Bad = {}
  <2> SUFFICES ASSUME Bad # {} PROVE FALSE
    OBVIOUS
  <2>1. PICK m \in Bad : \A k \in Bad : m <= k
    BY <1>3, SmallestNumber
  <2>2. m \in Nat \ {0}
    BY <1>1, <1>3, <2>1
  <2>3. m - 1 \in Nat /\ m - 1 \notin Bad /\ (m - 1) + 1 = m
    BY <2>1, <2>2
  <2>4. QED
    BY <2>1, <2>3, <1>2
<1>5. n \notin Bad
  BY <1>4
<1>6. QED
  BY <1>5 DEF Bad

\* A recursion over the subsets of a finite set defines a function, whatever
\* is folded and in whatever order.
THEOREM FoldExists ==
  ASSUME NEW S, IsFiniteSet(S), NEW R, NEW base \in R, NEW F \in [S -> [R -> R]],
         NEW pick, Picks(pick, S)
  PROVE  \E it \in [SUBSET S -> R] : FoldsOn(it, pick, F, base, SUBSET S)
<1>1. Cardinality(S) \in Nat
  BY FS_CardinalityType
<1>2. Small(S, Cardinality(S)) = SUBSET S
  BY <1>1, FS_Subset, FS_CardinalityType DEF Small
<1>3. PICK it \in [Small(S, Cardinality(S)) -> R] :
        FoldsOn(it, pick, F, base, Small(S, Cardinality(S)))
  BY <1>1, FoldSmall
<1>4. it \in [SUBSET S -> R] /\ FoldsOn(it, pick, F, base, SUBSET S)
  BY <1>2, <1>3
<1>5. QED
  BY <1>4

\* Where a function on subsets leaves a set, it does so first at a minimal one.
LEMMA MinimalOutside ==
  ASSUME NEW S, IsFiniteSet(S), NEW R, NEW it, it[S] \notin R
  PROVE  \E s \in SUBSET S :
           it[s] \notin R /\ \A t \in SUBSET S : t \subseteq s /\ t # s => it[t] \in R
<1> DEFINE Bad == {s \in SUBSET S : it[s] \notin R}
<1>1. Bad \in SUBSET (SUBSET S) /\ Bad # {}
  OBVIOUS
<1> HIDE DEF Bad
<1>2. PICK s \in Bad : \A t \in Bad : t \subseteq s => t = s
  BY <1>1, MinimalSubset
<1>3. QED
  BY <1>2 DEF Bad

\* `it' folds F as long as its values are in R.
FoldsWithin(it, pick, F, base, R, S) ==
  \A s \in SUBSET S :
    /\ s = {} => it[s] = base
    /\ s # {} /\ it[s \ {pick[s]}] \in R => it[s] = F[pick[s]][it[s \ {pick[s]}]]

\* Any such function has its values in a set that F does not leave.
THEOREM FoldTyped ==
  ASSUME NEW S, IsFiniteSet(S), NEW R, NEW base \in R, NEW F \in [S -> [R -> R]],
         NEW pick, Picks(pick, S),
         NEW it, FoldsWithin(it, pick, F, base, R, S)
  PROVE  it[S] \in R
<1> SUFFICES ASSUME it[S] \notin R PROVE FALSE
  OBVIOUS
<1>1. PICK s \in SUBSET S :
        it[s] \notin R /\ \A t \in SUBSET S : t \subseteq s /\ t # s => it[t] \in R
  BY MinimalOutside
<1>2. s # {} /\ pick[s] \in s /\ pick[s] \in S
  BY <1>1 DEF FoldsWithin, Picks
<1> DEFINE t == s \ {pick[s]}
<1>3. t \in SUBSET S /\ t \subseteq s /\ t # s
  BY <1>2
<1>4. it[t] \in R
  <2> HIDE DEF t
  <2>1. QED
    BY <1>1, <1>3
<1>5. it[s] = F[pick[s]][it[t]]
  BY <1>2, <1>4 DEF FoldsWithin
<1> HIDE DEF t
<1>6. QED
  BY <1>1, <1>2, <1>4, <1>5

-----------------------------------------------------------------------------
(* The recursion behind a sum.                                             *)

Picked(s) == CHOOSE x \in s : TRUE

IsSummation(it, f, S) ==
  it = [s \in SUBSET S |-> IF s = {} THEN 0 ELSE f[Picked(s)] + it[s \ {Picked(s)}]]

LEMMA PickedProperties ==
  ASSUME NEW s, s # {}
  PROVE  Picked(s) \in s
BY DEF Picked

\* SumFunctionOnSet is the value at S of some function that adds up the subsets
\* of S.
LEMMA SumUnfolded ==
  ASSUME NEW f, NEW S
  PROVE  SumFunctionOnSet(f, S) = (CHOOSE it : IsSummation(it, f, S))[S]
BY DEF SumFunctionOnSet, FoldFunctionOnSet, MapThenFoldSet, IsSummation, Picked

\* A summation, set by set.
LEMMA SummationStep ==
  ASSUME NEW it, NEW f, NEW S, IsSummation(it, f, S), NEW s \in SUBSET S
  PROVE  /\ s = {} => it[s] = 0
         /\ s # {} => it[s] = f[Picked(s)] + it[s \ {Picked(s)}]
BY DEF IsSummation

LEMMA SummationExists ==
  ASSUME NEW S, IsFiniteSet(S), NEW f, \A x \in S : f[x] \in Int
  PROVE  \E it \in [SUBSET S -> Int] : IsSummation(it, f, S)
<1> DEFINE F == [x \in S |-> [n \in Int |-> f[x] + n]]
           pick == [s \in SUBSET S |-> Picked(s)]
<1>1. \A s \in SUBSET S : s # {} => pick[s] = Picked(s) /\ Picked(s) \in S /\ Picked(s) \in s
  BY PickedProperties
<1>2. F \in [S -> [Int -> Int]]
  OBVIOUS
<1>3. \A x \in S, n \in Int : F[x][n] = f[x] + n
  OBVIOUS
<1>4. Picks(pick, S)
  BY <1>1 DEF Picks
<1> HIDE DEF F, pick
<1>5. PICK it \in [SUBSET S -> Int] : FoldsOn(it, pick, F, 0, SUBSET S)
  <2>1. 0 \in Int
    OBVIOUS
  <2>2. QED
    BY <1>2, <1>4, <2>1, FoldExists, Zenon
<1>6. ASSUME NEW s \in SUBSET S
      PROVE  it[s] = IF s = {} THEN 0 ELSE f[Picked(s)] + it[s \ {Picked(s)}]
  <2>1. CASE s = {}
    BY <1>5, <2>1 DEF FoldsOn
  <2>2. CASE s # {}
    <3>1. it[s] = F[Picked(s)][it[s \ {Picked(s)}]]
      BY <1>1, <1>5, <2>2 DEF FoldsOn
    <3>2. it[s \ {Picked(s)}] \in Int
      OBVIOUS
    <3>3. QED
      BY <1>1, <1>3, <2>2, <3>1, <3>2
  <2>3. QED
    BY <2>1, <2>2
<1>7. it = [s \in SUBSET S |-> IF s = {} THEN 0 ELSE f[Picked(s)] + it[s \ {Picked(s)}]]
  BY <1>6
<1>8. QED
  BY <1>7 DEF IsSummation

\* Two summations agree wherever they add up the same numbers.
LEMMA SummationsAgree ==
  ASSUME NEW S, IsFiniteSet(S), NEW f, NEW g, \A x \in S : f[x] = g[x],
         NEW D, NEW it, IsSummation(it, f, D), S \subseteq D,
         NEW E, NEW jt, IsSummation(jt, g, E), S \subseteq E
  PROVE  it[S] = jt[S]
<1> DEFINE Bad == {s \in SUBSET S : it[s] # jt[s]}
<1>1. Bad = {}
  <2> SUFFICES ASSUME Bad # {} PROVE FALSE
    OBVIOUS
  <2>1. PICK s \in Bad : \A t \in Bad : t \subseteq s => t = s
    <3>1. Bad \in SUBSET (SUBSET S)
      OBVIOUS
    <3> HIDE DEF Bad
    <3>2. QED
      BY <3>1, MinimalSubset
  <2>2. s \in SUBSET S /\ s \in SUBSET D /\ s \in SUBSET E /\ it[s] # jt[s]
    OBVIOUS
  <2>6. \A t \in SUBSET S : t \subseteq s /\ t # s => it[t] = jt[t]
    BY <2>1
  <2> HIDE DEF Bad
  <2>3. CASE s = {}
    BY <2>2, <2>3, SummationStep
  <2>4. CASE s # {}
    <3>1. Picked(s) \in s
      BY <2>4, PickedProperties
    <3>2. it[s \ {Picked(s)}] = jt[s \ {Picked(s)}]
      <4> DEFINE t == s \ {Picked(s)}
      <4>1. t \in SUBSET S /\ t \subseteq s /\ t # s
        BY <2>2, <3>1
      <4> HIDE DEF t
      <4>2. it[t] = jt[t]
        BY <4>1, <2>6
      <4>3. QED
        BY <4>2 DEF t
    <3>5. Picked(s) \in S /\ f[Picked(s)] = g[Picked(s)]
      BY <2>2, <3>1
    <3>3. it[s] = f[Picked(s)] + it[s \ {Picked(s)}]
      BY <2>2, <2>4, SummationStep
    <3>4. jt[s] = g[Picked(s)] + jt[s \ {Picked(s)}]
      BY <2>2, <2>4, SummationStep
    <3>6. it[s] = jt[s]
      BY <3>2, <3>3, <3>4, <3>5
    <3>7. QED
      BY <3>6, <2>2
  <2>5. QED
    BY <2>3, <2>4
<1>2. QED
  BY <1>1

-----------------------------------------------------------------------------
(* What a sum is.                                                          *)

\* A sum is the value of any summation that covers the set.
LEMMA SumIsSummation ==
  ASSUME NEW S, IsFiniteSet(S), NEW f, \A x \in S : f[x] \in Int,
         NEW D, NEW it, IsSummation(it, f, D), S \subseteq D
  PROVE  SumFunctionOnSet(f, S) = it[S]
<1> DEFINE jt == CHOOSE h : IsSummation(h, f, S)
<1>1. IsSummation(jt, f, S)
  BY SummationExists
<1>2. SumFunctionOnSet(f, S) = jt[S]
  BY SumUnfolded
<1> HIDE DEF jt
<1>3. QED
  BY <1>1, <1>2, SummationsAgree

\* A sum of integers is an integer.
THEOREM SumInt ==
  ASSUME NEW S, IsFiniteSet(S), NEW f, \A x \in S : f[x] \in Int
  PROVE  SumFunctionOnSet(f, S) \in Int
<1>1. PICK it \in [SUBSET S -> Int] : IsSummation(it, f, S)
  BY SummationExists
<1>2. QED
  BY <1>1, SumIsSummation

\* Nothing adds up to 0.
THEOREM SumEmpty ==
  ASSUME NEW f
  PROVE  SumFunctionOnSet(f, {}) = 0
<1>1. PICK it : IsSummation(it, f, {})
  BY SummationExists, FS_EmptySet
<1>2. SumFunctionOnSet(f, {}) = it[{}]
  BY <1>1, SumIsSummation, FS_EmptySet
<1>3. QED
  BY <1>1, <1>2, SummationStep

\* Only the values on the set matter.
THEOREM SumAgree ==
  ASSUME NEW S, IsFiniteSet(S), NEW f, NEW g,
         \A x \in S : f[x] \in Int /\ f[x] = g[x]
  PROVE  SumFunctionOnSet(f, S) = SumFunctionOnSet(g, S)
<1>1. PICK it : IsSummation(it, f, S)
  BY SummationExists
<1>2. PICK jt : IsSummation(jt, g, S)
  BY SummationExists
<1>3. QED
  BY <1>1, <1>2, SumIsSummation, SummationsAgree

\* One unfolding of a summation.
LEMMA SummationUnrolled ==
  ASSUME NEW S, NEW f, NEW it, IsSummation(it, f, S), NEW s \in SUBSET S, s # {},
         NEW u, u = f[Picked(s)] + it[s \ {Picked(s)}]
  PROVE  it[s] = u
BY DEF IsSummation

\* A sum, one element apart: whichever it is, for addition commutes.
THEOREM SumRemove ==
  ASSUME NEW S, IsFiniteSet(S), NEW f, \A x \in S : f[x] \in Int, NEW x \in S
  PROVE  SumFunctionOnSet(f, S) = f[x] + SumFunctionOnSet(f, S \ {x})
<1> DEFINE T(s) == SumFunctionOnSet(f, s)
           Bad == {s \in SUBSET S : \E y \in s : T(s) # f[y] + T(s \ {y})}
<1>1. ASSUME NEW s \in SUBSET S
      PROVE  /\ T(s) \in Int
             /\ s # {} => T(s) = f[Picked(s)] + T(s \ {Picked(s)})
  <2>1. IsFiniteSet(s) /\ IsFiniteSet(s \ {Picked(s)})
    BY FS_Subset
  <2>2. PICK it : IsSummation(it, f, S)
    BY SummationExists
  <2>3. T(s) = it[s] /\ T(s \ {Picked(s)}) = it[s \ {Picked(s)}]
    BY <2>1, <2>2, SumIsSummation
  <2>4. QED
    <3>1. T(s) \in Int
      BY <2>1, SumInt
    <3>2. s # {} => it[s] = f[Picked(s)] + it[s \ {Picked(s)}]
      <4> DEFINE u == f[Picked(s)] + it[s \ {Picked(s)}]
      <4> HIDE DEF u
      <4>1. s # {} => it[s] = u
        BY <2>2, SummationUnrolled DEF u
      <4>2. QED
        BY <4>1 DEF u
    <3>3. QED
      BY <2>3, <3>1, <3>2
<1> HIDE DEF T
<1>2. Bad = {}
  <2> SUFFICES ASSUME Bad # {} PROVE FALSE
    OBVIOUS
  <2>1. PICK s \in Bad : \A t \in Bad : t \subseteq s => t = s
    <3>1. Bad \in SUBSET (SUBSET S)
      OBVIOUS
    <3> HIDE DEF Bad
    <3>2. QED
      BY <3>1, MinimalSubset
  <2>2. PICK y \in s : T(s) # f[y] + T(s \ {y})
    OBVIOUS
  <2> DEFINE z == Picked(s)
  <2>3. s \in SUBSET S /\ z \in s /\ T(s) = f[z] + T(s \ {z}) /\ y # z
    BY <2>2, <1>1, PickedProperties
  <2> HIDE DEF z
  <2>4. s \ {z} \notin Bad /\ s \ {y} \notin Bad
    BY <2>1, <2>2, <2>3
  <2>5. T(s \ {z}) = f[y] + T((s \ {z}) \ {y})
    BY <2>2, <2>3, <2>4
  <2>6. T(s \ {y}) = f[z] + T((s \ {y}) \ {z})
    BY <2>2, <2>3, <2>4
  <2>7. (s \ {y}) \ {z} = (s \ {z}) \ {y}
    OBVIOUS
  <2>8. /\ f[y] \in Int /\ f[z] \in Int
        /\ T((s \ {z}) \ {y}) \in Int
    BY <2>2, <2>3, <1>1
  <2> HIDE DEF Bad
  <2>9. f[z] + (f[y] + T((s \ {z}) \ {y})) = f[y] + (f[z] + T((s \ {z}) \ {y}))
    BY <2>8
  <2>10. QED
    BY <2>2, <2>3, <2>5, <2>6, <2>7, <2>9
<1>3. T(S) = f[x] + T(S \ {x})
  BY <1>2
<1>4. QED
  BY <1>3 DEF T

\* A sum grows by what is added to the set.
THEOREM SumAdd ==
  ASSUME NEW S, IsFiniteSet(S), NEW x, x \notin S, NEW f, NEW g,
         \A y \in S : f[y] \in Int /\ g[y] = f[y], g[x] \in Int
  PROVE  SumFunctionOnSet(g, S \cup {x}) = SumFunctionOnSet(f, S) + g[x]
<1>1. IsFiniteSet(S \cup {x}) /\ (S \cup {x}) \ {x} = S
  BY FS_AddElement
<1>2. SumFunctionOnSet(g, S \cup {x}) = g[x] + SumFunctionOnSet(g, S)
  BY <1>1, SumRemove
<1>3. SumFunctionOnSet(g, S) = SumFunctionOnSet(f, S)
  BY SumAgree
<1>4. SumFunctionOnSet(f, S) \in Int
  BY SumInt
<1>5. QED
  BY <1>2, <1>3, <1>4

\* Changing one summand changes the sum by as much.
THEOREM SumChange ==
  ASSUME NEW S, IsFiniteSet(S), NEW f, NEW g, NEW x \in S,
         \A y \in S : f[y] \in Int /\ g[y] \in Int,
         \A y \in S \ {x} : g[y] = f[y]
  PROVE  SumFunctionOnSet(g, S) = SumFunctionOnSet(f, S) - f[x] + g[x]
<1>1. IsFiniteSet(S \ {x})
  BY FS_RemoveElement
<1>2. SumFunctionOnSet(g, S) = g[x] + SumFunctionOnSet(g, S \ {x})
  BY SumRemove
<1>3. SumFunctionOnSet(f, S) = f[x] + SumFunctionOnSet(f, S \ {x})
  BY SumRemove
<1>4. SumFunctionOnSet(g, S \ {x}) = SumFunctionOnSet(f, S \ {x})
  BY <1>1, SumAgree
<1>5. SumFunctionOnSet(f, S \ {x}) \in Int
  BY <1>1, SumInt
<1>6. QED
  BY <1>2, <1>3, <1>4, <1>5

\* A sum of zeros is zero.
THEOREM SumZero ==
  ASSUME NEW S, IsFiniteSet(S), NEW f, \A x \in S : f[x] = 0
  PROVE  SumFunctionOnSet(f, S) = 0
<1> DEFINE it == [s \in SUBSET S |-> 0]
<1>1. it = [s \in SUBSET S |-> IF s = {} THEN 0 ELSE f[Picked(s)] + it[s \ {Picked(s)}]]
  <2>1. ASSUME NEW s \in SUBSET S
        PROVE  it[s] = IF s = {} THEN 0 ELSE f[Picked(s)] + it[s \ {Picked(s)}]
    <3>1. CASE s = {}
      BY <3>1
    <3>2. CASE s # {}
      <4>1. Picked(s) \in S /\ s \ {Picked(s)} \in SUBSET S
        BY <3>2, PickedProperties
      <4>2. f[Picked(s)] = 0 /\ it[s \ {Picked(s)}] = 0 /\ it[s] = 0
        BY <4>1
      <4> HIDE DEF it
      <4>3. QED
        BY <4>2, <3>2
    <3>3. QED
      BY <3>1, <3>2
  <2>2. QED
    BY <2>1
<1>2. IsSummation(it, f, S)
  BY <1>1 DEF IsSummation
<1>3. it[S] = 0
  OBVIOUS
<1> HIDE DEF it
<1>4. QED
  BY <1>2, <1>3, SumIsSummation
=============================================================================
