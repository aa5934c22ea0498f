---------------------------- MODULE FiniteLemmas ----------------------------
(***************************************************************************)
(* Facts about finite sets that several proofs need.  The CHOOSE of a      *)
(* first, last, least or greatest element has one to choose; the sum of an *)
(* integer function on a finite set changes as one of its values does.     *)
(***************************************************************************)
EXTENDS Integers, FiniteSets, FiniteSetTheorems, WellFoundedInduction, TLAPS

---------------------------------------------------------------------------
(* Orders. *)

\* A strict order on a finite set, not empty, has a minimal element: the one
\* whose set of smaller elements has no smaller such set.
LEMMA FiniteMinimal ==
  ASSUME NEW S, IsFiniteSet(S), S # {}, NEW R,
         \A x \in S : <<x, x>> \notin R,
         \A x, y, z \in S : <<x, y>> \in R /\ <<y, z>> \in R => <<x, z>> \in R
  PROVE  \E x \in S : \A y \in S : <<y, x>> \notin R
<1> DEFINE Below(x) == {y \in S : <<y, x>> \in R}
           T == {Below(x) : x \in S}
<1>1. T \subseteq FiniteSubsetsOf(S) /\ T # {}
  <2>1. ASSUME NEW x \in S
        PROVE  Below(x) \in FiniteSubsetsOf(S)
    BY FS_Subset DEF FiniteSubsetsOf
  <2>2. PICK x \in S : TRUE
    OBVIOUS
  <2>3. Below(x) \in T
    BY <2>2
  <2>4. \A B \in T : B \in FiniteSubsetsOf(S)
    BY <2>1
  <2> HIDE DEF T
  <2> QED
    BY <2>3, <2>4
<1>2. PICK B \in T : \A C \in T : ~ (<<C, B>> \in StrictSubsetOrdering(S))
  <2> HIDE DEF T
  <2> QED
    BY <1>1, FS_StrictSubsetOrderingWellFounded, WFMin, Zenon
<1>3. PICK x \in S : B = Below(x)
  OBVIOUS
<1>4. ASSUME NEW y \in S, <<y, x>> \in R
      PROVE  FALSE
  <2>1. Below(y) \subseteq Below(x) /\ y \in Below(x) /\ y \notin Below(y)
    BY <1>4
  <2>2. Below(y) \in T /\ Below(y) \in SUBSET S /\ Below(x) \in SUBSET S
    OBVIOUS
  <2>3. <<Below(y), B>> \in StrictSubsetOrdering(S)
    BY <1>3, <2>1, <2>2 DEF StrictSubsetOrdering
  <2> QED
    BY <1>2, <2>2, <2>3
<1> QED
  BY <1>4

LEMMA LeastExists ==
  ASSUME NEW S \in SUBSET Nat, IsFiniteSet(S), S # {}
  PROVE  \E m \in S : \A n \in S : m <= n
<1> DEFINE R == {p \in S \X S : p[1] < p[2]}
<1>1. /\ \A x \in S : <<x, x>> \notin R
      /\ \A x, y, z \in S : <<x, y>> \in R /\ <<y, z>> \in R => <<x, z>> \in R
      /\ \A x, y \in S : <<y, x>> \notin R => x <= y
  OBVIOUS
<1> HIDE DEF R
<1>2. \E x \in S : \A y \in S : <<y, x>> \notin R
  BY <1>1, FiniteMinimal
<1> QED
  BY <1>1, <1>2

LEMMA GreatestExists ==
  ASSUME NEW S \in SUBSET Nat, IsFiniteSet(S), S # {}
  PROVE  \E m \in S : \A n \in S : n <= m
<1> DEFINE R == {p \in S \X S : p[1] > p[2]}
<1>1. /\ \A x \in S : <<x, x>> \notin R
      /\ \A x, y, z \in S : <<x, y>> \in R /\ <<y, z>> \in R => <<x, z>> \in R
      /\ \A x, y \in S : <<y, x>> \notin R => y <= x
  OBVIOUS
<1> HIDE DEF R
<1>2. \E x \in S : \A y \in S : <<y, x>> \notin R
  BY <1>1, FiniteMinimal
<1> QED
  BY <1>1, <1>2

---------------------------------------------------------------------------
(* Sums. *)

\* Induction over a finite set, without a predicate for a parameter: of some
\* of its subsets one has no such subset with one element less.
LEMMA SmallestSubset ==
  ASSUME NEW D, IsFiniteSet(D), NEW B \in SUBSET (SUBSET D), B # {}
  PROVE  \E s \in B : \A x \in s : s \ {x} \notin B
<1> DEFINE R == {p \in B \X B : p[1] \subseteq p[2] /\ p[1] # p[2]}
<1>1. /\ \A s \in B : <<s, s>> \notin R
      /\ \A s, t, u \in B : <<s, t>> \in R /\ <<t, u>> \in R => <<s, u>> \in R
      /\ \A s \in B : \A x \in s : s \ {x} \in B => <<s \ {x}, s>> \in R
  OBVIOUS
<1>2. IsFiniteSet(B)
  BY FS_SUBSET, FS_Subset
<1> HIDE DEF R
<1>3. PICK s \in B : \A t \in B : <<t, s>> \notin R
  BY <1>1, <1>2, FiniteMinimal
<1> QED
  BY <1>1, <1>3

\* The sum of an integer function over each set of arguments, taken as the
\* community module Functions takes it.
Pick(s) == CHOOSE x \in s : TRUE
Sums(f, g) ==
  g = [s \in SUBSET DOMAIN f |-> IF s = {} THEN 0 ELSE f[Pick(s)] + g[s \ {Pick(s)}]]
SumOver(f) == (CHOOSE g : Sums(f, g))[DOMAIN f]

LEMMA SumsExist ==
  ASSUME NEW D, IsFiniteSet(D), NEW f \in [D -> Int]
  PROVE  \E g \in [SUBSET D -> Int] : Sums(f, g)
<1> DEFINE Step(g, s) == IF s = {} THEN 0 ELSE f[Pick(s)] + g[s \ {Pick(s)}]
           UpTo(n, g) == \A s \in SUBSET D : Cardinality(s) <= n => g[s] = Step(g, s)
           N == Cardinality(D)
           Bad == {n \in 0..N : \A g \in [SUBSET D -> Int] : ~ UpTo(n, g)}
<1>1. \A s \in SUBSET D : /\ IsFiniteSet(s) /\ Cardinality(s) \in 0..N
                          /\ (Cardinality(s) = 0 <=> s = {})
  BY FS_Subset, FS_CardinalityType, FS_EmptySet
<1>2. \A s \in SUBSET D : s # {} => /\ Pick(s) \in s /\ s \ {Pick(s)} \in SUBSET D
                                    /\ Cardinality(s \ {Pick(s)}) = Cardinality(s) - 1
  <2> SUFFICES ASSUME NEW s \in SUBSET D, s # {}
               PROVE  /\ Pick(s) \in s /\ s \ {Pick(s)} \in SUBSET D
                      /\ Cardinality(s \ {Pick(s)}) = Cardinality(s) - 1
    OBVIOUS
  <2>1. Pick(s) \in s
    BY DEF Pick
  <2> QED
    BY <1>1, <2>1, FS_RemoveElement
<1>3. N \in Nat
  BY FS_CardinalityType
<1>4. Bad = {}
  <2> SUFFICES ASSUME Bad # {}
               PROVE  FALSE
    OBVIOUS
  <2>1. PICK m \in Bad : \A n \in Bad : m <= n
    <3>1. IsFiniteSet(0..N) /\ Bad \subseteq 0..N /\ Bad \in SUBSET Nat
      <4>1. IsFiniteSet(0..N) /\ 0..N \subseteq Nat
        BY <1>3, FS_Interval
      <4> HIDE DEF N, UpTo
      <4> QED
        BY <4>1
    <3> HIDE DEF Bad
    <3>2. IsFiniteSet(Bad)
      BY <3>1, FS_Subset
    <3> QED
      BY <3>1, <3>2, LeastExists
  <2>2. m \in 0..N /\ \A g \in [SUBSET D -> Int] : ~ UpTo(m, g)
    BY <2>1
  <2>3. CASE m = 0
    <3> DEFINE g == [s \in SUBSET D |-> 0]
    <3>1. g \in [SUBSET D -> Int] /\ UpTo(0, g)
      BY <1>1
    <3> HIDE DEF g, UpTo
    <3> QED
      BY <2>2, <2>3, <3>1
  <2>4. CASE m # 0
    <3>1. m - 1 \in 0..N /\ m - 1 \notin Bad
      <4> HIDE DEF Bad, UpTo
      <4> QED
        BY <1>3, <2>1, <2>2, <2>4
    <3>2. PICK g \in [SUBSET D -> Int] : UpTo(m - 1, g)
      BY <3>1
    <3> DEFINE h == [s \in SUBSET D |-> Step(g, s)]
    <3>3. ASSUME NEW s \in SUBSET D
          PROVE  Step(g, s) \in Int
      <4>1. s # {} => f[Pick(s)] \in Int /\ g[s \ {Pick(s)}] \in Int
        BY <1>2
      <4> QED
        BY <4>1
    <3>4. h \in [SUBSET D -> Int]
      BY <3>3
    <3>5. ASSUME NEW s \in SUBSET D, Cardinality(s) <= m
          PROVE  h[s] = Step(h, s)
      <4>1. CASE s = {}
        BY <4>1
      <4>2. CASE s # {}
        <5>1. s \ {Pick(s)} \in SUBSET D /\ Cardinality(s \ {Pick(s)}) <= m - 1
          BY <1>1, <1>2, <2>2, <3>5, <4>2
        <5>2. h[s \ {Pick(s)}] = g[s \ {Pick(s)}]
          BY <3>2, <5>1
        <5> QED
          BY <4>2, <5>2
      <4> QED
        BY <4>1, <4>2
    <3>6. UpTo(m, h)
      BY <3>5
    <3> HIDE DEF h, UpTo
    <3> QED
      BY <2>2, <3>4, <3>6
  <2> QED
    BY <2>3, <2>4
<1>5. PICK g \in [SUBSET D -> Int] : UpTo(N, g)
  <2>1. N \in 0..N
    BY <1>3
  <2> HIDE DEF N, UpTo
  <2> QED
    BY <1>4, <2>1
<1>6. ASSUME NEW s \in SUBSET D
      PROVE  g[s] = Step(g, s)
  <2>1. Cardinality(s) <= N
    BY <1>1, <1>3
  <2> HIDE DEF N, Step
  <2> QED
    BY <1>5, <2>1
<1>7. g = [s \in SUBSET D |-> Step(g, s)]
  BY <1>6
<1> QED
  BY <1>7 DEF Sums

\* g adds up the values of f over each part of D, one argument after another.
AddsUp(D, f, g) ==
  /\ g[{}] = 0
  /\ \A s \in SUBSET D : s # {} => Pick(s) \in s /\ g[s] = f[Pick(s)] + g[s \ {Pick(s)}]

LEMMA SumOverType ==
  ASSUME NEW D, IsFiniteSet(D), NEW f \in [D -> Int]
  PROVE  \E g \in [SUBSET D -> Int] : AddsUp(D, f, g) /\ SumOver(f) = g[D]
<1> DEFINE g == CHOOSE g : Sums(f, g)
<1>1. Sums(f, g)
  BY SumsExist
<1>2. DOMAIN f = D
  OBVIOUS
<1>3. SumOver(f) = g[D]
  BY <1>2 DEF SumOver
<1> HIDE DEF g
<1>4. g = [s \in SUBSET D |-> IF s = {} THEN 0 ELSE f[Pick(s)] + g[s \ {Pick(s)}]]
  BY <1>1, <1>2 DEF Sums
<1>5. \A s \in SUBSET D : s # {} => Pick(s) \in s
  BY DEF Pick
<1>6. g[{}] = 0 /\ \A s \in SUBSET D : s # {} => g[s] = f[Pick(s)] + g[s \ {Pick(s)}]
  BY <1>4, <1>5
<1>7. \A s \in SUBSET D : g[s] \in Int
  <2> DEFINE B == {s \in SUBSET D : g[s] \notin Int}
  <2> SUFFICES ASSUME B # {}
               PROVE  FALSE
    OBVIOUS
  <2>1. PICK s \in B : \A x \in s : s \ {x} \notin B
    <3> B \in SUBSET (SUBSET D)
      OBVIOUS
    <3> HIDE DEF B
    <3> QED
      BY SmallestSubset
  <2>2. s \in SUBSET D /\ g[s] \notin Int /\ s # {}
    BY <1>6
  <2>3. Pick(s) \in s /\ g[s \ {Pick(s)}] \in Int /\ f[Pick(s)] \in Int
    BY <1>5, <2>1, <2>2
  <2>4. g[s] = f[Pick(s)] + g[s \ {Pick(s)}]
    BY <1>6, <2>2
  <2> QED
    BY <2>2, <2>3, <2>4
<1>8. g \in [SUBSET D -> Int]
  BY <1>4, <1>7
<1> QED
  BY <1>3, <1>5, <1>6, <1>8 DEF AddsUp

LEMMA SumOfZeros ==
  ASSUME NEW D, IsFiniteSet(D)
  PROVE  SumOver([x \in D |-> 0]) = 0
<1> DEFINE f == [x \in D |-> 0]
<1>1. PICK g \in [SUBSET D -> Int] : AddsUp(D, f, g) /\ SumOver(f) = g[D]
  <2>1. f \in [D -> Int]
    OBVIOUS
  <2> HIDE DEF f
  <2> QED
    BY <2>1, SumOverType
<1> DEFINE B == {s \in SUBSET D : g[s] # 0}
<1>2. B = {}
  <2> SUFFICES ASSUME B # {}
               PROVE  FALSE
    OBVIOUS
  <2>1. PICK s \in B : \A x \in s : s \ {x} \notin B
    <3> B \in SUBSET (SUBSET D)
      OBVIOUS
    <3> HIDE DEF B
    <3> QED
      BY SmallestSubset
  <2>2. s \in SUBSET D /\ s # {} /\ g[s] # 0
    BY <1>1 DEF AddsUp
  <2>3. Pick(s) \in s /\ g[s \ {Pick(s)}] = 0
    BY <1>1, <2>1, <2>2 DEF AddsUp
  <2> QED
    BY <1>1, <2>2, <2>3 DEF AddsUp
<1> QED
  BY <1>1, <1>2

\* One value changes to n, and the sum by as much.
LEMMA SumChanges ==
  ASSUME NEW D, IsFiniteSet(D), NEW f \in [D -> Int], NEW a \in D, NEW n \in Int
  PROVE  SumOver([f EXCEPT ![a] = n]) = SumOver(f) + (n - f[a])
<1> DEFINE e == [f EXCEPT ![a] = n]
           d == n - f[a]
<1>1. PICK g \in [SUBSET D -> Int] : AddsUp(D, f, g) /\ SumOver(f) = g[D]
  BY SumOverType
<1>2. PICK h \in [SUBSET D -> Int] : AddsUp(D, e, h) /\ SumOver(e) = h[D]
  <2>1. e \in [D -> Int]
    OBVIOUS
  <2> HIDE DEF e
  <2> QED
    BY <2>1, SumOverType
<1> DEFINE more(s) == IF a \in s THEN d ELSE 0
           B == {s \in SUBSET D : h[s] # g[s] + more(s)}
<1>3. B = {}
  <2> SUFFICES ASSUME B # {}
               PROVE  FALSE
    OBVIOUS
  <2>1. PICK s \in B : \A x \in s : s \ {x} \notin B
    <3> B \in SUBSET (SUBSET D)
      OBVIOUS
    <3> HIDE DEF B
    <3> QED
      BY SmallestSubset
  <2>2. s \in SUBSET D /\ h[s] # g[s] + more(s)
    BY <2>1
  <2>3. s # {}
    <3>1. h[{}] = g[{}] + more({})
      BY <1>1, <1>2 DEF AddsUp
    <3>2. h[s] # g[s] + more(s)
      BY <2>2
    <3> HIDE DEF more
    <3> QED
      BY <3>1, <3>2, Zenon
  <2> DEFINE p == Pick(s)
             r == s \ {p}
  <2>4. /\ p \in s /\ r \in SUBSET D
        /\ g[s] = f[p] + g[r] /\ h[s] = e[p] + h[r]
    BY <1>1, <1>2, <2>2, <2>3 DEF AddsUp
  <2>5. h[r] = g[r] + more(r)
    BY <2>1, <2>4
  <2>6. p \in D /\ e[p] = f[p] + (IF p = a THEN d ELSE 0)
    BY <2>2, <2>4
  <2>7. more(s) = more(r) + (IF p = a THEN d ELSE 0)
    BY <2>4
  <2>8. f[p] \in Int /\ g[r] \in Int /\ more(r) \in Int /\ d \in Int
    BY <2>4, <2>6
  <2> HIDE DEF p, r, d, e, more
  <2> QED
    BY <2>2, <2>4, <2>5, <2>6, <2>7, <2>8
<1>4. h[D] = g[D] + d
  BY <1>3
<1> QED
  BY <1>1, <1>2, <1>4
=============================================================================
