-------------------------- MODULE IndexIterProofs ---------------------------
(***************************************************************************)
(* Proofs about IndexIter: an iterator shows what its range asks for and   *)
(* nothing else, and passes over nothing where it turns round, for any     *)
(* finite set of ids, any keys and filters, and any number of writes.      *)
(***************************************************************************)
EXTENDS IndexIter, FiniteLemmas, SequenceTheorems, TLAPS

---------------------------------------------------------------------------
(* The order of keys and entries. *)

Strings == Seq(Nat)

\* k is before l at the place n: there k ends, or has the smaller byte.
LessAt(k, l, n) ==
  /\ n \in Nat \ {0} /\ n <= Len(l) /\ n <= Len(k) + 1
  /\ \A m \in 1..(n - 1) : k[m] = l[m]
  /\ n = Len(k) + 1 \/ k[n] < l[n]

LEMMA PrefixByByte ==
  ASSUME NEW p \in Strings, NEW k \in Strings
  PROVE  IsPrefixOf(p, k) <=> Len(p) <= Len(k) /\ \A n \in 1..Len(p) : p[n] = k[n]
<1>1. ASSUME Len(p) <= Len(k)
      PROVE  SubSeq(k, 1, Len(p)) = p <=> \A n \in 1..Len(p) : p[n] = k[n]
  <2>1. /\ SubSeq(k, 1, Len(p)) \in Strings /\ Len(SubSeq(k, 1, Len(p))) = Len(p)
        /\ \A n \in 1..Len(p) : SubSeq(k, 1, Len(p))[n] = k[n]
    BY <1>1, SubSeqProperties, LenProperties DEF Strings
  <2> QED
    BY <2>1, SeqEqual DEF Strings
<1> QED
  BY <1>1 DEF IsPrefixOf

LEMMA LessByByte ==
  ASSUME NEW k \in Strings, NEW l \in Strings
  PROVE  Less(k, l) <=> \E n \in Nat : LessAt(k, l, n)
<1>1. Len(k) \in Nat /\ Len(l) \in Nat
  BY DEF Strings
<1>2. ASSUME k # l, IsPrefixOf(k, l)
      PROVE  LessAt(k, l, Len(k) + 1)
  <2>1. Len(k) <= Len(l) /\ \A n \in 1..Len(k) : k[n] = l[n]
    BY <1>2, PrefixByByte
  <2>2. Len(k) # Len(l)
    BY <1>2, <2>1, SeqEqual DEF Strings
  <2> QED
    BY <1>1, <2>1, <2>2 DEF LessAt
<1>3. ASSUME NEW n \in 1..Len(k), n <= Len(l), k[n] < l[n], \A m \in 1..(n - 1) : k[m] = l[m]
      PROVE  LessAt(k, l, n) /\ n \in Nat
  BY <1>1, <1>3 DEF LessAt
<1>4. ASSUME NEW n \in Nat, LessAt(k, l, n)
      PROVE  Less(k, l)
  <2>1. CASE n = Len(k) + 1
    <3>1. IsPrefixOf(k, l) /\ k # l
      BY <1>1, <1>4, <2>1, PrefixByByte DEF LessAt
    <3> QED
      BY <3>1 DEF Less
  <2>2. CASE n # Len(k) + 1
    BY <1>1, <1>4, <2>2 DEF LessAt, Less
  <2> QED
    BY <2>1, <2>2
<1>5. Len(k) + 1 \in Nat
  BY <1>1
<1> QED
  BY <1>2, <1>3, <1>4, <1>5 DEF Less

LEMMA LessIrreflexive ==
  ASSUME NEW k \in Strings
  PROVE  ~ Less(k, k)
BY DEF Less, Strings

LEMMA LessTransitive ==
  ASSUME NEW j \in Strings, NEW k \in Strings, NEW l \in Strings, Less(j, k), Less(k, l)
  PROVE  Less(j, l)
<1>1. PICK m \in Nat : LessAt(j, k, m)
  BY LessByByte
<1>2. PICK n \in Nat : LessAt(k, l, n)
  BY LessByByte
<1>3. Len(j) \in Nat /\ Len(k) \in Nat /\ Len(l) \in Nat
      /\ (\A i \in 1..Len(j) : j[i] \in Nat) /\ (\A i \in 1..Len(k) : k[i] \in Nat)
      /\ (\A i \in 1..Len(l) : l[i] \in Nat)
  BY DEF Strings
<1>4. CASE m < n
  <2>1. m <= Len(l) /\ k[m] = l[m] /\ \A i \in 1..(m - 1) : j[i] = l[i]
    BY <1>1, <1>2, <1>3, <1>4 DEF LessAt
  <2>2. LessAt(j, l, m)
    BY <1>1, <1>3, <2>1 DEF LessAt
  <2> QED
    BY <2>2, LessByByte
<1>5. CASE m = n
  <2>1. k[m] < l[m] /\ m <= Len(k) /\ m <= Len(l) /\ \A i \in 1..(m - 1) : j[i] = l[i]
    BY <1>1, <1>2, <1>3, <1>5 DEF LessAt
  <2>2. m = Len(j) + 1 \/ j[m] < l[m]
    BY <1>1, <1>3, <2>1 DEF LessAt
  <2>3. LessAt(j, l, m)
    BY <1>1, <2>1, <2>2 DEF LessAt
  <2> QED
    BY <2>3, LessByByte
<1>6. CASE n < m
  <2>1. /\ n <= Len(j) /\ j[n] = k[n] /\ k[n] < l[n] /\ n <= Len(l)
        /\ \A i \in 1..(n - 1) : j[i] = l[i]
    BY <1>1, <1>2, <1>3, <1>6 DEF LessAt
  <2>2. LessAt(j, l, n)
    BY <1>2, <1>3, <2>1 DEF LessAt
  <2> QED
    BY <2>2, LessByByte
<1> QED
  BY <1>4, <1>5, <1>6

LEMMA LessTotal ==
  ASSUME NEW k \in Strings, NEW l \in Strings
  PROVE  k = l \/ Less(k, l) \/ Less(l, k)
<1> DEFINE D == {n \in 1..Len(k) : n <= Len(l) /\ k[n] # l[n]}
<1>1. /\ Len(k) \in Nat /\ Len(l) \in Nat
      /\ \A i \in 1..Len(k) : k[i] \in Nat
      /\ \A i \in 1..Len(l) : l[i] \in Nat
  BY DEF Strings
<1>2. CASE D = {}
  <2>1. \A n \in 1..Len(k) : n <= Len(l) => k[n] = l[n]
    BY <1>2
  <2>2. CASE Len(k) = Len(l)
    BY <1>1, <2>1, <2>2, SeqEqual DEF Strings
  <2>3. CASE Len(k) < Len(l)
    BY <1>1, <2>1, <2>3, PrefixByByte DEF Less
  <2>4. CASE Len(l) < Len(k)
    BY <1>1, <2>1, <2>4, PrefixByByte DEF Less
  <2> QED
    BY <1>1, <2>2, <2>3, <2>4
<1>3. CASE D # {}
  <2>1. D \in SUBSET Nat /\ IsFiniteSet(D)
    <3>1. D \in SUBSET (1..Len(k)) /\ 1..Len(k) \subseteq Nat
      BY <1>1
    <3>2. IsFiniteSet(1..Len(k))
      BY <1>1, FS_Interval
    <3> HIDE DEF D
    <3> QED
      BY <3>1, <3>2, FS_Subset
  <2>2. PICK n \in D : \A m \in D : n <= m
    <3> HIDE DEF D
    <3> QED
      BY <1>3, <2>1, LeastExists
  <2>3. n \in 1..Len(k) /\ n \in 1..Len(l) /\ k[n] # l[n]
    BY <1>1, <2>2
  <2>4. \A m \in 1..(n - 1) : m \in 1..Len(k) /\ m <= Len(l) /\ m < n
    BY <1>1, <2>3
  <2>5. \A m \in 1..(n - 1) : k[m] = l[m]
    BY <2>2, <2>3, <2>4
  <2>6. k[n] < l[n] \/ l[n] < k[n]
    BY <1>1, <2>3
  <2>7. n \in Nat /\ (LessAt(k, l, n) \/ LessAt(l, k, n))
    BY <1>1, <2>3, <2>5, <2>6 DEF LessAt
  <2> QED
    BY <2>7, LessByByte
<1> QED
  BY <1>2, <1>3

\* What lies between two strings with a prefix has the prefix too: an entry
\* that is not before the prefix, and not after one that has it.
LEMMA PrefixBetween ==
  ASSUME NEW p \in Strings, NEW k \in Strings, NEW l \in Strings,
         ~ Less(k, p), IsPrefixOf(p, l), k = l \/ Less(k, l)
  PROVE  IsPrefixOf(p, k)
<1> SUFFICES ASSUME ~ IsPrefixOf(p, k), Less(k, l)
             PROVE  FALSE
  OBVIOUS
<1>1. /\ Len(p) \in Nat /\ Len(k) \in Nat /\ Len(l) \in Nat
      /\ (\A i \in 1..Len(p) : p[i] \in Nat) /\ (\A i \in 1..Len(k) : k[i] \in Nat)
      /\ (\A i \in 1..Len(l) : l[i] \in Nat)
  BY DEF Strings
<1>2. p # k
  BY <1>1, PrefixByByte
<1>3. Less(p, k)
  BY <1>2, LessTotal
<1>4. PICK n \in Nat : LessAt(p, k, n)
  BY <1>3, LessByByte
<1>5. n # Len(p) + 1
  BY <1>1, <1>4, PrefixByByte DEF LessAt
<1>6. /\ n \in 1..Len(p) /\ n <= Len(k) /\ p[n] < k[n]
      /\ \A m \in 1..(n - 1) : p[m] = k[m]
  BY <1>1, <1>4, <1>5 DEF LessAt
<1>7. Len(p) <= Len(l) /\ \A m \in 1..Len(p) : p[m] = l[m]
  BY PrefixByByte
<1>8. LessAt(l, k, n)
  BY <1>1, <1>4, <1>6, <1>7 DEF LessAt
<1>9. Less(l, k)
  BY <1>4, <1>8, LessByByte
<1> QED
  BY <1>9, LessTransitive, LessIrreflexive

\* The entries of any index, and of the main database.
Universe == Strings \X Nat

LEMMA BeforeOrder ==
  ASSUME NEW e \in Universe, NEW f \in Universe
  PROVE  /\ ~ Before(e, e)
         /\ e = f \/ Before(e, f) \/ Before(f, e)
         /\ \A g \in Universe : Before(e, f) /\ Before(f, g) => Before(e, g)
<1>1. /\ e[1] \in Strings /\ e[2] \in Nat /\ e = <<e[1], e[2]>>
      /\ f[1] \in Strings /\ f[2] \in Nat /\ f = <<f[1], f[2]>>
  BY DEF Universe
<1>2. ~ Before(e, e)
  BY <1>1, LessIrreflexive DEF Before
<1>3. e = f \/ Before(e, f) \/ Before(f, e)
  <2>1. e[1] = f[1] \/ Less(e[1], f[1]) \/ Less(f[1], e[1])
    BY <1>1, LessTotal
  <2>2. e[2] = f[2] \/ e[2] < f[2] \/ f[2] < e[2]
    BY <1>1
  <2> QED
    BY <1>1, <2>1, <2>2 DEF Before
<1>4. ASSUME NEW g \in Universe, Before(e, f), Before(f, g)
      PROVE  Before(e, g)
  <2>1. g[1] \in Strings /\ g[2] \in Nat
    BY DEF Universe
  <2>2. Less(e[1], f[1]) /\ Less(f[1], g[1]) => Less(e[1], g[1])
    BY <1>1, <2>1, LessTransitive
  <2> QED
    BY <1>1, <1>4, <2>1, <2>2 DEF Before
<1> QED
  BY <1>2, <1>3, <1>4

\* Both ways: f lies ahead of e, and the next of S.
Toward(w, e, f) == IF w = "++" THEN Before(e, f) ELSE Before(f, e)
Nearest(w, S) == IF w = "++" THEN First(S) ELSE Last(S)

LEMMA NearestExists ==
  ASSUME NEW S \in SUBSET Universe, IsFiniteSet(S), S # {}, NEW w
  PROVE  Nearest(w, S) \in S /\ \A f \in S : f = Nearest(w, S) \/ Toward(w, Nearest(w, S), f)
<1> DEFINE R == {p \in S \X S : Toward(w, p[1], p[2])}
<1>1. /\ \A x \in S : <<x, x>> \notin R
      /\ \A x, y, z \in S : <<x, y>> \in R /\ <<y, z>> \in R => <<x, z>> \in R
  BY BeforeOrder DEF Toward
<1>2. \A x, y \in S : <<y, x>> \notin R => x = y \/ Toward(w, x, y)
  BY BeforeOrder DEF Toward
<1> HIDE DEF R
<1>3. PICK x \in S : \A y \in S : <<y, x>> \notin R
  BY <1>1, FiniteMinimal
<1>4. \A y \in S : x = y \/ Toward(w, x, y)
  BY <1>2, <1>3
<1>5. CASE w = "++"
  <2>1. First(S) \in S /\ \A f \in S : First(S) = f \/ Before(First(S), f)
    BY <1>4, <1>5 DEF First, Toward
  <2> QED
    BY <1>5, <2>1 DEF Nearest, Toward
<1>6. CASE w # "++"
  <2>1. Last(S) \in S /\ \A f \in S : Last(S) = f \/ Before(f, Last(S))
    BY <1>4, <1>6 DEF Last, Toward
  <2> QED
    BY <1>6, <2>1 DEF Nearest, Toward
<1> QED
  BY <1>5, <1>6

---------------------------------------------------------------------------
(* The entries, and what the actions have in common. *)

\* Until an iterator's del() or a put over a taken id tears it, the index is exact.
IndexWhole == ~ torn => idx = {<<rows[i], i>> : i \in Present}

BaseInv == TypeOK /\ IsFiniteSet(idx) /\ IndexWhole /\ NoMissingId

\* The direction that exhausts a call's range, and where a call starts.
WayOf(c) == IF c = "rbegin" THEN "--" ELSE "++"

CallNames == {"begin", "rbegin", "main", "find", "lower_bound", "equal_range", "prefix_range"}

\* The iterator c is made on the nearest entry of S, for the objects of W: S goes
\* on to the end of the database, or of the key.
Starts(c, k, b, S, W) ==
  /\ c \in CallNames /\ k \in Keys \cup {NoKey} /\ b \in BOOLEAN
  /\ S \subseteq Entries(b) /\ W \subseteq S
  /\ Makes(c, k, W)
  /\ PutOn(S, Nearest(WayOf(c), S), b, c = "equal_range", IF c = "prefix_range" THEN k ELSE << >>)
  /\ c = "equal_range" => \A e \in S : e[1] = k
  /\ c = "prefix_range" => k \in Keys /\ \A e \in S : ~ Less(e[1], k)
  /\ W = CASE c = "find" -> {}
           [] c = "prefix_range" -> {e \in S : IsPrefixOf(k, e[1])}
           [] OTHER -> S
  /\ c # "find" => \A e \in S, f \in Entries(b) :
       Toward(WayOf(c), e, f) /\ (c = "equal_range" => f[1] = e[1]) => f \in S

\* Object i is written: the entries of other objects stay as they are, of its own
\* those of O go, and those of N come.
Wrote(i, O, N) ==
  /\ i \in Ids /\ Noted(i, O, N)
  /\ N \subseteq Entries(d_on_index)' /\ \A e \in O \cup N : e[2] = i
  /\ \A e \in Entries(d_on_index) : e \in O \/ e \in Entries(d_on_index)'
  /\ \A e \in AllEntries : e[2] # i =>
       (e \in Entries(d_on_index)' <=> e \in Entries(d_on_index))
  /\ \A j \in Ids \ {i} : j \in Present' <=> j \in Present

LEMMA AllInUniverse ==
  /\ AllEntries \subseteq Universe /\ NoEntry \notin AllEntries
  /\ \A e \in AllEntries : e[1] \in Strings /\ e[2] \in Ids /\ e = <<e[1], e[2]>>
  /\ Keys \subseteq Strings
<1>1. \A i \in Ids : <<i>> \in Strings
  BY ConstantsAssumption DEF Strings
<1>2. Keys \subseteq Strings /\ Ids \subseteq Nat
  BY ConstantsAssumption DEF Strings
<1>3. ASSUME NEW e \in AllEntries
      PROVE  e[1] \in Strings /\ e[2] \in Ids /\ e = <<e[1], e[2]>>
  BY <1>1, <1>2 DEF AllEntries, MainEntry
<1>4. AllEntries \subseteq Universe
  BY <1>2, <1>3 DEF Universe
<1>5. NoEntry \notin Universe
  BY ConstantsAssumption DEF Universe, Strings
<1> QED
  BY <1>2, <1>3, <1>4, <1>5

LEMMA BooleanTypes ==
  ASSUME TypeOK
  PROVE  /\ d_on_index \in BOOLEAN /\ d_one_key \in BOOLEAN /\ d_end \in BOOLEAN
         /\ gone \in BOOLEAN /\ torn \in BOOLEAN /\ threw \in BOOLEAN
BY Zenon DEF TypeOK

LEMMA EntriesFinite ==
  ASSUME BaseInv, NEW b \in BOOLEAN
  PROVE  Entries(b) \subseteq AllEntries /\ IsFiniteSet(Entries(b))
<1> DEFINE M == {MainEntry(i) : i \in Present}
<1>1. idx \subseteq AllEntries /\ M \subseteq AllEntries
  BY DEF BaseInv, TypeOK, AllEntries, Present
<1>2. IsFiniteSet(M)
  <2> DEFINE id == [e \in M |-> e[2]]
  <2>1. Present \in SUBSET Ids
    BY DEF Present
  <2>2. IsFiniteSet(Present)
    BY <2>1, FS_Subset, ConstantsAssumption
  <2>3. id \in [M -> Present]
    BY DEF MainEntry
  <2>4. \A e, f \in M : id[e] = id[f] => e = f
    BY DEF MainEntry
  <2> HIDE DEF id, M
  <2>5. id \in Injection(M, Present)
    BY <2>3, <2>4 DEF Injection, IsInjective
  <2> QED
    BY <2>2, <2>5, FS_Injection
<1>3. Entries(b) = IF b THEN idx ELSE M
  BY DEF Entries
<1> HIDE DEF M
<1> QED
  BY <1>1, <1>2, <1>3 DEF BaseInv

\* A part of the entries has a nearest one, if it has any.
LEMMA NearestEntry ==
  ASSUME BaseInv, NEW b \in BOOLEAN, NEW S \in SUBSET Entries(b), S # {}, NEW w
  PROVE  Nearest(w, S) \in S /\ \A f \in S : f = Nearest(w, S) \/ Toward(w, Nearest(w, S), f)
<1>1. S \in SUBSET Universe /\ IsFiniteSet(S)
  BY EntriesFinite, AllInUniverse, FS_Subset
<1> QED
  BY <1>1, NearestExists

LEMMA FromIsClosed ==
  ASSUME BaseInv, NEW k \in Keys, NEW e \in From(k), NEW f \in Entries(TRUE), Before(e, f)
  PROVE  f \in From(k)
<1>1. e \in AllEntries /\ f \in AllEntries /\ ~ Less(e[1], k)
  BY EntriesFinite DEF From
<1>2. e[1] \in Strings /\ f[1] \in Strings /\ k \in Strings
  BY <1>1, AllInUniverse
<1>3. e[1] = f[1] \/ Less(e[1], f[1])
  BY DEF Before
<1>4. ~ Less(f[1], k)
  BY <1>1, <1>2, <1>3, LessTransitive
<1> QED
  BY <1>4 DEF From

\* Every call that makes an iterator is of one form.
LEMMA MakingStarts ==
  ASSUME BaseInv, \/ Begin \/ RBegin \/ MainBegin
                  \/ \E k \in Args : Find(k) \/ LowerBound(k) \/ EqualRange(k) \/ PrefixRange(k)
  PROVE  \E c, k, b, S, W : Starts(c, k, b, S, W)
<1> USE ConstantsAssumption DEF CallNames
<1>1. CASE Begin
  <2>1. Starts("begin", NoKey, TRUE, Entries(TRUE), Entries(TRUE))
    BY <1>1 DEF Begin, Starts, Nearest, WayOf
  <2> QED
    BY <2>1
<1>2. CASE RBegin
  <2>1. Starts("rbegin", NoKey, TRUE, Entries(TRUE), Entries(TRUE))
    BY <1>2 DEF RBegin, Starts, Nearest, WayOf
  <2> QED
    BY <2>1
<1>3. CASE MainBegin
  <2>1. Starts("main", NoKey, FALSE, Entries(FALSE), Entries(FALSE))
    BY <1>3 DEF MainBegin, Starts, Nearest, WayOf
  <2> QED
    BY <2>1
<1>4. ASSUME NEW k \in Args, Find(k)
      PROVE  Starts("find", k, TRUE, Of(k), {})
  BY <1>4 DEF Find, Of, Starts, Nearest, WayOf
<1>5. ASSUME NEW k \in Args, LowerBound(k)
      PROVE  Starts("lower_bound", k, TRUE, From(k), From(k))
  <2>1. From(k) \subseteq Entries(TRUE)
    BY DEF From
  <2> QED
    BY <1>5, <2>1, FromIsClosed DEF LowerBound, Starts, Nearest, WayOf, Toward
<1>6. ASSUME NEW k \in Args, EqualRange(k)
      PROVE  Starts("equal_range", k, TRUE, Of(k), Of(k))
  BY <1>6 DEF EqualRange, Of, Starts, Nearest, WayOf
<1>7. ASSUME NEW k \in Args, PrefixRange(k)
      PROVE  Starts("prefix_range", k, TRUE, From(k), {e \in From(k) : IsPrefixOf(k, e[1])})
  <2>1. From(k) \subseteq Entries(TRUE) /\ \A e \in From(k) : ~ Less(e[1], k)
    BY DEF From
  <2> QED
    BY <1>7, <2>1, FromIsClosed DEF PrefixRange, Starts, Nearest, WayOf, Toward
<1> QED
  BY <1>1, <1>2, <1>3, <1>4, <1>5, <1>6, <1>7

\* A row is written, over entry R of the index, which goes, or leaving it there.
LEMMA RowWrote ==
  ASSUME BaseInv, NEW i \in Ids, NEW l \in Keys \cup {NoKey}, NEW R, NEW O, NEW N,
         \/ R = {} /\ O = {} /\ l # NoKey
         \/ R = {<<rows[i], i>>} /\ O = EntryOf(i, rows[i]) /\ i \in Present,
         N \subseteq EntryOf(i, l), Noted(i, O, N),
         rows' = [rows EXCEPT ![i] = l],
         idx' = (idx \ R) \cup ({<<l, i>>} \ {<<NoKey, i>>}),
         ~ torn' => ~ torn /\ (R = {} => rows[i] \in {NoKey, l})
  PROVE  /\ Wrote(i, O, N)
         /\ rows' \in [Ids -> Keys \cup {NoKey}] /\ idx' \subseteq Keys \X Ids
         /\ IsFiniteSet(idx') /\ IndexWhole'
<1> DEFINE add == {<<l, i>>} \ {<<NoKey, i>>}
<1>1. d_on_index' = d_on_index /\ idx' = (idx \ R) \cup add
  BY DEF Noted, fixedVars
<1>2. rows \in [Ids -> Keys \cup {NoKey}] /\ idx \subseteq Keys \X Ids
  BY DEF BaseInv, TypeOK
<1>3. add = IF l = NoKey THEN {} ELSE {<<l, i>>}
  OBVIOUS
<1>4. R \subseteq {<<rows[i], i>>} /\ \A e \in R : e[2] = i
  OBVIOUS
<1>5. /\ add \subseteq Keys \X Ids /\ \A e \in add : e[2] = i
      /\ IsFiniteSet(add)
  <2>1. add \subseteq Keys \X Ids /\ \A e \in add : e[2] = i
    BY <1>3
  <2> HIDE DEF add
  <2>2. add = {} \/ add = {<<l, i>>}
    BY <1>3
  <2>3. IsFiniteSet({}) /\ IsFiniteSet({<<l, i>>})
    BY FS_EmptySet, FS_Singleton, Zenon
  <2> QED
    BY <2>1, <2>2, <2>3, Zenon
<1> HIDE DEF add
<1>6. rows' \in [Ids -> Keys \cup {NoKey}] /\ idx' \subseteq Keys \X Ids
  BY <1>1, <1>2, <1>5
<1>7. IsFiniteSet(idx')
  <2>1. idx \ R \subseteq idx /\ IsFiniteSet(idx)
    BY DEF BaseInv
  <2>2. IsFiniteSet(idx \ R)
    BY <2>1, FS_Subset
  <2>3. IsFiniteSet((idx \ R) \cup add)
    BY <1>5, <2>2, FS_Union, Zenon
  <2> QED
    BY <1>1, <2>3, Zenon
<1>8. Present' = IF l = NoKey THEN Present \ {i} ELSE Present \cup {i}
  BY <1>2 DEF Present
<1>9. ASSUME NEW e \in AllEntries, e[2] # i
      PROVE  e \in Entries(d_on_index)' <=> e \in Entries(d_on_index)
  <2>1. e \in idx' <=> e \in idx
    BY <1>1, <1>4, <1>5, <1>9
  <2>2. e \in {MainEntry(j) : j \in Present'} <=> e \in {MainEntry(j) : j \in Present}
    BY <1>8, <1>9 DEF MainEntry
  <2> QED
    BY <1>1, <2>1, <2>2 DEF Entries
<1>10. N \subseteq Entries(d_on_index)' /\ \A e \in O \cup N : e[2] = i
  BY <1>1, <1>3, <1>8 DEF Entries, MainEntry, EntryOf
<1>11. ASSUME NEW e \in Entries(d_on_index), e \notin O
       PROVE  e \in Entries(d_on_index)'
  <2>1. CASE d_on_index
    <3>1. e \notin R
      BY <1>11, <2>1 DEF EntryOf, Present
    <3> QED
      BY <1>1, <1>11, <2>1, <3>1 DEF Entries
  <2>2. CASE ~ d_on_index
    <3>1. PICK j \in Present : e = MainEntry(j)
      BY <1>11, <2>2 DEF Entries
    <3>2. j \in Present'
      BY <1>8, <1>11, <2>2, <3>1 DEF EntryOf, Present
    <3> QED
      BY <1>1, <2>2, <3>1, <3>2 DEF Entries
  <2> QED
    BY <2>1, <2>2
<1>12. \A j \in Ids \ {i} : j \in Present' <=> j \in Present
  BY <1>8
<1>13. Wrote(i, O, N)
  BY <1>9, <1>10, <1>11, <1>12 DEF Wrote
<1>14. IndexWhole'
  <2> SUFFICES ASSUME ~ torn'
               PROVE  idx' = {<<rows'[j], j>> : j \in Present'}
    BY DEF IndexWhole
  <2>1. /\ idx = {<<rows[j], j>> : j \in Present}
        /\ R = {} => rows[i] \in {NoKey, l}
    BY DEF BaseInv, IndexWhole
  <2>2. ASSUME NEW e
        PROVE  e \in idx' <=> e \in {<<rows'[j], j>> : j \in Present'}
    <3>1. e \in {<<rows'[j], j>> : j \in Present'} <=> \E j \in Present' : e = <<rows'[j], j>>
      OBVIOUS
    <3>2. e \in idx <=> \E j \in Present : e = <<rows[j], j>>
      BY <2>1
    <3>3. /\ rows'[i] = l /\ \A j \in Ids : j # i => rows'[j] = rows[j]
          /\ Present \subseteq Ids /\ (i \in Present' <=> l # NoKey)
          /\ i \notin Present <=> rows[i] = NoKey
      BY <1>2, <1>8 DEF Present
    <3>4. e \in idx' <=> (e \in idx /\ e \notin R) \/ (l # NoKey /\ e = <<l, i>>)
      BY <1>1, <1>3
    <3>5. R = {} \/ R = {<<rows[i], i>>}
      OBVIOUS
    <3> QED
      BY <1>8, <2>1, <3>1, <3>2, <3>3, <3>4, <3>5
  <2> QED
    BY <2>2
<1> QED
  BY <1>6, <1>7, <1>13, <1>14

\* A write, as it is to the cursor and to the store.
Writes(i) ==
  /\ \E O, N : Wrote(i, O, N)
  /\ rows' \in [Ids -> Keys \cup {NoKey}] /\ idx' \subseteq Keys \X Ids
  /\ IsFiniteSet(idx') /\ IndexWhole' /\ torn' \in {torn, TRUE}

LEMMA PutWrites ==
  ASSUME BaseInv, NEW i \in Ids, NEW k \in Keys, Put(i, k)
  PROVE  Writes(i)
<1>1. /\ rows' = [rows EXCEPT ![i] = k] /\ idx' = idx \cup {<<k, i>>}
      /\ Noted(i, {}, EntryOf(i, k) \ Entries(d_on_index))
      /\ torn' = (torn \/ rows[i] \notin {NoKey, k})
  BY DEF Put
<1>2. k # NoKey
  BY ConstantsAssumption
<1>3. idx' = (idx \ {}) \cup ({<<k, i>>} \ {<<NoKey, i>>})
  BY <1>1, <1>2
<1>4. torn \in BOOLEAN
  BY BooleanTypes DEF BaseInv
<1>5. torn' \in {torn, TRUE} /\ (~ torn' => ~ torn /\ rows[i] \in {NoKey, k})
  BY <1>1, <1>4
<1>6. EntryOf(i, k) \ Entries(d_on_index) \subseteq EntryOf(i, k)
  OBVIOUS
<1> QED
  BY <1>1, <1>2, <1>3, <1>5, <1>6, RowWrote DEF Writes

LEMMA WriteWrites ==
  ASSUME BaseInv, NEW i \in Ids, NEW k \in Keys \cup {NoKey}, Write(i, k)
  PROVE  Writes(i)
<1> DEFINE old == EntryOf(i, rows[i])
           l == IF <<rows[i], i>> \in idx THEN k ELSE NoKey
           N == EntryOf(i, l) \ (Entries(d_on_index) \ old)
<1>1. /\ i \in Present /\ rows' = [rows EXCEPT ![i] = l]
      /\ idx' = (idx \ {<<rows[i], i>>}) \cup ({<<l, i>>} \ {<<NoKey, i>>})
      /\ Noted(i, old, N) /\ torn' = torn
  BY DEF Write
<1>2. l \in Keys \cup {NoKey} /\ N \subseteq EntryOf(i, l)
  OBVIOUS
<1> HIDE DEF l, N, old
<1>3. Wrote(i, old, N) /\ rows' \in [Ids -> Keys \cup {NoKey}] /\ idx' \subseteq Keys \X Ids
      /\ IsFiniteSet(idx') /\ IndexWhole'
  BY <1>1, <1>2, RowWrote DEF old
<1> QED
  BY <1>1, <1>3 DEF Writes

LEMMA IterDelWrites ==
  ASSUME BaseInv, IterDel
  PROVE  \E i \in Ids : Writes(i)
<1>1. /\ at # NoEntry /\ torn' = TRUE /\ d_on_index \in BOOLEAN
      /\ rows \in [Ids -> Keys \cup {NoKey}] /\ idx \subseteq Keys \X Ids
  BY BooleanTypes DEF IterDel, BaseInv, TypeOK
<1>2. PICK e \in UnderCursor :
        /\ IF d_on_index
           THEN idx' = idx \ {e} /\ rows' = rows
           ELSE rows' = [rows EXCEPT ![e[2]] = NoKey] /\ idx' = idx
        /\ Noted(e[2], {e}, {})
  BY DEF IterDel
<1>3. UnderCursor \subseteq Entries(d_on_index)
  <2> DEFINE next == {f \in Entries(d_on_index) \ drift : Before(at, f)}
  <2>1. next # {} => First(next) \in next
    BY <1>1, NearestEntry DEF Nearest
  <2>2. UnderCursor = IF gone THEN drift \cup (IF next = {} THEN {} ELSE {First(next)}) ELSE {at}
    BY DEF UnderCursor
  <2>3. next \subseteq Entries(d_on_index)
    OBVIOUS
  <2> HIDE DEF next
  <2>4. drift \subseteq Entries(d_on_index) /\ (gone \/ at \in Entries(d_on_index))
    BY <1>1 DEF BaseInv, TypeOK
  <2> QED
    BY <2>1, <2>2, <2>3, <2>4
<1>4. e \in Entries(d_on_index) /\ e \in AllEntries /\ e[2] \in Ids
  BY <1>1, <1>3, EntriesFinite, AllInUniverse
<1>5. d_on_index' = d_on_index
  BY <1>2 DEF Noted, fixedVars
<1>6. IndexWhole'
  BY <1>1 DEF IndexWhole
<1>7. CASE d_on_index
  <2>1. idx' = idx \ {e} /\ rows' = rows /\ Present' = Present
    BY <1>2, <1>7 DEF Present
  <2>2. /\ \A f \in AllEntries : f[2] # e[2] =>
             (f \in Entries(d_on_index)' <=> f \in Entries(d_on_index))
        /\ \A f \in Entries(d_on_index) : f \in {e} \/ f \in Entries(d_on_index)'
    BY <1>5, <1>7, <2>1 DEF Entries
  <2>3. IsFiniteSet(idx')
    BY <2>1, FS_RemoveElement DEF BaseInv
  <2>4. Wrote(e[2], {e}, {})
    BY <1>2, <1>4, <2>1, <2>2 DEF Wrote
  <2> QED
    BY <1>1, <1>4, <1>6, <2>1, <2>3, <2>4 DEF Writes
<1>8. CASE ~ d_on_index
  <2>1. idx' = idx /\ rows' = [rows EXCEPT ![e[2]] = NoKey]
    BY <1>2, <1>8
  <2>2. Present' = Present \ {e[2]}
    BY <1>1, <1>4, <2>1 DEF Present
  <2>3. /\ \A f \in AllEntries : f[2] # e[2] =>
             (f \in Entries(d_on_index)' <=> f \in Entries(d_on_index))
        /\ \A f \in Entries(d_on_index) : f \in {e} \/ f \in Entries(d_on_index)'
    BY <1>4, <1>5, <1>8, <2>2 DEF Entries, MainEntry
  <2>4. IsFiniteSet(idx')
    BY <2>1 DEF BaseInv
  <2>5. Wrote(e[2], {e}, {})
    BY <1>2, <1>4, <2>2, <2>3 DEF Wrote
  <2> QED
    BY <1>1, <1>4, <1>6, <2>1, <2>4, <2>5 DEF Writes
<1> QED
  BY <1>7, <1>8

LEMMA WritingWrites ==
  ASSUME BaseInv, \/ \E i \in Ids : Del(i) \/ \E k \in Keys : Put(i, k) \/ Modify(i, k)
                  \/ IterDel
  PROVE  \E i \in Ids : Writes(i)
BY PutWrites, WriteWrites, IterDelWrites DEF Del, Modify

---------------------------------------------------------------------------
(* Types, and no missing ids. *)

LEMMA InitBase == Init => BaseInv
<1> SUFFICES ASSUME Init
             PROVE  BaseInv
  OBVIOUS
<1>1. idx \subseteq Keys \X Ids /\ rows \in [Ids -> Keys \cup {NoKey}]
  BY ConstantsAssumption DEF Init, Present
<1>2. IsFiniteSet(idx)
  <2> DEFINE id == [e \in idx |-> e[2]]
  <2>1. idx = {<<rows[i], i>> : i \in Present} /\ Present \subseteq Ids
    BY DEF Init, Present
  <2>2. id \in [idx -> Ids] /\ \A e, f \in idx : id[e] = id[f] => e = f
    BY <2>1
  <2> HIDE DEF id
  <2>3. id \in Injection(idx, Ids)
    BY <2>2 DEF Injection, IsInjective
  <2> QED
    BY <2>3, FS_Injection, ConstantsAssumption
<1>3. {d_on_index, d_one_key, d_end, gone, torn, threw} \subseteq BOOLEAN
  BY DEF Init
<1>4. writes \in 0..MaxWrites
  BY ConstantsAssumption DEF Init
<1>5. TypeOK
  BY <1>1, <1>3, <1>4 DEF Init, TypeOK
<1> QED
  BY <1>2, <1>5 DEF Init, BaseInv, IndexWhole, NoMissingId

\* While the index is exact, no entry leads to an object that is missing.
LEMMA NoneMissing ==
  ASSUME BaseInv, ~ torn, NEW b \in BOOLEAN, NEW e \in Entries(b)
  PROVE  ~ Missing(e)
BY DEF BaseInv, IndexWhole, Entries, MainEntry, Missing

\* What an entry shows of its object is a key, and while the index is exact the
\* entry's.
LEMMA ShownIsKey ==
  ASSUME BaseInv, NEW b \in BOOLEAN, NEW e \in Entries(b), ~ Missing(e)
  PROVE  ShownBy(b, e) \subseteq Keys /\ (torn \/ ShownBy(b, e) \subseteq {e[1]})
<1>1. e[2] \in Present /\ rows[e[2]] \in Keys
  BY DEF Missing, Present, BaseInv, TypeOK
<1>2. b /\ ~ torn => rows[e[2]] = e[1]
  BY DEF BaseInv, IndexWhole, Entries
<1> QED
  BY <1>1, <1>2 DEF ShownBy

LEMMA StartBase ==
  ASSUME BaseInv, NEW c, NEW k, NEW b, NEW S, NEW W, Starts(c, k, b, S, W)
  PROVE  BaseInv'
<1> DEFINE e == Nearest(WayOf(c), S)
           throws == S # {} /\ Missing(e)
           none == S = {} \/ throws
<1>1. /\ b \in BOOLEAN /\ S \in SUBSET Entries(b) /\ W \subseteq S
      /\ c \in CallNames /\ k \in Keys \cup {NoKey} /\ (c = "prefix_range" => k \in Keys)
  BY DEF Starts
<1>2. /\ call' = c /\ arg' = k /\ filter' \in Filters /\ asked' = {f[2] : f \in W}
      /\ ~ gone' /\ gone' = FALSE /\ drift' = {} /\ touched' = {} /\ ways' = {}
      /\ UNCHANGED <<rows, idx, writes, torn>>
  BY DEF Starts, Makes, storeVars
<1>3. /\ at' = (IF none THEN NoEntry ELSE e) /\ d_end' = none
      /\ seen' = (IF none THEN {} ELSE {e}) /\ threw' = throws
      /\ shown' = (IF none THEN {} ELSE ShownBy(b, e))
      /\ d_on_index' = b /\ d_one_key' = (c = "equal_range")
      /\ d_prefix' = IF c = "prefix_range" THEN k ELSE << >>
  BY DEF Starts, PutOn
<1>4. S # {} => e \in S
  BY <1>1, NearestEntry
<1>5. Entries(b) \subseteq AllEntries /\ \A f \in Entries(b) : f[2] \in Ids /\ f # NoEntry
  BY <1>1, EntriesFinite, AllInUniverse
<1>6. Entries(d_on_index)' = Entries(b)
  BY <1>2, <1>3 DEF Entries, Present
<1> HIDE DEF e
<1>7. /\ seen' \subseteq AllEntries /\ asked' \subseteq Ids
      /\ at' # NoEntry => at' \in Entries(d_on_index)'
      /\ ~ d_end' => at' # NoEntry
  BY <1>1, <1>2, <1>3, <1>4, <1>5, <1>6
<1>12. shown' \subseteq Keys
  BY <1>1, <1>3, <1>4, <1>5, ShownIsKey
<1>8. {d_on_index, d_one_key, d_end, gone, torn, threw}' \subseteq BOOLEAN
  BY <1>1, <1>2, <1>3, BooleanTypes DEF BaseInv
<1>9. TypeOK'
  BY <1>1, <1>2, <1>3, <1>7, <1>8, <1>12 DEF BaseInv, TypeOK, CallNames
<1>10. torn' = torn /\ (~ torn => ~ throws)
  BY <1>1, <1>2, <1>4, NoneMissing
<1>11. NoMissingId'
  BY <1>3, <1>10 DEF NoMissingId
<1> QED
  BY <1>2, <1>9, <1>11 DEF BaseInv, IndexWhole, Present

\* Where GenOperator finds an entry, it is one of the database, which may have
\* been put while the cursor had no place.
Stops(w, D, P) ==
  {e \in Reachable(w, D) : ~WithPrefix(e) \/ (d_on_index /\ Missing(e)) \/ e \in P}

MovesBy(w, D, P) ==
  LET stops == Stops(w, D, P)
      e == Nearest(w, stops)
  IN  /\ stops \subseteq Entries(d_on_index)
      /\ stops # {} => e \in stops /\ \A f \in stops : f = e \/ Toward(w, e, f)
      /\ \/ /\ stops = {} \/ ~ WithPrefix(e)
            /\ d_end' = TRUE /\ UNCHANGED <<at, gone, drift, seen, shown, threw>>
         \/ /\ stops # {} /\ WithPrefix(e)
            /\ at' = e /\ gone' = FALSE /\ drift' = {} /\ d_end' = d_end
            /\ \/ /\ d_on_index /\ Missing(e) /\ threw' = TRUE
                  /\ seen' = seen /\ shown' = shown
               \/ /\ ~ (d_on_index /\ Missing(e)) /\ e \in P /\ threw' = threw
                  /\ seen' = seen \cup {e} /\ shown' = shown \cup ShownBy(d_on_index, e)

LEMMA MoveFacts ==
  ASSUME BaseInv, NEW w \in {"++", "--"}, GenOperator(w)
  PROVE  \E D \in SUBSET drift, P \in Accepted : MovesBy(w, D, P)
<1>1. PICK D \in SUBSET drift, P \in Accepted :
        LET stops == Stops(w, D, P)
            e == IF w = "++" THEN First(stops) ELSE Last(stops)
        IN  IF stops = {} \/ ~WithPrefix(e)
            THEN d_end' = TRUE /\ UNCHANGED <<at, gone, drift, seen, shown, threw>>
            ELSE /\ at' = e /\ gone' = FALSE /\ drift' = {}
                 /\ IF d_on_index /\ Missing(e)
                    THEN threw' = TRUE /\ UNCHANGED <<seen, shown>>
                    ELSE /\ seen' = seen \cup {e}
                         /\ shown' = shown \cup ShownBy(d_on_index, e)
                         /\ UNCHANGED threw
                 /\ UNCHANGED d_end
  BY DEF GenOperator, Stops
<1> DEFINE stops == Stops(w, D, P)
           e == Nearest(w, stops)
<1>2. d_on_index \in BOOLEAN /\ drift \subseteq Entries(d_on_index)
  BY BooleanTypes DEF BaseInv, TypeOK
<1>3. stops \subseteq Entries(d_on_index)
  BY <1>2 DEF Stops, Reachable
<1>4. \A f \in stops : ~ WithPrefix(f) \/ (d_on_index /\ Missing(f)) \/ f \in P
  BY DEF Stops
<1> HIDE DEF stops
<1>5. stops # {} => e \in stops /\ \A f \in stops : f = e \/ Toward(w, e, f)
  BY <1>2, <1>3, NearestEntry
<1>6. IF stops = {} \/ ~WithPrefix(e)
      THEN d_end' = TRUE /\ UNCHANGED <<at, gone, drift, seen, shown, threw>>
      ELSE /\ at' = e /\ gone' = FALSE /\ drift' = {}
           /\ IF d_on_index /\ Missing(e)
              THEN threw' = TRUE /\ UNCHANGED <<seen, shown>>
              ELSE /\ seen' = seen \cup {e}
                   /\ shown' = shown \cup ShownBy(d_on_index, e)
                   /\ UNCHANGED threw
           /\ UNCHANGED d_end
  BY <1>1 DEF Nearest, stops
<1> HIDE DEF e
<1>7. \/ /\ stops = {} \/ ~ WithPrefix(e)
         /\ d_end' = TRUE /\ UNCHANGED <<at, gone, drift, seen, shown, threw>>
      \/ /\ stops # {} /\ WithPrefix(e)
         /\ at' = e /\ gone' = FALSE /\ drift' = {} /\ d_end' = d_end
         /\ \/ /\ d_on_index /\ Missing(e) /\ threw' = TRUE
               /\ seen' = seen /\ shown' = shown
            \/ /\ ~ (d_on_index /\ Missing(e)) /\ e \in P /\ threw' = threw
               /\ seen' = seen \cup {e} /\ shown' = shown \cup ShownBy(d_on_index, e)
  BY <1>4, <1>5, <1>6
<1> QED
  BY <1>3, <1>5, <1>7 DEF MovesBy, stops, e

LEMMA MoveBase ==
  ASSUME BaseInv, NEW w \in {"++", "--"}, GenOperator(w)
  PROVE  BaseInv'
<1>1. PICK D \in SUBSET drift, P \in Accepted : MovesBy(w, D, P)
  BY MoveFacts
<1> DEFINE e == Nearest(w, Stops(w, D, P))
<1>2. /\ ~ d_end /\ ways' = ways \cup {w}
      /\ UNCHANGED <<rows, idx, writes, torn, call, arg, filter, d_on_index, d_one_key,
                     d_prefix, asked, touched>>
  BY DEF GenOperator, storeVars, fixedVars
<1>3. Entries(d_on_index)' = Entries(d_on_index)
  BY <1>2 DEF Entries, Present
<1>4. /\ d_on_index \in BOOLEAN /\ d_one_key \in BOOLEAN /\ d_end \in BOOLEAN
      /\ gone \in BOOLEAN /\ torn \in BOOLEAN /\ threw \in BOOLEAN
  BY BooleanTypes DEF BaseInv
<1>5. \/ d_end' = TRUE /\ UNCHANGED <<at, gone, drift, seen, shown, threw>>
      \/ /\ e \in Entries(d_on_index) /\ at' = e /\ gone' = FALSE /\ drift' = {} /\ d_end' = d_end
         /\ \/ Missing(e) /\ threw' = TRUE /\ seen' = seen /\ shown' = shown
            \/ /\ ~ (d_on_index /\ Missing(e)) /\ threw' = threw
               /\ seen' = seen \cup {e} /\ shown' = shown \cup ShownBy(d_on_index, e)
  BY <1>1 DEF MovesBy
<1> HIDE DEF e
<1>6. /\ \A f \in Entries(d_on_index) : f \in AllEntries /\ f # NoEntry
      /\ ~ torn => \A f \in Entries(d_on_index) : ~ Missing(f)
  BY <1>4, EntriesFinite, AllInUniverse, NoneMissing
<1>7. {d_on_index, d_one_key, d_end, gone, torn, threw}' \subseteq BOOLEAN
  BY <1>2, <1>4, <1>5
<1>10. shown' \subseteq Keys
  <2>1. shown \subseteq Keys
    BY DEF BaseInv, TypeOK
  <2>2. \A f \in Entries(d_on_index) : d_on_index /\ ~ Missing(f) => ShownBy(d_on_index, f) \subseteq Keys
    BY <1>4, ShownIsKey
  <2>3. ~ d_on_index => ShownBy(d_on_index, e) = {}
    BY DEF ShownBy
  <2> QED
    BY <1>5, <2>1, <2>2, <2>3
<1>8. TypeOK'
  BY <1>2, <1>3, <1>5, <1>6, <1>7, <1>10 DEF BaseInv, TypeOK
<1>9. NoMissingId'
  BY <1>2, <1>5, <1>6 DEF BaseInv, NoMissingId
<1> QED
  BY <1>2, <1>8, <1>9 DEF BaseInv, IndexWhole, Present

LEMMA WroteBase ==
  ASSUME BaseInv, NEW i, Writes(i)
  PROVE  BaseInv'
<1> PICK O, N : Wrote(i, O, N)
  BY DEF Writes
<1>1. /\ i \in Ids /\ ~ d_end /\ writes < MaxWrites /\ writes' = writes + 1
      /\ touched' = (IF \E e \in seen : e[2] = i THEN touched ELSE touched \cup {i})
      /\ gone' = (gone \/ at \in O)
      /\ drift' = (IF gone' THEN (drift \ O) \cup N ELSE {})
      /\ UNCHANGED <<call, arg, filter, d_on_index, d_one_key, d_prefix, asked, at, d_end, seen,
                     shown, ways, threw>>
  BY DEF Wrote, Noted, fixedVars
<1>2. /\ N \subseteq Entries(d_on_index)'
      /\ \A e \in Entries(d_on_index) : e \in O \/ e \in Entries(d_on_index)'
  BY DEF Wrote
<1>3. /\ d_on_index \in BOOLEAN /\ d_one_key \in BOOLEAN /\ d_end \in BOOLEAN
      /\ gone \in BOOLEAN /\ torn \in BOOLEAN /\ threw \in BOOLEAN
  BY BooleanTypes DEF BaseInv
<1>4. drift \subseteq Entries(d_on_index)
  BY DEF BaseInv, TypeOK
<1>5. drift' \subseteq Entries(d_on_index)' /\ (drift' # {} => gone')
  BY <1>1, <1>2, <1>4
<1>6. at' # NoEntry /\ ~ gone' => at' \in Entries(d_on_index)'
  BY <1>1, <1>2 DEF BaseInv, TypeOK
<1>7. gone' \in BOOLEAN /\ torn' \in BOOLEAN
  BY <1>1, <1>3 DEF Writes
<1>8. {d_on_index, d_one_key, d_end, gone, torn, threw}' \subseteq BOOLEAN
  BY <1>1, <1>3, <1>7
<1>9. writes' \in 0..MaxWrites /\ touched' \subseteq Ids
  BY <1>1, ConstantsAssumption DEF BaseInv, TypeOK
<1>10. TypeOK'
  BY <1>1, <1>5, <1>6, <1>8, <1>9 DEF BaseInv, TypeOK, Writes
<1>11. NoMissingId'
  BY <1>1, <1>3 DEF BaseInv, NoMissingId, Writes
<1> QED
  BY <1>10, <1>11 DEF BaseInv, Writes

LEMMA NextBase ==
  ASSUME BaseInv, [Next]_vars
  PROVE  BaseInv'
<1>1. CASE \/ Begin \/ RBegin \/ MainBegin
           \/ \E k \in Args : Find(k) \/ LowerBound(k) \/ EqualRange(k) \/ PrefixRange(k)
  BY <1>1, MakingStarts, StartBase
<1>2. CASE GenOperator("++") \/ GenOperator("--")
  BY <1>2, MoveBase
<1>3. CASE \/ \E i \in Ids : Del(i) \/ \E k \in Keys : Put(i, k) \/ Modify(i, k)
           \/ IterDel
  BY <1>3, WritingWrites, WroteBase
<1>4. CASE UNCHANGED vars
  BY <1>4 DEF vars, storeVars, fixedVars, placeVars, BaseInv, TypeOK, IndexWhole, NoMissingId,
              Entries, Present
<1> QED
  BY <1>1, <1>2, <1>3, <1>4 DEF Next

\* The invariant the others build on.
THEOREM BaseInvariant == Spec => []BaseInv
<1>1. BaseInv /\ [Next]_vars => BaseInv'
  BY NextBase
<1> QED
  BY InitBase, <1>1, PTL DEF Spec

\* Types; an iterator that is not at its end is on an entry, or where one was.
THEOREM TypeCorrect == Spec => []TypeOK
<1>1. BaseInv => TypeOK
  BY DEF BaseInv
<1> QED
  BY <1>1, BaseInvariant, PTL

\* "Missing id" comes only where an iterator's own del() was used, or a put gave
\* an id that was taken another key: not of del, modify, and puts of new ids, in
\* whatever order, under an iterator.
THEOREM MissingIdExplained == Spec => []NoMissingId
<1>1. BaseInv => NoMissingId
  BY DEF BaseInv
<1> QED
  BY <1>1, BaseInvariant, PTL

---------------------------------------------------------------------------
(* Ranges: an iterator stays in its key or prefix. *)

\* What the call made of the iterator stays, and it is on what it showed last.
Scope ==
  /\ d_one_key <=> call = "equal_range"
  /\ d_prefix = IF call = "prefix_range" THEN arg ELSE << >>
  /\ call = "prefix_range" => arg \in Keys
  /\ call = "equal_range" /\ at # NoEntry => at[1] = arg
  /\ ~ d_end /\ ~ threw => at \in seen
  /\ torn \/ shown \subseteq {e[1] : e \in seen}

ScopeInv == Scope /\ InRange

LEMMA InitScope == Init => ScopeInv
BY DEF Init, ScopeInv, Scope, InRange

LEMMA EmptyPrefix ==
  ASSUME NEW k \in Strings
  PROVE  IsPrefixOf(<< >>, k)
<1>1. << >> \in Strings /\ Len(<< >>) = 0 /\ Len(k) \in Nat
  BY DEF Strings
<1> QED
  BY <1>1, PrefixByByte

\* An iterator made for a prefix that some object has starts on the prefix.
LEMMA StartsInPrefix ==
  ASSUME BaseInv, NEW k, NEW b, NEW S, NEW W, Starts("prefix_range", k, b, S, W), W # {}
  PROVE  IsPrefixOf(k, Nearest("++", S)[1])
<1> DEFINE e == Nearest("++", S)
<1>1. /\ b \in BOOLEAN /\ S \in SUBSET Entries(b) /\ k \in Keys
      /\ W = {f \in S : IsPrefixOf(k, f[1])} /\ \A f \in S : ~ Less(f[1], k)
  BY DEF Starts
<1>2. PICK f \in S : IsPrefixOf(k, f[1])
  BY <1>1
<1>3. e \in S /\ (f = e \/ Before(e, f))
  BY <1>1, <1>2, NearestEntry DEF Toward
<1> HIDE DEF e
<1>4. e[1] \in Strings /\ f[1] \in Strings /\ k \in Strings
  BY <1>1, <1>3, EntriesFinite, AllInUniverse
<1>5. e[1] = f[1] \/ Less(e[1], f[1])
  BY <1>3 DEF Before
<1> QED
  BY <1>1, <1>2, <1>3, <1>4, <1>5, PrefixBetween DEF e

LEMMA StartScope ==
  ASSUME BaseInv, NEW c, NEW k, NEW b, NEW S, NEW W, Starts(c, k, b, S, W)
  PROVE  ScopeInv'
<1> DEFINE e == Nearest(WayOf(c), S)
           none == S = {} \/ (S # {} /\ Missing(e))
<1>1. /\ b \in BOOLEAN /\ S \in SUBSET Entries(b) /\ W \subseteq S
      /\ call' = c /\ arg' = k /\ asked' = {f[2] : f \in W}
      /\ at' = (IF none THEN NoEntry ELSE e) /\ d_end' = none
      /\ seen' = (IF none THEN {} ELSE {e}) /\ torn' = torn
      /\ shown' = (IF none THEN {} ELSE ShownBy(b, e))
      /\ d_one_key' = (c = "equal_range")
      /\ d_prefix' = IF c = "prefix_range" THEN k ELSE << >>
  BY DEF Starts, Makes, PutOn, storeVars
<1>2. S # {} => e \in S
  BY <1>1, NearestEntry
<1>3. /\ c = "equal_range" => \A f \in S : f[1] = k
      /\ c = "prefix_range" => k \in Keys
  BY DEF Starts
<1>4. c = "prefix_range" /\ asked' # {} => IsPrefixOf(k, e[1])
  BY <1>1, StartsInPrefix DEF WayOf
<1> HIDE DEF e
<1>7. torn' \/ shown' \subseteq {f[1] : f \in seen'}
  BY <1>1, <1>2, ShownIsKey
<1>5. Scope'
  BY <1>1, <1>2, <1>3, <1>7 DEF Scope
<1>6. InRange'
  BY <1>1, <1>2, <1>3, <1>4, <1>7 DEF InRange
<1> QED
  BY <1>5, <1>6 DEF ScopeInv

LEMMA MoveScope ==
  ASSUME BaseInv, ScopeInv, NEW w \in {"++", "--"}, GenOperator(w)
  PROVE  ScopeInv'
<1>1. PICK D \in SUBSET drift, P \in Accepted : MovesBy(w, D, P)
  BY MoveFacts
<1> DEFINE e == Nearest(w, Stops(w, D, P))
<1>2. ~ d_end /\ UNCHANGED <<call, arg, d_one_key, d_prefix, asked, torn>>
  BY DEF GenOperator, fixedVars, storeVars
<1>3. at # NoEntry
  BY <1>2 DEF BaseInv, TypeOK
<1>4. \/ d_end' = TRUE /\ UNCHANGED <<at, seen, shown, threw>>
      \/ /\ WithPrefix(e) /\ (d_one_key => e[1] = at[1]) /\ at' = e
         /\ \/ seen' = seen /\ shown' = shown /\ threw' = TRUE
            \/ /\ seen' = seen \cup {e} /\ shown' = shown \cup ShownBy(d_on_index, e)
               /\ threw' = threw /\ (torn \/ ShownBy(d_on_index, e) \subseteq {e[1]})
  <2>1. \A f \in Stops(w, D, P) : d_one_key => f[1] = at[1]
    BY DEF Stops, Reachable
  <2>2. \/ d_end' = TRUE /\ UNCHANGED <<at, seen, shown, threw>>
        \/ /\ e \in Stops(w, D, P) /\ e \in Entries(d_on_index) /\ WithPrefix(e) /\ at' = e
           /\ \/ seen' = seen /\ shown' = shown /\ threw' = TRUE
              \/ /\ seen' = seen \cup {e} /\ shown' = shown \cup ShownBy(d_on_index, e)
                 /\ threw' = threw /\ ~ (d_on_index /\ Missing(e))
    BY <1>1 DEF MovesBy
  <2> HIDE DEF e
  <2>3. ASSUME e \in Entries(d_on_index), ~ (d_on_index /\ Missing(e))
        PROVE  torn \/ ShownBy(d_on_index, e) \subseteq {e[1]}
    <3>1. CASE d_on_index
      BY <2>3, <3>1, ShownIsKey, BooleanTypes DEF BaseInv
    <3>2. CASE ~ d_on_index
      BY <3>2 DEF ShownBy
    <3> QED
      BY <3>1, <3>2
  <2> QED
    BY <2>1, <2>2, <2>3
<1> HIDE DEF e
<1>7. torn' \/ shown' \subseteq {f[1] : f \in seen'}
  BY <1>2, <1>4 DEF ScopeInv, Scope
<1>5. Scope'
  BY <1>2, <1>3, <1>4, <1>7 DEF ScopeInv, Scope
<1>8. /\ call = "equal_range" => \A f \in seen' : f[1] = arg
      /\ call = "prefix_range" /\ asked # {} => \A f \in seen' : IsPrefixOf(arg, f[1])
  BY <1>2, <1>3, <1>4 DEF ScopeInv, Scope, InRange, WithPrefix
<1>6. InRange'
  BY <1>2, <1>7, <1>8 DEF InRange
<1> QED
  BY <1>5, <1>6 DEF ScopeInv

LEMMA WroteScope ==
  ASSUME BaseInv, ScopeInv, NEW i, Writes(i)
  PROVE  ScopeInv'
<1>1. UNCHANGED <<call, arg, asked, d_one_key, d_prefix, at, d_end, seen, shown, threw>>
  BY DEF Writes, Wrote, Noted, fixedVars
<1>2. torn => torn'
  BY DEF Writes
<1> QED
  BY <1>1, <1>2 DEF ScopeInv, Scope, InRange

LEMMA NextScope ==
  ASSUME BaseInv, ScopeInv, [Next]_vars
  PROVE  ScopeInv'
<1>1. CASE \/ Begin \/ RBegin \/ MainBegin
           \/ \E k \in Args : Find(k) \/ LowerBound(k) \/ EqualRange(k) \/ PrefixRange(k)
  BY <1>1, MakingStarts, StartScope
<1>2. CASE GenOperator("++") \/ GenOperator("--")
  BY <1>2, MoveScope
<1>3. CASE \/ \E i \in Ids : Del(i) \/ \E k \in Keys : Put(i, k) \/ Modify(i, k)
           \/ IterDel
  BY <1>3, WritingWrites, WroteScope
<1>4. CASE UNCHANGED vars
  BY <1>4 DEF vars, storeVars, fixedVars, placeVars, ScopeInv, Scope, InRange
<1> QED
  BY <1>1, <1>2, <1>3, <1>4 DEF Next

THEOREM ScopeInvariant == Spec => []ScopeInv
<1>1. BaseInv /\ ScopeInv /\ [Next]_vars => ScopeInv'
  BY NextScope
<1> QED
  BY InitScope, <1>1, BaseInvariant, PTL DEF Spec

\* However the program mixes ++, -- and writes, an equal range comes to no entry
\* of another key, and a prefix range to none without the prefix, if any had it;
\* nor do they show such an object, unless the index was torn.
THEOREM StaysInRange == Spec => []InRange
<1>1. ScopeInv => InRange
  BY DEF ScopeInv
<1> QED
  BY <1>1, ScopeInvariant, PTL

---------------------------------------------------------------------------
(* Loops: what was asked for lies ahead, until it has been shown. *)

Way == WayOf(call)

Ahead(e) == Toward(Way, at, e) /\ (d_one_key => e[1] = at[1]) /\ WithPrefix(e)

\* The loops that RangeExact speaks of, while they run.
Tracked == asked # {} /\ (filter = Ids \/ d_on_index) /\ ~ threw /\ ways \subseteq {Way}

\* An object that is asked for, and was not written, has been shown, or an entry
\* that lies ahead leads to it.
ToCome ==
  Tracked => \A i \in (asked \cap filter) \ touched :
    \/ i \in Seen
    \/ ~ d_end /\ \E e \in Entries(d_on_index) \ drift : e[2] = i /\ Ahead(e)

\* Nothing lies ahead but what is asked for, or was written since.
NothingElse ==
  Tracked /\ ~ d_end =>
    \A e \in Entries(d_on_index) : Ahead(e) => e[2] \in asked \cup touched \cup Seen

\* The cursor can only be led astray by objects that were written.
DriftWritten == \A e \in drift : e[2] \in touched \cup Seen

ShownExact ==
  Tracked => \E i \in Seen : Seen \subseteq {i} \cup (asked \cap filter) \cup touched

ScanInv == ToCome /\ NothingElse /\ DriftWritten /\ ShownExact

LEMMA InitScan == Init => ScanInv
BY DEF Init, ScanInv, ToCome, NothingElse, DriftWritten, ShownExact, Tracked

LEMMA StartScan ==
  ASSUME BaseInv, NEW c, NEW k, NEW b, NEW S, NEW W, Starts(c, k, b, S, W)
  PROVE  ScanInv'
<1> DEFINE e == Nearest(WayOf(c), S)
           none == S = {} \/ (S # {} /\ Missing(e))
<1>1. /\ b \in BOOLEAN /\ S \in SUBSET Entries(b) /\ W \subseteq S
      /\ W = CASE c = "find" -> {}
               [] c = "prefix_range" -> {f \in S : IsPrefixOf(k, f[1])}
               [] OTHER -> S
      /\ c = "equal_range" => \A f \in S : f[1] = k
      /\ c # "find" => \A g \in S, f \in Entries(b) :
           Toward(WayOf(c), g, f) /\ (c = "equal_range" => f[1] = g[1]) => f \in S
      /\ UNCHANGED <<rows, idx>> /\ Way' = WayOf(c)
      /\ call' = c /\ asked' = {f[2] : f \in W} /\ drift' = {} /\ touched' = {}
      /\ at' = (IF none THEN NoEntry ELSE e) /\ d_end' = none
      /\ seen' = (IF none THEN {} ELSE {e}) /\ threw' = (S # {} /\ Missing(e))
      /\ d_on_index' = b /\ d_one_key' = (c = "equal_range")
      /\ d_prefix' = IF c = "prefix_range" THEN k ELSE << >>
  BY DEF Starts, Makes, PutOn, storeVars, Way
<1>2. S # {} => e \in S /\ \A f \in S : f = e \/ Toward(WayOf(c), e, f)
  BY <1>1, NearestEntry
<1> HIDE DEF e
<1>3. Entries(d_on_index)' = Entries(b) /\ Seen' = {f[2] : f \in seen'}
  BY <1>1 DEF Entries, Present, Seen
<1>4. DriftWritten'
  BY <1>1 DEF DriftWritten
<1>5. SUFFICES ASSUME Tracked'
               PROVE  ToCome' /\ NothingElse' /\ ShownExact'
  BY <1>4 DEF ScanInv, ToCome, NothingElse, ShownExact
<1>6. c # "find" /\ W # {} /\ S # {} /\ ~ none
  BY <1>1, <1>5 DEF Tracked
<1>7. /\ at' = e /\ ~ d_end' /\ Seen' = {e[2]} /\ e \in S
      /\ \A f \in S : f = e \/ Toward(WayOf(c), e, f)
  BY <1>1, <1>2, <1>3, <1>6
<1>8. ASSUME NEW f \in Entries(b)
      PROVE  WithPrefix(f)' <=> (c = "prefix_range" => IsPrefixOf(k, f[1]))
  <2>1. f[1] \in Strings
    BY <1>1, EntriesFinite, AllInUniverse
  <2> QED
    BY <1>1, <2>1, EmptyPrefix DEF WithPrefix
<1>9. ASSUME NEW f \in Entries(b)
      PROVE  Ahead(f)' <=> /\ Toward(WayOf(c), e, f)
                           /\ c = "equal_range" => f[1] = e[1]
                           /\ c = "prefix_range" => IsPrefixOf(k, f[1])
  BY <1>1, <1>7, <1>8 DEF Ahead, Toward
<1>10. ASSUME NEW i \in asked', i \notin Seen'
       PROVE  \E f \in Entries(b) : f[2] = i /\ Ahead(f)'
  <2>1. PICK f \in W : f[2] = i
    BY <1>1
  <2>2. f \in S /\ f # e /\ Toward(WayOf(c), e, f) /\ f \in Entries(b)
    BY <1>1, <1>7, <1>10, <2>1
  <2>3. c = "equal_range" => f[1] = e[1]
    BY <1>1, <1>7, <2>2
  <2>4. c = "prefix_range" => IsPrefixOf(k, f[1])
    BY <1>1, <2>1
  <2> QED
    BY <1>9, <2>1, <2>2, <2>3, <2>4
<1>11. ToCome'
  <2>1. Entries(d_on_index)' \ drift' = Entries(b)
    BY <1>1, <1>3
  <2>2. \A i \in asked' : \/ i \in Seen'
                          \/ \E f \in Entries(d_on_index)' \ drift' : f[2] = i /\ Ahead(f)'
    BY <1>10, <2>1
  <2> QED
    BY <1>7, <2>2 DEF ToCome
<1>12. NothingElse'
  <2> SUFFICES ASSUME NEW f \in Entries(b), Ahead(f)'
               PROVE  f[2] \in asked'
    BY <1>3 DEF NothingElse
  <2>1. f \in S
    BY <1>1, <1>6, <1>7, <1>9
  <2>2. f \in W
    BY <1>1, <1>6, <1>9, <2>1
  <2> QED
    BY <1>1, <2>2
<1>13. ShownExact'
  BY <1>7 DEF ShownExact
<1> QED
  BY <1>11, <1>12, <1>13

\* A step onto the nearest stop passes over nothing that is asked for.
LEMMA WantedIsStop ==
  ASSUME BaseInv, Tracked, NEW D, NEW P \in Accepted,
         NEW f \in Entries(d_on_index) \ drift, f[2] \in filter, Ahead(f)
  PROVE  f \in Stops(Way, D, P)
<1>1. Onward(Way, f) /\ (d_one_key => f[1] = at[1])
  BY DEF Ahead, Onward, Toward
<1>2. f \in Reachable(Way, D)
  BY <1>1 DEF Reachable
<1>3. f \in P
  BY DEF Accepted, Tracked
<1> QED
  BY <1>2, <1>3 DEF Stops

\* What lies between the cursor and an entry of the range is in the range.
LEMMA BetweenHasPrefix ==
  ASSUME BaseInv, ScopeInv, Tracked, ~ d_end,
         NEW e \in Entries(d_on_index), NEW f \in Entries(d_on_index),
         WithPrefix(f), Toward(Way, at, e), e = f \/ Toward(Way, e, f)
  PROVE  WithPrefix(e)
<1>1. at \in AllEntries /\ e \in AllEntries /\ f \in AllEntries
  BY EntriesFinite, BooleanTypes DEF BaseInv, TypeOK, ScopeInv, Scope, Tracked
<1>2. at[1] \in Strings /\ e[1] \in Strings /\ f[1] \in Strings /\ Keys \subseteq Strings
  BY <1>1, AllInUniverse
<1>3. CASE call # "prefix_range"
  BY <1>2, <1>3, EmptyPrefix DEF ScopeInv, Scope, WithPrefix
<1>4. CASE call = "prefix_range"
  <2>1. Before(at, e) /\ (e = f \/ Before(e, f)) /\ d_prefix = arg /\ arg \in Strings
    BY <1>2, <1>4 DEF Way, WayOf, Toward, ScopeInv, Scope
  <2>2. IsPrefixOf(arg, at[1])
    BY <1>4 DEF ScopeInv, Scope, InRange, Tracked
  <2>3. arg = at[1] \/ Less(arg, at[1])
    BY <2>2 DEF Less
  <2>4. ~ Less(e[1], arg)
    BY <1>2, <2>1, <2>3, LessTransitive, LessIrreflexive DEF Before
  <2>5. e[1] = f[1] \/ Less(e[1], f[1])
    BY <2>1 DEF Before
  <2> QED
    BY <1>2, <2>1, <2>4, <2>5, PrefixBetween DEF WithPrefix
<1> QED
  BY <1>3, <1>4

LEMMA MoveScan ==
  ASSUME BaseInv, ScopeInv, ScanInv, NEW w \in {"++", "--"}, GenOperator(w)
  PROVE  ScanInv'
<1>1. PICK D \in SUBSET drift, P \in Accepted : MovesBy(w, D, P)
  BY MoveFacts
<1> DEFINE S == Stops(w, D, P)
           e == Nearest(w, S)
           E == Entries(d_on_index)
<1>2. /\ ~ d_end /\ ways' = ways \cup {w} /\ E' = E /\ Way' = Way
      /\ UNCHANGED <<call, filter, d_on_index, d_one_key, d_prefix, asked, touched>>
  BY DEF GenOperator, storeVars, fixedVars, Entries, Present, Way
<1>3. /\ S \subseteq E /\ drift \subseteq E /\ E \subseteq Universe
      /\ S # {} => e \in S /\ \A f \in S : f = e \/ Toward(w, e, f)
  BY <1>1, EntriesFinite, AllInUniverse, BooleanTypes DEF MovesBy, BaseInv, TypeOK
<1>4. \/ /\ S = {} \/ ~ WithPrefix(e)
         /\ d_end' = TRUE /\ UNCHANGED <<at, gone, drift, seen, shown, threw>>
      \/ /\ S # {} /\ WithPrefix(e) /\ at' = e /\ drift' = {} /\ d_end' = d_end
         /\ \/ threw' = TRUE /\ seen' = seen
            \/ e \in P /\ seen' = seen \cup {e} /\ threw' = threw
  BY <1>1 DEF MovesBy
<1>5. \A f \in S : /\ f \in (E \ drift) \cup D
                   /\ Toward(w, at, f) \/ E \ drift = {}
                   /\ d_one_key => f[1] = at[1]
  BY DEF Stops, Reachable, Onward, Toward
<1>6. DriftWritten'
  BY <1>2, <1>4 DEF ScanInv, DriftWritten, Seen
<1> HIDE DEF S, e, E
<1>7. SUFFICES ASSUME Tracked'
               PROVE  ToCome' /\ NothingElse' /\ ShownExact'
  BY <1>6 DEF ScanInv, ToCome, NothingElse, ShownExact
<1>8. Tracked /\ w = Way /\ ~ threw'
  BY <1>2, <1>4, <1>7 DEF Tracked
<1>9. ASSUME NEW f \in E \ drift, f[2] \in filter, Ahead(f)
      PROVE  S # {} /\ WithPrefix(e) /\ (f = e \/ Toward(w, e, f))
  <2>1. f \in S
    BY <1>1, <1>8, <1>9, WantedIsStop DEF S, E
  <2>2. S # {} /\ e \in S /\ (f = e \/ Toward(w, e, f))
    BY <1>3, <2>1
  <2>3. Toward(w, at, e) /\ WithPrefix(f)
    BY <1>5, <1>9, <2>2 DEF Ahead
  <2>4. WithPrefix(e)
    BY <1>2, <1>3, <1>8, <1>9, <2>2, <2>3, BetweenHasPrefix DEF E
  <2> QED
    BY <2>2, <2>4
<1>10. CASE d_end' = TRUE /\ UNCHANGED <<at, drift, seen>> /\ (S = {} \/ ~ WithPrefix(e))
  <2>1. Seen' = Seen
    BY <1>10 DEF Seen
  <2>2. ToCome'
    <3> SUFFICES ASSUME NEW i \in (asked \cap filter) \ touched, i \notin Seen
                 PROVE  FALSE
      BY <1>2, <2>1 DEF ToCome
    <3>1. PICK f \in E \ drift : f[2] = i /\ Ahead(f)
      BY <1>8 DEF ScanInv, ToCome, E
    <3> QED
      BY <1>9, <1>10, <3>1
  <2>3. NothingElse'
    BY <1>10 DEF NothingElse
  <2>4. ShownExact'
    BY <1>2, <1>8, <2>1 DEF ScanInv, ShownExact
  <2> QED
    BY <2>2, <2>3, <2>4
<1>11. CASE /\ S # {} /\ WithPrefix(e) /\ at' = e /\ drift' = {} /\ d_end' = d_end
            /\ e \in P /\ seen' = seen \cup {e}
  <2>1. Seen' = Seen \cup {e[2]}
    BY <1>11 DEF Seen
  <2>2. e \in S /\ e \in E /\ e \in Universe /\ (d_one_key => e[1] = at[1])
    BY <1>3, <1>5, <1>11
  <2>3. \A f : Ahead(f)' <=> Toward(w, e, f) /\ (d_one_key => f[1] = e[1]) /\ WithPrefix(f)
    BY <1>2, <1>8, <1>11 DEF Ahead, Toward, WithPrefix
  <2>4. ToCome'
    <3> SUFFICES ASSUME NEW i \in (asked \cap filter) \ touched, i \notin Seen'
                 PROVE  \E f \in E : f[2] = i /\ Ahead(f)'
      BY <1>2, <1>11 DEF ToCome, E
    <3>1. PICK f \in E \ drift : f[2] = i /\ Ahead(f)
      BY <1>8, <2>1 DEF ScanInv, ToCome, E
    <3>2. Toward(w, e, f)
      BY <1>9, <2>1, <3>1
    <3>3. Ahead(f)'
      BY <2>2, <2>3, <3>1, <3>2 DEF Ahead
    <3> QED
      BY <3>1, <3>3
  <2>5. \A f \in E : E \ drift = {} \/ Ahead(f) => f[2] \in asked \cup touched \cup Seen
    BY <1>2, <1>3, <1>8 DEF ScanInv, NothingElse, DriftWritten, E
  <2>6. at \in Universe
    <3>1. at \in seen
      BY <1>2, <1>8 DEF ScopeInv, Scope, Tracked
    <3>2. seen \subseteq AllEntries
      BY DEF BaseInv, TypeOK
    <3> QED
      BY <3>1, <3>2, AllInUniverse
  <2>7. NothingElse'
    <3> SUFFICES ASSUME NEW f \in E, Ahead(f)'
                 PROVE  f[2] \in asked \cup touched \cup Seen
      BY <1>2, <2>1 DEF NothingElse, E
    <3>1. CASE E \ drift = {}
      BY <2>5, <3>1
    <3>2. CASE E \ drift # {}
      <4>1. Toward(w, at, e) /\ Toward(w, e, f)
        BY <1>5, <2>2, <2>3, <3>2
      <4>2. Toward(w, at, f)
        BY <1>3, <2>2, <2>6, <4>1, BeforeOrder DEF Toward
      <4>3. Ahead(f)
        BY <1>8, <2>2, <2>3, <4>2 DEF Ahead
      <4> QED
        BY <2>5, <4>3
    <3> QED
      BY <3>1, <3>2
  <2>8. e[2] \in filter
    BY <1>8, <1>11 DEF Accepted, Tracked
  <2>9. e[2] \in asked \cup touched \cup Seen
    <3>1. CASE e \in drift
      BY <3>1 DEF ScanInv, DriftWritten
    <3>2. CASE e \notin drift
      <4>1. Toward(w, at, e)
        BY <1>5, <2>2, <3>2
      <4>2. Ahead(e)
        BY <1>8, <1>11, <2>2, <4>1 DEF Ahead
      <4> QED
        BY <2>2, <2>5, <4>2
    <3> QED
      BY <3>1, <3>2
  <2>10. ShownExact'
    <3>1. PICK i \in Seen : Seen \subseteq {i} \cup (asked \cap filter) \cup touched
      BY <1>8 DEF ScanInv, ShownExact
    <3>2. Seen' \subseteq {i} \cup (asked \cap filter) \cup touched
      BY <2>1, <2>8, <2>9, <3>1
    <3> QED
      BY <1>2, <2>1, <3>1, <3>2 DEF ShownExact
  <2> QED
    BY <2>4, <2>7, <2>10
<1> QED
  BY <1>4, <1>8, <1>10, <1>11

\* A write can only spoil what concerns the object it writes, and that one is
\* shown already, or touched from now on.
LEMMA WroteScan ==
  ASSUME BaseInv, BaseInv', ScanInv, NEW i, Writes(i)
  PROVE  ScanInv'
<1> PICK O, N : Wrote(i, O, N)
  BY DEF Writes
<1> DEFINE E == Entries(d_on_index)
<1>1. /\ ~ d_end
      /\ touched' = (IF \E e \in seen : e[2] = i THEN touched ELSE touched \cup {i})
      /\ drift' = (IF gone' THEN (drift \ O) \cup N ELSE {})
      /\ UNCHANGED <<call, filter, d_on_index, d_one_key, d_prefix, asked, at, d_end, seen,
                     ways, threw>>
      /\ \A e \in O \cup N : e[2] = i
      /\ \A e \in AllEntries : e[2] # i => (e \in E' <=> e \in E)
  BY DEF Wrote, Noted, fixedVars
<1>2. Way' = Way /\ Seen' = Seen /\ (Tracked' <=> Tracked)
  BY <1>1 DEF Way, Seen, Tracked
<1>3. \A f : Ahead(f)' <=> Ahead(f)
  BY <1>1, <1>2 DEF Ahead, Toward, WithPrefix
<1>4. (i \in Seen \/ i \in touched') /\ touched \subseteq touched'
  BY <1>1 DEF Seen
<1>5. \A e \in drift' : e[2] = i \/ e \in drift
  BY <1>1
<1>6. E \subseteq AllEntries
  BY EntriesFinite, BooleanTypes DEF BaseInv
<1>7. E' \subseteq AllEntries
  <2>1. idx' \subseteq Keys \X Ids
    BY DEF BaseInv, TypeOK
  <2> QED
    BY <2>1 DEF Entries, AllEntries, Present
<1> HIDE DEF E
<1>8. ToCome'
  <2> SUFFICES ASSUME Tracked', NEW j \in (asked \cap filter) \ touched', j \notin Seen
               PROVE  \E e \in E' \ drift' : e[2] = j /\ Ahead(e)'
    BY <1>1, <1>2 DEF ToCome, E
  <2>1. j \notin touched /\ j # i
    BY <1>4
  <2>2. PICK e \in E \ drift : e[2] = j /\ Ahead(e)
    BY <1>2, <2>1 DEF ScanInv, ToCome, E
  <2>3. e \in E' /\ e \notin drift'
    BY <1>1, <1>5, <1>6, <2>1, <2>2
  <2> QED
    BY <1>3, <2>2, <2>3
<1>9. NothingElse'
  <2> SUFFICES ASSUME Tracked', NEW e \in E', Ahead(e)'
               PROVE  e[2] \in asked \cup touched' \cup Seen
    BY <1>1, <1>2 DEF NothingElse, E
  <2>1. CASE e[2] = i
    BY <1>4, <2>1
  <2>2. CASE e[2] # i
    <3>1. e \in E /\ Ahead(e)
      BY <1>1, <1>3, <1>7, <2>2
    <3> QED
      BY <1>1, <1>2, <1>4, <3>1 DEF ScanInv, NothingElse, E
  <2> QED
    BY <2>1, <2>2
<1>10. DriftWritten'
  BY <1>2, <1>4, <1>5 DEF ScanInv, DriftWritten
<1>11. ShownExact'
  BY <1>1, <1>2, <1>4 DEF ScanInv, ShownExact
<1> QED
  BY <1>8, <1>9, <1>10, <1>11 DEF ScanInv

LEMMA NextScan ==
  ASSUME BaseInv, ScopeInv, ScanInv, [Next]_vars
  PROVE  ScanInv'
<1>1. CASE \/ Begin \/ RBegin \/ MainBegin
           \/ \E k \in Args : Find(k) \/ LowerBound(k) \/ EqualRange(k) \/ PrefixRange(k)
  BY <1>1, MakingStarts, StartScan
<1>2. CASE GenOperator("++") \/ GenOperator("--")
  BY <1>2, MoveScan
<1>3. CASE \/ \E i \in Ids : Del(i) \/ \E k \in Keys : Put(i, k) \/ Modify(i, k)
           \/ IterDel
  BY <1>3, NextBase, WritingWrites, WroteScan
<1>4. CASE UNCHANGED vars
  <2>1. Entries(d_on_index)' = Entries(d_on_index) /\ Way' = Way /\ Seen' = Seen
    BY <1>4 DEF vars, storeVars, fixedVars, placeVars, Entries, Present, Way, Seen
  <2>2. /\ UNCHANGED <<asked, filter, d_on_index, threw, ways, d_end, drift, touched>>
        /\ \A f : Ahead(f)' <=> Ahead(f)
    BY <1>4, <2>1 DEF vars, storeVars, fixedVars, placeVars, Ahead, Toward, WithPrefix
  <2>3. Tracked' <=> Tracked
    BY <2>1, <2>2 DEF Tracked
  <2> QED
    BY <2>1, <2>2, <2>3 DEF ScanInv, ToCome, NothingElse, DriftWritten, ShownExact
<1> QED
  BY <1>1, <1>2, <1>3, <1>4, NextBase DEF Next

THEOREM ScanInvariant == Spec => []ScanInv
<1>1. BaseInv /\ ScopeInv /\ ScanInv /\ [Next]_vars => ScanInv'
  BY NextScan
<1> QED
  BY InitScan, <1>1, BaseInvariant, ScopeInvariant, PTL DEF Spec

\* A loop that goes ++ (for rbegin --) to the end has shown each object that
\* was asked for and that the filter accepts, and no other but the one the
\* iterator started on and those that were written before they were shown.
THEOREM LoopsExact == Spec => []RangeExact
<1>1. ScanInv => RangeExact
  <2> SUFFICES ASSUME ScanInv, asked # {}, filter = Ids \/ d_on_index, ~ threw, d_end,
                      ways = (IF call = "rbegin" THEN {"--"} ELSE {"++"})
               PROVE  /\ (asked \cap filter) \ touched \subseteq Seen
                      /\ \E i \in Seen : Seen \subseteq {i} \cup (asked \cap filter) \cup touched
    BY DEF RangeExact
  <2>1. Tracked
    BY DEF Tracked, Way, WayOf
  <2> QED
    BY <2>1 DEF ScanInv, ToCome, ShownExact
<1> QED
  BY <1>1, ScanInvariant, PTL

---------------------------------------------------------------------------
(* Gaps: what lies between two entries that were shown. *)

\* The entry's object may be missed by no loop, and was not shown.
Due(e) == e[2] \in (Present \cap filter) \ touched /\ e[2] \notin Seen

Ways == {"++", "--"}

\* The cursor has passed over nothing on its way from any entry that was shown.
NonePassed ==
  filter = Ids \/ d_on_index =>
    \A w \in Ways, s \in seen, g \in Entries(d_on_index) :
      Due(g) => ~ (Toward(w, s, g) /\ Toward(w, g, at))

\* It is, or was, on an entry of which nothing is left to do.
PlaceDone ==
  /\ seen # {} => at # NoEntry
  /\ at # NoEntry => at \in AllEntries /\ ~ Due(at)

GapInv == NonePassed /\ PlaceDone

LEMMA InitGap == Init => GapInv
BY DEF Init, GapInv, NonePassed, PlaceDone

LEMMA TowardOrder ==
  ASSUME NEW e \in Universe, NEW f \in Universe, NEW w \in Ways
  PROVE  /\ ~ Toward(w, e, e)
         /\ e = f \/ Toward(w, e, f) \/ Toward(w, f, e)
         /\ \A g \in Universe : Toward(w, e, f) /\ Toward(w, f, g) => Toward(w, e, g)
BY BeforeOrder DEF Toward, Ways

\* Entries between two of a key are of the key.
LEMMA SameKeyBetween ==
  ASSUME NEW e \in Universe, NEW f \in Universe, NEW g \in Universe, NEW w \in Ways,
         e[1] = f[1], Toward(w, e, g), Toward(w, g, f)
  PROVE  g[1] = e[1]
<1>1. e[1] \in Strings /\ g[1] \in Strings
  BY DEF Universe
<1>2. /\ g[1] = e[1] \/ Less(e[1], g[1]) \/ w = "--"
      /\ g[1] = e[1] \/ Less(g[1], e[1]) \/ w = "--"
      /\ g[1] = e[1] \/ Less(g[1], e[1]) \/ w = "++"
      /\ g[1] = e[1] \/ Less(e[1], g[1]) \/ w = "++"
  BY DEF Toward, Before, Ways
<1> QED
  BY <1>1, <1>2, LessTransitive, LessIrreflexive

LEMMA StartGap ==
  ASSUME BaseInv, NEW c, NEW k, NEW b, NEW S, NEW W, Starts(c, k, b, S, W)
  PROVE  GapInv'
<1> DEFINE e == Nearest(WayOf(c), S)
<1>1. b \in BOOLEAN /\ S \in SUBSET Entries(b)
  BY DEF Starts
<1>2. \/ at' = NoEntry /\ seen' = {}
      \/ S # {} /\ at' = e /\ seen' = {e}
  BY DEF Starts, PutOn
<1>3. S # {} => e \in AllEntries
  BY <1>1, NearestEntry, EntriesFinite
<1> HIDE DEF e
<1>4. at' = e /\ seen' = {e} => e[2] \in Seen'
  BY DEF Seen
<1>5. PlaceDone'
  <2>1. \/ at' = NoEntry /\ seen' = {}
        \/ at' # NoEntry /\ at' \in AllEntries /\ at'[2] \in Seen'
    BY <1>2, <1>3, <1>4, AllInUniverse
  <2> QED
    BY <2>1 DEF PlaceDone, Due, AllEntries
<1>6. Entries(d_on_index)' \subseteq AllEntries
  <2>1. idx' \subseteq Keys \X Ids
    BY StartBase DEF BaseInv, TypeOK
  <2> QED
    BY <2>1 DEF Entries, AllEntries, Present
<1>7. NonePassed'
  <2>1. \A s \in seen' : s = at' /\ s \in AllEntries
    BY <1>2, <1>3
  <2>2. \A w \in Ways, s \in seen', g \in Entries(d_on_index)' :
          ~ (Toward(w, s, g) /\ Toward(w, g, at'))
    BY <1>6, <2>1, AllInUniverse, TowardOrder
  <2> QED
    BY <2>2 DEF NonePassed, Toward
<1> QED
  BY <1>5, <1>7 DEF GapInv

\* An entry between the place that is left and the one come to would have been
\* come to first.
LEMMA MoveGap ==
  ASSUME BaseInv, DriftWritten, GapInv, NEW w \in Ways, GenOperator(w)
  PROVE  GapInv'
<1>1. PICK D \in SUBSET drift, P \in Accepted : MovesBy(w, D, P)
  BY MoveFacts DEF Ways
<1> DEFINE S == Stops(w, D, P)
           n == Nearest(w, S)
           E == Entries(d_on_index)
<1>2. /\ ~ d_end /\ E' = E /\ Present' = Present
      /\ UNCHANGED <<filter, d_on_index, d_one_key, touched>>
  BY DEF GenOperator, storeVars, fixedVars, Entries, Present
<1>3. at # NoEntry /\ at \in AllEntries /\ ~ Due(at)
  BY <1>2 DEF BaseInv, TypeOK, GapInv, PlaceDone
<1>4. E \subseteq AllEntries /\ S \subseteq E /\ NoEntry \notin AllEntries
  BY <1>1, EntriesFinite, AllInUniverse, BooleanTypes DEF MovesBy, BaseInv
<1>5. \/ UNCHANGED <<at, seen>>
      \/ /\ n \in S /\ at' = n /\ \A f \in S : f = n \/ Toward(w, n, f)
         /\ seen' = seen \cup {n} \/ (seen' = seen /\ Missing(n))
  BY <1>1 DEF MovesBy
<1>6. \A f \in S : /\ Toward(w, at, f) \/ E \ drift = {}
                   /\ d_one_key => f[1] = at[1]
  BY DEF Stops, Reachable, Onward, Toward
<1> HIDE DEF n
<1>7. CASE UNCHANGED <<at, seen>>
  BY <1>2, <1>7 DEF GapInv, NonePassed, PlaceDone, Due, Seen, E
<1>8. CASE /\ n \in S /\ at' = n /\ \A f \in S : f = n \/ Toward(w, n, f)
           /\ seen' = seen \cup {n} \/ (seen' = seen /\ Missing(n))
  <2>1. /\ Seen \subseteq Seen' /\ (n \in seen' => n[2] \in Seen')
        /\ \A g : Due(g)' => Due(g)
    BY <1>2, <1>8 DEF Seen, Due
  <2>2. PlaceDone'
    BY <1>2, <1>4, <1>8, <2>1 DEF PlaceDone, Due, Missing, AllEntries
  <2>3. ASSUME filter = Ids \/ d_on_index, NEW v \in Ways, NEW s \in seen', NEW g \in E,
               Due(g)', Toward(v, s, g), Toward(v, g, n)
        PROVE  FALSE
    <3>1. /\ n \in Universe /\ at \in Universe /\ g \in Universe /\ s \in Universe
      <4>1. seen \subseteq AllEntries
        BY DEF BaseInv, TypeOK
      <4> QED
        BY <1>3, <1>4, <1>8, <4>1, AllInUniverse
    <3>2. s \in seen
      BY <1>8, <2>3, <3>1, TowardOrder
    <3>3. Due(g)
      BY <2>1, <2>3
    <3>4. ~ Toward(v, g, at)
      BY <2>3, <3>2, <3>3 DEF GapInv, NonePassed, E
    <3>5. Toward(v, at, g)
      BY <1>3, <3>1, <3>3, <3>4, TowardOrder
    <3>6. g \in E \ drift
      BY <3>3 DEF Due, DriftWritten
    <3>7. Toward(v, at, n) /\ Toward(w, at, n)
      BY <1>6, <1>8, <2>3, <3>1, <3>5, <3>6, TowardOrder
    <3>8. v = w
      BY <3>1, <3>7, BeforeOrder DEF Toward, Ways
    <3>9. d_one_key => g[1] = at[1]
      BY <1>6, <1>8, <2>3, <3>1, <3>5, SameKeyBetween
    <3>10. g \in P
      BY <2>3, <3>3 DEF Accepted, Due, E
    <3>11. g \in S
      BY <3>5, <3>6, <3>8, <3>9, <3>10 DEF Stops, Reachable, Onward, Toward, E
    <3> QED
      BY <1>8, <2>3, <3>1, <3>8, <3>11, TowardOrder
  <2>4. NonePassed'
    BY <1>2, <1>8, <2>3 DEF NonePassed, Toward, E
  <2> QED
    BY <2>2, <2>4 DEF GapInv
<1> QED
  BY <1>5, <1>7, <1>8

\* A write brings up no object that can be missed, but the one it is of, which
\* is shown already, or touched.
LEMMA WroteGap ==
  ASSUME BaseInv, BaseInv', GapInv, NEW i, Writes(i)
  PROVE  GapInv'
<1> PICK O, N : Wrote(i, O, N)
  BY DEF Writes
<1> DEFINE E == Entries(d_on_index)
<1>1. /\ touched' = (IF \E e \in seen : e[2] = i THEN touched ELSE touched \cup {i})
      /\ UNCHANGED <<filter, d_on_index, at, seen>>
      /\ \A e \in AllEntries : e[2] # i => (e \in E' <=> e \in E)
      /\ \A j \in Ids \ {i} : j \in Present' <=> j \in Present
  BY DEF Wrote, Noted, fixedVars
<1>2. E' \subseteq AllEntries
  <2>1. idx' \subseteq Keys \X Ids
    BY DEF BaseInv, TypeOK
  <2> QED
    BY <2>1 DEF Entries, AllEntries, Present
<1>3. Present' \subseteq Ids
  BY DEF Present
<1>4. Seen' = Seen /\ (i \in Seen \/ i \in touched') /\ touched \subseteq touched'
  BY <1>1 DEF Seen
<1> HIDE DEF E
<1>5. ASSUME NEW g, Due(g)'
      PROVE  Due(g) /\ g[2] # i
  BY <1>1, <1>3, <1>4, <1>5 DEF Due
<1>6. PlaceDone'
  BY <1>1, <1>5 DEF GapInv, PlaceDone, AllEntries
<1>7. NonePassed'
  <2> SUFFICES ASSUME filter = Ids \/ d_on_index, NEW w \in Ways, NEW s \in seen, NEW g \in E',
                      Due(g)'
               PROVE  ~ (Toward(w, s, g) /\ Toward(w, g, at))
    BY <1>1 DEF NonePassed, Toward, E
  <2>1. Due(g) /\ g \in E
    BY <1>1, <1>2, <1>5
  <2> QED
    BY <2>1 DEF GapInv, NonePassed, E
<1> QED
  BY <1>6, <1>7 DEF GapInv

LEMMA NextGap ==
  ASSUME BaseInv, DriftWritten, GapInv, [Next]_vars
  PROVE  GapInv'
<1>1. CASE \/ Begin \/ RBegin \/ MainBegin
           \/ \E k \in Args : Find(k) \/ LowerBound(k) \/ EqualRange(k) \/ PrefixRange(k)
  BY <1>1, MakingStarts, StartGap
<1>2. CASE GenOperator("++") \/ GenOperator("--")
  BY <1>2, MoveGap DEF Ways
<1>3. CASE \/ \E i \in Ids : Del(i) \/ \E k \in Keys : Put(i, k) \/ Modify(i, k)
           \/ IterDel
  BY <1>3, NextBase, WritingWrites, WroteGap
<1>4. CASE UNCHANGED vars
  <2>1. Entries(d_on_index)' = Entries(d_on_index) /\ Present' = Present /\ Seen' = Seen
    BY <1>4 DEF vars, storeVars, fixedVars, placeVars, Entries, Present, Seen
  <2>2. UNCHANGED <<filter, d_on_index, at, seen, touched>>
    BY <1>4 DEF vars, storeVars, fixedVars, placeVars
  <2> QED
    BY <2>1, <2>2 DEF GapInv, NonePassed, PlaceDone, Due, Toward, AllEntries
<1> QED
  BY <1>1, <1>2, <1>3, <1>4, NextBase DEF Next

THEOREM GapInvariant == Spec => []GapInv
<1>1. BaseInv /\ ScanInv /\ GapInv /\ [Next]_vars => GapInv'
  BY NextGap DEF ScanInv
<1> QED
  BY InitGap, <1>1, BaseInvariant, ScanInvariant, PTL DEF Spec

\* However the program mixes ++, -- and writes, and whatever is thrown: between
\* two entries it was shown it was shown every object that the filter accepts,
\* but for those that were written before.
THEOREM WithoutGaps == Spec => []NoGaps
<1>1. BaseInv /\ GapInv => NoGaps
  <2> SUFFICES ASSUME BaseInv, GapInv, filter = Ids \/ d_on_index,
                      NEW e \in seen, NEW f \in seen, NEW g \in Entries(d_on_index),
                      Before(e, g), Before(g, f), Due(g)
               PROVE  FALSE
    BY DEF NoGaps, Due
  <2>1. at \in AllEntries /\ ~ Due(at)
    BY DEF GapInv, PlaceDone
  <2>2. at \in Universe /\ g \in Universe
    BY <2>1, AllInUniverse, EntriesFinite, BooleanTypes DEF BaseInv
  <2>3. g = at \/ Before(g, at) \/ Before(at, g)
    BY <2>2, BeforeOrder
  <2>4. ~ Before(g, at)
    <3>1. ~ (Toward("++", e, g) /\ Toward("++", g, at))
      BY DEF GapInv, NonePassed, Ways
    <3> QED
      BY <3>1 DEF Toward
  <2>5. ~ Before(at, g)
    <3>1. ~ (Toward("--", f, g) /\ Toward("--", g, at))
      BY DEF GapInv, NonePassed, Ways
    <3> QED
      BY <3>1 DEF Toward
  <2> QED
    BY <2>1, <2>3, <2>4, <2>5
<1> QED
  BY <1>1, BaseInvariant, GapInvariant, PTL
=============================================================================
