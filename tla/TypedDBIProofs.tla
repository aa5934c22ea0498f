--------------------------- MODULE TypedDBIProofs ---------------------------
(***************************************************************************)
(* Proofs about TypedDBI: where a program goes on after no half-written    *)
(* object, inserts none under an id that is taken, and adds no index       *)
(* later, every index is exact, lookups find, and TypedStore is            *)
(* implemented, for any keys and any numbers of indexes and ids.  What     *)
(* holds of the ids holds in every program.                                *)
(*                                                                         *)
(* Every operation writes database by database.  The lemmas show that on   *)
(* exact indexes the writing of a deletion never stops halfway, and that   *)
(* an insertion that comes to its end leaves exact indexes.                *)
(***************************************************************************)
EXTENDS TypedDBI, FiniteLemmas, TLAPS

\* Exceptions are caught, in the transaction, only by a program whose keys LMDB
\* never refuses.
NoHalfWrites ==
  "replace" \notin Uses /\ "new_index" \notin Uses /\ ~ {"keep", "bad_key"} \subseteq Uses

---------------------------------------------------------------------------
(* The invariants, and what the operations do to a store. *)

\* IndexesExact for one store, entry by entry.
Exact(s) ==
  /\ s \in Stores
  /\ \A n \in Indexes, k \in Keys, i \in Ids :
       <<k, i>> \in s.idx[n] <=> s.main[i] # NoValue /\ s.main[i][n] = k

\* The inductive invariants: that of every program, and that of one that goes
\* on after no half-written object.
BaseInv == TypeOK /\ ZeroFree
IInv == BaseInv /\ Exact(disk) /\ (txn = "open" => Exact(work))

\* No key of the object is refused.
Accepted(t) == \A n \in Indexes : t[n] \notin BadKeys

LEMMA Domains ==
  /\ \A i \in Ids : i \in Nat /\ i < IdLimit
  /\ 0 \in Ids /\ 1 \in Ids
  /\ \A n \in Indexes : 1..n \subseteq Indexes /\ n \in 1..n
BY ConstantsAssumption DEF Ids, Indexes

LEMMA RowValue ==
  ASSUME NEW s \in Stores, NEW i \in Present(s)
  PROVE  i \in Ids /\ s.main[i] \in Values /\ \A n \in Indexes : s.main[i][n] \in Keys
BY DEF Stores, Present, Values

LEMMA StoreEntries ==
  ASSUME NEW m \in [Ids -> Values \cup {NoValue}]
  PROVE  /\ Store(m, Indexes) \in Stores
         /\ Exact(Store(m, Indexes))
<1> DEFINE s == Store(m, Indexes)
<1>1. \A i \in Ids : m[i] # NoValue => \A n \in Indexes : m[i][n] \in Keys
  BY DEF Values
<1>2. \A n \in Indexes : s.idx[n] = {<<m[i][n], i>> : i \in {j \in Ids : m[j] # NoValue}}
  BY DEF Store
<1>3. s \in Stores
  <2>1. \A n \in Indexes : s.idx[n] \in SUBSET (Keys \X Ids)
    BY <1>1, <1>2
  <2>2. s = [main |-> m, idx |-> s.idx] /\ s.idx = [n \in Indexes |-> s.idx[n]]
    BY DEF Store
  <2>3. s.idx \in [Indexes -> SUBSET (Keys \X Ids)]
    BY <2>1, <2>2
  <2> QED
    BY <2>2, <2>3 DEF Stores
<1>4. s.main = m
  BY DEF Store
<1>5. \A n \in Indexes, k \in Keys, i \in Ids :
        <<k, i>> \in s.idx[n] <=> m[i] # NoValue /\ m[i][n] = k
  BY <1>2
<1> QED
  BY <1>3, <1>4, <1>5 DEF Exact

\* Exact is what IndexesExact says.
LEMMA ExactStore ==
  ASSUME NEW s \in Stores
  PROVE  Exact(s) <=> s = Store(s.main, Indexes)
<1> DEFINE r == Store(s.main, Indexes)
<1>1. s.main \in [Ids -> Values \cup {NoValue}] /\ s.idx \in [Indexes -> SUBSET (Keys \X Ids)]
      /\ s = [main |-> s.main, idx |-> s.idx]
  BY DEF Stores
<1>2. Exact(r) /\ r \in Stores /\ r.main = s.main
  BY <1>1, StoreEntries DEF Store
<1>3. r.idx \in [Indexes -> SUBSET (Keys \X Ids)] /\ r = [main |-> r.main, idx |-> r.idx]
  BY <1>2 DEF Stores
<1> HIDE DEF r
<1>4. ASSUME Exact(s)
      PROVE  s = r
  <2>1. ASSUME NEW n \in Indexes, NEW k \in Keys, NEW i \in Ids
        PROVE  <<k, i>> \in s.idx[n] <=> <<k, i>> \in r.idx[n]
    BY <1>2, <1>4 DEF Exact
  <2>2. ASSUME NEW n \in Indexes
        PROVE  s.idx[n] = r.idx[n]
    <3>1. s.idx[n] \subseteq Keys \X Ids /\ r.idx[n] \subseteq Keys \X Ids
      BY <1>1, <1>3
    <3>2. ASSUME NEW e \in Keys \X Ids
          PROVE  e \in s.idx[n] <=> e \in r.idx[n]
      BY <2>1, <3>2
    <3> QED
      BY <3>1, <3>2
  <2>3. s.idx = r.idx
    BY <1>1, <1>3, <2>2
  <2> QED
    BY <1>1, <1>2, <1>3, <2>3
<1> QED
  BY <1>2, <1>4 DEF r

---------------------------------------------------------------------------
(* The operations on stores. *)

\* Only put() without an id chooses one.
LEMMA NoIdChosen ==
  ASSUME NEW s, NEW t, NEW id
  PROVE  PutAt(s, t, id).id = 0 /\ DeleteAt(s, id).id = 0
         /\ ModifyAt(s, id, t).id = 0 /\ ClearAll(s).id = 0
<1>1. PutAt(s, t, id).id = 0 /\ ClearAll(s).id = 0
  BY DEF PutAt, ClearAll
<1>2. DeleteAt(s, id).id = 0
  BY DEF DeleteAt, Done
<1>3. \A d : PutAt(d, t, id).id = 0
  BY DEF PutAt
<1>4. ModifyAt(s, id, t).id = 0
  BY <1>2, <1>3 DEF ModifyAt, Throw
<1> QED
  BY <1>1, <1>2, <1>4


\* Wherever an operation stops, it leaves what are stores still, if not exact,
\* and no objects but those that were there and the one it writes.
LEMMA PutIsStore ==
  ASSUME NEW s \in Stores, NEW t \in Values, NEW id \in Ids
  PROVE  /\ PutAt(s, t, id).s \in Stores
         /\ Present(PutAt(s, t, id).s) \subseteq Present(s) \cup {id}
<1> DEFINE m == [s.main EXCEPT ![id] = t]
           x == [n \in Indexes |->
                   IF n \in Written(t) THEN s.idx[n] \cup {<<t[n], id>>} ELSE s.idx[n]]
<1>1. m \in [Ids -> Values \cup {NoValue}]
  BY DEF Stores
<1>2. x \in [Indexes -> SUBSET (Keys \X Ids)]
  <2>1. \A n \in Indexes : t[n] \in Keys /\ s.idx[n] \in SUBSET (Keys \X Ids)
    BY DEF Stores, Values
  <2>2. \A n \in Indexes : <<t[n], id>> \in Keys \X Ids
    BY <2>1
  <2> QED
    BY <2>1, <2>2
<1>3. PutAt(s, t, id).s = [main |-> m, idx |-> x]
  BY DEF PutAt
<1>4. Present(PutAt(s, t, id).s) \subseteq Present(s) \cup {id}
  BY <1>3 DEF Present, Stores
<1> HIDE DEF m, x
<1> QED
  BY <1>1, <1>2, <1>3, <1>4 DEF Stores

LEMMA WithoutIsStore ==
  ASSUME NEW s \in Stores, NEW I, NEW J
  PROVE  /\ Without(s, I, J) \in Stores
         /\ Present(Without(s, I, J)) \subseteq Present(s)
<1> DEFINE w == Without(s, I, J)
<1>1. w.main \in [Ids -> Values \cup {NoValue}]
  BY DEF Without, Stores
<1>2. w.idx \in [Indexes -> SUBSET (Keys \X Ids)]
  BY DEF Without, Stores
<1>3. w = [main |-> w.main, idx |-> w.idx]
  BY DEF Without
<1>4. Present(w) \subseteq Present(s)
  BY DEF Without, Present
<1> HIDE DEF w
<1>5. w \in Stores
  BY <1>1, <1>2, <1>3 DEF Stores
<1> QED
  BY <1>4, <1>5 DEF w

LEMMA OthersAreStores ==
  ASSUME NEW s \in Stores, NEW t \in Values, NEW id \in Ids
  PROVE  /\ DeleteAt(s, id).s \in Stores /\ Present(DeleteAt(s, id).s) \subseteq Present(s)
         /\ ModifyAt(s, id, t).s \in Stores /\ Present(ModifyAt(s, id, t).s) \subseteq Present(s)
         /\ ClearAll(s).s \in Stores /\ Present(ClearAll(s).s) \subseteq Present(s)
<1> DEFINE d == DeleteAt(s, id)
<1>1. d.s \in Stores /\ Present(d.s) \subseteq Present(s)
  <2>1. CASE id \in Present(s)
    BY <2>1, WithoutIsStore DEF DeleteAt
  <2>2. CASE id \notin Present(s)
    BY <2>2 DEF DeleteAt, Done
  <2> QED
    BY <2>1, <2>2
<1>2. \/ ModifyAt(s, id, t) = Throw(s) \/ ModifyAt(s, id, t) = d
      \/ id \in Present(s) /\ ModifyAt(s, id, t) = PutAt(d.s, t, id)
  BY DEF ModifyAt
<1> HIDE DEF d
<1>3. ModifyAt(s, id, t).s \in Stores /\ Present(ModifyAt(s, id, t).s) \subseteq Present(s)
  <2>1. PutAt(d.s, t, id).s \in Stores /\ Present(PutAt(d.s, t, id).s) \subseteq Present(d.s) \cup {id}
    BY <1>1, PutIsStore
  <2> QED
    BY <1>1, <1>2, <2>1 DEF Throw
<1>4. ClearAll(s).s \in Stores /\ Present(ClearAll(s).s) \subseteq Present(s)
  BY WithoutIsStore DEF ClearAll
<1> QED
  BY <1>1, <1>3, <1>4 DEF d

LEMMA PutExact ==
  ASSUME NEW s, Exact(s), NEW t \in Values, NEW id \in Ids \ Present(s), PutAt(s, t, id).ok
  PROVE  /\ Exact(PutAt(s, t, id).s)
         /\ PutAt(s, t, id).s.main = [s.main EXCEPT ![id] = t]
<1> DEFINE p == PutAt(s, t, id).s
<1>1. s \in Stores /\ p \in Stores /\ s.main[id] = NoValue
  BY PutIsStore DEF Exact, Present
<1>2. s.main \in [Ids -> Values \cup {NoValue}]
  BY <1>1 DEF Stores
<1>3. p.main = [s.main EXCEPT ![id] = t]
  BY DEF PutAt
<1>4. \A n \in Indexes : p.idx[n] = s.idx[n] \cup {<<t[n], id>>}
  <2>1. \A n \in Indexes : n \in Written(t)
    BY Domains DEF PutAt, Written
  <2> QED
    BY <2>1 DEF PutAt
<1>5. t # NoValue /\ \A n \in Indexes : t[n] \in Keys
  BY NoValueAssumption DEF Values
<1> HIDE DEF p
<1>6. ASSUME NEW n \in Indexes, NEW k \in Keys, NEW i \in Ids
      PROVE  <<k, i>> \in p.idx[n] <=> p.main[i] # NoValue /\ p.main[i][n] = k
  <2>1. <<k, i>> \in s.idx[n] <=> s.main[i] # NoValue /\ s.main[i][n] = k
    BY DEF Exact
  <2>2. CASE i = id
    BY <1>1, <1>2, <1>3, <1>4, <1>5, <2>1, <2>2
  <2>3. CASE i # id
    BY <1>2, <1>3, <1>4, <2>1, <2>3
  <2> QED
    BY <2>2, <2>3
<1> QED
  BY <1>1, <1>3, <1>6 DEF Exact, p

\* On exact indexes every entry of an object is found when it is removed.
LEMMA ExactWhole ==
  ASSUME NEW s, Exact(s), NEW i \in Present(s)
  PROVE  Whole(s, i)
<1>1. i \in Ids /\ s.main[i] # NoValue /\ \A n \in Indexes : s.main[i][n] \in Keys
  BY RowValue DEF Exact, Present
<1>2. \A n \in Indexes : <<s.main[i][n], i>> \in s.idx[n]
  BY <1>1 DEF Exact
<1> QED
  BY <1>2, Domains DEF Whole, Cleared

LEMMA WithoutExact ==
  ASSUME NEW s, Exact(s), NEW I \in SUBSET Present(s)
  PROVE  /\ Exact(Without(s, I, I))
         /\ Without(s, I, I).main = [i \in Ids |-> IF i \in I THEN NoValue ELSE s.main[i]]
<1> DEFINE w == Without(s, I, I)
<1>1. s \in Stores
  BY DEF Exact
<1>2. w.main = [i \in Ids |-> IF i \in I THEN NoValue ELSE s.main[i]]
  BY DEF Without
<1>3. \A n \in Indexes : w.idx[n] =
        {e \in s.idx[n] : ~ (e[2] \in I /\ n \in Cleared(s, s.main[e[2]], e[2])
                             /\ e[1] = s.main[e[2]][n])}
  BY DEF Without
<1>4. \A n \in Indexes, i \in I : n \in Cleared(s, s.main[i], i)
  BY ExactWhole DEF Whole
<1>5. w \in Stores
  BY <1>1, WithoutIsStore
<1> HIDE DEF w
<1>6. ASSUME NEW n \in Indexes, NEW k \in Keys, NEW i \in Ids
      PROVE  <<k, i>> \in w.idx[n] <=> w.main[i] # NoValue /\ w.main[i][n] = k
  <2>1. <<k, i>> \in s.idx[n] <=> s.main[i] # NoValue /\ s.main[i][n] = k
    BY DEF Exact
  <2>2. <<k, i>> \in w.idx[n] <=>
          <<k, i>> \in s.idx[n] /\ ~ (i \in I /\ k = s.main[i][n])
    BY <1>3, <1>4
  <2> QED
    BY <1>2, <2>1, <2>2
<1> QED
  BY <1>2, <1>5, <1>6 DEF Exact, w

LEMMA DeleteExact ==
  ASSUME NEW s, Exact(s), NEW id \in Ids
  PROVE  /\ DeleteAt(s, id).ok
         /\ Exact(DeleteAt(s, id).s)
         /\ DeleteAt(s, id).s.main = [s.main EXCEPT ![id] = NoValue]
<1>1. s.main \in [Ids -> Values \cup {NoValue}]
  BY DEF Exact, Stores
<1>2. CASE id \notin Present(s)
  BY <1>1, <1>2 DEF DeleteAt, Done, Present
<1>3. CASE id \in Present(s)
  <2>1. DeleteAt(s, id) = [s |-> Without(s, {id}, {id}), ok |-> TRUE, id |-> 0]
    BY <1>3, ExactWhole DEF DeleteAt
  <2>2. Without(s, {id}, {id}).main = [s.main EXCEPT ![id] = NoValue]
    BY <1>1, <1>3, WithoutExact
  <2>3. Exact(Without(s, {id}, {id}))
    BY <1>3, WithoutExact
  <2> QED
    BY <2>1, <2>2, <2>3
<1> QED
  BY <1>2, <1>3

\* A change takes the object out, and puts it back: the way between is exact.
LEMMA ModifyExact ==
  ASSUME NEW s, Exact(s), NEW t \in Values, NEW id \in Ids
  PROVE  /\ ModifyAt(s, id, t).ok =>
              /\ id \in Present(s)
              /\ Exact(ModifyAt(s, id, t).s)
              /\ ModifyAt(s, id, t).s.main = [s.main EXCEPT ![id] = t]
         /\ Accepted(t) /\ ~ ModifyAt(s, id, t).ok => ModifyAt(s, id, t).s = s
<1> DEFINE d == DeleteAt(s, id).s
<1>1. s.main \in [Ids -> Values \cup {NoValue}] /\ s \in Stores
  BY DEF Exact, Stores
<1>2. CASE id \notin Present(s)
  BY <1>1, <1>2 DEF ModifyAt, Throw
<1>3. CASE id \in Present(s)
  <2>1. Exact(d) /\ d.main = [s.main EXCEPT ![id] = NoValue] /\ d \in Stores
    BY DeleteExact DEF Exact
  <2>2. ModifyAt(s, id, t) = PutAt(d, t, id)
    BY <1>3, DeleteExact DEF ModifyAt
  <2> HIDE DEF d
  <2>3. id \notin Present(d)
    BY <1>1, <2>1 DEF Present
  <2>4. PutAt(d, t, id).s.main = [s.main EXCEPT ![id] = t]
    BY <1>1, <2>1 DEF PutAt
  <2>5. PutAt(d, t, id).ok => Exact(PutAt(d, t, id).s)
    BY <2>1, <2>3, PutExact
  <2>6. Accepted(t) => PutAt(d, t, id).ok
    BY DEF PutAt, Accepted
  <2> QED
    BY <1>3, <2>2, <2>4, <2>5, <2>6
<1> QED
  BY <1>2, <1>3

LEMMA ClearExact ==
  ASSUME NEW s, Exact(s)
  PROVE  /\ ClearAll(s).ok
         /\ Exact(ClearAll(s).s)
         /\ ClearAll(s).s.main = [i \in Ids |-> NoValue]
<1>1. \A i \in Present(s) : Whole(s, i)
  BY ExactWhole
<1> DEFINE gone == {i \in Present(s) : \A j \in Present(s) : j <= i => Whole(s, j)}
           next == {i \in Present(s) \ gone : \A j \in Present(s) : j < i => j \in gone}
<1>2. gone = Present(s) /\ next = {}
  BY <1>1
<1>3. ClearAll(s) = [s |-> Without(s, Present(s), Present(s)), ok |-> TRUE, id |-> 0]
  BY <1>2 DEF ClearAll
<1>4. [i \in Ids |-> IF i \in Present(s) THEN NoValue ELSE s.main[i]] = [i \in Ids |-> NoValue]
  BY DEF Present
<1> QED
  BY <1>3, <1>4, WithoutExact

\* A new object's id is an id, and not 0: where ids run out, put throws.
LEMMA NewId ==
  ASSUME NEW s \in Stores
  PROVE  LET id == (MDBGetMaxID(s) + 1) % IdLimit
         IN  id \in Ids /\ (Appends(s, id) => id # 0 /\ id \notin Present(s))
<1> DEFINE id == (MDBGetMaxID(s) + 1) % IdLimit
<1>1. Present(s) \subseteq Ids /\ Ids \subseteq Nat /\ IsFiniteSet(Ids)
  BY FS_Interval, ConstantsAssumption DEF Ids, Present
<1>2. MDBGetMaxID(s) \in Nat
  <2>1. CASE Present(s) = {}
    BY <2>1 DEF MDBGetMaxID
  <2>2. CASE Present(s) # {}
    <3>1. \E m \in Present(s) : \A n \in Present(s) : n <= m
      BY <1>1, <2>2, FS_Subset, GreatestExists
    <3> QED
      BY <1>1, <2>2, <3>1 DEF MDBGetMaxID
  <2> QED
    BY <2>1, <2>2
<1>3. id \in Ids
  BY <1>2, ConstantsAssumption DEF Ids
<1>4. Present(s) = {} => id # 0
  BY ConstantsAssumption DEF MDBGetMaxID
<1> HIDE DEF id
<1>5. ASSUME \A j \in Present(s) : j < id
      PROVE  id # 0 /\ id \notin Present(s)
  <2>1. id \in Nat /\ \A j \in Present(s) : j \in Nat
    BY <1>1, <1>3
  <2>2. id \notin Present(s)
    BY <1>5, <2>1
  <2>3. id # 0
    BY <1>4, <1>5, <2>1
  <2> QED
    BY <2>2, <2>3
<1> QED
  BY <1>3, <1>5 DEF Appends, id

LEMMA PutNewIsStore ==
  ASSUME NEW s \in Stores, 0 \notin Present(s), NEW t \in Values
  PROVE  PutNewAt(s, t).s \in Stores /\ 0 \notin Present(PutNewAt(s, t).s)
         /\ PutNewAt(s, t).id \in Ids
<1> DEFINE id == (MDBGetMaxID(s) + 1) % IdLimit
<1>1. id \in Ids /\ (Appends(s, id) => id # 0)
  BY NewId
<1>2. IF Appends(s, id) THEN PutNewAt(s, t).s = PutAt(s, t, id).s /\ PutNewAt(s, t).id = id
      ELSE PutNewAt(s, t) = Throw(s)
  BY DEF PutNewAt, PutAt, Chosen
<1> HIDE DEF id
<1> QED
  BY <1>1, <1>2, PutIsStore, Domains DEF Throw

\* What put() does: it throws, or the object has an id above all others.
LEMMA PutNewEffect ==
  ASSUME NEW s, Exact(s), NEW t \in Values
  PROVE  LET r == PutNewAt(s, t)
         IN  /\ r.ok => /\ Exact(r.s)
                        /\ r.id \in Ids \ {0}
                        /\ \A j \in Present(s) : j < r.id
                        /\ r.s.main = [s.main EXCEPT ![r.id] = t]
             /\ Accepted(t) /\ ~ r.ok => r.s = s
<1> DEFINE id == (MDBGetMaxID(s) + 1) % IdLimit
<1>1. s \in Stores /\ s.main \in [Ids -> Values \cup {NoValue}]
  BY DEF Exact, Stores
<1>2. CASE ~ Appends(s, id)
  <2>1. PutNewAt(s, t) = [s |-> s, ok |-> FALSE, id |-> 0]
    BY <1>2 DEF PutNewAt, Throw
  <2> QED
    BY <1>1, <2>1
<1>3. CASE Appends(s, id)
  <2>1. id \in Ids /\ id # 0 /\ id \notin Present(s)
    BY <1>1, <1>3, NewId
  <2>2. /\ PutNewAt(s, t).s = PutAt(s, t, id).s
        /\ PutNewAt(s, t).ok = PutAt(s, t, id).ok
        /\ PutNewAt(s, t).id = id
    BY <1>3 DEF PutNewAt, PutAt, Chosen
  <2>3. \A j \in Present(s) : j < id
    BY <1>3 DEF Appends
  <2> HIDE DEF id
  <2>4. PutAt(s, t, id).ok => /\ Exact(PutAt(s, t, id).s)
                              /\ PutAt(s, t, id).s.main = [s.main EXCEPT ![id] = t]
    BY <2>1, PutExact
  <2>5. Accepted(t) => PutAt(s, t, id).ok
    BY DEF PutAt, Accepted
  <2> QED
    BY <2>1, <2>2, <2>3, <2>4, <2>5
<1> QED
  BY <1>2, <1>3

\* What put() under a free id does.
LEMMA PutIdEffect ==
  ASSUME NEW s, Exact(s), NEW t \in Values, NEW id \in Ids \ Present(s)
  PROVE  LET r == PutAt(s, t, id)
         IN  /\ r.ok => Exact(r.s) /\ r.s.main = [s.main EXCEPT ![id] = t]
             /\ Accepted(t) => r.ok
<1>1. Accepted(t) => PutAt(s, t, id).ok
  BY DEF PutAt, Accepted
<1> QED
  BY <1>1, PutExact

---------------------------------------------------------------------------
(* Every use: types and ids. *)

LEMMA ObjectsAreValues ==
  /\ Objects \subseteq Values
  /\ "bad_key" \notin Uses => \A t \in Objects : Accepted(t)
BY DEF Objects, Values, Accepted

LEMMA InitBase == Init => BaseInv
<1> SUFFICES ASSUME Init
             PROVE  BaseInv
  OBVIOUS
<1>1. PICK m \in [Ids -> Values \cup {NoValue}], N \in SUBSET Indexes :
        disk = Store(m, N) /\ 0 \notin {i \in Ids : m[i] # NoValue}
  <2> DEFINE none == [i \in Ids |-> NoValue]
             one(v) == [i \in Ids |-> IF i = 1 THEN v ELSE NoValue]
  <2>1. CASE disk = Store(none, Indexes)
    <3>1. none \in [Ids -> Values \cup {NoValue}] /\ 0 \notin {i \in Ids : none[i] # NoValue}
      OBVIOUS
    <3> HIDE DEF none
    <3> QED
      BY <2>1, <3>1
  <2>2. CASE \E v \in [Indexes -> Keys \ BadKeys] : disk = Store(one(v), Indexes \ {NIndexes})
    <3>1. PICK v \in [Indexes -> Keys \ BadKeys] : disk = Store(one(v), Indexes \ {NIndexes})
      BY <2>2
    <3>2. v \in Values
      BY DEF Values
    <3>3. one(v) \in [Ids -> Values \cup {NoValue}] /\ 0 \notin {i \in Ids : one(v)[i] # NoValue}
      BY <3>2
    <3> HIDE DEF one
    <3> QED
      BY <3>1, <3>3
  <2> QED
    BY <2>1, <2>2 DEF Init
<1>2. disk.main = m /\ disk.idx \in [Indexes -> SUBSET (Keys \X Ids)]
      /\ disk = [main |-> disk.main, idx |-> disk.idx]
  <2>1. \A i \in Ids : m[i] # NoValue => \A n \in Indexes : m[i][n] \in Keys
    BY DEF Values
  <2>2. disk.idx = [n \in Indexes |-> {<<m[i][n], i>> : i \in {j \in Ids : n \in N /\ m[j] # NoValue}}]
    BY <1>1 DEF Store
  <2>3. \A n \in Indexes : disk.idx[n] \in SUBSET (Keys \X Ids)
    BY <2>1, <2>2
  <2>4. disk.idx \in [Indexes -> SUBSET (Keys \X Ids)]
    BY <2>2, <2>3
  <2> QED
    BY <1>1, <2>4 DEF Store
<1>3. disk \in Stores /\ 0 \notin Present(disk)
  BY <1>1, <1>2 DEF Stores, Present
<1> QED
  BY <1>3, Domains DEF Init, BaseInv, TypeOK, ZeroFree

LEMMA DoesBase ==
  ASSUME BaseInv, NEW r, Does(r), r.s \in Stores, 0 \notin Present(r.s), r.id \in Ids
  PROVE  BaseInv'
<1>1. work' = r.s /\ disk' = disk /\ txn' \in {"open", "thrown"} /\ given' \in Ids
  BY Domains DEF Does
<1> QED
  BY <1>1 DEF BaseInv, TypeOK, ZeroFree

LEMMA NextBase ==
  ASSUME BaseInv, [Next]_vars
  PROVE  BaseInv'
<1>1. work \in Stores /\ 0 \notin Present(work)
  BY DEF BaseInv, TypeOK, ZeroFree
<1>2. CASE Begin \/ Commit \/ Abort
  <2>1. /\ disk' \in {disk, work} /\ work' \in {disk, work} /\ txn' \in {"open", "none"}
        /\ txn' = "none" => work' = disk'
        /\ given' \in Ids
    BY <1>2, Domains DEF Begin, Commit, Abort, BaseInv, TypeOK
  <2> QED
    BY <2>1 DEF BaseInv, TypeOK, ZeroFree
<1>3. CASE Clear
  <2>1. ClearAll(work).s \in Stores /\ Present(ClearAll(work).s) \subseteq Present(work)
    BY <1>1, WithoutIsStore DEF ClearAll
  <2>2. ClearAll(work).id \in Ids
    BY NoIdChosen, Domains
  <2> QED
    BY <1>1, <1>3, <2>1, <2>2, DoesBase DEF Clear
<1>4. ASSUME NEW t \in Objects, Put(t)
      PROVE  BaseInv'
  BY <1>1, <1>4, PutNewIsStore, ObjectsAreValues, DoesBase DEF Put
<1>5. ASSUME NEW t \in Objects, NEW id \in Ids, PutId(t, id)
      PROVE  BaseInv'
  BY <1>1, <1>5, PutIsStore, ObjectsAreValues, NoIdChosen, Domains, DoesBase DEF PutId
<1>6. ASSUME NEW t \in Objects, NEW id \in Ids, Modify(id, t)
      PROVE  BaseInv'
  BY <1>1, <1>6, OthersAreStores, ObjectsAreValues, NoIdChosen, Domains, DoesBase DEF Modify
<1>7. ASSUME NEW id \in Ids, Del(id)
      PROVE  BaseInv'
  <2>1. DeleteAt(work, id).s \in Stores /\ Present(DeleteAt(work, id).s) \subseteq Present(work)
    BY <1>1, WithoutIsStore DEF DeleteAt, Done
  <2>2. DeleteAt(work, id).id \in Ids
    BY NoIdChosen, Domains
  <2> QED
    BY <1>1, <1>7, <2>1, <2>2, DoesBase DEF Del
<1>8. CASE UNCHANGED vars
  BY <1>8 DEF vars, BaseInv, TypeOK, ZeroFree
<1> QED
  BY <1>2, <1>3, <1>4, <1>5, <1>6, <1>7, <1>8 DEF Next

THEOREM BaseInvariant == Spec => []BaseInv
<1>1. BaseInv /\ [Next]_vars => BaseInv'
  BY NextBase
<1> QED
  BY <1>1, InitBase, PTL DEF Spec

\* Types; without a transaction the writer's databases are the committed ones,
\* whatever the program does.
THEOREM TypeCorrect == Spec => []TypeOK
<1>1. BaseInv => TypeOK
  BY DEF BaseInv
<1> QED
  BY <1>1, BaseInvariant, PTL

\* No object ever gets id 0, when ids run out included, whatever the program does.
THEOREM ZeroStaysFree == Spec => []ZeroFree
<1>1. BaseInv => ZeroFree
  BY DEF BaseInv
<1> QED
  BY <1>1, BaseInvariant, PTL

---------------------------------------------------------------------------
(* Exact indexes. *)

LEMMA InitInv ==
  ASSUME NoHalfWrites
  PROVE  Init => IInv
<1> SUFFICES ASSUME Init
             PROVE  IInv
  OBVIOUS
<1> DEFINE none == [i \in Ids |-> NoValue]
<1>1. disk = Store(none, Indexes) /\ txn = "none"
  BY DEF Init, NoHalfWrites
<1>2. none \in [Ids -> Values \cup {NoValue}]
  OBVIOUS
<1> HIDE DEF none
<1>3. Exact(disk)
  BY <1>1, <1>2, StoreEntries
<1> QED
  BY <1>1, <1>3, InitBase DEF IInv

\* What of an operation's result keeps the indexes exact: that of one that
\* throws is the transaction's only where the program goes on.
Sound(r) == (r.ok => Exact(r.s)) /\ ("keep" \in Uses /\ ~ r.ok => r.s = work)

LEMMA DoesExact ==
  ASSUME IInv, NEW r, Does(r), Sound(r)
  PROVE  Exact(disk') /\ (txn' = "open" => Exact(work'))
<1>1. /\ txn = "open" /\ work' = r.s /\ disk' = disk
      /\ txn' = "open" => r.ok \/ "keep" \in Uses
  BY DEF Does
<1> QED
  BY <1>1 DEF IInv, Sound

LEMMA WorkOpen ==
  ASSUME IInv, NEW r, Does(r)
  PROVE  Exact(work)
BY DEF IInv, Does

\* Of an operation on exact indexes the result is sound.
LEMMA SoundResults ==
  ASSUME NoHalfWrites, IInv, txn = "open", NEW t \in Objects, NEW id \in Ids
  PROVE  /\ Sound(ClearAll(work)) /\ Sound(DeleteAt(work, id)) /\ Sound(ModifyAt(work, id, t))
         /\ Sound(PutNewAt(work, t)) /\ (id \notin Present(work) => Sound(PutAt(work, t, id)))
<1>1. Exact(work) /\ t \in Values /\ ("keep" \in Uses => Accepted(t))
  BY ObjectsAreValues DEF IInv, NoHalfWrites
<1>2. Sound(ClearAll(work))
  BY <1>1, ClearExact DEF Sound
<1>3. Sound(DeleteAt(work, id))
  BY <1>1, DeleteExact DEF Sound
<1>4. Sound(ModifyAt(work, id, t))
  BY <1>1, ModifyExact DEF Sound
<1>5. Sound(PutNewAt(work, t))
  BY <1>1, PutNewEffect DEF Sound
<1>6. ASSUME id \notin Present(work)
      PROVE  Sound(PutAt(work, t, id))
  BY <1>1, <1>6, PutIdEffect DEF Sound
<1> QED
  BY <1>2, <1>3, <1>4, <1>5, <1>6

LEMMA NextExact ==
  ASSUME NoHalfWrites, IInv, [Next]_vars
  PROVE  Exact(disk') /\ (txn' = "open" => Exact(work'))
<1>1. CASE Begin \/ Commit \/ Abort
  BY <1>1 DEF Begin, Commit, Abort, IInv
<1>2. CASE Clear
  BY <1>2, WorkOpen, ClearExact, DoesExact DEF Clear, Sound
<1>3. ASSUME NEW t \in Objects, Put(t)
      PROVE  Sound(PutNewAt(work, t))
  BY <1>3, Domains, SoundResults DEF Put, Does
<1>4. ASSUME NEW t \in Objects, NEW id \in Ids, PutId(t, id)
      PROVE  Sound(PutAt(work, t, id))
  BY <1>4, SoundResults DEF PutId, Does, NoHalfWrites
<1>5. ASSUME NEW t \in Objects, NEW id \in Ids, Modify(id, t)
      PROVE  Sound(ModifyAt(work, id, t))
  BY <1>5, SoundResults DEF Modify, Does
<1>6. ASSUME NEW id \in Ids, Del(id)
      PROVE  Sound(DeleteAt(work, id))
  BY <1>6, WorkOpen, DeleteExact DEF Del, Sound
<1>7. CASE UNCHANGED vars
  BY <1>7 DEF vars, IInv
<1> QED
  BY <1>1, <1>2, <1>3, <1>4, <1>5, <1>6, <1>7, DoesExact DEF Next, Put, PutId, Modify, Del

\* The invariant that IndexesExact and the refinement follow from.
THEOREM Invariant ==
  ASSUME NoHalfWrites
  PROVE  Spec => []IInv
<1>1. IInv /\ [Next]_vars => IInv'
  <2> SUFFICES ASSUME IInv, [Next]_vars
               PROVE  IInv'
    OBVIOUS
  <2>1. BaseInv'
    BY NextBase DEF IInv
  <2>2. Exact(disk') /\ (txn' = "open" => Exact(work'))
    BY NextExact
  <2>3. Exact(disk)' <=> Exact(disk')
    BY DEF Exact
  <2>4. Exact(work)' <=> Exact(work')
    BY DEF Exact
  <2> QED
    BY <2>1, <2>2, <2>3, <2>4 DEF IInv
<1> QED
  BY <1>1, InitInv, PTL DEF Spec

---------------------------------------------------------------------------
(* What follows from it. *)

\* Whatever is put, changed, deleted and cleared, and wherever a refused key
\* makes it throw, every index has one entry for each object and no other.
THEOREM IndexesAreExact ==
  ASSUME NoHalfWrites
  PROVE  Spec => []IndexesExact
<1>1. IInv => IndexesExact
  BY ExactStore DEF IInv, BaseInv, TypeOK, IndexesExact, Visible
<1> QED
  BY <1>1, Invariant, PTL

\* get<N>, of a key that LMDB takes, finds an object with it exactly when there is one.
THEOREM LookupsAlwaysFind ==
  ASSUME NoHalfWrites
  PROVE  Spec => []LookupsFind
<1>1. ASSUME NEW s, Exact(s), 0 \notin Present(s), NEW n \in Indexes, NEW k \in Keys \ BadKeys
      PROVE  LET id == GetByIndex(s, n, k)
             IN  IF \E i \in Present(s) : s.main[i][n] = k
                 THEN id # 0 /\ s.main[id][n] = k
                 ELSE id = 0
  <2> DEFINE ids == {i \in Ids : <<k, i>> \in s.idx[n]}
             first == CHOOSE i \in ids : \A j \in ids : i <= j
  <2>1. ids = {i \in Present(s) : s.main[i][n] = k}
    BY <1>1 DEF Exact, Present
  <2>2. CASE ids = {}
    BY <2>1, <2>2 DEF GetByIndex
  <2>3. CASE ids # {}
    <3>1. ids \in SUBSET Nat /\ IsFiniteSet(ids)
      <4>1. Ids \subseteq Nat /\ IsFiniteSet(Ids)
        BY FS_Interval, ConstantsAssumption DEF Ids
      <4>2. ids \in SUBSET Ids
        OBVIOUS
      <4> HIDE DEF ids
      <4> QED
        BY <4>1, <4>2, FS_Subset
    <3>2. \E m \in ids : \A j \in ids : m <= j
      <4> HIDE DEF ids
      <4> QED
        BY <2>3, <3>1, LeastExists
    <3>3. first \in ids
      <4> HIDE DEF ids
      <4> QED
        BY <3>2
    <3>4. GetByIndex(s, n, k) = first
      BY <2>1, <2>3, <3>3 DEF GetByIndex
    <3> HIDE DEF first, ids
    <3> QED
      BY <1>1, <2>1, <3>3, <3>4
  <2> QED
    BY <2>2, <2>3
<1>2. ASSUME IInv, NEW s \in Visible
      PROVE  Exact(s) /\ 0 \notin Present(s)
  BY <1>2 DEF IInv, BaseInv, Visible, ZeroFree
<1>3. IInv => LookupsFind
  BY <1>1, <1>2 DEF LookupsFind
<1> QED
  BY <1>3, Invariant, PTL

---------------------------------------------------------------------------
(* TypedDBI implements TypedStore: every operation that gets to its end is *)
(* one step of the objects, with their index entries, and one that throws  *)
(* is an abort, or nothing where the program goes on.                      *)

LEMMA ExactEntries ==
  ASSUME NEW s, Exact(s)
  PROVE  s.idx = Abstract!Entries(s.main)
<1>1. s = Store(s.main, Indexes)
  BY ExactStore DEF Exact
<1>2. Store(s.main, Indexes).idx = Abstract!Entries(s.main)
  BY DEF Store, Abstract!Entries, Abstract!Stored
<1> QED
  BY <1>1, <1>2, Zenon

LEMMA StoredPresent ==
  ASSUME NEW s
  PROVE  Abstract!Stored(s.main) = Present(s)
BY DEF Abstract!Stored, Present

LEMMA InitRefines ==
  ASSUME NoHalfWrites, Init
  PROVE  Abstract!Init
<1>1. IInv /\ View = disk
  BY InitInv DEF Init, View
<1>2. disk.main \in [Ids -> Values \cup {NoValue}]
  BY <1>1 DEF IInv, BaseInv, TypeOK, Stores
<1> QED
  BY <1>1, <1>2, ExactEntries DEF Init, IInv, Abstract!Init

\* An operation that gets to its end leaves the objects it says, one that
\* throws those of the last commit, or those that were there.
LEMMA DoesRefines ==
  ASSUME IInv, NEW r, Does(r), Sound(r)
  PROVE  /\ View = work /\ disk'.main = disk.main
         /\ r.ok => Abstract!Becomes(r.s.main) /\ given' = r.id
         /\ ~ r.ok => Abstract!Abort \/ Abstract!Nothing
<1>1. View = work /\ UNCHANGED disk
  BY DEF Does, View
<1>2. ASSUME r.ok
      PROVE  Abstract!Becomes(r.s.main) /\ given' = r.id
  <2>1. View' = r.s /\ Exact(r.s)
    BY <1>2 DEF Does, View, Sound
  <2> QED
    BY <1>2, <2>1, ExactEntries DEF Abstract!Becomes, Does
<1>3. ASSUME ~ r.ok
      PROVE  Abstract!Abort \/ Abstract!Nothing
  <2>0. given' = 0
    BY <1>3 DEF Does
  <2>1. CASE txn' = "thrown"
    <3>1. View' = disk /\ Exact(disk)
      BY <2>1, <1>1 DEF View, IInv
    <3> QED
      BY <1>1, <2>0, <3>1, ExactEntries DEF Abstract!Abort, Abstract!Becomes
  <2>2. CASE txn' = "open"
    <3>1. work' = work
      BY <1>3, <2>2 DEF Does, Sound
    <3>2. View' = View
      BY <1>1, <2>2, <3>1 DEF View
    <3> QED
      BY <1>1, <2>0, <3>2 DEF Abstract!Nothing
  <2> QED
    BY <2>1, <2>2 DEF Does
<1> QED
  BY <1>1, <1>2, <1>3

LEMMA NextRefines ==
  ASSUME NoHalfWrites, IInv, [Next]_vars
  PROVE  [Abstract!Next]_(Abstract!vars)
<1> USE DEF Abstract!Next
<1>1. CASE Begin
  BY <1>1 DEF Begin, View, Abstract!vars
<1>2. CASE Commit
  <2>1. View = work /\ View' = work /\ disk' = work /\ given' = 0
    BY <1>2 DEF Commit, View
  <2>2. Abstract!Commit
    BY <2>1 DEF Abstract!Commit
  <2> QED
    BY <2>2
<1>3. CASE Abort
  <2>1. View' = disk /\ UNCHANGED disk /\ Exact(disk) /\ given' = 0
    BY <1>3 DEF Abort, View, IInv
  <2>2. Abstract!Abort
    BY <2>1, ExactEntries DEF Abstract!Abort, Abstract!Becomes
  <2> QED
    BY <2>2
<1>4. CASE Clear
  <2>1. Does(ClearAll(work)) /\ Exact(work)
    BY <1>4, WorkOpen DEF Clear
  <2>2. Abstract!Clear
    BY <2>1, ClearExact, NoIdChosen, DoesRefines DEF Abstract!Clear, Sound
  <2> QED
    BY <2>2
<1>5. ASSUME NEW t \in Objects, Put(t)
      PROVE  [Abstract!Next]_(Abstract!vars)
  <2> DEFINE r == PutNewAt(work, t)
  <2>1. t \in Values /\ Does(r) /\ Exact(work) /\ Sound(r)
    BY <1>5, Domains, WorkOpen, ObjectsAreValues, SoundResults DEF Put, Does
  <2>2. r.ok => /\ r.id \in Ids \ {0}
                /\ \A j \in Present(work) : j < r.id
                /\ r.s.main = [work.main EXCEPT ![r.id] = t]
    BY <2>1, PutNewEffect
  <2> HIDE DEF r
  <2>3. r.ok => Abstract!Insert(r.id, t)
    BY <2>1, <2>2, DoesRefines, StoredPresent DEF Abstract!Insert
  <2> QED
    BY <2>1, <2>2, <2>3, DoesRefines
<1>6. ASSUME NEW t \in Objects, NEW id \in Ids, PutId(t, id)
      PROVE  [Abstract!Next]_(Abstract!vars)
  <2> DEFINE r == PutAt(work, t, id)
  <2>1. t \in Values /\ Does(r) /\ Exact(work) /\ id \in Ids \ Present(work) /\ Sound(r)
    BY <1>6, WorkOpen, ObjectsAreValues, SoundResults DEF PutId, Does, NoHalfWrites
  <2>2. r.ok => Exact(r.s) /\ r.s.main = [work.main EXCEPT ![id] = t]
    BY <2>1, PutIdEffect
  <2>0. r.id = 0
    BY NoIdChosen
  <2> HIDE DEF r
  <2>3. r.ok => Abstract!InsertAt(id, t)
    BY <2>0, <2>1, <2>2, DoesRefines, StoredPresent DEF Abstract!InsertAt
  <2> QED
    BY <2>1, <2>2, <2>3, DoesRefines
<1>7. ASSUME NEW t \in Objects, NEW id \in Ids, Modify(id, t)
      PROVE  [Abstract!Next]_(Abstract!vars)
  <2> DEFINE r == ModifyAt(work, id, t)
  <2>1. t \in Values /\ Does(r) /\ Exact(work) /\ Sound(r)
    BY <1>7, WorkOpen, ObjectsAreValues, SoundResults DEF Modify, Does
  <2>2. r.ok => id \in Present(work) /\ Exact(r.s) /\ r.s.main = [work.main EXCEPT ![id] = t]
    BY <2>1, ModifyExact
  <2>0. r.id = 0
    BY NoIdChosen
  <2> HIDE DEF r
  <2>3. r.ok => Abstract!Modify(id, t)
    BY <2>0, <2>1, <2>2, DoesRefines, StoredPresent DEF Abstract!Modify
  <2> QED
    BY <2>1, <2>2, <2>3, DoesRefines
<1>8. ASSUME NEW id \in Ids, Del(id)
      PROVE  [Abstract!Next]_(Abstract!vars)
  <2> DEFINE r == DeleteAt(work, id)
  <2>1. Does(r) /\ Exact(work) /\ Sound(r)
    BY <1>8, WorkOpen, DeleteExact DEF Del, Sound
  <2>2. r.ok /\ Exact(r.s) /\ r.s.main = [work.main EXCEPT ![id] = NoValue]
    BY <2>1, DeleteExact
  <2>3. r.id = 0 /\ (id \notin Present(work) => r.s = work)
    BY NoIdChosen DEF DeleteAt, Done
  <2> HIDE DEF r
  <2>4. CASE id \in Present(work)
    <3>1. Abstract!Delete(id)
      BY <2>1, <2>2, <2>3, <2>4, DoesRefines, StoredPresent DEF Abstract!Delete
    <3> QED
      BY <3>1
  <2>5. CASE id \notin Present(work)
    BY <2>1, <2>2, <2>3, <2>5 DEF Does, View, Abstract!Nothing
  <2> QED
    BY <2>4, <2>5
<1>9. CASE UNCHANGED vars
  BY <1>9 DEF vars, View, Abstract!vars
<1> QED
  BY <1>1, <1>2, <1>3, <1>4, <1>5, <1>6, <1>7, <1>8, <1>9 DEF Next

\* TypedDBI keeps the promises of TypedStore: a store of objects, each found by
\* its fields, that gives a new object an id above all others, and of which
\* nothing is left of a transaction that an exception ends.
THEOREM ImplementsStore ==
  ASSUME NoHalfWrites
  PROVE  Spec => Typed
<1>1. Init => Abstract!Init
  BY InitRefines
<1>2. IInv /\ [Next]_vars => [Abstract!Next]_(Abstract!vars)
  BY NextRefines
<1> QED
  BY <1>1, <1>2, Invariant, PTL DEF Spec, Typed, Abstract!Spec
=============================================================================
