------------------------------ MODULE TypedDBI ------------------------------
(***************************************************************************)
(* TypedDBI (lmdb-typed.hh): objects in a main database, under ids, and    *)
(* one database per index that leads from a field's key to the ids.  Every *)
(* operation of RWTransaction writes to several of them, one after the     *)
(* other, and may throw in between.                                        *)
(*                                                                         *)
(* LMDB has one write transaction at a time, so the databases are the      *)
(* committed ones and the writer's.  An operation gives the databases it   *)
(* leaves, whether it got to its end, and the id it chose for a new        *)
(* object, 0 if it chose none.                                             *)
(***************************************************************************)
EXTENDS Naturals

CONSTANTS
  Keys,       \* the indexed fields' values, after keyConv
  BadKeys,    \* the keys LMDB refuses: empty or too long
  NIndexes,
  IdLimit,    \* ids are modulo this: 2^32 in the code
  NoValue,
  Uses        \* what the program does, see Use

Use == { "bad_key",    \* puts objects whose keys LMDB refuses
         "keep",       \* catches an exception, and goes on in the transaction
         "replace",    \* puts an object under an id that is taken
         "new_index" } \* declares one more index on a database with objects

ASSUME ConstantsAssumption ==
  /\ BadKeys \subseteq Keys
  /\ NIndexes \in Nat
  /\ IdLimit \in Nat \ {0, 1}
  /\ Uses \subseteq Use

Indexes == 1..NIndexes
Ids == 0..(IdLimit - 1)
Values == [Indexes -> Keys]           \* an object is its indexed fields

ASSUME NoValueAssumption == NoValue \notin Values

VARIABLES
  disk, work, txn,
  given       \* the id that the writer's last call chose and returned, 0 for none

vars == <<disk, work, txn, given>>

Stores == [main : [Ids -> Values \cup {NoValue}],
           idx : [Indexes -> SUBSET (Keys \X Ids)]]

Present(s) == {i \in Ids : s.main[i] # NoValue}

\* The store with the objects m, and the entries of the indexes N only.
Store(m, N) ==
  [main |-> m,
   idx |-> [n \in Indexes |-> {<<m[i][n], i>> : i \in {j \in Ids : n \in N /\ m[j] # NoValue}}]]

\* The constructor: it opens, or makes, the databases, and leaves what is in
\* them as it is.
Init ==
  /\ \/ disk = Store([i \in Ids |-> NoValue], Indexes)
     \/ /\ "new_index" \in Uses
        /\ \E v \in [Indexes -> Keys \ BadKeys] :
             disk = Store([i \in Ids |-> IF i = 1 THEN v ELSE NoValue], Indexes \ {NIndexes})
  /\ work = disk
  /\ txn = "none"
  /\ given = 0

---------------------------------------------------------------------------
(* The databases. *)

Done(s) == [s |-> s, ok |-> TRUE, id |-> 0]
Throw(s) == [s |-> s, ok |-> FALSE, id |-> 0]

\* insertMacro: the indexes are written in turn; a refused key throws.
WrittenNotLast(t) == Indexes \ {NIndexes}                     \* variant
Written(t) == {n \in Indexes : \A m \in 1..n : t[m] \notin BadKeys}

PutAt(s, t, id) ==
  [s |-> [main |-> [s.main EXCEPT ![id] = t],
          idx |-> [n \in Indexes |->
                     IF n \in Written(t) THEN s.idx[n] \cup {<<t[n], id>>} ELSE s.idx[n]]],
   ok |-> \A n \in Indexes : t[n] \notin BadKeys,
   id |-> 0]

\* clearMacro: the entries are removed in turn; one that is not there throws.
Cleared(s, t, id) == {n \in Indexes : \A m \in 1..n : <<t[m], id>> \in s.idx[m]}
Whole(s, id) == Cleared(s, s.main[id], id) = Indexes

\* The rows of the ids I removed, and of the ids J their index entries as far
\* as clearIndex gets.
Without(s, I, J) ==
  [main |-> [i \in Ids |-> IF i \in I THEN NoValue ELSE s.main[i]],
   idx |-> [n \in Indexes |->
              {e \in s.idx[n] : ~ (e[2] \in J /\ n \in Cleared(s, s.main[e[2]], e[2])
                                   /\ e[1] = s.main[e[2]][n])}]]

DeleteAt(s, id) ==
  IF id \notin Present(s) THEN Done(s)
  ELSE [s |-> Without(s, {id}, {id}), ok |-> Whole(s, id), id |-> 0]

\* del, then put: "this is the lazy way".
ModifyNoDel(s, id, t) ==                                      \* variant
  IF id \notin Present(s) THEN Throw(s) ELSE PutAt(s, t, id)
ModifyAt(s, id, t) ==
  LET d == DeleteAt(s, id)
  IN  IF id \notin Present(s) THEN Throw(s)
      ELSE IF d.ok THEN PutAt(d.s, t, id) ELSE d

\* Row by row, by id: the index entries first, up to the first that throws.
ClearAll(s) ==
  LET gone == {i \in Present(s) : \A j \in Present(s) : j <= i => Whole(s, j)}
      next == {i \in Present(s) \ gone : \A j \in Present(s) : j < i => j \in gone}
  IN  [s |-> Without(s, gone, gone \cup next), ok |-> gone = Present(s), id |-> 0]

MDBGetMaxID(s) ==
  IF Present(s) = {} THEN 0
  ELSE CHOOSE i \in Present(s) : \A j \in Present(s) : j <= i

\* MDB_APPEND: mdb_put refuses a key that is not above all others.
AppendAny(s, id) == id \in Ids                                \* variant
Appends(s, id) == \A j \in Present(s) : j < id

Chosen(r, id) == [r EXCEPT !.id = id]

PutNewInGap(s, t) ==                                          \* variant
  LET free == Ids \ ({0} \cup Present(s))
      id == CHOOSE i \in free : \A j \in free : i <= j
  IN  IF free # {} THEN Chosen(PutAt(s, t, id), id) ELSE Throw(s)
PutNewAt(s, t) ==
  LET id == (MDBGetMaxID(s) + 1) % IdLimit
  IN  IF Appends(s, id) THEN Chosen(PutAt(s, t, id), id) ELSE Throw(s)

---------------------------------------------------------------------------
(* RWTransaction. *)

Begin ==
  /\ txn = "none"
  /\ txn' = "open" /\ work' = disk /\ UNCHANGED <<disk, given>>

\* An exception unwinds to a place that knows nothing of the transaction, or
\* is caught where it does.
Does(r) ==
  /\ txn = "open"
  /\ work' = r.s
  /\ txn' \in (IF r.ok THEN {"open"}
               ELSE IF "keep" \in Uses THEN {"open", "thrown"} ELSE {"thrown"})
  /\ given' = (IF r.ok THEN r.id ELSE 0)
  /\ UNCHANGED disk

Objects == IF "bad_key" \in Uses THEN Values ELSE [Indexes -> Keys \ BadKeys]

Put(t) == Does(PutNewAt(work, t))

PutId(t, id) ==
  /\ id # 0
  /\ id \in Present(work) => "replace" \in Uses
  /\ Does(PutAt(work, t, id))

Modify(id, t) == Does(ModifyAt(work, id, t))

Del(id) == Does(DeleteAt(work, id))

Clear == Does(ClearAll(work))

Commit ==
  /\ txn = "open"
  /\ disk' = work
  /\ txn' = "none" /\ given' = 0 /\ UNCHANGED work

\* abort(), the transaction's end in an exception, and a crash.
AbortKeepsWork ==                                             \* variant
  /\ txn # "none"
  /\ txn' = "none" /\ given' = 0 /\ UNCHANGED <<disk, work>>
Abort ==
  /\ txn # "none"
  /\ txn' = "none" /\ work' = disk /\ given' = 0 /\ UNCHANGED disk

Next ==
  \/ Begin \/ Commit \/ Abort \/ Clear
  \/ \E t \in Objects :
       \/ Put(t)
       \/ \E id \in Ids : PutId(t, id) \/ Modify(id, t)
  \/ \E id \in Ids : Del(id)

Spec == Init /\ [][Next]_vars

---------------------------------------------------------------------------
(* Reading. *)

\* get<N> for a key that LMDB takes: the first id of the key, which LMDB orders
\* by its bytes: by value, for ids of one byte.  0 says that there is none.  (For
\* an empty key mdb_get fails, and get<N> throws.)
GetByIndex(s, n, k) ==
  LET ids == {i \in Ids : <<k, i>> \in s.idx[n]}
      first == CHOOSE i \in ids : \A j \in ids : i <= j
  IN  IF ids # {} /\ first \in Present(s) THEN first ELSE 0

---------------------------------------------------------------------------
(* Properties. *)

\* What the transaction, or the next one, and every reader can see.
Visible == {disk} \cup (IF txn = "open" THEN {work} ELSE {})

\* Types; without a transaction the writer's databases are the committed ones.
TypeOK ==
  /\ disk \in Stores
  /\ work \in Stores
  /\ txn \in {"none", "open", "thrown"}
  /\ txn = "none" => work = disk
  /\ given \in Ids

\* An index has one entry for each object, under the object's present key, and
\* no other, after any sequence of puts, changes, deletions and clears, and
\* when keys are refused in the middle of them.
IndexesExact == \A s \in Visible : s = Store(s.main, Indexes)

\* get<N>, of a key that LMDB takes, finds an object with the key exactly when
\* there is one, and never an object with another key: no stale entry hides a
\* live object behind it.
LookupsFind ==
  \A s \in Visible, n \in Indexes, k \in Keys \ BadKeys :
    LET id == GetByIndex(s, n, k)
    IN  IF \E i \in Present(s) : s.main[i][n] = k
        THEN id # 0 /\ s.main[id][n] = k
        ELSE id = 0

\* No object ever gets id 0, when ids run out included: 0
\* is what get<N> returns for none.
ZeroFree == \A s \in {disk, work} : 0 \notin Present(s)

\* TypedDBI keeps the promises of TypedStore: the indexes name exactly the
\* objects, every call changes what it says and no more, and the id that put()
\* chooses is above all others and not 0.  An exception that leaves the
\* transaction's scope is its abort: readers see what was committed.
View == IF txn = "open" THEN work ELSE disk
Abstract == INSTANCE TypedStore
              WITH rows <- View.main, found <- View.idx, saved <- disk.main
Typed == Abstract!Spec
=============================================================================
