----------------------------- MODULE IndexIter -----------------------------
(***************************************************************************)
(* An iterator (iter_t in lmdb-typed.hh) over the main database or an      *)
(* index: where begin, find, lower_bound, equal_range and prefix_range put *)
(* it, and where ++ and -- take it, while the write transaction it belongs *)
(* to changes objects, or the iterator itself deletes.                     *)
(*                                                                         *)
(* The index is exact at first (IndexesExact of TypedDBI).  A cursor is on *)
(* an entry <<key, id>>; LMDB orders keys by their bytes, and the ids of   *)
(* one key.                                                                *)
(***************************************************************************)
EXTENDS Naturals, Sequences, FiniteSets

CONSTANTS
  Ids,        \* of one byte: LMDB orders the ids of a key by their bytes
  Keys,       \* strings: sequences of bytes, not empty
  Args,       \* those that iterators are made with
  Filters,    \* what a filter may accept
  Stores,     \* what the rows are at first
  MaxWrites,  \* bound: the transaction writes so often
  Loops,      \* bound: the calls whose iterators another one may follow
  NoKey, NoEntry

ASSUME ConstantsAssumption ==
  /\ Ids \subseteq Nat /\ IsFiniteSet(Ids)
  /\ Keys \subseteq Seq(Nat) \ {<< >>}
  /\ Args \subseteq Keys
  /\ Filters \subseteq SUBSET Ids
  /\ Stores \subseteq [Ids -> Keys \cup {NoKey}]
  /\ MaxWrites \in Nat
  /\ NoKey \notin Keys
  /\ NoEntry \notin Seq(Nat) \X Nat

VARIABLES
  rows,       \* the indexed field of the object with an id, or NoKey
  idx,        \* the entries of the index
  call, arg,  \* what the iterator was made by
  filter,     \* the ids of the objects its filter accepts; Ids without one
  at,         \* the entry the cursor is on, or was on when it was deleted
  gone,       \* it was deleted since the cursor came to it
  drift,      \* the entries that were put since then
  d_on_index, d_one_key, d_prefix, d_end,
  writes,
  asked,      \* history: the objects the call is for
  seen,       \* history: the entries of the objects it has shown
  touched,    \* history: the objects written before it showed them
  ways,       \* history: the directions it has gone in
  shown,      \* history: the keys of the objects that came of index entries
  torn,       \* history: an iterator's del() was used, or a put gave an id that
              \* was taken another key: the index need not be exact any more
  threw       \* history: "Missing id"

storeVars == <<rows, idx, writes, torn>>
fixedVars == <<call, arg, filter, d_on_index, d_one_key, d_prefix, asked>>
placeVars == <<at, gone, drift, d_end, seen, shown>>
vars == <<storeVars, fixedVars, placeVars, touched, ways, threw>>

Present == {i \in Ids : rows[i] # NoKey}

\* The main database's keys are the ids.
MainEntry(i) == <<<<i>>, i>>
Entries(on_index) == IF on_index THEN idx ELSE {MainEntry(i) : i \in Present}

IsPrefixOf(p, k) == Len(p) <= Len(k) /\ SubSeq(k, 1, Len(p)) = p

\* mdb_cmp_memn: by the first byte that differs; a prefix comes first.
Less(k, l) ==
  \/ k # l /\ IsPrefixOf(k, l)
  \/ \E n \in 1..Len(k) :
       /\ n <= Len(l) /\ k[n] < l[n]
       /\ \A m \in 1..(n - 1) : k[m] = l[m]

Before(e, f) == Less(e[1], f[1]) \/ (e[1] = f[1] /\ e[2] < f[2])

First(S) == CHOOSE e \in S : \A f \in S : e = f \/ Before(e, f)
Last(S) == CHOOSE e \in S : \A f \in S : e = f \/ Before(f, e)

Init ==
  /\ rows \in Stores
  /\ idx = {<<rows[i], i>> : i \in Present}
  /\ call = "none" /\ arg = NoKey /\ asked = {}
  /\ filter = Ids
  /\ at = NoEntry /\ gone = FALSE /\ drift = {}
  /\ d_on_index = TRUE /\ d_one_key = FALSE /\ d_prefix = << >> /\ d_end = TRUE
  /\ writes = 0 /\ touched = {} /\ seen = {} /\ shown = {} /\ ways = {}
  /\ torn = FALSE /\ threw = FALSE

---------------------------------------------------------------------------
(* Making an iterator. *)

Missing(e) == e[2] \notin Present

\* The keys of the objects shown, once entry e is shown too.
ShownBy(on_index, e) == IF on_index THEN {rows[e[2]]} ELSE {}

\* The cursor is put on e, or, where S has no entry, the iterator is at its
\* end.  The constructor reads the object, and applies no filter to it.
PutOnNoEnd(S, e, on_index, one_key, prefix) ==                \* variant
  /\ at' = IF S = {} THEN NoEntry ELSE e
  /\ d_end' = FALSE
  /\ seen' = IF S = {} THEN {} ELSE {e}
  /\ shown' = {}
  /\ threw' = FALSE
  /\ d_on_index' = on_index /\ d_one_key' = one_key /\ d_prefix' = prefix
PutOn(S, e, on_index, one_key, prefix) ==
  LET throws == S # {} /\ Missing(e)
      none == S = {} \/ throws
  IN  /\ at' = IF none THEN NoEntry ELSE e
      /\ d_end' = none
      /\ seen' = IF none THEN {} ELSE {e}
      /\ shown' = IF none THEN {} ELSE ShownBy(on_index, e)
      /\ threw' = throws
      /\ d_on_index' = on_index /\ d_one_key' = one_key /\ d_prefix' = prefix

\* Some call by the name c, for the objects of the entries W; the program then
\* sets a filter, or does not.  Another iterator is made at the end of one.
\* Bound: only where torn, otherwise it would find what a first one finds.
Makes(c, k, W) ==
  /\ d_end /\ (call = "none" \/ (torn /\ call \in Loops))
  /\ call' = c /\ arg' = k
  /\ filter' \in Filters
  /\ asked' = {e[2] : e \in W}
  /\ gone' = FALSE /\ drift' = {} /\ touched' = {} /\ ways' = {}
  /\ UNCHANGED storeVars

Begin == LET S == Entries(TRUE) IN
  Makes("begin", NoKey, S) /\ PutOn(S, First(S), TRUE, FALSE, << >>)

RBegin == LET S == Entries(TRUE) IN
  Makes("rbegin", NoKey, S) /\ PutOn(S, Last(S), TRUE, FALSE, << >>)

MainBegin == LET S == Entries(FALSE) IN
  Makes("main", NoKey, S) /\ PutOn(S, First(S), FALSE, FALSE, << >>)

Of(k) == {e \in Entries(TRUE) : e[1] = k}           \* MDB_SET
From(k) == {e \in Entries(TRUE) : ~Less(e[1], k)}   \* MDB_SET_RANGE

\* ++ leaves the key, so no set of objects can be said to be asked for.
Find(k) == Makes("find", k, {}) /\ PutOn(Of(k), First(Of(k)), TRUE, FALSE, << >>)

LowerBound(k) ==
  Makes("lower_bound", k, From(k)) /\ PutOn(From(k), First(From(k)), TRUE, FALSE, << >>)

EqualRange(k) ==
  Makes("equal_range", k, Of(k)) /\ PutOn(Of(k), First(Of(k)), TRUE, TRUE, << >>)

\* The first entry from the key on, with the prefix or not: a prefix that no
\* object has shows the next, as typed-test.cc asks ("nosuchperson").
PrefixRange(k) ==
  Makes("prefix_range", k, {e \in From(k) : IsPrefixOf(k, e[1])}) /\ PutOn(From(k), First(From(k)), TRUE, FALSE, k)

---------------------------------------------------------------------------
(* Moving it. *)

\* MDB_NEXT after a deletion gives the next entry, wherever that was.  Of the
\* entries put since then LMDB may give any, D, or none; if nothing else is left
\* the cursor has lost its place.  MDB_NEXT_DUP and MDB_PREV_DUP stay on the key.
Onward(w, e) == IF w = "++" THEN Before(at, e) ELSE Before(e, at)

ReachablePrevNoDup(w, D) ==                                   \* variant
  LET settled == Entries(d_on_index) \ drift
  IN  {e \in settled \cup D : /\ Onward(w, e) \/ settled = {}
                              /\ d_one_key => e[1] = at[1]
                              /\ w = "--" /\ ~d_one_key => e[1] # at[1]}
ReachableAnyKey(w, D) ==                                      \* variant
  {e \in (Entries(d_on_index) \ drift) \cup D : Onward(w, e)}
Reachable(w, D) ==
  LET settled == Entries(d_on_index) \ drift
  IN  {e \in settled \cup D : /\ Onward(w, e) \/ settled = {}
                              /\ d_one_key => e[1] = at[1]}

WithPrefix(e) == IsPrefixOf(d_prefix, e[1])

\* The entries the filter may accept.  On an index it is given the object; on
\* the main database a value that nothing was read into, of which it may make
\* anything.
AcceptedAny == SUBSET Entries(d_on_index)                     \* variant
Accepted ==
  IF d_on_index \/ filter = Ids
  THEN {{e \in Entries(d_on_index) : e[2] \in filter}}
  ELSE SUBSET Entries(d_on_index)

\* genoperator: on to the first entry the filter accepts, unless one without
\* the prefix or an object, or the last, comes before; the end is never left
\* again.  What -- does after a deletion is not in the model.
GenOperator(w) ==
  /\ ~d_end
  /\ w = "--" => ~gone
  /\ \E D \in SUBSET drift, P \in Accepted :
       LET stops == {e \in Reachable(w, D) :
                       ~WithPrefix(e) \/ (d_on_index /\ Missing(e)) \/ e \in P}
           e == IF w = "++" THEN First(stops) ELSE Last(stops)
       IN  IF stops = {} \/ ~WithPrefix(e)
           THEN d_end' = TRUE /\ UNCHANGED <<at, gone, drift, seen, shown, threw>>
           ELSE /\ at' = e /\ gone' = FALSE /\ drift' = {}
                /\ IF d_on_index /\ Missing(e)
                   THEN threw' = TRUE /\ UNCHANGED <<seen, shown>>
                   ELSE /\ seen' = seen \cup {e}
                        /\ shown' = shown \cup ShownBy(d_on_index, e)
                        /\ UNCHANGED threw
                /\ UNCHANGED d_end
  /\ ways' = ways \cup {w}
  /\ UNCHANGED <<storeVars, fixedVars, touched>>

---------------------------------------------------------------------------
(* Writing while the iterator is in use. *)

\* What a write to object i is to the cursor, and the history: the entries O of
\* the cursor's database were deleted, then those of N put.
Noted(i, O, N) ==
  /\ ~d_end /\ writes < MaxWrites
  /\ writes' = writes + 1
  /\ touched' = IF \E e \in seen : e[2] = i THEN touched ELSE touched \cup {i}
  /\ gone' = (gone \/ at \in O)
  /\ drift' = IF gone' THEN (drift \ O) \cup N ELSE {}
  /\ UNCHANGED <<fixedVars, at, d_end, seen, shown, ways, threw>>

\* What an object with key k has in the cursor's database.
EntryOf(i, k) ==
  IF k = NoKey THEN {} ELSE {IF d_on_index THEN <<k, i>> ELSE MainEntry(i)}

\* RWTransaction::put with an id, taken or not: the row is overwritten, and the
\* entry of what was there before stays.
Put(i, k) ==
  /\ rows' = [rows EXCEPT ![i] = k]
  /\ idx' = idx \cup {<<k, i>>}
  /\ Noted(i, {}, EntryOf(i, k) \ Entries(d_on_index))
  /\ torn' = (torn \/ rows[i] \notin {NoKey, k})

\* del, and modify, which is del and put.  Where the index has not the entry of
\* the row, del throws after the row, and modify does not come to put.
WriteKeepsEntry(i, k) ==                                      \* variant
  /\ rows' = [rows EXCEPT ![i] = k]
  /\ idx' = idx \cup ({<<k, i>>} \ {<<NoKey, i>>})
  /\ Noted(i, {}, EntryOf(i, k) \ Entries(d_on_index))
  /\ UNCHANGED torn
Write(i, k) ==
  LET old == EntryOf(i, rows[i])
      l == IF <<rows[i], i>> \in idx THEN k ELSE NoKey
  IN  /\ i \in Present
      /\ rows' = [rows EXCEPT ![i] = l]
      /\ idx' = (idx \ {<<rows[i], i>>}) \cup ({<<l, i>>} \ {<<NoKey, i>>})
      /\ Noted(i, old, EntryOf(i, l) \ (Entries(d_on_index) \ old))
      /\ UNCHANGED torn

Modify(i, k) == Write(i, k)
Del(i) == Write(i, NoKey)

\* The iterator's own del(): of the database under its cursor, and no other.
\* Where the entry under the cursor is gone it takes the next one instead, or one
\* that was put since, if it finds any: mdb_cursor_del's answer is not looked at.
UnderCursor ==
  LET next == {e \in Entries(d_on_index) \ drift : Before(at, e)}
  IN  IF gone THEN drift \cup (IF next = {} THEN {} ELSE {First(next)}) ELSE {at}

IterDel ==
  /\ at # NoEntry
  /\ \E e \in UnderCursor :
       /\ IF d_on_index
          THEN idx' = idx \ {e} /\ UNCHANGED rows
          ELSE rows' = [rows EXCEPT ![e[2]] = NoKey] /\ UNCHANGED idx
       /\ Noted(e[2], {e}, {})
  /\ torn' = TRUE

Next ==
  \/ Begin \/ RBegin \/ MainBegin
  \/ \E k \in Args : Find(k) \/ LowerBound(k) \/ EqualRange(k) \/ PrefixRange(k)
  \/ GenOperator("++") \/ GenOperator("--")
  \/ \E i \in Ids : Del(i) \/ \E k \in Keys : Put(i, k) \/ Modify(i, k)
  \/ IterDel

Spec == Init /\ [][Next]_vars

---------------------------------------------------------------------------
(* Properties. *)

\* Types; an iterator that is not at its end is on an entry, or where one was.
AllEntries == (Keys \X Ids) \cup {MainEntry(i) : i \in Ids}
TypeOK ==
  /\ rows \in [Ids -> Keys \cup {NoKey}]
  /\ idx \subseteq Keys \X Ids
  /\ call \in {"none", "begin", "rbegin", "main", "find", "lower_bound",
               "equal_range", "prefix_range"}
  /\ arg \in Keys \cup {NoKey}
  /\ filter \in Filters \cup {Ids}
  /\ {d_on_index, d_one_key, d_end, gone, torn, threw} \subseteq BOOLEAN
  /\ d_prefix \in Keys \cup {<< >>}
  /\ seen \subseteq AllEntries /\ shown \subseteq Keys
  /\ asked \subseteq Ids /\ touched \subseteq Ids
  /\ ways \subseteq {"++", "--"}
  /\ writes \in 0..MaxWrites
  /\ drift \subseteq Entries(d_on_index) /\ (drift # {} => gone)
  /\ at # NoEntry /\ ~gone => at \in Entries(d_on_index)
  /\ ~d_end => at # NoEntry

Seen == {e[2] : e \in seen}

\* A loop that goes ++ (for rbegin --) to the end has shown each object that
\* was asked for and that the filter accepts, and no other but the one the
\* iterator started on, which no filter is applied to.  So it is too when the
\* loop deletes and changes the objects it shows, or puts new ones, but for
\* objects that it writes before they were shown.
RangeExact ==
  /\ asked # {} /\ (filter = Ids \/ d_on_index) /\ ~threw
  /\ d_end /\ ways = (IF call = "rbegin" THEN {"--"} ELSE {"++"})
  => /\ (asked \cap filter) \ touched \subseteq Seen
     /\ \E i \in Seen : Seen \subseteq {i} \cup (asked \cap filter) \cup touched

\* However the program mixes ++, -- and writes, and whatever is thrown: between
\* two entries it was shown it was shown every object that the filter accepts,
\* but for those that were written before.
NoGaps ==
  filter = Ids \/ d_on_index =>
    \A g \in Entries(d_on_index) : g[2] \in (Present \cap filter) \ (touched \cup Seen) =>
      \A e, f \in seen : ~(Before(e, g) /\ Before(g, f))

\* However the program mixes ++, -- and writes, an equal range comes to no entry
\* of another key, and shows no object with another key; a prefix range to none
\* without the prefix, if any had it.  An object can have another key than its
\* entry only where an iterator's del() or a put over a taken id tore the index.
InRange ==
  /\ call = "equal_range" =>
       (\A e \in seen : e[1] = arg) /\ (torn \/ shown \subseteq {arg})
  /\ call = "prefix_range" /\ asked # {} =>
       /\ \A e \in seen : IsPrefixOf(arg, e[1])
       /\ torn \/ \A k \in shown : IsPrefixOf(arg, k)

\* "Missing id" comes only where an iterator's own del() was used, or a put gave
\* an id that was taken another key: not of del, modify, and puts of new ids, in
\* whatever order, under an iterator.
NoMissingId == threw => torn
=============================================================================
