----------------------------- MODULE TypedStore -----------------------------
(***************************************************************************)
(* What lmdb-typed promises: a store of objects, each under an id, that    *)
(* can be found by any of their indexed fields because every index names   *)
(* exactly the stored objects, whatever is put, changed and deleted.  An   *)
(* exception that ends the transaction leaves nothing behind.  TypedDBI    *)
(* implements it.                                                          *)
(***************************************************************************)
EXTENDS Naturals

CONSTANTS
  Ids,        \* natural numbers, 0 for none
  Indexes,
  Values,     \* an object is its indexed fields: a function on Indexes
  NoValue

VARIABLES
  rows,       \* the objects, as the write transaction sees them
  found,      \* the index entries it sees
  saved,      \* the objects as of the last commit
  given       \* the id that the last call chose for a new object, 0 if it chose none

vars == <<rows, found, saved, given>>

Stored(r) == {i \in Ids : r[i] # NoValue}
Entries(r) == [n \in Indexes |-> {<<r[i][n], i>> : i \in Stored(r)}]

Init ==
  /\ rows \in [Ids -> Values \cup {NoValue}]
  /\ found = Entries(rows)
  /\ saved = rows
  /\ given = 0

Becomes(r) == rows' = r /\ found' = Entries(r)

\* The id that the store chooses for a new object is not 0, and above all others.
Insert(i, v) ==
  /\ i # 0
  /\ \A j \in Stored(rows) : j < i
  /\ Becomes([rows EXCEPT ![i] = v])
  /\ given' = i /\ UNCHANGED saved

\* One put under an id of the caller's choice.
InsertAt(i, v) ==
  /\ i \notin Stored(rows)
  /\ Becomes([rows EXCEPT ![i] = v])
  /\ given' = 0 /\ UNCHANGED saved

Modify(i, v) ==
  /\ i \in Stored(rows)
  /\ Becomes([rows EXCEPT ![i] = v])
  /\ given' = 0 /\ UNCHANGED saved

Delete(i) ==
  /\ i \in Stored(rows)
  /\ Becomes([rows EXCEPT ![i] = NoValue])
  /\ given' = 0 /\ UNCHANGED saved

Clear == Becomes([i \in Ids |-> NoValue]) /\ given' = 0 /\ UNCHANGED saved

\* A call that finds nothing to do, or throws before it has changed anything.
Nothing == given' = 0 /\ UNCHANGED <<rows, found, saved>>

Commit == saved' = rows /\ given' = 0 /\ UNCHANGED <<rows, found>>

\* Also what an exception that ends the transaction, and a crash, come to.
Abort == Becomes(saved) /\ given' = 0 /\ UNCHANGED saved

Next ==
  \/ \E i \in Ids, v \in Values : Insert(i, v) \/ InsertAt(i, v) \/ Modify(i, v)
  \/ \E i \in Ids : Delete(i)
  \/ Clear \/ Nothing \/ Commit \/ Abort

Spec == Init /\ [][Next]_vars
=============================================================================
