# lmdb-safe in TLA+

lmdb-safe wraps LMDB, an embedded key-value store, in C++ classes that keep the rules
LMDB leaves to its callers: one environment per file and process, one transaction per
thread, no concurrent `mdb_dbi_open`, cursors that are closed exactly once.  On top of
it `lmdb-typed.hh` builds a store of C++ objects with automatic indexes.  This
directory models the library, checks the models with TLC and proves the results that
matter most with TLAPS.  LMDB itself is external: the models say what its calls do, as
far as `lmdb-safe.cc` and `lmdb-typed.hh` use them.

Contents: [inventory](#inventory), [modules](#modules), [runs](#runs),
[what breaks outside the rules](#what-breaks-outside-the-rules),
[fairness](#fairness), [proofs](#proofs), [not modelled](#not-modelled),
[plan](#plan).

## Inventory

| component | state it keeps | operations | who else touches it |
|---|---|---|---|
| `getMDBEnv` | `s_envs` (inode to `weak_ptr` and flags), `mut` | `getMDBEnv`, dropping the `shared_ptr`, `~MDBEnv` | every thread; other processes change the directory |
| `MDBEnv` | per-thread counters of RO and RW transactions, `d_openmut` | `getROTransaction`, `getRWTransaction`, `openDB` | every thread; the transactions, through a raw pointer |
| `MDBROTransactionImpl`, `MDBRWTransactionImpl` | `d_txn`, `d_parent`, the cursor registries | `commit`, `abort`, destructor, nested `getRWTransaction`, `openDB` | the cursors, through a raw pointer to a registry |
| `MDBGenCursor` | `d_registry`, `d_cursor` | construct, move, assign, `close`, destructor, and positioning | its transaction, through the address in the registry |
| `TypedDBI` and its transactions | main database, up to four indexes | `put`, `modify`, `del`, `clear`, `get`, `get<N>`, `commit`, `abort` | one writer at a time; readers see what was committed |
| `iter_t` | a cursor, `d_one_key`, `d_prefix`, `d_end`, `filter` | `begin`, `find`, `lower_bound`, `equal_range`, `prefix_range`, `++`, `--`, `del` | the writer it belongs to, whose writes move LMDB's cursor under it |
| `MDBInVal`, `MDBOutVal`, `keyConv`, serialization | none | conversions | pointers into the map |
| map resizing in `openROTransaction`, `openRWTransaction` | `tries`; LMDB's map | the retry loop of `mdb_txn_begin` and `mdb_env_set_mapsize` | the other threads, whose transactions read through the map; other processes, which let the file grow |
| `lmdb-view`, examples, tests | none of their own | uses of the library | |

What is hard here, and what makes each component correct:

- **Environment and transactions.**  Bookkeeping stands in for a rule of LMDB's: a
  counter that is one off refuses a thread for ever, or lets it take a second
  transaction, which can deadlock on LMDB's writer lock.  Nested transactions, failed
  begins, failed commits, exceptions out of `openDB`, and an end of the parent before
  its child all pass through the counters.  `openDB` holds one lock while it waits for
  another.  Correct means: counters equal the unfinished objects, no two forbidden
  transactions in a thread, a refusal only where there is a reason, no self-deadlock,
  and the writer lock is always given back.
- **Registry.**  The file is looked up outside the mutex and opened inside it by name;
  a `weak_ptr` expires before the file is closed.  Correct means: one environment per
  file, shared by all who ask with the same flags, and none that is dead.
- **Cursors.**  The registry holds addresses of C++ objects that move.  Correct means:
  it holds exactly the live ones, each LMDB cursor has one owner and is closed once,
  before or after its transaction in any order, with nested transactions in between.
- **Map resizing.**  The loop runs with no lock, next to threads that have transactions
  open and others in the same loop, and ignores what `mdb_env_set_mapsize` returns.
  Correct means: nobody's map is taken away (which the code keeps only while no other
  process outgrows the map), a transaction's version is mapped, and a call gives up only
  when each of its retries came to nothing.
- **Typed store.**  One call writes several databases and can throw between two of
  them.  Correct means: each index names exactly the stored objects, a new object gets an
  id above all others, and an exception that ends the transaction leaves nothing.
- **Iterators.**  Ends of keys, prefixes and filters meet in one loop with a `goto`, and
  the loop's body may write to the databases it runs over.  Correct means: a range shows
  exactly what it was asked for, but for objects changed before it came to them.

`PROJECT.json` lists the hazards one by one, at their lines, with the properties that
cover them, or the reason none does.

## Modules

| module | models | kind |
|---|---|---|
| `TxnDiscipline` | what the README of lmdb-safe promises about transactions | abstract specification |
| `MDBEnv` | `MDBEnv`, both transaction classes, `openDB` | core |
| `MCMDBEnv` | symmetry of threads and transactions | for TLC |
| `MDBEnvProofs` | inductive invariant and theorems about `MDBEnv` | proofs |
| `MDBEnvRefinement` | `MDBEnv` implements `TxnDiscipline` | proofs |
| `MapResize`, `MCMapResize` | the retries of `mdb_txn_begin` and the map | component |
| `MapResizeProofs` | inductive invariant and theorems about `MapResize` | proofs |
| `EnvRegistry`, `MCEnvRegistry` | `getMDBEnv` and its registry | component |
| `EnvRegistryProofs` | four layers of invariants and the theorems about `EnvRegistry` | proofs |
| `CursorProtocol` | LMDB's rules for cursors | abstract specification |
| `Cursors`, `MCCursors` | `MDBGenCursor` and the transactions' registries | component |
| `CursorsProofs` | inductive invariant and theorems about `Cursors`, which implements `CursorProtocol` | proofs |
| `TypedStore` | what lmdb-typed promises | abstract specification |
| `TypedDBI`, `MCTypedDBI` | `RWTransaction` over main database and indexes | component |
| `FiniteLemmas` | lemmas: least, greatest and minimal elements of finite sets; sums over them | proofs |
| `TypedDBIProofs` | inductive invariant and theorems about `TypedDBI`, which implements `TypedStore` | proofs |
| `IndexIter`, `MCIndexIter` | `iter_t`, over databases that its transaction writes to | component |
| `IndexIterProofs` | byte order, four layers of invariants and the theorems about `IndexIter` | proofs |

The modules compose by what they take from one another.  `Cursors` begins transactions
under the rule `MDBEnv` is proved to keep.  `MapResize` is what `Begin` and `BeginFails`
of `MDBEnv` take for one step.  `TypedDBI` has one writer, because `ThreadDiscipline` and
LMDB's lock give it one.  `IndexIter` starts from an index that is exact, because
`IndexesExact` holds of `TypedDBI`, and repeats of `put`, `modify` and `del` what they do
to one row and one index.

Every component but the last has a constant `Uses`, a set of names of things the program may do
beside the plain calls: use the library in a way its documentation warns of or leaves
open, or meet a failure of LMDB.  A guard with the name is in the action that the use
enables.  So each run says which uses its properties survive, and the proofs say it too.

### MDBEnv

| variable | in the code |
|---|---|
| `rdOnly` | the environment's flag `MDB_RDONLY`, which `openDB` asks for |
| `transactionsOut[k][t]` | `d_ROtransactionsOut`, `d_RWtransactionsOut` at thread `t` |
| `d_openmut` | who holds the mutex of `openDB` |
| `impl`, `owner`, `d_txn` | a transaction object, its `unique_ptr`, its pointer |
| `handle`, `ancestors` | LMDB's own transaction and its parents |
| `opened` | who has called `mdb_dbi_open` |
| `pc`, `cur` | where a blocked call is; the local `rwt` of `openDB` |
| `ub` | a freed `MDB_txn` went back to LMDB; nothing is said of what follows |

An action is one call, except where a thread can block or others can see the middle.
`GetTransaction` is the check of the counters; `Begin` and `BeginFails` are
`mdb_txn_begin` with its retries, and what follows it.  `Finish` is `commit()` and
`abort()` of either class, `CommitFails` the `commit()` that throws, `Destroy` the
destructor.  `Nested` is `MDBRWTransactionImpl::getRWTransaction`; on an object whose
transaction ended it is `NestedOnClosed`.  `openDB` is `OpenDB` (waiting for the mutex),
`OpenDBLock`, `Begin`, `DbiOpen`, `OpenDBReturn`, with `OpenDBCommitFails`.

Two points on LMDB.  A full map (`MDB_MAP_FULL`) at a put marks the transaction, and
its `mdb_txn_commit` then fails; so do a full disk and an I/O error: `commit_fails` is no
exotic case.  And `mdb_txn_commit` frees the transaction whether it succeeds or not.

### EnvRegistry

A call of `getMDBEnv` is one step for `stat`, before the mutex, and one under it
(`Lookup`, `OpenFound`, `OpenFails`).  A call that found no file has two under it,
`OpenMissing` and `Register`, since another process may change the directory between
the opening and the second `stat`.  A
`shared_ptr` is dropped in two steps: the count goes to zero, then `mdb_env_close`.
Inodes stand for files; a free one can be used again.  `mdb_env_open` makes the file
`getMDBEnv` looks for only if the flags have `MDB_NOSUBDIR`; otherwise the name is a
directory that must exist, and `OpenFails` is what a missing one leads to.  `OpenFails`
may leave a new file behind: `mdb_env_open` can fail after it made one.

Two of the uses are about one name or one file.  Without `create_races` no two calls have
both found no file of one name; a call whose `stat` finds the file just made, and which then
waits for the mutex until it is registered, is a plain use.  Without `close_races`
no call comes for a file whose environment is being closed; calls for other files do.

### MapResize

| variable | in the code |
|---|---|
| `pages`, `map`, `mapped` | LMDB's: size of the file as of the last commit, size of this process's map, whether there is one |
| `txn`, `needs` | a thread's open transaction, and the size of the version it works on |
| `cut` | the threads whose transaction had the map taken away |
| `pc`, `kind`, `tries` | where a thread is in the loop, for which kind, and the local `tries` |
| `grown` | history: commits of other processes since the call began |
| `outgrown` | history: one of them made the file larger than this process's map |
| `ub` | memory that is not mapped was used |

`Call` enters `openROTransaction` or `openRWTransaction`, past the counters.  `Begin`,
`Resized` and `Throws` are the three ways on from `mdb_txn_begin`: success,
`MDB_MAP_RESIZED` with tries left, the exception.  `mdb_env_set_mapsize(env, 0)` is
`SetMapSizeRefused` (LMDB says `EINVAL` while this process writes, and the code does not
look), or `SetMapSize`, `Unmap` and then `Map` or `MmapFails`: other threads come in between.
`Unmap` takes the map away from whoever has a transaction open (`cut`), a writer that began
since LMDB looked included.  `Undefined` is what may come of it: a transaction that goes on in a
map that was taken away, or a call that looks at a map that is not there.  `Put` and `End` are
what makes the file grow from here, `OtherCommits` from outside.  It does not matter to any of
this which thread a transaction is of: a thread with several read-only transactions is as many
of the model's threads.

LMDB is external, and what is said of it was taken from how the code calls it:
`mdb_env_set_mapsize` with size 0 adopts a size no smaller than the file, and does not
check for readers of its own process.

### Cursors

A variable of the program stands for an address, so a new object can come to be where a
dead one was.  A registry is a multiset of addresses.  `MoveConstruct` and `MoveAssign`
are the two moves with `move_from`; `EndTxn` is `closeRORWCursors`, in which each
`close()` takes its object out of a vector that was swapped out, and the end.  RO and RW
cursors have different types and do not move into one another; a write transaction gives
out both and has a registry for each type, which the model tells apart by the type of
the address.

`Nested` is `MDBRWTransactionImpl::getRWTransaction`.  While a nested transaction is open
nothing can be done in its parent, but the parent's cursor objects can still be moved,
closed and destroyed: LMDB then keeps the `MDB_cursor`, to restore it if the nested
transaction aborts, and frees it when the parent ends (`Freed`).  A parent that ends
before its child is a use of `MDBEnv` (`parent_first`), and is left to that module.

### TypedDBI

An object is the tuple of its indexed fields, after `keyConv`; what else it contains no
index can tell.  An operation is a function from the databases to the databases it
leaves, whether it threw (the same databases may be left half-written), and the id that
`put` chose for a new object.  `given` keeps that id until the next call: it is what
`TypedStore` asks to be above all others, of a put without an id and of no other.  Ids are
modulo `IdLimit` (2^32 in the code), so that they run out.  `Abort` is `abort()`, an
exception that leaves the transaction's scope, and a crash: LMDB forgets the
uncommitted transaction in all three.

`GetByIndex` is `get<N>` for the keys that LMDB takes, and `LookupsFind` is about those.
For an empty key `mdb_get` fails, and `get<N>` throws.

### IndexIter

`Begin`, `RBegin`, `MainBegin`, `Find`, `LowerBound`, `EqualRange` and `PrefixRange` put the
cursor, the constructor reads what is there (`PutOn`), `GenOperator` is `++` and `--` with
the loop over what the filter refuses.  `Less` is LMDB's comparison of byte strings.

`Put`, `Modify`, `Del` and `IterDel` are what the loop's body can do.  `Put` is a put with any
id: under one that is taken it overwrites the row and leaves the entry of what was there.
`IterDel` is `iter_t::del`, which deletes in the database under the cursor only; where the
entry under the cursor was deleted before, it takes the next one (`UnderCursor`).  Both tear
the index (`torn`), and after them the other operations meet a store that is no longer
exact: `Write` says where they throw, and the iterator throws "Missing id" where an entry has
no row (`threw`), or shows an object under a key that it has not any more (`shown` has the
objects' keys, `seen` the entries).  Another iterator is made only where the index is torn, since
otherwise it would find what the first one finds.

LMDB keeps the cursors of a transaction in their place through its writes.  `gone` says
that the entry under the cursor was deleted: `MDB_NEXT` then gives the next entry, wherever
that was.  Of the entries put after the deletion (`drift`) LMDB may give any or none, as
pages fall; the model lets it.  The histories `asked`, `seen`, `shown`, `touched`, `ways` are
what the properties speak of.

## Runs

Twelve runs: eight pass, four show a property that the documentation states and the
code does not keep.

| run | instance | distinct states | shows |
|---|---|---|---|
| `discipline` | 3 threads, 3 transactions, read-only or not, commits fail, parents end first | 30,420 | exact counters, the discipline and its refinement, justified refusals, no self-deadlock, one `mdb_dbi_open` at a time |
| `handoff` | 2 threads, 3 transactions, every use | 274,564 | whatever is done, each transaction is counted and discounted once over all threads |
| `writer_released` | 2 threads, 3 transactions, plain use, fairness | 40,114 | the writer lock is released again |
| `registry` | 3 threads, 2 names, 2 files, 3 environments, 2 flags, environments closing during calls, calls that find a file just made | 642,803 | all holders of a file hold one environment, with the flags they asked for; no dead entry |
| `cursors` | 3 transactions, 3 read-only and 2 read-write cursor variables, 4 LMDB cursors | 3,337 | exact registries, no cursor with two owners or a dead one, closed once, around nested transactions too; refines `CursorProtocol` |
| `typed_store` | 3 keys, one refused by LMDB, 2 indexes, 3 ids and 0 | 45,378 | exact indexes, `get<N>` finds what there is, no id 0; refines `TypedStore`, new ids above all others included |
| `ranges` | 3 ids, 3 keys of 1 and 2 bytes, indexes over them in which the third object has the longer key or is not there, 2 writes of any kind | 1,938,320 | ranges are exact, through writes in the loop; no mixture of `++` and `--` leaves them, or passes over an object between two it showed; "Missing id", and objects under other keys than their entries', have two causes |
| `resize` | 3 threads, a file of up to 4 pages, 3 tries, maps that cannot be had | 1,737,594 | until another process outgrows the map no map is taken away and every version is mapped; a call gives up only with reason |

State counts are after symmetry reduction, which is used where the constants are
interchangeable model values and no liveness is checked.  `cursors` is
small because all four of its sets are symmetric: with symmetry a state stands for up to
3! * 3! * 2! * 4! = 1,728.

The four disagreements (each a finding in `PROJECT.json`):

- `v_commit`: a `commit()` that fails throws before it clears `d_txn`
  (`lmdb-safe.cc:201`).  The destructor then aborts the transaction LMDB has freed.
- `v_opendb`: a thread with a write transaction calls `MDBEnv::openDB`.  It waits for
  `d_openmut` before anything looks at its counters; the holder of the mutex waits for
  the writer lock.  Two threads wait for ever, where one should get "Duplicate RW
  transaction" (`lmdb-safe.cc:138`).
- `v_create`: two calls that both found no file open it twice; the second does not look
  into the registry when it gets the mutex (`lmdb-safe.cc:98`).
- `v_remap`: a thread that begins a transaction and is told `MDB_MAP_RESIZED` calls
  `mdb_env_set_mapsize` while other threads have transactions open
  (`lmdb-safe.cc:173`, `lmdb-safe.cc:242`): LMDB unmaps the file under them.

### Bounds

- *Threads.*  Two suffice for each deadlock and race between two calls; the third lets
  one wait while two others meet.  Threads meet only at the writer lock, `d_openmut` and
  the registry's mutex, each of which one thread holds at a time.
- *Transactions.*  Three make a parent, its child and a transaction of another thread,
  or a child of a child.  The theorems do away with both bounds.
- *`MaxRO`.*  A thread that is handed readers and ends them counts down without limit, so
  a thread hands one off only while it counts no more than `MaxRO` itself.  The bound is on
  the one action that would let the counters grow, in `handoff` only.
- *Files, environments.*  Two names for up to two files give one name with two files in
  turn, and two names of one file.  Three environments let one close, one live and
  one be made.
- *Cursor variables.*  Three of one type and two of the other: a move chain of three, an
  object at a reused address, and cursors of both types in a transaction, its parent or
  its child.  Three transactions make a nested one in a nested one, four `MDB_cursor`s
  more than one per transaction.  The theorems do away with all four bounds.
- *`MaxPages` = 4, `MaxTries` = 3.*  The map starts with 1 page at the least, so that
  other processes can let the file grow three times in one call: once before each try.
  `MaxTries` is the number in the code; `MapResizeProofs` proves it for any.
- *`IdLimit` = 4.*  Ids 1, 2, 3: gaps, a deleted highest, and the wrap to 0.  LMDB orders
  index entries of a key by the ids' bytes; ids of one byte are in order either way.
- *`Stores`, `Args`, `Loops`*, in `ranges`.  The first two objects may have any keys or be
  absent, the third has the longest key or is absent.  Iterators are made with a key and with
  one that it is a prefix of.  A second iterator follows one over the main database only, whose
  `del()` takes rows and leaves their entries to be found.
- *Keys.*  In `typed_store` one key that two objects share, another, and one that LMDB
  refuses.  In `ranges` a key, one of which it is a prefix, and one that is neither.
  Objects may share a key, and ids come in any order of the keys.
- *`MaxWrites` = 2.*  One write moves the cursor's entry away, a second puts something
  where it was, or meets what an iterator's `del()` or a put over a taken id left: such a put
  and a deletion leave an entry without a row.  Three objects are one behind the
  cursor, one under it and one ahead.
- *`Filters`.*  No filter, and one that accepts a single object, which the loop then has to look
  for before, behind and between the others.

`CHECK_DEADLOCK FALSE` is said where the system may stop: in `handoff` and `v_opendb`
two threads may block each other, as `v_opendb` shows, in `ranges` a loop that has come
to its end is over, and in `resize` nothing is said after undefined behaviour.

## What breaks outside the rules

The uses that a passing run leaves out are not left out of the model.  Adding them shows
what the library does not protect from; the shortest behaviours have at most eight
states.

| use | property that fails | what happens |
|---|---|---|
| `parent_first` | `NoUseAfterFree` | the parent ends, the nested object still points to freed memory |
| `nest_closed` | `ThreadDiscipline` | nesting in a transaction that has ended begins a top-level one past the check (`lmdb-safe.cc:326` passes a null parent) |
| `hand_off` | `RefusalJustified` | a reader that ends on another thread leaves one counter at 1, the other at -1, and both threads are refused from then on |
| `manual_open` | `OneOpener` | `openDB` of two transactions: no mutex |
| `close_races` | `OpenedOnce` | a file is opened again after the `weak_ptr` expired and before `mdb_env_close` (the same-environment property survives: it speaks of environments that are held) |
| `outside_races` | `SameEnvironment`, `EntriesLive`, `GetsFileAsked` | the name denotes another file when it is opened than when it was looked up |
| `assign_live` | `OwnedOnce` | the overwritten cursor has no owner and is never closed; `lmdb-safe.hh:307` says a cursor of a read-only transaction must be |
| `assign_live` | `RegistryExact`, `NoDangling` | the address is registered twice (`lmdb-safe.hh:369`), or in the registries of two transactions: an entry survives the object, and the end of that transaction calls `close()` on an object that is gone, or closes a cursor of another transaction |
| `replace` | `IndexesExact`, `LookupsFind` | `put` with an id that is taken leaves the old index entries; what an iterator makes of them is in `ranges` |
| `bad_key` with `keep` | `IndexesExact` | a caught exception, and a commit of what was half-written |
| `new_index` | `IndexesExact` | an index declared later does not have the old objects |

The source comments or the README warn of some (`openDB` in transactions,
`MDB_NOTLS`); the others are for a maintainer to decide on.

Four more points came up while reading; no run is about them.

- `src/README.md:332-338` shows `find<1>(4)`, then `++` up to `end()`, as the loop over the
  items with `domain_id = 4`.  `find` gives an iterator without `d_one_key`
  (`lmdb-typed.hh:481`), so that loop goes on to the items of the next keys;
  `equal_range` is the loop over one key.  For this reason `Find` of `IndexIter` asks for
  no set of objects.
- `typed-example.cc:172` announces a loop over an integer field as "ordered by
  domain_id!".  `keyConv` copies the integer's bytes (`lmdb-typed.hh:77`), and LMDB compares
  bytes from the first: on a little-endian machine 256 comes before 1.
- A copied `MDBInVal` of a number points to the `d_memory` of the one it was copied from
  (`lmdb-safe.hh:181`).  The library passes it by reference only.
- A loop over an index that calls `modify` moves the object to its new place in the index, where
  the loop may come to it again; if each change moves it on, the loop has no end.
  `RangeExact` says what is left: each object that is not written before it was shown, is shown.

## Fairness

Only `writer_released` and `v_opendb` speak of liveness.  `FairSpec` assumes

- weak fairness of `Inside(t)`: a thread inside a call of the library goes on when it
  is not blocked.  The operating system schedules it.
- strong fairness of `Destroy(t, x)`: every transaction object is destroyed at some
  point.  It is the RAII the README builds on: the scope that has the `unique_ptr` ends.
  Strong, because the thread may be inside another call whenever one looks.

Nothing is assumed of the order in which a mutex or the writer lock is given out: a
thread may wait for ever while others take turns.  So no property says that a given
thread gets the lock, only that the lock is released, `WriterReleased`.  In `v_opendb`
the circle of two waiting threads disables both `Inside` actions, so the violation is
of the code and not of a thread that stops.

## Proofs

A theorem holds for every value of the constants that its module's `ConstantsAssumption`
and its own hypotheses admit.  The hypotheses are about `Uses` only, but for `TotalsExact`, which
adds up over the threads and needs finitely many of them.  For every use that
some theorem excludes, the table above, or `v_create`, names properties that it breaks.

### MDBEnv

All of it is for any set of threads and any finite set of transaction objects, and for
every `MaxRO`.  `KeepsToThread` is the assumption that neither `hand_off` nor `nest_closed`
is in `Uses`: a transaction stays on its thread, and nesting is in open transactions.
The rest (failed commits, a parent that ends first, `openDB` anywhere and by
transactions) is allowed.  The table above shows that without `KeepsToThread`
`RefusalsJustified` and `NeverTwoTransactions` are false.

| theorem | assumes | says |
|---|---|---|
| `TypeCorrect` | nothing | `TypeOK` always |
| `CountersExact` | `KeepsToThread` | the counters are the numbers of unfinished objects |
| `NeverTwoTransactions` | `KeepsToThread` | `ThreadDiscipline` always |
| `NeverSelfDeadlocked` | `KeepsToThread` | a thread that waits for the writer lock holds no transaction |
| `RefusalsJustified` | `KeepsToThread` | a thread without transactions is never refused |
| `OneAtATime` | no `manual_open` | `OneOpener` always: one open transaction at a time has used `mdb_dbi_open` |
| `TotalsExact` | finitely many threads | `CountsConserved` always, for every use: over all threads the counters add up to the unfinished objects |
| `EnvImplementsDiscipline` | `KeepsToThread` | `MDBEnv` implements `TxnDiscipline` |

The inductive invariant is `IInv`, of `TypeInv` and `SafeInv`.  The properties are not
inductive alone:

- `TypeOK` needs `InOpenDB`: inside `openDB`, `cur` is an object of the thread, and counted.
- `ThreadDiscipline` speaks of LMDB's transactions, the counters count pointers.
  `Pointed` (an open transaction has its object's pointer) bridges them; it fails to be an
  equivalence exactly after a failed commit, and only in the harmless direction.
- Between the check of the counters and `mdb_txn_begin` lies a wait.  `Checked` says that a
  thread that waits would still pass: nobody else touches its counters.  That is where
  `KeepsToThread` enters.

The argument: `CountsExact` and `OutFinite` turn a zero counter into an empty set of
objects, `Pointed` into no open transactions (`NotRefused`); `Constructed` and `Discounted`
carry the counting through the two ways a counter changes.  The refinement maps
`reading` and `writing` to the open transactions by thread.  It needs `Linked`: the
ancestors of an open transaction are open write transactions of the same thread.  With
it, the end of a parent with all its descendants is one `EndWrite`.

`OneAtATime` has an invariant of its own, `OpenInv`: `openDB` has the mutex from `mdb_txn_begin`
to its return, and an open transaction that used `mdb_dbi_open` is the one of the thread that has it.
The proof needs no discipline of threads: what other threads do leaves the mutex's owner alone
(`OutsideKeeps`).

`TotalsExact` is what remains of `CountersExact` when transactions change threads: one thread's
counter may then be 1 and another's -1.  `CountsConserved` is inductive with `TypeInv`.  Its
sum is a recursive function on the sets of threads (the folds of the community modules), and what
such a function computes would be shown by induction over sets.  `FiniteLemmas` does
without an induction theorem.  The recursion has a value, since there is no least size up to which
it has none (`SumsExist`).  `SmallestSubset` gives, of a family of finite sets, one that has no
member with an element less: so no set can be the smallest on which the sum changes by anything
but the change of its one summand (`SumChanges`).  What is left is that each action that makes or unmakes an object's pointer
changes one counter of its kind by one (`ConstructTotal`, `DiscountTotal`), and that `OpenDBReturn`,
`Finish` and `Destroy` come to an object at most once (`DeletedTotal`).

### Cursors

For any sets of transactions, cursor objects and `MDB_cursor`s.  `NeverOverwrites` is the
assumption that `assign_live` is not in `Uses`: no program assigns to a cursor that is in
use.  The table of uses shows that without it `OwnedOnce`, `RegistryExact` and
`NoDangling` are false.

| theorem | assumes | says |
|---|---|---|
| `TypeCorrect` | nothing | `TypeOK` always |
| `CursorsHeldOpen` | nothing | what an object holds is open, in the transaction it is registered with |
| `RegistriesExact` | `NeverOverwrites` | a registry is its transaction's live objects, each once |
| `CursorsOwned` | `NeverOverwrites` | no `MDB_cursor` has two owners, one of a read-only transaction has one |
| `NeverDangling` | `NeverOverwrites` | no end of a transaction reaches a dead object |
| `CursorsImplementProtocol` | `NeverOverwrites` | `Cursors` implements `CursorProtocol` |

`BaseInv` holds in every program: `TypeOK`, `HeldOpen`, `OneOwner` (objects that hold the same
cursor are the same) and `Covered` (a live object's address is in the registry of its
transaction).  An assignment to a cursor in use adds addresses to registries that lead
nowhere, but it takes none away that is needed: the end of a transaction still closes
whatever holds a cursor of it, and that is all `HeldOpen` needs.

The inductive invariant `IInv` adds the rest.  `RegistryExact` is `Covered` in both directions.
`Kept` is the half of `OwnedOnce` that `OneOwner` is not: a cursor of a read-only transaction
has an object; and an open cursor's transaction is open.  `ParentsWrite` says that only write
transactions have children: that is why a cursor LMDB does not free at once, because its
transaction has a child, never is one that nothing else would free.  The two moves share
`TakeFromBase` and `TakeFromInv`, and close and destructor `CloseOneBase` and `CloseOneInv`.  The refinement maps `openIn` to the open cursors of each
transaction; `FreedOne` makes a close one `CloseCursor` or a stutter, and `FreedAll` makes
`EndTxn` the end of exactly the transaction's own cursors, for which it needs `RegistryExact`,
`HeldOpen` and `Kept` together.

### MapResize

For any set of threads, any `MaxPages` and any positive `MaxTries`, with failing maps or not.

| theorem | assumes | says |
|---|---|---|
| `TypeCorrect` | nothing | `TypeOK` always: no call goes on past its last try |
| `MapKeptWithin` | nothing | `MapKept` always: until another process outgrows the map none is taken away, no call gives up, and what a transaction works on is mapped |
| `GivingUpJustified` | nothing | a call throws only after `MaxTries - 1` growths of the file by others |

`MapKept` is not inductive: until the map is outgrown the file fits it and no call is past
`mdb_txn_begin` in its loop (`NeverResized`), for which the process's own commits must fit too
(`VersionFits`).  Nor is the bound on `tries`: a writer's file stays in the map because
LMDB lets nobody else commit meanwhile (`WriterFits`), a call that is between two tries has one
left (`TriesLeft`), and one thread at a time is between `munmap` and `mmap` (`OneUnmapped`).
Once the map is outgrown `MapKept` says nothing, and `v_remap` shows that it could not.
`TriesPaid` carries `GivesUpJustified`: each try is paid for by a growth of the file, but for
a try after which the map has caught up; a call that is then told `MDB_MAP_RESIZED` again has
paid for all of them, since only another process's commit makes the file larger than the map.

### EnvRegistry

For any sets of threads, names, files, environments and flags.  The three hypotheses leave
one kind of race out each: `NoOutsideRaces` other processes that replace a file during a
call, `NoCreateRaces` two calls that have both found no file of one name, `NoCloseRaces` a
call for a file while its environment is closing.  All other calls may overlap, one that finds
the file another is just making, and waits for the mutex, included.

| theorem | assumes | says |
|---|---|---|
| `TypeCorrect` | nothing | `TypeOK` always: what is held is open, the mutex is held between the steps of a call that creates |
| `FlagsAsAsked` | nothing | nobody gets an environment that has other flags than he asked for |
| `EntriesAreLive` | `NoOutsideRaces` | no entry leads to a dead environment, or to one of another file |
| `FileAsAsked` | `NoOutsideRaces` | a call gets the environment of the file its name denotes |
| `EnvironmentsShared` | `NoOutsideRaces`, `NoCreateRaces` | all who hold a file hold one environment |
| `NeverOpenedTwice` | all three | `OpenedOnce`: no file is open twice in the process |

The last one is the rule `v_create` shows broken: it says that the races in the table are
all that breaks it.  The invariants come in layers, each of which takes one more hypothesis:

- `BaseInv`, for every use: an environment that is closing has no holder, no entry, and one
  thread that closes it (`Closing`); one that is being made has one holder and no entry yet
  (`Creating`); no entry's `weak_ptr` is expired (`EntriesHeld`).  The last
  rests on C++: a `weak_ptr` expires with the last `shared_ptr`, before `~MDBEnv` closes anything.
- `NamedInv` adds `NamesStay`: what `stat` found is still what the name denotes.
- `SharedInv` adds `Creators` (of calls that found no file there is one for a name; between
  its two steps under the mutex the file it made is open in its environment only) and
  `Registered` (what is held is registered under its file, but for the environment just made).
  A call that found the file meanwhile comes to the registry after that, because of the mutex.
  Two holders of one file then find themselves in the same entry.
- `OpenedInv` adds that what is open is held or closing (`OpenHeld`), and that no call is about
  to look for the file of an environment that closes (`ClosesApart`).

### TypedDBI

For any set of keys, refused or not, any number of indexes, and any `IdLimit` of at least
2 (with 1, the first id would already wrap to 0).  `NoHalfWrites` is the assumption that neither
`replace` nor `new_index` is in `Uses`, and not both of `keep` and `bad_key`: a program may go on
after an exception if LMDB refuses none of its keys, and use such keys if it does not go on.

| theorem | assumes | says |
|---|---|---|
| `TypeCorrect` | nothing | `TypeOK` always |
| `ZeroStaysFree` | nothing | no object has id 0, when the ids wrap included |
| `IndexesAreExact` | `NoHalfWrites` | every index names exactly the stored objects, by their keys |
| `LookupsAlwaysFind` | `NoHalfWrites` | `get<N>`, of a key that LMDB takes, finds an object with it if there is one, and no other |
| `ImplementsStore` | `NoHalfWrites` | `TypedDBI` implements `TypedStore`, which gives new objects ids above all others |

`BaseInv`, for every use, is `TypeOK` and `ZeroFree`.  `IInv` adds `Exact`, which is
`IndexesExact` entry by entry, for the committed databases and for the writer's while its
transaction is open.  Not for those after an exception that nobody caught: there a put may
have written the row and some of the indexes.  An exception that was caught left the
databases as they were, if LMDB refuses no key.  So the
proofs have to follow each operation database by database: `DeleteExact` shows that on exact
indexes each entry to delete is there, so that a deletion never stops halfway; `PutExact` that a
put which comes to its end leaves exact indexes; `ModifyExact` puts the two together.  `ZeroFree`
rests on `NewId`: when the highest id is taken the next is 0, which is not above it, so that LMDB
refuses to append the row (`MDB_APPEND`) and `put` throws.  `PutNewEffect` says, for `TypedStore`'s
`Insert`, that otherwise the id is above all that are present.  `LookupsAlwaysFind` needs that the least entry of a key exists, which is where `FiniteLemmas` comes in.

### IndexIter

For any finite set of ids, any keys that are byte strings, any filters, and any number of writes.

| theorem | assumes | says |
|---|---|---|
| `TypeCorrect` | nothing | `TypeOK` always: an iterator that is not at its end is on an entry, or where one was |
| `MissingIdExplained` | nothing | "Missing id" comes only after an iterator's own `del()`, or a put that gave a taken id another key |
| `StaysInRange` | nothing | an equal range comes to no entry of another key, a prefix range to none without the prefix; nor do they show an object with such a key, unless the index was torn |
| `LoopsExact` | nothing | `RangeExact`: a loop to its end shows what was asked for |
| `WithoutGaps` | nothing | `NoGaps`: nothing that counts is passed over between two entries that were shown |

They rest on the order of byte strings: `Less` is a strict total order (`LessTransitive`,
`LessTotal`), and what lies between two strings with a prefix has the prefix (`PrefixBetween`).
`FiniteLemmas` then gives the first and the last entry of a set that is not empty
(`NearestEntry`).  All ways to make an iterator are one `Starts`, all writes one `Writes` (one
object's row and entries change, `Wrote`), so that each invariant takes one lemma for each of
making, moving and writing.

- `BaseInv` adds that the index is exact until it is torn (`IndexWhole`).
- `ScopeInv` adds `Scope`: the cursor is in the key of an equal range, and on what was shown last;
  and until the index is torn the objects' keys are their entries'.
- `ScanInv` is the loop invariant that `RangeExact` is the end of.  `ToCome`: an object that is
  asked for and was not touched has been shown, or an entry of it that is not `drift` lies ahead.
  `NothingElse`: what lies ahead is asked for, touched or shown.  `DriftWritten`: the entries that
  may lead the cursor astray are those of objects that were written.  A step of the loop goes to
  the nearest stop, and what is wanted is a stop (`WantedIsStop`), so that the loop passes over
  nothing; it does not end before, because what lies between the cursor and a wanted entry
  still has the prefix (`BetweenHasPrefix`).  A write spoils only what concerns the object it
  writes (`WroteScan`).
- `GapInv` is about iterators that turn round.  `RangeExact` says nothing of them, nor of those
  `find` makes, nor of what happens after "Missing id"; `NoGaps` does.  `NonePassed`: no entry whose
  object is due (accepted by the filter, not written, not shown) lies between the cursor and
  any entry that was shown, on either side.  `PlaceDone`: the entry the cursor is on is not due
  itself.  From a due entry beyond the cursor, the cursor's step would have had to
  come to it first (`MoveGap`), since it is a stop and of the iterator's key (`SameKeyBetween`).

The keys are byte strings of any kind, so the theorems hold for indexes of integers too, whose
keys are the bytes that `keyConv` copies.  The order they speak of is that of the bytes.

### What is only model-checked

One property, `WriterReleased` of `MDBEnv`: it is liveness under fairness, which is out of the
prover's reach.  All the other properties that the passing runs check are theorems.

## Not modelled

- **LMDB.**  Pages, the map, locks between processes and durability are LMDB's; a
  transaction's snapshot and atomic commit are taken from it.
- **Values.**  `MDBInVal`, `MDBOutVal` and `keyConv` are functions without state.  Views
  that outlive their transaction are a use that no code of the library can see.
- **Serialization** is Boost's.
- **Positioning a cursor** changes nothing in the library.  What an iterator makes of it
  is in `IndexIter`.
- **`--` after a deletion.**  What `MDB_PREV` gives right after the entry under the cursor was
  deleted depends on where LMDB's pages end; `GenOperator` does not go `--` from there.
- **`del()` of an iterator at its end**: what it deletes depends on where LMDB left the cursor.
- **An environment that dies before its transactions**: the comment in `~MDBEnv` leaves
  it to the caller.
- **A parent that ends before its child, with cursors open**: the end of the parent is in `MDBEnv`
  (`parent_first`), where it ends in undefined behaviour; `Cursors` does not repeat it.
- **lmdb-view, examples and tests** are uses of the library: they have no state of their own that
  something else could disturb.

Of the lines of `src/`, five in six are `ext/catch2/catch.hpp`, the test framework, which is vendored.
Of the rest about half are the programs of the last item, and templates that convert or
print.  What remains, `lmdb-safe.cc`, `lmdb-safe.hh` and `lmdb-typed.hh`, is modelled up to
the points above; the share of all lines that the map covers is small for that reason, and cannot
be made larger by modelling more of the library.

## Plan

What was planned is done.  What could come next is an order on integers' bytes, to say when
the loop that `typed-example.cc:172` announces is in numeric order, and `--` after a deletion,
once it is settled what LMDB's pages make of it.
