------------------------------ MODULE MDBEnv ------------------------------
(***************************************************************************)
(* One MDBEnv shared by the threads of a process: the transactions opened  *)
(* on it, the per-thread counters that refuse a second transaction, and    *)
(* openDB with its mutex (lmdb-safe.cc, lmdb-safe.hh).                     *)
(*                                                                         *)
(* A thread's counters are read and written only by that thread, so a      *)
(* counter check and the update after mdb_txn_begin or mdb_txn_commit are  *)
(* seen by no other thread: the model splits an operation only where a     *)
(* thread can block, at LMDB's writer lock and at d_openmut, and inside    *)
(* openDB, whose steps other threads do see.                               *)
(***************************************************************************)
EXTENDS Integers, FiniteSets

CONSTANTS
  Threads,
  Txns,       \* transaction objects; as many can exist at one time
  NoThread, NoTxn,
  Uses,       \* what this process does beside the plain calls, see Use
  MaxRO       \* bound: no hand-off by a thread that counts more readers

Kinds == {"RO", "RW"}

Use == { "commit_fails",   \* mdb_txn_commit returns an error
         "parent_first",   \* a transaction ends while one nested in it is open
         "hand_off",       \* a read-only transaction moves to another thread
         "nest_closed",    \* getRWTransaction on a transaction that has ended
         "manual_open",    \* openDB on a transaction, not on the environment
         "opendb_in_txn" } \* MDBEnv::openDB by a thread with a transaction

ASSUME ConstantsAssumption ==
  /\ IsFiniteSet(Txns)
  /\ NoThread \notin Threads
  /\ NoTxn \notin Txns
  /\ Uses \subseteq Use

VARIABLES
  rdOnly,          \* the environment was opened with MDB_RDONLY
  transactionsOut, \* d_ROtransactionsOut and d_RWtransactionsOut, by kind
  d_openmut,       \* the thread that holds the mutex
  impl,            \* the class of the object, "none" before and after its life
  owner,           \* the thread that has the unique_ptr
  d_txn,           \* the object's pointer to the LMDB transaction is not null
  handle,          \* the LMDB transaction itself
  ancestors,       \* the transactions it is nested in
  opened,          \* the transactions that have called mdb_dbi_open
  pc,              \* where a call is; a kind while it waits in mdb_txn_begin
  cur,             \* openDB's own transaction object, rwt
  ub               \* a freed MDB_txn was passed to LMDB: anything may follow

txnVars == <<impl, owner, d_txn, handle, ancestors>>
callVars == <<pc, cur>>
vars == <<rdOnly, transactionsOut, d_openmut, txnVars, opened, callVars, ub>>

---------------------------------------------------------------------------
(* LMDB, as lmdb-safe.cc uses it. *)

Active(x) == handle[x] = "active"

\* A write transaction, with those nested in it, holds the writer lock from
\* its beginning to its end.
WriterHeld == \E x \in Txns : impl[x] = "RW" /\ Active(x)

\* mdb_txn_commit and mdb_txn_abort free the transaction and the open ones
\* nested in it.
Ended(x) ==
  [y \in Txns |-> IF Active(y) /\ (y = x \/ x \in ancestors[y])
                  THEN "freed" ELSE handle[y]]

HasChild(x) == \E y \in Txns : Active(y) /\ x \in ancestors[y]

---------------------------------------------------------------------------
Free == {x \in Txns : impl[x] = "none"}

Init ==
  /\ rdOnly \in BOOLEAN
  /\ transactionsOut = [k \in Kinds |-> [t \in Threads |-> 0]]
  /\ d_openmut = NoThread
  /\ impl = [x \in Txns |-> "none"]
  /\ owner = [x \in Txns |-> NoThread]
  /\ d_txn = [x \in Txns |-> FALSE]
  /\ handle = [x \in Txns |-> "none"]
  /\ ancestors = [x \in Txns |-> {}]
  /\ opened = {}
  /\ pc = [t \in Threads |-> "idle"]
  /\ cur = [t \in Threads |-> NoTxn]
  /\ ub = FALSE

\* The thread is in its own code and can use an object it owns.
Idle(t) == pc[t] = "idle" /\ ~ub
Holds(t, x) == Idle(t) /\ owner[x] = t

\* openRWTransaction and openROTransaction throw "Duplicate ... transaction":
\* any value but 0 is true, a negative one too.
RefusedNoRO(t, k) == transactionsOut["RW"][t] # 0          \* variant
RefusedNoRW(t, k) == k = "RW" /\ transactionsOut["RO"][t] # 0 \* variant
Refused(t, k) ==
  \/ transactionsOut["RW"][t] # 0
  \/ k = "RW" /\ transactionsOut["RO"][t] # 0

\* The object x is built around a new LMDB transaction and counted.
Construct(t, k, x, above) ==
  /\ impl' = [impl EXCEPT ![x] = k]
  /\ owner' = [owner EXCEPT ![x] = t]
  /\ d_txn' = [d_txn EXCEPT ![x] = TRUE]
  /\ handle' = [handle EXCEPT ![x] = "active"]
  /\ ancestors' = [ancestors EXCEPT ![x] = above]
  /\ transactionsOut' = [transactionsOut EXCEPT ![k][t] = @ + 1]

\* The call waits in mdb_txn_begin.
StartBegin(t, k) ==
  /\ pc' = [pc EXCEPT ![t] = k]
  /\ UNCHANGED cur

\* MDBEnv::getRWTransaction, getROTransaction up to mdb_txn_begin; a refused
\* call throws and changes nothing.
GetTransaction(t, k) ==
  /\ Idle(t)
  /\ ~Refused(t, k)
  /\ StartBegin(t, k)
  /\ UNCHANGED <<transactionsOut, d_openmut, txnVars, opened, ub>>

\* MDBRWTransactionImpl::getRWTransaction on an object whose d_txn is null
\* passes no parent, so it begins a top-level transaction, unchecked.
NestedOnClosed(t, x) ==
  /\ "nest_closed" \in Uses
  /\ Holds(t, x)
  /\ impl[x] = "RW" /\ ~d_txn[x]
  /\ StartBegin(t, "RW")
  /\ UNCHANGED <<transactionsOut, d_openmut, txnVars, opened, ub>>

\* mdb_txn_begin makes a write transaction wait for the writer lock.
NotBlocked(t) == pc[t] = "RO" \/ rdOnly \/ ~WriterHeld

\* mdb_txn_begin succeeds.  In openDB the object is the local rwt.
Begin(t) ==
  /\ pc[t] \in Kinds /\ ~ub
  /\ NotBlocked(t) /\ ~(pc[t] = "RW" /\ rdOnly)
  /\ \E x \in Free :
       /\ Construct(t, pc[t], x, {})
       /\ cur' = [cur EXCEPT ![t] = IF d_openmut = t THEN x ELSE NoTxn]
  /\ pc' = [pc EXCEPT ![t] = IF d_openmut = t THEN "dbi" ELSE "idle"]
  /\ UNCHANGED <<d_openmut, opened, ub>>

\* It fails, after the retries for MDB_MAP_RESIZED or with another error: the
\* exception releases d_openmut when it leaves openDB.
BeginFails(t) ==
  /\ pc[t] \in Kinds /\ ~ub
  /\ NotBlocked(t)
  /\ d_openmut' = IF d_openmut = t THEN NoThread ELSE d_openmut
  /\ pc' = [pc EXCEPT ![t] = "idle"]
  /\ UNCHANGED <<transactionsOut, txnVars, opened, cur, ub>>

\* MDBRWTransactionImpl::getRWTransaction, and getROTransaction, which is the
\* same call: LMDB refuses a second child of the same parent.
NestedUncounted(t, x) ==                                    \* variant
  /\ Holds(t, x)
  /\ impl[x] = "RW" /\ d_txn[x] /\ Active(x) /\ ~HasChild(x)
  /\ \E y \in Free :
       /\ impl' = [impl EXCEPT ![y] = "RW"]
       /\ owner' = [owner EXCEPT ![y] = t]
       /\ d_txn' = [d_txn EXCEPT ![y] = TRUE]
       /\ handle' = [handle EXCEPT ![y] = "active"]
       /\ ancestors' = [ancestors EXCEPT ![y] = ancestors[x] \cup {x}]
  /\ UNCHANGED <<transactionsOut, d_openmut, opened, callVars, ub>>
Nested(t, x) ==
  /\ Holds(t, x)
  /\ impl[x] = "RW" /\ d_txn[x] /\ Active(x) /\ ~HasChild(x)
  /\ \E y \in Free : Construct(t, "RW", y, ancestors[x] \cup {x})
  /\ UNCHANGED <<d_openmut, opened, callVars, ub>>

---------------------------------------------------------------------------
(* Ending a transaction. *)

MayEnd(x) == HasChild(x) => "parent_first" \in Uses

\* commit() and abort() of either class: the LMDB transaction ends, the
\* counter of the calling thread goes down, d_txn becomes null.
Finish(t, x) ==
  /\ Holds(t, x)
  /\ d_txn[x] /\ Active(x) /\ MayEnd(x)
  /\ handle' = Ended(x)
  /\ transactionsOut' = [transactionsOut EXCEPT ![impl[x]][t] = @ - 1]
  /\ d_txn' = [d_txn EXCEPT ![x] = FALSE]
  /\ UNCHANGED <<d_openmut, impl, owner, ancestors, opened, callVars, ub>>

\* MDBRWTransactionImpl::commit when mdb_txn_commit fails: LMDB has freed the
\* transaction, the exception leaves d_txn and the counter as they were.
CommitFails(t, x) ==
  /\ "commit_fails" \in Uses
  /\ Holds(t, x)
  /\ impl[x] = "RW" /\ d_txn[x] /\ Active(x) /\ MayEnd(x)
  /\ handle' = Ended(x)
  /\ UNCHANGED <<transactionsOut, d_openmut, impl, owner, d_txn, ancestors,
                 opened, callVars, ub>>

\* The destructor: MDBRWTransactionImpl's calls abort(), MDBROTransactionImpl's
\* calls commit(), and neither does anything once d_txn is null.
DeletedKeepsPointer(x) ==                                   \* variant
  /\ impl' = [impl EXCEPT ![x] = "none"]
  /\ owner' = [owner EXCEPT ![x] = NoThread]
  /\ handle' = [Ended(x) EXCEPT ![x] = "none"]
  /\ ancestors' = [ancestors EXCEPT ![x] = {}]
  /\ opened' = opened \ {x}
  /\ UNCHANGED d_txn
Deleted(x) ==
  /\ impl' = [impl EXCEPT ![x] = "none"]
  /\ owner' = [owner EXCEPT ![x] = NoThread]
  /\ d_txn' = [d_txn EXCEPT ![x] = FALSE]
  /\ handle' = [Ended(x) EXCEPT ![x] = "none"]
  /\ ancestors' = [ancestors EXCEPT ![x] = {}]
  /\ opened' = opened \ {x}

Uncounted(t, x) ==
  transactionsOut' = IF d_txn[x]
                     THEN [transactionsOut EXCEPT ![impl[x]][t] = @ - 1]
                     ELSE transactionsOut

DestroyNoAbort(t, x) ==                                     \* variant
  /\ Holds(t, x)
  /\ d_txn[x] => Active(x) /\ MayEnd(x)
  /\ Deleted(x)
  /\ UNCHANGED <<transactionsOut, d_openmut, callVars, ub>>
Destroy(t, x) ==
  /\ Holds(t, x)
  /\ d_txn[x] => Active(x) /\ MayEnd(x)
  /\ Uncounted(t, x)
  /\ Deleted(x)
  /\ UNCHANGED <<d_openmut, callVars, ub>>

\* Any use of an object whose d_txn points to a freed transaction, its
\* destructor included.
UseFreed(t, x) ==
  /\ Holds(t, x)
  /\ d_txn[x] /\ ~Active(x)
  /\ ub' = TRUE
  /\ UNCHANGED <<transactionsOut, d_openmut, txnVars, opened, callVars>>

\* The unique_ptr of a read-only transaction moves to another thread, which
\* MDB_NOTLS allows.
HandOff(t, u, x) ==
  /\ "hand_off" \in Uses
  /\ Holds(t, x) /\ Idle(u)
  /\ impl[x] = "RO"
  /\ transactionsOut["RO"][t] <= MaxRO
  /\ owner' = [owner EXCEPT ![x] = u]
  /\ UNCHANGED <<transactionsOut, d_openmut, impl, d_txn, handle, ancestors,
                 opened, callVars, ub>>

---------------------------------------------------------------------------
(* Opening a database. *)

\* MDBEnv::openDB is called and waits for d_openmut.
OpenDB(t) ==
  /\ Idle(t)
  /\ (\E x \in Txns : owner[x] = t /\ d_txn[x]) => "opendb_in_txn" \in Uses
  /\ pc' = [pc EXCEPT ![t] = "lock"]
  /\ UNCHANGED <<transactionsOut, d_openmut, txnVars, opened, cur, ub>>

\* It has the mutex and asks for its transaction.  A refusal throws, and the
\* lock_guard gives the mutex back.
OpenDBLockNoMutex(t) ==                                     \* variant
  /\ pc[t] = "lock" /\ ~ub
  /\ LET k == IF rdOnly THEN "RO" ELSE "RW"
     IN  IF Refused(t, k)
         THEN pc' = [pc EXCEPT ![t] = "idle"] /\ UNCHANGED <<d_openmut, cur>>
         ELSE StartBegin(t, k) /\ d_openmut' = t
  /\ UNCHANGED <<transactionsOut, txnVars, opened, ub>>
OpenDBLock(t) ==
  /\ pc[t] = "lock" /\ ~ub
  /\ d_openmut = NoThread
  /\ LET k == IF rdOnly THEN "RO" ELSE "RW"
     IN  IF Refused(t, k)
         THEN pc' = [pc EXCEPT ![t] = "idle"] /\ UNCHANGED <<d_openmut, cur>>
         ELSE StartBegin(t, k) /\ d_openmut' = t
  /\ UNCHANGED <<transactionsOut, txnVars, opened, ub>>

\* rwt->openDB: mdb_dbi_open succeeds.
DbiOpen(t) ==
  /\ pc[t] = "dbi" /\ ~ub
  /\ opened' = opened \cup {cur[t]}
  /\ pc' = [pc EXCEPT ![t] = "finish"]
  /\ UNCHANGED <<transactionsOut, d_openmut, txnVars, cur, ub>>

\* openDB ends, by its commit or, when mdb_dbi_open failed, by the exception
\* that destroys rwt; then d_openmut is released.
OpenDBReturn(t) ==
  /\ pc[t] \in {"dbi", "finish"} /\ ~ub
  /\ Uncounted(t, cur[t])
  /\ Deleted(cur[t])
  /\ d_openmut' = NoThread
  /\ pc' = [pc EXCEPT ![t] = "idle"]
  /\ cur' = [cur EXCEPT ![t] = NoTxn]
  /\ UNCHANGED ub

\* rwt->commit() throws and rwt's destructor aborts the freed transaction.
OpenDBCommitFails(t) ==
  /\ "commit_fails" \in Uses
  /\ pc[t] = "finish" /\ ~ub
  /\ impl[cur[t]] = "RW"
  /\ ub' = TRUE
  /\ UNCHANGED <<transactionsOut, d_openmut, txnVars, opened, callVars>>

\* MDBROTransactionImpl::openDB and MDBRWTransactionImpl::openDB, called by
\* the user: no mutex.
TxnOpenDB(t, x) ==
  /\ "manual_open" \in Uses
  /\ Holds(t, x)
  /\ d_txn[x] /\ Active(x)
  /\ opened' = opened \cup {x}
  /\ UNCHANGED <<transactionsOut, d_openmut, txnVars, callVars, ub>>

---------------------------------------------------------------------------
\* After undefined behaviour the model says nothing more.
Undefined == ub /\ UNCHANGED vars

Next ==
  /\ UNCHANGED rdOnly
  /\ \/ \E t \in Threads :
          \/ \E k \in Kinds : GetTransaction(t, k)
          \/ Begin(t) \/ BeginFails(t)
          \/ OpenDB(t) \/ OpenDBLock(t) \/ DbiOpen(t) \/ OpenDBReturn(t)
          \/ OpenDBCommitFails(t)
          \/ \E x \in Txns :
               \/ Nested(t, x) \/ NestedOnClosed(t, x)
               \/ Finish(t, x) \/ CommitFails(t, x) \/ Destroy(t, x)
               \/ UseFreed(t, x) \/ TxnOpenDB(t, x)
               \/ \E u \in Threads \ {t} : HandOff(t, u, x)
     \/ Undefined

Spec == Init /\ [][Next]_vars

\* A call inside the library goes on when it is not blocked; every object goes
\* out of scope at some point (RAII).  No fairness is assumed of a lock's queue.
Inside(t) ==
  /\ Begin(t) \/ BeginFails(t) \/ OpenDBLock(t) \/ DbiOpen(t) \/ OpenDBReturn(t)
  /\ UNCHANGED rdOnly

FairSpec ==
  /\ Spec
  /\ \A t \in Threads : WF_vars(Inside(t))
  /\ \A t \in Threads, x \in Txns : SF_vars(Destroy(t, x) /\ UNCHANGED rdOnly)

---------------------------------------------------------------------------
(* Properties. *)

\* Types, and the coherence of an object's fields: an object exists exactly
\* while it has an owner, and only an object that exists has a pointer or an
\* LMDB transaction.
TypeOK ==
  /\ rdOnly \in BOOLEAN
  /\ transactionsOut \in [Kinds -> [Threads -> Int]]
  /\ d_openmut \in Threads \cup {NoThread}
  /\ impl \in [Txns -> Kinds \cup {"none"}]
  /\ owner \in [Txns -> Threads \cup {NoThread}]
  /\ d_txn \in [Txns -> BOOLEAN]
  /\ handle \in [Txns -> {"none", "active", "freed"}]
  /\ ancestors \in [Txns -> SUBSET Txns]
  /\ opened \in SUBSET Txns
  /\ pc \in [Threads -> {"idle", "lock", "dbi", "finish"} \cup Kinds]
  /\ cur \in [Threads -> Txns \cup {NoTxn}]
  /\ ub \in BOOLEAN
  /\ \A x \in Txns :
       /\ impl[x] = "none" <=> owner[x] = NoThread
       /\ impl[x] = "none" <=> handle[x] = "none"
       /\ d_txn[x] => impl[x] # "none"

\* The objects of class k a thread owns whose pointer is set.
Out(t, k) == {x \in Txns : impl[x] = k /\ owner[x] = t /\ d_txn[x]}

\* d_RWtransactionsOut[t] and d_ROtransactionsOut[t] are the numbers of
\* unfinished transaction objects of thread t, through nesting, failed begins,
\* failed commits and exceptions out of openDB (test-basic.cc, "transaction
\* counter correctness", tests two sequences of one thread).
CountsExact ==
  \A t \in Threads, k \in Kinds : transactionsOut[k][t] = Cardinality(Out(t, k))

\* README.md's rule: no second open transaction in a thread, unless all are
\* read-only, or one is nested in the other.
ThreadDiscipline ==
  \A x, y \in Txns :
    Active(x) /\ Active(y) /\ x # y /\ owner[x] = owner[y] =>
      \/ impl[x] = "RO" /\ impl[y] = "RO"
      \/ impl[x] = "RW" /\ impl[y] = "RW"
           /\ (x \in ancestors[y] \/ y \in ancestors[x])

\* "Duplicate RW transaction" and "Duplicate RO transaction" are thrown only
\* at a thread that does have an unfinished transaction.
RefusalJustified ==
  \A t \in Threads, k \in Kinds : Refused(t, k) => Out(t, "RO") \cup Out(t, "RW") # {}

\* A thread that waits for LMDB's writer lock is not the one that holds it:
\* the check before mdb_txn_begin turns that self-deadlock into an exception.
NoSelfWait ==
  \A t \in Threads : pc[t] = "RW" =>
    ~\E x \in Txns : owner[x] = t /\ Active(x)

\* lmdb-safe.cc's comment on mdb_dbi_open: a transaction that has used it
\* finishes before any other transaction of the process uses it.
OneOpener ==
  \A x, y \in opened : Active(x) /\ Active(y) /\ x # y =>
    x \in ancestors[y] \/ y \in ancestors[x]

\* Whatever threads pass read-only transactions around, each counted
\* transaction is discounted once: the counters add up to the unfinished
\* objects.
F == INSTANCE Functions
Total(k) == F!SumFunction(transactionsOut[k])
CountsConserved ==
  \A k \in Kinds : Total(k) = Cardinality({x \in Txns : impl[x] = k /\ d_txn[x]})

\* README.md: after commit() or abort(), "going out of scope has no further
\* effect"; no freed transaction is ever passed to LMDB.
NoUseAfterFree == ~ub

\* The writer lock is always released again: no thread of the process keeps
\* the others from writing for ever.
WriterReleased == WriterHeld ~> ~WriterHeld

\* The environment implements the abstract discipline: the LMDB transactions
\* that are open, by thread.
OpenOf(k) == [t \in Threads |-> {x \in Txns : impl[x] = k /\ owner[x] = t /\ Active(x)}]
Abstract == INSTANCE TxnDiscipline WITH reading <- OpenOf("RO"), writing <- OpenOf("RW")
Discipline == Abstract!Spec
=============================================================================
