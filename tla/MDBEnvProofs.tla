--------------------------- MODULE MDBEnvProofs ---------------------------
(***************************************************************************)
(* Proofs about MDBEnv: its counters are exact, with them no thread ever   *)
(* gets a second transaction it must not have, and one transaction at a    *)
(* time uses mdb_dbi_open, whatever the numbers of threads and             *)
(* transactions.                                                           *)
(***************************************************************************)
EXTENDS MDBEnv, FiniteLemmas, TLAPS

\* The process keeps each transaction on the thread that began it, and nests
\* transactions only in open ones.  The proofs allow every other use.
KeepsToThread == {"hand_off", "nest_closed"} \cap Uses = {}

---------------------------------------------------------------------------
(* The inductive invariant. *)

\* Every open LMDB transaction has an object that points to it, so that the
\* counters, which count pointers, bound the open transactions.
Pointed == \A x \in Txns : Active(x) => d_txn[x]

\* A thread that waits in mdb_txn_begin has passed the check, and nothing has
\* happened to its counters since.
Checked == \A t \in Threads : pc[t] \in Kinds => ~Refused(t, pc[t])

\* Inside openDB, the thread's counter counts rwt.
InOpenDB ==
  \A t \in Threads : pc[t] \in {"dbi", "finish"} =>
    cur[t] \in Txns /\ owner[cur[t]] = t /\ d_txn[cur[t]]

TypeInv == TypeOK /\ InOpenDB
SafeInv == CountsExact /\ Pointed /\ Checked /\ ThreadDiscipline
IInv == TypeInv /\ SafeInv

---------------------------------------------------------------------------
(* Counting. *)

\* A set of objects is finite, so a zero counter means an empty set.
LEMMA OutFinite ==
  ASSUME NEW t, NEW k
  PROVE  /\ IsFiniteSet(Out(t, k))
         /\ Cardinality(Out(t, k)) \in Nat
         /\ Cardinality(Out(t, k)) = 0 <=> Out(t, k) = {}
<1>1. Out(t, k) \subseteq Txns
  BY DEF Out
<1>2. IsFiniteSet(Out(t, k))
  BY <1>1, ConstantsAssumption, FS_Subset
<1> QED
  BY <1>2, FS_CardinalityType, FS_EmptySet

\* Where nothing is refused, the thread has no open transaction in the way.
LEMMA NotRefused ==
  ASSUME TypeOK, CountsExact, Pointed,
         NEW t \in Threads, NEW k \in Kinds, ~Refused(t, k),
         NEW x \in Txns, Active(x), owner[x] = t
  PROVE  k = "RO" /\ impl[x] = "RO"
<1>1. impl[x] \in Kinds /\ d_txn[x]
  BY DEF TypeOK, Pointed, Active, Kinds
<1>2. ASSUME NEW j \in Kinds, transactionsOut[j][t] = 0
      PROVE  impl[x] # j
  <2>1. Out(t, j) = {}
    BY <1>2, OutFinite DEF CountsExact
  <2> QED
    BY <2>1, <1>1 DEF Out
<1> QED
  BY <1>1, <1>2 DEF Refused, Kinds

\* A new object is counted once.
LEMMA Constructed ==
  ASSUME TypeOK, CountsExact,
         NEW t \in Threads, NEW k \in Kinds, NEW x \in Free, NEW A,
         Construct(t, k, x, A)
  PROVE  CountsExact'
<1> SUFFICES ASSUME NEW u \in Threads, NEW j \in Kinds
             PROVE  transactionsOut'[j][u] = Cardinality(Out(u, j)')
  BY DEF CountsExact
<1>1. transactionsOut[j][u] = Cardinality(Out(u, j)) /\ transactionsOut[j][u] \in Int
  BY DEF CountsExact, TypeOK
<1>2. CASE u = t /\ j = k
  <2>1. Out(u, j)' = Out(u, j) \cup {x} /\ x \notin Out(u, j)
    <3>1. impl[x] = "none" /\ impl'[x] = k /\ owner'[x] = t /\ d_txn'[x]
      BY DEF Construct, TypeOK, Free
    <3>2. \A y \in Txns \ {x} :
            impl'[y] = impl[y] /\ owner'[y] = owner[y] /\ d_txn'[y] = d_txn[y]
      BY DEF Construct, TypeOK
    <3> QED
      BY <1>2, <3>1, <3>2 DEF Out, Free, Kinds
  <2>2. transactionsOut'[j][u] = transactionsOut[j][u] + 1
    BY <1>2 DEF Construct, TypeOK
  <2>3. Cardinality(Out(u, j)') = Cardinality(Out(u, j)) + 1
    <3>1. IsFiniteSet(Out(u, j))
      BY OutFinite
    <3> QED
      BY <2>1, <3>1, FS_AddElement
  <2> QED
    BY <1>1, <2>2, <2>3
<1>3. CASE ~(u = t /\ j = k)
  <2>1. Out(u, j)' = Out(u, j)
    BY <1>3 DEF Out, Construct, TypeOK, Free, Kinds
  <2>2. transactionsOut'[j][u] = transactionsOut[j][u]
    BY <1>3 DEF Construct, TypeOK
  <2> QED
    BY <1>1, <2>1, <2>2
<1> QED
  BY <1>2, <1>3

\* An object that loses its pointer is discounted once, from the counter of
\* the thread that owns it.
LEMMA Discounted ==
  ASSUME TypeOK, CountsExact,
         NEW t \in Threads, NEW x \in Txns, owner[x] = t, d_txn[x],
         transactionsOut' = [transactionsOut EXCEPT ![impl[x]][t] = @ - 1],
         d_txn' = [d_txn EXCEPT ![x] = FALSE],
         \A y \in Txns \ {x} : impl'[y] = impl[y] /\ owner'[y] = owner[y]
  PROVE  CountsExact'
<1> SUFFICES ASSUME NEW u \in Threads, NEW j \in Kinds
             PROVE  transactionsOut'[j][u] = Cardinality(Out(u, j)')
  BY DEF CountsExact
<1>1. transactionsOut[j][u] = Cardinality(Out(u, j)) /\ transactionsOut[j][u] \in Int
  BY DEF CountsExact, TypeOK
<1>2. impl[x] \in Kinds
  BY DEF TypeOK, Kinds
<1>3. CASE u = t /\ j = impl[x]
  <2>1. Out(u, j)' = Out(u, j) \ {x} /\ x \in Out(u, j)
    BY <1>3 DEF Out, TypeOK
  <2>2. transactionsOut'[j][u] = transactionsOut[j][u] - 1
    BY <1>2, <1>3 DEF TypeOK
  <2>3. Cardinality(Out(u, j) \ {x}) = Cardinality(Out(u, j)) - 1
    BY <2>1, OutFinite, FS_RemoveElement
  <2> QED
    BY <1>1, <2>1, <2>2, <2>3
<1>4. CASE ~(u = t /\ j = impl[x])
  <2>1. Out(u, j)' = Out(u, j)
    BY <1>4 DEF Out, TypeOK
  <2>2. transactionsOut'[j][u] = transactionsOut[j][u]
    BY <1>2, <1>4 DEF TypeOK
  <2> QED
    BY <1>1, <2>1, <2>2
<1> QED
  BY <1>3, <1>4

---------------------------------------------------------------------------
(* The type invariant. *)

LEMMA InitType == Init => TypeInv
<1> SUFFICES ASSUME Init
             PROVE  TypeInv
  OBVIOUS
<1>1. transactionsOut \in [Kinds -> [Threads -> Int]]
  BY DEF Init
<1>2. TypeOK
  BY <1>1 DEF Init, TypeOK
<1>3. InOpenDB
  BY DEF Init, InOpenDB
<1> QED
  BY <1>2, <1>3 DEF TypeInv

LEMMA ConstructType ==
  ASSUME TypeOK, NEW t \in Threads, NEW k \in Kinds, NEW x \in Free,
         NEW A \in SUBSET Txns, Construct(t, k, x, A),
         UNCHANGED <<rdOnly, d_openmut, opened, ub>>,
         pc' \in [Threads -> {"idle", "lock", "dbi", "finish"} \cup Kinds],
         cur' \in [Threads -> Txns \cup {NoTxn}]
  PROVE  TypeOK'
BY ConstantsAssumption DEF TypeOK, Construct, Free, Kinds

LEMMA DeletedType ==
  ASSUME TypeOK, NEW t \in Threads, NEW x \in Txns, Uncounted(t, x), Deleted(x)
  PROVE  /\ transactionsOut' \in [Kinds -> [Threads -> Int]]
         /\ impl' \in [Txns -> Kinds \cup {"none"}]
         /\ owner' \in [Txns -> Threads \cup {NoThread}]
         /\ d_txn' \in [Txns -> BOOLEAN]
         /\ handle' \in [Txns -> {"none", "active", "freed"}]
         /\ ancestors' \in [Txns -> SUBSET Txns]
         /\ opened' \in SUBSET Txns
         /\ \A y \in Txns :
              /\ impl'[y] = "none" <=> owner'[y] = NoThread
              /\ impl'[y] = "none" <=> handle'[y] = "none"
              /\ d_txn'[y] => impl'[y] # "none"
BY ConstantsAssumption
   DEF TypeOK, Uncounted, Deleted, Ended, Active, Kinds

LEMMA TypeStep == TypeInv /\ [Next]_vars => TypeInv'
<1> SUFFICES ASSUME TypeInv, [Next]_vars
             PROVE  TypeInv'
  OBVIOUS
<1> TypeOK /\ InOpenDB /\ rdOnly' = rdOnly
  BY DEF TypeInv, Next, vars
<1>1. ASSUME NEW t \in Threads, NEW k \in Kinds, GetTransaction(t, k)
      PROVE  TypeInv'
  BY <1>1 DEF GetTransaction, StartBegin, Idle, TypeInv, TypeOK, InOpenDB, Kinds, txnVars
<1>2. ASSUME NEW t \in Threads, Begin(t)
      PROVE  TypeInv'
  <2>1. PICK x \in Free : /\ Construct(t, pc[t], x, {})
                          /\ cur' = [cur EXCEPT ![t] = IF d_openmut = t THEN x ELSE NoTxn]
    BY <1>2 DEF Begin
  <2>2. TypeOK'
    <3>1. pc' \in [Threads -> {"idle", "lock", "dbi", "finish"} \cup Kinds]
      BY <1>2 DEF Begin, TypeOK
    <3>2. cur' \in [Threads -> Txns \cup {NoTxn}]
      BY <2>1 DEF Free, TypeOK
    <3> QED
      BY <1>2, <2>1, <3>1, <3>2, ConstructType DEF Begin
  <2>3. InOpenDB'
    BY <1>2, <2>1, ConstantsAssumption DEF Begin, Construct, Free, InOpenDB, TypeOK, Kinds
  <2> QED
    BY <2>2, <2>3 DEF TypeInv
<1>3. ASSUME NEW t \in Threads, BeginFails(t)
      PROVE  TypeInv'
  BY <1>3 DEF BeginFails, TypeInv, TypeOK, InOpenDB, Kinds, txnVars
<1>4. ASSUME NEW t \in Threads, OpenDB(t)
      PROVE  TypeInv'
  BY <1>4 DEF OpenDB, TypeInv, TypeOK, InOpenDB, Kinds, txnVars
<1>5. ASSUME NEW t \in Threads, OpenDBLock(t)
      PROVE  TypeInv'
  BY <1>5 DEF OpenDBLock, StartBegin, TypeInv, TypeOK, InOpenDB, Kinds, txnVars
<1>6. ASSUME NEW t \in Threads, DbiOpen(t)
      PROVE  TypeInv'
  BY <1>6 DEF DbiOpen, TypeInv, TypeOK, InOpenDB, Kinds, txnVars
<1>7. ASSUME NEW t \in Threads, OpenDBReturn(t)
      PROVE  TypeInv'
  <2>1. cur[t] \in Txns /\ owner[cur[t]] = t /\ d_txn[cur[t]]
    BY <1>7 DEF OpenDBReturn, InOpenDB
  <2>2. TypeOK'
    BY <1>7, <2>1, DeletedType DEF OpenDBReturn, TypeOK
  <2>3. InOpenDB'
    BY <1>7, <2>1 DEF OpenDBReturn, Deleted, InOpenDB, TypeOK, Kinds
  <2> QED
    BY <2>2, <2>3 DEF TypeInv
<1>8. ASSUME NEW t \in Threads, OpenDBCommitFails(t)
      PROVE  TypeInv'
  BY <1>8 DEF OpenDBCommitFails, TypeInv, TypeOK, InOpenDB, txnVars, callVars
<1>9. ASSUME NEW t \in Threads, NEW x \in Txns, Nested(t, x)
      PROVE  TypeInv'
  <2>1. PICK y \in Free : Construct(t, "RW", y, ancestors[x] \cup {x})
    BY <1>9 DEF Nested
  <2>2. ancestors[x] \cup {x} \in SUBSET Txns
    BY DEF TypeOK
  <2>3. TypeOK'
    BY <1>9, <2>1, <2>2, ConstructType DEF Nested, TypeOK, callVars, Kinds
  <2>4. InOpenDB'
    BY <1>9, <2>1, ConstantsAssumption
       DEF Nested, Construct, Free, InOpenDB, TypeOK, Kinds, callVars
  <2> QED
    BY <2>3, <2>4 DEF TypeInv
<1>10. ASSUME NEW t \in Threads, NEW x \in Txns, NestedOnClosed(t, x)
       PROVE  TypeInv'
  BY <1>10 DEF NestedOnClosed, StartBegin, Holds, Idle, TypeInv, TypeOK, InOpenDB, Kinds, txnVars
<1>11. ASSUME NEW t \in Threads, NEW x \in Txns, Finish(t, x)
       PROVE  TypeInv'
  <2>1. TypeOK'
    BY <1>11 DEF Finish, Ended, Active, TypeOK, Kinds, callVars
  <2>2. InOpenDB'
    BY <1>11 DEF Finish, Holds, Idle, InOpenDB, TypeOK, callVars
  <2> QED
    BY <2>1, <2>2 DEF TypeInv
<1>12. ASSUME NEW t \in Threads, NEW x \in Txns, CommitFails(t, x)
       PROVE  TypeInv'
  <2>1. TypeOK'
    BY <1>12 DEF CommitFails, Ended, Active, TypeOK, callVars
  <2>2. InOpenDB'
    BY <1>12 DEF CommitFails, InOpenDB, callVars
  <2> QED
    BY <2>1, <2>2 DEF TypeInv
<1>13. ASSUME NEW t \in Threads, NEW x \in Txns, Destroy(t, x)
       PROVE  TypeInv'
  <2>1. TypeOK'
    BY <1>13, DeletedType DEF Destroy, TypeOK, callVars
  <2>2. InOpenDB'
    BY <1>13 DEF Destroy, Deleted, Holds, Idle, InOpenDB, TypeOK, callVars
  <2> QED
    BY <2>1, <2>2 DEF TypeInv
<1>14. ASSUME NEW t \in Threads, NEW x \in Txns, UseFreed(t, x)
       PROVE  TypeInv'
  BY <1>14 DEF UseFreed, TypeInv, TypeOK, InOpenDB, txnVars, callVars
<1>15. ASSUME NEW t \in Threads, NEW x \in Txns, TxnOpenDB(t, x)
       PROVE  TypeInv'
  BY <1>15 DEF TxnOpenDB, TypeInv, TypeOK, InOpenDB, txnVars, callVars
<1>16. ASSUME NEW t \in Threads, NEW x \in Txns, NEW u \in Threads, HandOff(t, u, x)
       PROVE  TypeInv'
  <2>1. TypeOK'
    BY <1>16, ConstantsAssumption DEF HandOff, Holds, TypeOK, callVars, Kinds
  <2>2. InOpenDB'
    BY <1>16 DEF HandOff, Holds, Idle, InOpenDB, TypeOK, callVars
  <2> QED
    BY <2>1, <2>2 DEF TypeInv
<1>17. CASE UNCHANGED vars
  BY <1>17 DEF vars, txnVars, callVars, TypeInv, TypeOK, InOpenDB
<1> QED
  BY <1>1, <1>2, <1>3, <1>4, <1>5, <1>6, <1>7, <1>8, <1>9, <1>10, <1>11, <1>12,
     <1>13, <1>14, <1>15, <1>16, <1>17 DEF Next, Undefined

\* TypeOK, the coherence of the objects' fields included, holds of every
\* process, whatever it does with its transactions.
THEOREM TypeCorrect == Spec => []TypeOK
<1>1. TypeInv => TypeOK
  BY DEF TypeInv
<1> QED
  BY InitType, TypeStep, <1>1, PTL DEF Spec

---------------------------------------------------------------------------
(* The counters and the discipline. *)

\* Ending transactions takes away open ones and nothing else.
LEMMA EndedShrinks ==
  ASSUME NEW x \in Txns, NEW y \in Txns, Ended(x)[y] = "active"
  PROVE  Active(y) /\ y # x
BY DEF Ended, Active

LEMMA DeletedShrinks ==
  ASSUME TypeOK, NEW x \in Txns, Deleted(x), NEW y \in Txns, Active(y)'
  PROVE  /\ Active(y) /\ y # x
         /\ impl'[y] = impl[y] /\ owner'[y] = owner[y]
         /\ d_txn'[y] = d_txn[y] /\ ancestors'[y] = ancestors[y]
<1>1. y # x
  BY DEF Deleted, Active, Ended
<1>2. Ended(x)[y] = "active"
  BY <1>1 DEF Deleted, Active, Ended
<1> QED
  BY <1>1, <1>2, EndedShrinks DEF Deleted, TypeOK

\* The discipline survives a step that only ends or deletes transactions.
LEMMA ShrinkKeeps ==
  ASSUME Pointed, ThreadDiscipline,
         \A y \in Txns : Active(y)' =>
           /\ Active(y)
           /\ impl'[y] = impl[y] /\ owner'[y] = owner[y]
           /\ d_txn'[y] = d_txn[y] /\ ancestors'[y] = ancestors[y]
  PROVE  Pointed' /\ ThreadDiscipline'
<1>1. Pointed'
  BY DEF Pointed
<1>2. ThreadDiscipline'
  BY DEF ThreadDiscipline
<1> QED
  BY <1>1, <1>2

\* The discipline survives a new transaction y that goes with every open
\* transaction z of its thread.
LEMMA ConstructKeeps ==
  ASSUME TypeOK, Pointed, ThreadDiscipline,
         NEW t \in Threads, NEW k \in Kinds, NEW y \in Free, NEW A \in SUBSET Txns,
         Construct(t, k, y, A),
         \A z \in Txns : Active(z) /\ owner[z] = t =>
           \/ k = "RO" /\ impl[z] = "RO"
           \/ k = "RW" /\ impl[z] = "RW" /\ z \in A
  PROVE  Pointed' /\ ThreadDiscipline'
<1>1. ~Active(y)
  BY DEF TypeOK, Free, Active
<1>2. \A z \in Txns \ {y} :
        /\ Active(z)' = Active(z)
        /\ impl'[z] = impl[z] /\ owner'[z] = owner[z]
        /\ d_txn'[z] = d_txn[z] /\ ancestors'[z] = ancestors[z]
  BY DEF Construct, TypeOK, Active
<1>3. impl'[y] = k /\ owner'[y] = t /\ d_txn'[y] /\ ancestors'[y] = A
  BY DEF Construct, TypeOK, Free
<1>4. Pointed'
  BY <1>2, <1>3 DEF Pointed
<1>5. ThreadDiscipline'
  <2> SUFFICES ASSUME NEW w \in Txns, NEW z \in Txns,
                      Active(w)', Active(z)', w # z, owner'[w] = owner'[z]
               PROVE  \/ impl'[w] = "RO" /\ impl'[z] = "RO"
                      \/ impl'[w] = "RW" /\ impl'[z] = "RW"
                           /\ (w \in ancestors'[z] \/ z \in ancestors'[w])
    BY DEF ThreadDiscipline
  <2>1. CASE w = y
    BY <2>1, <1>2, <1>3
  <2>2. CASE z = y
    BY <2>2, <1>2, <1>3
  <2>3. CASE w # y /\ z # y
    BY <2>3, <1>2 DEF ThreadDiscipline
  <2> QED
    BY <2>1, <2>2, <2>3
<1> QED
  BY <1>4, <1>5

\* A thread that waits keeps its counters, when no other thread's action
\* touches them.
LEMMA CheckedKeeps ==
  ASSUME TypeOK, Checked, NEW t \in Threads,
         (pc[t] \in Kinds => ~Refused(t, pc[t]))',
         \A u \in Threads \ {t} :
           /\ pc'[u] = pc[u]
           /\ \A k \in Kinds : transactionsOut'[k][u] = transactionsOut[k][u]
  PROVE  Checked'
<1> SUFFICES ASSUME NEW u \in Threads, pc'[u] \in Kinds
             PROVE  ~Refused(u, pc[u])'
  BY DEF Checked
<1>1. CASE u = t
  BY <1>1
<1>2. CASE u # t
  BY <1>2 DEF Checked, Refused, Kinds
<1> QED
  BY <1>1, <1>2

\* A step that leaves the objects and the counters alone.
LEMMA QuietKeeps ==
  ASSUME CountsExact, Pointed, ThreadDiscipline, UNCHANGED <<transactionsOut, txnVars>>
  PROVE  CountsExact' /\ Pointed' /\ ThreadDiscipline'
<1>1. CountsExact'
  <2> SUFFICES ASSUME NEW u \in Threads, NEW j \in Kinds
               PROVE  transactionsOut'[j][u] = Cardinality(Out(u, j)')
    BY DEF CountsExact
  <2>1. Out(u, j)' = Out(u, j)
    BY DEF Out, txnVars
  <2> QED
    BY <2>1 DEF CountsExact
<1>2. Pointed' /\ ThreadDiscipline'
  BY DEF Pointed, ThreadDiscipline, Active, txnVars
<1> QED
  BY <1>1, <1>2

\* An object of t ends and is deleted: by its destructor, or in openDB.
LEMMA DeletedKeeps ==
  ASSUME TypeOK, CountsExact, Pointed, ThreadDiscipline,
         NEW t \in Threads, NEW x \in Txns, owner[x] = t,
         Uncounted(t, x), Deleted(x)
  PROVE  CountsExact' /\ Pointed' /\ ThreadDiscipline'
<1>1. CountsExact'
  <2>1. CASE d_txn[x]
    BY <2>1, Discounted DEF Uncounted, Deleted, TypeOK
  <2>2. CASE ~d_txn[x]
    <3> SUFFICES ASSUME NEW u \in Threads, NEW j \in Kinds
                 PROVE  transactionsOut'[j][u] = Cardinality(Out(u, j)')
      BY DEF CountsExact
    <3>1. Out(u, j)' = Out(u, j)
      BY <2>2 DEF Out, Deleted, TypeOK
    <3> QED
      BY <2>2, <3>1 DEF CountsExact, Uncounted
  <2> QED
    BY <2>1, <2>2
<1>2. Pointed' /\ ThreadDiscipline'
  BY DeletedShrinks, ShrinkKeeps
<1> QED
  BY <1>1, <1>2

LEMMA SafeStep ==
  ASSUME KeepsToThread
  PROVE  TypeInv /\ SafeInv /\ [Next]_vars => SafeInv'
<1> SUFFICES ASSUME TypeInv, SafeInv, [Next]_vars
             PROVE  SafeInv'
  OBVIOUS
<1> USE DEF TypeInv, SafeInv
<1>1. ASSUME NEW t \in Threads, NEW k \in Kinds, GetTransaction(t, k)
      PROVE  SafeInv'
  <2>1. ~Refused(t, k)' /\ pc'[t] = k
    BY <1>1 DEF GetTransaction, StartBegin, Refused, TypeOK
  <2>2. Checked'
    BY <1>1, <2>1, CheckedKeeps DEF GetTransaction, StartBegin, TypeOK
  <2> QED
    BY <1>1, <2>2, QuietKeeps DEF GetTransaction
<1>2. ASSUME NEW t \in Threads, Begin(t)
      PROVE  SafeInv'
  <2>1. PICK x \in Free : Construct(t, pc[t], x, {})
    BY <1>2 DEF Begin
  <2>2. pc[t] \in Kinds /\ ~Refused(t, pc[t])
    BY <1>2 DEF Begin, Checked
  <2>3. CountsExact'
    BY <2>1, <2>2, Constructed
  <2>4. Pointed' /\ ThreadDiscipline'
    BY <2>1, <2>2, NotRefused, ConstructKeeps
  <2>5. Checked'
    BY <1>2, <2>1, CheckedKeeps DEF Begin, Construct, TypeOK, Kinds
  <2> QED
    BY <2>3, <2>4, <2>5
<1>3. ASSUME NEW t \in Threads, BeginFails(t)
      PROVE  SafeInv'
  <2>1. Checked'
    BY <1>3, CheckedKeeps DEF BeginFails, TypeOK, Kinds
  <2> QED
    BY <1>3, <2>1, QuietKeeps DEF BeginFails
<1>4. ASSUME NEW t \in Threads, OpenDB(t)
      PROVE  SafeInv'
  <2>1. Checked'
    BY <1>4, CheckedKeeps DEF OpenDB, TypeOK, Kinds
  <2> QED
    BY <1>4, <2>1, QuietKeeps DEF OpenDB
<1>5. ASSUME NEW t \in Threads, OpenDBLock(t)
      PROVE  SafeInv'
  <2>1. \A k \in Kinds : Refused(t, k)' = Refused(t, k)
    BY <1>5 DEF OpenDBLock, Refused
  <2>2. pc'[t] = "idle" \/ \E k \in Kinds : ~Refused(t, k) /\ pc'[t] = k
    BY <1>5 DEF OpenDBLock, StartBegin, TypeOK, Kinds
  <2>3. Checked'
    BY <1>5, <2>1, <2>2, CheckedKeeps DEF OpenDBLock, StartBegin, TypeOK, Kinds
  <2> QED
    BY <1>5, <2>3, QuietKeeps DEF OpenDBLock
<1>6. ASSUME NEW t \in Threads, DbiOpen(t)
      PROVE  SafeInv'
  <2>1. Checked'
    BY <1>6, CheckedKeeps DEF DbiOpen, TypeOK, Kinds
  <2> QED
    BY <1>6, <2>1, QuietKeeps DEF DbiOpen
<1>7. ASSUME NEW t \in Threads, OpenDBReturn(t)
      PROVE  SafeInv'
  <2>1. cur[t] \in Txns /\ owner[cur[t]] = t /\ d_txn[cur[t]]
    BY <1>7 DEF OpenDBReturn, InOpenDB
  <2>2. Checked'
    BY <1>7, <2>1, CheckedKeeps DEF OpenDBReturn, Uncounted, TypeOK, Kinds
  <2> QED
    BY <1>7, <2>1, <2>2, DeletedKeeps DEF OpenDBReturn
<1>8. ASSUME NEW t \in Threads, OpenDBCommitFails(t)
      PROVE  SafeInv'
  BY <1>8, QuietKeeps DEF OpenDBCommitFails, Checked, Refused, callVars
<1>9. ASSUME NEW t \in Threads, NEW x \in Txns, Nested(t, x)
      PROVE  SafeInv'
  <2> DEFINE A == ancestors[x] \cup {x}
  <2>1. PICK y \in Free : Construct(t, "RW", y, A)
    BY <1>9 DEF Nested
  <2>2. CountsExact'
    BY <2>1, Constructed DEF Kinds
  <2>3. ASSUME NEW z \in Txns, Active(z), owner[z] = t
        PROVE  impl[z] = "RW" /\ z \in A
    BY <1>9, <2>3 DEF Nested, Holds, HasChild, ThreadDiscipline
  <2>4. Pointed' /\ ThreadDiscipline'
    <3>1. A \in SUBSET Txns /\ "RW" \in Kinds
      BY DEF TypeOK, Kinds
    <3> QED
      BY <2>1, <2>3, <3>1, ConstructKeeps
  <2>5. Checked'
    BY <1>9, <2>1, CheckedKeeps DEF Nested, Holds, Idle, Construct, callVars, TypeOK, Kinds
  <2> QED
    BY <2>2, <2>4, <2>5
<1>10. ASSUME NEW t \in Threads, NEW x \in Txns, NestedOnClosed(t, x)
       PROVE  FALSE
  BY <1>10 DEF NestedOnClosed, KeepsToThread
<1>11. ASSUME NEW t \in Threads, NEW x \in Txns, Finish(t, x)
       PROVE  SafeInv'
  <2>1. CountsExact'
    BY <1>11, Discounted DEF Finish, Holds
  <2>2. \A y \in Txns : Active(y)' =>
          /\ Active(y)
          /\ impl'[y] = impl[y] /\ owner'[y] = owner[y]
          /\ d_txn'[y] = d_txn[y] /\ ancestors'[y] = ancestors[y]
    BY <1>11, EndedShrinks DEF Finish, Active, TypeOK
  <2>3. Checked'
    BY <1>11, CheckedKeeps DEF Finish, Holds, Idle, callVars, TypeOK, Kinds
  <2> QED
    BY <2>1, <2>2, <2>3, ShrinkKeeps
<1>12. ASSUME NEW t \in Threads, NEW x \in Txns, CommitFails(t, x)
       PROVE  SafeInv'
  <2>1. CountsExact'
    <3> SUFFICES ASSUME NEW u \in Threads, NEW j \in Kinds
                 PROVE  transactionsOut'[j][u] = Cardinality(Out(u, j)')
      BY DEF CountsExact
    <3>1. Out(u, j)' = Out(u, j)
      BY <1>12 DEF Out, CommitFails
    <3> QED
      BY <1>12, <3>1 DEF CountsExact, CommitFails
  <2>2. \A y \in Txns : Active(y)' =>
          /\ Active(y)
          /\ impl'[y] = impl[y] /\ owner'[y] = owner[y]
          /\ d_txn'[y] = d_txn[y] /\ ancestors'[y] = ancestors[y]
    BY <1>12, EndedShrinks DEF CommitFails, Active
  <2>3. Checked'
    BY <1>12 DEF CommitFails, Checked, Refused, callVars
  <2> QED
    BY <2>1, <2>2, <2>3, ShrinkKeeps
<1>13. ASSUME NEW t \in Threads, NEW x \in Txns, Destroy(t, x)
       PROVE  SafeInv'
  <2>1. Checked'
    BY <1>13, CheckedKeeps DEF Destroy, Uncounted, Holds, Idle, callVars, TypeOK, Kinds
  <2> QED
    BY <1>13, <2>1, DeletedKeeps DEF Destroy, Holds
<1>14. ASSUME NEW t \in Threads, NEW x \in Txns, UseFreed(t, x)
       PROVE  SafeInv'
  BY <1>14, QuietKeeps DEF UseFreed, Checked, Refused, callVars
<1>15. ASSUME NEW t \in Threads, NEW x \in Txns, TxnOpenDB(t, x)
       PROVE  SafeInv'
  BY <1>15, QuietKeeps DEF TxnOpenDB, Checked, Refused, callVars
<1>16. ASSUME NEW t \in Threads, NEW x \in Txns, NEW u \in Threads, HandOff(t, u, x)
       PROVE  FALSE
  BY <1>16 DEF HandOff, KeepsToThread
<1>17. CASE UNCHANGED vars
  BY <1>17, QuietKeeps DEF vars, callVars, Checked, Refused
<1> QED
  BY <1>1, <1>2, <1>3, <1>4, <1>5, <1>6, <1>7, <1>8, <1>9, <1>10, <1>11, <1>12,
     <1>13, <1>14, <1>15, <1>16, <1>17 DEF Next, Undefined

LEMMA InitSafe == Init => SafeInv
<1> SUFFICES ASSUME Init
             PROVE  SafeInv
  OBVIOUS
<1>1. CountsExact
  <2> SUFFICES ASSUME NEW t \in Threads, NEW k \in Kinds
               PROVE  transactionsOut[k][t] = Cardinality(Out(t, k))
    BY DEF CountsExact
  <2>1. Out(t, k) = {}
    BY DEF Out, Init
  <2> QED
    BY <2>1, FS_EmptySet DEF Init
<1>2. Pointed /\ ThreadDiscipline
  BY DEF Init, Pointed, ThreadDiscipline, Active
<1>3. Checked
  BY DEF Init, Checked, Kinds
<1> QED
  BY <1>1, <1>2, <1>3 DEF SafeInv

LEMMA Invariant ==
  ASSUME KeepsToThread
  PROVE  Spec => []IInv
<1>1. Init => IInv
  BY InitType, InitSafe DEF IInv
<1>2. IInv /\ [Next]_vars => IInv'
  BY TypeStep, SafeStep DEF IInv
<1> QED
  BY <1>1, <1>2, PTL DEF Spec

\* The counters are the numbers of unfinished transaction objects, through
\* nesting, failed begins and commits, and exceptions out of openDB.
THEOREM CountersExact ==
  ASSUME KeepsToThread
  PROVE  Spec => []CountsExact
<1>1. IInv => CountsExact
  BY DEF IInv, SafeInv
<1> QED
  BY <1>1, Invariant, PTL

\* README.md's rule: no thread has two open transactions, unless both are
\* read-only or one is nested in the other.
THEOREM NeverTwoTransactions ==
  ASSUME KeepsToThread
  PROVE  Spec => []ThreadDiscipline
<1>1. IInv => ThreadDiscipline
  BY DEF IInv, SafeInv
<1> QED
  BY <1>1, Invariant, PTL

\* No thread waits in mdb_txn_begin for a writer lock it holds itself: what
\* LMDB would answer with a deadlock has become an exception before.
THEOREM NeverSelfDeadlocked ==
  ASSUME KeepsToThread
  PROVE  Spec => []NoSelfWait
<1>1. IInv => NoSelfWait
  <2> SUFFICES ASSUME IInv, NEW t \in Threads, pc[t] = "RW",
                      NEW x \in Txns, owner[x] = t, Active(x)
               PROVE  FALSE
    BY DEF NoSelfWait
  <2>1. ~Refused(t, "RW") /\ "RW" \in Kinds
    BY DEF IInv, SafeInv, Checked, Kinds
  <2> QED
    BY <2>1, NotRefused DEF IInv, TypeInv, SafeInv
<1> QED
  BY <1>1, Invariant, PTL

\* "Duplicate RW transaction" and "Duplicate RO transaction" are never thrown
\* at a thread that has no unfinished transaction.
THEOREM RefusalsJustified ==
  ASSUME KeepsToThread
  PROVE  Spec => []RefusalJustified
<1>1. IInv => RefusalJustified
  <2> SUFFICES ASSUME IInv, NEW t \in Threads, NEW k \in Kinds, Refused(t, k),
                      Out(t, "RO") \cup Out(t, "RW") = {}
               PROVE  FALSE
    BY DEF RefusalJustified
  <2>1. \A j \in Kinds : transactionsOut[j][t] = 0
    <3> SUFFICES ASSUME NEW j \in Kinds
                 PROVE  transactionsOut[j][t] = 0
      OBVIOUS
    <3>1. Out(t, j) = {}
      BY DEF Kinds
    <3> QED
      BY <3>1, FS_EmptySet DEF IInv, SafeInv, CountsExact
  <2> QED
    BY <2>1 DEF Refused, Kinds
<1> QED
  BY <1>1, Invariant, PTL

---------------------------------------------------------------------------
(* mdb_dbi_open. *)

\* From mdb_txn_begin to its return, openDB has the mutex, and a transaction
\* that used mdb_dbi_open is the rwt of the thread that has it.
OpenInv ==
  /\ \A t \in Threads : pc[t] \in {"dbi", "finish"} => d_openmut = t
  /\ \A x \in opened : /\ d_openmut \in Threads
                       /\ pc[d_openmut] = "finish" /\ x = cur[d_openmut]

LEMMA InitOpen == Init => OpenInv
BY DEF Init, OpenInv

\* What a thread does outside openDB, or while it waits, leaves the thread with
\* the mutex alone, and puts nothing into opened.
LEMMA OutsideKeeps ==
  ASSUME TypeOK, OpenInv, NEW t \in Threads, pc[t] \notin {"dbi", "finish"},
         UNCHANGED cur, d_openmut' = d_openmut \/ d_openmut \in {t, NoThread},
         pc' \in [Threads -> {"idle", "lock", "dbi", "finish"} \cup Kinds],
         pc'[t] \notin {"dbi", "finish"}, \A u \in Threads \ {t} : pc'[u] = pc[u],
         opened' \subseteq opened
  PROVE  OpenInv'
<1>1. \A x \in opened : /\ d_openmut \in Threads \ {t} /\ d_openmut' = d_openmut
                        /\ pc'[d_openmut] = "finish" /\ x = cur[d_openmut]
  BY ConstantsAssumption DEF OpenInv
<1>2. ASSUME NEW u \in Threads, pc'[u] \in {"dbi", "finish"}
      PROVE  d_openmut' = u
  BY <1>2, ConstantsAssumption DEF OpenInv
<1> QED
  BY <1>1, <1>2 DEF OpenInv

LEMMA OpenStep ==
  ASSUME "manual_open" \notin Uses, TypeInv, OpenInv, [Next]_vars
  PROVE  OpenInv'
<1> TypeOK /\ TypeOK'
  BY TypeStep DEF TypeInv
<1>1. ASSUME NEW t \in Threads, NEW k \in Kinds, GetTransaction(t, k)
      PROVE  OpenInv'
  BY <1>1, OutsideKeeps DEF GetTransaction, StartBegin, Idle, TypeOK, Kinds
<1>2. ASSUME NEW t \in Threads, Begin(t)
      PROVE  OpenInv'
  <2>1. /\ pc[t] \in Kinds /\ UNCHANGED <<d_openmut, opened>>
        /\ pc' = [pc EXCEPT ![t] = IF d_openmut = t THEN "dbi" ELSE "idle"]
        /\ \A u \in Threads \ {t} : cur'[u] = cur[u]
    BY <1>2 DEF Begin, TypeOK
  <2>2. \A x \in opened : d_openmut # t
    BY <2>1 DEF OpenInv, Kinds
  <2> QED
    BY <2>1, <2>2 DEF OpenInv, TypeOK
<1>3. ASSUME NEW t \in Threads, BeginFails(t)
      PROVE  OpenInv'
  BY <1>3, OutsideKeeps DEF BeginFails, TypeOK, Kinds
<1>4. ASSUME NEW t \in Threads, OpenDB(t)
      PROVE  OpenInv'
  BY <1>4, OutsideKeeps DEF OpenDB, Idle, TypeOK
<1>5. ASSUME NEW t \in Threads, OpenDBLock(t)
      PROVE  OpenInv'
  BY <1>5, OutsideKeeps DEF OpenDBLock, StartBegin, TypeOK, Kinds
<1>6. ASSUME NEW t \in Threads, DbiOpen(t)
      PROVE  OpenInv'
  <2>1. /\ pc[t] = "dbi" /\ pc' = [pc EXCEPT ![t] = "finish"]
        /\ opened' = opened \cup {cur[t]} /\ UNCHANGED <<d_openmut, cur>>
    BY <1>6 DEF DbiOpen
  <2>2. d_openmut = t /\ opened = {}
    BY <2>1 DEF OpenInv
  <2> QED
    BY <2>1, <2>2 DEF OpenInv, TypeOK
<1>7. ASSUME NEW t \in Threads, OpenDBReturn(t)
      PROVE  OpenInv'
  <2>1. /\ pc[t] \in {"dbi", "finish"} /\ pc' = [pc EXCEPT ![t] = "idle"]
        /\ opened' = opened \ {cur[t]} /\ d_openmut' = NoThread
    BY <1>7 DEF OpenDBReturn, Deleted
  <2>2. d_openmut = t /\ opened \subseteq {cur[t]}
    BY <2>1 DEF OpenInv
  <2>3. opened' = {} /\ \A u \in Threads : pc'[u] \notin {"dbi", "finish"}
    BY <2>1, <2>2 DEF OpenInv, TypeOK
  <2> QED
    BY <2>3 DEF OpenInv
<1>8. ASSUME NEW t \in Threads, NEW x \in Txns, Holds(t, x), UNCHANGED <<d_openmut, cur>>,
             pc' = pc \/ pc' = [pc EXCEPT ![t] = "RW"], opened' \subseteq opened
      PROVE  OpenInv'
  BY <1>8, OutsideKeeps DEF Holds, Idle, TypeOK, Kinds
<1>9. ASSUME NEW t \in Threads, OpenDBCommitFails(t)
      PROVE  OpenInv'
  BY <1>9 DEF OpenDBCommitFails, OpenInv, callVars
<1>10. ASSUME NEW t \in Threads, NEW x \in Txns,
              \/ Nested(t, x) \/ NestedOnClosed(t, x) \/ Finish(t, x) \/ CommitFails(t, x)
              \/ Destroy(t, x) \/ UseFreed(t, x)
       PROVE  OpenInv'
  BY <1>8, <1>10 DEF Nested, NestedOnClosed, StartBegin, Finish, CommitFails, Destroy, Deleted,
                     UseFreed, callVars
<1>11. ASSUME NEW t \in Threads, NEW x \in Txns, NEW u \in Threads, HandOff(t, u, x)
       PROVE  OpenInv'
  BY <1>8, <1>11 DEF HandOff, callVars
<1>12. CASE UNCHANGED vars
  BY <1>12 DEF vars, callVars, OpenInv
<1> QED
  BY <1>1, <1>2, <1>3, <1>4, <1>5, <1>6, <1>7, <1>9, <1>10, <1>11, <1>12
     DEF Next, Undefined, TxnOpenDB

\* lmdb-safe.cc's comment on mdb_dbi_open: while a transaction that has used it
\* is open, no other transaction of the process uses it.  MDBEnv::openDB's mutex
\* sees to that in every process that calls no openDB of a transaction itself.
THEOREM OneAtATime ==
  ASSUME "manual_open" \notin Uses
  PROVE  Spec => []OneOpener
<1>1. TypeInv /\ OpenInv /\ [Next]_vars => OpenInv'
  BY OpenStep
<1>2. OpenInv => OneOpener
  BY DEF OpenInv, OneOpener
<1> QED
  BY InitType, InitOpen, TypeStep, <1>1, <1>2, PTL DEF Spec

---------------------------------------------------------------------------
(* The totals. *)

\* The objects of class k whose pointer is set.
Pointing(k) == {x \in Txns : impl[x] = k /\ d_txn[x]}

LEMMA SumFunctionIs ==
  ASSUME NEW f
  PROVE  F!SumFunction(f) = SumOver(f)
BY DEF F!SumFunction, F!SumFunctionOnSet, F!FoldFunctionOnSet, F!MapThenFoldSet,
       SumOver, Sums, Pick

\* One counter of class k changes to n, and the number of objects with it.
LEMMA TotalKeeps ==
  ASSUME TypeOK, IsFiniteSet(Threads), CountsConserved,
         NEW t \in Threads, NEW k \in Kinds, NEW n \in Int,
         transactionsOut' = [transactionsOut EXCEPT ![k][t] = n],
         Cardinality(Pointing(k)') = Cardinality(Pointing(k)) + (n - transactionsOut[k][t]),
         \A j \in Kinds \ {k} : Pointing(j)' = Pointing(j)
  PROVE  CountsConserved'
<1> SUFFICES ASSUME NEW j \in Kinds
             PROVE  Total(j)' = Cardinality(Pointing(j)')
  BY DEF CountsConserved, Pointing
<1>1. SumOver(transactionsOut[j]) = Cardinality(Pointing(j))
  BY SumFunctionIs DEF CountsConserved, Total, Pointing
<1>2. Total(j)' = SumOver(transactionsOut'[j])
  BY SumFunctionIs DEF Total
<1>3. CASE j = k
  <2>1. transactionsOut[k] \in [Threads -> Int]
    BY DEF TypeOK
  <2>2. transactionsOut'[k] = [transactionsOut[k] EXCEPT ![t] = n]
    BY DEF TypeOK
  <2>3. SumOver(transactionsOut'[k])
          = SumOver(transactionsOut[k]) + (n - transactionsOut[k][t])
    BY <2>1, <2>2, SumChanges
  <2> QED
    BY <1>1, <1>2, <1>3, <2>3
<1>4. CASE j # k
  <2>1. transactionsOut'[j] = transactionsOut[j]
    BY <1>4 DEF TypeOK
  <2> QED
    BY <1>1, <1>2, <1>4, <2>1
<1> QED
  BY <1>3, <1>4

LEMMA PointingFinite ==
  ASSUME NEW k
  PROVE  IsFiniteSet(Pointing(k)) /\ Cardinality(Pointing(k)) \in Nat
<1>1. Pointing(k) \subseteq Txns
  BY DEF Pointing
<1> QED
  BY <1>1, ConstantsAssumption, FS_Subset, FS_CardinalityType

LEMMA ConstructTotal ==
  ASSUME TypeOK, IsFiniteSet(Threads), CountsConserved,
         NEW t \in Threads, NEW k \in Kinds, NEW x \in Free, NEW A, Construct(t, k, x, A)
  PROVE  CountsConserved'
<1>1. /\ x \notin Pointing(k) /\ Pointing(k)' = Pointing(k) \cup {x}
      /\ \A j \in Kinds \ {k} : Pointing(j)' = Pointing(j)
  <2>1. x \in Txns /\ impl[x] = "none" /\ ~d_txn[x] /\ impl'[x] = k /\ d_txn'[x]
    BY DEF Construct, TypeOK, Free
  <2>2. \A y \in Txns \ {x} : impl'[y] = impl[y] /\ d_txn'[y] = d_txn[y]
    BY DEF Construct, TypeOK
  <2> QED
    BY <2>1, <2>2 DEF Pointing
<1>2. Cardinality(Pointing(k)') = Cardinality(Pointing(k)) + 1
  BY <1>1, PointingFinite, FS_AddElement
<1> DEFINE n == transactionsOut[k][t] + 1
<1>3. n \in Int /\ n - transactionsOut[k][t] = 1
  BY DEF TypeOK
<1>4. transactionsOut' = [transactionsOut EXCEPT ![k][t] = n]
  BY DEF Construct
<1> HIDE DEF n
<1> QED
  BY <1>1, <1>2, <1>3, <1>4, TotalKeeps

LEMMA DiscountTotal ==
  ASSUME TypeOK, IsFiniteSet(Threads), CountsConserved,
         NEW t \in Threads, NEW x \in Txns, d_txn[x],
         transactionsOut' = [transactionsOut EXCEPT ![impl[x]][t] = @ - 1],
         d_txn' = [d_txn EXCEPT ![x] = FALSE],
         \A y \in Txns \ {x} : impl'[y] = impl[y]
  PROVE  CountsConserved'
<1>1. PICK k \in Kinds : k = impl[x]
  BY DEF TypeOK, Kinds
<1>2. /\ x \in Pointing(k) /\ Pointing(k)' = Pointing(k) \ {x}
      /\ \A j \in Kinds \ {k} : Pointing(j)' = Pointing(j)
  <2>1. ~d_txn'[x] /\ \A y \in Txns \ {x} : d_txn'[y] = d_txn[y]
    BY DEF TypeOK
  <2> QED
    BY <1>1, <2>1 DEF Pointing
<1> DEFINE n == transactionsOut[k][t] - 1
<1>3. n \in Int /\ n - transactionsOut[k][t] = -1
  BY DEF TypeOK
<1>4. transactionsOut' = [transactionsOut EXCEPT ![k][t] = n]
  BY <1>1
<1>5. Cardinality(Pointing(k)') = Cardinality(Pointing(k)) + (n - transactionsOut[k][t])
  <2>1. Cardinality(Pointing(k)') = Cardinality(Pointing(k)) - 1
    BY <1>2, PointingFinite, FS_RemoveElement
  <2>2. Cardinality(Pointing(k)) \in Nat
    BY PointingFinite
  <2>3. transactionsOut[k][t] \in Int
    BY DEF TypeOK
  <2> QED
    BY <2>1, <2>2, <2>3
<1> HIDE DEF n
<1> QED
  BY ONLY TypeOK, IsFiniteSet(Threads), CountsConserved, <1>1, <1>2, <1>3, <1>4, <1>5, TotalKeeps

\* A step that leaves the counters and the pointers alone.
LEMMA QuietTotal ==
  ASSUME CountsConserved, transactionsOut' = transactionsOut,
         \A x \in Txns : (d_txn'[x] <=> d_txn[x]) /\ (d_txn[x] => impl'[x] = impl[x])
  PROVE  CountsConserved'
<1> SUFFICES ASSUME NEW k \in Kinds
             PROVE  Total(k)' = Cardinality(Pointing(k)')
  BY DEF CountsConserved, Pointing
<1>1. Pointing(k)' = Pointing(k)
  BY DEF Pointing
<1> QED
  BY <1>1 DEF CountsConserved, Total, Pointing

LEMMA DeletedTotal ==
  ASSUME TypeOK, IsFiniteSet(Threads), CountsConserved,
         NEW t \in Threads, NEW x \in Txns, Uncounted(t, x), Deleted(x)
  PROVE  CountsConserved'
<1>1. /\ d_txn' = [d_txn EXCEPT ![x] = FALSE]
      /\ \A y \in Txns \ {x} : impl'[y] = impl[y]
  BY DEF Deleted, TypeOK
<1>2. CASE d_txn[x]
  BY <1>1, <1>2, DiscountTotal DEF Uncounted
<1>3. CASE ~d_txn[x]
  <2>1. \A y \in Txns : (d_txn'[y] <=> d_txn[y]) /\ (d_txn[y] => impl'[y] = impl[y])
    BY <1>1, <1>3 DEF TypeOK
  <2> QED
    BY <1>3, <2>1, QuietTotal DEF Uncounted
<1> QED
  BY <1>2, <1>3

LEMMA InitTotal ==
  ASSUME IsFiniteSet(Threads)
  PROVE  Init => CountsConserved
<1> SUFFICES ASSUME Init, NEW k \in Kinds
             PROVE  Total(k) = Cardinality(Pointing(k))
  BY DEF CountsConserved, Pointing
<1>1. Pointing(k) = {}
  BY DEF Init, Pointing
<1>2. transactionsOut[k] = [t \in Threads |-> 0]
  BY DEF Init
<1> QED
  BY <1>1, <1>2, SumFunctionIs, SumOfZeros, FS_EmptySet DEF Total

LEMMA TotalStep ==
  ASSUME IsFiniteSet(Threads), TypeInv, CountsConserved, [Next]_vars
  PROVE  CountsConserved'
<1> TypeOK /\ InOpenDB
  BY DEF TypeInv
<1>1. ASSUME NEW t \in Threads, Begin(t)
      PROVE  CountsConserved'
  BY <1>1, ConstructTotal DEF Begin
<1>2. ASSUME NEW t \in Threads, NEW x \in Txns, Nested(t, x)
      PROVE  CountsConserved'
  BY <1>2, ConstructTotal DEF Nested, Kinds
<1>3. ASSUME NEW t \in Threads, OpenDBReturn(t)
      PROVE  CountsConserved'
  BY <1>3, DeletedTotal DEF OpenDBReturn, InOpenDB
<1>4. ASSUME NEW t \in Threads, NEW x \in Txns, Finish(t, x)
      PROVE  CountsConserved'
  BY <1>4, DiscountTotal DEF Finish
<1>5. ASSUME NEW t \in Threads, NEW x \in Txns, Destroy(t, x)
      PROVE  CountsConserved'
  BY <1>5, DeletedTotal DEF Destroy
<1>6. ASSUME UNCHANGED <<transactionsOut, d_txn, impl>>
      PROVE  CountsConserved'
  BY <1>6, QuietTotal
<1>7. CASE \E t \in Threads :
             \/ \E k \in Kinds : GetTransaction(t, k)
             \/ BeginFails(t) \/ OpenDB(t) \/ OpenDBLock(t) \/ DbiOpen(t) \/ OpenDBCommitFails(t)
  BY <1>6, <1>7 DEF GetTransaction, BeginFails, OpenDB, OpenDBLock, DbiOpen,
                    OpenDBCommitFails, txnVars
<1>8. CASE \E t \in Threads, x \in Txns :
             \/ NestedOnClosed(t, x) \/ CommitFails(t, x) \/ UseFreed(t, x) \/ TxnOpenDB(t, x)
             \/ \E u \in Threads \ {t} : HandOff(t, u, x)
  BY <1>6, <1>8 DEF NestedOnClosed, CommitFails, UseFreed, TxnOpenDB, HandOff, txnVars
<1>9. CASE UNCHANGED vars
  BY <1>6, <1>9 DEF vars, txnVars
<1> QED
  BY <1>1, <1>2, <1>3, <1>4, <1>5, <1>7, <1>8, <1>9 DEF Next, Undefined

\* However a process passes its transactions around, and whatever fails, each
\* is counted once and discounted once: over all threads the counters add up to
\* the unfinished objects.
THEOREM TotalsExact ==
  ASSUME IsFiniteSet(Threads)
  PROVE  Spec => []CountsConserved
<1>1. TypeInv /\ CountsConserved /\ [Next]_vars => CountsConserved'
  BY TotalStep
<1> QED
  BY InitType, InitTotal, TypeStep, <1>1, PTL DEF Spec
=============================================================================
