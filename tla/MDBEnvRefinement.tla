------------------------- MODULE MDBEnvRefinement -------------------------
(***************************************************************************)
(* Proof that MDBEnv implements TxnDiscipline: with the counters of        *)
(* MDBEnvProofs, every step of the environment is a step of the abstract   *)
(* discipline or leaves the open transactions as they are.                 *)
(***************************************************************************)
EXTENDS MDBEnvProofs

\* An open nested transaction hangs on open write transactions of its thread,
\* so the transactions that end with one of them are all its thread's.
Linked ==
  \A y \in Txns : Active(y) => \A x \in ancestors[y] :
    /\ Active(x)
    /\ owner[x] = owner[y]
    /\ impl[x] = "RW" /\ impl[y] = "RW"
    /\ ancestors[x] \subseteq ancestors[y]

---------------------------------------------------------------------------
\* Ending x keeps the links: whatever hangs on x ends too.
LEMMA EndLinked ==
  ASSUME TypeOK, Linked, NEW x \in Txns,
         \A y \in Txns : Active(y)' <=> Active(y) /\ y # x /\ x \notin ancestors[y],
         \A y \in Txns : Active(y)' =>
           impl'[y] = impl[y] /\ owner'[y] = owner[y] /\ ancestors'[y] = ancestors[y]
  PROVE  Linked'
<1> SUFFICES ASSUME NEW y \in Txns, Active(y)', NEW z \in ancestors'[y]
             PROVE  /\ Active(z)'
                    /\ owner'[z] = owner'[y]
                    /\ impl'[z] = "RW" /\ impl'[y] = "RW"
                    /\ ancestors'[z] \subseteq ancestors'[y]
  BY DEF Linked
<1>1. Active(y) /\ y # x /\ x \notin ancestors[y] /\ z \in ancestors[y]
  OBVIOUS
<1>2. z \in Txns /\ Active(z) /\ ancestors[z] \subseteq ancestors[y]
  BY <1>1 DEF TypeOK, Linked
<1>3. Active(z)'
  BY <1>1, <1>2
<1> QED
  BY <1>1, <1>2, <1>3 DEF Linked

\* A transaction that is new has no descendants.
LEMMA ConstructLinked ==
  ASSUME TypeOK, Linked,
         NEW t \in Threads, NEW k \in Kinds, NEW y \in Free, NEW A \in SUBSET Txns,
         Construct(t, k, y, A),
         \A z \in A : /\ Active(z) /\ owner[z] = t
                      /\ impl[z] = "RW" /\ k = "RW"
                      /\ ancestors[z] \subseteq A
  PROVE  Linked'
<1>1. ~Active(y)
  BY DEF TypeOK, Free, Active
<1>2. \A z \in Txns \ {y} :
        /\ Active(z)' = Active(z)
        /\ impl'[z] = impl[z] /\ owner'[z] = owner[z] /\ ancestors'[z] = ancestors[z]
  BY DEF Construct, TypeOK, Active
<1>3. impl'[y] = k /\ owner'[y] = t /\ ancestors'[y] = A
  BY DEF Construct, TypeOK, Free
<1> SUFFICES ASSUME NEW w \in Txns, Active(w)', NEW z \in ancestors'[w]
             PROVE  /\ Active(z)'
                    /\ owner'[z] = owner'[w]
                    /\ impl'[z] = "RW" /\ impl'[w] = "RW"
                    /\ ancestors'[z] \subseteq ancestors'[w]
  BY DEF Linked
<1>4. CASE w = y
  <2>1. z \in A /\ z \in Txns /\ z # y
    BY <1>1, <1>3, <1>4
  <2> QED
    BY <2>1, <1>2, <1>3, <1>4
<1>5. CASE w # y
  <2>1. Active(w) /\ z \in ancestors[w] /\ z \in Txns
    BY <1>2, <1>5 DEF TypeOK
  <2>2. Active(z) /\ z # y
    BY <2>1, <1>1 DEF Linked
  <2> QED
    BY <2>1, <2>2, <1>2, <1>5 DEF Linked
<1> QED
  BY <1>4, <1>5

\* What Deleted and Ended do to the open transactions.
LEMMA DeletedActive ==
  ASSUME TypeOK, NEW x \in Txns, Deleted(x)
  PROVE  /\ \A y \in Txns : Active(y)' <=> Active(y) /\ y # x /\ x \notin ancestors[y]
         /\ \A y \in Txns : Active(y)' =>
              impl'[y] = impl[y] /\ owner'[y] = owner[y] /\ ancestors'[y] = ancestors[y]
<1>1. \A y \in Txns : Active(y)' <=> Active(y) /\ y # x /\ x \notin ancestors[y]
  BY DEF Deleted, Ended, Active, TypeOK
<1>2. \A y \in Txns \ {x} :
        impl'[y] = impl[y] /\ owner'[y] = owner[y] /\ ancestors'[y] = ancestors[y]
  BY DEF Deleted, TypeOK
<1> QED
  BY <1>1, <1>2

LEMMA EndedActive ==
  ASSUME NEW x \in Txns, handle' = Ended(x)
  PROVE  \A y \in Txns : Active(y)' <=> Active(y) /\ y # x /\ x \notin ancestors[y]
BY DEF Ended, Active

---------------------------------------------------------------------------
(* The abstract steps. *)

\* Where no open transaction changes, the abstract state stutters.
LEMMA Stutter ==
  ASSUME \A y \in Txns : Active(y)' <=> Active(y),
         \A y \in Txns : Active(y) => impl'[y] = impl[y] /\ owner'[y] = owner[y]
  PROVE  [Abstract!Next]_(Abstract!vars)
<1>1. ASSUME NEW k PROVE OpenOf(k)' = OpenOf(k)
  <2>1. \A t \in Threads :
          {x \in Txns : impl'[x] = k /\ owner'[x] = t /\ Active(x)'} =
          {x \in Txns : impl[x] = k /\ owner[x] = t /\ Active(x)}
    OBVIOUS
  <2> QED
    BY <2>1 DEF OpenOf
<1> QED
  BY <1>1 DEF Abstract!vars

\* The open transactions of a thread, by membership.
LEMMA OpenMember ==
  ASSUME NEW k, NEW t \in Threads, NEW x
  PROVE  x \in OpenOf(k)[t] <=> x \in Txns /\ impl[x] = k /\ owner[x] = t /\ Active(x)
BY DEF OpenOf

\* Taking S away everywhere, where only t has some of it.
LEMMA OnlyAt ==
  ASSUME NEW f, f = [u \in Threads |-> f[u]], NEW t \in Threads, NEW S,
         \A u \in Threads \ {t} : f[u] \cap S = {}
  PROVE  [u \in Threads |-> f[u] \ S] = [f EXCEPT ![t] = @ \ S]
<1>1. \A u \in Threads : f[u] \ S = IF u = t THEN f[t] \ S ELSE f[u]
  OBVIOUS
<1> QED
  BY <1>1

\* The transaction x of thread t ends, with all that hang on it.
LEMMA EndStep ==
  ASSUME TypeOK, Linked, NEW t \in Threads, NEW x \in Txns, owner[x] = t,
         \A y \in Txns : Active(y)' <=> Active(y) /\ y # x /\ x \notin ancestors[y],
         \A y \in Txns : Active(y)' => impl'[y] = impl[y] /\ owner'[y] = owner[y]
  PROVE  [Abstract!Next]_(Abstract!vars)
<1> DEFINE S == {y \in Txns : Active(y) /\ (y = x \/ x \in ancestors[y])}
<1>1. \A k : OpenOf(k)' = [u \in Threads |-> OpenOf(k)[u] \ S]
  <2> SUFFICES ASSUME NEW k
               PROVE  OpenOf(k)' = [u \in Threads |-> OpenOf(k)[u] \ S]
    OBVIOUS
  <2>1. \A u \in Threads :
          {y \in Txns : impl'[y] = k /\ owner'[y] = u /\ Active(y)'} =
          {y \in Txns : impl[y] = k /\ owner[y] = u /\ Active(y)} \ S
    OBVIOUS
  <2> QED
    BY <2>1 DEF OpenOf
<1>2. CASE ~Active(x)
  <2>1. \A y \in Txns : Active(y) => x \notin ancestors[y]
    BY <1>2 DEF Linked
  <2> QED
    BY <1>2, <2>1, Stutter
<1>3. CASE Active(x) /\ impl[x] = "RO"
  <2>1. S = {x}
    BY <1>3 DEF Linked
  <2>2. \A u \in Threads \ {t} : OpenOf("RO")[u] \cap {x} = {}
    BY OpenMember
  <2>3. \A u \in Threads : x \notin OpenOf("RW")[u]
    BY <1>3, OpenMember
  <2>4. OpenOf("RO")' = [OpenOf("RO") EXCEPT ![t] = @ \ {x}]
    <3>1. OpenOf("RO") = [u \in Threads |-> OpenOf("RO")[u]]
      BY DEF OpenOf
    <3> QED
      BY <1>1, <2>1, <2>2, <3>1, OnlyAt
  <2>5. OpenOf("RW")' = OpenOf("RW")
    BY <1>1, <2>1, <2>3 DEF OpenOf
  <2>6. x \in OpenOf("RO")[t]
    BY <1>3, OpenMember
  <2> QED
    BY <2>4, <2>5, <2>6 DEF Abstract!Next, Abstract!EndRead
<1>4. CASE Active(x) /\ impl[x] = "RW"
  <2>1. \A y \in S : impl[y] = "RW" /\ owner[y] = t
    BY <1>4 DEF Linked
  <2>2. S \subseteq OpenOf("RW")[t] /\ S # {}
    BY <1>4, <2>1, OpenMember
  <2>3. OpenOf("RO")' = OpenOf("RO")
    <3>1. \A u \in Threads : OpenOf("RO")[u] \cap S = {}
      BY <2>1, OpenMember
    <3> QED
      BY <1>1, <3>1 DEF OpenOf
  <2>4. OpenOf("RW")' = [OpenOf("RW") EXCEPT ![t] = @ \ S]
    <3>1. \A u \in Threads \ {t} : OpenOf("RW")[u] \cap S = {}
      BY <2>1, OpenMember
    <3>2. OpenOf("RW") = [u \in Threads |-> OpenOf("RW")[u]]
      BY DEF OpenOf
    <3> DEFINE f == OpenOf("RW")
    <3>3. OpenOf("RW")' = [u \in Threads |-> f[u] \ S]
      BY <1>1
    <3>4. f = [u \in Threads |-> f[u]] /\ \A u \in Threads \ {t} : f[u] \cap S = {}
      BY <3>1, <3>2
    <3> HIDE DEF S, f
    <3>5. [u \in Threads |-> f[u] \ S] = [f EXCEPT ![t] = @ \ S]
      BY <3>4, OnlyAt
    <3>6. OpenOf("RW")' = [f EXCEPT ![t] = @ \ S]
      BY <3>3, <3>5
    <3> QED
      BY <3>6 DEF f
  <2>5. S \in SUBSET Txns
    OBVIOUS
  <2> HIDE DEF S
  <2>6. Abstract!EndWrite(t, S)
    BY <2>2, <2>3, <2>4 DEF Abstract!EndWrite
  <2> QED
    BY <2>5, <2>6 DEF Abstract!Next
<1> QED
  BY <1>2, <1>3, <1>4 DEF TypeOK, Kinds, Active

\* What Construct does to the open transactions.
LEMMA ConstructOpen ==
  ASSUME TypeOK, NEW t \in Threads, NEW k \in Kinds, NEW y \in Free, NEW A,
         Construct(t, k, y, A)
  PROVE  /\ OpenOf(k)' = [OpenOf(k) EXCEPT ![t] = @ \cup {y}]
         /\ \A j \in Kinds \ {k} : OpenOf(j)' = OpenOf(j)
         /\ Abstract!Unused(y)
<1>1. ~Active(y) /\ Active(y)' /\ impl'[y] = k /\ owner'[y] = t
  BY DEF TypeOK, Free, Active, Construct
<1>2. \A z \in Txns \ {y} :
        Active(z)' = Active(z) /\ impl'[z] = impl[z] /\ owner'[z] = owner[z]
  BY DEF Construct, TypeOK, Active
<1>3. OpenOf(k)' = [OpenOf(k) EXCEPT ![t] = @ \cup {y}]
  <2>1. \A u \in Threads :
          {z \in Txns : impl'[z] = k /\ owner'[z] = u /\ Active(z)'} =
          {z \in Txns : impl[z] = k /\ owner[z] = u /\ Active(z)}
            \cup (IF u = t THEN {y} ELSE {})
    <3> SUFFICES ASSUME NEW u \in Threads, NEW z \in Txns
                 PROVE  impl'[z] = k /\ owner'[z] = u /\ Active(z)' <=>
                          \/ impl[z] = k /\ owner[z] = u /\ Active(z)
                          \/ u = t /\ z = y
      BY DEF Free
    <3> QED
      BY <1>1, <1>2
  <2>2. OpenOf(k)' = [u \in Threads |-> {z \in Txns : impl[z] = k /\ owner[z] = u /\ Active(z)}
                                         \cup (IF u = t THEN {y} ELSE {})]
    BY <2>1 DEF OpenOf
  <2> QED
    BY <2>2 DEF OpenOf
<1>4. ASSUME NEW j \in Kinds \ {k}
      PROVE  OpenOf(j)' = OpenOf(j)
  <2>1. \A u \in Threads :
          {z \in Txns : impl'[z] = j /\ owner'[z] = u /\ Active(z)'} =
          {z \in Txns : impl[z] = j /\ owner[z] = u /\ Active(z)}
    BY <1>1, <1>2
  <2> QED
    BY <2>1 DEF OpenOf
<1>5. Abstract!Unused(y)
  BY <1>1, OpenMember DEF Abstract!Unused
<1> QED
  BY <1>3, <1>4, <1>5

---------------------------------------------------------------------------
(* Every step. *)

RInv == IInv /\ Linked

LEMMA InitRefines == Init => Linked /\ Abstract!Init
<1> SUFFICES ASSUME Init
             PROVE  Linked /\ Abstract!Init
  OBVIOUS
<1>1. \A x \in Txns : ~Active(x)
  BY DEF Init, Active
<1>2. Linked
  BY <1>1 DEF Linked
<1>3. \A k : OpenOf(k) = [t \in Threads |-> {}]
  BY <1>1 DEF OpenOf
<1> QED
  BY <1>2, <1>3 DEF Abstract!Init

\* A step that changes no object.
LEMMA QuietRefines ==
  ASSUME Linked, UNCHANGED txnVars
  PROVE  Linked' /\ [Abstract!Next]_(Abstract!vars)
<1>1. \A y \in Txns : Active(y)' <=> Active(y)
  BY DEF Active, txnVars
<1>2. [Abstract!Next]_(Abstract!vars)
  BY <1>1, Stutter DEF txnVars
<1>3. Linked'
  BY DEF Linked, Active, txnVars
<1> QED
  BY <1>2, <1>3

LEMMA DeletedRefines ==
  ASSUME TypeOK, Linked, NEW t \in Threads, NEW x \in Txns, owner[x] = t, Deleted(x)
  PROVE  Linked' /\ [Abstract!Next]_(Abstract!vars)
<1>1. Linked'
  BY DeletedActive, EndLinked
<1>2. [Abstract!Next]_(Abstract!vars)
  BY DeletedActive, EndStep
<1> QED
  BY <1>1, <1>2

LEMMA EndedRefines ==
  ASSUME TypeOK, Linked, NEW t \in Threads, NEW x \in Txns, owner[x] = t,
         handle' = Ended(x), UNCHANGED <<impl, owner, ancestors>>
  PROVE  Linked' /\ [Abstract!Next]_(Abstract!vars)
<1>1. \A y \in Txns : Active(y)' <=> Active(y) /\ y # x /\ x \notin ancestors[y]
  BY EndedActive
<1>2. Linked'
  BY <1>1, EndLinked
<1>3. [Abstract!Next]_(Abstract!vars)
  BY <1>1, EndStep
<1> QED
  BY <1>2, <1>3

LEMMA StepRefines ==
  ASSUME KeepsToThread
  PROVE  RInv /\ [Next]_vars => Linked' /\ [Abstract!Next]_(Abstract!vars)
<1> SUFFICES ASSUME RInv, [Next]_vars
             PROVE  Linked' /\ [Abstract!Next]_(Abstract!vars)
  OBVIOUS
<1> USE DEF RInv, IInv, TypeInv, SafeInv
<1>1. ASSUME NEW t \in Threads, Begin(t)
      PROVE  Linked' /\ [Abstract!Next]_(Abstract!vars)
  <2>1. PICK x \in Free : Construct(t, pc[t], x, {})
    BY <1>1 DEF Begin
  <2>2. pc[t] \in Kinds /\ ~Refused(t, pc[t])
    BY <1>1 DEF Begin, Checked
  <2>3. Linked'
    BY <2>1, <2>2, ConstructLinked
  <2>4. \A k \in Kinds : \A z \in OpenOf(k)[t] : pc[t] = "RO" /\ k = "RO"
    BY <2>2, OpenMember, NotRefused
  <2>5. OpenOf("RW")[t] = {}
    BY <2>4 DEF Kinds
  <2>6. CASE pc[t] = "RO"
    <3>1. /\ OpenOf("RO")' = [OpenOf("RO") EXCEPT ![t] = @ \cup {x}]
          /\ OpenOf("RW")' = OpenOf("RW")
          /\ Abstract!Unused(x)
      BY <2>1, <2>6, ConstructOpen DEF Kinds
    <3>2. Abstract!StartRead(t, x)
      BY <2>5, <3>1 DEF Abstract!StartRead
    <3> QED
      BY <2>3, <3>2 DEF Abstract!Next, Free
  <2>7. CASE pc[t] = "RW"
    <3>1. /\ OpenOf("RW")' = [OpenOf("RW") EXCEPT ![t] = @ \cup {x}]
          /\ OpenOf("RO")' = OpenOf("RO")
          /\ Abstract!Unused(x)
      BY <2>1, <2>7, ConstructOpen DEF Kinds
    <3>2. OpenOf("RO")[t] = {}
      BY <2>4, <2>7 DEF Kinds
    <3>3. \A u \in Threads : OpenOf("RW")[u] = {}
      BY <1>1, <2>7, OpenMember DEF Begin, NotBlocked, WriterHeld
    <3>4. OpenOf("RW")' = [OpenOf("RW") EXCEPT ![t] = {x}]
      BY <2>5, <3>1
    <3>5. Abstract!StartWrite(t, x)
      BY <3>1, <3>2, <3>3, <3>4 DEF Abstract!StartWrite
    <3> QED
      BY <2>3, <3>5 DEF Abstract!Next, Free
  <2> QED
    BY <2>2, <2>6, <2>7 DEF Kinds
<1>2. ASSUME NEW t \in Threads, NEW x \in Txns, Nested(t, x)
      PROVE  Linked' /\ [Abstract!Next]_(Abstract!vars)
  <2> DEFINE A == ancestors[x] \cup {x}
  <2>1. PICK y \in Free : Construct(t, "RW", y, A)
    BY <1>2 DEF Nested
  <2>2. A \in SUBSET Txns /\ "RW" \in Kinds
    BY DEF TypeOK, Kinds
  <2>3. Active(x) /\ owner[x] = t /\ impl[x] = "RW"
    BY <1>2 DEF Nested, Holds
  <2>4. \A z \in A : Active(z) /\ owner[z] = t /\ impl[z] = "RW" /\ ancestors[z] \subseteq A
    BY <2>3 DEF Linked
  <2>5. Linked'
    BY <2>1, <2>2, <2>4, ConstructLinked
  <2>6. /\ OpenOf("RW")' = [OpenOf("RW") EXCEPT ![t] = @ \cup {y}]
        /\ OpenOf("RO")' = OpenOf("RO")
        /\ Abstract!Unused(y)
    BY <2>1, <2>2, ConstructOpen DEF Kinds
  <2>7. OpenOf("RW")[t] # {}
    BY <2>3, OpenMember
  <2>8. Abstract!StartNested(t, y)
    BY <2>6, <2>7 DEF Abstract!StartNested
  <2> QED
    BY <2>5, <2>8 DEF Abstract!Next, Free
<1>3. ASSUME NEW t \in Threads, NEW x \in Txns, Finish(t, x)
      PROVE  Linked' /\ [Abstract!Next]_(Abstract!vars)
  BY <1>3, EndedRefines DEF Finish, Holds
<1>4. ASSUME NEW t \in Threads, NEW x \in Txns, CommitFails(t, x)
      PROVE  Linked' /\ [Abstract!Next]_(Abstract!vars)
  BY <1>4, EndedRefines DEF CommitFails, Holds
<1>5. ASSUME NEW t \in Threads, NEW x \in Txns, Destroy(t, x)
      PROVE  Linked' /\ [Abstract!Next]_(Abstract!vars)
  BY <1>5, DeletedRefines DEF Destroy, Holds
<1>6. ASSUME NEW t \in Threads, OpenDBReturn(t)
      PROVE  Linked' /\ [Abstract!Next]_(Abstract!vars)
  BY <1>6, DeletedRefines DEF OpenDBReturn, InOpenDB
<1>7. ASSUME NEW t \in Threads, NEW k \in Kinds,
             GetTransaction(t, k) \/ BeginFails(t) \/ OpenDB(t) \/ OpenDBLock(t)
               \/ DbiOpen(t) \/ OpenDBCommitFails(t)
      PROVE  UNCHANGED txnVars
  BY <1>7 DEF GetTransaction, BeginFails, OpenDB, OpenDBLock, DbiOpen, OpenDBCommitFails
<1>8. ASSUME NEW t \in Threads, NEW x \in Txns,
             NestedOnClosed(t, x) \/ UseFreed(t, x) \/ TxnOpenDB(t, x)
      PROVE  UNCHANGED txnVars
  BY <1>8 DEF NestedOnClosed, UseFreed, TxnOpenDB
<1>9. ASSUME NEW t \in Threads, NEW x \in Txns, NEW u \in Threads, HandOff(t, u, x)
      PROVE  FALSE
  BY <1>9 DEF HandOff, KeepsToThread
<1>10. ASSUME UNCHANGED vars
       PROVE  UNCHANGED txnVars
  BY <1>10 DEF vars
<1> QED
  BY <1>1, <1>2, <1>3, <1>4, <1>5, <1>6, <1>7, <1>8, <1>9, <1>10, QuietRefines
     DEF Next, Undefined, Kinds

\* The environment implements the discipline README.md describes: in every
\* behaviour each thread only reads or only writes, one thread writes at a
\* time, and a write transaction ends with those nested in it.
THEOREM EnvImplementsDiscipline ==
  ASSUME KeepsToThread
  PROVE  Spec => Discipline
<1>1. Init => RInv /\ Abstract!Init
  BY InitType, InitSafe, InitRefines DEF RInv, IInv
<1>2. RInv /\ [Next]_vars => RInv' /\ [Abstract!Next]_(Abstract!vars)
  BY TypeStep, SafeStep, StepRefines DEF RInv, IInv
<1> QED
  BY <1>1, <1>2, PTL DEF Spec, Discipline, Abstract!Spec
=============================================================================
