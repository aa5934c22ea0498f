--------------------------- MODULE CursorsProofs ---------------------------
(***************************************************************************)
(* Proofs about Cursors, for any numbers of transactions, cursor objects   *)
(* and MDB_cursors.  In every program, what an object holds is open.       *)
(* Where no cursor in use is assigned to, the registries are exact, each   *)
(* open cursor has its owner, and the objects keep CursorProtocol.         *)
(***************************************************************************)
EXTENDS Cursors, FiniteSetTheorems, TLAPS

\* No cursor is assigned to while it is in use.
NeverOverwrites == "assign_live" \notin Uses

---------------------------------------------------------------------------
(* The inductive invariants. *)

\* No MDB_cursor is held by two objects.
OneOwner ==
  \A v, w \in Vars : d_cursor[v] = d_cursor[w] /\ d_cursor[v] # NoCursor => v = w

\* An object is in the registry it says, be it more than once.
Covered ==
  \A v \in alive : d_registry[v] # NoTxn => d_cursors[d_registry[v]][v] > 0

\* The invariant of every program.
BaseInv == TypeOK /\ HeldOpen /\ OneOwner /\ Covered

\* An MDB_cursor is open in an open transaction; where LMDB does not free it
\* at the end, there is an object that will.
Kept ==
  \A h \in Cursors : mdb[h] # NoTxn =>
    /\ IsOpen(mdb[h])
    /\ kind[mdb[h]] = "RO" => \E v \in alive : d_cursor[v] = h

\* Transactions are nested in open write transactions.
ParentsWrite ==
  \A x \in Txns : parent[x] # NoTxn => IsOpen(x) /\ kind[parent[x]] = "RW"

\* That of a program that overwrites no cursor.
IInv == BaseInv /\ RegistryExact /\ Kept /\ ParentsWrite /\ NoDangling

---------------------------------------------------------------------------
(* Every program: objects hold open cursors. *)

LEMMA InitBase == Init => BaseInv
<1> SUFFICES ASSUME Init
             PROVE  BaseInv
  OBVIOUS
<1>1. TypeOK
  BY DEF Init, TypeOK
<1>2. HeldOpen /\ OneOwner /\ Covered
  BY DEF Init, HeldOpen, OneOwner, Covered
<1> QED
  BY <1>1, <1>2 DEF BaseInv

LEMMA BeginsBase ==
  ASSUME BaseInv, NEW x \in Txns,
         \/ \E k \in {"RO", "RW"} : Begin(x, k)
         \/ \E y \in Txns : Nested(x, y)
  PROVE  BaseInv'
<1> USE DEF Begin, Nested, Fresh, objVars
<1>1. TypeOK'
  BY DEF BaseInv, TypeOK
<1>2. HeldOpen'
  BY DEF BaseInv, TypeOK, HeldOpen, IsOpen
<1>3. OneOwner' /\ Covered'
  BY DEF BaseInv, OneOwner, Covered
<1> QED
  BY <1>1, <1>2, <1>3 DEF BaseInv

LEMMA ConstructBase ==
  ASSUME BaseInv, NEW v \in Vars, Construct(v)
  PROVE  BaseInv'
<1> USE DEF Construct, txnVars
<1>1. TypeOK'
  BY DEF BaseInv, TypeOK
<1>2. HeldOpen' /\ OneOwner'
  BY DEF BaseInv, HeldOpen, OneOwner, IsOpen
<1>3. Covered'
  BY DEF BaseInv, TypeOK, Covered
<1> QED
  BY <1>1, <1>2, <1>3 DEF BaseInv

LEMMA GetCursorBase ==
  ASSUME BaseInv, NEW x \in Txns, NEW v \in Vars, GetCursor(x, v)
  PROVE  BaseInv'
<1> USE DEF GetCursor, txnVars
<1> PICK h \in Cursors :
      /\ mdb[h] = NoTxn
      /\ mdb' = [mdb EXCEPT ![h] = x]
      /\ d_cursor' = [d_cursor EXCEPT ![v] = h]
  OBVIOUS
<1>1. \A w \in Vars : d_cursor[w] # h
  BY ConstantsAssumption DEF BaseInv, TypeOK, HeldOpen
<1>2. TypeOK'
  BY ConstantsAssumption DEF BaseInv, TypeOK
<1>3. HeldOpen'
  BY <1>1, ConstantsAssumption DEF BaseInv, TypeOK, HeldOpen, IsOpen
<1>4. OneOwner'
  BY <1>1 DEF BaseInv, TypeOK, OneOwner
<1>5. Covered'
  BY DEF BaseInv, TypeOK, Covered
<1> QED
  BY <1>2, <1>3, <1>4, <1>5 DEF BaseInv

\* A move, whatever v had, src itself included.
LEMMA TakeFromBase ==
  ASSUME BaseInv, NEW v \in Vars, NEW src \in Vars, src \in alive,
         TakeFrom(v, src), alive' = alive \cup {v}, UNCHANGED <<txnVars, mdb, ub>>
  PROVE  BaseInv'
<1> USE DEF txnVars
<1>1. /\ d_registry' = [d_registry EXCEPT ![v] = d_registry[src], ![src] = NoTxn]
      /\ d_cursor' = [d_cursor EXCEPT ![v] = d_cursor[src], ![src] = NoCursor]
  BY DEF TakeFrom
<1>2. d_cursors \in [Txns -> [Vars -> Nat]] /\ alive' \in SUBSET Vars
  BY DEF BaseInv, TypeOK
<1>3. /\ d_cursors' \in [Txns -> [Vars -> Nat]]
      /\ \A x \in Txns, w \in Vars \ {v, src} : d_cursors'[x][w] = d_cursors[x][w]
      /\ v # src /\ d_registry[src] # NoTxn => d_cursors'[d_registry[src]][v] > 0
  <2>1. CASE d_registry[src] = NoTxn
    BY <1>2, <2>1 DEF TakeFrom
  <2>2. CASE d_registry[src] # NoTxn
    <3>1. PICK x \in Txns : d_registry[src] = x
      BY <2>2 DEF BaseInv, TypeOK
    <3>2. d_cursors' = IF d_cursors[x][src] = 0
                       THEN [d_cursors EXCEPT ![x][v] = @ + 1]
                       ELSE [d_cursors EXCEPT ![x][src] = @ - 1, ![x][v] = @ + 1]
      BY <2>2, <3>1 DEF TakeFrom, MoveFrom
    <3>3. CASE d_cursors[x][src] = 0
      BY <1>2, <3>1, <3>2, <3>3
    <3>4. CASE d_cursors[x][src] # 0
      BY <1>2, <3>1, <3>2, <3>4
    <3> QED
      BY <3>3, <3>4
  <2> QED
    BY <2>1, <2>2
<1>4. TypeOK'
  BY <1>1, <1>2, <1>3 DEF BaseInv, TypeOK
<1>5. HeldOpen'
  <2> SUFFICES ASSUME NEW w \in Vars, d_cursor'[w] # NoCursor
               PROVE  kind'[d_registry'[w]] # "none" /\ mdb'[d_cursor'[w]] = d_registry'[w]
    BY DEF HeldOpen, IsOpen
  <2>1. PICK u \in Vars : d_cursor'[w] = d_cursor[u] /\ d_registry'[w] = d_registry[u]
    BY <1>1 DEF BaseInv, TypeOK
  <2> QED
    BY <2>1 DEF BaseInv, HeldOpen, IsOpen
<1>6. OneOwner'
  BY <1>1 DEF BaseInv, TypeOK, OneOwner
<1>7. Covered'
  <2> SUFFICES ASSUME NEW w \in alive', d_registry'[w] # NoTxn
               PROVE  d_cursors'[d_registry'[w]][w] > 0
    BY DEF Covered
  <2>1. w \in Vars /\ w # src
    BY <1>1, <1>2 DEF BaseInv, TypeOK
  <2>2. CASE w = v
    BY <1>1, <1>3, <2>1, <2>2 DEF BaseInv, TypeOK
  <2>3. CASE w # v
    <3>1. d_registry'[w] = d_registry[w] /\ w \in alive /\ d_registry[w] \in Txns
      BY <1>1, <2>1, <2>3 DEF BaseInv, TypeOK
    <3> QED
      BY <1>3, <2>1, <2>3, <3>1 DEF BaseInv, Covered
  <2> QED
    BY <2>2, <2>3
<1> QED
  BY <1>4, <1>5, <1>6, <1>7 DEF BaseInv

\* close() of the objects V: they hold nothing then, and the others what they
\* held.
LEMMA CloseObjectsBase ==
  ASSUME BaseInv, NEW V, V \subseteq alive, NEW R, R \in [Txns -> [Vars -> Nat]],
         \A x \in Txns, v \in Vars \ V : d_registry[v] = x => R[x][v] = d_cursors[x][v],
         CloseObjects(V, R), alive' \subseteq alive, alive \ V \subseteq alive'
  PROVE  /\ OneOwner' /\ Covered' /\ d_cursors' \in [Txns -> [Vars -> Nat]]
         /\ d_registry' = [v \in Vars |-> IF v \in V THEN NoTxn ELSE d_registry[v]]
         /\ d_cursor' = [v \in Vars |-> IF v \in V THEN NoCursor ELSE d_cursor[v]]
<1> USE DEF CloseObjects
<1>1. OneOwner'
  BY DEF BaseInv, OneOwner
<1>2. d_cursors' \in [Txns -> [Vars -> Nat]]
  BY DEF Unregistered
<1>3. Covered'
  <2> SUFFICES ASSUME NEW v \in alive', d_registry'[v] # NoTxn
               PROVE  d_cursors'[d_registry'[v]][v] > 0
    BY DEF Covered
  <2>1. v \in Vars \ V /\ v \in alive /\ d_registry'[v] = d_registry[v] /\ d_registry[v] \in Txns
    BY DEF BaseInv, TypeOK
  <2>2. d_cursors'[d_registry[v]][v] = d_cursors[d_registry[v]][v]
    BY <2>1 DEF Unregistered
  <2> QED
    BY <2>1, <2>2 DEF BaseInv, Covered
<1> QED
  BY <1>1, <1>2, <1>3

LEMMA CloseOneBase ==
  ASSUME BaseInv, NEW v \in Vars, v \in alive,
         CloseObjects({v}, d_cursors), Freed(HeldBy({v})), UNCHANGED <<txnVars, ub>>,
         alive' \subseteq alive, alive \ {v} \subseteq alive'
  PROVE  BaseInv'
<1>1. /\ OneOwner' /\ Covered' /\ d_cursors' \in [Txns -> [Vars -> Nat]]
      /\ d_registry' = [w \in Vars |-> IF w \in {v} THEN NoTxn ELSE d_registry[w]]
      /\ d_cursor' = [w \in Vars |-> IF w \in {v} THEN NoCursor ELSE d_cursor[w]]
  <2>1. d_cursors \in [Txns -> [Vars -> Nat]]
    BY DEF BaseInv, TypeOK
  <2>2. {v} \subseteq alive /\ alive' \subseteq alive /\ alive \ {v} \subseteq alive'
    OBVIOUS
  <2>3. \A x \in Txns, w \in Vars \ {v} :
          d_registry[w] = x => d_cursors[x][w] = d_cursors[x][w]
    OBVIOUS
  <2> QED
    BY <2>1, <2>2, <2>3, CloseObjectsBase
<1>2. mdb' \in [Cursors -> Txns \cup {NoTxn}] /\ alive' \in SUBSET Vars
  BY DEF Freed, BaseInv, TypeOK
<1>3. TypeOK'
  BY <1>1, <1>2 DEF BaseInv, TypeOK, txnVars
<1>4. HeldOpen'
  <2> SUFFICES ASSUME NEW w \in Vars, d_cursor'[w] # NoCursor
               PROVE  kind'[d_registry'[w]] # "none" /\ mdb'[d_cursor'[w]] = d_registry'[w]
    BY DEF HeldOpen, IsOpen
  <2>1. w # v /\ d_cursor'[w] = d_cursor[w] /\ d_registry'[w] = d_registry[w]
    BY <1>1
  <2>2. d_cursor[w] \in Cursors /\ d_cursor[w] \notin HeldBy({v})
    BY <2>1 DEF BaseInv, TypeOK, OneOwner, HeldBy
  <2>3. mdb'[d_cursor[w]] = mdb[d_cursor[w]]
    BY <2>2 DEF Freed
  <2> QED
    BY <2>1, <2>3 DEF BaseInv, HeldOpen, IsOpen, txnVars
<1> QED
  BY <1>1, <1>3, <1>4 DEF BaseInv

\* A transaction's end reaches all objects that hold a cursor of it.
LEMMA EndTxnBase ==
  ASSUME BaseInv, NEW x \in Txns, EndTxn(x)
  PROVE  BaseInv'
<1> DEFINE V == Registered(x) \cap alive
           R == [d_cursors EXCEPT ![x] = [v \in Vars |-> 0]]
           left == {h \in Cursors : mdb[h] = x /\ kind[x] = "RW"}
<1>1. /\ CloseObjects(V, R) /\ Freed(HeldBy(V) \cup left) /\ alive' = alive
      /\ kind' = [kind EXCEPT ![x] = "none"] /\ parent' = [parent EXCEPT ![x] = NoTxn]
      /\ ub' \in BOOLEAN
  BY DEF EndTxn, BaseInv, TypeOK
<1>2. V \subseteq alive /\ \A v \in alive : d_registry[v] = x => v \in V
  BY ConstantsAssumption DEF Registered, BaseInv, TypeOK, Covered
<1>3. \A v \in Vars \ V : d_registry[v] # x
  BY <1>2, ConstantsAssumption DEF BaseInv, TypeOK
<1>4. /\ OneOwner' /\ Covered' /\ d_cursors' \in [Txns -> [Vars -> Nat]]
      /\ d_registry' = [v \in Vars |-> IF v \in V THEN NoTxn ELSE d_registry[v]]
      /\ d_cursor' = [v \in Vars |-> IF v \in V THEN NoCursor ELSE d_cursor[v]]
  <2>1. R \in [Txns -> [Vars -> Nat]]
    BY DEF BaseInv, TypeOK
  <2>2. \A y \in Txns, v \in Vars \ V : d_registry[v] = y => R[y][v] = d_cursors[y][v]
    BY <1>3 DEF BaseInv, TypeOK
  <2> HIDE DEF V, R
  <2> QED
    BY <1>1, <1>2, <2>1, <2>2, CloseObjectsBase
<1> HIDE DEF V, R
<1>5. mdb' \in [Cursors -> Txns \cup {NoTxn}]
  BY <1>1 DEF Freed, BaseInv, TypeOK
<1>6. TypeOK'
  BY <1>1, <1>4, <1>5 DEF BaseInv, TypeOK
<1>7. HeldOpen'
  <2> SUFFICES ASSUME NEW w \in Vars, d_cursor'[w] # NoCursor
               PROVE  kind'[d_registry'[w]] # "none" /\ mdb'[d_cursor'[w]] = d_registry'[w]
    BY DEF HeldOpen, IsOpen
  <2>1. w \notin V /\ d_cursor'[w] = d_cursor[w] /\ d_registry'[w] = d_registry[w]
    BY <1>4
  <2>2. d_cursor[w] \in Cursors /\ mdb[d_cursor[w]] = d_registry[w]
        /\ d_registry[w] \in Txns \ {x} /\ kind[d_registry[w]] # "none"
    BY <1>3, <2>1 DEF BaseInv, TypeOK, HeldOpen, IsOpen
  <2>3. d_cursor[w] \notin HeldBy(V)
    <3>1. \A v \in V : v \in Vars
      BY <1>2 DEF BaseInv, TypeOK
    <3> QED
      BY <2>1, <3>1 DEF BaseInv, OneOwner, HeldBy
  <2>4. mdb'[d_cursor[w]] = mdb[d_cursor[w]]
    BY <1>1, <2>2, <2>3 DEF Freed
  <2>5. kind'[d_registry[w]] = kind[d_registry[w]]
    BY <1>1, <2>2 DEF BaseInv, TypeOK
  <2> QED
    BY <2>1, <2>2, <2>4, <2>5
<1> QED
  BY <1>4, <1>6, <1>7 DEF BaseInv

LEMMA NextBase ==
  ASSUME BaseInv, [Next]_vars
  PROVE  BaseInv'
<1>1. CASE \E x \in Txns : \/ \E k \in {"RO", "RW"} : Begin(x, k)
                           \/ \E y \in Txns : Nested(x, y)
  BY <1>1, BeginsBase
<1>2. CASE \E x \in Txns, v \in Vars : GetCursor(x, v)
  BY <1>2, GetCursorBase
<1>3. CASE \E x \in Txns : EndTxn(x)
  BY <1>3, EndTxnBase
<1>4. CASE \E v \in Vars : Construct(v)
  BY <1>4, ConstructBase
<1>5. CASE \E v \in Vars : Close(v) \/ Destroy(v)
  BY <1>5, CloseOneBase DEF Close, Destroy
<1>6. CASE \E v, w \in Vars : MoveConstruct(v, w) \/ MoveAssign(v, w)
  <2>1. PICK v \in Vars, w \in Vars : MoveConstruct(v, w) \/ MoveAssign(v, w)
    BY <1>6
  <2>2. /\ w \in alive /\ TakeFrom(v, w) /\ alive' = alive \cup {v}
        /\ UNCHANGED <<txnVars, mdb, ub>>
    BY <2>1 DEF MoveConstruct, MoveAssign
  <2> QED
    BY <2>2, TakeFromBase
<1>7. CASE UNCHANGED vars
  <2> USE DEF vars, txnVars, objVars
  <2>1. TypeOK'
    BY <1>7 DEF BaseInv, TypeOK
  <2>2. HeldOpen' /\ OneOwner' /\ Covered'
    BY <1>7 DEF BaseInv, HeldOpen, OneOwner, Covered, IsOpen
  <2> QED
    BY <2>1, <2>2 DEF BaseInv
<1> QED
  BY <1>1, <1>2, <1>3, <1>4, <1>5, <1>6, <1>7 DEF Next

THEOREM BaseInvariant == Spec => []BaseInv
<1>1. BaseInv /\ [Next]_vars => BaseInv'
  BY NextBase
<1> QED
  BY <1>1, InitBase, PTL DEF Spec

\* A dead object, and one that was closed or moved from, holds nothing, whatever
\* the program assigns.
THEOREM TypeCorrect == Spec => []TypeOK
<1>1. BaseInv => TypeOK
  BY DEF BaseInv
<1> QED
  BY <1>1, BaseInvariant, PTL

\* What a cursor object holds is an open MDB_cursor of the open transaction in
\* whose registry the object is, whatever the program assigns.
THEOREM CursorsHeldOpen == Spec => []HeldOpen
<1>1. BaseInv => HeldOpen
  BY DEF BaseInv
<1> QED
  BY <1>1, BaseInvariant, PTL

---------------------------------------------------------------------------
(* Programs that overwrite no cursor: exact registries. *)

LEMMA InitInv == Init => IInv
<1>1. Init => RegistryExact /\ Kept /\ ParentsWrite /\ NoDangling
  BY DEF Init, RegistryExact, Kept, ParentsWrite, NoDangling
<1> QED
  BY <1>1, InitBase DEF IInv

\* Transactions begin.
LEMMA BeginsInv ==
  ASSUME IInv, BaseInv', NEW x \in Txns,
         \/ \E k \in {"RO", "RW"} : Begin(x, k)
         \/ \E y \in Txns : Nested(x, y)
  PROVE  IInv'
<1> USE DEF Begin, Nested, Fresh, objVars
<1>1. RegistryExact' /\ NoDangling'
  BY DEF IInv, RegistryExact, NoDangling
<1>2. Kept'
  BY DEF IInv, BaseInv, TypeOK, Kept, IsOpen
<1>3. ParentsWrite'
  BY DEF IInv, BaseInv, TypeOK, ParentsWrite, IsOpen
<1> QED
  BY <1>1, <1>2, <1>3 DEF IInv

\* Objects come to be and move.
LEMMA ConstructInv ==
  ASSUME IInv, BaseInv', NEW v \in Vars, Construct(v)
  PROVE  IInv'
<1> USE DEF Construct, txnVars
<1>1. RegistryExact'
  BY ConstantsAssumption DEF IInv, BaseInv, TypeOK, RegistryExact
<1>2. Kept' /\ ParentsWrite' /\ NoDangling'
  BY DEF IInv, Kept, ParentsWrite, NoDangling, IsOpen
<1> QED
  BY <1>1, <1>2 DEF IInv

LEMMA GetCursorInv ==
  ASSUME IInv, BaseInv', NEW x \in Txns, NEW v \in Vars, GetCursor(x, v)
  PROVE  IInv'
<1> USE DEF GetCursor, txnVars
<1> PICK h \in Cursors :
      /\ mdb[h] = NoTxn
      /\ mdb' = [mdb EXCEPT ![h] = x]
      /\ d_cursor' = [d_cursor EXCEPT ![v] = h]
  OBVIOUS
<1>1. RegistryExact'
  BY ConstantsAssumption DEF IInv, BaseInv, TypeOK, RegistryExact
<1>2. Kept'
  BY ConstantsAssumption DEF IInv, BaseInv, TypeOK, Kept, IsOpen
<1>3. ParentsWrite' /\ NoDangling'
  BY DEF IInv, ParentsWrite, NoDangling, IsOpen
<1> QED
  BY <1>1, <1>2, <1>3 DEF IInv

\* A move to an object that holds nothing.
LEMMA TakeFromInv ==
  ASSUME IInv, BaseInv', NEW v \in Vars, NEW src \in Vars, src \in alive,
         d_cursor[v] = NoCursor,
         TakeFrom(v, src), alive' = alive \cup {v}, UNCHANGED <<txnVars, mdb, ub>>
  PROVE  IInv'
<1> USE DEF txnVars
<1>1. d_registry[v] = NoTxn
  BY DEF IInv, BaseInv, TypeOK
<1>2. /\ d_registry' = [d_registry EXCEPT ![v] = d_registry[src], ![src] = NoTxn]
      /\ d_cursor' = [d_cursor EXCEPT ![v] = d_cursor[src], ![src] = NoCursor]
  BY DEF TakeFrom
<1>3. d_registry[src] \in Txns =>
        d_cursors' = [d_cursors EXCEPT ![d_registry[src]][src] = 0, ![d_registry[src]][v] = 1]
  <2> SUFFICES ASSUME d_registry[src] \in Txns
               PROVE  d_cursors' = [d_cursors EXCEPT ![d_registry[src]][src] = 0,
                                                     ![d_registry[src]][v] = 1]
    OBVIOUS
  <2>1. d_cursors[d_registry[src]][src] = 1 /\ d_cursors[d_registry[src]][v] = 0 /\ v # src
    BY <1>1, ConstantsAssumption DEF IInv, RegistryExact
  <2>2. d_cursors' = [d_cursors EXCEPT ![d_registry[src]][src] = @ - 1,
                                       ![d_registry[src]][v] = @ + 1]
    BY <2>1, ConstantsAssumption DEF TakeFrom, MoveFrom
  <2> QED
    BY <2>1, <2>2 DEF IInv, BaseInv, TypeOK
<1>4. d_registry[src] = NoTxn => d_cursors' = d_cursors
  BY DEF TakeFrom
<1>5. d_registry[src] \in Txns \/ d_registry[src] = NoTxn
  BY DEF IInv, BaseInv, TypeOK
<1>6. RegistryExact'
  BY <1>1, <1>2, <1>3, <1>4, <1>5, ConstantsAssumption DEF IInv, BaseInv, TypeOK, RegistryExact
<1>7. Kept'
  BY <1>2 DEF IInv, BaseInv, TypeOK, Kept, IsOpen
<1>8. ParentsWrite' /\ NoDangling'
  BY DEF IInv, ParentsWrite, NoDangling, IsOpen
<1> QED
  BY <1>6, <1>7, <1>8 DEF IInv

LEMMA MoveConstructInv ==
  ASSUME IInv, BaseInv', NEW v \in Vars, NEW src \in Vars, MoveConstruct(v, src)
  PROVE  IInv'
<1>1. d_cursor[v] = NoCursor
  BY DEF MoveConstruct, IInv, BaseInv, TypeOK
<1> QED
  BY <1>1, TakeFromInv DEF MoveConstruct

LEMMA MoveAssignInv ==
  ASSUME NeverOverwrites, IInv, BaseInv', NEW v \in Vars, NEW src \in Vars, MoveAssign(v, src)
  PROVE  IInv'
<1>1. d_cursor[v] = NoCursor /\ alive' = alive \cup {v}
  BY DEF MoveAssign, NeverOverwrites
<1> QED
  BY <1>1, TakeFromInv DEF MoveAssign

---------------------------------------------------------------------------
(* Closing. *)

\* close() of the objects V of one registry, after which the registries are R.
LEMMA CloseObjectsInv ==
  ASSUME IInv, NEW V, V \subseteq alive, NEW R, R \in [Txns -> [Vars -> Nat]],
         \A x \in Txns, v \in Vars :
           R[x][v] = d_cursors[x][v] \/ (R[x][v] = 0 /\ v \in V),
         CloseObjects(V, R), alive' \subseteq alive, alive \ V \subseteq alive'
  PROVE  RegistryExact'
<1> USE DEF CloseObjects
<1>1. \A x \in Txns, v \in Vars :
        d_cursors'[x][v] = IF v \in V THEN 0 ELSE d_cursors[x][v]
  <2> SUFFICES ASSUME NEW x \in Txns, NEW v \in Vars
               PROVE  d_cursors'[x][v] = IF v \in V THEN 0 ELSE d_cursors[x][v]
    OBVIOUS
  <2>1. d_cursors[x][v] = IF v \in alive /\ d_registry[v] = x THEN 1 ELSE 0
    BY DEF IInv, RegistryExact
  <2>2. d_cursors'[x][v] = IF v \in V /\ d_registry[v] = x /\ R[x][v] > 0
                           THEN R[x][v] - 1 ELSE R[x][v]
    BY DEF Unregistered
  <2> QED
    BY <2>1, <2>2
<1> QED
  BY <1>1, ConstantsAssumption DEF IInv, BaseInv, TypeOK, RegistryExact

\* What mdb_cursor_close of an object's cursor does: it frees it, unless it is
\* of a transaction that has a nested one.
LEMMA FreedOne ==
  ASSUME IInv, NEW v \in Vars, Freed(HeldBy({v})), NEW h \in Cursors
  PROVE  \/ /\ mdb'[h] = mdb[h]
            /\ d_cursor[v] = h => mdb[h] = NoTxn \/ kind[mdb[h]] = "RW"
         \/ mdb'[h] = NoTxn /\ d_cursor[v] = h
<1>1. h \in HeldBy({v}) <=> d_cursor[v] = h
  BY ConstantsAssumption DEF HeldBy
<1>2. HasChild(mdb[h]) => mdb[h] = NoTxn \/ kind[mdb[h]] = "RW"
  BY DEF HasChild, IInv, ParentsWrite
<1>3. mdb'[h] = IF d_cursor[v] = h /\ ~HasChild(mdb[h]) THEN NoTxn ELSE mdb[h]
  BY <1>1 DEF Freed
<1> QED
  BY <1>2, <1>3

\* close() and the destructor.
LEMMA CloseOneInv ==
  ASSUME IInv, BaseInv', NEW v \in Vars, v \in alive,
         CloseObjects({v}, d_cursors), Freed(HeldBy({v})), UNCHANGED <<txnVars, ub>>,
         alive' \subseteq alive, alive \ {v} \subseteq alive'
  PROVE  IInv'
<1>1. RegistryExact'
  <2>1. d_cursors \in [Txns -> [Vars -> Nat]]
    BY DEF IInv, BaseInv, TypeOK
  <2>2. \A x \in Txns, w \in Vars :
          d_cursors[x][w] = d_cursors[x][w] \/ (d_cursors[x][w] = 0 /\ w \in {v})
    OBVIOUS
  <2> QED
    BY <2>1, <2>2, CloseObjectsInv
<1>2. d_cursor' = [w \in Vars |-> IF w \in {v} THEN NoCursor ELSE d_cursor[w]]
  BY DEF CloseObjects
<1>3. \A h \in Cursors :
        \/ mdb'[h] = mdb[h] /\ (d_cursor[v] = h => mdb[h] = NoTxn \/ kind[mdb[h]] = "RW")
        \/ mdb'[h] = NoTxn /\ d_cursor[v] = h
  BY FreedOne
<1>4. Kept'
  <2> SUFFICES ASSUME NEW h \in Cursors, mdb'[h] # NoTxn
               PROVE  /\ kind[mdb'[h]] # "none"
                      /\ kind[mdb'[h]] = "RO" => \E w \in alive' : d_cursor'[w] = h
    BY DEF Kept, IsOpen, txnVars
  <2>1. mdb'[h] = mdb[h] /\ kind[mdb[h]] # "none"
    BY <1>3 DEF IInv, Kept, IsOpen
  <2>2. ASSUME kind[mdb[h]] = "RO"
        PROVE  \E w \in alive' : d_cursor'[w] = h
    <3>1. PICK w \in alive : d_cursor[w] = h
      BY <2>1, <2>2 DEF IInv, Kept
    <3>2. w # v
      BY <1>3, <2>1, <2>2, <3>1
    <3> QED
      BY <1>2, <3>1, <3>2 DEF IInv, BaseInv, TypeOK
  <2> QED
    BY <2>1, <2>2
<1>5. ParentsWrite' /\ NoDangling'
  BY DEF IInv, ParentsWrite, NoDangling, IsOpen, txnVars
<1> QED
  BY <1>1, <1>4, <1>5 DEF IInv

\* A transaction's end closes the objects in its registry, and with them and
\* what LMDB frees itself all its cursors, and no other.
LEMMA FreedAll ==
  ASSUME IInv, NEW x \in Txns, EndTxn(x)
  PROVE  /\ Registered(x) = {v \in alive : d_registry[v] = x}
         /\ mdb' = [h \in Cursors |-> IF mdb[h] = x THEN NoTxn ELSE mdb[h]]
<1>1. Registered(x) = {v \in alive : d_registry[v] = x}
  BY DEF Registered, IInv, BaseInv, TypeOK, RegistryExact
<1> DEFINE V == Registered(x) \cap alive
           left == {h \in Cursors : mdb[h] = x /\ kind[x] = "RW"}
<1>2. mdb' = [h \in Cursors |-> IF h \in HeldBy(V) \cup left /\ ~HasChild(mdb[h])
                               THEN NoTxn ELSE mdb[h]]
  BY DEF EndTxn, Freed
<1>3. ASSUME NEW h \in Cursors
      PROVE  h \in HeldBy(V) \cup left <=> mdb[h] = x
  <2>1. ASSUME h \in HeldBy(V)
        PROVE  mdb[h] = x
    <3>1. PICK v \in V : d_cursor[v] = h
      BY <2>1 DEF HeldBy
    <3> QED
      BY <1>1, <3>1, ConstantsAssumption DEF IInv, BaseInv, TypeOK, HeldOpen
  <2>2. ASSUME mdb[h] = x, kind[x] # "RW"
        PROVE  h \in HeldBy(V)
    <3>1. kind[x] = "RO"
      BY <2>2 DEF EndTxn, IsOpen, IInv, BaseInv, TypeOK
    <3>2. PICK v \in alive : d_cursor[v] = h
      BY <2>2, <3>1, ConstantsAssumption DEF IInv, Kept
    <3>3. v \in V
      BY <1>1, <2>2, <3>2, ConstantsAssumption DEF IInv, BaseInv, TypeOK, HeldOpen
    <3> QED
      BY <3>2, <3>3, ConstantsAssumption DEF HeldBy
  <2> QED
    BY <2>1, <2>2
<1>4. ~HasChild(x)
  BY DEF EndTxn
<1>5. mdb' = [h \in Cursors |-> IF mdb[h] = x THEN NoTxn ELSE mdb[h]]
  <2> HIDE DEF V, left
  <2> QED
    BY <1>2, <1>3, <1>4
<1> QED
  BY <1>1, <1>5

LEMMA EndTxnInv ==
  ASSUME IInv, BaseInv', NEW x \in Txns, EndTxn(x)
  PROVE  IInv'
<1> DEFINE V == Registered(x) \cap alive
           R == [d_cursors EXCEPT ![x] = [v \in Vars |-> 0]]
<1>1. V = {v \in alive : d_registry[v] = x} /\ Registered(x) \subseteq alive
  BY FreedAll
<1>2. mdb' = [h \in Cursors |-> IF mdb[h] = x THEN NoTxn ELSE mdb[h]]
  BY FreedAll
<1>3. /\ kind' = [kind EXCEPT ![x] = "none"]
      /\ parent' = [parent EXCEPT ![x] = NoTxn]
      /\ alive' = alive /\ ub' = ub /\ CloseObjects(V, R) /\ ~HasChild(x)
  BY <1>1 DEF EndTxn, IInv, BaseInv, TypeOK
<1>4. d_cursor' = [v \in Vars |-> IF v \in V THEN NoCursor ELSE d_cursor[v]]
  BY <1>3 DEF CloseObjects
<1>5. RegistryExact'
  <2>1. R \in [Txns -> [Vars -> Nat]]
    BY DEF IInv, BaseInv, TypeOK
  <2>2. \A y \in Txns, v \in Vars :
          R[y][v] = d_cursors[y][v] \/ (R[y][v] = 0 /\ v \in V)
    <3> SUFFICES ASSUME NEW y \in Txns, NEW v \in Vars
                 PROVE  R[y][v] = d_cursors[y][v] \/ (R[y][v] = 0 /\ v \in V)
      OBVIOUS
    <3>1. d_cursors[y][v] = IF v \in alive /\ d_registry[v] = y THEN 1 ELSE 0
      BY DEF IInv, RegistryExact
    <3> QED
      BY <1>1, <3>1 DEF IInv, BaseInv, TypeOK
  <2>3. V \subseteq alive /\ alive' \subseteq alive /\ alive \ V \subseteq alive'
    BY <1>3
  <2> HIDE DEF V, R
  <2> QED
    BY <1>3, <2>1, <2>2, <2>3, CloseObjectsInv
<1> HIDE DEF V, R
<1>6. Kept'
  <2> SUFFICES ASSUME NEW h \in Cursors, mdb'[h] # NoTxn
               PROVE  /\ kind'[mdb'[h]] # "none"
                      /\ kind'[mdb'[h]] = "RO" => \E w \in alive' : d_cursor'[w] = h
    BY DEF Kept, IsOpen
  <2>1. mdb'[h] = mdb[h] /\ mdb[h] \in Txns \ {x}
    BY <1>2 DEF IInv, BaseInv, TypeOK
  <2>2. kind'[mdb[h]] = kind[mdb[h]] /\ kind[mdb[h]] # "none"
    BY <1>3, <2>1, ConstantsAssumption DEF IInv, BaseInv, TypeOK, Kept, IsOpen
  <2>3. ASSUME kind[mdb[h]] = "RO"
        PROVE  \E w \in alive' : d_cursor'[w] = h
    <3>1. PICK w \in alive : d_cursor[w] = h
      BY <2>1, <2>3, ConstantsAssumption DEF IInv, Kept
    <3>2. w \in Vars /\ d_registry[w] # x
      BY <2>1, <3>1, ConstantsAssumption DEF IInv, BaseInv, TypeOK, HeldOpen
    <3> QED
      BY <1>1, <1>3, <1>4, <3>1, <3>2
  <2> QED
    BY <2>1, <2>2, <2>3
<1>7. ParentsWrite'
  BY <1>3 DEF IInv, BaseInv, TypeOK, ParentsWrite, HasChild, IsOpen
<1>8. NoDangling'
  BY <1>3 DEF IInv, NoDangling
<1> QED
  BY <1>5, <1>6, <1>7, <1>8 DEF IInv

---------------------------------------------------------------------------
(* The theorems. *)

LEMMA StutterInv ==
  ASSUME IInv, BaseInv', UNCHANGED vars
  PROVE  IInv'
BY DEF vars, txnVars, objVars, IInv, RegistryExact, Kept, ParentsWrite, NoDangling, IsOpen

LEMMA NextInv ==
  ASSUME NeverOverwrites, IInv, [Next]_vars
  PROVE  IInv'
<1>1. BaseInv'
  BY NextBase DEF IInv
<1>2. CASE \E x \in Txns : \/ \E k \in {"RO", "RW"} : Begin(x, k)
                           \/ \E y \in Txns : Nested(x, y)
  BY <1>1, <1>2, BeginsInv
<1>3. CASE \E x \in Txns, v \in Vars : GetCursor(x, v)
  BY <1>1, <1>3, GetCursorInv
<1>4. CASE \E x \in Txns : EndTxn(x)
  BY <1>1, <1>4, EndTxnInv
<1>5. CASE \E v \in Vars : Construct(v)
  BY <1>1, <1>5, ConstructInv
<1>6. CASE \E v \in Vars : Close(v) \/ Destroy(v)
  BY <1>1, <1>6, CloseOneInv DEF Close, Destroy
<1>7. CASE \E v, w \in Vars : MoveConstruct(v, w) \/ MoveAssign(v, w)
  BY <1>1, <1>7, MoveConstructInv, MoveAssignInv
<1>8. CASE UNCHANGED vars
  BY <1>1, <1>8, StutterInv
<1> QED
  BY <1>2, <1>3, <1>4, <1>5, <1>6, <1>7, <1>8 DEF Next

\* The inductive invariant holds in every program that assigns to no cursor
\* that is in use.
THEOREM Invariant ==
  ASSUME NeverOverwrites
  PROVE  Spec => []IInv
<1>1. Init => IInv
  BY InitInv
<1>2. IInv /\ [Next]_vars => IInv'
  BY NextInv
<1> QED
  BY <1>1, <1>2, PTL DEF Spec

\* A registry holds the addresses of its transaction's live cursors, each once,
\* however they moved (move_from, close).
THEOREM RegistriesExact ==
  ASSUME NeverOverwrites
  PROVE  Spec => []RegistryExact
<1>1. IInv => RegistryExact
  BY DEF IInv
<1> QED
  BY <1>1, Invariant, PTL

\* Each MDB_cursor of a read-only transaction has one object to close it, and
\* none has two.
THEOREM CursorsOwned ==
  ASSUME NeverOverwrites
  PROVE  Spec => []OwnedOnce
<1>1. ASSUME IInv
      PROVE  OwnedOnce
  <2> SUFFICES ASSUME NEW h \in Cursors, mdb[h] # NoTxn
               PROVE  \/ Cardinality({v \in alive : d_cursor[v] = h}) = 1
                      \/ {v \in alive : d_cursor[v] = h} = {} /\ kind[mdb[h]] = "RW"
    BY DEF OwnedOnce
  <2>1. kind[mdb[h]] \in {"RO", "RW"}
    BY <1>1 DEF IInv, BaseInv, Kept, IsOpen, TypeOK
  <2>2. CASE \E v \in alive : d_cursor[v] = h
    <3>1. PICK v \in alive : d_cursor[v] = h
      BY <2>2
    <3>2. {w \in alive : d_cursor[w] = h} = {v}
      BY <1>1, <3>1, ConstantsAssumption DEF IInv, BaseInv, TypeOK, OneOwner
    <3> QED
      BY <3>2, FS_Singleton
  <2>3. CASE ~\E v \in alive : d_cursor[v] = h
    BY <1>1, <2>1, <2>3 DEF IInv, Kept
  <2> QED
    BY <2>2, <2>3
<1> QED
  BY <1>1, Invariant, PTL

\* No transaction's end calls close() on an object that is gone
\* (closeROCursors, closeRWCursors).
THEOREM NeverDangling ==
  ASSUME NeverOverwrites
  PROVE  Spec => []NoDangling
<1>1. IInv => NoDangling
  BY DEF IInv
<1> QED
  BY <1>1, Invariant, PTL

---------------------------------------------------------------------------
(* Refinement. *)

LEMMA NoneOpenAtFirst == Init => Abstract!Init
BY ConstantsAssumption DEF Init, Abstract!Init, OpenIn

LEMMA GetCursorOpens ==
  ASSUME IInv, NEW x \in Txns, NEW v \in Vars, GetCursor(x, v)
  PROVE  Abstract!Next
<1>1. PICK h \in Cursors : mdb[h] = NoTxn /\ mdb' = [mdb EXCEPT ![h] = x]
  BY DEF GetCursor
<1>2. \A y \in Txns : h \notin OpenIn[y]
  BY <1>1, ConstantsAssumption DEF OpenIn
<1>3. OpenIn' = [OpenIn EXCEPT ![x] = @ \cup {h}]
  <2>1. \A y \in Txns : {g \in Cursors : mdb'[g] = y} =
          IF y = x THEN {g \in Cursors : mdb[g] = x} \cup {h}
                   ELSE {g \in Cursors : mdb[g] = y}
    BY <1>1, ConstantsAssumption DEF IInv, BaseInv, TypeOK
  <2> QED
    BY <2>1 DEF OpenIn
<1> QED
  BY <1>2, <1>3 DEF Abstract!Next, Abstract!OpenCursor

LEMMA CloseCloses ==
  ASSUME IInv, NEW v \in Vars, Freed(HeldBy({v}))
  PROVE  [Abstract!Next]_(Abstract!vars)
<1>1. mdb' \in [Cursors -> Txns \cup {NoTxn}]
  BY DEF Freed, IInv, BaseInv, TypeOK
<1>2. CASE \A h \in Cursors : mdb'[h] = mdb[h]
  BY <1>2 DEF OpenIn, Abstract!vars
<1>3. CASE \E h \in Cursors : mdb'[h] # mdb[h]
  <2>1. PICK h \in Cursors : mdb'[h] # mdb[h]
    BY <1>3
  <2>2. mdb'[h] = NoTxn /\ d_cursor[v] = h /\ mdb[h] \in Txns
    BY <2>1, FreedOne DEF IInv, BaseInv, TypeOK
  <2>3. \A g \in Cursors \ {h} : mdb'[g] = mdb[g]
    BY <2>2, FreedOne
  <2>4. PICK x \in Txns : mdb[h] = x
    BY <2>2
  <2>5. OpenIn' = [OpenIn EXCEPT ![x] = @ \ {h}]
    <3>1. \A y \in Txns : {g \in Cursors : mdb'[g] = y} =
            IF y = x THEN {g \in Cursors : mdb[g] = x} \ {h}
                     ELSE {g \in Cursors : mdb[g] = y}
      BY <2>2, <2>3, <2>4, ConstantsAssumption
    <3> QED
      BY <3>1 DEF OpenIn
  <2>6. h \in OpenIn[x]
    BY <2>4 DEF OpenIn
  <2> QED
    BY <2>5, <2>6 DEF Abstract!Next, Abstract!CloseCursor
<1> QED
  BY <1>2, <1>3

LEMMA EndTxnEnds ==
  ASSUME IInv, NEW x \in Txns, EndTxn(x)
  PROVE  Abstract!Next
<1>1. mdb' = [h \in Cursors |-> IF mdb[h] = x THEN NoTxn ELSE mdb[h]]
  BY FreedAll
<1>2. \A y \in Txns : {h \in Cursors : mdb'[h] = y} =
        IF y = x THEN {} ELSE {h \in Cursors : mdb[h] = y}
  BY <1>1, ConstantsAssumption
<1>3. OpenIn' = [OpenIn EXCEPT ![x] = {}]
  BY <1>2 DEF OpenIn
<1> QED
  BY <1>3 DEF Abstract!Next, Abstract!EndTxn

LEMMA NextKeepsRules ==
  ASSUME IInv, [Next]_vars
  PROVE  [Abstract!Next]_(Abstract!vars)
<1>1. ASSUME UNCHANGED mdb
      PROVE  UNCHANGED Abstract!vars
  BY <1>1 DEF Abstract!vars, OpenIn
<1>2. CASE \E x \in Txns, v \in Vars : GetCursor(x, v)
  BY <1>2, GetCursorOpens
<1>3. CASE \E x \in Txns : EndTxn(x)
  BY <1>3, EndTxnEnds
<1>4. CASE \E v \in Vars : Close(v) \/ Destroy(v)
  BY <1>4, CloseCloses DEF Close, Destroy
<1>5. CASE \E x \in Txns : \/ \E k \in {"RO", "RW"} : Begin(x, k)
                           \/ \E y \in Txns : Nested(x, y)
  BY <1>1, <1>5 DEF Begin, Nested
<1>6. CASE \E v \in Vars : \/ Construct(v)
                           \/ \E w \in Vars : MoveConstruct(v, w) \/ MoveAssign(v, w)
  BY <1>1, <1>6 DEF Construct, MoveConstruct, MoveAssign
<1>7. CASE UNCHANGED vars
  BY <1>1, <1>7 DEF vars
<1> QED
  BY <1>2, <1>3, <1>4, <1>5, <1>6, <1>7 DEF Next

\* The cursor objects keep LMDB's rules for cursors: what their steps do to
\* the open MDB_cursors are steps of CursorProtocol.
THEOREM CursorsImplementProtocol ==
  ASSUME NeverOverwrites
  PROVE  Spec => Protocol
<1>1. Init => Abstract!Init
  BY NoneOpenAtFirst
<1>2. IInv /\ [Next]_vars => [Abstract!Next]_(Abstract!vars)
  BY NextKeepsRules
<1> QED
  BY <1>1, <1>2, Invariant, PTL DEF Spec, Protocol, Abstract!Spec
=============================================================================
