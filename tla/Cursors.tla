------------------------------ MODULE Cursors ------------------------------
(***************************************************************************)
(* The cursors of one thread's transactions (MDBGenCursor in lmdb-safe.hh, *)
(* and lmdb-safe.cc): C++ objects that own an MDB_cursor, move, and are    *)
(* kept by address in a registry of their transaction, so that it can      *)
(* close them before it ends.                                              *)
(*                                                                         *)
(* A variable stands for an address: a new object may come to be where a   *)
(* dead one was.  A registry is a vector, of which the model keeps how     *)
(* often each address is in it: nothing depends on its order.              *)
(***************************************************************************)
EXTENDS Naturals, FiniteSets

CONSTANTS
  Txns,
  ROVars, RWVars,  \* variables of type MDBROCursor and MDBRWCursor
  Cursors,         \* LMDB's cursors: as many can be open, or leaked
  NoTxn, NoCursor,
  Uses             \* "assign_live": a cursor that is in use is assigned to

Vars == ROVars \cup RWVars

ASSUME ConstantsAssumption ==
  /\ ROVars \cap RWVars = {}
  /\ NoTxn \notin Txns
  /\ NoCursor \notin Cursors
  /\ Uses \subseteq {"assign_live"}

VARIABLES
  kind,        \* "RO" or "RW" while the transaction is open, else "none"
  parent,      \* of an open transaction that is nested in another
  d_cursors,   \* the two registries, d_cursors and d_rw_cursors
  alive,       \* the objects that exist
  d_registry,  \* of each object, the transaction whose registry it is in
  d_cursor,
  mdb,         \* the transaction of an MDB_cursor, from open to close
  ub           \* a transaction told a dead object to close

objVars == <<alive, d_registry, d_cursor>>
txnVars == <<kind, parent>>
vars == <<txnVars, d_cursors, objVars, mdb, ub>>

Init ==
  /\ kind = [x \in Txns |-> "none"]
  /\ parent = [x \in Txns |-> NoTxn]
  /\ d_cursors = [x \in Txns |-> [v \in Vars |-> 0]]
  /\ alive = {}
  /\ d_registry = [v \in Vars |-> NoTxn]
  /\ d_cursor = [v \in Vars |-> NoCursor]
  /\ mdb = [h \in Cursors |-> NoTxn]
  /\ ub = FALSE

IsOpen(x) == kind[x] # "none"

\* Nothing can be done in a transaction while one that is nested in it is open.
HasChild(x) == \E y \in Txns : parent[y] = x

\* An object that does not exist, and did not leave an open MDB_cursor behind.
Fresh(x) == ~IsOpen(x) /\ \A h \in Cursors : mdb[h] # x

\* The transactions MDBEnv lets one thread have.
Begin(x, k) ==
  /\ Fresh(x)
  /\ \A y \in Txns : IsOpen(y) => k = "RO" /\ kind[y] = "RO"
  /\ kind' = [kind EXCEPT ![x] = k]
  /\ UNCHANGED <<parent, d_cursors, objVars, mdb, ub>>

\* getRWTransaction of a write transaction.
Nested(x, y) ==
  /\ Fresh(x) /\ kind[y] = "RW" /\ ~HasChild(y)
  /\ kind' = [kind EXCEPT ![x] = "RW"]
  /\ parent' = [parent EXCEPT ![x] = y]
  /\ UNCHANGED <<d_cursors, objVars, mdb, ub>>

---------------------------------------------------------------------------
(* Objects. *)

\* The default constructor.
Construct(v) ==
  /\ v \notin alive
  /\ alive' = alive \cup {v}
  /\ UNCHANGED <<txnVars, d_cursors, d_registry, d_cursor, mdb, ub>>

\* getROCursor and getRWCursor: the object registers its address.  Either type
\* of cursor can be had from a write transaction.
GetCursor(x, v) ==
  /\ IsOpen(x) /\ ~HasChild(x) /\ v \notin alive
  /\ v \in RWVars => kind[x] = "RW"
  /\ \E h \in Cursors :
       /\ mdb[h] = NoTxn
       /\ mdb' = [mdb EXCEPT ![h] = x]
       /\ d_cursor' = [d_cursor EXCEPT ![v] = h]
  /\ d_cursors' = [d_cursors EXCEPT ![x][v] = @ + 1]
  /\ d_registry' = [d_registry EXCEPT ![v] = x]
  /\ alive' = alive \cup {v}
  /\ UNCHANGED <<txnVars, ub>>

\* move_from: v takes the place of src in the registry, or a new one.
MoveFromForgets(x, v, src) ==                                 \* variant
  d_cursors' = [d_cursors EXCEPT ![x][v] = @ + 1]
MoveFrom(x, v, src) ==
  d_cursors' = IF d_cursors[x][src] = 0
               THEN [d_cursors EXCEPT ![x][v] = @ + 1]
               ELSE [d_cursors EXCEPT ![x][src] = @ - 1, ![x][v] = @ + 1]

\* The members of src go to v, whatever v had.
TakeFromCopies(v, src) ==                                     \* variant
  /\ IF d_registry[src] = NoTxn
     THEN UNCHANGED d_cursors
     ELSE MoveFrom(d_registry[src], v, src)
  /\ d_registry' = [d_registry EXCEPT ![v] = d_registry[src]]
  /\ d_cursor' = [d_cursor EXCEPT ![v] = d_cursor[src]]
TakeFrom(v, src) ==
  /\ IF d_registry[src] = NoTxn
     THEN UNCHANGED d_cursors
     ELSE MoveFrom(d_registry[src], v, src)
  /\ d_registry' = [d_registry EXCEPT ![v] = d_registry[src], ![src] = NoTxn]
  /\ d_cursor' = [d_cursor EXCEPT ![v] = d_cursor[src], ![src] = NoCursor]

SameType(v, w) == v \in ROVars <=> w \in ROVars

\* The move constructor.
MoveConstruct(v, src) ==
  /\ v \notin alive /\ src \in alive /\ SameType(v, src)
  /\ TakeFrom(v, src)
  /\ alive' = alive \cup {v}
  /\ UNCHANGED <<txnVars, mdb, ub>>

\* The move assignment does not close what v had, which may be src itself.
MoveAssign(v, src) ==
  /\ v \in alive /\ src \in alive /\ SameType(v, src)
  /\ d_cursor[v] # NoCursor => "assign_live" \in Uses
  /\ TakeFrom(v, src)
  /\ UNCHANGED <<txnVars, alive, mdb, ub>>

---------------------------------------------------------------------------
(* Closing. *)

\* mdb_cursor_close of the cursors H.  LMDB may open another at the address.
\* A cursor it keeps for a nested transaction to undo stays, and is freed when
\* its own transaction ends.
Freed(H) ==
  mdb' = [h \in Cursors |-> IF h \in H /\ ~HasChild(mdb[h]) THEN NoTxn ELSE mdb[h]]

\* close() of the objects V, each of which takes itself out of its registry,
\* once; reg is the registries before.
Unregistered(V, reg) ==
  [x \in Txns |-> [v \in Vars |->
     IF v \in V /\ d_registry[v] = x /\ reg[x][v] > 0
     THEN reg[x][v] - 1 ELSE reg[x][v]]]

CloseKeepsEntry(V, reg) ==                                    \* variant
  /\ d_cursors' = reg
  /\ d_registry' = [v \in Vars |-> IF v \in V THEN NoTxn ELSE d_registry[v]]
  /\ d_cursor' = [v \in Vars |-> IF v \in V THEN NoCursor ELSE d_cursor[v]]
CloseKeepsCursor(V, reg) ==                                   \* variant
  /\ d_cursors' = Unregistered(V, reg)
  /\ d_registry' = [v \in Vars |-> IF v \in V THEN NoTxn ELSE d_registry[v]]
  /\ UNCHANGED d_cursor
CloseObjects(V, reg) ==
  /\ d_cursors' = Unregistered(V, reg)
  /\ d_registry' = [v \in Vars |-> IF v \in V THEN NoTxn ELSE d_registry[v]]
  /\ d_cursor' = [v \in Vars |-> IF v \in V THEN NoCursor ELSE d_cursor[v]]

HeldBy(V) == {d_cursor[v] : v \in V} \ {NoCursor}

\* close(), by the user.
Close(v) ==
  /\ v \in alive
  /\ CloseObjects({v}, d_cursors)
  /\ Freed(HeldBy({v}))
  /\ UNCHANGED <<txnVars, alive, ub>>

\* The destructor.
Destroy(v) ==
  /\ v \in alive
  /\ CloseObjects({v}, d_cursors)
  /\ Freed(HeldBy({v}))
  /\ alive' = alive \ {v}
  /\ UNCHANGED <<txnVars, ub>>

\* commit(), abort() and the destructor of a transaction: the registries are
\* swapped out, each address in them is told to close, then the transaction
\* ends, and LMDB frees the cursors a write transaction still has.
RegisteredRO(x) == {v \in ROVars : d_cursors[x][v] > 0}        \* variant
Registered(x) == {v \in Vars : d_cursors[x][v] > 0}

EndTxn(x) ==
  /\ IsOpen(x) /\ ~HasChild(x)
  /\ LET V == Registered(x) \cap alive
         left == {h \in Cursors : mdb[h] = x /\ kind[x] = "RW"}
     IN  /\ CloseObjects(V, [d_cursors EXCEPT ![x] = [v \in Vars |-> 0]])
         /\ Freed(HeldBy(V) \cup left)
  /\ ub' = (Registered(x) \subseteq alive => ub)
  /\ kind' = [kind EXCEPT ![x] = "none"]
  /\ parent' = [parent EXCEPT ![x] = NoTxn]
  /\ UNCHANGED alive

\* After undefined behaviour the model says nothing more.
Next ==
  /\ ~ub
  /\ \/ \E x \in Txns :
          \/ \E k \in {"RO", "RW"} : Begin(x, k)
          \/ \E y \in Txns : Nested(x, y)
          \/ \E v \in Vars : GetCursor(x, v)
          \/ EndTxn(x)
     \/ \E v \in Vars :
          \/ Construct(v) \/ Close(v) \/ Destroy(v)
          \/ \E w \in Vars : MoveConstruct(v, w) \/ MoveAssign(v, w)

Spec == Init /\ [][Next]_vars

---------------------------------------------------------------------------
(* Properties. *)

\* Types; a dead object, and one that was closed or moved from, has neither a
\* registry nor a cursor.
TypeOK ==
  /\ kind \in [Txns -> {"none", "RO", "RW"}]
  /\ parent \in [Txns -> Txns \cup {NoTxn}]
  /\ d_cursors \in [Txns -> [Vars -> Nat]]
  /\ alive \in SUBSET Vars
  /\ d_registry \in [Vars -> Txns \cup {NoTxn}]
  /\ d_cursor \in [Vars -> Cursors \cup {NoCursor}]
  /\ mdb \in [Cursors -> Txns \cup {NoTxn}]
  /\ ub \in BOOLEAN
  /\ \A v \in Vars : /\ d_registry[v] = NoTxn <=> d_cursor[v] = NoCursor
                     /\ v \notin alive => d_cursor[v] = NoCursor

\* A transaction's registry is the addresses of its live cursor objects, each
\* once, through moves, moves to a reused address, and closes in any order: so
\* the end of the transaction reaches all of them, and no dead one.
RegistryExact ==
  \A x \in Txns, v \in Vars :
    d_cursors[x][v] = IF v \in alive /\ d_registry[v] = x THEN 1 ELSE 0

\* lmdb-safe.hh: "A cursor in a read-only transaction must be closed
\* explicitly": every open MDB_cursor of one has an object that will close it.
\* No MDB_cursor has two.
OwnedOnce ==
  \A h \in Cursors : mdb[h] # NoTxn =>
    LET owners == {v \in alive : d_cursor[v] = h}
    IN  Cardinality(owners) = 1 \/ (owners = {} /\ kind[mdb[h]] = "RW")

\* What a cursor object holds is an open cursor of an open transaction, the
\* one in whose registry it is: the end of the transaction leaves no object
\* with a cursor (test-basic.cc, "transaction inheritance and moving").
HeldOpen ==
  \A v \in Vars : d_cursor[v] # NoCursor =>
    IsOpen(d_registry[v]) /\ mdb[d_cursor[v]] = d_registry[v]

\* A transaction that ends tells no dead object to close: every way to lose an
\* object, a move among them, leaves the registry it was in.
NoDangling == ~ub

\* The objects keep LMDB's rules for cursors.
OpenIn == [x \in Txns |-> {h \in Cursors : mdb[h] = x}]
Abstract == INSTANCE CursorProtocol WITH openIn <- OpenIn
Protocol == Abstract!Spec
=============================================================================
