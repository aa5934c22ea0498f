----------------------------- MODULE MapResize -----------------------------
(***************************************************************************)
(* A file that other processes let grow, under the threads of this one:    *)
(* mdb_txn_begin says MDB_MAP_RESIZED when the file has outgrown the map,  *)
(* and openRWTransaction and openROTransaction adopt the new size and try  *)
(* again, three times in all.                                              *)
(*                                                                         *)
(* What MDBEnv takes for one step, Begin or BeginFails, is here in detail. *)
(* Nothing here depends on which thread a transaction is of: one that has  *)
(* several read-only transactions open is as many of the model's Threads.  *)
(***************************************************************************)
EXTENDS Naturals

CONSTANTS
  Threads,
  MaxPages,   \* bound: the file grows no further
  MaxTries,   \* 3 in the code
  Uses        \* "mmap_fails": the address space or the memory is used up

ASSUME ConstantsAssumption ==
  /\ MaxPages \in Nat
  /\ MaxTries \in Nat \ {0}
  /\ Uses \subseteq {"mmap_fails"}

VARIABLES
  pages,      \* the size of the file as of the last commit of any process
  map,        \* the size of this process's map
  mapped,     \* there is a map: not so between munmap and mmap
  txn,        \* the thread's transaction
  needs,      \* the size of the version it works on
  cut,        \* the threads whose transaction had the map taken away
  pc, kind, tries,
  grown,      \* history: other processes' commits since the call began
  outgrown,   \* history: one of them made the file larger than the map
  ub          \* memory that is not mapped was used: anything may follow

fileVars == <<pages, map, mapped>>
txnVars == <<txn, needs, cut>>
callVars == <<pc, kind, tries>>
vars == <<fileVars, txnVars, callVars, grown, outgrown, ub>>

Kinds == {"RO", "RW"}

Init ==
  /\ pages \in 1..MaxPages
  /\ map \in pages..MaxPages
  /\ mapped = TRUE
  /\ txn = [t \in Threads |-> "none"]
  /\ needs = [t \in Threads |-> 0]
  /\ cut = {}
  /\ pc = [t \in Threads |-> "idle"]
  /\ kind = [t \in Threads |-> "RO"]
  /\ tries = [t \in Threads |-> 0]
  /\ grown = [t \in Threads |-> 0]
  /\ outgrown = FALSE
  /\ ub = FALSE

\* LMDB's writer lock is held in this process (env->me_txn).
Writing == \E t \in Threads : txn[t] = "RW"

Returns(t) == pc' = [pc EXCEPT ![t] = "idle"] /\ UNCHANGED <<kind, tries>>

---------------------------------------------------------------------------
(* openROTransaction and openRWTransaction, past their counters. *)

Call(t, k) ==
  /\ pc[t] = "idle" /\ txn[t] = "none"
  /\ pc' = [pc EXCEPT ![t] = "begin"]
  /\ kind' = [kind EXCEPT ![t] = k]
  /\ tries' = [tries EXCEPT ![t] = 0]
  /\ grown' = [grown EXCEPT ![t] = 0]
  /\ UNCHANGED <<fileVars, txnVars, outgrown, ub>>

\* mdb_txn_begin comes to look at the file; the lock is free for a writer.
AtBegin(t) == pc[t] = "begin" /\ (kind[t] = "RW" => ~Writing)

Begin(t) ==
  /\ AtBegin(t) /\ mapped /\ pages <= map
  /\ txn' = [txn EXCEPT ![t] = kind[t]]
  /\ needs' = [needs EXCEPT ![t] = pages]
  /\ Returns(t)
  /\ UNCHANGED <<fileVars, cut, grown, outgrown, ub>>

MoreTriesPast(t) == tries[t] < MaxTries                      \* variant
MoreTries(t) == tries[t] + 1 < MaxTries

\* MDB_MAP_RESIZED, and "tries < 2".
ResizedAnyway(t) ==                                           \* variant
  /\ AtBegin(t) /\ mapped
  /\ MoreTries(t)
  /\ pc' = [pc EXCEPT ![t] = "resized"]
  /\ UNCHANGED <<fileVars, txnVars, kind, tries, grown, outgrown, ub>>
Resized(t) ==
  /\ AtBegin(t) /\ mapped /\ pages > map
  /\ MoreTries(t)
  /\ pc' = [pc EXCEPT ![t] = "resized"]
  /\ UNCHANGED <<fileVars, txnVars, kind, tries, grown, outgrown, ub>>

\* The third time it throws.
Throws(t) ==
  /\ AtBegin(t) /\ mapped /\ pages > map
  /\ ~MoreTries(t)
  /\ Returns(t)
  /\ UNCHANGED <<fileVars, txnVars, grown, outgrown, ub>>

NextTry(t) ==
  /\ tries' = [tries EXCEPT ![t] = @ + 1]
  /\ pc' = [pc EXCEPT ![t] = "begin"]
  /\ UNCHANGED kind

\* mdb_env_set_mapsize(env, 0).  It says EINVAL while this process writes, and
\* the code does not look at what it says.
SetMapSizeRefused(t) ==
  /\ pc[t] = "resized" /\ Writing
  /\ NextTry(t)
  /\ UNCHANGED <<fileVars, txnVars, grown, outgrown, ub>>

\* Otherwise it goes on, with no lock that would keep a writer from beginning.
SetMapSize(t) ==
  /\ pc[t] = "resized" /\ ~Writing
  /\ pc' = [pc EXCEPT ![t] = "unmapping"]
  /\ UNCHANGED <<fileVars, txnVars, kind, tries, grown, outgrown, ub>>

\* It unmaps the file, and does not look for readers.
Unmap(t) ==
  /\ pc[t] = "unmapping" /\ mapped
  /\ mapped' = FALSE
  /\ cut' = {u \in Threads : txn[u] # "none"}
  /\ pc' = [pc EXCEPT ![t] = "unmapped"]
  /\ UNCHANGED <<pages, map, txn, needs, kind, tries, grown, outgrown, ub>>

\* It maps as much as the file's metadata say, which is never less than before.
MapKeepsSize(t) ==                                            \* variant
  /\ pc[t] = "unmapped"
  /\ mapped' = TRUE
  /\ NextTry(t)
  /\ UNCHANGED <<pages, map, txnVars, grown, outgrown, ub>>
Map(t) ==
  /\ pc[t] = "unmapped"
  /\ map' \in {s \in map..MaxPages : pages <= s}
  /\ mapped' = TRUE
  /\ NextTry(t)
  /\ UNCHANGED <<pages, txnVars, grown, outgrown, ub>>

MmapFails(t) ==
  /\ "mmap_fails" \in Uses
  /\ pc[t] = "unmapped"
  /\ NextTry(t)
  /\ UNCHANGED <<fileVars, txnVars, grown, outgrown, ub>>

\* A call, or mdb_env_set_mapsize, comes to the map where there is none, or a
\* transaction to what it had in one that was taken away.
Undefined(t) ==
  /\ \/ AtBegin(t) /\ ~mapped
     \/ pc[t] = "unmapping" /\ ~mapped
     \/ pc[t] = "idle" /\ t \in cut
  /\ ub' = TRUE
  /\ UNCHANGED <<fileVars, txnVars, callVars, grown, outgrown>>

---------------------------------------------------------------------------
\* A put takes new pages.  Past the map it throws, and changes nothing here.
Put(t) ==
  /\ pc[t] = "idle" /\ txn[t] = "RW" /\ t \notin cut
  /\ \E n \in needs[t]..map : needs' = [needs EXCEPT ![t] = n]
  /\ UNCHANGED <<fileVars, txn, cut, callVars, grown, outgrown, ub>>

\* commit() of a write transaction, or the end of any.  LMDB looks at the map to
\* end a writer only.
End(t) ==
  /\ pc[t] = "idle" /\ txn[t] # "none"
  /\ txn[t] = "RW" => mapped
  /\ pages' \in {pages} \cup (IF txn[t] = "RW" THEN {needs[t]} ELSE {})
  /\ txn' = [txn EXCEPT ![t] = "none"]
  /\ needs' = [needs EXCEPT ![t] = 0]
  /\ cut' = cut \ {t}
  /\ UNCHANGED <<map, mapped, callVars, grown, outgrown, ub>>

\* Another process commits, and may have made its own map larger before.
OtherCommits(n) ==
  /\ ~Writing /\ n > pages
  /\ pages' = n
  /\ grown' = [t \in Threads |-> grown[t] + 1]
  /\ outgrown' = (outgrown \/ n > map)
  /\ UNCHANGED <<map, mapped, txnVars, callVars, ub>>

\* After undefined behaviour the model says nothing more.
Next ==
  /\ ~ub
  /\ \/ \E t \in Threads :
          \/ \E k \in Kinds : Call(t, k)
          \/ Begin(t) \/ Resized(t) \/ Throws(t)
          \/ SetMapSizeRefused(t) \/ SetMapSize(t) \/ Unmap(t) \/ Map(t) \/ MmapFails(t)
          \/ Undefined(t)
          \/ Put(t) \/ End(t)
     \/ \E n \in 1..MaxPages : OtherCommits(n)

Spec == Init /\ [][Next]_vars

---------------------------------------------------------------------------
(* Properties. *)

\* Types; no call is beyond its last try, where the loop would end with no
\* transaction and no exception.
TypeOK ==
  /\ pages \in 1..MaxPages /\ map \in 1..MaxPages
  /\ mapped \in BOOLEAN /\ outgrown \in BOOLEAN /\ ub \in BOOLEAN
  /\ cut \subseteq Threads
  /\ txn \in [Threads -> Kinds \cup {"none"}]
  /\ needs \in [Threads -> 0..MaxPages]
  /\ pc \in [Threads -> {"idle", "begin", "resized", "unmapping", "unmapped"}]
  /\ kind \in [Threads -> Kinds]
  /\ tries \in [Threads -> 0..(MaxTries - 1)]
  /\ grown \in [Threads -> Nat]

\* As long as other processes keep within this one's map, no call takes it away
\* or gives up, whatever the threads begin, write and end meanwhile, and what a
\* transaction works on is in the map: taking it away in use (MapStays) needs a
\* file that was made larger from outside.
MapKept ==
  ~outgrown => /\ ~ub /\ cut = {}
               /\ \A t \in Threads : txn[t] # "none" => mapped /\ needs[t] <= map

\* A call gives up only when other processes have let the file grow in each
\* of its retries: no race with the threads of this process, and no error of
\* mdb_env_set_mapsize that it does not look at, costs it a try too many.
GivesUpJustified ==
  [][\A t \in Threads : Throws(t) => grown[t] >= MaxTries - 1]_vars

\* lmdb-safe.hh: "You can talk to MDBEnv from as many threads as you want".  No
\* thread takes the map away under another's transaction.
MapStays == cut = {}
=============================================================================
