-------------------------- MODULE MapResizeProofs --------------------------
(***************************************************************************)
(* Proofs about MapResize: the map is kept until another process outgrows  *)
(* it, and a call that gives up had the file grow in each retry, for any   *)
(* number of threads, tries and pages.                                     *)
(***************************************************************************)
EXTENDS MapResize, TLAPS

---------------------------------------------------------------------------
(* The inductive invariant. *)

\* A transaction works on pages; those a writer has not committed yet included.
NeedsPages == \A t \in Threads : txn[t] # "none" => needs[t] > 0

\* What a transaction works on is in the map, or will be when there is one again:
\* maps do not get smaller.
VersionFits == \A t \in Threads : txn[t] # "none" => needs[t] <= map

\* No call has been told MDB_MAP_RESIZED: the process's own commits fit its map.
NeverResized ==
  ~outgrown => /\ ~ub /\ cut = {} /\ mapped /\ pages <= map
               /\ \A t \in Threads : pc[t] \in {"idle", "begin"}

\* LMDB takes no writer whose version is not mapped, and nobody else commits
\* while this process writes.
WriterFits == Writing => pages <= map

\* One call at a time is between munmap and mmap.
OneUnmapped ==
  \A t \in Threads : pc[t] = "unmapped" =>
    ~mapped /\ \A u \in Threads : pc[u] = "unmapped" => u = t

\* A call that was told MDB_MAP_RESIZED has a try left.
TriesLeft ==
  \A t \in Threads :
    pc[t] \in {"resized", "unmapping", "unmapped"} => tries[t] + 1 < MaxTries

\* Each try that is over is paid for by a growth of the file, but for the last
\* one where the map has caught up with the file since.
TriesPaid ==
  \A t \in Threads :
    /\ pc[t] \in {"resized", "unmapping", "unmapped"} => grown[t] >= tries[t]
    /\ pc[t] = "begin" => grown[t] + 1 >= tries[t]
    /\ pc[t] = "begin" /\ mapped /\ pages > map => grown[t] >= tries[t]

IInv ==
  /\ TypeOK /\ NeedsPages /\ VersionFits /\ NeverResized /\ WriterFits /\ OneUnmapped
  /\ TriesLeft /\ TriesPaid

LEMMA InitInv == Init => IInv
<1> SUFFICES ASSUME Init
             PROVE  IInv
  OBVIOUS
<1>1. 0 \in 0..(MaxTries - 1) /\ 0 \in 0..MaxPages
  BY ConstantsAssumption
<1>2. pages \in 1..MaxPages /\ map \in 1..MaxPages
  BY ConstantsAssumption DEF Init
<1>3. TypeOK
  BY <1>1, <1>2 DEF Init, TypeOK, Kinds
<1> QED
  BY <1>3 DEF Init, IInv, TypeOK, NeedsPages, VersionFits, NeverResized, WriterFits, Writing,
              OneUnmapped, TriesLeft, TriesPaid

---------------------------------------------------------------------------
(* Steps of a call. *)

LEMMA CallInv ==
  ASSUME IInv, NEW t \in Threads, NEW k \in Kinds, Call(t, k)
  PROVE  IInv'
<1> USE DEF Call, fileVars, txnVars
<1>1. TypeOK'
  BY ConstantsAssumption DEF IInv, TypeOK, Kinds
<1>2. NeedsPages' /\ VersionFits' /\ NeverResized' /\ WriterFits'
  BY DEF IInv, TypeOK, NeedsPages, VersionFits, NeverResized, WriterFits, Writing
<1>3. OneUnmapped' /\ TriesLeft' /\ TriesPaid'
  BY DEF IInv, TypeOK, OneUnmapped, TriesLeft, TriesPaid
<1> QED
  BY <1>1, <1>2, <1>3 DEF IInv

LEMMA BeginInv ==
  ASSUME IInv, NEW t \in Threads, Begin(t)
  PROVE  IInv'
<1> USE DEF Begin, AtBegin, fileVars, txnVars, Returns
<1>1. TypeOK'
  BY DEF IInv, TypeOK, Kinds
<1>2. NeedsPages' /\ VersionFits' /\ NeverResized'
  BY DEF IInv, TypeOK, NeedsPages, VersionFits, NeverResized
<1>3. WriterFits'
  BY DEF IInv, WriterFits
<1>4. OneUnmapped' /\ TriesLeft' /\ TriesPaid'
  BY DEF IInv, TypeOK, OneUnmapped, TriesLeft, TriesPaid
<1> QED
  BY <1>1, <1>2, <1>3, <1>4 DEF IInv

LEMMA ResizedInv ==
  ASSUME IInv, NEW t \in Threads, Resized(t)
  PROVE  IInv'
<1> USE DEF Resized, AtBegin, fileVars, txnVars, MoreTries
<1>1. TypeOK'
  BY DEF IInv, TypeOK
<1>2. NeedsPages' /\ VersionFits' /\ NeverResized' /\ WriterFits'
  BY DEF IInv, TypeOK, NeedsPages, VersionFits, NeverResized, WriterFits, Writing
<1>3. OneUnmapped' /\ TriesLeft' /\ TriesPaid'
  BY DEF IInv, TypeOK, OneUnmapped, TriesLeft, TriesPaid
<1> QED
  BY <1>1, <1>2, <1>3 DEF IInv

LEMMA ThrowsInv ==
  ASSUME IInv, NEW t \in Threads, Throws(t)
  PROVE  IInv'
<1> USE DEF Throws, AtBegin, fileVars, txnVars, Returns
<1>1. TypeOK'
  BY DEF IInv, TypeOK
<1>2. NeedsPages' /\ VersionFits' /\ NeverResized' /\ WriterFits'
  BY DEF IInv, TypeOK, NeedsPages, VersionFits, NeverResized, WriterFits, Writing
<1>3. OneUnmapped' /\ TriesLeft' /\ TriesPaid'
  BY DEF IInv, TypeOK, OneUnmapped, TriesLeft, TriesPaid
<1> QED
  BY <1>1, <1>2, <1>3 DEF IInv

\* While the process writes, the file has not outgrown the map: a refused
\* mdb_env_set_mapsize is followed by a try that does not need it.
LEMMA SetMapSizeRefusedInv ==
  ASSUME IInv, NEW t \in Threads, SetMapSizeRefused(t)
  PROVE  IInv'
<1> USE DEF SetMapSizeRefused, NextTry, fileVars, txnVars
<1>1. TypeOK'
  BY ConstantsAssumption DEF IInv, TypeOK, TriesLeft
<1>2. NeedsPages' /\ VersionFits' /\ NeverResized' /\ WriterFits'
  BY DEF IInv, TypeOK, NeedsPages, VersionFits, NeverResized, WriterFits, Writing
<1>3. pages <= map
  BY DEF IInv, WriterFits
<1>4. OneUnmapped' /\ TriesLeft'
  BY DEF IInv, TypeOK, OneUnmapped, TriesLeft
<1>5. TriesPaid'
  BY <1>3 DEF IInv, TypeOK, TriesPaid
<1> QED
  BY <1>1, <1>2, <1>4, <1>5 DEF IInv

LEMMA SetMapSizeInv ==
  ASSUME IInv, NEW t \in Threads, SetMapSize(t)
  PROVE  IInv'
<1> USE DEF SetMapSize, fileVars, txnVars
<1>1. TypeOK'
  BY DEF IInv, TypeOK
<1>2. NeedsPages' /\ VersionFits' /\ NeverResized' /\ WriterFits'
  BY DEF IInv, TypeOK, NeedsPages, VersionFits, NeverResized, WriterFits, Writing
<1>3. OneUnmapped' /\ TriesLeft' /\ TriesPaid'
  BY DEF IInv, TypeOK, OneUnmapped, TriesLeft, TriesPaid
<1> QED
  BY <1>1, <1>2, <1>3 DEF IInv

LEMMA UnmapInv ==
  ASSUME IInv, NEW t \in Threads, Unmap(t)
  PROVE  IInv'
<1> USE DEF Unmap
<1>1. TypeOK'
  BY DEF IInv, TypeOK
<1>2. NeedsPages' /\ VersionFits' /\ NeverResized' /\ WriterFits'
  BY DEF IInv, TypeOK, NeedsPages, VersionFits, NeverResized, WriterFits, Writing
<1>3. OneUnmapped' /\ TriesLeft' /\ TriesPaid'
  BY DEF IInv, TypeOK, OneUnmapped, TriesLeft, TriesPaid
<1> QED
  BY <1>1, <1>2, <1>3 DEF IInv

\* The new map covers the file as it is then.
LEMMA MapInv ==
  ASSUME IInv, NEW t \in Threads, Map(t)
  PROVE  IInv'
<1> USE DEF Map, NextTry, fileVars, txnVars
<1>1. TypeOK' /\ pages' <= map' /\ map <= map'
  BY ConstantsAssumption DEF IInv, TypeOK, TriesLeft
<1>2. NeedsPages' /\ VersionFits' /\ NeverResized'
  BY <1>1, ConstantsAssumption DEF IInv, TypeOK, NeedsPages, VersionFits, NeverResized
<1>3. WriterFits'
  BY <1>1 DEF WriterFits
<1>4. OneUnmapped' /\ TriesLeft'
  BY DEF IInv, TypeOK, OneUnmapped, TriesLeft
<1>5. TriesPaid'
  BY <1>1, ConstantsAssumption DEF IInv, TypeOK, TriesPaid
<1> QED
  BY <1>1, <1>2, <1>3, <1>4, <1>5 DEF IInv

\* There is no map afterwards, and no try that could give up.
LEMMA MmapFailsInv ==
  ASSUME IInv, NEW t \in Threads, MmapFails(t)
  PROVE  IInv'
<1> USE DEF MmapFails, NextTry, fileVars, txnVars
<1>1. TypeOK'
  BY ConstantsAssumption DEF IInv, TypeOK, TriesLeft
<1>2. NeedsPages' /\ VersionFits' /\ NeverResized' /\ WriterFits'
  BY DEF IInv, TypeOK, NeedsPages, VersionFits, NeverResized, WriterFits, Writing
<1>3. ~mapped
  BY DEF IInv, OneUnmapped
<1>4. OneUnmapped' /\ TriesLeft'
  BY DEF IInv, TypeOK, OneUnmapped, TriesLeft
<1>5. TriesPaid'
  BY <1>3 DEF IInv, TypeOK, TriesPaid
<1> QED
  BY <1>1, <1>2, <1>4, <1>5 DEF IInv

---------------------------------------------------------------------------
(* Steps of a transaction, and of others. *)

LEMMA PutInv ==
  ASSUME IInv, NEW t \in Threads, Put(t)
  PROVE  IInv'
<1> USE DEF Put, callVars, fileVars, txnVars
<1>1. TypeOK'
  BY ConstantsAssumption DEF IInv, TypeOK
<1>2. NeedsPages' /\ VersionFits' /\ NeverResized'
  BY ConstantsAssumption DEF IInv, TypeOK, NeedsPages, VersionFits, NeverResized
<1>3. WriterFits'
  BY DEF IInv, WriterFits, Writing
<1>4. OneUnmapped' /\ TriesLeft' /\ TriesPaid'
  BY DEF IInv, OneUnmapped, TriesLeft, TriesPaid
<1> QED
  BY <1>1, <1>2, <1>3, <1>4 DEF IInv

\* What this process commits fits the map: no call of it has to try again for
\* that.
LEMMA EndInv ==
  ASSUME IInv, NEW t \in Threads, End(t)
  PROVE  IInv'
<1> USE DEF End, callVars, fileVars, txnVars
<1>1. pages' = pages \/ (pages' = needs[t] /\ needs[t] <= map /\ mapped)
  BY DEF IInv, VersionFits
<1>2. TypeOK'
  BY <1>1, ConstantsAssumption DEF IInv, TypeOK, NeedsPages
<1>3. NeedsPages' /\ VersionFits' /\ NeverResized'
  BY DEF IInv, TypeOK, NeedsPages, VersionFits, NeverResized
<1>4. WriterFits'
  BY <1>1 DEF IInv, TypeOK, WriterFits, Writing
<1>5. OneUnmapped' /\ TriesLeft'
  BY DEF IInv, OneUnmapped, TriesLeft
<1>6. TriesPaid'
  BY <1>1 DEF IInv, TypeOK, TriesPaid
<1> QED
  BY <1>2, <1>3, <1>4, <1>5, <1>6 DEF IInv

LEMMA OtherCommitsInv ==
  ASSUME IInv, NEW n \in 1..MaxPages, OtherCommits(n)
  PROVE  IInv'
<1> USE DEF OtherCommits, callVars, fileVars, txnVars
<1>1. TypeOK'
  BY ConstantsAssumption DEF IInv, TypeOK
<1>2. NeedsPages' /\ VersionFits' /\ NeverResized' /\ WriterFits'
  BY DEF IInv, TypeOK, NeedsPages, VersionFits, NeverResized, WriterFits, Writing
<1>3. OneUnmapped' /\ TriesLeft'
  BY DEF IInv, OneUnmapped, TriesLeft
<1>4. TriesPaid'
  BY ConstantsAssumption DEF IInv, TypeOK, TriesPaid
<1> QED
  BY <1>1, <1>2, <1>3, <1>4 DEF IInv

\* The step to undefined behaviour changes nothing else.
LEMMA UndefinedInv ==
  ASSUME IInv, NEW t \in Threads, Undefined(t)
  PROVE  IInv'
BY DEF Undefined, AtBegin, fileVars, txnVars, callVars, IInv, TypeOK, NeedsPages, VersionFits, NeverResized, WriterFits,
       Writing, OneUnmapped, TriesLeft, TriesPaid

LEMMA StutterInv ==
  ASSUME IInv, UNCHANGED vars
  PROVE  IInv'
BY DEF vars, fileVars, txnVars, callVars, IInv, TypeOK, NeedsPages, VersionFits, NeverResized, WriterFits,
       Writing, OneUnmapped, TriesLeft, TriesPaid

LEMMA NextInv == IInv /\ [Next]_vars => IInv'
<1> SUFFICES ASSUME IInv, [Next]_vars
             PROVE  IInv'
  OBVIOUS
<1>1. ASSUME NEW t \in Threads, NEW k \in Kinds, Call(t, k)
      PROVE  IInv'
  BY <1>1, CallInv
<1>2. ASSUME NEW t \in Threads,
             \/ Begin(t) \/ Resized(t) \/ Throws(t)
             \/ SetMapSizeRefused(t) \/ SetMapSize(t) \/ Unmap(t) \/ Map(t) \/ MmapFails(t)
      PROVE  IInv'
  BY <1>2, BeginInv, ResizedInv, ThrowsInv, SetMapSizeRefusedInv, SetMapSizeInv, UnmapInv, MapInv,
     MmapFailsInv
<1>3. ASSUME NEW t \in Threads, Undefined(t) \/ Put(t) \/ End(t)
      PROVE  IInv'
  BY <1>3, UndefinedInv, PutInv, EndInv
<1>4. ASSUME NEW n \in 1..MaxPages, OtherCommits(n)
      PROVE  IInv'
  BY <1>4, OtherCommitsInv
<1>5. CASE UNCHANGED vars
  BY <1>5, StutterInv
<1> QED
  BY <1>1, <1>2, <1>3, <1>4, <1>5 DEF Next

THEOREM Invariant == Spec => []IInv
<1> QED
  BY InitInv, NextInv, PTL DEF Spec

---------------------------------------------------------------------------
(* What follows from it. *)

\* The fields have their types, and no call goes on past its last try.
THEOREM TypeCorrect == Spec => []TypeOK
<1>1. IInv => TypeOK
  BY DEF IInv
<1> QED
  BY <1>1, Invariant, PTL

\* As long as other processes keep within this one's map, no call takes it away
\* or gives up, whatever the threads begin, write and end meanwhile, and what a
\* transaction works on is in the map.
THEOREM MapKeptWithin == Spec => []MapKept
<1>1. IInv => MapKept
  BY DEF IInv, NeverResized, VersionFits, MapKept
<1> QED
  BY <1>1, Invariant, PTL

\* openRWTransaction and openROTransaction give up only on a file that grew
\* during each retry.
THEOREM GivingUpJustified == Spec => GivesUpJustified
<1>1. ASSUME IInv, NEW t \in Threads, Throws(t)
      PROVE  grown[t] >= MaxTries - 1
  <2>1. grown[t] >= tries[t]
    BY <1>1 DEF IInv, TriesPaid, Throws, AtBegin
  <2>2. tries[t] + 1 >= MaxTries /\ tries[t] \in Nat /\ grown[t] \in Nat
    BY <1>1, ConstantsAssumption DEF IInv, TypeOK, Throws, MoreTries
  <2> QED
    BY <2>1, <2>2, ConstantsAssumption
<1>2. IInv => [\A t \in Threads : Throws(t) => grown[t] >= MaxTries - 1]_vars
  BY <1>1
<1> QED
  BY <1>2, Invariant, PTL DEF GivesUpJustified
=============================================================================
