------------------------- MODULE EnvRegistryProofs -------------------------
(***************************************************************************)
(* Proofs about EnvRegistry: the registry leads to live environments only, *)
(* and all who hold a file hold one environment of it, for any numbers of  *)
(* threads, names, files, environments and flags.                          *)
(*                                                                         *)
(* The invariants come in four layers, each of which needs one more of the *)
(* uses left out.                                                          *)
(***************************************************************************)
EXTENDS EnvRegistry, TLAPS

NoOutsideRaces == "outside_races" \notin Uses
NoCreateRaces == "create_races" \notin Uses
NoCloseRaces == "close_races" \notin Uses

---------------------------------------------------------------------------
(* The inductive invariants. *)

\* An environment that is being closed has lost its last shared_ptr to one
\* thread, and its entry with it; nobody opens its handle before.
Closing ==
  \A t \in Threads : pc[t] = "closing" =>
    /\ cur[t] \in Envs /\ held[cur[t]] = {} /\ Open(cur[t])
    /\ \A u \in Threads : pc[u] = "closing" /\ cur[u] = cur[t] => u = t

\* One that is made by the call that creates its file is in no entry yet.
Creating ==
  \A t \in Threads : pc[t] = "opened" =>
    /\ cur[t] \in Envs /\ held[cur[t]] = {t}
    /\ \A i \in Files : s_envs[i] # cur[t]
    /\ call[t].key = NoFile

\* No entry's weak_ptr is expired.
EntriesHeld == \A i \in Files : s_envs[i] # NoEnv => held[s_envs[i]] # {}

BaseInv == TypeOK /\ Closing /\ Creating /\ EntriesHeld

\* While no other process interferes, a name denotes the file that stat found,
\* or that the environment was opened on.
NamesStay ==
  \A t \in Threads :
    /\ pc[t] = "stat" /\ call[t].key # NoFile => dir[call[t].name] = call[t].key
    /\ pc[t] = "opened" => dir[call[t].name] = file[cur[t]]

NamedInv == EntriesLive /\ NamesStay

\* No two calls have found the same name without a file, and it stays without
\* until the call makes the file; others may find it then, but the call has the
\* only environment of it until it releases the mutex.
Creators ==
  \A t \in Threads :
    /\ pc[t] = "stat" /\ call[t].key = NoFile =>
         /\ dir[call[t].name] = NoFile
         /\ \A u \in Threads \ {t} :
              pc[u] = "stat" /\ call[u].key = NoFile => call[u].name # call[t].name
    /\ pc[t] = "opened" => \A f \in Envs : file[f] = file[cur[t]] => f = cur[t]

\* An environment that is held is in the registry under its file, but for one
\* that is about to be registered.
Registered ==
  \A e \in Envs : held[e] # {} =>
    s_envs[file[e]] = e \/ \E t \in Threads : pc[t] = "opened" /\ cur[t] = e

SharedInv == Creators /\ Registered

\* Where calls keep clear of the file of a closing environment, an environment
\* that is open and not held is one that no call is about to open again.
ClosesApart ==
  \A t, u \in Threads :
    pc[t] = "closing" /\ pc[u] = "stat" => call[u].key # file[cur[t]]

OpenHeld ==
  \A e \in Envs : Open(e) =>
    held[e] # {} \/ \E t \in Threads : pc[t] = "closing" /\ cur[t] = e

OpenedInv == ClosesApart /\ OpenHeld /\ OpenedOnce

---------------------------------------------------------------------------
(* Every use: types, closing environments, expired entries. *)

LEMMA BaseInit == Init => BaseInv
<1> SUFFICES ASSUME Init
             PROVE  BaseInv
  OBVIOUS
<1>1. TypeOK
  BY ConstantsAssumption DEF Init, TypeOK
<1>2. Closing /\ Creating /\ EntriesHeld
  BY DEF Init, Closing, Creating, EntriesHeld
<1> QED
  BY <1>1, <1>2 DEF BaseInv

LEMMA StatBase ==
  ASSUME BaseInv, NEW t \in Threads, NEW n \in Names, NEW fl \in Flags, Stat(t, n, fl)
  PROVE  BaseInv'
<1> USE DEF Stat
<1>1. TypeOK'
  BY DEF BaseInv, TypeOK, Calls, Open
<1>2. Closing' /\ Creating' /\ EntriesHeld'
  BY DEF BaseInv, TypeOK, Closing, Creating, EntriesHeld, Open
<1> QED
  BY <1>1, <1>2 DEF BaseInv

\* An environment that is not open has no holder and no entry, and is not
\* being closed: opening it disturbs nobody.
LEMMA OpenByNameFresh ==
  ASSUME BaseInv, NEW t \in Threads, NEW e \in Envs, NEW i \in Files, OpenByName(t, e, i)
  PROVE  /\ file[e] = NoFile /\ held[e] = {}
         /\ \A j \in Files : s_envs[j] # e
         /\ \A u \in Threads : pc[u] \in {"opened", "closing"} => cur[u] # e
         /\ dir' \in [Names -> Files \cup {NoFile}]
         /\ file' = [file EXCEPT ![e] = i] /\ held' = [held EXCEPT ![e] = {t}]
         /\ flags' = [flags EXCEPT ![e] = call[t].flags]
<1>1. file[e] = NoFile /\ held[e] = {}
  BY DEF OpenByName, BaseInv, TypeOK, Open
<1>2. \A j \in Files : s_envs[j] # e
  BY <1>1, ConstantsAssumption DEF BaseInv, TypeOK, EntriesHeld
<1>3. \A u \in Threads : pc[u] \in {"opened", "closing"} => cur[u] # e
  BY <1>1 DEF BaseInv, Closing, Creating, Open
<1>4. dir' \in [Names -> Files \cup {NoFile}]
  BY DEF OpenByName, BaseInv, TypeOK
<1> QED
  BY <1>1, <1>2, <1>3, <1>4 DEF OpenByName

LEMMA OpenMissingBase ==
  ASSUME BaseInv, NEW t \in Threads, OpenMissing(t)
  PROVE  BaseInv'
<1> USE DEF OpenMissing
<1>1. PICK e \in Envs, i \in Files : OpenByName(t, e, i) /\ cur' = [cur EXCEPT ![t] = e]
  OBVIOUS
<1>2. /\ file[e] = NoFile /\ held[e] = {}
      /\ \A j \in Files : s_envs[j] # e
      /\ \A u \in Threads : pc[u] \in {"opened", "closing"} => cur[u] # e
      /\ dir' \in [Names -> Files \cup {NoFile}]
      /\ file' = [file EXCEPT ![e] = i] /\ held' = [held EXCEPT ![e] = {t}]
      /\ flags' = [flags EXCEPT ![e] = call[t].flags]
  BY <1>1, OpenByNameFresh
<1>3. \A u \in Threads : pc[u] # "opened"
  BY ConstantsAssumption DEF BaseInv, TypeOK
<1>4. TypeOK'
  BY <1>1, <1>2, <1>3, ConstantsAssumption DEF BaseInv, TypeOK, Calls, Open
<1>5. Closing'
  BY <1>1, <1>2, ConstantsAssumption DEF BaseInv, TypeOK, Closing, Open
<1>6. Creating'
  BY <1>1, <1>2, <1>3, ConstantsAssumption DEF BaseInv, TypeOK, Creating
<1>7. EntriesHeld'
  BY <1>2 DEF BaseInv, TypeOK, EntriesHeld
<1> QED
  BY <1>4, <1>5, <1>6, <1>7 DEF BaseInv

LEMMA RegisterBase ==
  ASSUME BaseInv, NEW t \in Threads, Register(t)
  PROVE  BaseInv'
<1> USE DEF Register, Unlock, Return
<1>1. /\ cur[t] \in Envs /\ held[cur[t]] = {t}
      /\ \A i \in Files : s_envs[i] # cur[t]
  BY DEF BaseInv, Creating
<1>2. \A u \in Threads \ {t} :
        pc'[u] = pc[u] /\ pc[u] # "opened" /\ cur'[u] = cur[u]
          /\ (pc[u] = "closing" => cur[u] # cur[t])
  BY <1>1 DEF BaseInv, TypeOK, Closing
<1>3. pc'[t] = "idle" /\ mut' = NoThread
  BY DEF BaseInv, TypeOK
<1>4. CASE dir[call[t].name] # NoFile
  <2>1. /\ dir[call[t].name] \in Files
        /\ s_envs' = [s_envs EXCEPT ![dir[call[t].name]] = cur[t]]
        /\ UNCHANGED <<file, held>>
    BY <1>4 DEF BaseInv, TypeOK, Calls
  <2>2. TypeOK'
    BY <1>1, <1>2, <1>3, <2>1, ConstantsAssumption DEF BaseInv, TypeOK, Open
  <2>3. Closing' /\ Creating'
    BY <1>2, <1>3, <2>1 DEF BaseInv, TypeOK, Closing, Creating, Open
  <2>4. EntriesHeld'
    BY <1>1, <2>1 DEF BaseInv, TypeOK, EntriesHeld
  <2> QED
    BY <2>2, <2>3, <2>4 DEF BaseInv
<1>5. CASE dir[call[t].name] = NoFile
  <2>1. /\ file' = [file EXCEPT ![cur[t]] = NoFile] /\ held' = [held EXCEPT ![cur[t]] = {}]
        /\ UNCHANGED s_envs
    BY <1>5
  <2>2. TypeOK'
    BY <1>1, <1>2, <1>3, <2>1, ConstantsAssumption DEF BaseInv, TypeOK, Open
  <2>3. Closing' /\ Creating'
    BY <1>1, <1>2, <1>3, <2>1 DEF BaseInv, TypeOK, Closing, Creating, Open
  <2>4. EntriesHeld'
    BY <1>1, <2>1 DEF BaseInv, TypeOK, EntriesHeld
  <2> QED
    BY <2>2, <2>3, <2>4 DEF BaseInv
<1> QED
  BY <1>4, <1>5

LEMMA LookupBase ==
  ASSUME BaseInv, NEW t \in Threads, Lookup(t)
  PROVE  BaseInv'
<1> USE DEF Lookup, Return
<1> DEFINE e == s_envs[call[t].key]
<1>1. e \in Envs /\ held[e] # {}
  BY DEF BaseInv, TypeOK, Calls, EntriesHeld
<1>2. held' = held \/ held' = [held EXCEPT ![e] = @ \cup {t}]
  OBVIOUS
<1>3. \A u \in Threads : pc[u] \in {"opened", "closing"} => cur[u] # e
  BY <1>1, ConstantsAssumption DEF BaseInv, TypeOK, Closing
<1>4. /\ \A u \in Threads : pc[u] # "opened"
      /\ pc' = [pc EXCEPT ![t] = "idle"] /\ cur' = [cur EXCEPT ![t] = NoEnv]
      /\ UNCHANGED <<call, dir, file, flags, s_envs, mut>>
  BY ConstantsAssumption DEF BaseInv, TypeOK
<1> HIDE DEF e, Lookup, Return
<1>5. TypeOK'
  BY <1>1, <1>2, <1>4, ConstantsAssumption DEF BaseInv, TypeOK, Open
<1>6. Closing' /\ Creating'
  BY <1>1, <1>2, <1>3, <1>4 DEF BaseInv, TypeOK, Closing, Creating, Open
<1>7. EntriesHeld'
  BY <1>1, <1>2, <1>4 DEF BaseInv, TypeOK, EntriesHeld
<1> QED
  BY <1>5, <1>6, <1>7 DEF BaseInv

LEMMA OpenFoundBase ==
  ASSUME BaseInv, NEW t \in Threads, OpenFound(t)
  PROVE  BaseInv'
<1> USE DEF OpenFound, Return
<1>1. PICK e \in Envs, i \in Files :
        OpenByName(t, e, i) /\ s_envs' = [s_envs EXCEPT ![call[t].key] = e]
  OBVIOUS
<1>2. /\ file[e] = NoFile /\ held[e] = {}
      /\ \A j \in Files : s_envs[j] # e
      /\ \A u \in Threads : pc[u] \in {"opened", "closing"} => cur[u] # e
      /\ dir' \in [Names -> Files \cup {NoFile}]
      /\ file' = [file EXCEPT ![e] = i] /\ held' = [held EXCEPT ![e] = {t}]
      /\ flags' = [flags EXCEPT ![e] = call[t].flags]
  BY <1>1, OpenByNameFresh
<1>3. \A u \in Threads : pc[u] # "opened"
  BY ConstantsAssumption DEF BaseInv, TypeOK
<1>4. TypeOK'
  BY <1>1, <1>2, <1>3, ConstantsAssumption DEF BaseInv, TypeOK, Calls, Open
<1>5. Closing' /\ Creating'
  BY <1>1, <1>2, <1>3, ConstantsAssumption DEF BaseInv, TypeOK, Closing, Creating, Open
<1>6. EntriesHeld'
  BY <1>1, <1>2 DEF BaseInv, TypeOK, Calls, EntriesHeld
<1> QED
  BY <1>4, <1>5, <1>6 DEF BaseInv

LEMMA OpenFailsBase ==
  ASSUME BaseInv, NEW t \in Threads, OpenFails(t)
  PROVE  BaseInv'
<1> USE DEF OpenFails, Return
<1>1. TypeOK'
  <2>1. dir' \in [Names -> Files \cup {NoFile}]
    BY DEF BaseInv, TypeOK
  <2> QED
    BY <2>1, ConstantsAssumption DEF BaseInv, TypeOK, Open
<1>2. Closing' /\ Creating' /\ EntriesHeld'
  BY DEF BaseInv, TypeOK, Closing, Creating, EntriesHeld, Open
<1> QED
  BY <1>1, <1>2 DEF BaseInv

LEMMA DropBase ==
  ASSUME BaseInv, NEW t \in Threads, NEW e \in Envs, Drop(t, e)
  PROVE  BaseInv'
<1> USE DEF Drop
<1>1. \A u \in Threads : pc[u] \in {"opened", "closing"} => cur[u] # e
  BY DEF BaseInv, Closing, Creating
<1>2. CASE held[e] = {t}
  <2>1. /\ held' = [held EXCEPT ![e] = {}]
        /\ s_envs' = [i \in Files |-> IF s_envs[i] = e THEN NoEnv ELSE s_envs[i]]
        /\ pc' = [pc EXCEPT ![t] = "closing"] /\ cur' = [cur EXCEPT ![t] = e]
        /\ UNCHANGED <<dir, file, flags, mut, call>>
    BY <1>2 DEF Expire, BaseInv, TypeOK
  <2>2. Open(e)
    BY <1>2 DEF BaseInv, TypeOK
  <2> HIDE DEF Drop
  <2>3. pc[t] = "idle"
    BY DEF Drop
  <2>4. TypeOK'
    BY <2>1, <2>3, ConstantsAssumption DEF BaseInv, TypeOK, Open
  <2>5. Closing'
    BY <1>1, <2>1, <2>2 DEF BaseInv, TypeOK, Closing, Open
  <2>6. Creating'
    BY <1>1, <2>1, ConstantsAssumption DEF BaseInv, TypeOK, Creating
  <2>7. EntriesHeld'
    BY <2>1 DEF BaseInv, TypeOK, EntriesHeld
  <2> QED
    BY <2>4, <2>5, <2>6, <2>7 DEF BaseInv
<1>3. CASE held[e] # {t}
  <2>1. /\ held' = [held EXCEPT ![e] = @ \ {t}] /\ held[e] \ {t} # {}
        /\ UNCHANGED <<s_envs, pc, cur, dir, file, flags, mut, call>>
    BY <1>3
  <2> HIDE DEF Drop
  <2>2. TypeOK'
    BY <2>1 DEF BaseInv, TypeOK, Open
  <2>3. Closing' /\ Creating'
    BY <1>1, <2>1 DEF BaseInv, TypeOK, Closing, Creating, Open
  <2>4. EntriesHeld'
    BY <2>1 DEF BaseInv, TypeOK, EntriesHeld
  <2> QED
    BY <2>2, <2>3, <2>4 DEF BaseInv
<1> QED
  BY <1>2, <1>3

LEMMA CloseBase ==
  ASSUME BaseInv, NEW t \in Threads, Close(t)
  PROVE  BaseInv'
<1> USE DEF Close, Return
<1>1. /\ cur[t] \in Envs /\ held[cur[t]] = {}
      /\ \A u \in Threads \ {t} : pc[u] = "closing" => cur[u] # cur[t]
  BY DEF BaseInv, Closing
<1>2. TypeOK'
  BY <1>1, ConstantsAssumption DEF BaseInv, TypeOK, Open
<1>3. Closing' /\ Creating' /\ EntriesHeld'
  BY <1>1 DEF BaseInv, TypeOK, Closing, Creating, EntriesHeld, Open
<1> QED
  BY <1>2, <1>3 DEF BaseInv

LEMMA OutsideBase ==
  ASSUME BaseInv, NEW n \in Names, NEW i \in Files \cup {NoFile}, Outside(n, i)
  PROVE  BaseInv'
BY DEF Outside, callVars, BaseInv, TypeOK, Closing, Creating, EntriesHeld, Open

LEMMA StutterBase ==
  ASSUME BaseInv, UNCHANGED vars
  PROVE  BaseInv'
BY DEF vars, callVars, BaseInv, TypeOK, Closing, Creating, EntriesHeld, Open

LEMMA NextBase ==
  ASSUME BaseInv, [Next]_vars
  PROVE  BaseInv'
<1>1. ASSUME NEW t \in Threads,
             NEW n \in Names, NEW fl \in Flags, Stat(t, n, fl)
      PROVE  BaseInv'
  BY <1>1, StatBase
<1>2. ASSUME NEW t \in Threads, \/ OpenMissing(t) \/ Register(t) \/ Lookup(t)
                                \/ OpenFound(t) \/ OpenFails(t) \/ Close(t)
      PROVE  BaseInv'
  BY <1>2, OpenMissingBase, RegisterBase, LookupBase, OpenFoundBase, OpenFailsBase, CloseBase
<1>3. ASSUME NEW t \in Threads, NEW e \in Envs, Drop(t, e)
      PROVE  BaseInv'
  BY <1>3, DropBase
<1>4. ASSUME NEW n \in Names, NEW i \in Files \cup {NoFile}, Outside(n, i)
      PROVE  BaseInv'
  BY <1>4, OutsideBase
<1>5. CASE UNCHANGED vars
  BY <1>5, StutterBase
<1> QED
  BY <1>1, <1>2, <1>3, <1>4, <1>5 DEF Next

\* Whatever happens at the same time, what is held is open, what is being closed
\* is held by nobody, and no entry's weak_ptr is expired.
THEOREM BaseInvariant == Spec => []BaseInv
<1> QED
  BY BaseInit, NextBase, PTL DEF Spec

\* The variables keep their types, and the mutex is held exactly between the
\* two steps of a call that creates a file, whatever happens at the same time.
THEOREM TypeCorrect == Spec => []TypeOK
<1>1. BaseInv => TypeOK
  BY DEF BaseInv
<1> QED
  BY <1>1, BaseInvariant, PTL

---------------------------------------------------------------------------
(* Who comes to hold an environment. *)

\* Only three steps give a thread a shared_ptr, and only to the caller itself.
LEMMA HoldersGrow ==
  ASSUME BaseInv, [Next]_vars, NEW t \in Threads, NEW e \in Envs, t \in held'[e] \ held[e]
  PROVE  \/ /\ OpenMissing(t) \/ OpenFound(t)
            /\ \E i \in Files : OpenByName(t, e, i)
         \/ Lookup(t) /\ s_envs[call[t].key] = e /\ FlagsMatch(t, e)
<1> USE DEF BaseInv, TypeOK
<1>1. ASSUME NEW u \in Threads, OpenMissing(u) \/ OpenFound(u)
      PROVE  u = t /\ \E i \in Files : OpenByName(t, e, i)
  BY <1>1 DEF OpenMissing, OpenFound, OpenByName
<1>2. ASSUME NEW u \in Threads, Lookup(u)
      PROVE  u = t /\ s_envs[call[t].key] = e /\ FlagsMatch(t, e)
  BY <1>2 DEF Lookup
<1>3. ASSUME NEW u \in Threads, Register(u)
      PROVE  FALSE
  BY <1>3 DEF Register
<1>4. ASSUME NEW u \in Threads, NEW f \in Envs, Drop(u, f)
      PROVE  FALSE
  BY <1>4 DEF Drop
<1>5. CASE UNCHANGED held
  BY <1>5
<1> HIDE DEF BaseInv, TypeOK
<1> QED
  BY <1>1, <1>2, <1>3, <1>4, <1>5
     DEF Next, vars, callVars, Stat, OpenFails, Close, Outside

\* Whatever happens at the same time, a call gets no environment that was made
\* with other flags than it asked for: getMDBEnv throws instead.
THEOREM FlagsAsAsked == Spec => GetsFlagsAsked
<1>1. ASSUME BaseInv, [Next]_vars, NEW t \in Threads, NEW e \in Envs, t \in held'[e] \ held[e]
      PROVE  flags'[e] = call[t].flags
  <2>1. ASSUME NEW i \in Files, OpenByName(t, e, i)
        PROVE  flags'[e] = call[t].flags
    BY <1>1, <2>1 DEF OpenByName, BaseInv, TypeOK
  <2>2. CASE Lookup(t) /\ FlagsMatch(t, e)
    BY <2>2 DEF Lookup, FlagsMatch
  <2> QED
    BY <1>1, <2>1, <2>2, HoldersGrow
<1>2. BaseInv /\ [Next]_vars =>
        [\A t \in Threads, e \in Envs : t \in held'[e] \ held[e] =>
           flags'[e] = call[t].flags]_vars
  BY <1>1
<1> QED
  BY <1>2, BaseInvariant, PTL DEF Spec, GetsFlagsAsked

---------------------------------------------------------------------------
(* Without interference of other processes: files and names. *)

LEMMA NamedInit == Init => NamedInv
BY DEF Init, NamedInv, EntriesLive, NamesStay

\* Given that no entry is expired, EntriesLive is about their files.
LEMMA LiveIfNamed ==
  ASSUME BaseInv', \A i \in Files : s_envs'[i] # NoEnv => file'[s_envs'[i]] = i
  PROVE  EntriesLive'
BY DEF BaseInv, EntriesHeld, EntriesLive

LEMMA OpenMissingNamed ==
  ASSUME BaseInv, BaseInv', NamedInv, NEW t \in Threads, OpenMissing(t)
  PROVE  NamedInv'
<1> USE DEF OpenMissing
<1>1. PICK e \in Envs, i \in Files : OpenByName(t, e, i) /\ cur' = [cur EXCEPT ![t] = e]
  OBVIOUS
<1>2. /\ \A j \in Files : s_envs[j] # e
      /\ dir' = [dir EXCEPT ![call[t].name] = i] /\ file' = [file EXCEPT ![e] = i]
  <2>1. \A j \in Files : s_envs[j] # e
    BY <1>1, OpenByNameFresh
  <2>2. dir' = [dir EXCEPT ![call[t].name] = i]
    BY <1>1 DEF OpenByName, BaseInv, TypeOK
  <2> QED
    BY <1>1, <2>1, <2>2 DEF OpenByName
<1>3. /\ \A u \in Threads : pc[u] # "opened" /\ call[u].name \in Names
      /\ dir[call[t].name] \in {NoFile, i}
  BY <1>1, ConstantsAssumption DEF BaseInv, TypeOK, Calls, OpenByName
<1>4. EntriesLive'
  BY <1>2, LiveIfNamed DEF BaseInv, TypeOK, NamedInv, EntriesLive
<1>5. ASSUME NEW u \in Threads, pc'[u] = "stat", call'[u].key # NoFile
      PROVE  dir'[call'[u].name] = call'[u].key
  BY <1>2, <1>3, <1>5 DEF BaseInv, TypeOK, NamedInv, NamesStay
<1>6. ASSUME NEW u \in Threads, pc'[u] = "opened"
      PROVE  dir'[call'[u].name] = file'[cur'[u]]
  BY <1>1, <1>2, <1>3, <1>6 DEF BaseInv, TypeOK
<1> QED
  BY <1>4, <1>5, <1>6 DEF NamedInv, NamesStay

LEMMA RegisterNamed ==
  ASSUME BaseInv, BaseInv', NamedInv, NEW t \in Threads, Register(t)
  PROVE  NamedInv'
<1> USE DEF Register, Unlock, Return
<1>1. /\ cur[t] \in Envs /\ dir[call[t].name] = file[cur[t]] /\ file[cur[t]] \in Files
      /\ s_envs' = [s_envs EXCEPT ![file[cur[t]]] = cur[t]] /\ UNCHANGED file
  <2>1. cur[t] \in Envs /\ held[cur[t]] # {} /\ dir[call[t].name] = file[cur[t]]
    BY DEF BaseInv, Creating, NamedInv, NamesStay
  <2>2. file[cur[t]] \in Files
    BY <2>1 DEF BaseInv, TypeOK, Open
  <2> QED
    BY <2>1, <2>2, ConstantsAssumption
<1>2. \A u \in Threads : pc'[u] # "opened"
  BY DEF BaseInv, TypeOK
<1>3. EntriesLive'
  BY <1>1, LiveIfNamed DEF BaseInv, TypeOK, NamedInv, EntriesLive
<1>4. NamesStay'
  BY <1>2 DEF BaseInv, TypeOK, NamedInv, NamesStay
<1> QED
  BY <1>3, <1>4 DEF NamedInv

LEMMA OpenFoundNamed ==
  ASSUME BaseInv, BaseInv', NamedInv, NEW t \in Threads, OpenFound(t)
  PROVE  NamedInv'
<1> USE DEF OpenFound, Return
<1>1. PICK e \in Envs, i \in Files :
        OpenByName(t, e, i) /\ s_envs' = [s_envs EXCEPT ![call[t].key] = e]
  OBVIOUS
<1>2. \A j \in Files : s_envs[j] # e
  BY <1>1, OpenByNameFresh
<1>3. i = call[t].key /\ UNCHANGED dir /\ file' = [file EXCEPT ![e] = i]
  BY <1>1 DEF OpenByName, NamedInv, NamesStay
<1>4. \A u \in Threads : pc'[u] # "opened"
  BY ConstantsAssumption DEF BaseInv, TypeOK
<1>5. EntriesLive'
  BY <1>1, <1>2, <1>3, LiveIfNamed DEF BaseInv, TypeOK, NamedInv, EntriesLive
<1>6. NamesStay'
  BY <1>3, <1>4 DEF BaseInv, TypeOK, NamedInv, NamesStay
<1> QED
  BY <1>5, <1>6 DEF NamedInv

LEMMA DropNamed ==
  ASSUME BaseInv, BaseInv', NamedInv, NEW t \in Threads, NEW e \in Envs, Drop(t, e)
  PROVE  NamedInv'
<1> USE DEF Drop, Expire
<1>1. UNCHANGED <<dir, file, call>>
  OBVIOUS
<1>2. \A u \in Threads : pc'[u] \in {"stat", "opened"} => pc'[u] = pc[u] /\ cur'[u] = cur[u]
  BY DEF BaseInv, TypeOK
<1>3. \A i \in Files : s_envs'[i] \in {NoEnv, s_envs[i]}
  BY DEF BaseInv, TypeOK
<1> HIDE DEF Drop, Expire
<1>4. EntriesLive'
  BY <1>1, <1>3, LiveIfNamed DEF NamedInv, EntriesLive
<1>5. NamesStay'
  BY <1>1, <1>2 DEF NamedInv, NamesStay
<1> QED
  BY <1>4, <1>5 DEF NamedInv

LEMMA CloseNamed ==
  ASSUME BaseInv, BaseInv', NamedInv, NEW t \in Threads, Close(t)
  PROVE  NamedInv'
<1> USE DEF Close, Return
<1>1. cur[t] \in Envs /\ held[cur[t]] = {}
  BY DEF BaseInv, Closing
<1>2. \A i \in Files : s_envs[i] # cur[t]
  BY <1>1, ConstantsAssumption DEF BaseInv, EntriesHeld
<1>3. \A u \in Threads : pc'[u] \in {"stat", "opened"} =>
        pc'[u] = pc[u] /\ cur'[u] = cur[u] /\ (pc[u] = "opened" => cur[u] # cur[t])
  <2>1. \A u \in Threads : pc[u] = "opened" => cur[u] # cur[t]
    BY <1>1 DEF BaseInv, Creating
  <2>2. \A u \in Threads : pc'[u] \in {"stat", "opened"} => u # t /\ pc'[u] = pc[u]
    BY DEF BaseInv, TypeOK
  <2>3. \A u \in Threads \ {t} : cur'[u] = cur[u]
    BY DEF BaseInv, TypeOK
  <2> QED
    BY <2>1, <2>2, <2>3
<1>4. EntriesLive'
  BY <1>2, LiveIfNamed DEF BaseInv, TypeOK, NamedInv, EntriesLive
<1>5. NamesStay'
  BY <1>3 DEF BaseInv, TypeOK, NamedInv, NamesStay
<1> QED
  BY <1>4, <1>5 DEF NamedInv

\* A file that is left behind was missing: no other call has found it.
LEMMA OpenFailsNamed ==
  ASSUME BaseInv, BaseInv', NamedInv, NEW t \in Threads, OpenFails(t)
  PROVE  NamedInv'
<1> USE DEF OpenFails, Return
<1>1. \A n \in Names : dir[n] # NoFile => dir'[n] = dir[n]
  BY DEF BaseInv, TypeOK
<1>2. /\ \A u \in Threads : pc[u] # "opened" /\ pc'[u] # "opened" /\ call[u].name \in Names
      /\ \A u \in Threads : pc'[u] = "stat" => pc[u] = "stat"
      /\ UNCHANGED <<file, s_envs, call>>
  BY ConstantsAssumption DEF BaseInv, TypeOK, Calls
<1> HIDE DEF OpenFails, Return
<1>3. EntriesLive'
  BY <1>2, LiveIfNamed DEF NamedInv, EntriesLive
<1>4. NamesStay'
  BY <1>1, <1>2 DEF NamedInv, NamesStay
<1> QED
  BY <1>3, <1>4 DEF NamedInv

LEMMA NextNamed ==
  ASSUME NoOutsideRaces, BaseInv, BaseInv', NamedInv, [Next]_vars
  PROVE  NamedInv'
<1>1. ASSUME NEW t \in Threads, NEW n \in Names, NEW fl \in Flags, Stat(t, n, fl)
      PROVE  NamedInv'
  BY <1>1, LiveIfNamed DEF Stat, BaseInv, TypeOK, NamedInv, EntriesLive, NamesStay
<1>2. ASSUME NEW t \in Threads, Lookup(t)
      PROVE  NamedInv'
  BY <1>2, LiveIfNamed DEF Lookup, Return, BaseInv, TypeOK, NamedInv, EntriesLive, NamesStay
<1>3. ASSUME NEW t \in Threads, \/ OpenMissing(t) \/ Register(t) \/ OpenFound(t)
                                \/ OpenFails(t) \/ Close(t)
      PROVE  NamedInv'
  BY <1>3, OpenMissingNamed, RegisterNamed, OpenFoundNamed, OpenFailsNamed, CloseNamed
<1>4. ASSUME NEW t \in Threads, NEW e \in Envs, Drop(t, e)
      PROVE  NamedInv'
  BY <1>4, DropNamed
<1>5. ASSUME NEW n \in Names, NEW i \in Files \cup {NoFile}, Outside(n, i)
      PROVE  NamedInv'
  BY <1>5 DEF Outside, callVars, NoOutsideRaces, NamedInv, EntriesLive, NamesStay
<1>6. CASE UNCHANGED vars
  BY <1>6 DEF vars, callVars, NamedInv, EntriesLive, NamesStay
<1> QED
  BY <1>1, <1>2, <1>3, <1>4, <1>5, <1>6 DEF Next

THEOREM NamedInvariant ==
  ASSUME NoOutsideRaces
  PROVE  Spec => []NamedInv
<1>1. BaseInv /\ BaseInv' /\ NamedInv /\ [Next]_vars => NamedInv'
  BY NextNamed
<1> QED
  BY NamedInit, <1>1, BaseInvariant, PTL DEF Spec

\* Where no other process replaces a file during a call, no entry leads to an
\* environment that is closing or closed, or to one of another file.
THEOREM EntriesAreLive ==
  ASSUME NoOutsideRaces
  PROVE  Spec => []EntriesLive
<1>1. NamedInv => EntriesLive
  BY DEF NamedInv
<1> QED
  BY <1>1, NamedInvariant, PTL

\* Nor does a call get an environment of another file than its name denotes.
THEOREM FileAsAsked ==
  ASSUME NoOutsideRaces
  PROVE  Spec => GetsFileAsked
<1>1. ASSUME BaseInv, NamedInv, [Next]_vars,
             NEW t \in Threads, NEW e \in Envs, t \in held'[e] \ held[e]
      PROVE  file'[e] = dir'[call[t].name]
  <2>1. call[t].name \in Names
    BY <1>1 DEF BaseInv, TypeOK, Calls
  <2>2. ASSUME NEW i \in Files, OpenByName(t, e, i)
        PROVE  file'[e] = dir'[call[t].name]
    BY <1>1, <2>1, <2>2 DEF OpenByName, BaseInv, TypeOK
  <2>3. CASE Lookup(t) /\ s_envs[call[t].key] = e
    BY <1>1, <2>1, <2>3 DEF Lookup, Calls, BaseInv, TypeOK, NamedInv, EntriesLive, NamesStay
  <2> QED
    BY <1>1, <2>2, <2>3, HoldersGrow
<1>2. BaseInv /\ NamedInv /\ [Next]_vars =>
        [\A t \in Threads, e \in Envs : t \in held'[e] \ held[e] =>
           file'[e] = dir'[call[t].name]]_vars
  BY <1>1
<1> QED
  BY <1>2, BaseInvariant, NamedInvariant, PTL DEF Spec, GetsFileAsked

---------------------------------------------------------------------------
(* Without calls that race to create a file either: one environment a file. *)

LEMMA SharedInit == Init => SharedInv
BY DEF Init, SharedInv, Creators, Registered

LEMMA StatShared ==
  ASSUME NoCreateRaces, BaseInv, SharedInv,
         NEW t \in Threads, NEW n \in Names, NEW fl \in Flags, Stat(t, n, fl)
  PROVE  SharedInv'
<1> USE DEF Stat
<1>1. dir[n] = NoFile =>
        \A u \in Threads : ~(pc[u] = "stat" /\ call[u].name = n /\ call[u].key = NoFile)
  BY DEF NoCreateRaces
<1>2. /\ pc[t] = "idle" /\ pc'[t] = "stat" /\ call'[t].key = dir[n] /\ call'[t].name = n
      /\ \A u \in Threads \ {t} : pc'[u] = pc[u] /\ call'[u] = call[u]
      /\ UNCHANGED <<dir, file, held, s_envs, cur>>
  BY DEF BaseInv, TypeOK
<1> HIDE DEF Stat
<1>3. ASSUME NEW u \in Threads, pc'[u] = "stat", call'[u].key = NoFile
      PROVE  /\ dir'[call'[u].name] = NoFile
             /\ \A v \in Threads \ {u} :
                  pc'[v] = "stat" /\ call'[v].key = NoFile => call'[v].name # call'[u].name
  <2>1. CASE u = t
    BY <1>1, <1>2, <1>3, <2>1
  <2>2. CASE u # t
    BY <1>1, <1>2, <1>3, <2>2 DEF SharedInv, Creators
  <2> QED
    BY <2>1, <2>2
<1>4. ASSUME NEW u \in Threads, pc'[u] = "opened"
      PROVE  \A f \in Envs : file'[f] = file'[cur'[u]] => f = cur'[u]
  BY <1>2, <1>4 DEF SharedInv, Creators
<1>5. Registered'
  BY <1>2 DEF SharedInv, Registered
<1> QED
  BY <1>3, <1>4, <1>5 DEF SharedInv, Creators

LEMMA OpenMissingShared ==
  ASSUME BaseInv, SharedInv, NEW t \in Threads, OpenMissing(t)
  PROVE  SharedInv'
<1> USE DEF OpenMissing
<1>1. PICK e \in Envs, i \in Files : OpenByName(t, e, i) /\ cur' = [cur EXCEPT ![t] = e]
  OBVIOUS
<1>2. /\ dir[call[t].name] = NoFile
      /\ \A u \in Threads \ {t} :
           pc[u] = "stat" /\ call[u].key = NoFile => call[u].name # call[t].name
  BY DEF SharedInv, Creators
<1>3. \A f \in Envs : file[f] # i
  BY <1>1, <1>2 DEF OpenByName, FreeFile
<1>4. /\ file' = [file EXCEPT ![e] = i] /\ held' = [held EXCEPT ![e] = {t}]
      /\ dir' = [dir EXCEPT ![call[t].name] = i]
      /\ pc' = [pc EXCEPT ![t] = "opened"] /\ UNCHANGED <<s_envs, call>>
  BY <1>1, <1>2 DEF OpenByName
<1>5. \A u \in Threads : pc[u] # "opened"
  BY ConstantsAssumption DEF BaseInv, TypeOK
<1>6. ASSUME NEW u \in Threads, pc'[u] = "stat", call'[u].key = NoFile
      PROVE  /\ dir'[call'[u].name] = NoFile
             /\ \A v \in Threads \ {u} :
                  pc'[v] = "stat" /\ call'[v].key = NoFile => call'[v].name # call'[u].name
  <2>1. u # t /\ pc[u] = "stat" /\ call[u].key = NoFile /\ call[u].name \in Names
    BY <1>4, <1>6 DEF BaseInv, TypeOK, Calls
  <2>2. dir[call[u].name] = NoFile /\ call[u].name # call[t].name
    BY <1>2, <2>1 DEF SharedInv, Creators
  <2>3. dir'[call'[u].name] = NoFile
    BY <1>4, <2>1, <2>2 DEF BaseInv, TypeOK
  <2>4. \A v \in Threads \ {u} : pc'[v] = "stat" => pc[v] = "stat"
    BY <1>4 DEF BaseInv, TypeOK
  <2> QED
    BY <1>4, <2>1, <2>3, <2>4 DEF SharedInv, Creators
<1>7. ASSUME NEW u \in Threads, pc'[u] = "opened"
      PROVE  \A f \in Envs : file'[f] = file'[cur'[u]] => f = cur'[u]
  <2>1. u = t /\ cur'[t] = e
    BY <1>1, <1>4, <1>5, <1>7 DEF BaseInv, TypeOK
  <2> QED
    BY <1>3, <1>4, <2>1 DEF BaseInv, TypeOK
<1>8. Registered'
  BY <1>1, <1>4, <1>5 DEF BaseInv, TypeOK, SharedInv, Registered
<1> QED
  BY <1>6, <1>7, <1>8 DEF SharedInv, Creators

\* What is between stat and its return changes no file, and no opened call is
\* left: the calls that found no file stay apart.
LEMMA CreatorsKept ==
  ASSUME SharedInv, UNCHANGED <<dir, call>>,
         \A u \in Threads : pc'[u] = "stat" => pc[u] = "stat",
         \A u \in Threads : pc'[u] # "opened"
  PROVE  Creators'
BY DEF SharedInv, Creators

\* The new environment is the only one of its file: no entry is overwritten.
LEMMA RegisterShared ==
  ASSUME BaseInv, NamedInv, SharedInv, NEW t \in Threads, Register(t)
  PROVE  SharedInv'
<1> USE DEF Register, Unlock, Return
<1>1. /\ cur[t] \in Envs /\ held[cur[t]] # {} /\ dir[call[t].name] = file[cur[t]]
      /\ \A f \in Envs : file[f] = file[cur[t]] => f = cur[t]
  BY DEF BaseInv, Creating, NamedInv, NamesStay, SharedInv, Creators
<1>2. file[cur[t]] \in Files
  BY <1>1 DEF BaseInv, TypeOK, Open
<1>3. s_envs' = [s_envs EXCEPT ![file[cur[t]]] = cur[t]] /\ UNCHANGED <<dir, call, file, held>>
  BY <1>1, <1>2, ConstantsAssumption
<1>4. \A u \in Threads : pc[u] = "opened" => u = t
  BY DEF BaseInv, TypeOK
<1>5. \A u \in Threads : pc'[u] # "opened" /\ (pc'[u] = "stat" => pc[u] = "stat")
  BY <1>4 DEF BaseInv, TypeOK
<1>6. Creators'
  BY <1>3, <1>5, CreatorsKept
<1>7. ASSUME NEW e \in Envs, held'[e] # {}
      PROVE  s_envs'[file'[e]] = e
  <2>1. CASE e = cur[t]
    BY <1>2, <1>3, <2>1 DEF BaseInv, TypeOK
  <2>2. CASE e # cur[t]
    <3>1. s_envs[file[e]] = e /\ file[e] # file[cur[t]]
      BY <1>1, <1>3, <1>4, <1>7, <2>2 DEF SharedInv, Registered
    <3> QED
      BY <1>3, <3>1 DEF BaseInv, TypeOK
  <2> QED
    BY <2>1, <2>2
<1> QED
  BY <1>6, <1>7 DEF SharedInv, Registered

LEMMA LookupShared ==
  ASSUME BaseInv, NamedInv, SharedInv, NEW t \in Threads, Lookup(t)
  PROVE  SharedInv'
<1> USE DEF Lookup, Return
<1> DEFINE e == s_envs[call[t].key]
<1>1. e \in Envs /\ call[t].key \in Files /\ file[e] = call[t].key
  BY DEF BaseInv, TypeOK, Calls, NamedInv, EntriesLive
<1>2. \A f \in Envs \ {e} : held'[f] = held[f]
  BY DEF BaseInv, TypeOK
<1>3. \A u \in Threads :
        pc[u] # "opened" /\ pc'[u] # "opened" /\ (pc'[u] = "stat" => pc[u] = "stat")
  BY ConstantsAssumption DEF BaseInv, TypeOK
<1>4. Creators'
  BY <1>3, CreatorsKept
<1>5. Registered'
  BY <1>1, <1>2, <1>3 DEF SharedInv, Registered
<1> QED
  BY <1>4, <1>5 DEF SharedInv

\* A file without an entry has no environment that is held.
LEMMA OpenFoundShared ==
  ASSUME BaseInv, NamedInv, SharedInv, NEW t \in Threads, OpenFound(t)
  PROVE  SharedInv'
<1> USE DEF OpenFound, Return
<1>1. PICK e \in Envs, i \in Files :
        OpenByName(t, e, i) /\ s_envs' = [s_envs EXCEPT ![call[t].key] = e]
  OBVIOUS
<1>2. /\ i = call[t].key /\ s_envs[i] = NoEnv /\ UNCHANGED <<dir, call>>
      /\ file' = [file EXCEPT ![e] = i] /\ held' = [held EXCEPT ![e] = {t}]
  BY <1>1 DEF OpenByName, NamedInv, NamesStay
<1>3. \A u \in Threads :
        pc[u] # "opened" /\ pc'[u] # "opened" /\ (pc'[u] = "stat" => pc[u] = "stat")
  BY ConstantsAssumption DEF BaseInv, TypeOK
<1>4. Creators'
  BY <1>2, <1>3, CreatorsKept
<1>5. ASSUME NEW f \in Envs, held'[f] # {}
      PROVE  s_envs'[file'[f]] = f
  <2>1. CASE f = e
    BY <1>1, <1>2, <2>1 DEF BaseInv, TypeOK
  <2>2. CASE f # e
    <3>1. s_envs[file[f]] = f /\ file'[f] = file[f]
      BY <1>2, <1>3, <1>5, <2>2 DEF BaseInv, TypeOK, SharedInv, Registered
    <3>2. file[f] # i
      BY <1>2, <3>1, ConstantsAssumption
    <3> QED
      BY <1>1, <1>2, <3>1, <3>2 DEF BaseInv, TypeOK
  <2> QED
    BY <2>1, <2>2
<1> QED
  BY <1>4, <1>5 DEF SharedInv, Registered

\* Who leaves a file behind was the only one that found its name without one.
LEMMA OpenFailsShared ==
  ASSUME BaseInv, NamedInv, SharedInv, NEW t \in Threads, OpenFails(t)
  PROVE  SharedInv'
<1> USE DEF OpenFails, Return
<1>1. \A n \in Names \ {call[t].name} : dir'[n] = dir[n]
  BY DEF BaseInv, TypeOK
<1>2. call[t].key # NoFile => UNCHANGED dir
  BY DEF NamedInv, NamesStay
<1>3. /\ \A u \in Threads : pc[u] # "opened" /\ pc'[u] # "opened"
      /\ \A u \in Threads : pc'[u] = "stat" => u # t /\ pc[u] = "stat"
      /\ UNCHANGED <<file, held, s_envs, call>>
      /\ pc[t] = "stat"
  BY ConstantsAssumption DEF BaseInv, TypeOK
<1> HIDE DEF OpenFails, Return
<1>4. ASSUME NEW u \in Threads, pc'[u] = "stat", call'[u].key = NoFile
      PROVE  /\ dir'[call'[u].name] = NoFile
             /\ \A v \in Threads \ {u} :
                  pc'[v] = "stat" /\ call'[v].key = NoFile => call'[v].name # call'[u].name
  <2>1. /\ dir[call[u].name] = NoFile /\ call[u].name \in Names
        /\ call[t].key = NoFile => call[u].name # call[t].name
    BY <1>3, <1>4 DEF SharedInv, Creators, BaseInv, TypeOK, Calls
  <2>2. dir'[call'[u].name] = NoFile
    BY <1>1, <1>2, <1>3, <2>1
  <2> QED
    BY <1>3, <1>4, <2>2 DEF SharedInv, Creators
<1>5. Creators'
  BY <1>3, <1>4 DEF Creators
<1>6. Registered'
  BY <1>3 DEF SharedInv, Registered
<1> QED
  BY <1>5, <1>6 DEF SharedInv

LEMMA DropShared ==
  ASSUME BaseInv, SharedInv, NEW t \in Threads, NEW e \in Envs, Drop(t, e)
  PROVE  SharedInv'
<1> USE DEF Drop, Expire
<1>1. \A u \in Threads : pc'[u] \in {"stat", "opened"} \/ pc[u] \in {"stat", "opened"} =>
        u # t /\ pc'[u] = pc[u] /\ cur'[u] = cur[u]
  BY DEF BaseInv, TypeOK
<1>2. /\ \A f \in Envs : held'[f] # {} => held[f] # {}
      /\ \A f \in Envs, i \in Files : held'[f] # {} /\ s_envs[i] = f => s_envs'[i] = f
  BY DEF BaseInv, TypeOK
<1>3. UNCHANGED <<dir, file, call>>
  OBVIOUS
<1> HIDE DEF Drop, Expire
<1>4. Creators'
  BY <1>1, <1>3 DEF SharedInv, Creators
<1>5. ASSUME NEW f \in Envs, held'[f] # {}
      PROVE  s_envs'[file'[f]] = f \/ \E u \in Threads : pc'[u] = "opened" /\ cur'[u] = f
  <2>1. held[f] # {} /\ file[f] \in Files
    BY <1>2, <1>5 DEF BaseInv, TypeOK, Open
  <2>2. CASE s_envs[file[f]] = f
    BY <1>2, <1>3, <1>5, <2>1, <2>2
  <2>3. CASE \E u \in Threads : pc[u] = "opened" /\ cur[u] = f
    BY <1>1, <2>3
  <2> QED
    BY <2>1, <2>2, <2>3 DEF SharedInv, Registered
<1> QED
  BY <1>4, <1>5 DEF SharedInv, Registered

LEMMA CloseShared ==
  ASSUME BaseInv, SharedInv, NEW t \in Threads, Close(t)
  PROVE  SharedInv'
<1> USE DEF Close, Return
<1>1. cur[t] \in Envs /\ held[cur[t]] = {}
  BY DEF BaseInv, Closing
<1>2. \A u \in Threads : pc'[u] \in {"stat", "opened"} \/ pc[u] \in {"stat", "opened"} =>
        u # t /\ pc'[u] = pc[u] /\ cur'[u] = cur[u]
  BY DEF BaseInv, TypeOK
<1>3. \A u \in Threads : pc[u] = "opened" =>
        cur[u] \in Envs /\ cur[u] # cur[t] /\ file[cur[u]] # NoFile
  BY <1>1 DEF BaseInv, TypeOK, Creating, Open
<1>4. /\ file' = [file EXCEPT ![cur[t]] = NoFile]
      /\ UNCHANGED <<dir, call, held, s_envs>>
  OBVIOUS
<1> HIDE DEF Close, Return
<1>5. ASSUME NEW u \in Threads, pc'[u] = "opened", NEW f \in Envs, file'[f] = file'[cur'[u]]
      PROVE  f = cur'[u]
  <2>1. \A g \in Envs : file[g] = file[cur[u]] => g = cur[u]
    BY <1>2, <1>5 DEF SharedInv, Creators
  <2> QED
    BY <1>1, <1>2, <1>3, <1>4, <1>5, <2>1 DEF BaseInv, TypeOK
<1>6. Creators'
  BY <1>2, <1>4, <1>5 DEF SharedInv, Creators
<1>7. Registered'
  BY <1>1, <1>2, <1>4 DEF BaseInv, TypeOK, SharedInv, Registered
<1> QED
  BY <1>6, <1>7 DEF SharedInv

LEMMA NextShared ==
  ASSUME NoOutsideRaces, NoCreateRaces, BaseInv, NamedInv, SharedInv, [Next]_vars
  PROVE  SharedInv'
<1>1. ASSUME NEW t \in Threads, NEW n \in Names, NEW fl \in Flags, Stat(t, n, fl)
      PROVE  SharedInv'
  BY <1>1, StatShared
<1>2. ASSUME NEW t \in Threads, OpenMissing(t) \/ Register(t) \/ Close(t)
      PROVE  SharedInv'
  BY <1>2, OpenMissingShared, RegisterShared, CloseShared
<1>3. ASSUME NEW t \in Threads, Lookup(t) \/ OpenFound(t) \/ OpenFails(t)
      PROVE  SharedInv'
  BY <1>3, LookupShared, OpenFoundShared, OpenFailsShared
<1>4. ASSUME NEW t \in Threads, NEW e \in Envs, Drop(t, e)
      PROVE  SharedInv'
  BY <1>4, DropShared
<1>5. ASSUME NEW n \in Names, NEW i \in Files \cup {NoFile}, Outside(n, i)
      PROVE  SharedInv'
  BY <1>5 DEF Outside, callVars, NoOutsideRaces, SharedInv, Creators, Registered
<1>6. CASE UNCHANGED vars
  BY <1>6 DEF vars, callVars, SharedInv, Creators, Registered
<1> QED
  BY <1>1, <1>2, <1>3, <1>4, <1>5, <1>6 DEF Next

THEOREM SharedInvariant ==
  ASSUME NoOutsideRaces, NoCreateRaces
  PROVE  Spec => []SharedInv
<1>1. BaseInv /\ NamedInv /\ SharedInv /\ [Next]_vars => SharedInv'
  BY NextShared
<1> QED
  BY SharedInit, <1>1, BaseInvariant, NamedInvariant, PTL DEF Spec

\* All who hold an environment of a file hold the same one, where no two calls
\* that found no file of one name are under way at once.  A call may find the
\* file that another has just made and wait for the mutex, calls may create
\* files of other names, and environments may be closed at the same time.
THEOREM EnvironmentsShared ==
  ASSUME NoOutsideRaces, NoCreateRaces
  PROVE  Spec => []SameEnvironment
<1>1. ASSUME BaseInv, SharedInv,
             NEW e \in Envs, NEW f \in Envs, held[e] # {}, held[f] # {}, file[e] = file[f]
      PROVE  e = f
  <2>1. CASE s_envs[file[e]] = e /\ s_envs[file[f]] = f
    BY <1>1, <2>1
  <2>2. ASSUME NEW t \in Threads, pc[t] = "opened", cur[t] \in {e, f}
        PROVE  e = f
    BY <1>1, <2>2 DEF SharedInv, Creators
  <2> QED
    BY <1>1, <2>1, <2>2 DEF SharedInv, Registered
<1>2. BaseInv /\ SharedInv => SameEnvironment
  BY <1>1 DEF SameEnvironment
<1> QED
  BY <1>2, BaseInvariant, SharedInvariant, PTL

---------------------------------------------------------------------------
(* Without calls for a file whose environment is being closed: no file is  *)
(* open twice.                                                             *)

LEMMA OpenedInit == Init => OpenedInv
BY DEF Init, OpenedInv, ClosesApart, OpenHeld, OpenedOnce, Open

\* An environment that is opened is none of those being closed: they keep their
\* files, and the closing threads go on.
LEMMA OpenKeepsClosing ==
  ASSUME BaseInv, NEW t \in Threads, NEW e \in Envs, NEW i \in Files, OpenByName(t, e, i),
         pc[t] = "stat", pc'[t] # "stat", pc'[t] # "closing",
         \A u \in Threads \ {t} : pc'[u] = pc[u] /\ cur'[u] = cur[u],
         UNCHANGED call
  PROVE  /\ file' = [file EXCEPT ![e] = i] /\ held' = [held EXCEPT ![e] = {t}]
         /\ OpenedInv => ClosesApart' /\ OpenHeld'
<1>1. /\ file' = [file EXCEPT ![e] = i] /\ held' = [held EXCEPT ![e] = {t}]
      /\ \A u \in Threads : pc[u] = "closing" => u # t /\ cur[u] \in Envs /\ cur[u] # e
  BY OpenByNameFresh DEF BaseInv, Closing
<1>2. OpenedInv => ClosesApart'
  BY <1>1 DEF BaseInv, TypeOK, OpenedInv, ClosesApart
<1>3. ASSUME OpenedInv, NEW f \in Envs, file'[f] # NoFile
      PROVE  held'[f] # {} \/ \E u \in Threads : pc'[u] = "closing" /\ cur'[u] = f
  <2>1. CASE f = e
    BY <1>1, <2>1 DEF BaseInv, TypeOK
  <2>2. CASE f # e
    <3>1. file[f] # NoFile /\ held'[f] = held[f]
      BY <1>1, <1>3, <2>2 DEF BaseInv, TypeOK
    <3>2. CASE held[f] # {}
      BY <3>1, <3>2
    <3>3. ASSUME NEW u \in Threads, pc[u] = "closing", cur[u] = f
          PROVE  pc'[u] = "closing" /\ cur'[u] = f
      BY <3>3
    <3> QED
      BY <1>3, <3>1, <3>2, <3>3 DEF OpenedInv, OpenHeld, Open
  <2> QED
    BY <2>1, <2>2
<1> QED
  BY <1>1, <1>2, <1>3 DEF OpenHeld, Open

LEMMA OpenMissingOpened ==
  ASSUME BaseInv, SharedInv, OpenedInv, NEW t \in Threads, OpenMissing(t)
  PROVE  OpenedInv'
<1> USE DEF OpenMissing
<1>1. PICK e \in Envs, i \in Files : OpenByName(t, e, i) /\ cur' = [cur EXCEPT ![t] = e]
  OBVIOUS
<1>2. /\ pc[t] = "stat" /\ pc'[t] = "opened" /\ UNCHANGED call
      /\ \A u \in Threads \ {t} : pc'[u] = pc[u] /\ cur'[u] = cur[u]
      /\ \A f \in Envs : file[f] # i
  BY <1>1 DEF BaseInv, TypeOK, OpenByName, FreeFile, SharedInv, Creators
<1> HIDE DEF OpenMissing
<1>3. file' = [file EXCEPT ![e] = i] /\ ClosesApart' /\ OpenHeld'
  BY <1>1, <1>2, OpenKeepsClosing
<1>4. OpenedOnce'
  BY <1>2, <1>3 DEF BaseInv, TypeOK, OpenedInv, OpenedOnce, Open
<1> QED
  BY <1>3, <1>4 DEF OpenedInv

LEMMA OpenFoundOpened ==
  ASSUME BaseInv, NamedInv, SharedInv, OpenedInv, NEW t \in Threads, OpenFound(t)
  PROVE  OpenedInv'
<1> USE DEF OpenFound, Return
<1>1. PICK e \in Envs, i \in Files :
        OpenByName(t, e, i) /\ s_envs' = [s_envs EXCEPT ![call[t].key] = e]
  OBVIOUS
<1>2. /\ i = call[t].key /\ s_envs[i] = NoEnv
      /\ pc[t] = "stat" /\ pc'[t] = "idle" /\ UNCHANGED call
      /\ \A u \in Threads \ {t} : pc'[u] = pc[u] /\ cur'[u] = cur[u]
  BY <1>1 DEF OpenByName, NamedInv, NamesStay, BaseInv, TypeOK
<1>3. \A u \in Threads : pc[u] # "opened"
  BY ConstantsAssumption DEF BaseInv, TypeOK
<1> HIDE DEF OpenFound, Return
<1>4. \A f \in Envs : file[f] # i
  <2> SUFFICES ASSUME NEW f \in Envs, file[f] = i
               PROVE  FALSE
    OBVIOUS
  <2>1. \A u \in Threads : pc[u] = "closing" => cur[u] # f
    BY <1>2 DEF OpenedInv, ClosesApart
  <2>2. held[f] # {}
    BY <2>1, ConstantsAssumption DEF OpenedInv, OpenHeld, Open
  <2>3. s_envs[i] = f
    BY <1>3, <2>2 DEF SharedInv, Registered
  <2> QED
    BY <1>2, <2>3, ConstantsAssumption
<1>5. file' = [file EXCEPT ![e] = i] /\ ClosesApart' /\ OpenHeld'
  BY <1>1, <1>2, OpenKeepsClosing
<1>6. OpenedOnce'
  BY <1>4, <1>5 DEF BaseInv, TypeOK, OpenedInv, OpenedOnce, Open
<1> QED
  BY <1>5, <1>6 DEF OpenedInv

LEMMA RegisterOpened ==
  ASSUME BaseInv, OpenedInv, NEW t \in Threads, Register(t)
  PROVE  OpenedInv'
<1> USE DEF Register, Return
<1>1. cur[t] \in Envs /\ held[cur[t]] = {t}
  BY DEF BaseInv, Creating
<1>2. /\ pc[t] = "opened" /\ pc'[t] = "idle" /\ UNCHANGED call
      /\ \A u \in Threads \ {t} : pc'[u] = pc[u] /\ cur'[u] = cur[u]
      /\ \A u \in Threads : pc[u] = "closing" => cur[u] \in Envs /\ cur[u] # cur[t]
  BY <1>1 DEF BaseInv, TypeOK, Closing
<1>3. \/ UNCHANGED <<file, held>>
      \/ /\ file' = [file EXCEPT ![cur[t]] = NoFile]
         /\ held' = [held EXCEPT ![cur[t]] = {}]
  OBVIOUS
<1> HIDE DEF Register, Return
<1>4. ClosesApart'
  BY <1>1, <1>2, <1>3 DEF BaseInv, TypeOK, OpenedInv, ClosesApart
<1>5. OpenHeld'
  BY <1>1, <1>2, <1>3 DEF BaseInv, TypeOK, OpenedInv, OpenHeld, Open
<1>6. OpenedOnce'
  BY <1>1, <1>3 DEF BaseInv, TypeOK, OpenedInv, OpenedOnce, Open
<1> QED
  BY <1>4, <1>5, <1>6 DEF OpenedInv

LEMMA LookupOpened ==
  ASSUME BaseInv, OpenedInv, NEW t \in Threads, Lookup(t) \/ OpenFails(t)
  PROVE  OpenedInv'
<1> USE DEF Lookup, OpenFails, Return
<1>1. /\ pc[t] = "stat" /\ pc'[t] = "idle"
      /\ \A u \in Threads \ {t} : pc'[u] = pc[u] /\ cur'[u] = cur[u]
  BY DEF BaseInv, TypeOK
<1>2. \A e \in Envs : held[e] # {} => held'[e] # {}
  BY DEF BaseInv, TypeOK
<1>3. UNCHANGED <<file, call>>
  OBVIOUS
<1> HIDE DEF Lookup, OpenFails, Return
<1>4. ClosesApart'
  BY <1>1, <1>3 DEF OpenedInv, ClosesApart
<1>5. OpenHeld'
  BY <1>1, <1>2, <1>3 DEF OpenedInv, OpenHeld, Open
<1>6. OpenedOnce'
  BY <1>3 DEF OpenedInv, OpenedOnce, Open
<1> QED
  BY <1>4, <1>5, <1>6 DEF OpenedInv

LEMMA DropOpened ==
  ASSUME NoCloseRaces, BaseInv, OpenedInv, NEW t \in Threads, NEW e \in Envs, Drop(t, e)
  PROVE  OpenedInv'
<1> USE DEF Drop
<1>1. UNCHANGED <<file, call>> /\ pc[t] = "idle"
  OBVIOUS
<1>2. CASE held[e] = {t}
  <2>1. /\ \A u \in Threads : pc[u] = "stat" => call[u].key # file[e]
        /\ pc' = [pc EXCEPT ![t] = "closing"] /\ cur' = [cur EXCEPT ![t] = e]
        /\ \A f \in Envs \ {e} : held'[f] = held[f]
    BY <1>2 DEF NoCloseRaces, BaseInv, TypeOK
  <2> HIDE DEF Drop
  <2>2. ClosesApart'
    BY <1>1, <2>1 DEF BaseInv, TypeOK, OpenedInv, ClosesApart
  <2>3. OpenHeld'
    BY <1>1, <2>1 DEF BaseInv, TypeOK, OpenedInv, OpenHeld, Open
  <2> QED
    BY <1>1, <2>2, <2>3 DEF OpenedInv, OpenedOnce, Open
<1>3. CASE held[e] # {t}
  <2>1. /\ \A f \in Envs : held[f] # {} => held'[f] # {}
        /\ UNCHANGED <<pc, cur>>
    BY <1>3 DEF BaseInv, TypeOK
  <2> HIDE DEF Drop
  <2> QED
    BY <1>1, <2>1 DEF OpenedInv, ClosesApart, OpenHeld, OpenedOnce, Open
<1> QED
  BY <1>2, <1>3

LEMMA CloseOpened ==
  ASSUME BaseInv, OpenedInv, NEW t \in Threads, Close(t)
  PROVE  OpenedInv'
<1> USE DEF Close, Return
<1>1. /\ cur[t] \in Envs
      /\ \A u \in Threads \ {t} : pc[u] = "closing" => cur[u] \in Envs /\ cur[u] # cur[t]
  BY DEF BaseInv, Closing
<1>2. /\ pc'[t] = "idle"
      /\ \A u \in Threads \ {t} : pc'[u] = pc[u] /\ cur'[u] = cur[u]
  BY DEF BaseInv, TypeOK
<1>3. file' = [file EXCEPT ![cur[t]] = NoFile] /\ UNCHANGED <<held, call>>
  OBVIOUS
<1> HIDE DEF Close, Return
<1>4. ClosesApart'
  BY <1>1, <1>2, <1>3 DEF BaseInv, TypeOK, OpenedInv, ClosesApart
<1>5. OpenHeld'
  BY <1>1, <1>2, <1>3 DEF BaseInv, TypeOK, OpenedInv, OpenHeld, Open
<1>6. OpenedOnce'
  BY <1>1, <1>3 DEF BaseInv, TypeOK, OpenedInv, OpenedOnce, Open
<1> QED
  BY <1>4, <1>5, <1>6 DEF OpenedInv

LEMMA StatOpened ==
  ASSUME NoCloseRaces, BaseInv, OpenedInv,
         NEW t \in Threads, NEW n \in Names, NEW fl \in Flags, Stat(t, n, fl)
  PROVE  OpenedInv'
<1> USE DEF Stat
<1>1. \A u \in Threads : pc[u] = "closing" => dir[n] # file[cur[u]]
  BY DEF NoCloseRaces, BaseInv, Closing, Open
<1>2. /\ pc[t] = "idle" /\ pc'[t] = "stat" /\ call'[t].key = dir[n]
      /\ \A u \in Threads \ {t} : pc'[u] = pc[u] /\ call'[u] = call[u]
      /\ UNCHANGED <<file, held, cur>>
  BY DEF BaseInv, TypeOK
<1> HIDE DEF Stat
<1>3. ClosesApart'
  BY <1>1, <1>2 DEF OpenedInv, ClosesApart
<1>4. OpenHeld' /\ OpenedOnce'
  BY <1>2 DEF OpenedInv, OpenHeld, OpenedOnce, Open
<1> QED
  BY <1>3, <1>4 DEF OpenedInv

LEMMA NextOpened ==
  ASSUME NoOutsideRaces, NoCreateRaces, NoCloseRaces,
         BaseInv, NamedInv, SharedInv, OpenedInv, [Next]_vars
  PROVE  OpenedInv'
<1>1. ASSUME NEW t \in Threads, NEW n \in Names, NEW fl \in Flags, Stat(t, n, fl)
      PROVE  OpenedInv'
  BY <1>1, StatOpened
<1>2. ASSUME NEW t \in Threads, OpenMissing(t) \/ Register(t) \/ Close(t)
      PROVE  OpenedInv'
  BY <1>2, OpenMissingOpened, RegisterOpened, CloseOpened
<1>3. ASSUME NEW t \in Threads, Lookup(t) \/ OpenFound(t) \/ OpenFails(t)
      PROVE  OpenedInv'
  BY <1>3, LookupOpened, OpenFoundOpened
<1>4. ASSUME NEW t \in Threads, NEW e \in Envs, Drop(t, e)
      PROVE  OpenedInv'
  BY <1>4, DropOpened
<1>5. ASSUME NEW n \in Names, NEW i \in Files \cup {NoFile}, Outside(n, i)
      PROVE  OpenedInv'
  BY <1>5 DEF Outside, callVars, OpenedInv, ClosesApart, OpenHeld, OpenedOnce, Open
<1>6. CASE UNCHANGED vars
  BY <1>6 DEF vars, callVars, OpenedInv, ClosesApart, OpenHeld, OpenedOnce, Open
<1> QED
  BY <1>1, <1>2, <1>3, <1>4, <1>5, <1>6 DEF Next

\* No file is ever open twice in the process, as LMDB demands, where no two
\* calls that found no file of one name are under way at once, and none for a
\* file whose environment is being closed.  Calls for other names and files,
\* one that finds the file just made included, may overlap as they like.
THEOREM NeverOpenedTwice ==
  ASSUME NoOutsideRaces, NoCreateRaces, NoCloseRaces
  PROVE  Spec => []OpenedOnce
<1>1. BaseInv /\ NamedInv /\ SharedInv /\ OpenedInv /\ [Next]_vars => OpenedInv'
  BY NextOpened
<1>2. OpenedInv => OpenedOnce
  BY DEF OpenedInv
<1> QED
  BY OpenedInit, <1>1, <1>2, BaseInvariant, NamedInvariant, SharedInvariant, PTL DEF Spec
=============================================================================
