---------------------------- MODULE EnvRegistry ----------------------------
(***************************************************************************)
(* getMDBEnv's registry of environments (lmdb-safe.cc): threads of one     *)
(* process ask for the environment of a file by name, and share it while   *)
(* any of them holds it.  LMDB forbids a process to open a file twice.     *)
(*                                                                         *)
(* The file is looked up before the mutex is taken, and a shared_ptr is    *)
(* dropped without it: the steps between are where other threads, and      *)
(* other processes with the directory, come in.                            *)
(***************************************************************************)
EXTENDS FiniteSets

CONSTANTS
  Threads, Names, Files, Envs, Flags,
  NoThread, NoFile, NoEnv,
  Uses        \* what happens at the same time, see Use

Use == { "create_races",  \* two calls that both find no file of one name
         "close_races",   \* a call for a file whose environment is being closed
         "outside_races" }  \* another process replaces a file during a call

ASSUME ConstantsAssumption ==
  /\ NoThread \notin Threads
  /\ NoFile \notin Files
  /\ NoEnv \notin Envs
  /\ Uses \subseteq Use

VARIABLES
  dir,        \* the file a name denotes; the inode stands for the file
  file,       \* the file an MDBEnv has open
  flags,      \* the flags it was made with: Value::flags is a copy
  held,       \* the threads that hold a shared_ptr to it
  s_envs,     \* by inode; NoEnv where no entry is, or its weak_ptr is expired
  mut,        \* the thread that holds the mutex
  pc, call, cur

callVars == <<pc, call, cur>>
vars == <<dir, file, flags, held, s_envs, mut, callVars>>

Calls == [name : Names, flags : Flags, key : Files \cup {NoFile}]

Init ==
  /\ dir \in [Names -> Files \cup {NoFile}]
  /\ file = [e \in Envs |-> NoFile]
  /\ flags \in [Envs -> Flags]
  /\ \A e, f \in Envs : flags[e] = flags[f]
  /\ held = [e \in Envs |-> {}]
  /\ s_envs = [i \in Files |-> NoEnv]
  /\ mut = NoThread
  /\ pc = [t \in Threads |-> "idle"]
  /\ call \in [Threads -> Calls]
  /\ \A t, u \in Threads : call[t] = call[u] /\ call[t].key = NoFile
  /\ cur = [t \in Threads |-> NoEnv]

\* An inode is free for a new file when no name and no open file has it.
FreeFile(i) == (\A n \in Names : dir[n] # i) /\ (\A e \in Envs : file[e] # i)

\* stat(), which finds a file or says ENOENT.  Its other errors throw.
Stat(t, n, fl) ==
  /\ pc[t] = "idle"
  /\ "create_races" \notin Uses /\ dir[n] = NoFile =>
       \A u \in Threads : ~(pc[u] = "stat" /\ call[u].name = n /\ call[u].key = NoFile)
  /\ "close_races" \notin Uses /\ dir[n] # NoFile =>
       \A u \in Threads : pc[u] = "closing" => file[cur[u]] # dir[n]
  /\ call' = [call EXCEPT ![t] = [name |-> n, flags |-> fl, key |-> dir[n]]]
  /\ pc' = [pc EXCEPT ![t] = "stat"]
  /\ UNCHANGED <<dir, file, flags, held, s_envs, mut, cur>>

\* make_shared<MDBEnv>: mdb_env_open by name, which creates a missing file.
OpenByName(t, e, i) ==
  /\ file[e] = NoFile
  /\ IF dir[call[t].name] = NoFile
     THEN FreeFile(i) /\ dir' = [dir EXCEPT ![call[t].name] = i]
     ELSE i = dir[call[t].name] /\ UNCHANGED dir
  /\ file' = [file EXCEPT ![e] = i]
  /\ flags' = [flags EXCEPT ![e] = call[t].flags]
  /\ held' = [held EXCEPT ![e] = {t}]

\* A call that found no file takes the mutex and opens the environment,
\* without another look.
OpenMissing(t) ==
  /\ pc[t] = "stat" /\ call[t].key = NoFile
  /\ mut = NoThread
  /\ \E e \in Envs, i \in Files :
       OpenByName(t, e, i) /\ cur' = [cur EXCEPT ![t] = e]
  /\ mut' = t
  /\ pc' = [pc EXCEPT ![t] = "opened"]
  /\ UNCHANGED <<s_envs, call>>

Return(t) ==
  /\ pc' = [pc EXCEPT ![t] = "idle"]
  /\ cur' = [cur EXCEPT ![t] = NoEnv]
  /\ UNCHANGED call

LeavesLocked == mut' = mut                                   \* variant
Unlock == mut' = NoThread

\* Then it stats the file it should have made, and registers it; if there is
\* none it throws, and the environment is closed before the mutex is released.
Register(t) ==
  /\ pc[t] = "opened"
  /\ LET i == dir[call[t].name]
     IN  IF i # NoFile
         THEN s_envs' = [s_envs EXCEPT ![i] = cur[t]] /\ UNCHANGED <<file, held>>
         ELSE /\ file' = [file EXCEPT ![cur[t]] = NoFile]
              /\ held' = [held EXCEPT ![cur[t]] = {}]
              /\ UNCHANGED s_envs
  /\ Unlock
  /\ Return(t)
  /\ UNCHANGED <<dir, flags>>

\* A call that found a file looks it up under the mutex.  A live environment
\* with the same flags is shared, with other flags the call throws.
FlagsIgnored(t, e) == flags[e] \in Flags                     \* variant
FlagsMatch(t, e) == flags[e] = call[t].flags

Lookup(t) ==
  /\ pc[t] = "stat" /\ call[t].key # NoFile
  /\ mut = NoThread
  /\ LET e == s_envs[call[t].key]
     IN  /\ e # NoEnv
         /\ held' = IF FlagsMatch(t, e)
                    THEN [held EXCEPT ![e] = @ \cup {t}] ELSE held
  /\ Return(t)
  /\ UNCHANGED <<dir, file, flags, s_envs, mut>>

\* Where there is none, it opens the file, by name, and registers it under
\* the inode of the lookup.  Nothing else touches s_envs meanwhile.
OpenFoundUnlocked(t) ==                                      \* variant
  /\ pc[t] = "stat" /\ call[t].key # NoFile
  /\ s_envs[call[t].key] = NoEnv
  /\ \E e \in Envs, i \in Files :
       /\ OpenByName(t, e, i)
       /\ s_envs' = [s_envs EXCEPT ![call[t].key] = e]
  /\ Return(t)
  /\ UNCHANGED mut
OpenFound(t) ==
  /\ pc[t] = "stat" /\ call[t].key # NoFile
  /\ mut = NoThread
  /\ s_envs[call[t].key] = NoEnv
  /\ \E e \in Envs, i \in Files :
       /\ OpenByName(t, e, i)
       /\ s_envs' = [s_envs EXCEPT ![call[t].key] = e]
  /\ Return(t)
  /\ UNCHANGED mut

\* MDBEnv's constructor throws: no environment, and no entry, but a missing
\* file may have been made before mdb_env_open failed.
OpenFails(t) ==
  /\ pc[t] = "stat"
  /\ mut = NoThread
  /\ call[t].key # NoFile => s_envs[call[t].key] = NoEnv
  /\ \/ UNCHANGED dir
     \/ /\ dir[call[t].name] = NoFile
        /\ \E i \in Files : FreeFile(i) /\ dir' = [dir EXCEPT ![call[t].name] = i]
  /\ Return(t)
  /\ UNCHANGED <<file, flags, held, s_envs, mut>>

---------------------------------------------------------------------------
\* A thread drops its shared_ptr.  With the last one the weak_ptr expires, and
\* only then does ~MDBEnv close the file: no mutex is held.
ExpireNot(e) == e \in Envs /\ UNCHANGED s_envs                \* variant
Expire(e) == s_envs' = [i \in Files |-> IF s_envs[i] = e THEN NoEnv ELSE s_envs[i]]

Drop(t, e) ==
  /\ pc[t] = "idle" /\ t \in held[e]
  /\ held' = [held EXCEPT ![e] = @ \ {t}]
  /\ IF held[e] = {t}
     THEN /\ "close_races" \notin Uses =>
               \A u \in Threads : pc[u] = "stat" => call[u].key # file[e]
          /\ Expire(e)
          /\ pc' = [pc EXCEPT ![t] = "closing"]
          /\ cur' = [cur EXCEPT ![t] = e]
     ELSE UNCHANGED <<s_envs, pc, cur>>
  /\ UNCHANGED <<dir, file, flags, mut, call>>

\* mdb_env_close
Close(t) ==
  /\ pc[t] = "closing"
  /\ file' = [file EXCEPT ![cur[t]] = NoFile]
  /\ Return(t)
  /\ UNCHANGED <<dir, flags, held, s_envs, mut>>

\* Another process removes, replaces or makes the file.
Outside(n, i) ==
  /\ "outside_races" \notin Uses =>
       \A t \in Threads : pc[t] \notin {"stat", "opened"}
  /\ i = NoFile \/ FreeFile(i)
  /\ dir' = [dir EXCEPT ![n] = i]
  /\ UNCHANGED <<file, flags, held, s_envs, mut, callVars>>

Next ==
  \/ \E t \in Threads :
       \/ \E n \in Names, fl \in Flags : Stat(t, n, fl)
       \/ OpenMissing(t) \/ Register(t)
       \/ Lookup(t) \/ OpenFound(t) \/ OpenFails(t)
       \/ \E e \in Envs : Drop(t, e)
       \/ Close(t)
  \/ \E n \in Names, i \in Files \cup {NoFile} : Outside(n, i)

Spec == Init /\ [][Next]_vars

---------------------------------------------------------------------------
(* Properties. *)

Open(e) == file[e] # NoFile

\* Types; an environment that is held is open, and the mutex is held exactly
\* between the two steps of a call that creates a file.
TypeOK ==
  /\ dir \in [Names -> Files \cup {NoFile}]
  /\ file \in [Envs -> Files \cup {NoFile}]
  /\ flags \in [Envs -> Flags]
  /\ held \in [Envs -> SUBSET Threads]
  /\ s_envs \in [Files -> Envs \cup {NoEnv}]
  /\ mut \in Threads \cup {NoThread}
  /\ pc \in [Threads -> {"idle", "stat", "opened", "closing"}]
  /\ call \in [Threads -> Calls]
  /\ cur \in [Threads -> Envs \cup {NoEnv}]
  /\ \A e \in Envs : held[e] # {} => Open(e)
  /\ \A t \in Threads : mut = t <=> pc[t] = "opened"

\* README.md: "Never open a database file more than once anywhere in your
\* process".  An environment has its file open until mdb_env_close returns.
OpenedOnce ==
  \A e, f \in Envs : Open(e) /\ Open(f) /\ file[e] = file[f] => e = f

\* README.md: "If another part of your process requests access to the same
\* inode, it will get the same environment".
SameEnvironment ==
  \A e, f \in Envs : held[e] # {} /\ held[f] # {} /\ file[e] = file[f] => e = f

\* No entry of the registry leads to an environment that is closing or closed,
\* or to one of another file.
EntriesLive ==
  \A i \in Files : s_envs[i] # NoEnv => held[s_envs[i]] # {} /\ file[s_envs[i]] = i

\* A call that gets an environment gets it on the file its name denotes: made
\* for it, or found in the registry and not closed since.
GetsFileAsked ==
  [][\A t \in Threads, e \in Envs : t \in held'[e] \ held[e] =>
       file'[e] = dir'[call[t].name]]_vars

\* Whatever happens at the same time, a call gets no environment that was made
\* with other flags than it asked for: getMDBEnv throws instead.
GetsFlagsAsked ==
  [][\A t \in Threads, e \in Envs : t \in held'[e] \ held[e] =>
       flags'[e] = call[t].flags]_vars
=============================================================================
