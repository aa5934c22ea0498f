--------------------------- MODULE TxnDiscipline ---------------------------
(***************************************************************************)
(* What lmdb-safe promises about transactions, without its bookkeeping:    *)
(* README.md lists the rules LMDB leaves to its callers, and says the      *)
(* library enforces them.  A thread either reads, in any number of         *)
(* read-only transactions, or writes, in one top-level transaction and the *)
(* transactions nested in it; one thread writes at a time.                 *)
(* MDBEnv implements this module (Discipline there).                       *)
(***************************************************************************)
CONSTANTS Threads, Txns

VARIABLES
  reading,    \* the read-only transactions each thread has open
  writing     \* the write transactions each thread has open

vars == <<reading, writing>>

Init ==
  /\ reading = [t \in Threads |-> {}]
  /\ writing = [t \in Threads |-> {}]

Unused(x) == \A t \in Threads : x \notin reading[t] \cup writing[t]

StartRead(t, x) ==
  /\ Unused(x)
  /\ writing[t] = {}
  /\ reading' = [reading EXCEPT ![t] = @ \cup {x}]
  /\ UNCHANGED writing

StartWrite(t, x) ==
  /\ Unused(x)
  /\ reading[t] = {}
  /\ \A u \in Threads : writing[u] = {}
  /\ writing' = [writing EXCEPT ![t] = {x}]
  /\ UNCHANGED reading

StartNested(t, x) ==
  /\ Unused(x)
  /\ writing[t] # {}
  /\ writing' = [writing EXCEPT ![t] = @ \cup {x}]
  /\ UNCHANGED reading

EndRead(t, x) ==
  /\ x \in reading[t]
  /\ reading' = [reading EXCEPT ![t] = @ \ {x}]
  /\ UNCHANGED writing

\* A write transaction ends together with the transactions nested in it.
EndWrite(t, S) ==
  /\ S # {} /\ S \subseteq writing[t]
  /\ writing' = [writing EXCEPT ![t] = @ \ S]
  /\ UNCHANGED reading

Next ==
  \E t \in Threads :
    \/ \E x \in Txns : \/ StartRead(t, x) \/ StartWrite(t, x)
                       \/ StartNested(t, x) \/ EndRead(t, x)
    \/ \E S \in SUBSET Txns : EndWrite(t, S)

Spec == Init /\ [][Next]_vars
=============================================================================
