--------------------------- MODULE CursorProtocol ---------------------------
(***************************************************************************)
(* LMDB's rules for cursors, which lmdb-safe keeps for its users: a cursor *)
(* is opened in an open transaction, closed once, by its owner or together *)
(* with its transaction, and no other transaction's end closes it.         *)
(* MDBGenCursor implements this module (Protocol in Cursors).              *)
(***************************************************************************)
CONSTANTS Txns, Cursors

VARIABLE
  openIn      \* the open cursors of each open transaction; others have none

vars == openIn

Init == openIn = [x \in Txns |-> {}]

OpenCursor(x, h) ==
  /\ \A y \in Txns : h \notin openIn[y]
  /\ openIn' = [openIn EXCEPT ![x] = @ \cup {h}]

CloseCursor(x, h) ==
  /\ h \in openIn[x]
  /\ openIn' = [openIn EXCEPT ![x] = @ \ {h}]

EndTxn(x) == openIn' = [openIn EXCEPT ![x] = {}]

Next ==
  \E x \in Txns :
    \/ EndTxn(x)
    \/ \E h \in Cursors : OpenCursor(x, h) \/ CloseCursor(x, h)

Spec == Init /\ [][Next]_vars
=============================================================================
