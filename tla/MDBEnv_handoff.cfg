SPECIFICATION Spec
CONSTANTS
  Threads = {t1, t2}
  Txns = {x1, x2, x3}
  NoThread = NoThread
  NoTxn = NoTxn
  MaxRO = 2
  Uses = {"commit_fails", "parent_first", "hand_off", "nest_closed", "manual_open", "opendb_in_txn"}
SYMMETRY Symmetry
INVARIANTS CountsConserved
CHECK_DEADLOCK FALSE
