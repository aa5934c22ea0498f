SPECIFICATION Spec
CONSTANTS
  Threads = {t1, t2}
  Txns = {x1, x2}
  NoThread = NoThread
  NoTxn = NoTxn
  MaxRO = 1
  Uses = {"commit_fails"}
SYMMETRY Symmetry
INVARIANTS NoUseAfterFree
