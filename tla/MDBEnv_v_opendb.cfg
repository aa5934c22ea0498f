SPECIFICATION FairSpec
CONSTANTS
  Threads = {t1, t2}
  Txns = {x1, x2}
  NoThread = NoThread
  NoTxn = NoTxn
  MaxRO = 1
  Uses = {"opendb_in_txn"}
PROPERTIES WriterReleased
CHECK_DEADLOCK FALSE
