SPECIFICATION FairSpec
CONSTANTS
  Threads = {t1, t2}
  Txns = {x1, x2, x3}
  NoThread = NoThread
  NoTxn = NoTxn
  MaxRO = 1
  Uses = {}
PROPERTIES WriterReleased
