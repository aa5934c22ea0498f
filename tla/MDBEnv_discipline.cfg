SPECIFICATION Spec
CONSTANTS
  Threads = {t1, t2, t3}
  Txns = {x1, x2, x3}
  NoThread = NoThread
  NoTxn = NoTxn
  MaxRO = 1
  Uses = {"commit_fails", "parent_first"}
SYMMETRY Symmetry
INVARIANTS TypeOK CountsExact ThreadDiscipline RefusalJustified NoSelfWait OneOpener
PROPERTIES Discipline
