SPECIFICATION Spec
CONSTANTS
  Threads = {t1, t2}
  Names = {n1}
  Files = {i1, i2, i3}
  Envs = {e1, e2}
  Flags = {f1}
  NoThread = NoThread
  NoFile = NoFile
  NoEnv = NoEnv
  Uses = {"create_races"}
SYMMETRY Symmetry
INVARIANTS OpenedOnce

