SPECIFICATION Spec
CONSTANTS
  Threads = {t1, t2, t3}
  Names = {n1, n2}
  Files = {i1, i2}
  Envs = {e1, e2, e3}
  Flags = {f1, f2}
  NoThread = NoThread
  NoFile = NoFile
  NoEnv = NoEnv
  Uses = {"close_races"}
SYMMETRY Symmetry
INVARIANTS TypeOK SameEnvironment EntriesLive
PROPERTIES GetsFileAsked GetsFlagsAsked
