SPECIFICATION Spec
CONSTANTS
  Threads = {t1, t2}
  MaxPages = 3
  MaxTries = 3
  Uses = {}
SYMMETRY Symmetry
INVARIANTS MapStays
