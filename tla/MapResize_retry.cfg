SPECIFICATION Spec
CONSTANTS
  Threads = {t1, t2, t3}
  MaxPages = 4
  MaxTries = 3
  Uses = {"mmap_fails"}
SYMMETRY Symmetry
INVARIANTS TypeOK 
PROPERTIES GivesUpJustified
CHECK_DEADLOCK FALSE
