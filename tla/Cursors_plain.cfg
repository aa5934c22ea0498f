SPECIFICATION Spec
CONSTANTS
  Txns = {x1, x2, x3}
  ROVars = {r1, r2, r3}
  RWVars = {w1, w2}
  Cursors = {h1, h2, h3, h4}
  NoTxn = NoTxn
  NoCursor = NoCursor
  Uses = {}
SYMMETRY Symmetry
INVARIANTS TypeOK RegistryExact OwnedOnce HeldOpen NoDangling
PROPERTIES Protocol
