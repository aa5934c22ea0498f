SPECIFICATION Spec
CONSTANTS
  Keys = {k1, k2, bad}
  BadKeys = {bad}
  NIndexes = 2
  IdLimit = 4
  NoValue = NoValue
  Uses = {"bad_key"}
SYMMETRY Symmetry
INVARIANTS TypeOK ZeroFree IndexesExact LookupsFind
PROPERTIES Typed
