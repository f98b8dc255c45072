SPECIFICATION Spec
CONSTANTS
  Client = {c1, c2}
  Main = main
  Name = {n1, n2}
  Val = {v1, v2}
  NoVal = none
  Torn = torn
  MaxCmd = 2
  MaxCrash = 1
  Files <- SmallFiles
INVARIANTS
  StoredWhenQuiet
  KeptAcrossRestarts
PROPERTIES
  ImplementsMap
SYMMETRY Symmetry
CHECK_DEADLOCK FALSE
