SPECIFICATION Spec
CONSTANTS
  Mac = {m1, m2}
  Addr = {a1, a2}
  Val = {v0, v1}
  Default = v0
  Patience = 0
  Kept = 1
  MaxCmd = 2
  MaxRestart = 1
INVARIANTS
  IdKeepsOwner
  TablesAgree
  SettingsKept
  DeletedStays
SYMMETRY Symmetry
CHECK_DEADLOCK FALSE
