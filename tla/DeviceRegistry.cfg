SPECIFICATION FairSpec
CONSTANTS
  Wifi = {v1}
  Zigbee = {z1}
  Remote = {v1, z1}
  ZeroMac = zero
  Appliance = {a1, a2}
  Location = {unknown}
  Unknown = unknown
  NoLoc = none
  MaxId = 3
  MaxRestart = 1
INVARIANTS
  UniqueIds
  FileCurrent
  AllRecovered
  LinkSound
  LinkComplete
PROPERTIES
  RecoveryEnds
  IdKeepsOwner
CHECK_DEADLOCK FALSE
