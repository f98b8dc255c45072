SPECIFICATION Spec
CONSTANTS
  lamp = lamp
  ac = ac
  stb = stb
  Dev = {lamp, ac, stb}
  Ac = {ac}
  Stb = {stb}
  RemoteOf <- SmallRemotes
  Box = box
  Value <- SmallValues
  Mode = {0, 1}
  Worker = {w1, w2}
  Scene = {"evening", "guard"}
  Actions <- SmallActions
  Event = {"moved"}
  Links <- SmallLinks
  DevModes <- SmallModes
  Wanted <- SmallWishes
  MaxRun = 3
  MaxUnasked = 1
  MaxLost = 1
  MaxAll = 3
INVARIANTS
  CacheIsRight
  ModeAnnounced
  RunsAsWritten
PROPERTIES
  ScenesEnd
CHECK_DEADLOCK FALSE
