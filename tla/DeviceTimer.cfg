SPECIFICATION Spec
CONSTANTS
  Dev = {a, b}
  DayLen = 5
  Window = 2
  Midnight = 4
  Lag = 2
  Mode = {home, out}
  Home = home
  Setting <- Settings
  Handler = {h1}
  First = 3
  MaxDay = 1
  MaxChange = 3
SYMMETRY Symmetry
INVARIANTS
  ArmedFires
  MidnightNoticed
  AtMostOncePerDay
CHECK_DEADLOCK FALSE
