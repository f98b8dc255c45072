SPECIFICATION Spec
CONSTANTS
  v1 = v1
  Scanner = {monitor, main}
  Monitor = monitor
  Main = main
  Handler = {h1}
  Radio = {v1}
  ZeroMac = zero
  Known <- RadioAndIr
  MaxId = 3
  MaxCmd = 1
INVARIANTS
  OncePerDevice
  OneDevicePerMac
  FileComplete
CONSTRAINT Sound
CHECK_DEADLOCK FALSE
