CONSTANTS
  Faults = {1, 2}
  FaultFrames = 2
  FreshFrames = 1
  PendingMax = 2
  Fuels = {"high"}
  Telemetered = {"orbit"}
  Everything = FALSE
  WireMax = 2
SPECIFICATION Spec
INVARIANTS
  TypeOK
  FaultsAgree
  NoPhantomAlarm
  LossShown
PROPERTIES
  NoLoneLoss
