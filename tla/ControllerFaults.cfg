CONSTANTS
  Faults = {1}
  Commands = {"CMD_PRES", "CMD_REP1"}
  PwdLength = 1
  PwdLimit = 0
  Telemetered = {}
  WireMax = 2
SPECIFICATION Spec
INVARIANTS
  TypeOK
  LaunchPending
  FaultsFlagged
PROPERTIES
  RepairKeepsAlerts
