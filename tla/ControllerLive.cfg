CONSTANTS
  Faults = {}
  Commands = {"CMD_LD", "CMD_ASK"}
  PwdLength = 2
  PwdLimit = 1
  Telemetered = {"TELEMETRY_REST", "TELEMETRY_MOVING"}
  WireMax = 1
SPECIFICATION FairSpec
INVARIANTS
  NoLeftoverDigits
PROPERTIES
  PasswordModeEnds
