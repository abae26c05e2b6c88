CONSTANTS
  Faults = {}
  Commands = {}
  PwdLength = 1
  PwdLimit = 0
  Telemetered = {}
  WireMax = 1
SPECIFICATION DeliveringSpec
PROPERTIES
  LaunchEnds
