CONSTANTS
  Faults = {}
  Commands = {}
  PwdLength = 2
  PwdLimit = 1
  Telemetered = {}
  WireMax = 0
SPECIFICATION Spec
PROPERTIES
  PasswordModeLasts
