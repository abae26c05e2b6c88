CONSTANTS
  Telemetry <- Round
  Attempts = 2
  Typed = {"resolve"}
  QueueMax = 1
SPECIFICATION Spec
PROPERTIES
  ResetErases
