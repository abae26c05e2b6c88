CONSTANTS
  Telemetry <- Round
  Attempts = 2
  Typed = {"explode", "fault1", "fault2", "resolve", "reset", "LAUNCH", "SET_ALTITUDE", "SET_FUEL", "SET_STRESS", "SET_BAD"}
  QueueMax = 1
SPECIFICATION FairSpec
INVARIANTS
  TypeOK
  InStep
  ExplosionReaches
  LandingReaches
PROPERTIES
  DescentCompletes
