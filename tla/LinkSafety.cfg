CONSTANTS
  ReadMax = 3
  AuthMax = 2
  BufMax = 6
  MaxPushes = 5
  MaxCommands = 2
  MaxSessions = 3
SPECIFICATION Spec
INVARIANTS
  TypeOK
  InOrder
  NothingLostInSession
  RepliesPaired
CHECK_DEADLOCK FALSE
