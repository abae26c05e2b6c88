CONSTANTS
  Codes <- MCCodes
  NBits = 6
  Zeros = 1
  Password <- MCPassword
  PassbufMax = 3
  LinesMax = 2
SPECIFICATION Spec
INVARIANTS
  TypeOK
  NoWrongKey
  StarsMatch
PROPERTIES
  LaunchAuthorised
