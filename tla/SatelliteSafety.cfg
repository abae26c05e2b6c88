CONSTANTS
  MaxClients = 2
  FaultDelay = 1
  Inputs <- MCInputs
SPECIFICATION Spec
INVARIANTS
  TypeOK
  NoFaultForgotten
  DescentHasAltitude
  ReadyIsAtRest
  TelemetryIsSettled
  EventsTellTheStory
  Audience
  ReplyDiscipline
PROPERTIES
  ExplosionIsFinal
  MissionLifeCycle
