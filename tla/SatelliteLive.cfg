CONSTANTS
  MaxClients = 1
  FaultDelay = 3
  Inputs <- MCLiveInputs
SPECIFICATION FairSpec
PROPERTIES
  FaultIsDecided
  DescentEnds
