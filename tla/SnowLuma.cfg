SPECIFICATION FairSpec
CONSTANTS
  Callers = {c1}
  Slots = 2
  Capacity = 1
  Weights = {1, 2, 3}
  MaxConnections = 3
  MaxEvents = 2
  MaxCalls = 1
  MaxCloses = 2
  MaxStarts = 2
  Nobody = Nobody
INVARIANTS
  SlotsConserved
  CleanMeansReleased
  CallsKeepTransport
PROPERTIES
  CallsEnd
CHECK_DEADLOCK FALSE
