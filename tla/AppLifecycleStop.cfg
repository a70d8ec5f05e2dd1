SPECIFICATION FairSpec
CONSTANTS
  Stoppers = {s1, s2}
  MaxStops = 2
  MaxCancels = 2
  Nobody = Nobody
PROPERTY StopReturns
CHECK_DEADLOCK FALSE
