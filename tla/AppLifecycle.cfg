SPECIFICATION FairSession
CONSTANTS
  Stoppers = {cli, s1}
  Cli = cli
  MaxStops = 2
  MaxCancels = 1
  Nobody = Nobody
INVARIANTS
  StoppedMeansClean
  CloseOrder
  NothingForgotten
  ExitTruth
PROPERTIES
  EveryoneAnswered
CHECK_DEADLOCK FALSE
