SPECIFICATION ImpatientSession
CONSTANTS
  Stoppers = {cli, s1}
  Cli = cli
  MaxStops = 1
  MaxCancels = 1
  Nobody = Nobody
PROPERTY CleanupBounded
CHECK_DEADLOCK FALSE
