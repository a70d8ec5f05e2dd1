SPECIFICATION Spec
CONSTANTS
  base = base
  echo = echo
  baseEntry = baseEntry
  echoEntry = echoEntry
  newEntry = newEntry
  Bundles = {base, echo}
  MaxVersion = 2
  Entries = {baseEntry, echoEntry, newEntry}
  Points <- IndexPoints
  Needs <- IndexNeeds
  Values = {val1, val2}
  Unset = Unset
  MaxCommands = 5
  MaxKills = 1
INVARIANTS
  RecordsSupported
  ConfigKept
PROPERTY SuccessMeansAgreement
CHECK_DEADLOCK FALSE
