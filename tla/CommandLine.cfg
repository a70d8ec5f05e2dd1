SPECIFICATION Spec
CONSTANTS
  d1 = d1
  d2 = d2
  Processes = {p, q}
  Dirs = {d1, d2}
  Docker = {q}
  Names = {"bot", "Bot", "dev", "bad"}
  Key <- LowerCase
  Valid = {"bot", "Bot", "dev"}
  Fragile = {d2}
  None = None
  Commands <- SomeCommands
  Books <- SomeBooks
  Situations <- SomeSituations
  MaxCommands = 2
  MaxKills = 1
INVARIANTS
  InitialisedOnce
  BackupFirst
PROPERTIES
  RegistryIsAtomic
  FilesKept
CHECK_DEADLOCK FALSE
