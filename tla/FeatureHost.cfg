SPECIFICATION FairSpec
CONSTANTS
  router = router
  profile = profile
  extra = extra
  e1 = e1
  e2 = e2
  Chain <- ChainOfThree
  Script <- Scripts
  Tails <- LineTails
  Router = router
  Root = Root
  Events = {e1, e2}
  Messages <- Lines
  Capabilities = {"public"}
  MaxFailures = 1
  Words <- AllWords
  Fold <- LowerCase
  Reserved <- PrefixWords
  None = None
  SetWord = "set"
  DeleteWord = "delete"
  Public = "public"
  Callers = {router, profile, extra, e1, e2}
  Fields = {"nick", "lang"}
  Values = {"d", "v"}
  Default <- Defaults
  Version = 2
  Foreign = {1}
  MaxBusy = 1
  Free = Free
INVARIANTS
  RegistriesAgree
  NothingLeftBehind
  QuietAfterClose
PROPERTIES
  OneFieldAtATime
  ManagerCloses
CHECK_DEADLOCK FALSE
