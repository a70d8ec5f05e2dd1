SPECIFICATION Spec
CONSTANTS
  Directory <- MCDirectory
  Cwd = "cwd"
  Scalars <- MCScalars
  PathSettings <- MCPathSettings
  FreeTables <- MCFreeTables
  Defaults <- MCDefaults
  RemovedSections = {"plugins"}
  Nothing = Nothing
  Digits <- MCDigits
  Truths <- MCTruths
  CommandPrefixes <- MCPrefixes
  Absent = Absent
  Tokens <- MCTokens
  Public = "public"
  Anonymous = Anonymous
  Locators = {"http:", "/"}
  Bad = Bad
  Adapter = "onebot.v11"
  SelfIds <- MCSelfIds
  Payloads <- MCPayloads
  Numbers <- MCNumbers
  ExtensionAPIs <- MCExtensionAPIs
  MaxRoutes = 2
  MaxEvents = 3
  Missing = Missing
  Shipped <- MCShipped
  Packs = {"d", "z"}
  Zips = {"z"}
  Workspaces <- MCWorkspaces
  NoWorkspace <- MCNoWorkspace
  Edits <- MCEdits
  PackId <- MCPackId
  Icon <- MCIcon
  Alpha <- MCAlpha
  Size <- MCSize
  MaxFileBytes = 3
  MaxPackBytes = 3
  MaxCatalogBytes = 7
  MaxFiles = 3
  MaxPacks = 3
  MaxEdits = 3
  MaxLoads = 2
  Gone = Gone
  LanguageFiles <- MCLanguageFiles
  Entries <- MCEntries
  Malformed = Malformed
  SettingsQuestions <- MCSettingsQuestions
  CommandQuestions <- MCCommandQuestions
  MessageQuestions <- MCMessageQuestions
  Commands <- MCCommands
  Requested = {"auto", "zh-CN"}
  Detected = {"zh-CN", "fr"}
  Keys = {"k", "j", "i"}
  Pending = Pending
INVARIANTS
  StrongestLayerWins
  CommandsMeanWhatTheySay
  MessagesSurvive
  CatalogueIsWhole
  AnswersGoHome
CHECK_DEADLOCK FALSE
