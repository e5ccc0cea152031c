SPECIFICATION Spec
CONSTANTS
  Base = 2
  MaxDecimals = 2
  UintMax = 15
  NumberBits = 4
  WideBits = 6
  MaxLogs = 2
  HeadBlock = 3
  IntMax = 7
  WordMax = 15
  DecimalsMax = 3
  Numerals <- MCNumerals
  Typed <- MCTyped
  ToJson <- JsToJson
  ToHost <- AsHost
  ToDyn <- JsToDyn
  Overloads <- MCOverloads
  ArgLists <- MCArgLists
  Builds <- MCBuilds
  NodeLogs <- MCNodeLogs
  DecimalsArgs <- MCDecimals
  AddressTexts <- MCAddresses
  BlockRanges <- MCBlockRanges
  Topics <- MCTopics
  CapturedRuns <- MCCapturedRuns
  Histories <- MCHistories
  Databases <- MCDatabases
  Captures <- MCCaptures
  Uris <- MCUris
  ListCap = 2
  ListDefault = 2
  HistoryCap = 2
  HistoryDefault = 1
  EventsCap = 1
  Day = 2
  SumMax = 9
  Jsons <- MCJsons
  a1 = a1
  a2 = a2
  s1 = s1
  s2 = s2
  MaxU256 = 3
  None = None
  AnySelector = AnySelector
  Chain <- TwoChains
  Address <- MCAddress
  Selector <- MCSelector
  Files <- MCFiles
  MaxFile = 1
  Revisions <- MCRevisions
  Sources <- MCSources
CHECK_DEADLOCK FALSE
INVARIANTS
  ConversionsInvert
  CallsAgree
  CapturesWhatIsSent
  ListsMissNothing
  SatisfiedIsAdmitted
  NewCallsAnnounced
