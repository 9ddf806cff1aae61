SPECIFICATION Spec
CONSTANTS
  p1 = p1
  p2 = p2
  Procs = {p1, p2}
  NoProc = NoProc
  Old <- TheOld
  New <- TheNew
  From <- TheFrom
  At <- TheAt
  Torn = Torn
  Bad = Bad
  AnySubject = AnySubject
  Limits = {0, 1}
  MaxLists = 2
  MaxFaults = 1
  Configs <- TheConfigs
  FetchCalls <- TheFetchCalls
  Urls <- TheUrls
  WritePaths <- TheWritePaths
  ReadPaths <- TheReadPaths
  WriteBases <- TheWriteBases
  CacheBases <- TheCacheBases
  DeniedPaths <- TheDeniedPaths
  Texts = {"t1"}
  Slash = "/"
  User = "@"
  NoPath <- TheNoPath
  Part = "part"
  GoRedirects = 5
  MaxCalls = 2
  WorkDir <- TheWorkDir
  Up <- TheUp
  CacheAlias <- TheCacheAlias
  StateAlias <- TheStateAlias
  Cases <- TheCases
  NoPayload = NoPayload
  Installs <- TheInstalls
  SkillsDir <- TheSkillsDir
  Elsewhere <- TheElsewhere
  BuiltIns <- TheBuiltIns
  Assets <- TheAssets
  ShellSuffix <- TheShellSuffix
  ScriptsDir <- TheScriptsDir
  SkillFile <- TheSkillFile
  TempSuffix <- TheTempSuffix
  Names <- TheNames
  NameChars <- TheNameChars
  ReservedNames = {}
  Reviews <- TheReviews
  GoodUrls <- TheGoodUrls
  NoUrl <- TheNoUrl
  Lower <- TheLower
  MaxReviewed = 3
  AtFirst <- TheAtFirst
  MaxInstalls = 2
  Feeds <- TheFeeds
  AllowedChats = {"p", "g"}
  CommandsAt <- TheCommandsAt
  BotName = "@bot"
  Aliases = {"mia"}
  Junk = {"!"}
  Greetings = {"hi"}
  Openers = {"please"}
  Askers = {"?"}
  MaxPrefix = 2
  Users <- TheUsers
  UserLimit = 1
  CacheDir <- TheCacheDir
  FilesDir <- TheFilesDir
  VoiceFile <- TheVoiceFile
  EmojiOf <- TheEmojiOf
  AllowedEmoji <- TheAllowedEmoji
  Intents <- TheIntents
  MediaPaths <- TheMediaPaths
  MaxMedia = 1
  MaxRestarts = 1
SYMMETRY Symmetry
CHECK_DEADLOCK FALSE
INVARIANTS EveryListIsWhole EveryRequestAllowed NeverRefusedLate GroupNeedsConsent NothingWithoutConsent InstalledIsWhole EveryUpdateInOrder OnlyAddressedRun FilesAreWhole OneAnswer
