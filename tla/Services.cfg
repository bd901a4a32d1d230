SPECIFICATION Spec
CONSTANTS
  FirstRows = 3  MaxRows = 4  MaxGestures = 3
  MaxCommands = 2  MaxTroubles = 2
  MaxJobs = 2  MaxAudio = 2
  MaxTokens = 4
  Lanes = {"transcription", "answer"}  MaxCalls = 3
  Receipts = {"r1", "r2"}  MaxWrites = 2  MaxStarts = 2  MaxErrors = 1
  Keys = {"k1", "k2"}  MaxRefreshes = 3  MaxVersions = 2
  MaxProcesses = 3  MaxClients = 1  PipeDaemons = 2  PipeUsers = {"c1", "c2"}
  MaxUtterances = 2  MaxSize = 2  MaxPauses = 1  MaxEarly = 1  MaxSending = 1  MaxInbox = 1
  MaxTurns = 2  MaxAnswers = 2
  MaxRewrites = 2  MaxCards = 2
  MaxVoices = 2  MaxLooks = 1  MaxReadings = 2  MaxMisses = 1  MaxSpeech = 2  MaxUp = 1  MaxDown = 1
  OverQuiet = 1  IdleEnd = 2  MaxChanges = 1  MaxToggles = 2
  Documents = {1, 2}  Providers = {"chatgpt", "claude"}  MaxLength = 2  PrimerBudget = 2
  ExcerptBudget = 2  MaxEdits = 1  MaxSwitches = 1  MaxLocked = 1
  Dictations = {"j1", "j2"}  MaxCrashes = 2  MaxNew = 1  MaxRules = 2  MaxActions = 2
  MaxDictations = 2  MaxRefused = 1  MaxDay = 3  WeekLength = 2  Window = 2  Short = 1  MaxPrices = 1
  ShortWord = 3  Rare = 2  PageSize = 1  MaxSaid = 3  MaxAges = 2
  Offered = {{"m1"}, {"m2"}}  MaxLimit = 2
  MaxWords = 2  MaxTries = 1  Launchers = {"window"}  MaxCopilots = 3  MaxLaunches = 4
INVARIANTS
  DaemonIsInOrder
  UploadsAreItsOwn
  EverythingIsKeptOnce
PROPERTIES
  PagesAreCurrent
  CopilotIsConsistent
CHECK_DEADLOCK FALSE
