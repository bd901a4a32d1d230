SPECIFICATION FairSpec
CONSTANTS
  MaxKeys = 3  MaxOthers = 1  MaxTroubles = 1
  Devices = {"d1", "d2"}  Shortcuts = {{"d1", "d2"}, {"d1"}}
  MaxPlugs = 1  MaxFailures = 1  MaxRequests = 1
  MaxProcesses = 2  MaxClients = 1  Clients = {"c1"}
  Receipts = {1, 2}  MaxWrites = 2  MaxErrors = 1
  MaxAnswers = 1  MaxRewrites = 2  MaxCards = 2  MaxUp = 1  MaxDown = 1
  Launchers = {"window"}  MaxCopilots = 2  MaxLaunches = 4  MaxWords = 1  MaxTries = 1
  OverQuiet = 1  IdleEnd = 1  MaxToggles = 1
  Documents = {1}  Providers = {"chatgpt", "claude"}  MaxLength = 1  PrimerBudget = 2
  ExcerptBudget = 2  MaxEdits = 2  MaxSwitches = 1  MaxLocked = 1
  MaxUtterances = 2  MaxSize = 2  MaxPauses = 0  MaxEarly = 1  MaxSending = 1  MaxInbox = 1
PROPERTIES
  RequestsAreAnswered
  NewsArrives
CHECK_DEADLOCK FALSE
