SPECIFICATION FairSpec
CONSTANTS
  MaxClock = 5
  MaxRuns = 5
  MaxServices = 2
  MaxUpsets = 2
  KeepAutomatic = 3
  KeepManual = 4
  StaleDays = 2
  Faults = {}
  MaxSchema = 3
  Lineages = {"shop", "fork"}
  MaxTakings = 2
  Letters = {c, e}
  Disks = {d1, d2}
  Paths = {f}
  MaxPasses = 2
  MaxChanges = 1
  ann = ann
  bob = bob
  call1 = call1
  call2 = call2
  Accounts = {ann, bob}
  Calls = {call1, call2}
  MaxConnects = 2
  MaxTokens = 1
  MaxBreaks = 2
  NoAccount = NoAccount
  Goods = {p1, p2}
  MaxRequests = 2
  MaxEdits = 2
  MaxLookups = 1
  MaxVisits = 1
  MaxSwaps = 1
  MaxCalls = 2
  MaxRelease = 2
  MaxChecks = 3
  Rates = {250, 825}
  Menu <- StationMenu
  Offset <- StationOffset
  Zones = {"UTC", "America/Chicago"}
  Instants = {2, 5, 29}
  MaxBooked = 2
  MaxSessions = 3
  MaxRecords = 1
  MaxLines = 1
  MaxRotated = 1
  MaxAge = 0
  MaxDay = 1
  MaxEvents = 1
  MaxMishaps = 1
  Parts = {"database", "backup", "cards"}
  MaxAsks = 2
  MaxTurns = 1
  MaxOpens = 2
  MaxSleeps = 3
  MaxWirings = 3
INVARIANTS
  CompletedIsWhole
  HealthyIsProtected
  ServesItsSchema
  AcceptedIsElsewhere
  OffersAreWhole
  TakesWhatWasChosen
  ExportsAreTheOwners
  SecondSheetsOverlap
  SoldAsShown
  CartIsKnown
  InstallsWhatIsReady
  ReportsBalance
  EndingsAreTold
  HealthIsSeen
  WakesTruthfully
PROPERTIES
  RetentionSpares
  UpgradeIsRecoverable
  OwedIsTaken
CHECK_DEADLOCK FALSE
