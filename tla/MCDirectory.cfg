CONSTANTS
  MaxClock = 5
  MaxRuns = 5
  MaxServices = 2
  MaxUpsets = 2
  KeepAutomatic = 3
  KeepManual = 4
  StaleDays = 2
  Faults = {"DIRECTORY"}
SPECIFICATION BackupsSpec
INVARIANT CompletedIsWhole
CHECK_DEADLOCK FALSE
