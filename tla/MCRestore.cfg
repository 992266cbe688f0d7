CONSTANTS
  MaxSales = 2
  NoFile = NoFile
  Torn = Torn
  Faults = {}
SPECIFICATION FairSpec
INVARIANTS TypeOK ServesTruth AlwaysRecoverable RestoreIsAlone
PROPERTIES LossIsConfirmed EventuallyServes
