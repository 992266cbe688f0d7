CONSTANTS
  MaxSales = 2
  NoFile = NoFile
  Torn = Torn
  Faults = {"ROLLBACK"}
SPECIFICATION Spec
INVARIANT ServesTruth
