CONSTANTS
  MaxSales = 2
  NoFile = NoFile
  Torn = Torn
  Faults = {"MARKER"}
SPECIFICATION Spec
INVARIANT ServesTruth
