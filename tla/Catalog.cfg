CONSTANTS
  p1 = p1
  p2 = p2
  None = None
  Broken = Broken
  Process = {p1, p2}
  Packaged = TRUE
  Bundled <- MCBundled
  Initial <- MCInitial
  CsvFiles <- MCCsvFiles
  MaxId = 4
  MaxAttempts = 2
  MaxItems = 3
  MaxSaves = 2
  MaxFaults = 2
SPECIFICATION Spec
INVARIANTS EditsKeepIdsApart LeftoversExplained ImportReadsBack
PROPERTIES ImplementsAtomicCatalog
CHECK_DEADLOCK FALSE
