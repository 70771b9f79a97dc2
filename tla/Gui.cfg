CONSTANTS
  AsTokens <- MCAsTokens
  Samples = {"raw"}
  Queries = {"", "b"}
  Contents <- MCContents
  Imported <- MCImported
  None = None
  MaxId = 3
  MaxItems = 3
  MaxClicks = 4
  MaxFaults = 1
SPECIFICATION FairSpec
INVARIANTS NewestApplied IndexesInRange ShownIsSaved
PROPERTIES EditorAnswered
CHECK_DEADLOCK FALSE
