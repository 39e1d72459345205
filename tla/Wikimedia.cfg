SPECIFICATION MCSpec
CONSTANTS
  Pages = {1, 2, 5}
  Photos = {1, 2}
  MaxVersion = 1
  Holds <- MCHolds
  Capacity = 6
  Hash <- MCHash
  Batch = 2
  Attempts = 2
  Download <- MCDownload
  Build = 1
  Budget = 1
  Timeout = 5
  MaxRuns = 2
  None = None
  Keys = {1, 2}
  Entries = {"listed", "edited"}
  MayGo = 1
  Share = 4
  MaxChanges = 1
  Nothing = Nothing
  Characters <- MCCharacters
  Contents <- MCContents
  Limits = {0, 2}
  MaxChunk = 4
INVARIANTS ReportsAreTrue RunsEndThemselves RowsAreRead GreenMeansSynced
PROPERTIES PublishedWhole EveryRunEnds OnlyGoneIsDeleted
CHECK_DEADLOCK FALSE
