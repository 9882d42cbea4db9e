CONSTANTS
  None = None
  Ticker = ticker
  Handlers = {h1, h2}
  FirstGrants = 1
  Sizes = {2, 3}
  Codes = {200, 401}
  MaxRequest = 2
  MaxBody = 1
  AuditEnabled = TRUE
  MaxResponse = 2
  MaxStarts = 2
SPECIFICATION FairSpec
INVARIANTS RetriesOnceWithNewToken ForwardsWholeBody OneTrueRecord RecordFlagsTruncation
PROPERTIES RequestsAreAnswered
CHECK_DEADLOCK FALSE
