CONSTANTS
  a1 = a1
  None = None
  Malformed = Malformed
  Requests = {r1}
  Ticker = ticker
  Reloaders = {}
  Accounts = {a1}
  Filter = {}
  Issuers = {}
  Bootstraps <- OneAccount
  FirstGrants = 1
  FileWritable = FALSE
  FallbackWorks = TRUE
  Rotation = {TRUE}
  Lifetimes = {3}
  Skew = 1
  MaxTime = 3
  MaxCalls = 1
  MaxEdits = 0
  MaxFaults = 2
  FaultKinds = {"crash", "dbload"}
SPECIFICATION Spec
PROPERTIES SeedsOnlyEmptyStore
