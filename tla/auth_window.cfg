CONSTANTS
  a1 = a1
  None = None
  Malformed = Malformed
  Requests = {}
  Ticker = ticker
  Reloaders = {}
  Accounts = {a1}
  Filter = {}
  Issuers = {}
  Bootstraps <- OneAccount
  FirstGrants = 1
  FileWritable = FALSE
  FallbackWorks = TRUE
  Rotation = {TRUE}
  Lifetimes = {6}
  Skew = 1
  MaxTime = 3
  MaxCalls = 0
  MaxEdits = 0
  MaxFaults = 0
  FaultKinds = {"post", "discover", "persist"}
SPECIFICATION Spec
INVARIANTS TickLeavesWindow
