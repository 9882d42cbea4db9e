CONSTANTS
  a1 = a1
  None = None
  Malformed = Malformed
  Requests = {r1}
  Ticker = ticker
  Reloaders = {l1}
  Accounts = {a1}
  Filter = {}
  Issuers = {}
  Bootstraps <- OneAccount
  FirstGrants = 1
  FileWritable = TRUE
  FallbackWorks = TRUE
  Rotation = {TRUE}
  Lifetimes = {3}
  Skew = 1
  MaxTime = 0
  MaxCalls = 1
  MaxEdits = 1
  MaxFaults = 0
  FaultKinds = {"post", "discover", "persist"}
SPECIFICATION FairSpec
PROPERTIES FollowsFile
CHECK_DEADLOCK FALSE
