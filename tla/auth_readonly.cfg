CONSTANTS
  a1 = a1
  None = None
  Malformed = Malformed
  Requests = {r1, r2}
  Ticker = ticker
  Reloaders = {}
  Accounts = {a1}
  Filter = {}
  Issuers = {}
  Bootstraps <- OneAccount
  FirstGrants = 1
  FileWritable = FALSE
  FallbackWorks = TRUE
  Rotation = {TRUE}
  Lifetimes = {3}
  Skew = 1
  MaxTime = 3
  MaxCalls = 2
  MaxEdits = 0
  MaxFaults = 1
  FaultKinds = {"post", "discover", "persist"}
SPECIFICATION FairSpec
INVARIANTS SingleFlight PostsLiveToken
PROPERTIES NoNeedlessExchange StoreNeverRegresses StaysFresh
