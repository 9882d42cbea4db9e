CONSTANTS
  a1 = a1
  None = None
  Malformed = Malformed
  Requests = {r1, r2}
  Ticker = ticker
  Reloaders = {}
  Accounts = {a1}
  Filter = {}
  Issuers = {}
  Bootstraps <- MaybeUnrefreshable
  FirstGrants = 1
  FileWritable = FALSE
  FallbackWorks = FALSE
  Rotation = {TRUE}
  Lifetimes = {3}
  Skew = 2
  MaxTime = 2
  MaxCalls = 2
  MaxEdits = 0
  MaxFaults = 1
  FaultKinds = {"post", "discover", "reply"}
SPECIFICATION FairSpec
INVARIANTS ReturnsUnexpiredToken FailsOnlyWhenExpired
PROPERTIES CallsReturn KeepsContract
