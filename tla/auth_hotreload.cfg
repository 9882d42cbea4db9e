CONSTANTS
  a1 = a1
  None = None
  Malformed = Malformed
  Requests = {}
  Ticker = ticker
  Reloaders = {l1}
  a2 = a2
  Accounts = {a1, a2}
  Filter = {}
  Issuers = {i1}
  Bootstraps <- TwoAccounts
  FirstGrants = 2
  FileWritable = TRUE
  FallbackWorks = TRUE
  Rotation = {TRUE}
  Lifetimes = {3}
  Skew = 1
  MaxTime = 0
  MaxCalls = 1
  MaxEdits = 2
  MaxFaults = 2
  FaultKinds = {"crash", "dbload", "seed", "write"}
SPECIFICATION FairSpec
INVARIANTS ServesToken
PROPERTIES FollowsFile RestartRecovers
CHECK_DEADLOCK FALSE
