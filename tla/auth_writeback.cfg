CONSTANTS
  a1 = a1
  None = None
  Malformed = Malformed
  Requests = {r1}
  Ticker = ticker
  Reloaders = {l1}
  a2 = a2
  Accounts = {a1, a2}
  Filter = {a1}
  Issuers = {}
  Bootstraps <- FirstExpires
  FirstGrants = 2
  FileWritable = TRUE
  FallbackWorks = TRUE
  Rotation = {TRUE, FALSE}
  Lifetimes = {3}
  Skew = 1
  MaxTime = 1
  MaxCalls = 1
  MaxEdits = 1
  MaxFaults = 1
  FaultKinds = {"post", "persist", "write"}
SPECIFICATION FairSpec
INVARIANTS TypeOK LiveGrantKept PinnedEntryIsInMap SavesAgree
PROPERTIES WritingCleared KeepsContract
CHECK_DEADLOCK FALSE
