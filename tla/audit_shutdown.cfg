CONSTANTS
  Handlers = {h1, h2}
  Workers = {w1, w2}
  Capacity = 1
  MaxRows = 3
  MaxTicks = 1
  MaxFaults = 1
  Limits = {0, 4}
  DefaultLimit = 1
  MaxLimit = 2
SPECIFICATION ListingSpec
INVARIANTS GracefulExitLosesNothing DrainInv WalkMissesNothing
PROPERTIES RequestsNeverWait ShutdownEnds
