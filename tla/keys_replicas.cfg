CONSTANTS
  r1 = r1
  r2 = r2
  v1 = v1
  v2 = v2
  adm1 = adm1
  adm2 = adm2
  None = None
  Keys = {k1}
  Replicas = {r1, r2}
  Validators = {v1, v2}
  Admins = {adm1, adm2}
  At <- TwoReplicas
  TTL = 1
  MinInterval = 2
  MaxTime = 4
  MaxFaults = 1
  FaultKinds = {"select", "update", "flush", "crash"}
SPECIFICATION Spec
INVARIANTS BoundedStaleness RevokedKeyGoesQuiet StalenessInv
PROPERTIES KeepsPromise
