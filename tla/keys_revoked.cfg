CONSTANTS
  r1 = r1
  r2 = r2
  v1 = v1
  v2 = v2
  adm1 = adm1
  adm2 = adm2
  None = None
  Keys = {k1}
  Replicas = {r1}
  Validators = {v1, v2}
  Admins = {adm1}
  At <- OneReplica
  TTL = 1
  MinInterval = 2
  MaxTime = 4
  MaxFaults = 0
  FaultKinds = {"select", "update", "flush", "crash"}
SPECIFICATION Spec
PROPERTIES RevokedIsRejected
