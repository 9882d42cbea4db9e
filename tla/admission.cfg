CONSTANTS
  k1 = k1
  k2 = k2
  Keys = {k1, k2}
  RateLimitRPS <- OneOverride
  RPS = 2
  Burst = 2
  Unit = 4
  Kubelet = kubelet
  Probers = {kubelet, p1}
  Skip = 1
  Grace = 4
  Period = 1
  Threshold = 2
  MaxTime = 8
  MaxEvents = 3
SPECIFICATION Spec
INVARIANTS RateIsBounded RefusedOnlyAfterUse ReadyMeansRecentlyUp BriefOutageIsHidden TrafficComesBack
CHECK_DEADLOCK FALSE
