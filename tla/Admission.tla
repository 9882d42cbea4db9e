------------------------------ MODULE Admission ------------------------------
(***************************************************************************)
(* What one replica decides by its clock alone (internal/server/server.go  *)
(* wires both): whether it is ready to be sent requests, and whether a key *)
(* that was let in may go on to the proxy.  Requests come only while the   *)
(* kubelet keeps the replica in service.                                   *)
(***************************************************************************)
EXTENDS Integers

CONSTANTS
  Keys, RateLimitRPS, RPS, Burst, Unit,
  Probers, Kubelet, Skip, Grace, Period, Threshold,
  MaxTime, MaxEvents  \* bounds: the clock; requests, outages, extra probes

\* Config.Validate refuses defaults that are not positive.
ASSUME LimitAssumption ==
  /\ RateLimitRPS \in [Keys -> Int]
  /\ {RPS, Burst, Unit} \subseteq Nat \ {0}

ASSUME ProbeAssumption ==
  /\ Kubelet \in Probers
  /\ {Skip, Grace, Period, Threshold} \subseteq Nat \ {0} /\ Skip <= Grace

ASSUME BoundAssumption == {MaxTime, MaxEvents} \subseteq Nat

VARIABLES
  now, events,
  made, tokens, last, admitted, markAt, passedAt, refused,
  up, since, steady, dbLastOK, pinging, seen, verdict, probedAt, failures, serving

Limiter == INSTANCE RateLimiter
Probe == INSTANCE Readiness

limiter == <<made, tokens, last, admitted, markAt, passedAt, refused>>
probe == <<up, since, steady, dbLastOK, pinging, seen, verdict, probedAt, failures, serving>>
vars == <<now, events, limiter, probe>>

Init == now = 0 /\ events = 0 /\ Limiter!Init /\ Probe!Init

MayStart == events < MaxEvents /\ events' = events + 1

\* A request under /v1, past APIKeyAuth.
Request(k) ==
  /\ serving /\ MayStart
  /\ Limiter!Allow(k) \/ Limiter!TooMany(k)
  /\ UNCHANGED <<now, probe>>

Mark == Limiter!Mark /\ UNCHANGED <<now, events, probe>>

\* GET /ready.
Ready(p) ==
  /\ IF p = Kubelet THEN UNCHANGED events ELSE MayStart
  /\ Probe!SkipsPing(p) \/ Probe!StartsPing(p)
  /\ UNCHANGED <<now, limiter>>

PingEnds(p) ==
  /\ Probe!PingOK(p) \/ Probe!PingFails(p)
  /\ UNCHANGED <<now, events, limiter>>

Outage == MayStart /\ Probe!Fails /\ UNCHANGED <<now, limiter>>

OutageEnds == Probe!Recovers /\ UNCHANGED <<now, events, limiter>>

Tick ==
  /\ now < MaxTime /\ now' = now + 1
  /\ Limiter!Later /\ Probe!Later
  /\ UNCHANGED events

Next ==
  \/ \E k \in Keys : Request(k)
  \/ \E p \in Probers : Ready(p) \/ PingEnds(p)
  \/ Mark \/ Outage \/ OutageEnds \/ Tick

Spec == Init /\ [][Next]_vars

-----------------------------------------------------------------------------
(* Properties, stated where their parts are.                                *)

\* However its requests come, a key gets what its rate and burst allow.
RateIsBounded == Limiter!RateIsBounded

\* A key is refused only for what it used itself a short while ago.
RefusedOnlyAfterUse == Limiter!RefusedOnlyAfterUse

\* GET /ready tells of an outage once the grace is over.
ReadyMeansRecentlyUp == Probe!ReadyMeansRecentlyUp

\* A brief outage is not told.
BriefOutageIsHidden == Probe!BriefOutageIsHidden

\* The replica gets requests again soon after an outage.
TrafficComesBack == Probe!TrafficComesBack
=============================================================================
