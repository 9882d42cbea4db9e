------------------------------ MODULE Readiness ------------------------------
(***************************************************************************)
(* The readiness probe: Ready of internal/handlers/health/health.go with   *)
(* Healthy and Ping of internal/store/store.go.  A running manager has a   *)
(* token (AuthManager!ServesToken), so the answer is the store's.  The     *)
(* database, and a connection pool too busy for the ping, are external: up *)
(* says whether a ping would be answered.  External as well is the kubelet *)
(* (deploy/helm, readinessProbe), which probes once per Period and sends   *)
(* no traffic after Threshold failures in a row.                           *)
(***************************************************************************)
EXTENDS Integers

CONSTANTS
  Probers,    \* who asks: the kubelet and others, maybe at the same time
  Kubelet,
  Skip,       \* no ping so soon after a good one: 10s
  Grace,      \* dbOKGrace: 45s
  Period, Threshold

VARIABLES
  now,
  up, since,   \* the database, and since when it has been so
  steady,      \* before its last outage it had been up long enough for a good ping
  dbLastOK,
  pinging,     \* the probes that wait for a ping: when they began
  seen,        \* dbLastOK as each of them read it first
  verdict,     \* the answers given at this moment, with the database as it is
  probedAt,    \* when the kubelet last began a probe
  failures, serving

NoPing == -1

Init ==
  /\ up = TRUE /\ since = now /\ steady = TRUE
  /\ dbLastOK = now  \* Open has just used the database
  /\ pinging = [p \in Probers |-> NoPing] /\ seen = [p \in Probers |-> now]
  /\ verdict = [p \in Probers |-> "none"]
  /\ probedAt = now /\ failures = 0 /\ serving = TRUE

\* The answer reaches the prober; the kubelet counts.
Answer(p, ready) ==
  /\ verdict' = [verdict EXCEPT ![p] = IF ready THEN "ready" ELSE "not_ready"]
  /\ IF p # Kubelet THEN UNCHANGED <<failures, serving>>
     ELSE IF ready THEN failures' = 0 /\ serving' = TRUE
     ELSE /\ failures' = IF failures < Threshold THEN failures + 1 ELSE failures
          /\ serving' = (serving /\ failures' < Threshold)

Asks(p) ==
  /\ pinging[p] = NoPing
  /\ probedAt' = IF p = Kubelet THEN now ELSE probedAt

\* BROKEN: the short cut is as long as the grace.
FreshBroken(t) == now - t < Grace

\* Healthy answers without a ping so soon after a good one ...
Fresh(t) == now - t < Skip

SkipsPing(p) ==
  /\ Asks(p) /\ Fresh(dbLastOK)
  /\ Answer(p, TRUE)
  /\ UNCHANGED <<up, since, steady, dbLastOK, pinging, seen>>

\* BROKEN: a database that was down for longer than the grace is given up.
StartsPingBroken(p) ==
  /\ Asks(p) /\ ~Fresh(dbLastOK)
  /\ IF now - dbLastOK < Grace
       THEN /\ pinging' = [pinging EXCEPT ![p] = now]
            /\ verdict' = [verdict EXCEPT ![p] = "none"]
            /\ UNCHANGED <<failures, serving>>
       ELSE Answer(p, FALSE) /\ UNCHANGED pinging
  /\ seen' = [seen EXCEPT ![p] = dbLastOK]
  /\ UNCHANGED <<up, since, steady, dbLastOK>>

\* ... or else begins one, having read dbLastOK.
StartsPing(p) ==
  /\ Asks(p) /\ ~Fresh(dbLastOK)
  /\ pinging' = [pinging EXCEPT ![p] = now]
  /\ seen' = [seen EXCEPT ![p] = dbLastOK]
  /\ verdict' = [verdict EXCEPT ![p] = "none"]
  /\ UNCHANGED <<up, since, steady, dbLastOK, failures, serving>>

PingOK(p) ==
  /\ pinging[p] # NoPing /\ up
  /\ pinging' = [pinging EXCEPT ![p] = NoPing]
  /\ dbLastOK' = now
  /\ Answer(p, TRUE)
  /\ UNCHANGED <<up, since, steady, seen, probedAt>>

\* BROKEN: the time of the ping is kept though it failed.
PingFailsBroken(p) ==
  /\ pinging[p] # NoPing /\ ~up
  /\ pinging' = [pinging EXCEPT ![p] = NoPing]
  /\ dbLastOK' = now
  /\ Answer(p, now - seen[p] < Grace)
  /\ UNCHANGED <<up, since, steady, seen, probedAt>>

\* The ping times out, or fails: the grace counts from what was read first.
PingFails(p) ==
  /\ pinging[p] # NoPing /\ ~up
  /\ pinging' = [pinging EXCEPT ![p] = NoPing]
  /\ Answer(p, now - seen[p] < Grace)
  /\ UNCHANGED <<up, since, steady, dbLastOK, seen, probedAt>>

NoVerdict == [p \in Probers |-> "none"]

Turns(answers) ==
  /\ up' = answers /\ since' = now /\ verdict' = NoVerdict
  /\ UNCHANGED <<dbLastOK, pinging, seen, probedAt, failures, serving>>

\* An outage begins, maybe before anybody has noticed the end of the last one.
Fails ==
  /\ up /\ steady' = (now - since > Skip + Period)
  /\ Turns(FALSE)

Recovers ==
  /\ ~up /\ Turns(TRUE)
  /\ UNCHANGED steady

\* A moment passes: a ping ends within pingTimeout, far less than a moment
\* (but it may see a moment end), and the kubelet does not skip a probe.
Later ==
  /\ \A p \in Probers : pinging[p] \in {NoPing, now}
  /\ now - probedAt < Period
  /\ verdict' = NoVerdict
  /\ UNCHANGED <<up, since, steady, dbLastOK, pinging, seen, probedAt, failures, serving>>

-----------------------------------------------------------------------------
(* Properties.                                                              *)

\* Ready means the database answered less than the grace ago: an outage is
\* reported by then, however the probes fall and overlap.
ReadyMeansRecentlyUp ==
  \A p \in Probers : verdict[p] = "ready" => up \/ now - since < Grace

\* Healthy: "so brief pool saturation during load does not flap readiness".
\* Probed regularly, no prober is told "not ready" before an outage has
\* lasted as long as the grace exceeds the time between two good pings.  (One
\* can be, whose failing ping overlaps another's good one: it goes by the
\* dbLastOK it read first.  So can all, if the database flaps and no ping fell
\* into the moments it was up.)
BriefOutageIsHidden ==
  \A p \in Probers : verdict[p] = "not_ready" /\ seen[p] = dbLastOK /\ steady
                        => ~up /\ now - since >= Grace - Skip - Period

\* Traffic comes back: within one period and a ping of the database's return.
TrafficComesBack == up /\ now - since > Period + 1 => serving
=============================================================================
