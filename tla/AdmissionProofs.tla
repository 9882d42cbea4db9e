-------------------------- MODULE AdmissionProofs --------------------------
(***************************************************************************)
(* Proofs about Admission, for any keys, rates, bursts and probers and any *)
(* skip, grace, period and threshold: what Healthy tells of outages, and   *)
(* what the limiters let in.                                               *)
(***************************************************************************)
EXTENDS Admission, TLAPS

-----------------------------------------------------------------------------
(* The probes.                                                              *)

ProbeTyped ==
  /\ now \in Nat /\ up \in BOOLEAN /\ steady \in BOOLEAN /\ since \in Nat /\ since <= now
  /\ dbLastOK \in Nat /\ dbLastOK <= now
  /\ probedAt \in Nat /\ probedAt <= now /\ now - probedAt <= Period
  /\ pinging \in [Probers -> Nat \cup {-1}]
  /\ seen \in [Probers -> Nat]
  /\ verdict \in [Probers -> {"none", "ready", "not_ready"}]
  /\ failures \in Nat /\ serving \in BOOLEAN
  /\ pinging[Kubelet] # -1 => pinging[Kubelet] = probedAt /\ now <= probedAt + 1

\* What Healthy goes by: the copy a probe reads is never newer than dbLastOK,
\* which stands still in an outage.
Honest ==
  /\ \A p \in Probers : seen[p] <= dbLastOK
  /\ ~up => dbLastOK <= since
  /\ \A p \in Probers : verdict[p] = "ready" => up \/ now - since < Grace

\* A probe that began after the database came back, and has ended, left the
\* replica in service with a good ping that was recent then; while the next
\* one is under way, that is still known of the last.
Recent ==
  up => /\ pinging[Kubelet] = -1 /\ since < probedAt
             => dbLastOK > probedAt - Skip /\ serving
        /\ pinging[Kubelet] # -1 /\ since < probedAt - Period
             => dbLastOK > probedAt - Period - Skip /\ serving

\* So an outage begins soon after a good ping, unless the database was up too
\* briefly for one.
Hidden ==
  /\ ~up /\ steady => since - dbLastOK <= Skip + Period
  /\ \A p \in Probers : verdict[p] = "not_ready"
       => ~up /\ now - seen[p] >= Grace

ProbeInv == ProbeTyped /\ Honest /\ Recent /\ Hidden

\* Whatever is answered, the count and the verdicts keep their types.
LEMMA AnswerTyped ==
  ASSUME ProbeTyped, NEW p \in Probers, NEW b \in BOOLEAN, Probe!Answer(p, b)
  PROVE  /\ verdict' \in [Probers -> {"none", "ready", "not_ready"}]
         /\ failures' \in Nat /\ serving' \in BOOLEAN
<1>1. verdict' \in [Probers -> {"none", "ready", "not_ready"}]
  BY DEF ProbeTyped, Probe!Answer
<1>2. failures' \in Nat
  BY ProbeAssumption DEF ProbeTyped, Probe!Answer
<1>3. serving' \in BOOLEAN
  BY DEF ProbeTyped, Probe!Answer
<1>4. QED
  BY <1>1, <1>2, <1>3

\* A replica starts with what Open has just seen of the database.
LEMMA ProbeStart == Init => ProbeInv
BY ProbeAssumption DEF Init, Probe!Init, Probe!NoPing, ProbeInv, ProbeTyped, Honest, Recent, Hidden

\* Probes that answer from the last ping or ping themselves, outages and time
\* preserve what is known of the last good ping.
LEMMA ProbeStep == ProbeInv /\ [Next]_vars => ProbeInv'
<1> SUFFICES ASSUME ProbeInv, [Next]_vars PROVE ProbeInv'
  OBVIOUS
<1> USE ProbeAssumption DEF ProbeInv, Probe!NoPing
<1>1. ASSUME NEW p \in Probers, Probe!SkipsPing(p), now' = now PROVE ProbeInv'
  <2> USE <1>1 DEF Probe!SkipsPing, Probe!Asks, Probe!Fresh, Probe!Answer
  <2>1. ProbeTyped'
    <3>1. Probe!Answer(p, TRUE)
      BY <1>1 DEF Probe!SkipsPing, Probe!Asks
    <3>2. /\ verdict' \in [Probers -> {"none", "ready", "not_ready"}]
          /\ failures' \in Nat /\ serving' \in BOOLEAN
      BY <3>1, AnswerTyped
    <3>3. QED
      BY <3>2 DEF ProbeTyped
  <2>2. Honest'
    BY DEF ProbeTyped, Honest
  <2>3. Recent'
    BY DEF ProbeTyped, Recent
  <2>4. Hidden'
    BY DEF ProbeTyped, Hidden
  <2>5. QED
    BY <2>1, <2>2, <2>3, <2>4
<1>2. ASSUME NEW p \in Probers, Probe!StartsPing(p), now' = now PROVE ProbeInv'
  <2> USE <1>2 DEF Probe!StartsPing, Probe!Asks, Probe!Fresh
  <2>1. ProbeTyped'
    BY DEF ProbeTyped
  <2>2. Honest'
    BY DEF ProbeTyped, Honest
  <2>3. Recent'
    BY DEF ProbeTyped, Recent
  <2>4. Hidden'
    BY DEF ProbeTyped, Hidden
  <2>5. QED
    BY <2>1, <2>2, <2>3, <2>4
<1>3. ASSUME NEW p \in Probers, Probe!PingOK(p), now' = now PROVE ProbeInv'
  <2> USE <1>3 DEF Probe!PingOK, Probe!Answer
  <2>1. ProbeTyped'
    <3>1. Probe!Answer(p, TRUE)
      BY <1>3 DEF Probe!PingOK
    <3>2. /\ verdict' \in [Probers -> {"none", "ready", "not_ready"}]
          /\ failures' \in Nat /\ serving' \in BOOLEAN
      BY <3>1, AnswerTyped
    <3>3. QED
      BY <3>2 DEF ProbeTyped
  <2>2. Honest'
    BY DEF ProbeTyped, Honest
  <2>3. Recent'
    BY DEF ProbeTyped, Recent
  <2>4. Hidden'
    BY DEF ProbeTyped, Hidden
  <2>5. QED
    BY <2>1, <2>2, <2>3, <2>4
<1>4. ASSUME NEW p \in Probers, Probe!PingFails(p), now' = now PROVE ProbeInv'
  <2> USE <1>4 DEF Probe!PingFails, Probe!Answer
  <2>1. ProbeTyped'
    <3>1. Probe!Answer(p, (now - seen[p] < Grace))
      BY <1>4 DEF Probe!PingFails
    <3>2. /\ verdict' \in [Probers -> {"none", "ready", "not_ready"}]
          /\ failures' \in Nat /\ serving' \in BOOLEAN
      BY <3>1, AnswerTyped
    <3>3. QED
      BY <3>2 DEF ProbeTyped
  <2>2. Honest'
    BY DEF ProbeTyped, Honest
  <2>3. Recent'
    BY DEF ProbeTyped, Recent
  <2>4. Hidden'
    BY DEF ProbeTyped, Honest, Hidden
  <2>5. QED
    BY <2>1, <2>2, <2>3, <2>4
<1>5. ASSUME Probe!Fails, now' = now PROVE ProbeInv'
  <2> USE <1>5 DEF Probe!Fails, Probe!Turns, Probe!NoVerdict
  <2>1. ProbeTyped'
    <3>1. up' \in BOOLEAN /\ since' = now /\ steady' \in BOOLEAN
      <4>1. steady' = TRUE \/ steady' = FALSE
        <5>1. CASE now - since > Skip + Period
          BY <1>5, <5>1
        <5>2. CASE ~(now - since > Skip + Period)
          BY <1>5, <5>2
        <5>3. QED
          BY <5>1, <5>2
      <4>2. QED
        BY <4>1
    <3>2. verdict' \in [Probers -> {"none", "ready", "not_ready"}]
      OBVIOUS
    <3>3. UNCHANGED <<dbLastOK, pinging, seen, probedAt, failures, serving>>
      OBVIOUS
    <3>4. now' = now
      BY <1>5
    <3> HIDE <1>5 DEF Probe!Fails, Probe!Turns, Probe!NoVerdict
    <3>5. /\ pinging'[Kubelet] # -1 => pinging'[Kubelet] = probedAt' /\ now' <= probedAt' + 1
          /\ since' \in Nat /\ since' <= now' /\ now' \in Nat
          /\ dbLastOK' \in Nat /\ dbLastOK' <= now'
          /\ probedAt' \in Nat /\ probedAt' <= now' /\ now' - probedAt' <= Period
      BY <3>1, <3>3, <3>4 DEF ProbeTyped
    <3>6. /\ pinging' \in [Probers -> Nat \cup {-1}] /\ seen' \in [Probers -> Nat]
          /\ failures' \in Nat /\ serving' \in BOOLEAN
      BY <3>3 DEF ProbeTyped
    <3>7. QED
      BY <3>1, <3>2, <3>5, <3>6 DEF ProbeTyped
  <2>2. Honest'
    BY DEF ProbeTyped, Honest
  <2>3. Recent'
    BY DEF Recent
  <2>4. steady' => since' - dbLastOK' <= Skip + Period
    <3>1. steady' => now - since > Skip + Period
      BY <1>5
    <3>2. up /\ since' = now /\ dbLastOK' = dbLastOK
      OBVIOUS
    <3>3. QED
      BY <3>1, <3>2 DEF ProbeTyped, Recent
  <2>5. Hidden'
    BY <2>4 DEF ProbeTyped, Hidden
  <2>6. QED
    BY <2>1, <2>2, <2>3, <2>5
<1>6. ASSUME Probe!Recovers, now' = now PROVE ProbeInv'
  BY <1>6 DEF Probe!Recovers, Probe!Turns, Probe!NoVerdict, ProbeTyped, Honest, Recent, Hidden
<1>7. ASSUME Probe!Later, now' = now + 1 PROVE ProbeInv'
  <2> USE <1>7 DEF Probe!Later, Probe!NoVerdict
  <2>1. ProbeTyped'
    BY DEF ProbeTyped
  <2>2. Honest' /\ Recent' /\ Hidden'
    BY DEF ProbeTyped, Honest, Recent, Hidden
  <2>3. QED
    BY <2>1, <2>2
<1>8. ASSUME UNCHANGED <<now, probe>> PROVE ProbeInv'
  BY <1>8 DEF probe, ProbeTyped, Honest, Recent, Hidden
<1>9. QED
  BY <1>1, <1>2, <1>3, <1>4, <1>5, <1>6, <1>7, <1>8
     DEF Next, Request, Mark, Ready, PingEnds, Outage, OutageEnds, Tick, vars

\* For any timing of any number of overlapping probes: "ready" is never told
\* once an outage has lasted as long as dbOKGrace.
THEOREM ReadyIsRecent == Spec => []ReadyMeansRecentlyUp
<1>1. ProbeInv => ReadyMeansRecentlyUp
  BY DEF ProbeInv, Honest, ReadyMeansRecentlyUp, Probe!ReadyMeansRecentlyUp
<1>2. QED
  BY ProbeStart, ProbeStep, <1>1, PTL DEF Spec

\* An outage shorter than the grace, less what may lie between two good pings
\* of a regular prober, is not told to anyone whose copy of dbLastOK is good.
THEOREM OutageIsHidden == Spec => []BriefOutageIsHidden
<1>1. ProbeInv => BriefOutageIsHidden
  BY ProbeAssumption DEF ProbeInv, ProbeTyped, Hidden, BriefOutageIsHidden,
     Probe!BriefOutageIsHidden
<1>2. QED
  BY ProbeStart, ProbeStep, <1>1, PTL DEF Spec

\* However long an outage was and however many probes failed, the replica is
\* back in service one period and a ping after the database is.
THEOREM TrafficReturns == Spec => []TrafficComesBack
<1>1. ProbeInv => TrafficComesBack
  BY ProbeAssumption DEF ProbeInv, ProbeTyped, Recent, TrafficComesBack,
     Probe!TrafficComesBack
<1>2. QED
  BY ProbeStart, ProbeStep, <1>1, PTL DEF Spec

-----------------------------------------------------------------------------
(* The limiters.                                                            *)

\* A rate is positive, and a bucket has room for one request at least.
LEMMA BucketFacts ==
  \A k \in Keys :
    /\ Limiter!RateOf(k) \in Nat /\ Limiter!RateOf(k) > 0
    /\ Limiter!Full(k) \in Nat /\ Limiter!Full(k) >= Unit
<1>1. SUFFICES ASSUME NEW k \in Keys
               PROVE  /\ Limiter!RateOf(k) \in Nat /\ Limiter!RateOf(k) > 0
                      /\ Limiter!Full(k) \in Nat /\ Limiter!Full(k) >= Unit
  OBVIOUS
<1>2. Limiter!RateOf(k) \in Nat /\ Limiter!RateOf(k) > 0
  BY LimitAssumption DEF Limiter!RateOf, Limiter!Overridden
<1>3. Limiter!BurstOf(k) \in Nat /\ Limiter!BurstOf(k) >= 1
  BY LimitAssumption DEF Limiter!BurstOf, Limiter!Overridden
<1>4. \A b \in Nat, u \in Nat : b >= 1 => b * u \in Nat /\ b * u >= u
  OBVIOUS
<1>5. QED
  BY <1>2, <1>3, <1>4, LimitAssumption DEF Limiter!Full

LimiterTyped ==
  /\ now \in Nat /\ markAt \in Nat /\ markAt <= now
  /\ made \subseteq Keys /\ refused \subseteq made
  /\ tokens \in [Keys -> Nat] /\ last \in [Keys -> Nat] /\ admitted \in [Keys -> Nat]
  /\ passedAt \in [Keys -> Nat \cup {Limiter!Never}]
  /\ \A k \in Keys : last[k] <= now /\ passedAt[k] <= now
  /\ \A k \in made : passedAt[k] \in Nat

\* What was let in since the mark and what is still there were in the bucket at
\* the mark or have been added since.
Budgeted ==
  \A k \in Keys : Unit * admitted[k] + Limiter!Level(k)
                    <= Limiter!Full(k) + Limiter!RateOf(k) * (now - markAt)

\* A bucket holds at least what was added since the last request it let in, or
\* is full; one that has just refused a request is short of one.
Refilled ==
  /\ \A k \in made : \/ Limiter!Level(k) = Limiter!Full(k)
                     \/ Limiter!RateOf(k) * (now - passedAt[k]) <= Limiter!Level(k)
  /\ \A k \in refused : Limiter!Level(k) < Unit

LimiterInv == LimiterTyped /\ Budgeted /\ Refilled

\* What the limiters' constants are, they stay.
LEMMA SameLimits ==
  ASSUME NEW k \in Keys
  PROVE  Limiter!Full(k)' = Limiter!Full(k) /\ Limiter!RateOf(k)' = Limiter!RateOf(k)
BY DEF Limiter!Full, Limiter!RateOf, Limiter!BurstOf, Limiter!Overridden

\* A bucket is never below zero nor above its burst.
LEMMA LevelTyped ==
  LimiterTyped =>
    \A k \in Keys : Limiter!Level(k) \in Nat /\ Limiter!Level(k) <= Limiter!Full(k)
<1> SUFFICES ASSUME LimiterTyped, NEW k \in Keys
             PROVE  Limiter!Level(k) \in Nat /\ Limiter!Level(k) <= Limiter!Full(k)
  OBVIOUS
<1>1. \A r \in Nat, d \in Nat : r * d \in Nat
  OBVIOUS
<1>2. Limiter!RateOf(k) * (now - last[k]) \in Nat
  BY <1>1, BucketFacts DEF LimiterTyped
<1>3. QED
  BY <1>2, BucketFacts DEF LimiterTyped, Limiter!Level

\* A request leaves n tokens in its key's bucket and does not touch the others.
LEMMA LevelAfterUse ==
  ASSUME LimiterTyped, NEW k \in Keys, NEW n \in Nat, n <= Limiter!Level(k),
         made' = made \cup {k}, tokens' = [tokens EXCEPT ![k] = n],
         last' = [last EXCEPT ![k] = now], now' = now
  PROVE  /\ Limiter!Level(k)' = n
         /\ \A j \in Keys \ {k} : Limiter!Level(j)' = Limiter!Level(j)
<1>1. n <= Limiter!Full(k)
  BY LevelTyped, BucketFacts
<1>2. Limiter!RateOf(k) * (now - now) = 0
  <2>1. now - now = 0
    BY DEF LimiterTyped
  <2>2. \A r \in Nat : r * 0 = 0
    OBVIOUS
  <2>3. QED
    BY <2>1, <2>2, BucketFacts
<1>3. tokens'[k] = n /\ last'[k] = now /\ k \in made'
  BY DEF LimiterTyped
<1>4. Limiter!Level(k)' = n
  BY <1>1, <1>2, <1>3, SameLimits, BucketFacts DEF Limiter!Level
<1>5. \A j \in Keys \ {k} : Limiter!Level(j)' = Limiter!Level(j)
  BY SameLimits DEF LimiterTyped, Limiter!Level
<1>6. QED
  BY <1>4, <1>5

\* In a moment a bucket gains its rate, or is full before that.
LEMMA LevelAfterTick ==
  ASSUME LimiterTyped, NEW k \in Keys, UNCHANGED <<made, tokens, last>>, now' = now + 1
  PROVE  /\ Limiter!Level(k)' <= Limiter!Level(k) + Limiter!RateOf(k)
         /\ \/ Limiter!Level(k)' = Limiter!Full(k)
            \/ Limiter!Level(k)' = Limiter!Level(k) + Limiter!RateOf(k)
<1> DEFINE r == Limiter!RateOf(k)
           grown == tokens[k] + r * (now - last[k])
<1>1. \A x \in Nat, d \in Nat : x * d \in Nat /\ x * (d + 1) = x * d + x
  OBVIOUS
<1>2. now - last[k] \in Nat /\ now' - last[k] = (now - last[k]) + 1
  BY DEF LimiterTyped
<1>3. grown \in Nat /\ tokens[k] + r * (now' - last[k]) = grown + r
  BY <1>1, <1>2, BucketFacts DEF LimiterTyped
<1>4. Limiter!Level(k) = IF k \notin made \/ grown > Limiter!Full(k) THEN Limiter!Full(k) ELSE grown
  BY DEF Limiter!Level
<1>5. Limiter!Level(k)' = IF k \notin made \/ grown + r > Limiter!Full(k) THEN Limiter!Full(k)
                          ELSE grown + r
  BY <1>3, SameLimits DEF Limiter!Level
<1>6. r \in Nat /\ Limiter!Full(k) \in Nat
  BY BucketFacts
<1> HIDE DEF r, grown
<1>7. QED
  BY <1>3, <1>4, <1>5, <1>6 DEF r

\* get makes a limiter with a full bucket.
LEMMA LimiterStart == Init => LimiterInv
<1> SUFFICES ASSUME Init PROVE LimiterInv
  OBVIOUS
<1> USE DEF Init, Limiter!Init, Limiter!Never
<1>1. LimiterTyped
  BY DEF LimiterTyped
<1>2. \A k \in Keys : Limiter!Level(k) = Limiter!Full(k)
  BY DEF Limiter!Level
<1>3. \A k \in Keys : Unit * admitted[k] = 0 /\ Limiter!RateOf(k) * (now - markAt) = 0
  <2>1. \A x \in Nat : x * 0 = 0
    OBVIOUS
  <2>2. now - markAt = 0 /\ \A k \in Keys : admitted[k] = 0
    OBVIOUS
  <2>3. QED
    BY <2>1, <2>2, LimitAssumption, BucketFacts
<1>4. QED
  BY <1>1, <1>2, <1>3, BucketFacts DEF LimiterInv, Budgeted, Refilled

\* A request takes its token from what is there, and time adds no more than
\* the rate: the budget is kept wherever the measuring interval began.
LEMMA LimiterStep == LimiterInv /\ [Next]_vars => LimiterInv'
<1> SUFFICES ASSUME LimiterInv, [Next]_vars PROVE LimiterInv'
  OBVIOUS
<1> USE LimitAssumption DEF Limiter!Never
<1>t. LimiterTyped /\ Budgeted /\ Refilled
  BY DEF LimiterInv
<1>l. \A k \in Keys : Limiter!Level(k) \in Nat /\ Limiter!Level(k) <= Limiter!Full(k)
  BY <1>t, LevelTyped
<1>1. ASSUME NEW k \in Keys, Limiter!Allow(k), now' = now PROVE LimiterInv'
  <2> DEFINE n == Limiter!Level(k) - Unit
  <2>1. n \in Nat /\ n <= Limiter!Level(k)
    BY <1>1, <1>l DEF Limiter!Allow
  <2>2. /\ made' = made \cup {k} /\ tokens' = [tokens EXCEPT ![k] = n]
        /\ last' = [last EXCEPT ![k] = now]
    BY <1>1 DEF Limiter!Allow
  <2> HIDE DEF n
  <2>3. LimiterTyped'
    BY <1>1, <1>t, <2>1, <2>2 DEF Limiter!Allow, LimiterTyped
  <2>4. Limiter!Level(k)' = n /\ \A j \in Keys \ {k} : Limiter!Level(j)' = Limiter!Level(j)
    BY <1>1, <1>t, <2>1, <2>2, LevelAfterUse
  <2>5. Budgeted'
    <3>1. \A a \in Nat : Unit * (a + 1) = Unit * a + Unit
      OBVIOUS
    <3>2. Unit * admitted'[k] + n = Unit * admitted[k] + Limiter!Level(k)
      <4>1. admitted[k] \in Nat /\ admitted'[k] = admitted[k] + 1
        BY <1>1, <1>t DEF Limiter!Allow, LimiterTyped
      <4>2. Unit * admitted'[k] = Unit * admitted[k] + Unit /\ Unit * admitted[k] \in Nat
        BY <3>1, <4>1
      <4>3. QED
        BY <4>2, <1>l DEF n
    <3>3. \A j \in Keys \ {k} : admitted'[j] = admitted[j]
      BY <1>1, <1>t DEF Limiter!Allow, LimiterTyped
    <3>4. markAt' = markAt
      BY <1>1 DEF Limiter!Allow
    <3>5. QED
      BY <1>1, <1>t, <2>4, <3>2, <3>3, <3>4, SameLimits DEF Budgeted
  <2>6. Refilled'
    <3>1. Limiter!RateOf(k) * (now' - passedAt'[k]) = 0
      <4>1. now' - passedAt'[k] = 0
        BY <1>1, <1>t DEF Limiter!Allow, LimiterTyped
      <4>2. \A r \in Nat : r * 0 = 0
        OBVIOUS
      <4>3. QED
        BY <4>1, <4>2, BucketFacts
    <3>2. \A j \in made' \ {k} : j \in made /\ passedAt'[j] = passedAt[j]
      BY <1>1, <1>t, <2>2 DEF Limiter!Allow, LimiterTyped
    <3>3. refused' = refused \ {k}
      BY <1>1 DEF Limiter!Allow
    <3>4. made' \subseteq Keys /\ refused \subseteq Keys
      BY <1>t, <2>3 DEF LimiterTyped
    <3>5. QED
      BY <1>1, <1>t, <2>1, <2>4, <3>1, <3>2, <3>3, <3>4, SameLimits DEF Refilled
  <2>7. QED
    BY <2>3, <2>5, <2>6 DEF LimiterInv
<1>2. ASSUME NEW k \in Keys, Limiter!TooMany(k), now' = now PROVE LimiterInv'
  <2>1. /\ made' = made \cup {k} /\ tokens' = [tokens EXCEPT ![k] = Limiter!Level(k)]
        /\ last' = [last EXCEPT ![k] = now]
        /\ UNCHANGED <<admitted, markAt, passedAt>> /\ refused' = refused \cup {k}
    BY <1>2 DEF Limiter!TooMany
  <2>2. k \in made
    BY <1>2, BucketFacts DEF Limiter!TooMany, Limiter!Level
  <2>3. LimiterTyped'
    BY <1>2, <1>t, <1>l, <2>1, <2>2 DEF LimiterTyped
  <2>4. \A j \in Keys : Limiter!Level(j)' = Limiter!Level(j)
    <3> DEFINE n == Limiter!Level(k)
    <3>1. n \in Nat /\ n <= Limiter!Level(k)
      BY <1>l
    <3>2. tokens' = [tokens EXCEPT ![k] = n]
      BY <2>1
    <3> HIDE DEF n
    <3>3. Limiter!Level(k)' = n /\ \A j \in Keys \ {k} : Limiter!Level(j)' = Limiter!Level(j)
      BY <1>2, <1>t, <2>1, <3>1, <3>2, LevelAfterUse
    <3>4. QED
      BY <3>3 DEF n
  <2>5. Budgeted'
    BY <1>2, <1>t, <2>1, <2>4, SameLimits DEF Budgeted
  <2>6. Limiter!Level(k) < Unit
    BY <1>2 DEF Limiter!TooMany
  <2>7. Refilled'
    BY <1>2, <1>t, <2>1, <2>2, <2>4, <2>6, SameLimits DEF Refilled, LimiterTyped
  <2>8. QED
    BY <2>3, <2>5, <2>7 DEF LimiterInv
<1>3. ASSUME Limiter!Mark, now' = now PROVE LimiterInv'
  <2>1. LimiterTyped'
    BY <1>3, <1>t DEF Limiter!Mark, Limiter!limiters, LimiterTyped
  <2>2. \A j \in Keys : Limiter!Level(j)' = Limiter!Level(j)
    BY <1>3, SameLimits DEF Limiter!Mark, Limiter!limiters, Limiter!Level
  <2>3. \A j \in Keys : Unit * admitted'[j] = 0 /\ Limiter!RateOf(j) * (now' - markAt') = 0
    <3>1. now' - markAt' = 0 /\ \A j \in Keys : admitted'[j] = 0
      BY <1>3, <1>t DEF Limiter!Mark, LimiterTyped
    <3>2. \A x \in Nat : x * 0 = 0
      OBVIOUS
    <3>3. QED
      BY <3>1, <3>2, BucketFacts
  <2>4. Budgeted'
    BY <1>l, <2>2, <2>3, SameLimits, BucketFacts DEF Budgeted
  <2>5. Refilled'
    BY <1>3, <1>t, <2>2, SameLimits DEF Limiter!Mark, Limiter!limiters, Refilled, LimiterTyped
  <2>6. QED
    BY <2>1, <2>4, <2>5 DEF LimiterInv
<1>4. ASSUME Limiter!Later, now' = now + 1 PROVE LimiterInv'
  <2>1. /\ UNCHANGED <<made, tokens, last, admitted, markAt, passedAt>> /\ refused' = {}
    BY <1>4 DEF Limiter!Later, Limiter!limiters
  <2>2. LimiterTyped'
    BY <1>4, <1>t, <2>1 DEF LimiterTyped
  <2>l. \A k \in Keys : Limiter!Level(k)' \in Nat /\ Limiter!Level(k)' <= Limiter!Full(k)'
    <3>1. (LimiterTyped =>
             \A k \in Keys : Limiter!Level(k) \in Nat /\ Limiter!Level(k) <= Limiter!Full(k))'
      BY LevelTyped, PTL
    <3>2. QED
      BY <2>2, <3>1
  <2>3. \A x \in Nat, d \in Nat : x * d \in Nat /\ x * (d + 1) = x * d + x
    OBVIOUS
  <2>4. now - markAt \in Nat /\ now' - markAt' = (now - markAt) + 1
    BY <1>4, <1>t, <2>1 DEF LimiterTyped
  <2>5. \A k \in Keys : Limiter!Level(k)' <= Limiter!Level(k) + Limiter!RateOf(k)
    BY <1>4, <1>t, <2>1, LevelAfterTick
  <2>6. ASSUME NEW k \in Keys
        PROVE  Unit * admitted'[k] + Limiter!Level(k)'
                 <= Limiter!Full(k)' + Limiter!RateOf(k)' * (now' - markAt')
    <3>1. Limiter!RateOf(k) * (now' - markAt')
            = Limiter!RateOf(k) * (now - markAt) + Limiter!RateOf(k)
      BY <2>3, <2>4, BucketFacts
    <3>2. Unit * admitted[k] \in Nat /\ Limiter!RateOf(k) * (now - markAt) \in Nat
      BY <1>t, <2>3, <2>4, BucketFacts DEF LimiterTyped
    <3>3. Limiter!Level(k)' \in Nat
      BY <2>l
    <3>4. QED
      BY <1>t, <1>l, <2>1, <2>5, <3>1, <3>2, <3>3, SameLimits, BucketFacts DEF Budgeted
  <2>7. Budgeted'
    BY <2>6 DEF Budgeted
  <2>8. ASSUME NEW k \in made
        PROVE  \/ Limiter!Level(k)' = Limiter!Full(k)
               \/ Limiter!RateOf(k) * (now' - passedAt'[k]) <= Limiter!Level(k)'
    <3>1. k \in Keys
      BY <1>t DEF LimiterTyped
    <3>2. now - passedAt[k] \in Nat /\ now' - passedAt'[k] = (now - passedAt[k]) + 1
      BY <1>4, <1>t, <2>1, <3>1 DEF LimiterTyped
    <3>3. /\ Limiter!RateOf(k) * (now' - passedAt'[k])
               = Limiter!RateOf(k) * (now - passedAt[k]) + Limiter!RateOf(k)
          /\ Limiter!RateOf(k) * (now - passedAt[k]) \in Nat
      BY <2>3, <3>1, <3>2, BucketFacts
    <3>4. \/ Limiter!Level(k)' = Limiter!Full(k)
          \/ Limiter!Level(k)' = Limiter!Level(k) + Limiter!RateOf(k)
      BY <1>4, <1>t, <2>1, <3>1, LevelAfterTick
    <3>5. CASE Limiter!Level(k) = Limiter!Full(k)
      <4>1. Limiter!Level(k)' <= Limiter!Full(k)
        BY <2>l, <3>1, SameLimits
      <4>2. QED
        BY <3>1, <3>4, <3>5, <4>1, BucketFacts
    <3>6. CASE Limiter!RateOf(k) * (now - passedAt[k]) <= Limiter!Level(k)
      BY <1>l, <3>1, <3>3, <3>4, <3>6, BucketFacts
    <3>7. QED
      BY <1>t, <3>5, <3>6 DEF Refilled
  <2>9. Refilled'
    BY <1>t, <2>1, <2>8, SameLimits DEF Refilled, LimiterTyped
  <2>10. QED
    BY <2>2, <2>7, <2>9 DEF LimiterInv
<1>5. ASSUME UNCHANGED <<now, limiter>> PROVE LimiterInv'
  BY <1>5 DEF limiter, LimiterInv, LimiterTyped, Budgeted, Refilled, Limiter!Level,
     Limiter!Full, Limiter!RateOf, Limiter!BurstOf, Limiter!Overridden
<1>6. QED
  BY <1>1, <1>2, <1>3, <1>4, <1>5
     DEF Next, Request, Mark, Ready, PingEnds, Outage, OutageEnds, Tick, vars

\* For any rates, bursts and request times, and whatever other keys do: from any
\* moment on, a key is let in as often as its burst and rate allow, at most.
THEOREM RateBounded == Spec => []RateIsBounded
<1>1. LimiterInv => RateIsBounded
  <2> SUFFICES ASSUME LimiterInv, NEW k \in Keys
               PROVE  Unit * admitted[k]
                        <= Limiter!Full(k) + Limiter!RateOf(k) * (now - markAt)
    BY DEF RateIsBounded, Limiter!RateIsBounded
  <2>1. Limiter!Level(k) \in Nat
    BY LevelTyped DEF LimiterInv
  <2>2. \A x \in Nat, d \in Nat : x * d \in Nat
    OBVIOUS
  <2>3. Unit * admitted[k] \in Nat /\ Limiter!RateOf(k) * (now - markAt) \in Nat
    BY <2>2, LimitAssumption, BucketFacts DEF LimiterInv, LimiterTyped
  <2>4. QED
    BY <2>1, <2>3, BucketFacts DEF LimiterInv, Budgeted
<1>2. QED
  BY LimiterStart, LimiterStep, <1>1, PTL DEF Spec

\* However low its override, a key is refused only within one interval of its
\* rate after a request it was granted.
THEOREM RefusalsAreEarned == Spec => []RefusedOnlyAfterUse
<1>1. LimiterInv => RefusedOnlyAfterUse
  <2> SUFFICES ASSUME LimiterInv, NEW k \in refused
               PROVE  /\ passedAt[k] # Limiter!Never
                      /\ Limiter!RateOf(k) * (now - passedAt[k]) < Unit
    BY DEF RefusedOnlyAfterUse, Limiter!RefusedOnlyAfterUse
  <2>1. k \in made /\ k \in Keys /\ passedAt[k] \in Nat /\ now - passedAt[k] \in Nat
    BY DEF LimiterInv, LimiterTyped
  <2>2. Limiter!Level(k) \in Nat
    BY <2>1, LevelTyped DEF LimiterInv
  <2>3. \A x \in Nat, d \in Nat : x * d \in Nat
    OBVIOUS
  <2>4. Limiter!RateOf(k) * (now - passedAt[k]) \in Nat
    BY <2>1, <2>3, BucketFacts DEF LimiterInv, LimiterTyped
  <2>5. QED
    BY <2>1, <2>2, <2>4, BucketFacts, LimitAssumption DEF LimiterInv, Refilled, Limiter!Never
<1>2. QED
  BY LimiterStart, LimiterStep, <1>1, PTL DEF Spec
=============================================================================
