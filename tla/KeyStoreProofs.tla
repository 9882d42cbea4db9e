--------------------------- MODULE KeyStoreProofs ---------------------------
(***************************************************************************)
(* Proofs about KeyStore, for any number of keys, replicas, requests and   *)
(* any TTL: the inductive invariant StalenessInv, the two bounds it        *)
(* carries, and the refinement of KeyService.                              *)
(***************************************************************************)
EXTENDS KeyStore, TLAPS

\* Every step keeps the types.
LEMMA TypeStep == TypeOK /\ [Next]_vars => TypeOK'
<1> SUFFICES ASSUME TypeOK, [Next]_vars PROVE TypeOK'
    OBVIOUS
<1> USE KeyStoreAssumption, NoneAssumption DEF TypeOK, Job, NoJob, CacheEntry, Write, table
<1>1. ASSUME NEW k \in Keys, CreateKey(k) PROVE TypeOK'
    BY <1>1 DEF CreateKey
<1>2. ASSUME NEW a \in Admins, NEW k \in Keys, RevokeKey(a, k) PROVE TypeOK'
    BY <1>2 DEF RevokeKey, Revoke
<1>3. ASSUME NEW a \in Admins, NEW k \in Keys, RevokeKeyFails(a, k) PROVE TypeOK'
    BY <1>3 DEF RevokeKeyFails, Revoke, Fault
<1>4. ASSUME NEW v \in Validators, NEW k \in Keys, Validate(v, k) PROVE TypeOK'
    BY <1>4 DEF Validate, Goto
<1>5. ASSUME NEW a \in Admins, InvalidateCache(a) PROVE TypeOK'
    BY <1>5 DEF InvalidateCache
<1>6. ASSUME NEW v \in Validators, CacheHit(v) PROVE TypeOK'
  <2>1. job[v] \in Job /\ pc[v] # "idle" /\ job[v].key \in Keys
    BY <1>6 DEF CacheHit, Answer, Goto, Entry
  <2>2. job' \in [Validators -> Job] /\ \A u \in Validators : job'[u].key = job[u].key
    BY <1>6, <2>1 DEF CacheHit, Answer, Goto, Entry
  <2>3. \A u \in Validators : pc'[u] # "idle" => job'[u].key \in Keys
    BY <1>6, <2>1, <2>2 DEF CacheHit, Answer, Goto, Entry
  <2>4. QED
    BY <1>6, <2>1, <2>2, <2>3 DEF CacheHit, Answer, Goto, Entry
<1>7. ASSUME NEW v \in Validators, CacheMiss(v) PROVE TypeOK'
    BY <1>7 DEF CacheMiss, Goto
<1>8. ASSUME NEW v \in Validators, CacheExpired(v) PROVE TypeOK'
    BY <1>8 DEF CacheExpired, Goto
<1>9. ASSUME NEW v \in Validators, Evict(v) PROVE TypeOK'
    BY <1>9 DEF Evict, SetEntry, Goto
<1>10. ASSUME NEW v \in Validators, Select(v) PROVE TypeOK'
  <2>1. job[v] \in Job /\ pc[v] # "idle" /\ job[v].key \in Keys
    BY <1>10 DEF Select, Answer, Goto
  <2>2. job' \in [Validators -> Job] /\ \A u \in Validators : job'[u].key = job[u].key
    <3>1. PICK answer \in {"accepted", "refused"} : job' = [job EXCEPT ![v].answer = answer]
      BY <1>10 DEF Select, Answer
    <3>2. QED
      BY <2>1, <3>1
  <2>3. \A u \in Validators : pc'[u] # "idle" => job'[u].key \in Keys
    BY <1>10, <2>1, <2>2 DEF Select, Answer, Goto
  <2>4. QED
    BY <1>10, <2>1, <2>2, <2>3 DEF Select, Answer, Goto
<1>11. ASSUME NEW v \in Validators, SelectFails(v) PROVE TypeOK'
  <2>1. job[v] \in Job /\ pc[v] # "idle" /\ job[v].key \in Keys
    BY <1>11 DEF SelectFails, Answer, Goto, Fault
  <2>2. job' \in [Validators -> Job] /\ \A u \in Validators : job'[u].key = job[u].key
    BY <1>11, <2>1 DEF SelectFails, Answer, Goto, Fault
  <2>3. \A u \in Validators : pc'[u] # "idle" => job'[u].key \in Keys
    BY <1>11, <2>1, <2>2 DEF SelectFails, Answer, Goto, Fault
  <2>4. QED
    BY <1>11, <2>1, <2>2, <2>3 DEF SelectFails, Answer, Goto, Fault
<1>12. ASSUME NEW v \in Validators, CachePut(v) PROVE TypeOK'
    BY <1>12 DEF CachePut, SetEntry, Goto
<1>13. ASSUME NEW v \in Validators, TouchLastUsed(v) PROVE TypeOK'
  <2>1. pc' = [pc EXCEPT ![v] = "done"] /\ UNCHANGED <<now, table, job, invalidating, faults>>
    BY <1>13 DEF TouchLastUsed, Goto
  <2>2. CASE Throttled(v)
    BY <1>13, <2>1, <2>2 DEF TouchLastUsed
  <2>3. CASE ~Throttled(v)
    <3>1. At[v] \in Replicas /\ job[v].key \in Keys /\ job[v].start \in Nat
      BY <1>13 DEF TouchLastUsed
    <3>2. [Entry(v) EXCEPT !.lastUsed = job[v].start] \in CacheEntry
      <4>1. Entry(v) \in CacheEntry
        BY <2>3, <3>1 DEF Throttled, Entry
      <4>2. QED
        BY <3>1, <4>1
    <3>3. PICK e \in CacheEntry : SetEntry(v, e)
      BY <1>13, <2>3, <3>2 DEF TouchLastUsed
    <3>4. PICK w \in Write : writes' = [writes EXCEPT ![At[v]] = writes[At[v]] \cup {w}]
      <4>1. [key |-> job[v].key, at |-> job[v].start] \in Write
        BY <3>1
      <4>2. QED
        BY <1>13, <2>3, <4>1 DEF TouchLastUsed
    <3>5. cache' \in [Replicas -> [Keys -> CacheEntry \cup {None}]]
      BY <3>1, <3>3 DEF SetEntry
    <3>6. writes' \in [Replicas -> SUBSET Write]
      <4>1. writes \in [Replicas -> SUBSET Write]
        OBVIOUS
      <4>2. QED
        BY <3>1, <3>4, <4>1, Zenon
    <3>7. UNCHANGED <<now, status, revokedAt, lastUsed, job, invalidating, faults>>
      BY <2>1
    <3>8. /\ pc' \in [Validators -> {"idle", "cacheGet", "evict", "select", "cachePut",
                                    "touch", "done"}]
          /\ \A u \in Validators : pc'[u] # "idle" => job'[u].key \in Keys
      BY <2>1, <1>13 DEF TouchLastUsed
    <3>9. QED
      BY <3>5, <3>6, <3>7, <3>8
  <2>4. QED
    BY <2>2, <2>3
<1>14. ASSUME NEW v \in Validators, Return(v) PROVE TypeOK'
    BY <1>14 DEF Return, Goto
<1>15. ASSUME NEW r \in Replicas, NEW w \in writes[r], WriteLastUsed(r, w) PROVE TypeOK'
    BY <1>15 DEF WriteLastUsed, Fault
<1>16. ASSUME NEW r \in Replicas, Crash(r) PROVE TypeOK'
    BY <1>16 DEF Crash, Fault
<1>17. CASE Tick
    BY <1>17 DEF Tick
<1>18. CASE UNCHANGED vars
    BY <1>18 DEF vars
<1>19. QED
    BY <1>1, <1>2, <1>3, <1>4, <1>5, <1>6, <1>7, <1>8, <1>9, <1>10, <1>11, <1>12, <1>13, <1>14, <1>15, <1>16, <1>17, <1>18 DEF Next, ValidatorStep

\* Every step keeps the bounds on staleness, given the types before and after.
LEMMA StalenessStep == StalenessInv /\ TypeOK' /\ [Next]_vars => StalenessInv'
<1> SUFFICES ASSUME StalenessInv, TypeOK', [Next]_vars
             PROVE  StalenessInv'
    OBVIOUS
<1> USE KeyStoreAssumption, NoneAssumption DEF TypeOK, Job, NoJob, CacheEntry, Write, table, StalenessInv, AnswersInPlace,
        CreatedFirst, NothingFromTheFuture, FillsPredateRevocation, CacheWithinDeadline,
        BoundedStaleness, RevokedKeyGoesQuiet, Revoked, Deadline
<1>1. ASSUME NEW k \in Keys, CreateKey(k) PROVE StalenessInv'
    BY <1>1 DEF CreateKey
<1>2. ASSUME NEW a \in Admins, NEW k \in Keys, RevokeKey(a, k) PROVE StalenessInv'
    BY <1>2 DEF RevokeKey, Revoke
<1>3. ASSUME NEW a \in Admins, NEW k \in Keys, RevokeKeyFails(a, k) PROVE StalenessInv'
    BY <1>3 DEF RevokeKeyFails, Revoke
<1>4. ASSUME NEW v \in Validators, NEW k \in Keys, Validate(v, k) PROVE StalenessInv'
    BY <1>4 DEF Validate, Goto
<1>5. ASSUME NEW a \in Admins, InvalidateCache(a) PROVE StalenessInv'
    BY <1>5 DEF InvalidateCache
<1>6. ASSUME NEW v \in Validators, CacheHit(v) PROVE StalenessInv'
    BY <1>6 DEF CacheHit, Answer, Goto, Entry
<1>7. ASSUME NEW v \in Validators, CacheMiss(v) PROVE StalenessInv'
    BY <1>7 DEF CacheMiss, Goto
<1>8. ASSUME NEW v \in Validators, CacheExpired(v) PROVE StalenessInv'
    BY <1>8 DEF CacheExpired, Goto
<1>9. ASSUME NEW v \in Validators, Evict(v) PROVE StalenessInv'
    BY <1>9 DEF Evict, SetEntry, Goto
<1>10. ASSUME NEW v \in Validators, Select(v) PROVE StalenessInv'
  <2>1. /\ pc[v] = "select" /\ job[v] \in Job /\ job[v].key \in Keys
        /\ UNCHANGED <<now, status, revokedAt, lastUsed, cache, invalidating, writes, faults>>
    BY <1>10 DEF Select
  <2>2. PICK answer \in {"accepted", "refused"}, label \in {"cachePut", "done"} :
          /\ job' = [job EXCEPT ![v].answer = answer] /\ pc' = [pc EXCEPT ![v] = label]
          /\ answer = "accepted" => status[job[v].key] = "enabled"
          /\ label = "cachePut" => answer = "accepted"
    BY <1>10 DEF Select, Answer, Goto
  <2>3. /\ job'[v].key = job[v].key /\ job'[v].start = job[v].start
        /\ job'[v].answer = answer /\ pc'[v] = label
        /\ \A u \in Validators : u # v => job'[u] = job[u] /\ pc'[u] = pc[u]
    <3>1. job \in [Validators -> Job] /\ DOMAIN pc = Validators
      BY <2>1
    <3>2. QED
      BY <2>2, <3>1
  <2>4. AnswersInPlace' /\ CreatedFirst'
    BY <2>1, <2>2, <2>3
  <2>5. FillsPredateRevocation' /\ BoundedStaleness'
    BY <2>1, <2>2, <2>3
  <2>6. NothingFromTheFuture' /\ CacheWithinDeadline' /\ RevokedKeyGoesQuiet'
    BY <2>1, <2>3
  <2>7. QED
    BY <2>4, <2>5, <2>6
<1>11. ASSUME NEW v \in Validators, SelectFails(v) PROVE StalenessInv'
    BY <1>11 DEF SelectFails, Answer, Goto
<1>12. ASSUME NEW v \in Validators, CachePut(v) PROVE StalenessInv'
    BY <1>12 DEF CachePut, SetEntry, Goto
<1>13. ASSUME NEW v \in Validators, TouchLastUsed(v) PROVE StalenessInv'
  <2>1. /\ pc[v] = "touch" /\ pc' = [pc EXCEPT ![v] = "done"]
        /\ UNCHANGED <<now, status, revokedAt, lastUsed, job, invalidating, faults>>
    BY <1>13 DEF TouchLastUsed, Goto
  <2>2. CASE Throttled(v)
    BY <1>13, <2>1, <2>2 DEF TouchLastUsed
  <2>3. CASE ~Throttled(v)
    <3>1. At[v] \in Replicas /\ job[v].key \in Keys /\ Entry(v) \in CacheEntry
      BY <2>1, <2>3 DEF Throttled, Entry
    <3>2. /\ SetEntry(v, [Entry(v) EXCEPT !.lastUsed = job[v].start])
          /\ writes' = [writes EXCEPT ![At[v]] =
                          @ \cup {[key |-> job[v].key, at |-> job[v].start]}]
      BY <1>13, <2>3 DEF TouchLastUsed
    <3>3. \A r \in Replicas, k \in Keys : cache'[r][k] # None =>
            cache[r][k] # None /\ cache'[r][k].expires = cache[r][k].expires
      <4>1. \A r \in Replicas, k \in Keys :
              \/ cache'[r][k] = cache[r][k]
              \/ /\ r = At[v] /\ k = job[v].key
                 /\ cache'[r][k] = [Entry(v) EXCEPT !.lastUsed = job[v].start]
        BY <3>1, <3>2 DEF SetEntry
      <4>2. Entry(v) # None /\ [Entry(v) EXCEPT !.lastUsed = job[v].start] # None
            /\ [Entry(v) EXCEPT !.lastUsed = job[v].start].expires = Entry(v).expires
        BY <3>1
      <4>3. cache[At[v]][job[v].key] = Entry(v)
        BY DEF Entry
      <4> HIDE DEF TypeOK, StalenessInv, CreatedFirst, NothingFromTheFuture, CacheWithinDeadline,
                   AnswersInPlace, FillsPredateRevocation, BoundedStaleness, RevokedKeyGoesQuiet
      <4>4. QED
        BY <4>1, <4>2, <4>3
    <3>4. \A r \in Replicas : \A w \in writes'[r] :
            w \in writes[r] \/ (w.key = job[v].key /\ w.at = job[v].start)
      BY <3>1, <3>2
    <3>5. job[v].answer = "accepted" /\ status[job[v].key] # "absent"
      BY <2>1
    <3>6. AnswersInPlace' /\ FillsPredateRevocation' /\ BoundedStaleness' /\ RevokedKeyGoesQuiet'
      BY <2>1
    <3>7. CreatedFirst'
      BY <2>1, <3>3, <3>4, <3>5
    <3>8. NothingFromTheFuture'
      BY <2>1, <3>3, <3>4
    <3>9. CacheWithinDeadline'
      BY <2>1, <3>3, <3>4, <3>5
    <3>10. QED
      BY <3>6, <3>7, <3>8, <3>9
  <2>4. QED
    BY <2>2, <2>3
<1>14. ASSUME NEW v \in Validators, Return(v) PROVE StalenessInv'
    BY <1>14 DEF Return, Goto
<1>15. ASSUME NEW r \in Replicas, NEW w \in writes[r], WriteLastUsed(r, w) PROVE StalenessInv'
  <2>1. w \in Write /\ w.key \in Keys /\ w.at \in Nat
    OBVIOUS
  <2>2. /\ lastUsed' = lastUsed \/ lastUsed' = [lastUsed EXCEPT ![w.key] = w.at]
        /\ \A q \in Replicas : writes'[q] \subseteq writes[q]
        /\ UNCHANGED <<now, status, revokedAt, cache, pc, job>>
    BY <1>15 DEF WriteLastUsed
  <2>3. NothingFromTheFuture'
    <3>1. w.at <= now /\ \A k \in Keys : lastUsed[k] <= now
      OBVIOUS
    <3>2. \A k \in Keys : lastUsed'[k] = lastUsed[k] \/ lastUsed'[k] = w.at
      BY <2>1, <2>2
    <3>3. \A k \in Keys : lastUsed'[k] <= now'
      BY <2>2, <3>1, <3>2
    <3>4. \A q \in Replicas : \A x \in writes'[q] : x.at <= now'
      BY <2>2
    <3>5. /\ \A v \in Validators : job'[v].start <= now'
          /\ \A q \in Replicas, k \in Keys :
               cache'[q][k] # None => cache'[q][k].expires <= now' + TTL
      BY <2>2
    <3>6. QED
      BY <3>3, <3>4, <3>5
  <2>4. RevokedKeyGoesQuiet'
    <3>1. status[w.key] = "revoked" => w.at <= revokedAt[w.key] + TTL
      OBVIOUS
    <3>2. \A k \in Keys : lastUsed'[k] = lastUsed[k] \/ (k = w.key /\ lastUsed'[k] = w.at)
      BY <2>1, <2>2
    <3>3. QED
      BY <2>2, <3>1, <3>2
  <2>5. AnswersInPlace' /\ FillsPredateRevocation' /\ BoundedStaleness'
    BY <2>2
  <2>6. CreatedFirst' /\ CacheWithinDeadline'
    BY <2>2
  <2>7. QED
    BY <2>3, <2>4, <2>5, <2>6
<1>16. ASSUME NEW r \in Replicas, Crash(r) PROVE StalenessInv'
    BY <1>16 DEF Crash
<1>17. CASE Tick
    BY <1>17 DEF Tick
<1>18. CASE UNCHANGED vars
    BY <1>18 DEF vars
<1>19. QED
    BY <1>1, <1>2, <1>3, <1>4, <1>5, <1>6, <1>7, <1>8, <1>9, <1>10, <1>11, <1>12, <1>13, <1>14, <1>15, <1>16, <1>17, <1>18 DEF Next, ValidatorStep

\* Empty caches and an empty table meet every bound.
LEMMA StalenessInit == Init => StalenessInv
BY KeyStoreAssumption, NoneAssumption
   DEF Init, StalenessInv, TypeOK, Job, NoJob, AnswersInPlace, CreatedFirst,
       NothingFromTheFuture, FillsPredateRevocation, CacheWithinDeadline,
       BoundedStaleness, RevokedKeyGoesQuiet, Revoked

\* Types, deadlines of caches, fills and writes: all hold in every state.
THEOREM StalenessInvariant == Spec => []StalenessInv
<1>1. StalenessInv /\ [Next]_vars => StalenessInv'
  BY TypeStep, StalenessStep DEF StalenessInv
<1>2. QED
  BY StalenessInit, <1>1, PTL DEF Spec

\* However many replicas, and whatever races: a revoked key lets nobody in who
\* came later than the cache lifetime after the revocation.
THEOREM StalenessIsBounded == Spec => []BoundedStaleness
<1>1. StalenessInv => BoundedStaleness
  BY DEF StalenessInv
<1>2. QED
  BY StalenessInvariant, <1>1, PTL

\* Nor is a later use of it ever recorded.
THEOREM RevokedKeysGoQuiet == Spec => []RevokedKeyGoesQuiet
<1>1. StalenessInv => RevokedKeyGoesQuiet
  BY DEF StalenessInv
<1>2. QED
  BY StalenessInvariant, <1>1, PTL

\* The verdicts KeyService sees.
Verdict == [v \in Validators |-> IF pc[v] = "idle" THEN None ELSE job[v]]

\* Before the first request the service has nothing to answer.
LEMMA PromiseInit == Init => Promised!Init
BY DEF Init, Promised!Init

\* Every step of the store is a step of the service or changes nothing it sees.
LEMMA PromiseStep ==
  StalenessInv /\ StalenessInv' /\ [Next]_vars => [Promised!Next]_(Promised!vars)
<1> SUFFICES ASSUME StalenessInv, StalenessInv', [Next]_vars
             PROVE  Promised!Next \/ UNCHANGED <<now, status, revokedAt, Verdict>>
    BY DEF Promised!vars, Verdict
<1> USE KeyStoreAssumption, NoneAssumption DEF table
<1>1. ASSUME NEW k \in Keys, CreateKey(k) PROVE Promised!Next
    BY <1>1 DEF CreateKey, Promised!Next, Promised!Create
<1>2. ASSUME NEW a \in Admins, NEW k \in Keys, Revoke(a, k) PROVE Promised!Next
    BY <1>2 DEF Revoke, Promised!Next, Promised!Revoke
<1>3. ASSUME NEW v \in Validators, NEW k \in Keys, Validate(v, k) PROVE Promised!Next
  <2>1. Promised!Present(v, k)
    BY <1>3 DEF Validate, Goto, Promised!Present, StalenessInv, TypeOK
  <2>2. QED
    BY <2>1 DEF Promised!Next
<1>4. ASSUME NEW v \in Validators, NEW answer \in {"accepted", "refused", "error"},
             NEW label \in {"cachePut", "touch", "done"}, Answer(v, answer, label),
             pc[v] \in {"cacheGet", "select"},
             UNCHANGED <<now, status, revokedAt>>,
             answer = "refused" => status[job[v].key] # "enabled"
      PROVE  Promised!Next
  <2>1. Verdict[v] = job[v] /\ job[v] # None /\ job[v].answer = "pending"
    BY <1>4 DEF Verdict, StalenessInv, TypeOK, AnswersInPlace
  <2>2. Verdict' = [Verdict EXCEPT ![v].answer = answer]
    BY <1>4, <2>1 DEF Verdict, Answer, Goto, StalenessInv, TypeOK
  <2>3. answer = "accepted" => Promised!Acceptable(job[v].key, job[v].start)
    <3>1. job'[v] = [job[v] EXCEPT !.answer = answer] /\ job[v].key \in Keys /\ job[v] \in Job
      BY <1>4 DEF Answer, StalenessInv, TypeOK
    <3>2. job'[v].key = job[v].key /\ job'[v].start = job[v].start /\ job'[v].answer = answer
      BY <3>1 DEF Job
    <3>3. answer = "accepted" => status[job[v].key] # "absent"
      BY <1>4, <3>2 DEF StalenessInv, CreatedFirst
    <3>4. answer = "accepted" /\ status[job[v].key] = "revoked"
            => job[v].start <= revokedAt[job[v].key] + TTL
      BY <1>4, <3>2 DEF StalenessInv, BoundedStaleness, Revoked, Deadline
    <3>5. status[job[v].key] \in {"absent", "enabled", "revoked"}
      BY <3>1 DEF StalenessInv, TypeOK
    <3>6. QED
      BY <3>3, <3>4, <3>5 DEF Promised!Acceptable
  <2>4. Promised!Decide(v, answer)
    BY <1>4, <2>1, <2>2, <2>3 DEF Verdict, Promised!Decide
  <2>5. QED
    BY <2>4 DEF Promised!Next
<1>5. ASSUME NEW v \in Validators, ValidatorStep(v)
      PROVE  Promised!Next \/ UNCHANGED <<now, status, revokedAt, Verdict>>
  <2>1. CASE CacheHit(v) \/ SelectFails(v)
    BY <1>4, <2>1 DEF CacheHit, SelectFails
  <2>2. CASE Select(v)
    BY <1>4, <2>2 DEF Select
  <2>3. CASE CacheMiss(v) \/ CacheExpired(v) \/ Evict(v) \/ CachePut(v) \/ TouchLastUsed(v)
    <3>1. pc[v] # "idle" /\ UNCHANGED <<now, status, revokedAt, job>>
      BY <2>3 DEF CacheMiss, CacheExpired, Evict, CachePut, TouchLastUsed
    <3>2. \E label \in {"evict", "select", "touch", "done"} : pc' = [pc EXCEPT ![v] = label]
      BY <2>3 DEF CacheMiss, CacheExpired, Evict, CachePut, TouchLastUsed, Goto
    <3>3. QED
      BY <3>1, <3>2 DEF Verdict, StalenessInv, TypeOK
  <2>4. CASE Return(v)
    <3>1. Promised!Forget({v})
      BY <2>4 DEF Return, Goto, Promised!Forget, StalenessInv, TypeOK
    <3>2. QED
      BY <3>1 DEF Promised!Next
  <2>5. QED
    BY <1>5, <2>1, <2>2, <2>3, <2>4 DEF ValidatorStep
<1>6. ASSUME NEW r \in Replicas, Crash(r) PROVE Promised!Next
  <2>1. Promised!Forget({v \in Validators : At[v] = r})
    BY <1>6 DEF Crash, Promised!Forget
  <2>2. QED
    BY <2>1 DEF Promised!Next
<1>7. ASSUME NEW r \in Replicas, NEW w \in writes[r], WriteLastUsed(r, w)
      PROVE  UNCHANGED <<now, status, revokedAt, Verdict>>
    BY <1>7 DEF WriteLastUsed, Verdict
<1>8. ASSUME NEW a \in Admins, InvalidateCache(a)
      PROVE  UNCHANGED <<now, status, revokedAt, Verdict>>
    BY <1>8 DEF InvalidateCache, Verdict
<1>9. CASE Tick
    BY <1>9 DEF Tick, Promised!Next, Promised!Tick
<1>10. CASE UNCHANGED vars
    BY <1>10 DEF vars, Verdict
<1>11. QED
    BY <1>1, <1>2, <1>3, <1>5, <1>6, <1>7, <1>8, <1>9, <1>10
    DEF Next, RevokeKey, RevokeKeyFails

\* The store with its caches implements the service: what clients see of keys
\* is an enabled key with a grace period of the cache lifetime.
THEOREM RefinesService == Spec => KeepsPromise
<1>1. StalenessInv /\ StalenessInv' /\ [Next]_vars => [Promised!Next]_(Promised!vars)
  BY PromiseStep
<1>2. QED
  BY PromiseInit, StalenessInvariant, <1>1, PTL DEF Spec, KeepsPromise, Promised!Spec

=============================================================================
