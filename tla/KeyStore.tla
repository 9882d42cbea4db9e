------------------------------ MODULE KeyStore ------------------------------
(***************************************************************************)
(* API keys in internal/store/store.go: the api_keys table, shared by all  *)
(* replicas, and the positive cache each replica keeps in front of it.     *)
(* Validators are requests inside ValidatePlaintext, Admins are requests   *)
(* inside RevokeKey; each runs on one replica.  A key stands for its id,   *)
(* its plaintext and its lookup hash.  A definition marked BROKEN is not   *)
(* part of the specification: it is the next one with a slip, kept to see  *)
(* the properties catch it.                                                *)
(***************************************************************************)
EXTENDS Naturals

CONSTANTS
  Keys, Replicas, Validators, Admins,
  At,           \* the replica each validator and admin request runs on
  None,         \* no cache entry
  TTL,          \* keyCacheTTL
  MinInterval,  \* lastUsedMinInterval
  MaxTime, MaxFaults,  \* bounds of the exploration
  FaultKinds    \* subset of {"select", "update", "flush", "crash"}

ASSUME KeyStoreAssumption ==
  /\ At \in [Validators \cup Admins -> Replicas]
  /\ {TTL, MinInterval, MaxTime, MaxFaults} \subseteq Nat

\* A cache entry: its expiry, and when it last caused a last_used_at write
\* (0 is the zero time; the clock starts at 1).
CacheEntry == [expires : Nat, lastUsed : Nat]

\* An asynchronous UPDATE of last_used_at.
Write == [key : Keys, at : Nat]

Job == [key : Keys \cup {None}, start : Nat,
        answer : {"pending", "accepted", "refused", "error"}]
NoJob == [key |-> None, start |-> 0, answer |-> "pending"]

ASSUME NoneAssumption == None \notin CacheEntry \cup Keys \cup Job

VARIABLES
  now,
  status, revokedAt, lastUsed,  \* the table: rows by key
  cache,                        \* cache[r][k]
  pc, job,                      \* validators: where they are, their locals
  invalidating,                 \* admins: the key whose cache entry goes next
  writes,                       \* last_used_at writes under way, by replica
  faults

table == <<status, revokedAt, lastUsed>>
vars == <<now, table, cache, pc, job, invalidating, writes, faults>>

Init ==
  /\ now = 1
  /\ status = [k \in Keys |-> "absent"]
  /\ revokedAt = [k \in Keys |-> 0] /\ lastUsed = [k \in Keys |-> 0]
  /\ cache = [r \in Replicas |-> [k \in Keys |-> None]]
  /\ pc = [v \in Validators |-> "idle"] /\ job = [v \in Validators |-> NoJob]
  /\ invalidating = [a \in Admins |-> None]
  /\ writes = [r \in Replicas |-> {}]
  /\ faults = 0

Fault(kind) == kind \in FaultKinds /\ faults < MaxFaults /\ faults' = faults + 1

Goto(v, label) == pc' = [pc EXCEPT ![v] = label]
Answer(v, answer, label) == Goto(v, label) /\ job' = [job EXCEPT ![v].answer = answer]

\* The entry the validator's replica has for its key, and replacing it.
Entry(v) == cache[At[v]][job[v].key]
SetEntry(v, e) == cache' = [cache EXCEPT ![At[v]][job[v].key] = e]

-----------------------------------------------------------------------------
(* Administration.                                                          *)

CreateKey(k) ==
  /\ status[k] = "absent"
  /\ status' = [status EXCEPT ![k] = "enabled"]
  /\ UNCHANGED <<now, revokedAt, lastUsed, cache, pc, job, invalidating, writes, faults>>

\* UPDATE ... WHERE revoked_at IS NULL.  No such row: 404, nothing happens.
Revoke(a, k) ==
  /\ invalidating[a] = None /\ status[k] = "enabled"
  /\ status' = [status EXCEPT ![k] = "revoked"]
  /\ revokedAt' = [revokedAt EXCEPT ![k] = now]
  /\ UNCHANGED <<now, lastUsed, cache, pc, job, writes>>

\* The cache entry is dropped by a second step, on this replica only.
RevokeKey(a, k) ==
  /\ Revoke(a, k)
  /\ invalidating' = [invalidating EXCEPT ![a] = k]
  /\ UNCHANGED faults

\* The UPDATE took effect but its result was lost: RevokeKey returns the error.
RevokeKeyFails(a, k) == Revoke(a, k) /\ Fault("update") /\ UNCHANGED invalidating

InvalidateCache(a) ==
  /\ invalidating[a] # None
  /\ cache' = [cache EXCEPT ![At[a]][invalidating[a]] = None]
  /\ invalidating' = [invalidating EXCEPT ![a] = None]
  /\ UNCHANGED <<now, table, pc, job, writes, faults>>

-----------------------------------------------------------------------------
(* ValidatePlaintext.                                                       *)

\* now is read once, before the cache: it dates everything that follows.
Validate(v, k) ==
  /\ pc[v] = "idle"
  /\ Goto(v, "cacheGet")
  /\ job' = [job EXCEPT ![v] = [key |-> k, start |-> now, answer |-> "pending"]]
  /\ UNCHANGED <<now, table, cache, invalidating, writes, faults>>

CacheHit(v) ==
  /\ pc[v] = "cacheGet" /\ Entry(v) # None /\ now <= Entry(v).expires
  /\ Answer(v, "accepted", "touch")
  /\ UNCHANGED <<now, table, cache, invalidating, writes, faults>>

CacheMiss(v) ==
  /\ pc[v] = "cacheGet" /\ Entry(v) = None
  /\ Goto(v, "select")
  /\ UNCHANGED <<now, table, cache, job, invalidating, writes, faults>>

CacheExpired(v) ==
  /\ pc[v] = "cacheGet" /\ Entry(v) # None /\ now > Entry(v).expires
  /\ Goto(v, "evict")
  /\ UNCHANGED <<now, table, cache, job, invalidating, writes, faults>>

\* The lock was released in between: whatever entry is there by now is deleted.
Evict(v) ==
  /\ pc[v] = "evict"
  /\ SetEntry(v, None)
  /\ Goto(v, "select")
  /\ UNCHANGED <<now, table, job, invalidating, writes, faults>>

\* BROKEN: no condition on the row that is found.
SelectBroken(v) ==
  /\ pc[v] = "select"
  /\ IF status[job[v].key] # "absent" THEN Answer(v, "accepted", "cachePut")
                                      ELSE Answer(v, "refused", "done")
  /\ UNCHANGED <<now, table, cache, invalidating, writes, faults>>

\* SELECT ... WHERE enabled AND revoked_at IS NULL, then bcrypt outside any lock.
Select(v) ==
  /\ pc[v] = "select"
  /\ IF status[job[v].key] = "enabled" THEN Answer(v, "accepted", "cachePut")
                                       ELSE Answer(v, "refused", "done")
  /\ UNCHANGED <<now, table, cache, invalidating, writes, faults>>

\* BROKEN: a failing database looks like an unknown key.
SelectFailsBroken(v) ==
  /\ pc[v] = "select" /\ Fault("select")
  /\ Answer(v, "refused", "done")
  /\ UNCHANGED <<now, table, cache, invalidating, writes>>

SelectFails(v) ==
  /\ pc[v] = "select" /\ Fault("select")
  /\ Answer(v, "error", "done")
  /\ UNCHANGED <<now, table, cache, invalidating, writes>>

\* BROKEN: the entry is dated by the clock, not by the request's now.
CachePutBroken(v) ==
  /\ pc[v] = "cachePut"
  /\ SetEntry(v, [expires |-> now + TTL, lastUsed |-> 0])
  /\ Goto(v, "touch")
  /\ UNCHANGED <<now, table, job, invalidating, writes, faults>>

CachePut(v) ==
  /\ pc[v] = "cachePut"
  /\ SetEntry(v, [expires |-> job[v].start + TTL, lastUsed |-> 0])
  /\ Goto(v, "touch")
  /\ UNCHANGED <<now, table, job, invalidating, writes, faults>>

Throttled(v) ==
  \/ Entry(v) = None
  \/ Entry(v).lastUsed # 0 /\ job[v].start < Entry(v).lastUsed + MinInterval

\* touchLastUsed: at most one asynchronous write per entry and interval.
TouchLastUsed(v) ==
  /\ pc[v] = "touch"
  /\ IF Throttled(v) THEN UNCHANGED <<cache, writes>>
     ELSE /\ SetEntry(v, [Entry(v) EXCEPT !.lastUsed = job[v].start])
          /\ writes' = [writes EXCEPT ![At[v]] = @ \cup {[key |-> job[v].key, at |-> job[v].start]}]
  /\ Goto(v, "done")
  /\ UNCHANGED <<now, table, job, invalidating, faults>>

Return(v) ==
  /\ pc[v] = "done"
  /\ Goto(v, "idle")
  /\ job' = [job EXCEPT ![v] = NoJob]
  /\ UNCHANGED <<now, table, cache, invalidating, writes, faults>>

\* BROKEN: the use is dated by the moment it is written.
WriteLastUsedBroken(r, w) ==
  /\ w \in writes[r]
  /\ writes' = [writes EXCEPT ![r] = @ \ {w}]
  /\ \/ lastUsed' = [lastUsed EXCEPT ![w.key] = now] /\ UNCHANGED faults
     \/ Fault("flush") /\ UNCHANGED lastUsed
  /\ UNCHANGED <<now, status, revokedAt, cache, pc, job, invalidating>>

\* The goroutine of touchLastUsed, in any order; its error is ignored.
WriteLastUsed(r, w) ==
  /\ w \in writes[r]
  /\ writes' = [writes EXCEPT ![r] = @ \ {w}]
  /\ \/ lastUsed' = [lastUsed EXCEPT ![w.key] = w.at] /\ UNCHANGED faults
     \/ Fault("flush") /\ UNCHANGED lastUsed
  /\ UNCHANGED <<now, status, revokedAt, cache, pc, job, invalidating>>

-----------------------------------------------------------------------------
\* Replica r dies with its cache, its requests and its pending writes.
Crash(r) ==
  /\ Fault("crash")
  /\ cache' = [cache EXCEPT ![r] = [k \in Keys |-> None]]
  /\ pc' = [v \in Validators |-> IF At[v] = r THEN "idle" ELSE pc[v]]
  /\ job' = [v \in Validators |-> IF At[v] = r THEN NoJob ELSE job[v]]
  /\ invalidating' = [a \in Admins |-> IF At[a] = r THEN None ELSE invalidating[a]]
  /\ writes' = [writes EXCEPT ![r] = {}]
  /\ UNCHANGED <<now, table>>

Tick ==
  /\ now < MaxTime /\ now' = now + 1
  /\ UNCHANGED <<table, cache, pc, job, invalidating, writes, faults>>

ValidatorStep(v) ==
  \/ CacheHit(v) \/ CacheMiss(v) \/ CacheExpired(v) \/ Evict(v) \/ Select(v)
  \/ SelectFails(v) \/ CachePut(v) \/ TouchLastUsed(v) \/ Return(v)

Next ==
  \/ Tick
  \/ \E k \in Keys : \/ CreateKey(k)
                     \/ \E a \in Admins : RevokeKey(a, k) \/ RevokeKeyFails(a, k)
                     \/ \E v \in Validators : Validate(v, k)
  \/ \E a \in Admins : InvalidateCache(a)
  \/ \E v \in Validators : ValidatorStep(v)
  \/ \E r \in Replicas : Crash(r) \/ \E w \in writes[r] : WriteLastUsed(r, w)

Spec == Init /\ [][Next]_vars

-----------------------------------------------------------------------------
(* Properties.                                                              *)

\* The values the table, the caches and the requests may take.
TypeOK ==
  /\ now \in Nat \ {0}
  /\ status \in [Keys -> {"absent", "enabled", "revoked"}]
  /\ revokedAt \in [Keys -> Nat] /\ lastUsed \in [Keys -> Nat]
  /\ cache \in [Replicas -> [Keys -> CacheEntry \cup {None}]]
  /\ pc \in [Validators -> {"idle", "cacheGet", "evict", "select", "cachePut", "touch", "done"}]
  /\ job \in [Validators -> Job]
  /\ \A v \in Validators : pc[v] # "idle" => job[v].key \in Keys
  /\ invalidating \in [Admins -> Keys \cup {None}]
  /\ writes \in [Replicas -> SUBSET Write]
  /\ faults \in Nat

Revoked(k) == status[k] = "revoked"
Deadline(k) == revokedAt[k] + TTL

\* keyCacheTTL bounds what a stale cache can do: a request let in with a
\* revoked key came at most TTL after the revocation, on whatever replica,
\* and whatever fills, evictions and invalidations raced with it.
BoundedStaleness ==
  \A v \in Validators : job[v].answer = "accepted" /\ Revoked(job[v].key)
                           => job[v].start <= Deadline(job[v].key)

\* touchLastUsed dates a use by its request, so a revoked key shows no use
\* later than that, however late the write comes.
RevokedKeyGoesQuiet == \A k \in Keys : Revoked(k) => lastUsed[k] <= Deadline(k)

\* Why: an entry cannot outlive the deadline of its key (CachePut dates it
\* by a moment before the SELECT that still found the key enabled), nor can
\* the writes on their way to the table.
CacheWithinDeadline ==
  \A r \in Replicas, k \in Keys : Revoked(k) =>
    /\ cache[r][k] # None => cache[r][k].expires <= Deadline(k)
    /\ \A w \in writes[r] : w.key = k => w.at <= Deadline(k)

FillsPredateRevocation ==
  \A v \in Validators : pc[v] = "cachePut" /\ Revoked(job[v].key)
                           => job[v].start <= revokedAt[job[v].key]

NothingFromTheFuture ==
  /\ \A v \in Validators : job[v].start <= now
  /\ \A k \in Keys : lastUsed[k] <= now
  /\ \A r \in Replicas : \A w \in writes[r] : w.at <= now
  /\ \A r \in Replicas, k \in Keys : cache[r][k] # None => cache[r][k].expires <= now + TTL

AnswersInPlace ==
  \A v \in Validators :
    /\ pc[v] \in {"idle", "cacheGet", "evict", "select"} => job[v].answer = "pending"
    /\ pc[v] \in {"cachePut", "touch"} => job[v].answer = "accepted"

\* Only a key that was created is cached, let in or written about.
CreatedFirst ==
  /\ \A r \in Replicas, k \in Keys :
       status[k] = "absent" => cache[r][k] = None /\ \A w \in writes[r] : w.key # k
  /\ \A v \in Validators : job[v].answer = "accepted" => status[job[v].key] # "absent"

\* The inductive invariant that carries both bounds.
StalenessInv ==
  /\ TypeOK /\ AnswersInPlace /\ CreatedFirst /\ NothingFromTheFuture
  /\ FillsPredateRevocation /\ CacheWithinDeadline
  /\ BoundedStaleness /\ RevokedKeyGoesQuiet

\* The verdicts of KeyService, read off the requests.
Promised == INSTANCE KeyService WITH
  Clients <- Validators, Grace <- TTL,
  verdict <- [v \in Validators |-> IF pc[v] = "idle" THEN None ELSE job[v]]

\* ValidatePlaintext and RevokeKey keep the promise of KeyService.
KeepsPromise == Promised!Spec

\* API.md: "Revoked or disabled keys are rejected with 401": once RevokeKey
\* has returned, the cache lets nobody in with that key.
RevokedIsRejected ==
  [][\A v \in Validators : pc[v] = "cacheGet" /\ pc'[v] = "touch"
       => \/ ~Revoked(job[v].key)
          \/ \E a \in Admins : invalidating[a] = job[v].key]_vars

=============================================================================
