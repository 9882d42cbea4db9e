# Specifications of grok-auth-proxy

TLA+ models of the stateful core of grok-auth-proxy, the configurations TLC
checks them with, and theorems checked by TLAPS.  Paths below are relative to
the repository.

## The system

The proxy accepts OpenAI-style requests from clients holding API keys it issued
itself, and forwards them to Grok with a session token of its own, which it keeps
alive.

| Component | State | Operations | Talks to |
|---|---|---|---|
| Credential manager, `internal/auth/auth.go` | `entry`, `mapKey`, `fileData`, `tokenEndpoint`, `writing` under `mu`; `refreshMu`; debounce and unflag timers | `GetAccessToken`, `ForceRefresh`, proactive tick, `Reload`, `watchLoop`, write-back | OIDC provider (HTTP), auth.json, `Persist` callback into the store |
| Boot, `cmd/proxy/main.go` | none of its own | load state, build the manager, seed the store, start loops, serve, close | all |
| API keys, `internal/store/store.go` | `api_keys` rows shared by replicas; per-process `cache` | `CreateKey`, `RevokeKey`, `ValidatePlaintext` with `cacheGet`, `cachePut`, `touchLastUsed` | database; called by middleware and admin handlers |
| Saved auth state, same file | one `auth_states` row | `SaveAuthState`, `LoadAuthState` | called at boot and by `Persist` |
| Audit queue, same file | channel of 4096 rows, two workers | `InsertAuditLog`, drain on `Close` | called by the proxy |
| Health, same file and `handlers/health` | `dbLastOK` | `Ping`, `Healthy`, `Ready` | probes |
| Upstream proxy, `internal/proxy` | per request | `forward`, one retry after a 401, audit record | manager, upstream, audit |
| Middleware, `internal/middleware` | limiter per key | `APIKeyAuth`, `AdminAuth`, `RateLimiter` | store |
| Server and admin handlers | HTTP server | routes, `Run` with `Shutdown` | all |
| Configuration, metrics, manifests | none that matters here | | |

What is hard here:

* *Concurrency*: handlers, the proactive loop, the fsnotify loop, timers and admin
  reloads share the manager.  `mu` protects single assignments, `refreshMu` a whole
  refresh, and reloads take only `mu`: they interleave with a refresh anywhere.
* *Single-use refresh tokens*: two exchanges of the same token, or going back to an
  old copy of the credential, end the session.
* *Two durable copies*: auth.json and `auth_states`, written one after the other,
  either of which can fail, with crashes in between.
* *Time*: expiries, the skew and its double, cache lifetimes, and 200ms and 500ms
  timers.
* *Caches in front of a shared table*, with validations that read the row before a
  revocation and act after it.

`PROJECT.json` lists these hazards by source line, with the properties about each.

## Modules

| Module | What it is |
|---|---|
| `TokenService` | what the users of the manager may rely on: one token, one refresh at a time, a forced refresh that succeeds brings a new one |
| `AuthManager` | the manager, its boot, its two durable copies, the provider and the file's other writers |
| `MCAuthManager` | the auth.json contents TLC starts from |
| `AuthManagerProofs` | theorems about `AuthManager`: its types, and that refreshes exclude each other |
| `ContractProofs` | that `AuthManager` implements `TokenService`, and holds nothing the provider has not issued |
| `CredentialProofs` | theorems about the credential: expiry, failures, exchanges, the account in use, what is saved and what is lost |
| `KeyService` | what clients may rely on about API keys: no caches, a grace period |
| `KeyStore` | the key table, replicas' caches, validations, revocations, `last_used_at` writes |
| `MCKeyStore` | which replica serves which request |
| `KeyStoreProofs` | theorems about `KeyStore`, including that it implements `KeyService` |
| `AuditQueue` | the audit channel and its workers, and the shutdown that drains them: `Run`, `Manager.Close`, `Store.Close` |
| `MCAuditQueue` | its instance for TLC |
| `AuditListing` | an administrator paging through the audit table, on top of `AuditQueue` |
| `AuditQueueProofs` | theorems about `AuditQueue` |
| `AuditListingProofs` | that a walk through the pages misses no row |
| `ProxyForward` | the upstream proxy, composed with `TokenService` |
| `MCProxyForward` | its instance for TLC |
| `ProxyForwardProofs` | theorems about `ProxyForward`, over `TokenService` |
| `RateLimiter` | the token bucket of each key |
| `Readiness` | `Ready`, `Healthy` and `Ping`, with the kubelet that asks |
| `Admission` | both on one clock, in one replica |
| `MCAdmission` | the overrides of its keys for TLC |
| `AdmissionProofs` | theorems about `Admission`: the limiter and the probes |

How they fit together:

```
ProxyForward --INSTANCE--> TokenService <--refines-- AuthManager
KeyStore --refines--> KeyService
AuditListing --EXTENDS--> AuditQueue
Admission --INSTANCE--> RateLimiter, Readiness
```

Definitions named `...Broken` are not part of a specification: each is the
following definition with a plausible slip.  Substituting one makes TLC report the
property it is paired with in `PROJECT.json`, which shows that the property can
fail.

### AuthManager

A credential is reduced to what the properties distinguish.  `key` and `refresh`
are the number of the grant that issued them, 0 for the empty string; `exp` is a
point in time, 0 for the zero time; `iss` is the issuer named in the entry, `None`
for the configured default.  auth.json and the `auth_states` payload are maps from
account to entry, or `Malformed` (what cannot be read or parsed).

| State | Code |
|---|---|
| `entry`, `mapKey`, `fileData`, `tokenEndpoint`, `writing` | fields of `Manager` |
| `refreshMu` | the holder of the mutex |
| `pc`, `call` | where a caller is in `GetAccessToken`/`refresh`, and its local variables |
| `events`, `debounce`, `unflag`, `rd` | fsnotify channel, 200ms timer, 500ms timers, reloads between `ReadFile` and `loadBytes` |
| `mode` | `down`, `seed` and `watch` (two places inside `run`), `up` |
| `file`, `db` | auth.json, the `auth_states` row |
| `valid`, `issued` | the provider's live refresh tokens, grants made so far |

An action is what the code does between two points where another goroutine, the
provider or a crash can get in: one hold of `mu`, one HTTP request, one database or
file call.  A refresh is `RefreshBegin` (lock, snapshot, re-check), `CachedEndpoint`,
`Discover`/`DiscoveryFails`, `Exchange`/`ReplyLost`/`Rejected`/`PostFails`,
`Install`, `Persist`, then `WriteFile`/`WriteFileFails`/`SkipFile`, each of which
ends with the deferred unlock.  `AfterRefresh` is the second half of
`GetAccessToken`.  Faults are actions of their own, or disjuncts, limited by
`MaxFaults` and selected with `FaultKinds`.

Simplifications: one rename is one event; the 500ms and 200ms timers carry no
duration, so they may fire in any order relative to other steps, a superset of the
real orders; client ids, headers and formats are left out; a failing
`StartWatch` is left out; `expires_in` and the one hour default are both members of
`Lifetimes`; an entry whose issuer makes an invalid URL is left out.

`Contract` reads this state as that of `TokenService`: `minted` is `issued`, `held`
is `entry.key`, `owner` is `refreshMu`, `grant` is the answer between `Exchange`
and `Install`, `renewed` says that `Install` is behind and the unlock ahead, and
`st`, `picked` and `ok` are the calls of `GetAccessToken` and `ForceRefresh`.
Reloads and boots are `Provide`, edits by a login `Login`, and everything about
expiry, discovery, saving and watching changes nothing that `TokenService` sees.
`KeepsContract` is the refinement.

### KeyStore

A key stands for its id, its plaintext and its lookup hash.  A row is `status` with
`revokedAt` and `lastUsed`.  `revokedAt` is the time of the UPDATE (the code computes
it just before).  `cache[r]` is the cache of replica r; `job` holds a validation's
`now`, its key and its answer.  `cacheGet` is two steps where it takes the lock
twice (`CacheExpired`, `Evict`); the SELECT, `cachePut` and `touchLastUsed` are
steps of their own, so revocations on any replica come in between.  `bcrypt` always
agrees with the lookup.  Each `go` statement of `touchLastUsed` is a record in
`writes`, executed in any order, or lost.

`KeyService` sees only the table and the answers: it may accept a key that is
enabled or was revoked at most `Grace` before the request came, may refuse one that
is not enabled, and may answer with an error.  `KeepsPromise` is the refinement,
with `Grace <- TTL` and the answers read off `job`.

### AuditQueue

A row is a number.  `auditCh` is the channel; `hand[w]` the row worker w is
inserting; `accepted` and `written` record which rows were put in the channel and
which are in the table.  A worker is in its main `select`, in the drain loop, or
gone: `Take` is a receive of either loop (with `auditStop` closed the first `select`
may still choose a row), `StopSeen` the other choice, `Drained` the `default` of
the drain.  `phase` follows `run` in `main.go`: serving, in `Shutdown`, in
`authMgr.Close`, in `st.Close`, exited.  `forced` is set when `Run` returns an
error, which leaves handlers running and connections open beside the deferred calls;
the process ends under them.  Requests come while the listener is open, from young
connections during `Shutdown`, and from open ones after a `Run` that failed.  `handler` has the stages of a proxied request: waiting for its
upstream, about to record (not every error path does), back from recording.  `loop`
is the proactive goroutine, whose tick `authMgr.Close` waits for.  What a tick or an
answer does to the credential is `AuthManager`'s subject.

`AuditListing` adds a client of `GET /admin/audit` that asks for page after page,
advancing its offset by the rows it got, until a page is empty.  `Position` is a
row's place in `created_at desc`, `Page` the clamped `LIMIT` and `OFFSET`.  Rows with
the same microsecond have no order in the query and are left out.

### ProxyForward

A handler is one request: `at` says where it is in `Handler` and `forward`, the
locals of `forward` are `reqBody`, `retried`, `kept` and `cut` (`respBuf`,
`respTrunc`), and `body` is what `c.Request.Body` still holds.  A body is its
length.  `tries` records what was sent upstream, `records` the rows given to
`InsertAuditLog`.

| Actions | Code |
|---|---|
| `Arrive`, `Done` | the call of `Handler`, its end |
| `RejectOversized`, `ReadFails`, `AskToken` | `readLimited` and its three outcomes, the body put back, `GetAccessToken` |
| `NoToken`, `Post`, `DoFails` | 503; the request built and sent; `Do` failing |
| `Unauthorized`, `Drained`, `ForceFails`, `Retry` | a first 401, its body discarded, `ForceRefresh`, `forward(c, true)` |
| `Relay`, `Chunk`, `StreamBreaks`, `WriteFails`, `StreamEnds` | header and body passed on, with the tee into the audit buffer |
| `CallMoves`, `Refresh`, `AnswerLost`, `ProactiveTick`, `Load`, `Reload` | the manager, as `TokenService` |

Redirects the HTTP client follows are part of `Do`.  A method that cannot make a
request (line 160) does not pass the router.

### RateLimiter, Readiness, Admission

`RateLimiter` counts tokens in 1/`Unit` of a request, which makes rates below one
request per moment integers; the rounding of `float64` is left out.  The bucket is
`golang.org/x/time/rate`: it grows by the rate up to the burst and a refused request
takes nothing.  `markAt` and `admitted` observe: they restart at any moment, so
`RateIsBounded` speaks of every interval.

`Readiness` has `dbLastOK`, and for each probe under way the copy of it that
`Healthy` read first (`seen`).  A ping may start at one moment and end after the
database changed or another probe's ping succeeded.  `steady` remembers whether the
database had been up long enough for a good ping before its last outage; nothing
depends on it but `BriefOutageIsHidden`.  The kubelet of
`deploy/helm` probes once per period and takes the replica out of service after
`Threshold` failures; a database outage, or a pool too busy to answer in 400ms, is
`up = FALSE`.

`Admission` runs both on one clock: a replica out of service gets no requests.

## Runs

| Run | Question | Instance |
|---|---|---|
| `auth_readonly` | is a refresh serialized, deduplicated, saved in order, and done without traffic? | read-only file (a Secret mount), two handlers and the proactive loop, rotating provider, one failing request, discovery or save |
| `auth_outage` | what do callers get when the provider fails? | the same with lost answers, a provider without the conventional endpoint, and a credential that may lack a refresh token |
| `auth_writeback` | do the copies stay together and the flag go down; does a login in the middle break the promise to callers? | writable file, two accounts with one configured, one call beside the loop's refreshes, one reload at a time, one failing request or save, one login or broken edit at any moment |
| `auth_hotreload` | does the proxy follow the file, keep a token, and come up again? | two accounts, two edits (logins or broken content), one admin reload, two faults among crash, failing load, seed and write |
| `keys_replicas` | how stale can a replica's cache be? | one key, two replicas, two validators, two administrators, four points in time, one fault |
| `audit_shutdown` | does a shutdown lose audit rows, does it end, do requests ever wait for the database, and does paging skip rows? | two requests, two workers, a channel of one row, three rows, one more tick, one failing insert, a walk with pages of one or two rows |
| `proxy_forward` | is a 401 retried once, with a new token and the whole body; does each request leave one true record and get an answer? | two handlers, bodies of 2 (the limit) and 3, answers 200 and 401, responses up to 2 with a cap of 1, two requests, ticks, reloads or lost answers |
| `admission` | is a key's rate bounded and never zero; is an outage hidden while brief, reported in time, and over in time? | two keys, one with an override of a quarter request per moment; the kubelet and another prober; eight moments; three requests, outages or extra probes |

`auth_writeback` and `auth_outage` also check that `AuthManager` implements
`TokenService` (`KeepsContract`), one with reloads, write-backs and a login, the other
with forced refreshes, lost answers and missing refresh tokens.

Four more runs end in a violation; each contradicts a sentence of the
repository.

* `auth_window`: the comment of `proactiveTick` announces a refresh within twice the
  skew of expiry, but `Refresh` re-checks against one skew and returns success without
  doing anything in between.  (`StaysFresh` holds all the same: the loop acts before
  the last skew is over.)
* `auth_reseed`: `run` treats a failing `LoadAuthState` like an empty one, and the
  seed meant for a first boot overwrites the newer credential.
* `auth_deaf`: events are skipped while `writing` is set whoever caused them, so a
  login during a refresh's write-back is not loaded until the file changes again.
* `keys_revoked`: a validation that read the row before the revocation puts it in
  the cache after the invalidation, and the key is accepted for up to the cache
  lifetime although `docs/API.md` says revoked keys are rejected.
  `BoundedStaleness` is what does hold.

### Bounds, and why they are enough

* Two handlers and the loop suffice for one refresh under way, one waiter that is
  overtaken, and one caller that arrives after; a third handler only repeats roles.
* Time runs over a few units with a skew of 1 or 2 and lifetimes of 3: every
  comparison is met before, at and after its boundary.  `auth_outage` uses a skew of 2
  so that there is a moment inside the skew and before expiry.
* `MaxCalls` is 2 in `auth_readonly` and `auth_outage`, so a forced refresh and a normal
  call overlap and follow each other; the loop adds refreshes without limit.  In
  `auth_writeback` one call and the loop make two refreshes, whose saves, timers and
  reloads overlap; the room is used for the login, and for more calls the theorems
  stand.
* One fault at a time in most runs; `auth_hotreload` has two, because a failing load
  only matters after a crash.
* `keys_replicas`: `TTL = 1`, `MinInterval = 2` keep the code's order (30s, 60s); four
  moments cover creation, revocation, its deadline and one after it.  Keys do not
  interact, so one is enough.
* `audit_shutdown`: a channel of one row is full while both workers hold a row and a
  third request arrives, and three rows are enough for that.  The bound is on
  incoming requests, never on what becomes of them.  `ShutdownEnds` relies on few
  requests after the signal, as the code does: `Shutdown` turns keep-alives off, so
  each connection that is left brings one at most.

* `proxy_forward`: two events let two handlers meet a 401 together, or one handler
  meet a ticker, a reload or a lost answer; a third event was tried for the safety
  properties and adds nothing.  A body of 3 is one past the limit, a response of 1
  fills the audit cap and one of 2 exceeds it.  Both requests exceed it: that one within
  it is flagged right is left to the theorem (`TruncationFlagged`).  `FirstGrants = 1`: the first token is
  older than any other.
* `admission`: `Skip = 1`, `Grace = 4`, `Period = 1` keep the code's order (10s, 45s,
  5s); eight moments hold an outage longer than the grace after a good ping, and the
  return.  `RateIsBounded` needs a key to use its burst and come back.
* A walk of `audit_shutdown` meets rows inserted before, on and behind its current
  page; three rows and two pages make all of them happen.

What the instances exclude on purpose, because the property is about the rest:

* `auth_readonly` and `auth_outage` have no reload.  With one, the read-only file
  brings back a consumed refresh token, and a call may return the file's expired
  token; both are hazards in `PROJECT.json`.
* `LiveGrantKept` and `SavesAgree` speak of behaviours with no other writer of the file,
  and `SavesAgree` of those without a fault: the formulas say so.  A lost answer and a
  crash between answer and save, which `auth_writeback` leaves out, lose a rotated token:
  no order of steps in the proxy could avoid it.
* `PinnedEntryIsInMap` has one configured account as its premise.  Without one the
  correspondence is lost when a reload selects another account during a refresh.
* `auth_hotreload` has one reload at a time and no refresh.  Two reloads can overlap
  (a fired timer is not stopped) and install the older content last.
* `RetriesOnceWithNewToken` compares the tokens of the two tries only when no reload
  happened: a reload of an older file brings back an older token.
* `BriefOutageIsHidden` leaves out a probe whose failing ping overlaps another's good
  one: `Healthy` then goes by the `dbLastOK` it read before its ping and can say "not
  ready" a moment early.  It also leaves out an outage that begins less than a skip and
  a period after the one before (`steady`): if no ping fell into the time between,
  several brief outages are reported as one long one.
* `CHECK_DEADLOCK FALSE` is set where the system may stop: a saved state that cannot be
  loaded ends every boot (`auth_hotreload`), as does a file broken before the first one
  (`auth_writeback`), `auth_deaf` shows a final state, and `proxy_forward` and `admission`
  run out of requests or time.  Crashes are bounded in number, so liveness is that of a
  system which eventually stops crashing.

### Fairness

`FairSpec` assumes what the runtime gives: `main` is restarted and each boot step
ends; HTTP calls end by the client's 30s timeout and file and database calls return
(weak fairness of each caller's steps); a goroutine waiting for `refreshMu` gets it
(strong fairness: `sync.Mutex` hands over to the oldest waiter after a millisecond);
the minute ticker, fsnotify and the timers fire.  Nothing is assumed of clients, the
clock, edits, faults or crashes.

In `AuditQueue` an answer of an upstream (`Answered`: there is no overall timeout) and an
insert (`Insert`) have no fairness: they may take forever.  `RequestsNeverWait` holds
nevertheless.  Nor has a tick (`TickEnds`): its context of 30s bounds the exchange, not
the wait for `refreshMu` (line 444 of `auth.go`) nor `Persist` (line 529), which waits for
the database.  `ShutdownEnds` needs the database to answer both, which is its premise
`DatabaseAnswers` (`Store.Close` and `authMgr.Close` have no timeout), but nothing of
the upstreams, thanks to the timeout of `Shutdown`.

In `ProxyForward` what ends by itself is fair: reading the client's body (`ReadTimeout`),
the exchange (the client's 30s), and strongly the wait for `refreshMu`.  What the upstream
owes is not: `Do` may wait for it without end while it writes the request body
(`ResponseHeaderTimeout` starts only after that), streams may last, and the body of a 401
is discarded to its end without a timeout.  `RequestsAreAnswered` therefore has as its
premise that upstreams let go of `Do` and end those bodies (`UpstreamReacts`); it is about
what goes on between handlers.

`admission` checks no liveness: `TrafficComesBack` is a bound in time.

## Proofs

`tlapm` checks every leaf.  The assumptions on the constants are those of the modules:

| Assumption | Says |
|---|---|
| `IdAssumption`, `NoneAssumption` | absent values differ from present ones; the loop is no request |
| `NumberAssumption`, `ChoiceAssumption`, `BootstrapAssumption` | types; the skew and every lifetime are positive, since `Config.Validate` and `refresh` put a default for others |
| `GrantAssumption` | a deployment starts from a file whose tokens the provider issued |
| `KeyStoreAssumption`, `AuditAssumption` | types; there is a worker |
| `LengthAssumption`, `ServiceAssumption` | types; request and audit limits are positive, the ticker is no handler |
| `LimitsAssumption` | the default page is no longer than the longest |
| `LimitAssumption`, `ProbeAssumption` | positive rates, bursts and periods; the skip of 10s is no longer than the grace of 45s |
| `BoundAssumption` | the bounds of a run are numbers |

No value of a bound is assumed: the theorems hold for any number of callers, accounts,
handlers, workers, replicas, faults and edits.

Five theorems speak of a part of the behaviours, with the condition as a premise of the
theorem, a formula about steps rather than an assumption on the constants.  Without it the
property is false:

| Premise | Says of the behaviour | Theorems |
|---|---|---|
| `NoReload` | no file is loaded again while the process runs | `ReturnsUnexpired`, `ExchangesNeeded` |
| `NothingLost` | no answer is lost, no crash, no file is loaded again | `PostsLive` |
| `StoreReadable` | a boot goes by the file only if nothing is saved | `StoreAdvances` |
| `OneSaveWorks` | no answer is lost, no crash, one save of each refresh works | `LiveGrantsKept` |

The credential manager:

* `TypeCorrect`: `Spec => []TypeOK`.  `TypeOK` is inductive as it stands, thanks to
  its last part: a call about to install holds an answer.  The four parts are proved
  separately, since each is disturbed by a few actions.
* `RefreshIsSingleFlight`: `Spec => []SingleFlight`.  A caller is between snapshot
  and write-back if and only if it holds `refreshMu`.  Inductive together with
  `TypeOK`: no two callers can be the one holder, every exit frees it, and a crash
  resets both sides.
* `NothingUnissued`, `TokenServed`.  `IssuedInv` follows the number of every access token
  through all the copies there are: `auth.json`, `auth_states`, the map in memory, the
  copies of refreshes and of reloads under way.  A copy comes from another copy, from a
  login, or from an answer (`CopiesStep`), so none is ahead of the provider; and while the
  process runs there is a token, because `loadBytes` refuses an empty one before it assigns
  anything.
* `ContractKept`: each step of the manager is a step of `TokenService` or changes nothing
  it sees.  It needs `SingleFlight` (the answer between `Exchange` and `Install` is the
  owner's), `Calling` (calls live only while the process is up, and an idle caller
  has no locals) and `IssuedInv` (what a reload provides was minted).
* `FailsOnlyExpired` needs no condition: whatever fails, a call that ends with an error
  found no token, or one expired by now.
* `ReturnsUnexpired`, `ExchangesNeeded`.  `UnexpiredInv` adds that a refresh that ended well
  left an entry that outlives the call's beginning; `Needed` that a normal call about to ask
  the provider still sees the stale entry it decided on, which only the holder of
  `refreshMu` could have replaced.  A reload breaks both: it may bring an older file under a
  call, or a fresh one under an exchange.
* `PostsLive`.  `LiveInv`: what a boot would load, what the manager holds and what a refresh
  has snapshotted is live, but for the holder of an answer about to be installed.
* `PinnedIsInMap`.  `PinnedInv` adds that the account of a refresh under way passes the
  filter, so with one configured account it is the one in memory.
* `DiskAndStoreAgree`.  `SavedInv`: only a refresh between its two saves has the store ahead
  of the file, by exactly its copy of the map; a boot without faults leaves them equal.
* `StoreAdvances`.  `StoreInv`: nothing the store holds is newer than the
  grant a refresh is about to save, or than the map it is about to write.  Crashes, logins
  and reloads may happen at any time.  `auth_reseed` shows what `StoreReadable` is for.
* `LiveGrantsKept`.  `GrantInv(g)` says that one grant `g` is all the configured account has:
  in every copy, its refresh token is `g` or dead; what else works is on file for another
  account, where every copy agrees; and `g` is on file, in the store, or with a refresh
  that has yet to save it.  An exchange moves from one `g` to the next, and a reload of
  a file read earlier can bring back only a dead token, with the new one still saved.  The
  hypotheses are those of a deployment: one configured account and every grant there is in
  the starting file.  With two failing saves of the same refresh TLC finds the loss.
* `FlagIsPending`.  `FlagInv`: while `writing` is up, a refresh has yet to write or a timer is
  running that will lower it.  It is what `WritingCleared` rests on, and inductive with
  `TypeOK`: a refresh leaves its critical section by lowering the flag or by starting
  the timer, and the timer of one refresh may lower the flag of the next, never raise it.

The other components:

* `StalenessInvariant`, `StalenessIsBounded`, `RevokedKeysGoQuiet`.
  `BoundedStaleness` is not inductive: an accepted answer comes from a cache entry
  or a SELECT.  `StalenessInv` adds that an entry of a revoked key expires by its
  deadline, that a fill which may still come is dated before the revocation (the
  point where it matters that `now` is read before the SELECT), that nothing is
  dated in the future (needed at the moment of revocation), that pending writes
  keep the same deadline, and where answers are set.
* `RefinesService`: each step of the store is a step of `KeyService` or changes nothing
  it sees.  A hit uses `BoundedStaleness` in the next state, a refusal the WHERE
  clause.
* `DrainInvariant`, `NothingLost`.  That an exit loses nothing is not inductive.
  `DrainInv` adds where an accepted row is (`RowsAccounted`), that `Run` without an
  error leaves no handler that could still send (`NoLateSender`), and that a worker
  leaves only an empty channel, which therefore stays empty (`WorkersDrain`).  The
  order of `main`'s closes is what the middle part rests on.
* `ReadyIsRecent`, `OutageIsHidden`, `TrafficReturns`.  What a probe is told depends on
  the copy of `dbLastOK` it read, what happens to a request on when the last good ping
  was.  `ProbeInv` ties them: a copy is never newer than `dbLastOK`, which stands still
  in an outage (`Honest`); while the database is up, the kubelet's last probe, or the
  one before while another is under way, left a ping that was recent then (`Recent`);
  hence a steady outage begins at most a skip and a period after a good ping, and a probe
  told "not ready" went by a copy older than the grace (`Hidden`).
* `RateBounded`, `RefusalsAreEarned`.  That a rate is kept says nothing of the next
  request.  `LimiterInv` counts the tokens left along with the requests let in: both
  together never exceed the burst and what the rate has added since the marked moment
  (`Budgeted`); and after a request was let in the bucket holds what it gained since
  (`Refilled`), so an empty one was used a short while ago.  Both rest on a burst of at
  least one request, which the code sees to for small overrides.

* `WalkIsComplete`.  `WalkInv`: while the walk goes on, a row of its beginning that was on
  no page is beyond the offset.  The proof counts: a row's position is one more than the
  number of newer rows (`RankFacts`), a row inserted meanwhile pushes the others back and
  never forward (`InsertsPush`), a page shows the positions between its offset and the next
  (`PageAdvances`), and as long as some row is beyond the offset, one is right behind
  it, so that the page is not empty (`NextRank`).
* `ForwardInvariant`, and from it `RetriesOnce`, `WholeBodyForwarded`, `RecordedOnce`,
  `TruncationFlagged`.  `ForwardInv` has five parts: types; what `forward`'s locals are at each
  place of it (`LocalsInv`); how the rows and the answers relate to them (`OutcomeInv`); that
  a handler's call of the manager is where the handler is (`CallInv`); and, as long as no
  file was reloaded, how old the tokens are that it tried, that the manager holds and that
  a refresh got (`NewerInv`).  The last is the point of the retry: a handler that waited
  for another's refresh sends a newer token although it never asked the provider itself.
  The manager is `TokenService` here; by `ContractKept` the real one does no more.

Each inductive invariant was checked by TLC on its component's instance before it was
proved.  All invariants, action properties and refinements of the passing runs are
theorems.

Only model-checked: liveness (`StaysFresh`, `CallsReturn`, `WritingCleared`,
`FollowsFile`, `RestartRecovers`, `RequestsNeverWait`, `ShutdownEnds`,
`RequestsAreAnswered`), which needs fairness and `ENABLED`, out of the prover's reach.
Induction over data is out of its reach as well, and not needed: positions are counted
with cardinalities, and no module has a `RECURSIVE` operator.  The properties of the
violation runs are false.

## Where the documents differ

Four differences have a run (above).  Others, met while modelling, are plain from
the code:

* `docs/API.md:119` lists 502 for "unauthorized after refresh"; a second 401 is passed
  on as 401 (`proxy.go:181`), 502 is the answer when the refresh itself fails.
* `docs/API.md:118` lists 500 for database errors; `APIKeyAuth` answers 401 "invalid API
  key" to any error of `ValidatePlaintext` (`middleware.go:123`).
* `docs/API.md:142` says ready means "database reachable"; `Healthy` says so for up to
  45s after the last good ping, on purpose.
* `docs/API.md:169` says refresh is not on a background timer; `StartProactiveRefresh` is
  one.
* `docs/API.md:539` gives 500 as the largest page; `ListAudit` reports the limit that
  was asked for, so a client advancing by it skips rows.  `total` is counted in a
  query of its own: a client that stops there can miss rows inserted since.
* `docs/API.md:581` says the flags tell of truncation; the row of a 413 holds the first
  `MaxRequestBytes` bytes with `request_truncated` false unless that exceeds the audit
  cap.
* An upstream that breaks off before its first byte gives the client 502, and the
  record the upstream's status with an error.

## Not modelled, and the plan

1. Proofs: what `FollowsFile` rests on, namely that with one reload at a time and no
   write-back a watcher with nothing pending has loaded the file or refused it.
   (That a caller waiting for `refreshMu` finds an owner with a step to take follows from
   `SingleFlight`.)
2. Several managers over one `auth_states` row.  `main` reads the row at boot and
   never again, so after one replica rotated the refresh token the others hold a
   dead one: their next refresh fails, their tokens serve until expiry, and they
   recover at a restart.  `README.md:162` speaks of multi-replica deployments.
3. Two overlapping reloads, and two issuers with a reload during a refresh; both are
   hazards in `PROJECT.json`.

Left out for good: configuration (a pure function of file and environment, read
once; what it guarantees is an assumption of the modules), metrics (gauges and
counters nothing reads), logging, header and URL rewriting, CORS, `AdminAuth` and
`RequestID` (no state), `ListKeys` and `GetAudit` (single reads), manifests and build
files.
