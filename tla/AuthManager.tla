---------------------------- MODULE AuthManager ----------------------------
(***************************************************************************)
(* The credential manager of grok-auth-proxy (internal/auth/auth.go), with *)
(* the boot sequence of cmd/proxy/main.go that feeds it and the two places *)
(* where credentials survive a restart: auth.json and the auth_states row  *)
(* of the store.  One process runs request handlers (Requests), the        *)
(* proactive refresh loop (Ticker), the fsnotify loop, debounced or        *)
(* admin-triggered reloads (Reloaders) and 500ms timers.  The OIDC         *)
(* provider is external: it issues refresh tokens and may rotate them.     *)
(* A definition marked BROKEN is not part of the specification: it is the  *)
(* next definition with a slip, kept to see the properties catch it.       *)
(***************************************************************************)
EXTENDS Naturals

CONSTANTS
  Requests,      \* handlers calling GetAccessToken / ForceRefresh
  Ticker,        \* the goroutine of StartProactiveRefresh
  Reloaders,     \* goroutines that can be inside Reload at one time
  Accounts,      \* keys of the auth.json map
  Filter,        \* accounts matched by the configured account; {}: none set
  Issuers,       \* issuers an entry may name
  None,          \* absent value; as an issuer: the configured default
  Malformed,     \* auth.json content that ReadFile or Unmarshal rejects
  Bootstraps,    \* the auth.json maps a deployment may start from
  FirstGrants,   \* refresh tokens 1..FirstGrants are live at the start
  FileWritable,  \* authPathWritable(path)
  FallbackWorks, \* the provider also serves issuer/oauth/token
  Rotation,      \* may a token response omit / carry a new refresh token
  Lifetimes,     \* lifetimes granted (the 1h default is one of them)
  Skew,          \* refreshSkew
  MaxTime, MaxCalls, MaxEdits, MaxFaults,  \* bounds of the exploration
  FaultKinds     \* the faults that may happen, at most MaxFaults in all

Callers == Requests \cup {Ticker}

ASSUME IdAssumption ==
  /\ Ticker \notin Requests
  /\ None \notin Callers \cup Accounts \cup Issuers

\* Config.Validate puts the default for a skew that is not positive.
ASSUME NumberAssumption ==
  /\ {FirstGrants, MaxTime, MaxCalls, MaxEdits, MaxFaults} \subseteq Nat
  /\ Lifetimes \subseteq Nat \ {0} /\ Skew \in Nat \ {0}

ASSUME ChoiceAssumption ==
  /\ Filter \subseteq Accounts
  /\ {FileWritable, FallbackWorks} \subseteq BOOLEAN
  /\ Rotation \subseteq BOOLEAN

\* One entry of auth.json.  key and refresh number the grant that issued the
\* access and the refresh token (0: empty string), exp 0 is the zero time.
Entry == [key : Nat, refresh : Nat, exp : Nat, iss : Issuers \cup {None}]
FileMap == [Accounts -> Entry \cup {None}]
Endpoint == [iss : Issuers \cup {None}, discovered : BOOLEAN]
Reply == [key : Nat, refresh : Nat, life : Nat]

NoEntry == [key |-> 0, refresh |-> 0, exp |-> 0, iss |-> None]
NoMap == [a \in Accounts |-> None]

ASSUME BootstrapAssumption ==
  /\ Bootstraps \subseteq FileMap
  /\ Malformed \notin FileMap \cup {None}
  /\ None \notin FileMap \cup Entry

\* What a deployment starts from, the provider has issued.
ASSUME GrantAssumption ==
  \A f \in Bootstraps : \A a \in Accounts :
    f[a] # None => f[a].key <= FirstGrants /\ f[a].refresh <= FirstGrants

\* The locals of one call: the entry read on entry (tok), the snapshot taken
\* under refreshMu (rs, rk), the token endpoint, the provider's answer, the
\* copy of the map handed to Persist and the file, and the outcome.
Call == [op : {"none", "get", "force", "tick"}, t0 : Nat, tok : Entry,
         rs : Entry, rk : Accounts \cup {None}, ep : Endpoint \cup {None},
         reply : Reply \cup {None}, fd : FileMap, ok : BOOLEAN]
NoCall == [op |-> "none", t0 |-> 0, tok |-> NoEntry, rs |-> NoEntry, rk |-> None,
           ep |-> None, reply |-> None, fd |-> NoMap, ok |-> FALSE]

VARIABLES
  now,                                             \* the clock
  valid, issued,                                   \* provider: live refresh tokens
  file, db,                                        \* auth.json, auth_states
  mode,                                            \* "down", "seed", "watch", "up"
  entry, mapKey, fileData, tokenEndpoint, writing, \* the Manager's fields
  refreshMu, pc, call,                             \* refreshMu holder; the callers
  events, debounce, unflag, rd,                    \* fsnotify queue, timers, reloads
  started, edits, faults                           \* bounded counters

provider == <<valid, issued>>
disk == <<file, db>>
memory == <<entry, mapKey, fileData, tokenEndpoint, writing>>
callers == <<refreshMu, pc, call>>
watcher == <<events, debounce, unflag, rd>>
budget == <<started, edits, faults>>
vars == <<now, provider, disk, mode, memory, callers, watcher, budget>>

-----------------------------------------------------------------------------
(* What the code computes from an entry or from a file.                     *)

\* GetAccessToken: now + skew is after the expiry, unless that is unknown.
NeedsRefreshBroken(e) == e.exp # 0 /\ now > e.exp + Skew  \* BROKEN: sign of the skew
NeedsRefresh(e) == e.exp # 0 /\ now + Skew > e.exp

\* refresh, after waiting for refreshMu: someone else already refreshed.
FreshEnough(e) == e.exp # 0 /\ now + Skew < e.exp

\* GetAccessToken, when the refresh failed: "still not expired".
StillServesBroken(e) == now + Skew < e.exp  \* BROKEN: the skew counts here too
StillServes(e) == now < e.exp

\* proactiveTick looks at a window of twice the skew.
InProactiveWindowBroken(e) == e.exp # 0 /\ ~(now < e.exp)  \* BROKEN: no skew
InProactiveWindow(e) == e.exp # 0 /\ ~(now + 2 * Skew < e.exp)

\* selectEntry: any account matching the filter (map order is random), or
\* else a longest lived one among the entries with a key.
Candidates(fd) ==
  IF Filter # {}
    THEN {a \in Filter : fd[a] # None}
    ELSE {a \in Accounts : /\ fd[a] # None /\ fd[a].key # 0
                           /\ \A b \in Accounts : fd[b] # None /\ fd[b].key # 0
                                                    => fd[b].exp <= fd[a].exp}

\* The accounts loadBytes may install from content f; {}: it can only fail.
Loads(f) == IF f \in {None, Malformed} THEN {}
            ELSE {a \in Candidates(f) : f[a].key # 0}

\* loadBytes may refuse content f: unreadable, no entry, or an empty key.
Refuses(f) == f \notin {None, Malformed} =>
                Candidates(f) = {} \/ \E a \in Candidates(f) : f[a].key = 0

\* BROKEN: the map of the file is not kept.
LoadBroken(f, a) == mapKey' = a /\ entry' = f[a] /\ tokenEndpoint' = None /\ UNCHANGED fileData

\* The assignments of loadBytes, all under one hold of mu.
Load(f, a) ==
  /\ fileData' = f /\ mapKey' = a /\ entry' = f[a] /\ tokenEndpoint' = None

\* A rename onto auth.json is seen by the watcher once StartWatch has run.
Notify == events' = IF mode = "up" THEN events + 1 ELSE events

Fault(k) == k \in FaultKinds /\ faults < MaxFaults /\ faults' = faults + 1

Goto(c, label) == pc' = [pc EXCEPT ![c] = label]

\* The deferred refreshMu.Unlock of refresh: its locals go, its result stays.
EndRefresh(c, ok) ==
  /\ refreshMu' = None
  /\ Goto(c, "refreshed")
  /\ call' = [call EXCEPT ![c] = [NoCall EXCEPT !.op = call[c].op, !.t0 = call[c].t0,
                                                !.tok = call[c].tok, !.ok = ok]]

-----------------------------------------------------------------------------
(* Boot: LoadAuthState, NewManager, seeding of the store, StartWatch.       *)

Init ==
  /\ now = 0
  /\ valid = 1 .. FirstGrants /\ issued = FirstGrants
  /\ file \in Bootstraps /\ db = None
  /\ mode = "down"
  /\ entry = NoEntry /\ mapKey = None /\ fileData = NoMap
  /\ tokenEndpoint = None /\ writing = FALSE
  /\ refreshMu = None
  /\ pc = [c \in Callers |-> "idle"] /\ call = [c \in Callers |-> NoCall]
  /\ events = 0 /\ debounce = FALSE /\ unflag = 0
  /\ rd = [r \in Reloaders |-> None]
  /\ started = 0 /\ edits = 0 /\ faults = 0

\* The blob that was loaded replaces the file if it can; failing is only logged.
MaterializeBlob ==
  \/ file' = (IF FileWritable THEN db ELSE file) /\ UNCHANGED faults
  \/ FileWritable /\ Fault("write") /\ UNCHANGED file

\* BROKEN: the file has to be loadable too.
BootFromDBBroken ==
  /\ mode = "down" /\ db # None /\ Loads(file) # {}
  /\ \E a \in Loads(db) : Load(db, a)
  /\ MaterializeBlob
  /\ mode' = "watch"
  /\ UNCHANGED <<now, provider, db, writing, callers, watcher, started, edits>>

\* The store has a blob: it wins over the file.
BootFromDB ==
  /\ mode = "down" /\ db # None
  /\ \E a \in Loads(db) : Load(db, a)
  /\ MaterializeBlob
  /\ mode' = "watch"
  /\ UNCHANGED <<now, provider, db, writing, callers, watcher, started, edits>>

\* No blob, or LoadAuthState failed (only logged): the file is loaded.
BootFromFile ==
  /\ mode = "down"
  /\ \/ db = None /\ UNCHANGED faults
     \/ db # None /\ Fault("dbload")
  /\ \E a \in Loads(file) : Load(file, a)
  /\ mode' = "seed"
  /\ UNCHANGED <<now, provider, disk, writing, callers, watcher, started, edits>>

\* main reads the file again and saves what it reads, if it can read it; then
\* the watcher starts.
SeedStore ==
  /\ mode = "seed"
  /\ \/ db' = file /\ UNCHANGED faults
     \/ file = Malformed /\ UNCHANGED <<db, faults>>
     \/ Fault("seed") /\ UNCHANGED db
  /\ mode' = "up"
  /\ UNCHANGED <<now, provider, file, memory, callers, watcher, started, edits>>

StartWatch ==
  /\ mode = "watch" /\ mode' = "up"
  /\ UNCHANGED <<now, provider, disk, memory, callers, watcher, budget>>

\* The process is killed: memory, calls in flight and timers are gone.
Crash ==
  /\ mode # "down" /\ Fault("crash")
  /\ mode' = "down"
  /\ entry' = NoEntry /\ mapKey' = None /\ fileData' = NoMap
  /\ tokenEndpoint' = None /\ writing' = FALSE
  /\ refreshMu' = None
  /\ pc' = [c \in Callers |-> "idle"] /\ call' = [c \in Callers |-> NoCall]
  /\ events' = 0 /\ debounce' = FALSE /\ unflag' = 0
  /\ rd' = [r \in Reloaders |-> None]
  /\ UNCHANGED <<now, provider, disk, started, edits>>

-----------------------------------------------------------------------------
(* Calls of GetAccessToken, ForceRefresh and the proactive tick.            *)

Begin(c, label, locals) ==
  /\ mode = "up" /\ pc[c] = "idle"
  /\ Goto(c, label)
  /\ call' = [call EXCEPT ![c] = locals]
  /\ UNCHANGED <<now, provider, disk, mode, memory, refreshMu, watcher, edits, faults>>

MayStart == started < MaxCalls /\ started' = started + 1

\* An entry that need not be refreshed is returned at once.
GetAccessToken(c) ==
  LET usable == entry.key # 0
      wait == usable /\ NeedsRefresh(entry)
  IN  /\ MayStart
      /\ Begin(c, IF wait THEN "lock" ELSE "done",
               [NoCall EXCEPT !.op = "get", !.t0 = now, !.tok = entry,
                              !.ok = usable /\ ~wait])

ForceRefresh(c) == MayStart /\ Begin(c, "lock", [NoCall EXCEPT !.op = "force"])

\* A tick that finds the expiry unknown or far away does nothing.
ProactiveTick ==
  IF InProactiveWindow(entry)
    THEN /\ Begin(Ticker, "lock", [NoCall EXCEPT !.op = "tick", !.t0 = now])
         /\ UNCHANGED started
    ELSE mode = "up" /\ pc[Ticker] = "idle" /\ UNCHANGED vars

LocksBroken(c) == pc[c] = "lock"  \* BROKEN: nobody waits for refreshMu
Locks(c) == pc[c] = "lock" /\ refreshMu = None

\* BROKEN: a forced refresh, too, is content with a fresh entry.
MustExchangeDedup(c) == ~FreshEnough(entry)

\* BROKEN: the check is made on the entry read before waiting for refreshMu.
MustExchangeBroken(c) == call[c].op = "force" \/ ~FreshEnough(call[c].tok)
MustExchange(c) == call[c].op = "force" \/ ~FreshEnough(entry)

\* refresh gets the mutex and snapshots the entry; without force it gives up
\* when the entry is fresh by now, and with no refresh token it cannot go on.
RefreshAlreadyDone(c) ==
  /\ Locks(c) /\ ~MustExchange(c)
  /\ EndRefresh(c, TRUE)
  /\ UNCHANGED <<now, provider, disk, mode, memory, watcher, budget>>

\* BROKEN: without a refresh token there is nothing to do.
RefreshImpossibleBroken(c) ==
  /\ Locks(c) /\ MustExchange(c) /\ entry.refresh = 0
  /\ EndRefresh(c, TRUE)
  /\ UNCHANGED <<now, provider, disk, mode, memory, watcher, budget>>

RefreshImpossible(c) ==
  /\ Locks(c) /\ MustExchange(c) /\ entry.refresh = 0
  /\ EndRefresh(c, FALSE)
  /\ UNCHANGED <<now, provider, disk, mode, memory, watcher, budget>>

RefreshBegin(c) ==
  /\ Locks(c) /\ MustExchange(c) /\ entry.refresh # 0
  /\ refreshMu' = c
  /\ Goto(c, "endpoint")
  /\ call' = [call EXCEPT ![c].rs = entry, ![c].rk = mapKey]
  /\ UNCHANGED <<now, provider, disk, mode, memory, watcher, budget>>

\* discoverTokenEndpoint: the cached URL, whatever issuer it was found for.
CachedEndpoint(c) ==
  /\ pc[c] = "endpoint"
  /\ call' = [call EXCEPT ![c].ep = tokenEndpoint]
  /\ Goto(c, IF tokenEndpoint = None THEN "discover" ELSE "post")
  /\ UNCHANGED <<now, provider, disk, mode, memory, refreshMu, watcher, budget>>

\* The discovery request; any failure caches the conventional path instead.
DiscoverAs(c, found) ==
  /\ pc[c] = "discover"
  /\ LET e == [iss |-> call[c].rs.iss, discovered |-> found]
     IN  tokenEndpoint' = e /\ call' = [call EXCEPT ![c].ep = e]
  /\ Goto(c, "post")
  /\ UNCHANGED <<now, provider, disk, mode, entry, mapKey, fileData, writing,
                 refreshMu, watcher, started, edits>>

Discover(c) == DiscoverAs(c, TRUE) /\ UNCHANGED faults
DiscoveryFails(c) == DiscoverAs(c, FALSE) /\ Fault("discover")

-----------------------------------------------------------------------------
(* The token request.  The provider is external.                            *)

Accepted(c) ==
  /\ call[c].ep.iss = call[c].rs.iss
  /\ call[c].ep.discovered \/ FallbackWorks
  /\ call[c].rs.refresh \in valid

\* The provider answers with grant issued + 1; if it rotates, the refresh
\* token it was sent is dead from now on.
Grant(c, rotate) ==
  /\ pc[c] = "post" /\ Accepted(c)
  /\ issued' = issued + 1
  /\ valid' = IF rotate THEN (valid \ {call[c].rs.refresh}) \cup {issued + 1} ELSE valid

Exchange(c) ==
  \E rotate \in Rotation, life \in Lifetimes :
    /\ Grant(c, rotate)
    /\ Goto(c, "install")
    /\ call' = [call EXCEPT ![c].reply =
                  [key |-> issued + 1, refresh |-> IF rotate THEN issued + 1 ELSE 0,
                   life |-> life]]
    /\ UNCHANGED <<now, disk, mode, memory, refreshMu, watcher, budget>>

\* The answer is lost (timeout, cancelled request context, unreadable body).
ReplyLost(c) ==
  /\ \E rotate \in Rotation : Grant(c, rotate)
  /\ Fault("reply")
  /\ EndRefresh(c, FALSE)
  /\ UNCHANGED <<now, disk, mode, memory, watcher, started, edits>>

Rejected(c) ==
  /\ pc[c] = "post" /\ ~Accepted(c)
  /\ EndRefresh(c, FALSE)
  /\ UNCHANGED <<now, provider, disk, mode, memory, watcher, budget>>

\* BROKEN: the error of the request is not returned.
PostFailsBroken(c) ==
  /\ pc[c] = "post" /\ Fault("post")
  /\ Goto(c, "install")
  /\ UNCHANGED <<now, provider, disk, mode, memory, refreshMu, call, watcher, started, edits>>

\* The request does not reach the provider, or it answers 5xx.
PostFails(c) ==
  /\ pc[c] = "post" /\ Fault("post")
  /\ EndRefresh(c, FALSE)
  /\ UNCHANGED <<now, provider, disk, mode, memory, watcher, started, edits>>

-----------------------------------------------------------------------------
(* Installing and saving the new credential.                                *)

\* BROKEN: a rotated refresh token is not taken over.
NewEntryBroken(c) ==
  [key |-> call[c].reply.key, exp |-> now + call[c].reply.life, iss |-> call[c].rs.iss,
   refresh |-> call[c].rs.refresh]

NewEntry(c) ==
  LET r == call[c].reply
  IN  [key |-> r.key, exp |-> now + r.life, iss |-> call[c].rs.iss,
       refresh |-> IF r.refresh = 0 THEN call[c].rs.refresh ELSE r.refresh]

\* One hold of mu.  mapKey is the snapshot's: mapKey itself is not assigned.
Install(c) ==
  /\ pc[c] = "install"
  /\ entry' = NewEntry(c)
  /\ fileData' = [fileData EXCEPT ![call[c].rk] = NewEntry(c)]
  /\ call' = [call EXCEPT ![c].fd = fileData']
  /\ writing' = TRUE
  /\ Goto(c, "persist")
  /\ UNCHANGED <<now, provider, disk, mode, mapKey, tokenEndpoint, refreshMu,
                 watcher, budget>>

\* BROKEN: the map as it is now is saved, not the copy Install made.
PersistBroken(c) ==
  /\ pc[c] = "persist"
  /\ \/ db' = fileData /\ UNCHANGED faults
     \/ Fault("persist") /\ UNCHANGED db
  /\ Goto(c, "write")
  /\ UNCHANGED <<now, provider, file, mode, memory, refreshMu, call, watcher,
                 started, edits>>

\* Persist, whose failure is only logged.
Persist(c) ==
  /\ pc[c] = "persist"
  /\ \/ db' = call[c].fd /\ UNCHANGED faults
     \/ Fault("persist") /\ UNCHANGED db
  /\ Goto(c, "write")
  /\ UNCHANGED <<now, provider, file, mode, memory, refreshMu, call, watcher,
                 started, edits>>

\* writeAuthFileAtomic renames onto auth.json; writing is cleared 500ms later.
WriteFile(c) ==
  /\ pc[c] = "write" /\ FileWritable
  /\ file' = call[c].fd
  /\ Notify
  /\ unflag' = unflag + 1
  /\ EndRefresh(c, TRUE)
  /\ UNCHANGED <<now, provider, db, mode, memory, debounce, rd, budget>>

\* BROKEN: writing is not reset.
WriteFileFailsBroken(c) ==
  /\ pc[c] = "write" /\ FileWritable /\ Fault("write")
  /\ EndRefresh(c, TRUE)
  /\ UNCHANGED <<now, provider, disk, mode, memory, watcher, started, edits>>

WriteFileFails(c) ==
  /\ pc[c] = "write" /\ FileWritable /\ Fault("write")
  /\ writing' = FALSE
  /\ EndRefresh(c, TRUE)
  /\ UNCHANGED <<now, provider, disk, mode, entry, mapKey, fileData, tokenEndpoint,
                 watcher, started, edits>>

SkipFile(c) ==
  /\ pc[c] = "write" /\ ~FileWritable
  /\ writing' = FALSE
  /\ EndRefresh(c, TRUE)
  /\ UNCHANGED <<now, provider, disk, mode, entry, mapKey, fileData, tokenEndpoint,
                 watcher, budget>>

\* BROKEN: a failed refresh is retried at once.
AfterRefreshBroken(c) ==
  /\ pc[c] = "refreshed" /\ call[c].op = "get"
  /\ Goto(c, IF call[c].ok THEN "done" ELSE "lock")
  /\ call' = [call EXCEPT ![c].tok = entry]
  /\ UNCHANGED <<now, provider, disk, mode, memory, refreshMu, watcher, budget>>

\* GetAccessToken after Refresh: the current entry if it succeeded, the one
\* read first if that has not expired, an error otherwise.
AfterRefresh(c) ==
  /\ pc[c] = "refreshed" /\ call[c].op = "get"
  /\ Goto(c, "done")
  /\ call' = IF call[c].ok THEN [call EXCEPT ![c].tok = entry]
             ELSE IF StillServes(call[c].tok) THEN [call EXCEPT ![c].ok = TRUE]
             ELSE call
  /\ UNCHANGED <<now, provider, disk, mode, memory, refreshMu, watcher, budget>>

Return(c) ==
  /\ pc[c] = IF call[c].op = "get" THEN "done" ELSE "refreshed"
  /\ Goto(c, "idle")
  /\ call' = [call EXCEPT ![c] = NoCall]
  /\ UNCHANGED <<now, provider, disk, mode, memory, refreshMu, watcher, budget>>

-----------------------------------------------------------------------------
(* The file watcher, its timers, and reloads.                               *)

\* A login elsewhere writes a fresh credential, or someone breaks the file.
ExternalEdit ==
  /\ edits < MaxEdits /\ edits' = edits + 1
  /\ \/ \E a \in Accounts, i \in Issuers \cup {None}, life \in Lifetimes :
          /\ issued' = issued + 1 /\ valid' = valid \cup {issued + 1}
          /\ file' = [IF file = Malformed THEN NoMap ELSE file EXCEPT
                        ![a] = [key |-> issued + 1, refresh |-> issued + 1,
                                exp |-> now + life, iss |-> i]]
     \/ file' = Malformed /\ UNCHANGED provider
  /\ Notify
  /\ UNCHANGED <<now, db, mode, memory, callers, debounce, unflag, rd, started, faults>>

\* BROKEN: an event is also skipped while a reload is under way.
WatchEventBroken ==
  /\ mode = "up" /\ events > 0
  /\ events' = events - 1
  /\ debounce' = (debounce \/ (~writing /\ \A r \in Reloaders : rd[r] = None))
  /\ UNCHANGED <<now, provider, disk, mode, memory, callers, unflag, rd, budget>>

\* watchLoop takes an event: skipped while writing, or else (re)arms the debounce.
WatchEvent ==
  /\ mode = "up" /\ events > 0
  /\ events' = events - 1
  /\ debounce' = (debounce \/ ~writing)
  /\ UNCHANGED <<now, provider, disk, mode, memory, callers, unflag, rd, budget>>

\* The timer that write-back started: it clears the flag, whoever set it.
UnflagTimer ==
  /\ unflag > 0 /\ unflag' = unflag - 1
  /\ writing' = FALSE
  /\ UNCHANGED <<now, provider, disk, mode, entry, mapKey, fileData, tokenEndpoint,
                 callers, events, debounce, rd, budget>>

\* Reload reads the file, after the debounce or for the admin endpoint ...
ReadFile(r) == rd[r] = None /\ rd' = [rd EXCEPT ![r] = file]

DebounceFires(r) ==
  /\ debounce /\ debounce' = FALSE
  /\ ReadFile(r)
  /\ UNCHANGED <<now, provider, disk, mode, memory, callers, events, unflag, budget>>

AdminReload(r) ==
  /\ mode = "up" /\ MayStart
  /\ ReadFile(r)
  /\ UNCHANGED <<now, provider, disk, mode, memory, callers, events, debounce, unflag,
                 edits, faults>>

\* ... and loadBytes installs what was read, or changes nothing.
ReloadInstalls(r) ==
  /\ \E a \in Loads(rd[r]) : Load(rd[r], a)
  /\ rd' = [rd EXCEPT ![r] = None]
  /\ UNCHANGED <<now, provider, disk, mode, writing, callers, events, debounce, unflag,
                 budget>>

\* BROKEN: loadBytes assigns before it refuses.
ReloadRefusedBroken(r) ==
  /\ rd[r] # None /\ Refuses(rd[r])
  /\ rd' = [rd EXCEPT ![r] = None]
  /\ entry' = NoEntry
  /\ UNCHANGED <<now, provider, disk, mode, mapKey, fileData, tokenEndpoint, writing,
                 callers, events, debounce, unflag, budget>>

ReloadRefused(r) ==
  /\ rd[r] # None /\ Refuses(rd[r])
  /\ rd' = [rd EXCEPT ![r] = None]
  /\ UNCHANGED <<now, provider, disk, mode, memory, callers, events, debounce, unflag,
                 budget>>

Tick ==
  /\ now < MaxTime /\ now' = now + 1
  /\ UNCHANGED <<provider, disk, mode, memory, callers, watcher, budget>>

-----------------------------------------------------------------------------
Boot == BootFromDB \/ BootFromFile \/ SeedStore \/ StartWatch

RefreshLocked(c) == RefreshAlreadyDone(c) \/ RefreshImpossible(c) \/ RefreshBegin(c)

RefreshStep(c) ==
  \/ CachedEndpoint(c) \/ Discover(c) \/ DiscoveryFails(c)
  \/ Exchange(c) \/ ReplyLost(c) \/ Rejected(c) \/ PostFails(c)
  \/ Install(c) \/ Persist(c) \/ WriteFile(c) \/ WriteFileFails(c) \/ SkipFile(c)
  \/ AfterRefresh(c) \/ Return(c)

ReloadStep(r) == DebounceFires(r) \/ ReloadInstalls(r) \/ ReloadRefused(r)

Next ==
  \/ Boot \/ Crash \/ Tick \/ ProactiveTick \/ ExternalEdit \/ WatchEvent \/ UnflagTimer
  \/ \E c \in Requests : GetAccessToken(c) \/ ForceRefresh(c)
  \/ \E c \in Callers : RefreshLocked(c) \/ RefreshStep(c)
  \/ \E r \in Reloaders : AdminReload(r) \/ ReloadStep(r)

Spec == Init /\ [][Next]_vars

\* What the runtime and the deployment give: the process is restarted and
\* booted; a blocking step ends (HTTP client timeout of 30s, database and file
\* calls return); a waiter is not starved of refreshMu (sync.Mutex hands over
\* to the oldest waiter); the one minute ticker, fsnotify and timers fire.
FairSpec ==
  /\ Spec
  /\ WF_vars(Boot) /\ WF_vars(ProactiveTick) /\ WF_vars(WatchEvent) /\ WF_vars(UnflagTimer)
  /\ \A c \in Callers : SF_vars(RefreshLocked(c)) /\ WF_vars(RefreshStep(c))
  /\ \A r \in Reloaders : WF_vars(ReloadStep(r))

-----------------------------------------------------------------------------
(* Properties.                                                              *)

HoldsRefreshMu(c) ==
  pc[c] \in {"endpoint", "discover", "post", "install", "persist", "write"}

Labels == {"idle", "lock", "endpoint", "discover", "post", "install", "persist", "write",
           "refreshed", "done"}

WorldTyped ==
  /\ now \in Nat /\ issued \in Nat /\ valid \subseteq Nat
  /\ file \in FileMap \cup {Malformed} /\ db \in FileMap \cup {None, Malformed}
  /\ mode \in {"down", "seed", "watch", "up"}
  /\ started \in Nat /\ edits \in Nat /\ faults \in Nat

ManagerTyped ==
  /\ entry \in Entry /\ mapKey \in Accounts \cup {None} /\ fileData \in FileMap
  /\ tokenEndpoint \in Endpoint \cup {None} /\ writing \in BOOLEAN

CallersTyped ==
  /\ refreshMu \in Callers \cup {None}
  /\ pc \in [Callers -> Labels] /\ call \in [Callers -> Call]
  /\ \A c \in Callers : pc[c] = "install" => call[c].reply \in Reply

WatcherTyped ==
  /\ events \in Nat /\ debounce \in BOOLEAN /\ unflag \in Nat
  /\ rd \in [Reloaders -> FileMap \cup {None, Malformed}]

\* The values the state of the Manager and its surroundings may take; what is
\* about to be installed is an answer of the provider.
TypeOK == WorldTyped /\ ManagerTyped /\ CallersTyped /\ WatcherTyped

\* "Only one refresh HTTP round trip may be in flight at a time" (refresh):
\* from the snapshot to the write-back, the caller owns refreshMu.
SingleFlight == \A c \in Callers : HoldsRefreshMu(c) <=> refreshMu = c

\* What refreshMu is for (its comment): with no reload and no lost answer in
\* the way, no caller ever posts a refresh token that was already consumed.
PostsLiveToken == \A c \in Callers : pc[c] = "post" => call[c].rs.refresh \in valid

\* Refresh: "Concurrent calls are deduplicated".  An exchange nobody forced
\* never starts or finishes while the manager's entry is fresh.
NoNeedlessExchange ==
  [][\A c \in Callers : pc[c] = "post" /\ pc'[c] = "install" /\ call[c].op # "force"
                          => ~FreshEnough(entry)]_vars

Newest(f) == LET keys == {f[a].key : a \in {b \in Accounts : f[b] # None}}
             IN  CHOOSE k \in keys \cup {0} : \A j \in keys : j <= k

\* Persist is called in the order of the exchanges: auth_states never goes
\* back to an older grant, so a restart resumes from the newest one saved.
StoreNeverRegresses ==
  [][({db, db'} \subseteq FileMap) => Newest(db) <= Newest(db')]_vars

\* "GetAccessToken returns a valid access token": what it returns without an
\* error had not expired when it was called.
ReturnsUnexpiredToken ==
  \A c \in Requests : pc[c] = "done" /\ call[c].op = "get" /\ call[c].ok
                        => call[c].tok.exp = 0 \/ call[c].tok.exp > call[c].t0

\* GetAccessToken: "If still not expired, serve current token".  However the
\* provider fails, a call returns an error only if there was no token or the
\* one it found has expired by now.
FailsOnlyWhenExpired ==
  \A c \in Requests : pc[c] = "done" /\ call[c].op = "get" /\ ~call[c].ok
                        => call[c].tok.key = 0 \/ call[c].tok.exp <= now

\* Every call that waits for refreshMu gets through and returns.
CallsReturn == \A c \in Callers : pc[c] = "lock" ~> pc[c] = "idle"

\* main: "Refresh before expiry even with no traffic (avoids silent dead
\* tokens)": an entry inside the skew does not stay there.
StaysFresh == (mode = "up" /\ entry.exp # 0 /\ ~FreshEnough(entry))
                ~> (entry.exp = 0 \/ FreshEnough(entry))

InMap(f, g) == f \in FileMap /\ \E a \in Accounts : f[a] # None /\ f[a].refresh = g

\* As long as nobody else writes auth.json, a refresh token that works is not
\* lost by the running process: it is in memory, in a saved copy, or in the
\* hands of the call that got it, even if one of the two saves fails.
LiveGrantKept ==
  edits = 0 => \A g \in valid :
    \/ entry.refresh = g \/ InMap(fileData, g) \/ InMap(file, g) \/ InMap(db, g)
    \/ \E c \in Callers : \/ pc[c] = "install" /\ call[c].reply.refresh \in {0, g}
                          \/ pc[c] \in {"persist", "write"} /\ InMap(call[c].fd, g)

\* With one account configured, the entry served is the one the map holds for
\* it whatever refreshes and reloads overlap, so saving the map saves it.
\* (Without, a reload may move mapKey under a refresh, and Install then files
\* the new entry under the account the refresh started from.)
PinnedEntryIsInMap == mode # "down" /\ Filter = {mapKey} => entry = fileData[mapKey]

\* Unless a save failed or someone else wrote the file, it agrees with
\* auth_states whenever no refresh is under way.
SavesAgree ==
  mode = "up" /\ refreshMu = None /\ FileWritable /\ faults = 0 /\ edits = 0
    => file = db

\* writing is raised only for the time of a write-back: it never stays up, so
\* the watcher is not deaf for good.
WritingCleared == writing ~> ~writing

\* A running proxy has an access token: no file, however broken, that it
\* reloads takes it away (loadBytes refuses before it assigns).
ServesToken == mode # "down" => entry.key # 0

\* README: "hot-reloads the file on change".  Once a change was noticed, the
\* manager ends up with the file's content unless that cannot be loaded.
FollowsFile ==
  (mode = "up" /\ (events > 0 \/ debounce))
    ~> (mode # "up" \/ fileData = file \/ Refuses(file))

\* A crash is survived: as long as auth_states holds what can be loaded, the
\* next boot succeeds, whatever became of the file.
RestartRecovers == (mode = "down" /\ Loads(db) # {}) ~> mode = "up"

\* proactiveTick: "Refresh when within 2x skew of expiry": a tick that
\* reports success leaves an entry beyond that window.
TickLeavesWindow ==
  pc[Ticker] = "refreshed" /\ call[Ticker].ok
    => entry.exp = 0 \/ call[Ticker].t0 + 2 * Skew < entry.exp

\* How the manager's state reads as that of TokenService.
Stage(c) == CASE pc[c] \in {"idle", "done"} -> pc[c]
              [] pc[c] = "refreshed" -> IF call[c].op = "get" THEN pc[c] ELSE "done"
              [] OTHER -> call[c].op

OwnerIn(labels) == refreshMu # None /\ pc[refreshMu] \in labels

Contract == INSTANCE TokenService WITH
  Clients <- Requests, minted <- issued, held <- entry.key, owner <- refreshMu,
  grant <- IF OwnerIn({"install"}) THEN call[refreshMu].reply.key ELSE 0,
  renewed <- OwnerIn({"persist", "write"}),
  st <- [c \in Requests |-> Stage(c)],
  picked <- [c \in Requests |-> call[c].tok.key],
  ok <- [c \in Requests |-> call[c].ok]

\* TokenProvider, as the proxy uses it: whatever files, timers, faults and
\* other callers do, a ForceRefresh succeeds only after its own exchange has
\* put a new token in place, and GetAccessToken returns a token that was
\* current when it began or, after a refresh, when it ended.
KeepsContract == Contract!Spec

\* main: "seed DB from file on first boot when DB had no state": seeding
\* never replaces a saved state.
SeedsOnlyEmptyStore == [][mode = "seed" /\ db' # db => db = None]_vars

=============================================================================
