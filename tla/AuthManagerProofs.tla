-------------------------- MODULE AuthManagerProofs --------------------------
(***************************************************************************)
(* Proofs about AuthManager, for any set of requests, reloads, accounts    *)
(* and files, and any bounds: the types, and that refreshMu makes the      *)
(* refresh a critical section.                                             *)
(***************************************************************************)
EXTENDS AuthManager, TLAPS

\* What loadBytes installs is a map with an entry for the selected account.
LEMMA LoadsTyped ==
  ASSUME NEW f \in FileMap \cup {None, Malformed}, NEW a \in Loads(f)
  PROVE  f \in FileMap /\ a \in Accounts /\ f[a] \in Entry
BY ChoiceAssumption DEF Loads, Candidates, FileMap

\* The values Init and Crash start from.
LEMMA EmptyTyped == NoEntry \in Entry /\ NoMap \in FileMap /\ NoCall \in Call
<1>1. NoEntry \in Entry
  BY DEF NoEntry, Entry
<1>2. NoMap \in FileMap
  BY DEF NoMap, FileMap
<1>3. QED
  BY <1>1, <1>2 DEF NoCall, Call

\* The locals of a call, and what Install makes of them.
LEMMA CallFields ==
  ASSUME TypeOK, NEW c \in Callers
  PROVE  /\ call[c] \in Call /\ pc[c] \in Labels
         /\ call[c].tok \in Entry /\ call[c].rs \in Entry /\ call[c].fd \in FileMap
         /\ call[c].rs.iss \in Issuers \cup {None}
BY DEF TypeOK, CallersTyped, Call, Entry

\* What is installed is an entry, once the provider has answered.
LEMMA NewEntryTyped ==
  ASSUME TypeOK, NEW c \in Callers, pc[c] = "install"
  PROVE  NewEntry(c) \in Entry
<1>1. call[c].rs \in Entry /\ call[c].reply \in Reply /\ now \in Nat
  BY CallFields DEF TypeOK, CallersTyped, WorldTyped
<1>2. /\ call[c].reply.key \in Nat /\ now + call[c].reply.life \in Nat
      /\ (IF call[c].reply.refresh = 0 THEN call[c].rs.refresh ELSE call[c].reply.refresh) \in Nat
  BY <1>1 DEF Entry, Reply
<1>3. QED
  BY <1>1, <1>2 DEF NewEntry, Entry

\* Installing an entry in the map.
LEMMA MapUpdate ==
  ASSUME NEW m \in FileMap, NEW a, NEW e \in Entry
  PROVE  [m EXCEPT ![a] = e] \in FileMap
BY DEF FileMap

\* A step of one call: where it goes and its locals.
LEMMA CallTyped ==
  ASSUME TypeOK, NEW c \in Callers, NEW label \in Labels, NEW l \in Call,
         label = "install" => l.reply \in Reply,
         refreshMu' \in {refreshMu, c, None}, Goto(c, label), call' = [call EXCEPT ![c] = l]
  PROVE  CallersTyped'
<1>1. pc \in [Callers -> Labels] /\ call \in [Callers -> Call]
  BY DEF TypeOK, CallersTyped
<1>2. pc' \in [Callers -> Labels] /\ call' \in [Callers -> Call]
  BY <1>1 DEF Goto
<1>3. \A d \in Callers : pc'[d] = "install" => call'[d].reply \in Reply
  BY <1>1 DEF Goto, TypeOK, CallersTyped
<1>4. refreshMu' \in Callers \cup {None}
  BY DEF TypeOK, CallersTyped
<1>5. QED
  BY <1>2, <1>3, <1>4 DEF CallersTyped

\* The end of a refresh, in whatever way.
LEMMA EndRefreshTyped ==
  ASSUME TypeOK, NEW c \in Callers, NEW ok \in BOOLEAN, EndRefresh(c, ok)
  PROVE  CallersTyped'
<1> DEFINE l == [NoCall EXCEPT !.op = call[c].op, !.t0 = call[c].t0,
                               !.tok = call[c].tok, !.ok = ok]
<1>1. l \in Call
  BY CallFields, EmptyTyped DEF Call
<1>2. refreshMu' = None /\ Goto(c, "refreshed") /\ call' = [call EXCEPT ![c] = l]
  BY DEF EndRefresh
<1>3. QED
  BY <1>1, <1>2, CallTyped DEF Labels

\* What loadBytes assigns.
LEMMA LoadTyped ==
  ASSUME NEW f \in FileMap \cup {None, Malformed}, NEW a \in Loads(f), Load(f, a)
  PROVE  /\ entry' \in Entry /\ mapKey' \in Accounts /\ fileData' \in FileMap
         /\ tokenEndpoint' = None
BY LoadsTyped DEF Load

\* The four parts of TypeOK, each disturbed by a few actions only.
LEMMA WatcherStep == TypeOK /\ [Next]_vars => WatcherTyped'
<1> SUFFICES ASSUME TypeOK, [Next]_vars PROVE WatcherTyped'
    OBVIOUS
<1> USE DEF TypeOK, WorldTyped, WatcherTyped, watcher
<1>1. CASE UNCHANGED <<watcher>>
    BY <1>1
<1>2. CASE Crash
    BY <1>2 DEF Crash, Fault
<1>3. CASE ExternalEdit
    BY <1>3 DEF ExternalEdit, Notify
<1>4. CASE WatchEvent
    BY <1>4 DEF WatchEvent
<1>5. CASE UnflagTimer
    BY <1>5 DEF UnflagTimer
<1>6. ASSUME NEW c \in Callers, WriteFile(c) PROVE WatcherTyped'
    BY <1>6 DEF WriteFile, Notify, EndRefresh, Goto
<1>7. ASSUME NEW r \in Reloaders, DebounceFires(r) PROVE WatcherTyped'
    BY <1>7 DEF DebounceFires, ReadFile
<1>8. ASSUME NEW r \in Reloaders, AdminReload(r) PROVE WatcherTyped'
    BY <1>8 DEF AdminReload, ReadFile, MayStart
<1>9. ASSUME NEW r \in Reloaders, ReloadInstalls(r) PROVE WatcherTyped'
    BY <1>9 DEF ReloadInstalls, Load
<1>10. ASSUME NEW r \in Reloaders, ReloadRefused(r) PROVE WatcherTyped'
    BY <1>10 DEF ReloadRefused
<1>11. CASE Boot
    BY <1>1, <1>11
    DEF Boot, BootFromDB, MaterializeBlob, Load, BootFromFile, SeedStore, StartWatch,
        vars, provider, disk, memory, callers, watcher, budget
<1>12. ASSUME NEW c \in Callers, RefreshLocked(c) PROVE WatcherTyped'
    BY <1>1, <1>12
    DEF RefreshLocked, RefreshAlreadyDone, EndRefresh, RefreshImpossible, RefreshBegin,
        vars, provider, disk, memory, callers, watcher, budget
<1>13. ASSUME NEW c \in Callers, RefreshStep(c) PROVE WatcherTyped'
    BY <1>1, <1>6, <1>13
    DEF RefreshStep, CachedEndpoint, Discover, DiscoverAs, DiscoveryFails, Exchange,
        ReplyLost, EndRefresh, Rejected, PostFails, Install, Persist, WriteFileFails,
        SkipFile, AfterRefresh, Return, vars, provider, disk, memory, callers, watcher,
        budget
<1>14. ASSUME NEW r \in Reloaders, ReloadStep(r) PROVE WatcherTyped'
    BY <1>1, <1>7, <1>9, <1>10, <1>14
    DEF ReloadStep, vars, provider, disk, memory, callers, watcher, budget
<1>15. QED
    BY <1>1, <1>2, <1>3, <1>4, <1>5, <1>8, <1>11, <1>12, <1>13, <1>14
    DEF Next, Tick, ProactiveTick, Begin, GetAccessToken, ForceRefresh, vars, provider,
        disk, memory, callers, watcher, budget

\* The fields of the Manager: written by loadBytes, Install and the writing flag.
LEMMA ManagerStep == TypeOK /\ [Next]_vars => ManagerTyped'
<1> SUFFICES ASSUME TypeOK, [Next]_vars PROVE ManagerTyped'
    OBVIOUS
<1> USE EmptyTyped DEF TypeOK, ManagerTyped, memory
<1>1. CASE UNCHANGED <<memory>>
    BY <1>1
<1>2. CASE BootFromDB
    BY <1>2, LoadTyped DEF BootFromDB, WorldTyped
<1>3. CASE BootFromFile
    BY <1>3, LoadTyped DEF BootFromFile, WorldTyped
<1>4. CASE Crash
    BY <1>4 DEF Crash, Fault
<1>5. CASE UnflagTimer
    BY <1>5 DEF UnflagTimer
<1>6. ASSUME NEW c \in Callers, Discover(c) PROVE ManagerTyped'
  <2>1. \A b \in BOOLEAN : [iss |-> call[c].rs.iss, discovered |-> b] \in Endpoint
    BY CallFields DEF Endpoint
  <2>2. QED
    BY <1>6, <2>1 DEF Discover, DiscoverAs
<1>7. ASSUME NEW c \in Callers, DiscoveryFails(c) PROVE ManagerTyped'
  <2>1. \A b \in BOOLEAN : [iss |-> call[c].rs.iss, discovered |-> b] \in Endpoint
    BY CallFields DEF Endpoint
  <2>2. QED
    BY <1>7, <2>1 DEF DiscoveryFails, DiscoverAs
<1>8. ASSUME NEW c \in Callers, Install(c) PROVE ManagerTyped'
    BY <1>8, NewEntryTyped, MapUpdate DEF Install
<1>9. ASSUME NEW c \in Callers, WriteFileFails(c) PROVE ManagerTyped'
    BY <1>9 DEF WriteFileFails, EndRefresh, Goto, Fault
<1>10. ASSUME NEW c \in Callers, SkipFile(c) PROVE ManagerTyped'
    BY <1>10 DEF SkipFile, EndRefresh, Goto
<1>11. ASSUME NEW r \in Reloaders, ReloadInstalls(r) PROVE ManagerTyped'
    BY <1>11, LoadTyped DEF ReloadInstalls, WatcherTyped
<1>12. CASE Boot
    BY <1>1, <1>2, <1>3, <1>12
    DEF Boot, SeedStore, StartWatch, vars, provider, disk, memory, callers, watcher,
        budget
<1>13. ASSUME NEW c \in Callers, RefreshLocked(c) PROVE ManagerTyped'
    BY <1>1, <1>13
    DEF RefreshLocked, RefreshAlreadyDone, EndRefresh, RefreshImpossible, RefreshBegin,
        vars, provider, disk, memory, callers, watcher, budget
<1>14. ASSUME NEW c \in Callers, RefreshStep(c) PROVE ManagerTyped'
    BY <1>1, <1>6, <1>7, <1>8, <1>9, <1>10, <1>14
    DEF RefreshStep, CachedEndpoint, Exchange, ReplyLost, EndRefresh, Rejected,
        PostFails, Persist, WriteFile, AfterRefresh, Return, vars, provider, disk,
        memory, callers, watcher, budget
<1>15. ASSUME NEW r \in Reloaders, ReloadStep(r) PROVE ManagerTyped'
    BY <1>1, <1>11, <1>15
    DEF ReloadStep, DebounceFires, ReadFile, ReloadRefused, vars, provider, disk,
        memory, callers, watcher, budget
<1>16. QED
    BY <1>1, <1>4, <1>5, <1>12, <1>13, <1>14, <1>15
    DEF Next, Tick, ProactiveTick, Begin, ExternalEdit, WatchEvent, GetAccessToken,
        ForceRefresh, AdminReload, ReadFile, vars, provider, disk, memory, callers,
        watcher, budget

\* The clock, the provider, what is saved, and the phase of the boot.
LEMMA WorldStep == TypeOK /\ [Next]_vars => WorldTyped'
<1> SUFFICES ASSUME TypeOK, [Next]_vars PROVE WorldTyped'
    OBVIOUS
<1> USE NumberAssumption, EmptyTyped DEF TypeOK, WorldTyped, provider, disk, budget
<1>1. CASE UNCHANGED <<now, provider, disk, mode, budget>>
    BY <1>1
<1>2. CASE BootFromDB
    BY <1>2 DEF BootFromDB, MaterializeBlob, Fault, Load
<1>3. CASE BootFromFile
    BY <1>3 DEF BootFromFile, Load, Fault
<1>4. CASE SeedStore
    BY <1>4 DEF SeedStore, Fault
<1>5. CASE StartWatch
    BY <1>5 DEF StartWatch
<1>6. CASE Crash
    BY <1>6 DEF Crash, Fault
<1>7. CASE Tick
    BY <1>7 DEF Tick
<1>8. CASE ExternalEdit
  <2>1. issued' \in Nat /\ valid' \subseteq Nat /\ edits' \in Nat
    BY <1>8 DEF ExternalEdit
  <2>2. file' \in FileMap \cup {Malformed}
    <3>1. CASE file' = Malformed
      BY <3>1
    <3>0. PICK m \in FileMap : m = IF file = Malformed THEN NoMap ELSE file
      BY EmptyTyped
    <3>2. CASE \E a \in Accounts, e \in Entry : file' = [m EXCEPT ![a] = e]
      <4>1. PICK a \in Accounts, e \in Entry : file' = [m EXCEPT ![a] = e]
        BY <3>2
      <4>2. [m EXCEPT ![a] = e] \in FileMap
        BY MapUpdate
      <4>3. QED
        BY <4>1, <4>2
    <3>3. \A i \in Issuers \cup {None}, life \in Lifetimes :
            [key |-> issued + 1, refresh |-> issued + 1, exp |-> now + life, iss |-> i] \in Entry
      BY DEF Entry
    <3>4. QED
      <4>1. CASE \E a \in Accounts, i \in Issuers \cup {None}, life \in Lifetimes :
                   file' = [m EXCEPT ![a] = [key |-> issued + 1, refresh |-> issued + 1,
                                             exp |-> now + life, iss |-> i]]
        BY <4>1, <3>2, <3>3
      <4>2. QED
        BY <1>8, <3>0, <3>1, <4>1 DEF ExternalEdit
  <2>3. QED
    BY <1>8, <2>1, <2>2 DEF ExternalEdit
<1>9. ASSUME NEW c \in Requests, GetAccessToken(c) PROVE WorldTyped'
    BY <1>9 DEF GetAccessToken, MayStart, Begin, Goto
<1>10. ASSUME NEW c \in Requests, ForceRefresh(c) PROVE WorldTyped'
    BY <1>10 DEF ForceRefresh, MayStart, Begin, Goto
<1>11. ASSUME NEW c \in Callers, DiscoveryFails(c) PROVE WorldTyped'
    BY <1>11 DEF DiscoveryFails, DiscoverAs, Goto, Fault
<1>12. ASSUME NEW c \in Callers, Exchange(c) PROVE WorldTyped'
    BY <1>12 DEF Exchange, Grant, Goto
<1>13. ASSUME NEW c \in Callers, ReplyLost(c) PROVE WorldTyped'
    BY <1>13 DEF ReplyLost, Grant, EndRefresh, Goto, Fault
<1>14. ASSUME NEW c \in Callers, PostFails(c) PROVE WorldTyped'
    BY <1>14 DEF PostFails, EndRefresh, Goto, Fault
<1>15. ASSUME NEW c \in Callers, Persist(c) PROVE WorldTyped'
    BY <1>15, CallFields DEF Persist, Fault
<1>16. ASSUME NEW c \in Callers, WriteFile(c) PROVE WorldTyped'
    BY <1>16, CallFields DEF WriteFile
<1>17. ASSUME NEW c \in Callers, WriteFileFails(c) PROVE WorldTyped'
    BY <1>17 DEF WriteFileFails, EndRefresh, Goto, Fault
<1>18. ASSUME NEW r \in Reloaders, AdminReload(r) PROVE WorldTyped'
    BY <1>18 DEF AdminReload, ReadFile, MayStart
<1>19. CASE Boot
    BY <1>1, <1>2, <1>3, <1>4, <1>5, <1>19
    DEF Boot, vars, provider, disk, memory, callers, watcher, budget
<1>20. ASSUME NEW c \in Callers, RefreshLocked(c) PROVE WorldTyped'
    BY <1>1, <1>20
    DEF RefreshLocked, RefreshAlreadyDone, EndRefresh, RefreshImpossible, RefreshBegin,
        vars, provider, disk, memory, callers, watcher, budget
<1>21. ASSUME NEW c \in Callers, RefreshStep(c) PROVE WorldTyped'
    BY <1>1, <1>11, <1>12, <1>13, <1>14, <1>15, <1>16, <1>17, <1>21
    DEF RefreshStep, CachedEndpoint, Discover, DiscoverAs, Rejected, EndRefresh,
        Install, SkipFile, AfterRefresh, Return, vars, provider, disk, memory, callers,
        watcher, budget
<1>22. ASSUME NEW r \in Reloaders, ReloadStep(r) PROVE WorldTyped'
    BY <1>1, <1>22
    DEF ReloadStep, DebounceFires, ReadFile, ReloadInstalls, Load, ReloadRefused, vars,
        provider, disk, memory, callers, watcher, budget
<1>23. QED
    BY <1>1, <1>6, <1>7, <1>8, <1>9, <1>10, <1>18, <1>19, <1>20, <1>21, <1>22
    DEF Next, ProactiveTick, Begin, WatchEvent, UnflagTimer, vars, provider, disk,
        memory, callers, watcher, budget

\* The calls under way and refreshMu.
LEMMA CallersStep == TypeOK /\ [Next]_vars => CallersTyped'
<1> SUFFICES ASSUME TypeOK, [Next]_vars PROVE CallersTyped'
    OBVIOUS
<1> USE IdAssumption, EmptyTyped DEF callers
<1>1. CASE UNCHANGED <<callers>>
    BY <1>1 DEF TypeOK, CallersTyped
<1>2. CASE Crash
    BY <1>2 DEF Crash, CallersTyped, Labels
<1>3. CASE ProactiveTick
  <2>1. [NoCall EXCEPT !.op = "tick", !.t0 = now] \in Call
    BY EmptyTyped DEF Call, TypeOK, WorldTyped
  <2>2. CASE InProactiveWindow(entry)
    <3>1. /\ Goto(Ticker, "lock") /\ UNCHANGED refreshMu
          /\ call' = [call EXCEPT ![Ticker] = [NoCall EXCEPT !.op = "tick", !.t0 = now]]
      BY <1>3, <2>2 DEF ProactiveTick, Begin
    <3>2. QED
      BY <2>1, <3>1, CallTyped DEF Callers, Labels
  <2>3. CASE ~InProactiveWindow(entry)
    BY <1>1, <1>3, <2>3 DEF ProactiveTick, vars
  <2>4. QED
    BY <2>2, <2>3
<1>4. ASSUME NEW c \in Requests, GetAccessToken(c) PROVE CallersTyped'
  <2>1. \A ok \in BOOLEAN : [NoCall EXCEPT !.op = "get", !.t0 = now, !.tok = entry,
                                           !.ok = ok] \in Call
    BY EmptyTyped DEF Call, TypeOK, WorldTyped, ManagerTyped
  <2>2. c \in Callers /\ "lock" \in Labels /\ "done" \in Labels
    BY DEF Callers, Labels
  <2>3. PICK label \in {"lock", "done"}, ok \in BOOLEAN :
          /\ Goto(c, label) /\ UNCHANGED refreshMu
          /\ call' = [call EXCEPT ![c] = [NoCall EXCEPT !.op = "get", !.t0 = now,
                                                        !.tok = entry, !.ok = ok]]
    BY <1>4 DEF GetAccessToken, Begin
  <2>4. QED
    BY <2>1, <2>2, <2>3, CallTyped
<1>5. ASSUME NEW c \in Requests, ForceRefresh(c) PROVE CallersTyped'
  <2>1. [NoCall EXCEPT !.op = "force"] \in Call
    BY <1>5, CallFields, EmptyTyped DEF Call, TypeOK, WorldTyped, ManagerTyped
  <2>2. QED
    BY <1>5, <2>1, CallTyped DEF ForceRefresh, Begin, Callers, Labels
<1>6. ASSUME NEW c \in Callers, RefreshAlreadyDone(c) PROVE CallersTyped'
    BY <1>6, EndRefreshTyped DEF Locks, RefreshAlreadyDone
<1>7. ASSUME NEW c \in Callers, RefreshImpossible(c) PROVE CallersTyped'
    BY <1>7, EndRefreshTyped DEF Locks, RefreshImpossible
<1>8. ASSUME NEW c \in Callers, RefreshBegin(c) PROVE CallersTyped'
  <2>1. [call[c] EXCEPT !.rs = entry, !.rk = mapKey] \in Call
    BY <1>8, CallFields, EmptyTyped DEF Call, TypeOK, WorldTyped, ManagerTyped
  <2>2. QED
    BY <1>8, <2>1, CallTyped DEF Locks, RefreshBegin, Labels
<1>9. ASSUME NEW c \in Callers, CachedEndpoint(c) PROVE CallersTyped'
  <2>1. [call[c] EXCEPT !.ep = tokenEndpoint] \in Call
    BY <1>9, CallFields, EmptyTyped DEF Call, TypeOK, WorldTyped, ManagerTyped
  <2>2. QED
    BY <1>9, <2>1, CallTyped DEF CachedEndpoint, Labels
<1>10. ASSUME NEW c \in Callers, Discover(c) PROVE CallersTyped'
  <2>1. \A b \in BOOLEAN : [iss |-> call[c].rs.iss, discovered |-> b] \in Endpoint
    BY CallFields DEF Endpoint
  <2>2. \A e \in Endpoint : [call[c] EXCEPT !.ep = e] \in Call
    BY CallFields DEF Call
  <2>3. QED
    BY <1>10, <2>1, <2>2, CallTyped DEF Discover, DiscoverAs, Labels
<1>11. ASSUME NEW c \in Callers, DiscoveryFails(c) PROVE CallersTyped'
  <2>1. \A b \in BOOLEAN : [iss |-> call[c].rs.iss, discovered |-> b] \in Endpoint
    BY CallFields DEF Endpoint
  <2>2. \A e \in Endpoint : [call[c] EXCEPT !.ep = e] \in Call
    BY CallFields DEF Call
  <2>3. QED
    BY <1>11, <2>1, <2>2, CallTyped DEF DiscoveryFails, DiscoverAs, Labels
<1>12. ASSUME NEW c \in Callers, Exchange(c) PROVE CallersTyped'
  <2>1. PICK q \in Reply : /\ call' = [call EXCEPT ![c] = [call[c] EXCEPT !.reply = q]]
                           /\ Goto(c, "install") /\ UNCHANGED refreshMu
    <3>1. PICK rotate \in Rotation, life \in Lifetimes :
            /\ Goto(c, "install") /\ UNCHANGED refreshMu
            /\ call' = [call EXCEPT ![c].reply =
                 [key |-> issued + 1, refresh |-> IF rotate THEN issued + 1 ELSE 0,
                  life |-> life]]
      BY <1>12 DEF Exchange
    <3>2. [key |-> issued + 1, refresh |-> IF rotate THEN issued + 1 ELSE 0,
           life |-> life] \in Reply
      BY NumberAssumption DEF Reply, TypeOK, WorldTyped
    <3>3. QED
      BY <3>1, <3>2
  <2>2. [call[c] EXCEPT !.reply = q] \in Call /\ [call[c] EXCEPT !.reply = q].reply \in Reply
    BY CallFields DEF Call
  <2>3. QED
    BY <2>1, <2>2, CallTyped DEF Labels
<1>13. ASSUME NEW c \in Callers, ReplyLost(c) PROVE CallersTyped'
    BY <1>13, EndRefreshTyped DEF ReplyLost
<1>14. ASSUME NEW c \in Callers, Rejected(c) PROVE CallersTyped'
    BY <1>14, EndRefreshTyped DEF Rejected
<1>15. ASSUME NEW c \in Callers, PostFails(c) PROVE CallersTyped'
    BY <1>15, EndRefreshTyped DEF PostFails
<1>16. ASSUME NEW c \in Callers, Install(c) PROVE CallersTyped'
  <2>1. fileData' \in FileMap
    BY <1>16, NewEntryTyped, MapUpdate DEF Install, TypeOK, ManagerTyped
  <2>2. [call[c] EXCEPT !.fd = fileData'] \in Call
    BY <2>1, CallFields DEF Call
  <2>3. QED
    BY <1>16, <2>2, CallTyped DEF Install, Labels
<1>17. ASSUME NEW c \in Callers, Persist(c) PROVE CallersTyped'
    BY <1>17 DEF Persist, Goto, TypeOK, CallersTyped, Labels
<1>18. ASSUME NEW c \in Callers, WriteFile(c) PROVE CallersTyped'
    BY <1>18, EndRefreshTyped DEF WriteFile
<1>19. ASSUME NEW c \in Callers, WriteFileFails(c) PROVE CallersTyped'
    BY <1>19, EndRefreshTyped DEF WriteFileFails
<1>20. ASSUME NEW c \in Callers, SkipFile(c) PROVE CallersTyped'
    BY <1>20, EndRefreshTyped DEF SkipFile
<1>21. ASSUME NEW c \in Callers, AfterRefresh(c) PROVE CallersTyped'
  <2>1. \A ok \in BOOLEAN : [call[c] EXCEPT !.ok = ok] \in Call
    BY CallFields DEF Call
  <2>2. [call[c] EXCEPT !.tok = entry] \in Call
    BY CallFields DEF Call, TypeOK, ManagerTyped
  <2>3. PICK l \in Call : call' = [call EXCEPT ![c] = l]
    <3>1. CASE call[c].ok
      BY <1>21, <2>2, <3>1 DEF StillServes, AfterRefresh
    <3>2. CASE ~call[c].ok /\ now < call[c].tok.exp
      BY <1>21, <2>1, <3>2 DEF StillServes, AfterRefresh
    <3>3. CASE ~call[c].ok /\ ~(now < call[c].tok.exp)
      BY <1>21, <3>3, CallFields DEF StillServes, AfterRefresh, TypeOK, CallersTyped
    <3>4. QED
      BY <3>1, <3>2, <3>3
  <2>4. QED
    BY <1>21, <2>3, CallTyped DEF AfterRefresh, Labels
<1>22. ASSUME NEW c \in Callers, Return(c) PROVE CallersTyped'
    BY <1>22, EmptyTyped, CallTyped DEF Return, Labels
<1>23. CASE Boot
    BY <1>1, <1>23
    DEF Boot, BootFromDB, MaterializeBlob, Load, BootFromFile, SeedStore, StartWatch,
        vars, provider, disk, memory, callers, watcher, budget
<1>24. ASSUME NEW c \in Callers, RefreshLocked(c) PROVE CallersTyped'
    BY <1>1, <1>6, <1>7, <1>8, <1>24
    DEF RefreshLocked, vars, provider, disk, memory, callers, watcher, budget
<1>25. ASSUME NEW c \in Callers, RefreshStep(c) PROVE CallersTyped'
    BY <1>1, <1>9, <1>10, <1>11, <1>12, <1>13, <1>14, <1>15, <1>16, <1>17, <1>18, <1>19, <1>20, <1>21, <1>22, <1>25
    DEF RefreshStep, vars, provider, disk, memory, callers, watcher, budget
<1>26. ASSUME NEW r \in Reloaders, ReloadStep(r) PROVE CallersTyped'
    BY <1>1, <1>26
    DEF ReloadStep, DebounceFires, ReadFile, ReloadInstalls, Load, ReloadRefused, vars,
        provider, disk, memory, callers, watcher, budget
<1>27. QED
    BY <1>1, <1>2, <1>3, <1>4, <1>5, <1>23, <1>24, <1>25, <1>26
    DEF Next, Tick, ExternalEdit, WatchEvent, UnflagTimer, AdminReload, ReadFile, vars,
        provider, disk, memory, callers, watcher, budget

\* Every step keeps refreshMu with the caller inside the critical section.
LEMMA FlightStep == TypeOK /\ SingleFlight /\ [Next]_vars => SingleFlight'
<1> SUFFICES ASSUME TypeOK, SingleFlight, [Next]_vars PROVE SingleFlight'
    OBVIOUS
<1> USE IdAssumption DEF TypeOK, CallersTyped, Labels, SingleFlight, HoldsRefreshMu, Callers,
        provider, disk, memory, callers, watcher, budget
<1>1. CASE BootFromDB
    BY <1>1 DEF BootFromDB, Load
<1>2. CASE BootFromFile
    BY <1>2 DEF BootFromFile, Load, Fault
<1>3. CASE SeedStore
    BY <1>3 DEF SeedStore, Fault
<1>4. CASE StartWatch
    BY <1>4 DEF StartWatch
<1>5. CASE Crash
    BY <1>5 DEF Crash, Fault
<1>6. CASE Tick
    BY <1>6 DEF Tick
<1>7. CASE ProactiveTick
    BY <1>7 DEF ProactiveTick, Begin, Goto, vars
<1>8. CASE ExternalEdit
    BY <1>8 DEF ExternalEdit, Notify
<1>9. CASE WatchEvent
    BY <1>9 DEF WatchEvent
<1>10. CASE UnflagTimer
    BY <1>10 DEF UnflagTimer
<1>11. ASSUME NEW c \in Requests, GetAccessToken(c) PROVE SingleFlight'
    BY <1>11 DEF GetAccessToken, MayStart, Begin, Goto
<1>12. ASSUME NEW c \in Requests, ForceRefresh(c) PROVE SingleFlight'
    BY <1>12 DEF ForceRefresh, MayStart, Begin, Goto
<1>13. ASSUME NEW c \in Callers, RefreshAlreadyDone(c) PROVE SingleFlight'
    BY <1>13 DEF Locks, RefreshAlreadyDone, EndRefresh, Goto
<1>14. ASSUME NEW c \in Callers, RefreshImpossible(c) PROVE SingleFlight'
    BY <1>14 DEF Locks, RefreshImpossible, EndRefresh, Goto
<1>15. ASSUME NEW c \in Callers, RefreshBegin(c) PROVE SingleFlight'
    BY <1>15 DEF Locks, RefreshBegin, Goto
<1>16. ASSUME NEW c \in Callers, CachedEndpoint(c) PROVE SingleFlight'
    BY <1>16 DEF CachedEndpoint, Goto
<1>17. ASSUME NEW c \in Callers, Discover(c) PROVE SingleFlight'
    BY <1>17 DEF Discover, DiscoverAs, Goto
<1>18. ASSUME NEW c \in Callers, DiscoveryFails(c) PROVE SingleFlight'
    BY <1>18 DEF DiscoveryFails, DiscoverAs, Goto, Fault
<1>19. ASSUME NEW c \in Callers, Exchange(c) PROVE SingleFlight'
    BY <1>19 DEF Exchange, Grant, Goto
<1>20. ASSUME NEW c \in Callers, ReplyLost(c) PROVE SingleFlight'
    BY <1>20 DEF ReplyLost, Grant, EndRefresh, Goto, Fault
<1>21. ASSUME NEW c \in Callers, Rejected(c) PROVE SingleFlight'
    BY <1>21 DEF Rejected, EndRefresh, Goto
<1>22. ASSUME NEW c \in Callers, PostFails(c) PROVE SingleFlight'
    BY <1>22 DEF PostFails, EndRefresh, Goto, Fault
<1>23. ASSUME NEW c \in Callers, Install(c) PROVE SingleFlight'
    BY <1>23 DEF Install, NewEntry, Goto
<1>24. ASSUME NEW c \in Callers, Persist(c) PROVE SingleFlight'
    BY <1>24 DEF Persist, Goto, Fault
<1>25. ASSUME NEW c \in Callers, WriteFile(c) PROVE SingleFlight'
    BY <1>25 DEF WriteFile, Notify, EndRefresh, Goto
<1>26. ASSUME NEW c \in Callers, WriteFileFails(c) PROVE SingleFlight'
    BY <1>26 DEF WriteFileFails, EndRefresh, Goto, Fault
<1>27. ASSUME NEW c \in Callers, SkipFile(c) PROVE SingleFlight'
    BY <1>27 DEF SkipFile, EndRefresh, Goto
<1>28. ASSUME NEW c \in Callers, AfterRefresh(c) PROVE SingleFlight'
    BY <1>28 DEF AfterRefresh, Goto
<1>29. ASSUME NEW c \in Callers, Return(c) PROVE SingleFlight'
    BY <1>29 DEF Return, Goto
<1>30. ASSUME NEW r \in Reloaders, DebounceFires(r) PROVE SingleFlight'
    BY <1>30 DEF DebounceFires, ReadFile
<1>31. ASSUME NEW r \in Reloaders, AdminReload(r) PROVE SingleFlight'
    BY <1>31 DEF AdminReload, ReadFile, MayStart
<1>32. ASSUME NEW r \in Reloaders, ReloadInstalls(r) PROVE SingleFlight'
    BY <1>32 DEF ReloadInstalls, Load
<1>33. ASSUME NEW r \in Reloaders, ReloadRefused(r) PROVE SingleFlight'
    BY <1>33 DEF ReloadRefused
<1>34. CASE UNCHANGED vars
    BY <1>34 DEF vars
<1>35. QED
    BY <1>1, <1>2, <1>3, <1>4, <1>5, <1>6, <1>7, <1>8, <1>9, <1>10, <1>11, <1>12, <1>13, <1>14, <1>15, <1>16, <1>17, <1>18, <1>19, <1>20, <1>21, <1>22, <1>23, <1>24, <1>25, <1>26, <1>27, <1>28, <1>29, <1>30, <1>31, <1>32, <1>33, <1>34
    DEF Next, Boot, RefreshLocked, RefreshStep, ReloadStep

\* Every step keeps the types.
LEMMA TypeStep == TypeOK /\ [Next]_vars => TypeOK'
BY WorldStep, ManagerStep, CallersStep, WatcherStep DEF TypeOK

\* The initial states are typed, since the bootstrap maps are.
LEMMA TypeInit == Init => TypeOK
<1> SUFFICES ASSUME Init PROVE TypeOK
  OBVIOUS
<1>1. WorldTyped
  BY NumberAssumption, BootstrapAssumption DEF Init, WorldTyped
<1>2. ManagerTyped
  BY EmptyTyped DEF Init, ManagerTyped
<1>3. CallersTyped
  BY EmptyTyped DEF Init, CallersTyped, Labels
<1>4. WatcherTyped
  BY DEF Init, WatcherTyped
<1>5. QED
  BY <1>1, <1>2, <1>3, <1>4 DEF TypeOK

\* The state of the manager keeps its types, over boots, crashes and reloads.
THEOREM TypeCorrect == Spec => []TypeOK
BY TypeInit, TypeStep, PTL DEF Spec

\* refreshMu makes a refresh a critical section, from the snapshot to the
\* write-back: at most one caller is in it, and it is the holder.
THEOREM RefreshIsSingleFlight == Spec => []SingleFlight
<1>1. Init => SingleFlight
  BY IdAssumption DEF Init, SingleFlight, HoldsRefreshMu
<1>2. TypeOK /\ SingleFlight /\ [Next]_vars => SingleFlight'
  BY FlightStep
<1>3. QED
  BY TypeCorrect, <1>1, <1>2, PTL DEF Spec

==============================================================================
