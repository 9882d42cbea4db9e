--------------------------- MODULE ContractProofs ---------------------------
(***************************************************************************)
(* That AuthManager implements TokenService, for any set of requests,      *)
(* reloads, accounts and files and any faults: a running manager has a     *)
(* token, it was issued, and every step of boots, refreshes and reloads is *)
(* one of the token service or changes nothing that its users see.         *)
(***************************************************************************)
EXTENDS AuthManagerProofs

-----------------------------------------------------------------------------
(* Calls only run in a process that is up.                                  *)

Ops(c) == IF c = Ticker THEN {"none", "tick"} ELSE {"get", "force"}

Calling ==
  /\ \A c \in Callers : pc[c] # "idle" => mode = "up" /\ call[c].op \in Ops(c)
  /\ \A c \in Callers : pc[c] = "idle" => call[c] = NoCall
  /\ \A c \in Callers : pc[c] = "done" => call[c].op = "get"

\* A step that moves one call on keeps what is known of calls.
LEMMA CallGoes ==
  ASSUME TypeOK, Calling, NEW c \in Callers, NEW label \in Labels \ {"idle"}, NEW l \in Call,
         mode' = "up", mode = "up", Goto(c, label), call' = [call EXCEPT ![c] = l],
         l.op \in Ops(c), label = "done" => l.op = "get"
  PROVE  Calling'
<1>1. /\ pc' = [pc EXCEPT ![c] = label] /\ pc \in [Callers -> Labels]
      /\ call \in [Callers -> Call]
  BY DEF Goto, TypeOK, CallersTyped
<1>2. \A d \in Callers \ {c} : pc'[d] = pc[d] /\ call'[d] = call[d]
  BY <1>1
<1>3. pc'[c] = label /\ call'[c] = l
  BY <1>1
<1>4. QED
  BY <1>2, <1>3 DEF Calling, Ops

\* The end of a refresh is such a step.
LEMMA EndRefreshCalling ==
  ASSUME TypeOK, Calling, NEW c \in Callers, NEW ok \in BOOLEAN, EndRefresh(c, ok),
         pc[c] # "idle", UNCHANGED mode
  PROVE  Calling'
<1>1. PICK l \in Call : l.op = call[c].op /\ call' = [call EXCEPT ![c] = l]
  <2> DEFINE l == [NoCall EXCEPT !.op = call[c].op, !.t0 = call[c].t0,
                                 !.tok = call[c].tok, !.ok = ok]
  <2>1. l \in Call /\ l.op = call[c].op
    BY CallFields, EmptyTyped DEF Call
  <2>2. call' = [call EXCEPT ![c] = l]
    BY DEF EndRefresh
  <2> HIDE DEF l
  <2>3. QED
    BY <2>1, <2>2
<1>2. mode = "up" /\ mode' = "up" /\ l.op \in Ops(c)
  BY <1>1 DEF Calling
<1>3. Goto(c, "refreshed") /\ "refreshed" \in Labels \ {"idle"}
  BY DEF EndRefresh, Labels
<1>4. QED
  BY <1>1, <1>2, <1>3, CallGoes

\* A call that sets some of its locals, not its op.
LEMMA LocalsGo ==
  ASSUME TypeOK, Calling, NEW c \in Callers, NEW label \in Labels \ {"idle", "done"},
         NEW l \in Call, l.op = call[c].op, pc[c] # "idle", UNCHANGED mode,
         Goto(c, label), call' = [call EXCEPT ![c] = l]
  PROVE  Calling'
<1>1. mode = "up" /\ mode' = "up" /\ l.op \in Ops(c)
  BY DEF Calling
<1>2. QED
  BY <1>1, CallGoes

\* The steps of a refresh, seen as steps of its call.
LEMMA RefreshCalling ==
  ASSUME TypeOK, TypeOK', Calling, NEW c \in Callers, RefreshStep(c)
  PROVE  Calling'
<1>1. pc[c] # "idle" /\ UNCHANGED mode
  BY DEF RefreshStep, CachedEndpoint, Discover, DiscoveryFails, DiscoverAs, Exchange,
     ReplyLost, Grant, Rejected, PostFails, Install, Persist, WriteFile, WriteFileFails,
     SkipFile, AfterRefresh, Return
<1>2. call[c] \in Call /\ call[c].op \in Ops(c) /\ mode = "up" /\ mode' = "up"
  BY <1>1, CallFields DEF Calling
<1>3. call' \in [Callers -> Call] /\ call \in [Callers -> Call]
  BY DEF TypeOK, CallersTyped
<1>4. ASSUME NEW label \in {"discover", "post", "install", "persist", "write"}, NEW l,
             l.op = call[c].op, Goto(c, label), call' = [call EXCEPT ![c] = l]
      PROVE  Calling'
  <2>1. label \in Labels \ {"idle", "done"}
    BY DEF Labels
  <2>2. l \in Call
    BY <1>3, <1>4
  <2>3. QED
    BY <1>1, <1>4, <2>1, <2>2, LocalsGo
<1>5. CASE CachedEndpoint(c) \/ Discover(c) \/ DiscoveryFails(c)
  <2>1. PICK label, e :
          /\ label \in {"discover", "post"} /\ Goto(c, label)
          /\ call' = [call EXCEPT ![c] = [call[c] EXCEPT !.ep = e]]
    BY <1>5, <1>3 DEF CachedEndpoint, Discover, DiscoveryFails, DiscoverAs
  <2>2. [call[c] EXCEPT !.ep = e].op = call[c].op
    BY <1>2 DEF Call
  <2>3. QED
    BY <1>4, <2>1, <2>2
<1>6. CASE Exchange(c)
  <2>1. PICK q : Goto(c, "install") /\ call' = [call EXCEPT ![c] = [call[c] EXCEPT !.reply = q]]
    BY <1>6, <1>3 DEF Exchange
  <2>2. [call[c] EXCEPT !.reply = q].op = call[c].op
    BY <1>2 DEF Call
  <2>3. QED
    BY <1>4, <2>1, <2>2
<1>7. CASE Install(c)
  <2>1. PICK m : Goto(c, "persist") /\ call' = [call EXCEPT ![c] = [call[c] EXCEPT !.fd = m]]
    BY <1>7, <1>3 DEF Install
  <2>2. [call[c] EXCEPT !.fd = m].op = call[c].op
    BY <1>2 DEF Call
  <2>3. QED
    BY <1>4, <2>1, <2>2
<1>8. CASE Persist(c)
  <2>1. Goto(c, "write") /\ call' = [call EXCEPT ![c] = call[c]]
    BY <1>8, <1>3 DEF Persist
  <2>2. QED
    BY <1>4, <2>1
<1>9. CASE AfterRefresh(c)
  <2>1. Goto(c, "done") /\ call[c].op = "get" /\ "done" \in Labels \ {"idle"}
    BY <1>9 DEF AfterRefresh, Labels
  <2>2. \/ call' = [call EXCEPT ![c] = [call[c] EXCEPT !.tok = entry]]
        \/ call' = [call EXCEPT ![c] = [call[c] EXCEPT !.ok = TRUE]]
        \/ call' = [call EXCEPT ![c] = call[c]]
    BY <1>9, <1>3 DEF AfterRefresh
  <2>3. PICK l : call' = [call EXCEPT ![c] = l] /\ l.op = "get"
    BY <1>2, <2>1, <2>2 DEF Call
  <2>4. l \in Call
    BY <1>3, <2>3
  <2>5. l.op \in Ops(c)
    BY <1>2, <2>1, <2>3
  <2>6. QED
    BY <1>2, <2>1, <2>3, <2>4, <2>5, CallGoes
<1>10. CASE Return(c)
  <2>1. /\ pc' = [pc EXCEPT ![c] = "idle"] /\ call' = [call EXCEPT ![c] = NoCall]
        /\ pc \in [Callers -> Labels]
    BY <1>10 DEF Return, Goto, TypeOK, CallersTyped
  <2>2. /\ \A d \in Callers \ {c} : pc'[d] = pc[d] /\ call'[d] = call[d]
        /\ pc'[c] = "idle" /\ call'[c] = NoCall
    BY <1>3, <2>1
  <2>3. QED
    BY <1>2, <2>2 DEF Calling, Ops
<1>11. CASE ReplyLost(c) \/ Rejected(c) \/ PostFails(c) \/ WriteFile(c) \/ WriteFileFails(c)
              \/ SkipFile(c)
  BY <1>1, <1>11, EndRefreshCalling
     DEF ReplyLost, Rejected, PostFails, WriteFile, WriteFileFails, SkipFile
<1>12. QED
  BY <1>5, <1>6, <1>7, <1>8, <1>9, <1>10, <1>11 DEF RefreshStep

\* Calls begin in a process that is up, and a crash ends them all.
LEMMA CallingStep == TypeOK /\ TypeOK' /\ Calling /\ [Next]_vars => Calling'
<1> SUFFICES ASSUME TypeOK, TypeOK', Calling, [Next]_vars PROVE Calling'
  OBVIOUS
<1> USE DEF callers
<1>t. call' \in [Callers -> Call] /\ call \in [Callers -> Call]
  BY DEF TypeOK, CallersTyped
<1>1. CASE UNCHANGED <<mode, callers>>
  BY <1>1 DEF Calling, Ops
<1>2. CASE Boot
  BY <1>2 DEF Boot, BootFromDB, BootFromFile, SeedStore, StartWatch, Calling, Ops
<1>3. CASE Crash
  BY <1>3 DEF Crash, Calling
<1>4. CASE ProactiveTick
  <2>1. CASE ~InProactiveWindow(entry)
    BY <1>1, <1>4, <2>1 DEF ProactiveTick, vars
  <2>2. CASE InProactiveWindow(entry)
    <3>1. /\ mode = "up" /\ mode' = "up" /\ Goto(Ticker, "lock")
          /\ call' = [call EXCEPT ![Ticker] = [NoCall EXCEPT !.op = "tick", !.t0 = now]]
      BY <1>4, <2>2 DEF ProactiveTick, Begin
    <3>2. PICK l : l.op = "tick" /\ call' = [call EXCEPT ![Ticker] = l]
      BY <3>1 DEF NoCall
    <3>3. l \in Call /\ Ticker \in Callers /\ l.op \in Ops(Ticker)
      BY <1>t, <3>2 DEF Callers, Ops
    <3>4. QED
      BY <3>1, <3>2, <3>3, CallGoes DEF Labels
  <2>3. QED
    BY <2>1, <2>2
<1>5. ASSUME NEW c \in Requests, GetAccessToken(c) \/ ForceRefresh(c) PROVE Calling'
  <2>1. PICK label \in {"lock", "done"} : \E l :
          /\ mode = "up" /\ mode' = "up" /\ Goto(c, label)
          /\ call' = [call EXCEPT ![c] = l]
          /\ l.op \in {"get", "force"} /\ (label = "done" => l.op = "get")
    <3>1. CASE GetAccessToken(c)
      <4>1. PICK label \in {"lock", "done"}, ok \in BOOLEAN :
              /\ mode = "up" /\ mode' = "up" /\ Goto(c, label)
              /\ call' = [call EXCEPT ![c] = [NoCall EXCEPT !.op = "get", !.t0 = now,
                                                            !.tok = entry, !.ok = ok]]
        BY <3>1 DEF GetAccessToken, Begin
      <4>2. [NoCall EXCEPT !.op = "get", !.t0 = now, !.tok = entry, !.ok = ok].op = "get"
        BY DEF NoCall
      <4>3. QED
        BY <4>1, <4>2
    <3>2. CASE ForceRefresh(c)
      <4>1. [NoCall EXCEPT !.op = "force"].op = "force"
        BY DEF NoCall
      <4>2. QED
        BY <3>2, <4>1 DEF ForceRefresh, Begin
    <3>3. QED
      BY <1>5, <3>1, <3>2
  <2>2. PICK l : /\ mode = "up" /\ mode' = "up" /\ Goto(c, label)
                 /\ call' = [call EXCEPT ![c] = l]
                 /\ l.op \in {"get", "force"} /\ (label = "done" => l.op = "get")
    BY <2>1
  <2>3. c \in Callers /\ l \in Call /\ l.op \in Ops(c) /\ label \in Labels \ {"idle"}
    BY <1>t, <2>2, IdAssumption DEF Callers, Ops, Labels
  <2>4. QED
    BY <2>2, <2>3, CallGoes
<1>6. ASSUME NEW c \in Callers, RefreshLocked(c) PROVE Calling'
  <2>1. pc[c] # "idle" /\ UNCHANGED mode
    BY <1>6 DEF RefreshLocked, RefreshAlreadyDone, RefreshImpossible, RefreshBegin, Locks
  <2>2. CASE RefreshBegin(c)
    <3>1. call' = [call EXCEPT ![c] = [call[c] EXCEPT !.rs = entry, !.rk = mapKey]]
      BY <1>t, <2>2 DEF RefreshBegin
    <3>2. PICK l : l.op = call[c].op /\ call' = [call EXCEPT ![c] = l]
      BY <3>1, CallFields DEF Call
    <3>3. l \in Call /\ "endpoint" \in Labels \ {"idle", "done"}
      BY <1>t, <3>2 DEF Labels
    <3>4. QED
      BY <2>1, <2>2, <3>2, <3>3, LocalsGo DEF RefreshBegin
  <2>3. QED
    BY <1>6, <2>1, <2>2, EndRefreshCalling
       DEF RefreshLocked, RefreshAlreadyDone, RefreshImpossible
<1>7. QED
  BY <1>1, <1>2, <1>3, <1>4, <1>5, <1>6, RefreshCalling
     DEF Next, Tick, ExternalEdit, WatchEvent, UnflagTimer, AdminReload, ReloadStep,
         DebounceFires, ReloadInstalls, ReloadRefused, vars

-----------------------------------------------------------------------------
(* What is in memory, saved, or read to be loaded, was issued.              *)

\* Every copy of the map there is: the file, the saved state, the manager's,
\* what a reload has read, what a call is about to save.
Copies ==
  {file, db, fileData} \cup {rd[r] : r \in Reloaders} \cup {call[c].fd : c \in Callers}

LoginWrites(f) ==
  /\ ExternalEdit /\ issued' = issued + 1
  /\ \E a \in Accounts, e \in Entry :
       /\ e.key = issued + 1
       /\ f = [IF file = Malformed THEN NoMap ELSE file EXCEPT ![a] = e]

InstallMakes(c, f) == Install(c) /\ f = [fileData EXCEPT ![call[c].rk] = NewEntry(c)]

Stems(f) ==
  \/ f \in Copies \cup {NoMap, None, Malformed}
  \/ LoginWrites(f)
  \/ \E c \in Callers : InstallMakes(c, f)

\* The copies a call is about to save change at Install, and go at its end.
LEMMA SavedStems ==
  ASSUME TypeOK, [Next]_vars, NEW d \in Callers
  PROVE  Stems(call'[d].fd)
<1>t. call \in [Callers -> Call] /\ call[d].fd \in Copies /\ NoCall.fd = NoMap
  BY DEF TypeOK, CallersTyped, Copies, NoCall
<1> USE DEF callers
<1>1. CASE call'[d].fd = call[d].fd \/ call'[d].fd = NoMap
  BY <1>1, <1>t DEF Stems
<1>2. ASSUME NEW c \in Callers, NEW ok, EndRefresh(c, ok) PROVE Stems(call'[d].fd)
  <2>1. [NoCall EXCEPT !.op = call[c].op, !.t0 = call[c].t0, !.tok = call[c].tok, !.ok = ok].fd
          = NoMap
    BY DEF NoCall
  <2>2. QED
    BY <1>1, <1>t, <1>2, <2>1 DEF EndRefresh
<1>3. ASSUME NEW c \in Callers, NEW op, NEW t, NEW k, NEW ok,
             call' = [call EXCEPT ![c] = [NoCall EXCEPT !.op = op, !.t0 = t, !.tok = k, !.ok = ok]]
      PROVE  Stems(call'[d].fd)
  <2>1. [NoCall EXCEPT !.op = op, !.t0 = t, !.tok = k, !.ok = ok].fd = NoMap
    BY DEF NoCall
  <2>2. QED
    BY <1>1, <1>t, <1>3, <2>1
<1>4. CASE UNCHANGED call
  BY <1>1, <1>4
<1>5. CASE Crash
  BY <1>1, <1>5, <1>t DEF Crash
<1>6. CASE ProactiveTick
  <2>1. [NoCall EXCEPT !.op = "tick", !.t0 = now].fd = NoMap
    BY DEF NoCall
  <2>2. QED
    BY <1>1, <1>4, <1>6, <1>t, <2>1 DEF ProactiveTick, Begin, vars
<1>7. ASSUME NEW c \in Requests, GetAccessToken(c) \/ ForceRefresh(c) PROVE Stems(call'[d].fd)
  <2>1. \A ok : [NoCall EXCEPT !.op = "get", !.t0 = now, !.tok = entry, !.ok = ok].fd = NoMap
    BY DEF NoCall
  <2>2. [NoCall EXCEPT !.op = "force"].fd = NoMap
    BY DEF NoCall
  <2>3. PICK l : call' = [call EXCEPT ![c] = l] /\ l.fd = NoMap
    BY <1>7, <2>1, <2>2 DEF GetAccessToken, ForceRefresh, Begin
  <2>4. QED
    BY <1>1, <1>t, <2>3
<1>8. ASSUME NEW c \in Callers, RefreshLocked(c) PROVE Stems(call'[d].fd)
  <2>1. CASE RefreshBegin(c)
    <3>1. call'[d].fd = call[d].fd
      BY <2>1, <1>t, CallFields DEF RefreshBegin, Call
    <3>2. QED
      BY <1>1, <3>1
  <2>2. QED
    BY <1>8, <1>2, <2>1 DEF RefreshLocked, RefreshAlreadyDone, RefreshImpossible
<1>9. ASSUME NEW c \in Callers, RefreshStep(c) PROVE Stems(call'[d].fd)
  <2>1. CASE CachedEndpoint(c) \/ Discover(c) \/ DiscoveryFails(c)
    <3>1. call'[d].fd = call[d].fd
      BY <2>1, <1>t, CallFields DEF CachedEndpoint, Discover, DiscoveryFails, DiscoverAs, Call
    <3>2. QED
      BY <1>1, <3>1
  <2>2. CASE Exchange(c)
    <3>1. call'[d].fd = call[d].fd
      BY <2>2, <1>t, CallFields DEF Exchange, Call
    <3>2. QED
      BY <1>1, <3>1
  <2>3. CASE Install(c)
    <3>1. call'[d].fd = IF d = c THEN fileData' ELSE call[d].fd
      BY <2>3, <1>t, CallFields DEF Install, Call
    <3>2. QED
      BY <1>1, <2>3, <3>1 DEF Stems, InstallMakes, Install
  <2>4. CASE AfterRefresh(c)
    <3>1. call'[d].fd = call[d].fd
      BY <2>4, <1>t, CallFields DEF AfterRefresh, Call
    <3>2. QED
      BY <1>1, <3>1
  <2>5. CASE Return(c)
    BY <1>1, <1>t, <2>5 DEF Return
  <2>6. CASE Persist(c)
    BY <1>4, <2>6 DEF Persist
  <2>7. CASE ReplyLost(c) \/ Rejected(c) \/ PostFails(c) \/ WriteFile(c) \/ WriteFileFails(c)
               \/ SkipFile(c)
    BY <1>2, <2>7 DEF ReplyLost, Rejected, PostFails, WriteFile, WriteFileFails, SkipFile
  <2>8. QED
    BY <1>9, <2>1, <2>2, <2>3, <2>4, <2>5, <2>6, <2>7 DEF RefreshStep
<1>10. QED
  BY <1>4, <1>5, <1>6, <1>7, <1>8, <1>9
     DEF Next, Boot, BootFromDB, BootFromFile, SeedStore, StartWatch, Tick, ExternalEdit,
         WatchEvent, UnflagTimer, AdminReload, ReloadStep, DebounceFires, ReloadInstalls,
         ReloadRefused, vars

\* Loading moves a copy into memory, saving moves it to the disk, reading it to
\* a reload; only Install and a login make a new one.
LEMMA CopiesStep ==
  ASSUME TypeOK, [Next]_vars, NEW f \in Copies'
  PROVE  Stems(f)
<1>k. {file, db, fileData} \subseteq Copies /\ NoMap \in Copies \cup {NoMap}
  BY DEF Copies
<1>c. \A c \in Callers : call[c].fd \in Copies
  BY DEF Copies
<1>r. \A r \in Reloaders : rd[r] \in Copies
  BY DEF Copies
<1> USE DEF memory, disk, provider, watcher
<1>1. Stems(file')
  <2>1. CASE file' = file
    BY <2>1, <1>k DEF Stems
  <2>2. CASE BootFromDB
    BY <2>2, <1>k DEF BootFromDB, MaterializeBlob, Stems
  <2>3. CASE ExternalEdit
    <3>1. CASE file' = Malformed
      BY <3>1 DEF Stems
    <3>2. CASE file' # Malformed
      <4>1. PICK a \in Accounts, i \in Issuers \cup {None}, life \in Lifetimes :
              /\ issued' = issued + 1
              /\ file' = [IF file = Malformed THEN NoMap ELSE file EXCEPT
                           ![a] = [key |-> issued + 1, refresh |-> issued + 1,
                                   exp |-> now + life, iss |-> i]]
        BY <2>3, <3>2 DEF ExternalEdit
      <4> DEFINE e == [key |-> issued + 1, refresh |-> issued + 1,
                       exp |-> now + life, iss |-> i]
      <4>2. issued + 1 \in Nat /\ now + life \in Nat
        BY NumberAssumption DEF TypeOK, WorldTyped
      <4>3. e \in Entry /\ e.key = issued + 1
        BY <4>2 DEF Entry
      <4>4. LoginWrites(file')
        BY <2>3, <4>1, <4>3 DEF LoginWrites
      <4>5. QED
        BY <4>4 DEF Stems
    <3>3. QED
      BY <3>1, <3>2
  <2>4. ASSUME NEW c \in Callers, WriteFile(c) PROVE Stems(file')
    BY <2>4, <1>c DEF WriteFile, Stems
  <2>5. ASSUME NEW c \in Callers, RefreshStep(c) PROVE Stems(file')
    BY <2>1, <2>4, <2>5 DEF RefreshStep, CachedEndpoint, Discover, DiscoveryFails, DiscoverAs,
       Exchange, ReplyLost, Rejected, PostFails, Install, Persist, WriteFileFails, SkipFile,
       AfterRefresh, Return
  <2>6. QED
    BY <2>1, <2>2, <2>3, <2>5
       DEF Next, Boot, BootFromFile, SeedStore, StartWatch, Crash, ProactiveTick, Begin, Tick,
           GetAccessToken, ForceRefresh, RefreshLocked, RefreshAlreadyDone, RefreshImpossible,
           RefreshBegin, WatchEvent, UnflagTimer, AdminReload, ReloadStep, DebounceFires,
           ReloadInstalls, ReloadRefused, vars
<1>2. Stems(db')
  <2>1. CASE db' = db
    BY <2>1, <1>k DEF Stems
  <2>2. CASE SeedStore
    BY <2>2, <1>k DEF SeedStore, Stems
  <2>3. ASSUME NEW c \in Callers, Persist(c) PROVE Stems(db')
    BY <2>3, <1>c, <1>k DEF Persist, Stems
  <2>4. ASSUME NEW c \in Callers, RefreshStep(c) PROVE Stems(db')
    BY <2>1, <2>3, <2>4 DEF RefreshStep, CachedEndpoint, Discover, DiscoveryFails, DiscoverAs,
       Exchange, ReplyLost, Rejected, PostFails, Install, WriteFile, WriteFileFails, SkipFile,
       AfterRefresh, Return
  <2>5. QED
    BY <2>1, <2>2, <2>4
       DEF Next, Boot, BootFromDB, BootFromFile, StartWatch, Crash, ProactiveTick, Begin, Tick,
           GetAccessToken, ForceRefresh, RefreshLocked, RefreshAlreadyDone, RefreshImpossible,
           RefreshBegin, ExternalEdit, WatchEvent, UnflagTimer, AdminReload, ReloadStep,
           DebounceFires, ReloadInstalls, ReloadRefused, vars
<1>3. Stems(fileData')
  <2>1. CASE fileData' = fileData
    BY <2>1, <1>k DEF Stems
  <2>2. CASE BootFromDB \/ BootFromFile
    BY <2>2, <1>k DEF BootFromDB, BootFromFile, Load, Stems
  <2>3. CASE Crash
    BY <2>3 DEF Crash, Stems
  <2>4. ASSUME NEW c \in Callers, Install(c) PROVE Stems(fileData')
    BY <2>4 DEF Install, InstallMakes, Stems
  <2>5. ASSUME NEW r \in Reloaders, ReloadInstalls(r) PROVE Stems(fileData')
    BY <2>5, <1>r DEF ReloadInstalls, Load, Stems
  <2>6. ASSUME NEW c \in Callers, RefreshStep(c) PROVE Stems(fileData')
    BY <2>1, <2>4, <2>6 DEF RefreshStep, CachedEndpoint, Discover, DiscoveryFails, DiscoverAs,
       Exchange, ReplyLost, Rejected, PostFails, Persist, WriteFile, WriteFileFails, SkipFile,
       AfterRefresh, Return
  <2>7. QED
    BY <2>1, <2>2, <2>3, <2>5, <2>6
       DEF Next, Boot, SeedStore, StartWatch, ProactiveTick, Begin, Tick,
           GetAccessToken, ForceRefresh, RefreshLocked, RefreshAlreadyDone, RefreshImpossible,
           RefreshBegin, ExternalEdit, WatchEvent, UnflagTimer, AdminReload, ReloadStep,
           DebounceFires, ReloadRefused, vars
<1>4. ASSUME NEW r \in Reloaders PROVE Stems(rd'[r])
  <2>0. rd \in [Reloaders -> FileMap \cup {None, Malformed}]
    BY DEF TypeOK, WatcherTyped
  <2>1. CASE rd'[r] = rd[r]
    BY <2>1, <1>r DEF Stems
  <2>2. CASE rd'[r] = file
    BY <2>2, <1>k DEF Stems
  <2>3. CASE rd'[r] = None
    BY <2>3 DEF Stems
  <2>4. ASSUME NEW c \in Callers, RefreshStep(c) PROVE rd' = rd
    BY <2>4 DEF RefreshStep, CachedEndpoint, Discover, DiscoveryFails, DiscoverAs, Exchange,
       ReplyLost, Rejected, PostFails, Install, Persist, WriteFile, WriteFileFails, SkipFile,
       AfterRefresh, Return
  <2>5. ASSUME NEW q \in Reloaders, AdminReload(q) \/ ReloadStep(q)
        PROVE  rd'[r] \in {rd[r], file, None}
    BY <2>0, <2>5 DEF AdminReload, ReloadStep, DebounceFires, ReloadInstalls, ReloadRefused, ReadFile
  <2>6. CASE Crash
    BY <2>3, <2>6 DEF Crash
  <2>7. rd' = rd \/ Crash \/ \E q \in Reloaders : AdminReload(q) \/ ReloadStep(q)
    BY <2>4
       DEF Next, Boot, BootFromDB, BootFromFile, SeedStore, StartWatch, ProactiveTick,
           Begin, Tick, GetAccessToken, ForceRefresh, RefreshLocked, RefreshAlreadyDone,
           RefreshImpossible, RefreshBegin, ExternalEdit, WatchEvent, UnflagTimer, vars
  <2>8. QED
    BY <2>1, <2>2, <2>3, <2>5, <2>6, <2>7
<1>5. QED
  BY <1>1, <1>2, <1>3, <1>4, SavedStems DEF Copies

\* f holds no token issued after the n-th.
UpTo(f, n) == f \in FileMap => \A a \in Accounts : f[a] # None => f[a].key <= n

\* What is served while the process runs, what a call is about to install and
\* what any copy holds was issued.
IssuedInv ==
  /\ \A f \in Copies : UpTo(f, issued)
  /\ \A c \in Callers : pc[c] = "install" => call[c].reply.key \in 1 .. issued
  /\ mode # "down" => entry.key \in 1 .. issued

\* Bounds on the maps: they grow, and the empty map meets any.
LEMMA UpToFacts ==
  ASSUME NEW n \in Nat, NEW m \in Nat, n <= m
  PROVE  /\ UpTo(NoMap, m) /\ UpTo(None, m) /\ UpTo(Malformed, m)
         /\ \A f : UpTo(f, n) => UpTo(f, m)
<1>1. UpTo(NoMap, m) /\ UpTo(None, m) /\ UpTo(Malformed, m)
  BY BootstrapAssumption DEF UpTo, NoMap
<1>2. ASSUME NEW f, UpTo(f, n) PROVE UpTo(f, m)
  <2>1. SUFFICES ASSUME f \in FileMap, NEW a \in Accounts, f[a] # None PROVE f[a].key <= m
    BY DEF UpTo
  <2>2. f[a].key \in Nat /\ f[a].key <= n
    BY <1>2, <2>1 DEF UpTo, FileMap, Entry
  <2>3. QED
    BY <2>2
<1>3. QED
  BY <1>1, <1>2

\* An entry that meets the bound may be put in.
LEMMA UpToWith ==
  ASSUME NEW n \in Nat, NEW f \in FileMap, NEW a, NEW e \in Entry, UpTo(f, n), e.key <= n
  PROVE  UpTo([f EXCEPT ![a] = e], n)
<1>1. \A b \in Accounts : [f EXCEPT ![a] = e][b] = IF b = a THEN e ELSE f[b]
  BY DEF FileMap
<1>2. \A b \in Accounts : f[b] # None => f[b].key <= n
  BY DEF UpTo
<1>3. QED
  BY <1>1, <1>2 DEF UpTo

\* A map that was issued gives loadBytes only entries that were.
LEMMA LoadsIssued ==
  ASSUME TypeOK, NEW f \in FileMap \cup {None, Malformed}, UpTo(f, issued), NEW a \in Loads(f)
  PROVE  f[a].key \in 1 .. issued
<1>1. f \in FileMap /\ a \in Accounts /\ f[a] \in Entry /\ f[a] # None /\ f[a].key # 0
  BY LoadsTyped, ChoiceAssumption DEF Loads, Candidates
<1>2. f[a].key <= issued /\ f[a].key \in Nat /\ issued \in Nat
  BY <1>1 DEF UpTo, Entry, TypeOK, WorldTyped
<1>3. QED
  BY <1>1, <1>2

\* The provider never takes back a number.
LEMMA IssuedGrows ==
  ASSUME TypeOK, [Next]_vars
  PROVE  issued' \in Nat /\ issued \in Nat /\ issued <= issued'
<1>1. issued \in Nat
  BY DEF TypeOK, WorldTyped
<1>2. issued' = issued \/ issued' = issued + 1
  <2>1. ASSUME NEW c \in Callers, RefreshStep(c) PROVE issued' = issued \/ issued' = issued + 1
    BY <2>1 DEF provider, RefreshStep, CachedEndpoint, Discover, DiscoveryFails, DiscoverAs,
       Exchange, ReplyLost, Grant, Rejected, PostFails, Install, Persist, WriteFile,
       WriteFileFails, SkipFile, AfterRefresh, Return
  <2>2. QED
    BY <2>1 DEF provider, Next, Boot, BootFromDB, BootFromFile, SeedStore, StartWatch, Crash,
       ProactiveTick, Begin, Tick, GetAccessToken, ForceRefresh, RefreshLocked,
       RefreshAlreadyDone, RefreshImpossible, RefreshBegin, ExternalEdit, WatchEvent,
       UnflagTimer, AdminReload, ReloadStep, DebounceFires, ReloadInstalls, ReloadRefused, vars
<1>3. QED
  BY <1>1, <1>2

\* What starts a call at "install" is the provider's answer.
LEMMA ReplyStep ==
  ASSUME TypeOK, [Next]_vars, NEW d \in Callers, pc'[d] = "install"
  PROVE  \/ pc[d] = "install" /\ call'[d].reply = call[d].reply
         \/ Exchange(d) /\ issued' = issued + 1 /\ call'[d].reply.key = issued + 1
<1>t. call \in [Callers -> Call] /\ pc \in [Callers -> Labels]
  BY DEF TypeOK, CallersTyped
<1> DEFINE Same == pc'[d] = pc[d] /\ call'[d] = call[d]
<1>0. Same => pc[d] = "install" /\ call'[d].reply = call[d].reply
  OBVIOUS
<1> USE DEF callers, Goto
<1>1. ~Crash
  BY DEF Crash
<1>2. ASSUME NEW c \in Callers, NEW ok, EndRefresh(c, ok) PROVE Same
  BY <1>t, <1>2 DEF EndRefresh
<1>3. ASSUME ProactiveTick PROVE Same
  BY <1>t, <1>3 DEF ProactiveTick, Begin, vars
<1>4. ASSUME NEW c \in Requests, GetAccessToken(c) \/ ForceRefresh(c) PROVE Same
  BY <1>t, <1>4 DEF GetAccessToken, ForceRefresh, Begin
<1>5. ASSUME NEW c \in Callers, RefreshLocked(c) PROVE Same
  <2>1. CASE RefreshBegin(c)
    BY <1>t, <2>1 DEF RefreshBegin
  <2>2. QED
    BY <1>5, <1>2, <2>1 DEF RefreshLocked, RefreshAlreadyDone, RefreshImpossible
<1>6. ASSUME NEW c \in Callers, RefreshStep(c), ~Exchange(c) PROVE Same
  <2>1. CASE CachedEndpoint(c) \/ Discover(c) \/ DiscoveryFails(c) \/ Install(c) \/ Persist(c)
    BY <1>t, <2>1 DEF CachedEndpoint, Discover, DiscoveryFails, DiscoverAs, Install, Persist
  <2>2. CASE AfterRefresh(c) \/ Return(c)
    BY <1>t, <2>2 DEF AfterRefresh, Return
  <2>3. QED
    BY <1>2, <1>6, <2>1, <2>2
       DEF RefreshStep, ReplyLost, Rejected, PostFails, WriteFile, WriteFileFails, SkipFile
<1>7. ASSUME NEW c \in Callers, Exchange(c), d # c PROVE Same
  BY <1>t, <1>7 DEF Exchange
<1>8. ASSUME Exchange(d) PROVE issued' = issued + 1 /\ call'[d].reply.key = issued + 1
  BY <1>t, <1>8, CallFields DEF Exchange, Grant, Call
<1>9. CASE UNCHANGED callers
  BY <1>9
<1>10. Same \/ Exchange(d)
  BY <1>1, <1>3, <1>4, <1>5, <1>6, <1>7, <1>9
     DEF Next, Boot, BootFromDB, BootFromFile, SeedStore, StartWatch, Tick, ExternalEdit,
         WatchEvent, UnflagTimer, AdminReload, ReloadStep, DebounceFires, ReloadInstalls,
         ReloadRefused, vars
<1>11. QED
  BY <1>0, <1>8, <1>10

\* The entry served changes in four ways.
LEMMA EntryStep ==
  ASSUME [Next]_vars
  PROVE  \/ UNCHANGED entry /\ (mode = "down" => mode' = "down")
         \/ mode = "down" /\ \E f \in {file, db} : \E a \in Loads(f) : Load(f, a)
         \/ Crash
         \/ \E r \in Reloaders : ReloadInstalls(r)
         \/ \E c \in Callers : Install(c)
<1> USE DEF memory
<1>1. ASSUME NEW c \in Callers, RefreshStep(c), ~Install(c) PROVE UNCHANGED <<entry, mode>>
  BY <1>1 DEF RefreshStep, CachedEndpoint, Discover, DiscoveryFails, DiscoverAs, Exchange,
     ReplyLost, Rejected, PostFails, Persist, WriteFile, WriteFileFails, SkipFile,
     AfterRefresh, Return
<1>2. ASSUME NEW c \in Callers, RefreshLocked(c) PROVE UNCHANGED <<entry, mode>>
  BY <1>2 DEF RefreshLocked, RefreshAlreadyDone, RefreshImpossible, RefreshBegin
<1>3. CASE Boot
  BY <1>3 DEF Boot, BootFromDB, BootFromFile, SeedStore, StartWatch
<1>4. QED
  BY <1>1, <1>2, <1>3
     DEF Next, ProactiveTick, Begin, Tick, GetAccessToken, ForceRefresh, ExternalEdit,
         WatchEvent, UnflagTimer, AdminReload, ReloadStep, DebounceFires, ReloadRefused, vars

\* What is issued stays so, and nothing else gets in.
LEMMA IssuedStep == TypeOK /\ TypeOK' /\ IssuedInv /\ [Next]_vars => IssuedInv'
<1> SUFFICES ASSUME TypeOK, TypeOK', IssuedInv, [Next]_vars PROVE IssuedInv'
  OBVIOUS
<1>0. issued' \in Nat /\ issued \in Nat /\ issued <= issued'
  BY IssuedGrows
<1>1. ASSUME NEW c \in Callers, Install(c)
      PROVE  NewEntry(c) \in Entry /\ NewEntry(c).key \in 1 .. issued /\ fileData \in FileMap
             /\ entry' = NewEntry(c)
  <2>1. pc[c] = "install" /\ call[c].reply.key \in 1 .. issued
    BY <1>1 DEF Install, IssuedInv
  <2>2. NewEntry(c) \in Entry /\ NewEntry(c).key = call[c].reply.key
    BY <2>1, NewEntryTyped DEF NewEntry
  <2>3. QED
    BY <1>1, <2>1, <2>2 DEF Install, TypeOK, ManagerTyped
<1>2. ASSUME NEW f \in Copies' PROVE UpTo(f, issued')
  <2>1. Stems(f)
    BY CopiesStep
  <2>2. CASE f \in Copies
    BY <1>0, <2>2, UpToFacts DEF IssuedInv
  <2>3. CASE f \in {NoMap, None, Malformed}
    BY <1>0, <2>3, UpToFacts
  <2>4. CASE LoginWrites(f)
    <3>0. PICK m : m = IF file = Malformed THEN NoMap ELSE file
      OBVIOUS
    <3>1. m \in FileMap /\ m \in Copies \cup {NoMap}
      BY <3>0, EmptyTyped DEF TypeOK, WorldTyped, Copies
    <3>2. UpTo(m, issued')
      BY <1>0, <3>1, UpToFacts DEF IssuedInv
    <3>3. PICK a \in Accounts, e \in Entry :
            e.key = issued + 1 /\ issued' = issued + 1 /\ f = [m EXCEPT ![a] = e]
      BY <2>4, <3>0 DEF LoginWrites
    <3>4. e.key <= issued'
      BY <1>0, <3>3
    <3>5. QED
      BY <1>0, <3>1, <3>2, <3>3, <3>4, UpToWith
  <2>5. ASSUME NEW c \in Callers, InstallMakes(c, f) PROVE UpTo(f, issued')
    <3>1. /\ Install(c) /\ f = [fileData EXCEPT ![call[c].rk] = NewEntry(c)]
      BY <2>5 DEF InstallMakes
    <3>2. UpTo(fileData, issued)
      BY DEF IssuedInv, Copies
    <3>3. NewEntry(c).key <= issued'
      BY <1>0, <1>1, <3>1
    <3>4. UpTo(fileData, issued')
      BY <1>0, <3>2, UpToFacts
    <3>5. QED
      BY <1>0, <1>1, <3>1, <3>3, <3>4, UpToWith
  <2>6. QED
    BY <2>1, <2>2, <2>3, <2>4, <2>5 DEF Stems
<1>3. ASSUME NEW c \in Callers, pc'[c] = "install" PROVE call'[c].reply.key \in 1 .. issued'
  BY <1>0, <1>3, ReplyStep DEF IssuedInv
<1>4. ASSUME mode' # "down" PROVE entry'.key \in 1 .. issued'
  <2>1. ASSUME NEW f \in Copies, NEW a \in Loads(f), Load(f, a)
        PROVE  entry'.key \in 1 .. issued
    <3>1. f \in FileMap \cup {None, Malformed}
      BY DEF Copies, TypeOK, WorldTyped, ManagerTyped, WatcherTyped, CallersTyped, Call
    <3>2. QED
      BY <2>1, <3>1, LoadsIssued DEF Load, IssuedInv
  <2>2. ASSUME NEW r \in Reloaders, ReloadInstalls(r) PROVE entry'.key \in 1 .. issued
    BY <2>1, <2>2 DEF ReloadInstalls, Copies
  <2>3. ASSUME NEW f \in {file, db}, NEW a \in Loads(f), Load(f, a) PROVE entry'.key \in 1 .. issued
    BY <2>1, <2>3 DEF Copies
  <2>4. CASE UNCHANGED entry /\ (mode = "down" => mode' = "down")
    BY <1>0, <1>4, <2>4 DEF IssuedInv
  <2>5. \A n : n \in 1 .. issued => n \in 1 .. issued'
    BY <1>0
  <2>6. QED
    BY <1>1, <1>4, <2>2, <2>3, <2>4, <2>5, EntryStep DEF Crash
<1>5. QED
  BY <1>2, <1>3, <1>4 DEF IssuedInv

\* Init has nothing but a bootstrap file.
LEMMA IssuedInit == Init => IssuedInv
<1> SUFFICES ASSUME Init PROVE IssuedInv
  OBVIOUS
<1>1. FirstGrants \in Nat /\ issued = FirstGrants
  BY NumberAssumption DEF Init
<1>2. UpTo(file, issued)
  BY <1>1, GrantAssumption DEF Init, UpTo
<1>3. UpTo(NoMap, issued) /\ UpTo(None, issued)
  BY <1>1, UpToFacts
<1>4. \A c \in Callers : call[c].fd = NoMap /\ pc[c] # "install"
  BY DEF Init, NoCall
<1>5. Copies \subseteq {file, None, NoMap}
  BY <1>4 DEF Init, Copies
<1>6. QED
  BY <1>2, <1>3, <1>4, <1>5 DEF IssuedInv, Init

\* Calls are served by a process that is up.
LEMMA CallsRunInProcess == Spec => []Calling
<1>1. Init => Calling
  BY DEF Init, Calling
<1>2. QED
  BY TypeCorrect, CallingStep, <1>1, PTL DEF Spec

\* For any faults and any files: nothing is served that was not issued.
THEOREM NothingUnissued == Spec => []IssuedInv
BY TypeCorrect, IssuedInit, IssuedStep, PTL DEF Spec

\* loadBytes refuses an empty key before it assigns, and Install puts the
\* provider's token in place: a running proxy has an access token.
THEOREM TokenServed == Spec => []ServesToken
<1>1. IssuedInv => ServesToken
  BY DEF IssuedInv, ServesToken
<1>2. QED
  BY NothingUnissued, <1>1, PTL

-----------------------------------------------------------------------------
(* The steps of the manager, as its users see them.                         *)

\* The stage of a call at a label.
StageAt(label, op) == CASE label \in {"idle", "done"} -> label
                        [] label = "refreshed" -> IF op = "get" THEN label ELSE "done"
                        [] OTHER -> op

\* A step of a request's call changes what is seen of that call.
LEMMA CallShows ==
  ASSUME TypeOK, NEW c \in Requests, NEW label \in Labels, NEW l \in Call, Goto(c, label),
         call' = [call EXCEPT ![c] = l]
  PROVE  Contract!Answer(c, StageAt(label, l.op), l.tok.key, l.ok)
<1>1. /\ c \in Callers /\ Requests \subseteq Callers
      /\ pc \in [Callers -> Labels] /\ call \in [Callers -> Call]
  BY DEF TypeOK, CallersTyped, Callers
<1>2. \A d \in Requests : pc'[d] = IF d = c THEN label ELSE pc[d]
  BY <1>1 DEF Goto
<1>3. \A d \in Requests : call'[d] = IF d = c THEN l ELSE call[d]
  BY <1>1
<1>4. \A d \in Requests : Stage(d)' = IF d = c THEN StageAt(label, l.op) ELSE Stage(d)
  BY <1>2, <1>3 DEF Stage, StageAt
<1>5. [d \in Requests |-> Stage(d)]'
        = [[d \in Requests |-> Stage(d)] EXCEPT ![c] = StageAt(label, l.op)]
  BY <1>4
<1>6. [d \in Requests |-> call[d].tok.key]'
        = [[d \in Requests |-> call[d].tok.key] EXCEPT ![c] = l.tok.key]
  <2>1. \A d \in Requests : call'[d].tok.key = IF d = c THEN l.tok.key ELSE call[d].tok.key
    BY <1>3
  <2>2. QED
    BY <2>1
<1>7. [d \in Requests |-> call[d].ok]' = [[d \in Requests |-> call[d].ok] EXCEPT ![c] = l.ok]
  <2>1. \A d \in Requests : call'[d].ok = IF d = c THEN l.ok ELSE call[d].ok
    BY <1>3
  <2>2. QED
    BY <2>1
<1>8. QED
  BY <1>5, <1>6, <1>7 DEF Contract!Answer

\* The calls of the proactive loop are not seen.
LEMMA TickerHidden ==
  ASSUME TypeOK, NEW label, NEW l, Goto(Ticker, label), call' = [call EXCEPT ![Ticker] = l]
  PROVE  UNCHANGED Contract!calls
<1>1. Ticker \notin Requests /\ pc \in [Callers -> Labels] /\ call \in [Callers -> Call]
  BY IdAssumption DEF TypeOK, CallersTyped
<1>2. \A d \in Requests : pc'[d] = pc[d] /\ call'[d] = call[d]
  BY <1>1 DEF Goto
<1>3. \A d \in Requests : Stage(d)' = Stage(d)
  BY <1>2 DEF Stage
<1>4. /\ [d \in Requests |-> Stage(d)]' = [d \in Requests |-> Stage(d)]
      /\ [d \in Requests |-> call[d].tok.key]' = [d \in Requests |-> call[d].tok.key]
      /\ [d \in Requests |-> call[d].ok]' = [d \in Requests |-> call[d].ok]
  BY <1>2, <1>3
<1>5. QED
  BY <1>4 DEF Contract!calls

\* Nor is what happens in the middle of a call.
LEMMA CallHidden ==
  ASSUME TypeOK, NEW c \in Callers, NEW label \in Labels, NEW l \in Call, Goto(c, label),
         call' = [call EXCEPT ![c] = l], l.op = call[c].op, l.tok = call[c].tok, l.ok = call[c].ok,
         pc[c] \notin {"idle", "done", "refreshed"}, label \notin {"idle", "done", "refreshed"}
  PROVE  UNCHANGED Contract!calls
<1>1. pc \in [Callers -> Labels] /\ call \in [Callers -> Call] /\ Requests \subseteq Callers
  BY DEF TypeOK, CallersTyped, Callers
<1>2. \A d \in Requests : pc'[d] = pc[d] \/ /\ pc[d] \notin {"idle", "done", "refreshed"}
                                            /\ pc'[d] \notin {"idle", "done", "refreshed"}
  BY <1>1 DEF Goto
<1>3. \A d \in Requests : /\ call'[d].op = call[d].op /\ call'[d].tok = call[d].tok
                          /\ call'[d].ok = call[d].ok
  BY <1>1
<1>4. \A d \in Requests : Stage(d)' = Stage(d)
  BY <1>2, <1>3 DEF Stage
<1>5. /\ [d \in Requests |-> Stage(d)]' = [d \in Requests |-> Stage(d)]
      /\ [d \in Requests |-> call[d].tok.key]' = [d \in Requests |-> call[d].tok.key]
      /\ [d \in Requests |-> call[d].ok]' = [d \in Requests |-> call[d].ok]
  BY <1>3, <1>4
<1>6. QED
  BY <1>5 DEF Contract!calls

\* The end of a refresh is its end as the users see it.
LEMMA EndShows ==
  ASSUME TypeOK, Calling, NEW c \in Callers, NEW ok \in BOOLEAN, EndRefresh(c, ok),
         pc[c] \notin {"idle", "done", "refreshed"}
  PROVE  Contract!Ended(c, ok)
<1>1. PICK l \in Call : /\ l.op = call[c].op /\ l.tok = call[c].tok /\ l.ok = ok
                        /\ call' = [call EXCEPT ![c] = l]
  <2> DEFINE l == [NoCall EXCEPT !.op = call[c].op, !.t0 = call[c].t0,
                                 !.tok = call[c].tok, !.ok = ok]
  <2>1. l \in Call /\ l.op = call[c].op /\ l.tok = call[c].tok /\ l.ok = ok
    BY CallFields, EmptyTyped DEF Call
  <2>2. call' = [call EXCEPT ![c] = l]
    BY DEF EndRefresh
  <2> HIDE DEF l
  <2>3. QED
    BY <2>1, <2>2
<1>2. Goto(c, "refreshed") /\ "refreshed" \in Labels
  BY DEF EndRefresh, Labels
<1>3. CASE c \in Requests
  <2>1. Contract!Answer(c, StageAt("refreshed", l.op), l.tok.key, l.ok)
    BY <1>1, <1>2, <1>3, CallShows
  <2>2. /\ [d \in Requests |-> Stage(d)][c] = call[c].op
        /\ [d \in Requests |-> call[d].tok.key][c] = call[c].tok.key
    BY <1>3 DEF Stage
  <2>3. StageAt("refreshed", l.op)
          = IF [d \in Requests |-> Stage(d)][c] = "get" THEN "refreshed" ELSE "done"
    BY <1>1, <2>2 DEF StageAt
  <2>4. QED
    BY <1>1, <1>3, <2>1, <2>2, <2>3 DEF Contract!Ended
<1>4. CASE c \notin Requests
  <2>1. c = Ticker
    BY <1>4 DEF Callers
  <2>2. UNCHANGED Contract!calls
    BY <1>1, <1>2, <2>1, TickerHidden
  <2>3. QED
    BY <1>4, <2>2 DEF Contract!Ended
<1>5. QED
  BY <1>3, <1>4

\* The refresh under way is seen to change only with its owner's call.
LEMMA FlightKept ==
  ASSUME TypeOK, SingleFlight, NEW c \in Callers, ~HoldsRefreshMu(c), UNCHANGED refreshMu,
         NEW label, NEW l, Goto(c, label), call' = [call EXCEPT ![c] = l]
  PROVE  UNCHANGED Contract!flight
<1>1. /\ pc \in [Callers -> Labels] /\ call \in [Callers -> Call]
      /\ refreshMu \in Callers \cup {None} /\ refreshMu # c
  BY DEF TypeOK, CallersTyped, SingleFlight
<1>2. refreshMu # None => pc'[refreshMu] = pc[refreshMu] /\ call'[refreshMu] = call[refreshMu]
  BY <1>1 DEF Goto
<1>3. QED
  BY <1>2 DEF Contract!flight, OwnerIn

\* GetAccessToken and ForceRefresh begin as the contract says.
LEMMA BeginShows ==
  ASSUME TypeOK, TypeOK', SingleFlight, Calling, IssuedInv, NEW c \in Requests,
         GetAccessToken(c) \/ ForceRefresh(c)
  PROVE  Contract!Get(c) \/ Contract!Force(c)
<1>1. /\ mode = "up" /\ pc[c] = "idle" /\ c \in Callers
      /\ UNCHANGED <<issued, entry, refreshMu>>
  BY DEF GetAccessToken, ForceRefresh, Begin, Callers, provider, memory
<1>2. entry.key # 0 /\ [d \in Requests |-> Stage(d)][c] = "idle" /\ ~HoldsRefreshMu(c)
  <2>1. \A n \in 1 .. issued : n # 0
    BY DEF TypeOK, WorldTyped
  <2>2. QED
    BY <1>1, <2>1 DEF Stage, IssuedInv, HoldsRefreshMu
<1>t. /\ call' \in [Callers -> Call] /\ call \in [Callers -> Call]
      /\ "lock" \in Labels /\ "done" \in Labels /\ NoEntry.key = 0
  BY DEF TypeOK, CallersTyped, Labels, NoEntry
<1>3. CASE GetAccessToken(c)
  <2>1. PICK ok \in BOOLEAN, label \in {"lock", "done"} :
          /\ Goto(c, label) /\ (label = "done" <=> ok)
          /\ call' = [call EXCEPT ![c] = [NoCall EXCEPT !.op = "get", !.t0 = now,
                                                        !.tok = entry, !.ok = ok]]
    BY <1>2, <1>3 DEF GetAccessToken, Begin
  <2>2. PICK l : /\ call' = [call EXCEPT ![c] = l]
                 /\ l.op = "get" /\ l.tok = entry /\ l.ok = ok
    <3> DEFINE l == [NoCall EXCEPT !.op = "get", !.t0 = now, !.tok = entry, !.ok = ok]
    <3>1. l.op = "get" /\ l.tok = entry /\ l.ok = ok
      BY DEF NoCall
    <3> HIDE DEF l
    <3>2. QED
      BY <2>1, <3>1 DEF l
  <2>3. l \in Call
    BY <1>1, <1>t, <2>2
  <2>4. Contract!Answer(c, StageAt(label, l.op), l.tok.key, l.ok)
    BY <1>t, <2>1, <2>2, <2>3, CallShows
  <2>5. UNCHANGED Contract!flight
    BY <1>1, <1>2, <2>1, <2>2, FlightKept
  <2>6. StageAt(label, l.op) = IF ok THEN "done" ELSE "get"
    BY <2>1, <2>2 DEF StageAt
  <2>7. QED
    BY <1>1, <1>2, <2>2, <2>4, <2>5, <2>6 DEF Contract!Get
<1>4. CASE ForceRefresh(c)
  <2>1. Goto(c, "lock") /\ call' = [call EXCEPT ![c] = [NoCall EXCEPT !.op = "force"]]
    BY <1>4 DEF ForceRefresh, Begin
  <2>2. PICK l : /\ call' = [call EXCEPT ![c] = l]
                 /\ l.op = "force" /\ l.tok = NoEntry /\ l.ok = FALSE
    <3>1. LET l == [NoCall EXCEPT !.op = "force"]
          IN  l.op = "force" /\ l.tok = NoEntry /\ l.ok = FALSE
      BY DEF NoCall
    <3>2. QED
      BY <2>1, <3>1
  <2>3. l \in Call
    BY <1>1, <1>t, <2>2
  <2>4. Contract!Answer(c, StageAt("lock", l.op), l.tok.key, l.ok)
    BY <1>t, <2>1, <2>2, <2>3, CallShows
  <2>5. UNCHANGED Contract!flight
    BY <1>1, <1>2, <2>1, <2>2, FlightKept
  <2>6. StageAt("lock", l.op) = "force"
    BY <2>2 DEF StageAt
  <2>7. QED
    BY <1>1, <1>2, <1>t, <2>2, <2>4, <2>5, <2>6 DEF Contract!Force
<1>5. QED
  BY <1>3, <1>4

\* refreshMu is taken, or the refresh ends at once.
LEMMA LockShows ==
  ASSUME TypeOK, TypeOK', SingleFlight, Calling, IssuedInv, NEW c \in Callers, RefreshLocked(c)
  PROVE  \/ c \in Requests /\ \E success \in BOOLEAN : Contract!Skip(c, success)
         \/ Contract!Lock(c)
         \/ UNCHANGED Contract!tvars
<1>1. pc[c] = "lock" /\ refreshMu = None /\ UNCHANGED <<issued, entry, mode>>
  BY DEF RefreshLocked, RefreshAlreadyDone, RefreshImpossible, RefreshBegin, Locks, provider,
     memory
<1>2. /\ mode = "up" /\ call[c].op \in Ops(c)
      /\ c \in Requests => [d \in Requests |-> Stage(d)][c] = call[c].op
                           /\ call[c].op \in {"get", "force"}
  BY <1>1, IdAssumption DEF Calling, Ops, Stage
<1>3. entry.key # 0 /\ OwnerIn({"install"}) = FALSE /\ OwnerIn({"persist", "write"}) = FALSE
  <2>1. \A n \in 1 .. issued : n # 0
    BY DEF TypeOK, WorldTyped
  <2>2. QED
    BY <1>1, <1>2, <2>1 DEF IssuedInv, OwnerIn
<1>4. ASSUME NEW ok \in BOOLEAN, EndRefresh(c, ok), ok => ~(call[c].op = "force")
      PROVE  \/ c \in Requests /\ Contract!Skip(c, ok)
             \/ UNCHANGED Contract!tvars
  <2>1. Contract!Ended(c, ok)
    BY <1>1, <1>4, EndShows
  <2>2. /\ refreshMu' = None /\ OwnerIn({"install"})' = FALSE
        /\ OwnerIn({"persist", "write"})' = FALSE
    BY <1>4 DEF EndRefresh, OwnerIn
  <2>3. UNCHANGED Contract!flight
    BY <1>1, <1>3, <2>2 DEF Contract!flight
  <2>4. CASE c \in Requests
    BY <1>1, <1>2, <1>4, <2>1, <2>3, <2>4 DEF Contract!Skip
  <2>5. CASE c \notin Requests
    BY <1>1, <2>1, <2>3, <2>5 DEF Contract!Ended, Contract!tvars
  <2>6. QED
    BY <2>4, <2>5
<1>5. CASE RefreshAlreadyDone(c)
  BY <1>4, <1>5 DEF RefreshAlreadyDone, MustExchange
<1>6. CASE RefreshImpossible(c)
  BY <1>4, <1>6 DEF RefreshImpossible
<1>7. CASE RefreshBegin(c)
  <2>1. /\ refreshMu' = c /\ Goto(c, "endpoint")
        /\ call' = [call EXCEPT ![c] = [call[c] EXCEPT !.rs = entry, !.rk = mapKey]]
    BY <1>7 DEF RefreshBegin, TypeOK, CallersTyped
  <2>2. PICK l : /\ call' = [call EXCEPT ![c] = l] /\ l.op = call[c].op
                 /\ l.tok = call[c].tok /\ l.ok = call[c].ok
    <3>1. LET l == [call[c] EXCEPT !.rs = entry, !.rk = mapKey]
          IN  l.op = call[c].op /\ l.tok = call[c].tok /\ l.ok = call[c].ok
      BY CallFields DEF Call
    <3>2. QED
      BY <2>1, <3>1
  <2>3. l \in Call /\ "endpoint" \in Labels
    BY <2>2 DEF TypeOK, CallersTyped, Labels
  <2>4. UNCHANGED Contract!calls
    BY <1>1, <2>1, <2>2, <2>3, CallHidden
  <2>5. OwnerIn({"install"})' = FALSE /\ OwnerIn({"persist", "write"})' = FALSE
    <3>1. refreshMu' = c /\ pc'[c] = "endpoint"
      BY <2>1 DEF Goto, TypeOK, CallersTyped
    <3>2. QED
      BY <3>1 DEF OwnerIn
  <2>6. QED
    BY <1>1, <1>2, <1>3, <2>1, <2>4, <2>5 DEF Contract!Lock
<1>8. QED
  BY <1>5, <1>6, <1>7 DEF RefreshLocked

\* A refresh goes on, ends, and its call returns, as the contract says.
LEMMA RefreshShows ==
  ASSUME TypeOK, TypeOK', SingleFlight, Calling, IssuedInv, NEW c \in Callers, RefreshStep(c)
  PROVE  \/ Contract!RefreshStep(c)
         \/ c \in Requests /\ (Contract!Finish(c) \/ Contract!Return(c))
         \/ UNCHANGED Contract!tvars
<1>t. /\ call' \in [Callers -> Call] /\ call \in [Callers -> Call] /\ call[c] \in Call
      /\ pc \in [Callers -> Labels] /\ refreshMu \in Callers \cup {None}
  BY DEF TypeOK, CallersTyped
<1>o. refreshMu = c => /\ OwnerIn({"install"}) = IF pc[c] = "install" THEN TRUE ELSE FALSE
                       /\ OwnerIn({"persist", "write"})
                            = IF pc[c] \in {"persist", "write"} THEN TRUE ELSE FALSE
  BY IdAssumption DEF OwnerIn
<1>1. ASSUME NEW label \in Labels \ {"idle", "done", "refreshed"}, HoldsRefreshMu(c), NEW l,
             Goto(c, label), call' = [call EXCEPT ![c] = l], l.op = call[c].op,
             l.tok = call[c].tok, l.ok = call[c].ok
      PROVE  UNCHANGED Contract!calls
  BY <1>t, <1>1, CallHidden DEF HoldsRefreshMu
<1>2. CASE CachedEndpoint(c) \/ Discover(c) \/ DiscoveryFails(c)
  <2>1. PICK label, e :
          /\ label \in {"discover", "post"} /\ Goto(c, label)
          /\ call' = [call EXCEPT ![c] = [call[c] EXCEPT !.ep = e]]
    BY <1>2, <1>t DEF CachedEndpoint, Discover, DiscoveryFails, DiscoverAs
  <2>2. LET l == [call[c] EXCEPT !.ep = e]
        IN  l.op = call[c].op /\ l.tok = call[c].tok /\ l.ok = call[c].ok
    BY <1>t DEF Call
  <2>3. /\ HoldsRefreshMu(c) /\ pc[c] \in {"endpoint", "discover"}
        /\ UNCHANGED <<issued, entry, refreshMu>>
    BY <1>2 DEF CachedEndpoint, Discover, DiscoveryFails, DiscoverAs, HoldsRefreshMu, provider,
       memory
  <2>4. UNCHANGED Contract!calls
    BY <1>1, <2>1, <2>2, <2>3 DEF Labels
  <2>5. refreshMu = c /\ refreshMu' = c
    BY <2>3 DEF SingleFlight
  <2>6. UNCHANGED Contract!flight
    <3>1. /\ OwnerIn({"install"}) = FALSE /\ OwnerIn({"persist", "write"}) = FALSE
          /\ pc'[c] = label
      BY <1>o, <1>t, <2>1, <2>3, <2>5 DEF Goto
    <3>2. OwnerIn({"install"})' = FALSE /\ OwnerIn({"persist", "write"})' = FALSE
      BY <2>1, <2>5, <3>1 DEF OwnerIn
    <3>3. QED
      BY <2>5, <3>1, <3>2 DEF Contract!flight
  <2>7. QED
    BY <2>3, <2>4, <2>6 DEF Contract!tvars
<1>3. CASE Exchange(c)
  <2>1. PICK q : /\ Goto(c, "install") /\ q.key = issued + 1
                 /\ call' = [call EXCEPT ![c] = [call[c] EXCEPT !.reply = q]]
    BY <1>3, <1>t DEF Exchange
  <2>2. LET l == [call[c] EXCEPT !.reply = q]
        IN  /\ l.op = call[c].op /\ l.tok = call[c].tok /\ l.ok = call[c].ok
            /\ l.reply = q
    BY <1>t DEF Call
  <2>3. /\ HoldsRefreshMu(c) /\ pc[c] = "post" /\ issued' = issued + 1
        /\ UNCHANGED <<entry, refreshMu>>
    BY <1>3 DEF Exchange, Grant, HoldsRefreshMu, memory
  <2>4. UNCHANGED Contract!calls
    BY <1>1, <2>1, <2>2, <2>3 DEF Labels
  <2>5. refreshMu = c /\ refreshMu' = c
    BY <2>3 DEF SingleFlight
  <2>6. OwnerIn({"install"}) = FALSE /\ OwnerIn({"persist", "write"}) = FALSE
    BY <1>o, <2>3, <2>5
  <2>7. OwnerIn({"install"})' = TRUE /\ OwnerIn({"persist", "write"})' = FALSE
    <3>1. pc'[c] = "install" /\ c # None
      BY <1>t, <2>1, IdAssumption DEF Goto
    <3>2. QED
      BY <2>5, <3>1 DEF OwnerIn
  <2>8. call'[refreshMu'].reply.key = issued + 1
    BY <1>t, <2>1, <2>2, <2>5
  <2>9. Contract!Mint(c)
    BY <2>3, <2>4, <2>5, <2>6, <2>7, <2>8 DEF Contract!Mint
  <2>10. QED
    BY <2>9 DEF Contract!RefreshStep
<1>4. CASE Install(c)
  <2>1. PICK m : Goto(c, "persist") /\ call' = [call EXCEPT ![c] = [call[c] EXCEPT !.fd = m]]
    BY <1>4, <1>t DEF Install
  <2>2. LET l == [call[c] EXCEPT !.fd = m]
        IN  l.op = call[c].op /\ l.tok = call[c].tok /\ l.ok = call[c].ok
    BY <1>t DEF Call
  <2>3. /\ HoldsRefreshMu(c) /\ pc[c] = "install" /\ entry'.key = call[c].reply.key
        /\ UNCHANGED <<issued, refreshMu>>
    BY <1>4 DEF Install, NewEntry, HoldsRefreshMu, provider
  <2>4. UNCHANGED Contract!calls
    BY <1>1, <2>1, <2>2, <2>3 DEF Labels
  <2>5. refreshMu = c /\ refreshMu' = c
    BY <2>3 DEF SingleFlight
  <2>6. OwnerIn({"install"}) = TRUE
    BY <1>o, <2>3, <2>5
  <2>7. OwnerIn({"install"})' = FALSE /\ OwnerIn({"persist", "write"})' = TRUE
    <3>1. pc'[c] = "persist" /\ c # None
      BY <1>t, <2>1, IdAssumption DEF Goto
    <3>2. QED
      BY <2>5, <3>1 DEF OwnerIn
  <2>8. call[refreshMu].reply.key # 0
    BY <2>3, <2>5 DEF IssuedInv, TypeOK, WorldTyped
  <2>9. Contract!Install(c)
    BY <2>3, <2>4, <2>5, <2>6, <2>7, <2>8 DEF Contract!Install
  <2>10. QED
    BY <2>9 DEF Contract!RefreshStep
<1>5. CASE Persist(c)
  <2>1. Goto(c, "write") /\ call' = [call EXCEPT ![c] = call[c]]
    BY <1>5, <1>t DEF Persist
  <2>2. /\ HoldsRefreshMu(c) /\ pc[c] = "persist" /\ UNCHANGED <<issued, entry, refreshMu>>
    BY <1>5 DEF Persist, HoldsRefreshMu, provider, memory
  <2>3. UNCHANGED Contract!calls
    BY <1>1, <2>1, <2>2 DEF Labels
  <2>4. refreshMu = c /\ refreshMu' = c
    BY <2>2 DEF SingleFlight
  <2>5. OwnerIn({"install"}) = FALSE /\ OwnerIn({"persist", "write"}) = TRUE
    BY <1>o, <2>2, <2>4
  <2>6. OwnerIn({"install"})' = FALSE /\ OwnerIn({"persist", "write"})' = TRUE
    <3>1. pc'[c] = "write" /\ c # None
      BY <1>t, <2>1, IdAssumption DEF Goto
    <3>2. QED
      BY <2>4, <3>1 DEF OwnerIn
  <2>7. UNCHANGED Contract!flight
    BY <2>4, <2>5, <2>6 DEF Contract!flight
  <2>8. QED
    BY <2>2, <2>3, <2>7 DEF Contract!tvars
<1>6. CASE ReplyLost(c) \/ Rejected(c) \/ PostFails(c)
  <2>1. /\ pc[c] = "post" /\ EndRefresh(c, FALSE) /\ UNCHANGED entry
        /\ issued' = issued + 1 \/ UNCHANGED issued
    BY <1>6 DEF ReplyLost, Grant, Rejected, PostFails, provider, memory
  <2>2. Contract!Ended(c, FALSE)
    BY <2>1, EndShows
  <2>3. refreshMu = c /\ refreshMu' = None
    BY <2>1 DEF SingleFlight, HoldsRefreshMu, EndRefresh
  <2>4. OwnerIn({"install"}) = FALSE /\ OwnerIn({"persist", "write"}) = FALSE
    BY <1>o, <2>1, <2>3
  <2>5. OwnerIn({"install"})' = FALSE /\ OwnerIn({"persist", "write"})' = FALSE
    BY <2>3 DEF OwnerIn
  <2>6. Contract!Unlock(c) \/ Contract!Lose(c)
    BY <2>1, <2>2, <2>3, <2>4, <2>5 DEF Contract!Unlock, Contract!Lose
  <2>7. QED
    BY <2>6 DEF Contract!RefreshStep
<1>7. CASE WriteFile(c) \/ WriteFileFails(c) \/ SkipFile(c)
  <2>1. pc[c] = "write" /\ EndRefresh(c, TRUE) /\ UNCHANGED <<entry, issued>>
    BY <1>7 DEF WriteFile, WriteFileFails, SkipFile, provider, memory
  <2>2. Contract!Ended(c, TRUE)
    BY <2>1, EndShows
  <2>3. refreshMu = c /\ refreshMu' = None
    BY <2>1 DEF SingleFlight, HoldsRefreshMu, EndRefresh
  <2>4. OwnerIn({"install"}) = FALSE /\ OwnerIn({"persist", "write"}) = TRUE
    BY <1>o, <2>1, <2>3
  <2>5. OwnerIn({"install"})' = FALSE /\ OwnerIn({"persist", "write"})' = FALSE
    BY <2>3 DEF OwnerIn
  <2>6. Contract!Unlock(c)
    BY <2>1, <2>2, <2>3, <2>4, <2>5 DEF Contract!Unlock
  <2>7. QED
    BY <2>6 DEF Contract!RefreshStep
<1>8. CASE AfterRefresh(c)
  <2>1. /\ pc[c] = "refreshed" /\ call[c].op = "get" /\ Goto(c, "done")
        /\ ~HoldsRefreshMu(c) /\ UNCHANGED <<issued, entry, refreshMu>>
    BY <1>8 DEF AfterRefresh, HoldsRefreshMu, provider, memory
  <2>2. c \in Requests
    BY <2>1 DEF Calling, Ops, Callers
  <2>3. PICK l : /\ call' = [call EXCEPT ![c] = l] /\ l.ok \in BOOLEAN
                 /\ IF call[c].ok THEN l.tok = entry /\ l.ok = TRUE ELSE l.tok = call[c].tok
    <3>1. /\ [call[c] EXCEPT !.tok = entry].tok = entry
          /\ [call[c] EXCEPT !.tok = entry].ok = call[c].ok /\ call[c].ok \in BOOLEAN
          /\ [call[c] EXCEPT !.ok = TRUE].tok = call[c].tok /\ [call[c] EXCEPT !.ok = TRUE].ok = TRUE
      BY <1>t DEF Call
    <3>2. CASE call[c].ok
      BY <1>8, <1>t, <3>1, <3>2 DEF AfterRefresh
    <3>3. CASE ~call[c].ok /\ StillServes(call[c].tok)
      BY <1>8, <1>t, <3>1, <3>3 DEF AfterRefresh
    <3>4. CASE ~call[c].ok /\ ~StillServes(call[c].tok)
      <4>1. call' = [call EXCEPT ![c] = call[c]]
        BY <1>8, <1>t, <3>4 DEF AfterRefresh
      <4>2. QED
        BY <3>1, <3>4, <4>1
    <3>5. QED
      BY <3>2, <3>3, <3>4
  <2>4. l \in Call
    BY <1>t, <2>3
  <2>5. Contract!Answer(c, StageAt("done", l.op), l.tok.key, l.ok)
    BY <2>1, <2>2, <2>3, <2>4, CallShows DEF Labels
  <2>6. StageAt("done", l.op) = "done"
    BY DEF StageAt
  <2>7. UNCHANGED Contract!flight
    BY <2>1, <2>3, FlightKept
  <2>8. /\ [d \in Requests |-> Stage(d)][c] = "refreshed"
        /\ [d \in Requests |-> call[d].ok][c] = call[c].ok
        /\ [d \in Requests |-> call[d].tok.key][c] = call[c].tok.key
    BY <2>1, <2>2 DEF Stage
  <2>9. Contract!Finish(c)
    <3>1. CASE call[c].ok
      <4>1. Contract!Answer(c, "done", entry.key, TRUE)
        BY <2>3, <2>5, <2>6, <3>1
      <4>2. QED
        BY <2>1, <2>7, <2>8, <3>1, <4>1 DEF Contract!Finish
    <3>2. CASE ~call[c].ok
      <4>1. Contract!Answer(c, "done", call[c].tok.key, l.ok)
        BY <2>3, <2>5, <2>6, <3>2
      <4>2. QED
        BY <2>1, <2>3, <2>7, <2>8, <3>2, <4>1 DEF Contract!Finish
    <3>3. QED
      BY <3>1, <3>2
  <2>10. QED
    BY <2>2, <2>9
<1>9. CASE Return(c)
  <2>1. /\ pc[c] = (IF call[c].op = "get" THEN "done" ELSE "refreshed") /\ Goto(c, "idle")
        /\ ~HoldsRefreshMu(c) /\ UNCHANGED <<issued, entry, refreshMu>>
        /\ call' = [call EXCEPT ![c] = NoCall]
    BY <1>9 DEF Return, HoldsRefreshMu, provider, memory
  <2>2. UNCHANGED Contract!flight
    BY <2>1, FlightKept
  <2>3. CASE c \in Requests
    <3>1. Contract!Answer(c, StageAt("idle", NoCall.op), NoCall.tok.key, NoCall.ok)
      BY <2>1, <2>3, CallShows, EmptyTyped DEF Labels
    <3>2. StageAt("idle", NoCall.op) = "idle" /\ NoCall.tok.key = 0 /\ NoCall.ok = FALSE
      BY DEF StageAt, NoCall, NoEntry
    <3>3. [d \in Requests |-> Stage(d)][c] = "done"
      BY <2>1, <2>3 DEF Stage
    <3>4. Contract!Return(c)
      BY <2>1, <2>2, <3>1, <3>2, <3>3 DEF Contract!Return
    <3>5. QED
      BY <2>3, <3>4
  <2>4. CASE c \notin Requests
    <3>1. c = Ticker
      BY <2>4 DEF Callers
    <3>2. QED
      BY <2>1, <2>2, <3>1, TickerHidden DEF Contract!tvars
  <2>5. QED
    BY <2>3, <2>4
<1>10. QED
  BY <1>2, <1>3, <1>4, <1>5, <1>6, <1>7, <1>8, <1>9 DEF RefreshStep

\* What leaves the calls and the mutex alone is not seen, but for what is held.
LEMMA CallersKept ==
  ASSUME UNCHANGED callers
  PROVE  UNCHANGED <<Contract!flight, Contract!calls>>
<1>1. \A d \in Requests : Stage(d)' = Stage(d)
  BY DEF callers, Stage
<1>2. UNCHANGED Contract!calls
  BY <1>1 DEF callers, Contract!calls
<1>3. UNCHANGED Contract!flight
  BY DEF callers, Contract!flight, OwnerIn
<1>4. QED
  BY <1>2, <1>3

\* A tick is not seen.
LEMMA TickShows ==
  ASSUME TypeOK, SingleFlight, ProactiveTick
  PROVE  UNCHANGED Contract!tvars
<1>1. CASE InProactiveWindow(entry)
  <2>1. /\ Goto(Ticker, "lock") /\ UNCHANGED <<issued, entry, refreshMu>> /\ Ticker \in Callers
        /\ ~HoldsRefreshMu(Ticker)
        /\ call' = [call EXCEPT ![Ticker] = [NoCall EXCEPT !.op = "tick", !.t0 = now]]
    BY <1>1 DEF ProactiveTick, Begin, HoldsRefreshMu, Callers, provider, memory
  <2>2. UNCHANGED Contract!flight
    BY <2>1, FlightKept
  <2>3. UNCHANGED Contract!calls
    BY <2>1, TickerHidden
  <2>4. QED
    BY <2>1, <2>2, <2>3 DEF Contract!tvars
<1>2. CASE ~InProactiveWindow(entry)
  <2>1. UNCHANGED <<issued, entry, callers>>
    BY <1>2 DEF ProactiveTick, vars, provider, memory
  <2>2. QED
    BY <2>1, CallersKept DEF callers, Contract!tvars
<1>3. QED
  BY <1>1, <1>2

\* Boot and reloads provide an issued token.
LEMMA ProvideShows ==
  ASSUME TypeOK, IssuedInv, UNCHANGED <<issued, callers>>,
         NEW f \in Copies, NEW a \in Loads(f), Load(f, a)
  PROVE  Contract!Provide
<1>1. f \in FileMap \cup {None, Malformed}
  BY DEF Copies, TypeOK, WorldTyped, ManagerTyped, WatcherTyped, CallersTyped, Call
<1>2. entry'.key \in 1 .. issued
  BY <1>1, LoadsIssued DEF Load, IssuedInv
<1>3. QED
  BY <1>2, CallersKept DEF Contract!Provide, callers

\* Every step of the manager is a step of the token service, or is not seen.
LEMMA ContractStep ==
  ASSUME TypeOK, TypeOK', SingleFlight, Calling, IssuedInv, [Next]_vars
  PROVE  [Contract!Next]_(Contract!tvars)
<1>1. CASE UNCHANGED <<issued, entry, callers>>
  BY <1>1, CallersKept DEF callers, Contract!tvars
<1>2. CASE Boot
  <2>1. CASE BootFromDB \/ BootFromFile
    <3>1. UNCHANGED <<issued, callers>> /\ \E f \in {db, file} : \E a \in Loads(f) : Load(f, a)
      BY <2>1 DEF BootFromDB, BootFromFile, provider
    <3>2. QED
      BY <3>1, ProvideShows DEF Copies, Contract!Next
  <2>2. CASE SeedStore \/ StartWatch
    BY <1>1, <2>2 DEF SeedStore, StartWatch, provider, memory
  <2>3. QED
    BY <1>2, <2>1, <2>2 DEF Boot
<1>3. CASE Crash
  <2>1. /\ refreshMu' = None /\ UNCHANGED issued /\ entry' = NoEntry
        /\ \A d \in Requests : pc'[d] = "idle" /\ call'[d] = NoCall
    BY <1>3 DEF Crash, Callers, provider
  <2>2. /\ \A d \in Requests : Stage(d)' = "idle" /\ call'[d].tok.key = 0 /\ call'[d].ok = FALSE
        /\ OwnerIn({"install"})' = FALSE /\ OwnerIn({"persist", "write"})' = FALSE
        /\ entry'.key = 0
    BY <2>1 DEF Stage, NoCall, NoEntry, OwnerIn
  <2>3. /\ [d \in Requests |-> Stage(d)]' = [d \in Requests |-> "idle"]
        /\ [d \in Requests |-> call[d].tok.key]' = [d \in Requests |-> 0]
        /\ [d \in Requests |-> call[d].ok]' = [d \in Requests |-> FALSE]
    BY <2>2
  <2>4. Contract!Crash
    BY <2>1, <2>2, <2>3 DEF Contract!Crash
  <2>5. QED
    BY <2>4 DEF Contract!Next
<1>4. CASE ProactiveTick
  BY <1>4, TickShows
<1>5. CASE ExternalEdit
  <2>1. UNCHANGED <<entry, callers>> /\ (issued' = issued + 1 \/ UNCHANGED issued)
    BY <1>5 DEF ExternalEdit, provider, memory
  <2>2. CASE issued' = issued + 1
    BY <2>1, <2>2, CallersKept DEF Contract!Login, Contract!Next
  <2>3. QED
    BY <1>1, <2>1, <2>2
<1>6. ASSUME NEW c \in Requests, GetAccessToken(c) \/ ForceRefresh(c) PROVE Contract!Next
  BY <1>6, BeginShows DEF Contract!Next
<1>7. ASSUME NEW c \in Callers, RefreshLocked(c) PROVE [Contract!Next]_(Contract!tvars)
  BY <1>7, LockShows DEF Contract!Next, Contract!CallStep, Contract!RefreshStep, Callers
<1>8. ASSUME NEW c \in Callers, RefreshStep(c) PROVE [Contract!Next]_(Contract!tvars)
  BY <1>8, RefreshShows DEF Contract!Next, Contract!CallStep, Callers
<1>9. ASSUME NEW r \in Reloaders, ReloadInstalls(r) PROVE Contract!Next
  <2>1. UNCHANGED <<issued, callers>> /\ rd[r] \in Copies /\ \E a \in Loads(rd[r]) : Load(rd[r], a)
    BY <1>9 DEF ReloadInstalls, Copies, provider
  <2>2. QED
    BY <2>1, ProvideShows DEF Contract!Next
<1>10. QED
  BY <1>1, <1>2, <1>3, <1>4, <1>5, <1>6, <1>7, <1>8, <1>9
     DEF Next, Tick, WatchEvent, UnflagTimer, AdminReload, ReloadStep, DebounceFires,
         ReloadRefused, vars, provider, memory

\* A process that is not running has no token and no calls.
LEMMA ContractInit == Init => Contract!Init
<1> SUFFICES ASSUME Init PROVE Contract!Init
  OBVIOUS
<1>1. \A d \in Requests : pc[d] = "idle" /\ call[d] = NoCall
  BY DEF Init, Callers
<1>2. \A d \in Requests : Stage(d) = "idle" /\ call[d].tok.key = 0 /\ call[d].ok = FALSE
  <2>1. NoCall.tok.key = 0 /\ NoCall.ok = FALSE
    BY DEF NoCall, NoEntry
  <2>2. \A d \in Requests : Stage(d) = "idle"
    BY <1>1 DEF Stage
  <2>3. QED
    BY <1>1, <2>1, <2>2
<1>3. /\ [d \in Requests |-> Stage(d)] = [d \in Requests |-> "idle"]
      /\ [d \in Requests |-> call[d].tok.key] = [d \in Requests |-> 0]
      /\ [d \in Requests |-> call[d].ok] = [d \in Requests |-> FALSE]
  BY <1>2
<1>4. OwnerIn({"install"}) = FALSE /\ OwnerIn({"persist", "write"}) = FALSE /\ entry.key = 0
  BY DEF Init, OwnerIn, NoEntry
<1>5. QED
  BY <1>3, <1>4 DEF Init, Contract!Init

\* The TokenProvider the proxy is given: whatever files, timers, faults and
\* other callers do, the manager does nothing the token service does not.
THEOREM ContractKept == Spec => KeepsContract
<1>1. TypeOK /\ TypeOK' /\ SingleFlight /\ Calling /\ IssuedInv /\ [Next]_vars
        => [Contract!Next]_(Contract!tvars)
  BY ContractStep
<1>2. QED
  BY TypeCorrect, RefreshIsSingleFlight, CallsRunInProcess, NothingUnissued, ContractInit, <1>1, PTL
     DEF Spec, KeepsContract, Contract!Spec

=============================================================================
