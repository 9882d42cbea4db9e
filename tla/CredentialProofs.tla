-------------------------- MODULE CredentialProofs --------------------------
(***************************************************************************)
(* What AuthManager promises of the credential itself, for any set of      *)
(* requests, accounts and files: how old a token GetAccessToken may        *)
(* return, when it may fail, which refresh token is sent, and that memory, *)
(* auth.json and auth_states stay together.  Where a promise needs a       *)
(* reload, a crash or a lost answer not to happen, the theorem says so of  *)
(* the behavior: the constants are as free as in ContractProofs.           *)
(***************************************************************************)
EXTENDS ContractProofs, WellFoundedInduction

\* No file is loaded again while the process runs.
NoReload == [][\A r \in Reloaders : ~ReloadInstalls(r)]_vars

-----------------------------------------------------------------------------
(* Who moves a call.                                                        *)

\* The steps that belong to the call of d.
OwnStep(d) ==
  \/ d = Ticker /\ ProactiveTick
  \/ d \in Requests /\ (GetAccessToken(d) \/ ForceRefresh(d))
  \/ RefreshLocked(d) \/ RefreshStep(d)

\* A step of one call moves no other.
LEMMA OthersRest ==
  ASSUME TypeOK, NEW c \in Callers, NEW d \in Callers, c # d, RefreshLocked(c) \/ RefreshStep(c)
  PROVE  pc'[d] = pc[d] /\ call'[d] = call[d]
<1>1. pc \in [Callers -> Labels] /\ call \in [Callers -> Call]
  BY DEF TypeOK, CallersTyped
<1>2. \A ok : EndRefresh(c, ok) => pc'[d] = pc[d] /\ call'[d] = call[d]
  BY <1>1 DEF EndRefresh, Goto
<1>3. CASE RefreshBegin(c)
  BY <1>1, <1>3 DEF RefreshBegin, Goto
<1>4. CASE CachedEndpoint(c) \/ Discover(c) \/ DiscoveryFails(c) \/ Exchange(c)
  BY <1>1, <1>4 DEF CachedEndpoint, Discover, DiscoveryFails, DiscoverAs, Exchange, Goto
<1>5. CASE Install(c) \/ Persist(c) \/ AfterRefresh(c) \/ Return(c)
  BY <1>1, <1>5 DEF Install, Persist, AfterRefresh, Return, Goto
<1>6. QED
  BY <1>2, <1>3, <1>4, <1>5
     DEF RefreshLocked, RefreshAlreadyDone, RefreshImpossible, RefreshStep, ReplyLost, Rejected,
         PostFails, WriteFile, WriteFileFails, SkipFile

\* A call rests unless the step is its own, or the process is killed.
LEMMA CallStepCases ==
  ASSUME TypeOK, [Next]_vars, NEW d \in Callers
  PROVE  \/ pc'[d] = pc[d] /\ call'[d] = call[d]
         \/ Crash
         \/ OwnStep(d)
<1>1. pc \in [Callers -> Labels] /\ call \in [Callers -> Call] /\ Ticker \notin Requests
  BY IdAssumption DEF TypeOK, CallersTyped
<1>2. CASE UNCHANGED callers
  BY <1>2 DEF callers
<1>3. CASE ProactiveTick
  BY <1>1, <1>3 DEF ProactiveTick, Begin, Goto, vars, callers, OwnStep
<1>4. ASSUME NEW c \in Requests, GetAccessToken(c) \/ ForceRefresh(c)
      PROVE  (pc'[d] = pc[d] /\ call'[d] = call[d]) \/ OwnStep(d)
  BY <1>1, <1>4 DEF GetAccessToken, ForceRefresh, Begin, Goto, OwnStep
<1>5. ASSUME NEW c \in Callers, RefreshLocked(c) \/ RefreshStep(c)
      PROVE  (pc'[d] = pc[d] /\ call'[d] = call[d]) \/ OwnStep(d)
  BY <1>5, OthersRest DEF OwnStep
<1>6. QED
  BY <1>2, <1>3, <1>4, <1>5
     DEF Next, Boot, BootFromDB, BootFromFile, SeedStore, StartWatch, Tick, ExternalEdit,
         WatchEvent, UnflagTimer, AdminReload, ReloadStep, DebounceFires, ReloadInstalls,
         ReloadRefused, vars

\* A call of GetAccessToken is answered at once, or after its refresh.
LEMMA DoneStep ==
  ASSUME TypeOK, [Next]_vars, NEW d \in Requests, pc'[d] = "done"
  PROVE  \/ pc[d] = "done" /\ call'[d] = call[d]
         \/ GetAccessToken(d)
         \/ AfterRefresh(d)
<1>1. d \in Callers /\ pc \in [Callers -> Labels] /\ d # Ticker
  BY IdAssumption DEF TypeOK, CallersTyped, Callers
<1>2. CASE OwnStep(d)
  <2>1. \A ok : ~EndRefresh(d, ok)
    BY <1>1 DEF EndRefresh, Goto
  <2>2. ~ForceRefresh(d)
    BY <1>1 DEF ForceRefresh, Begin, Goto
  <2>3. ~RefreshLocked(d)
    BY <1>1, <2>1 DEF RefreshLocked, RefreshAlreadyDone, RefreshImpossible, RefreshBegin, Goto
  <2>4. RefreshStep(d) => AfterRefresh(d)
    BY <1>1, <2>1 DEF RefreshStep, CachedEndpoint, Discover, DiscoveryFails, DiscoverAs,
       Exchange, ReplyLost, Rejected, PostFails, Install, Persist, WriteFile, WriteFileFails,
       SkipFile, Return, Goto
  <2>5. QED
    BY <1>1, <1>2, <2>2, <2>3, <2>4 DEF OwnStep
<1>3. ~Crash
  BY <1>1 DEF Crash
<1>4. QED
  BY <1>1, <1>2, <1>3, CallStepCases

\* Time does not go back.
LEMMA TimeGoes ==
  ASSUME TypeOK, [Next]_vars
  PROVE  now \in Nat /\ now' \in Nat /\ now <= now'
<1>1. now \in Nat
  BY DEF TypeOK, WorldTyped
<1>2. now' = now \/ now' = now + 1
  <2>1. ASSUME NEW c \in Callers, RefreshStep(c) PROVE now' = now
    BY <2>1 DEF RefreshStep, CachedEndpoint, Discover, DiscoveryFails, DiscoverAs,
       Exchange, ReplyLost, Rejected, PostFails, Install, Persist, WriteFile,
       WriteFileFails, SkipFile, AfterRefresh, Return
  <2>2. QED
    BY <2>1 DEF Next, Boot, BootFromDB, BootFromFile, SeedStore, StartWatch, Crash, Tick,
       ProactiveTick, Begin, GetAccessToken, ForceRefresh, RefreshLocked, RefreshAlreadyDone,
       RefreshImpossible, RefreshBegin, ExternalEdit, WatchEvent, UnflagTimer, AdminReload,
       ReloadStep, DebounceFires, ReloadInstalls, ReloadRefused, vars
<1>3. QED
  BY <1>1, <1>2

-----------------------------------------------------------------------------
(* When a call fails.                                                       *)

\* What GetAccessToken leaves in its locals when it is answered at once.
LEMMA AnsweredAtOnce ==
  ASSUME TypeOK, NEW d \in Requests, GetAccessToken(d), pc'[d] = "done"
  PROVE  /\ call'[d].tok = entry /\ call'[d].t0 = now
         /\ call'[d].ok <=> entry.key # 0
         /\ entry.key # 0 => ~NeedsRefresh(entry)
<1>1. /\ d \in Callers /\ pc \in [Callers -> Labels] /\ call \in [Callers -> Call]
      /\ UNCHANGED entry
  BY DEF TypeOK, CallersTyped, Callers, GetAccessToken, Begin, memory
<1>2. ~(entry.key # 0 /\ NeedsRefresh(entry))
  BY <1>1 DEF GetAccessToken, Begin, Goto
<1>3. call'[d] = [NoCall EXCEPT !.op = "get", !.t0 = now, !.tok = entry,
                                !.ok = entry.key # 0 /\ ~(entry.key # 0 /\ NeedsRefresh(entry))]
  BY <1>1 DEF GetAccessToken, Begin
<1>4. /\ call'[d].tok = entry /\ call'[d].t0 = now
      /\ call'[d].ok = (entry.key # 0 /\ ~(entry.key # 0 /\ NeedsRefresh(entry)))
  BY <1>3 DEF NoCall
<1>5. QED
  BY <1>2, <1>4

\* And after its refresh.
LEMMA AnsweredLate ==
  ASSUME TypeOK, NEW d \in Requests, AfterRefresh(d)
  PROVE  /\ call'[d].t0 = call[d].t0
         /\ \/ call[d].ok /\ call'[d].ok /\ call'[d].tok = entry
            \/ ~call[d].ok /\ call'[d].ok /\ call'[d].tok = call[d].tok /\ StillServes(call[d].tok)
            \/ ~call[d].ok /\ ~call'[d].ok /\ call'[d].tok = call[d].tok
               /\ ~StillServes(call[d].tok)
<1>1. call \in [Callers -> Call] /\ d \in Callers /\ call[d] \in Call
  BY DEF TypeOK, CallersTyped, Callers
<1>2. CASE call[d].ok
  <2>1. call'[d] = [call[d] EXCEPT !.tok = entry]
    BY <1>1, <1>2 DEF AfterRefresh
  <2>2. QED
    BY <1>1, <1>2, <2>1 DEF Call
<1>3. CASE ~call[d].ok /\ StillServes(call[d].tok)
  <2>1. call'[d] = [call[d] EXCEPT !.ok = TRUE]
    BY <1>1, <1>3 DEF AfterRefresh
  <2>2. QED
    BY <1>1, <1>3, <2>1 DEF Call
<1>4. CASE ~call[d].ok /\ ~StillServes(call[d].tok)
  BY <1>1, <1>4 DEF AfterRefresh
<1>5. QED
  BY <1>2, <1>3, <1>4

\* "If still not expired, serve current token": however the provider, the
\* disk or the store fail, GetAccessToken returns an error only when it found
\* no token or one that has expired by now.
THEOREM FailsOnlyExpired == Spec => []FailsOnlyWhenExpired
<1>1. Init => FailsOnlyWhenExpired
  BY DEF Init, FailsOnlyWhenExpired, Callers
<1>2. TypeOK /\ FailsOnlyWhenExpired /\ [Next]_vars => FailsOnlyWhenExpired'
  <2> SUFFICES ASSUME TypeOK, FailsOnlyWhenExpired, [Next]_vars, NEW d \in Requests,
                      pc'[d] = "done", call'[d].op = "get", ~call'[d].ok
               PROVE  call'[d].tok.key = 0 \/ call'[d].tok.exp <= now'
    BY DEF FailsOnlyWhenExpired
  <2>t. /\ d \in Callers /\ now \in Nat /\ now' \in Nat /\ now <= now'
        /\ call[d].tok.exp \in Nat
    BY TimeGoes, CallFields DEF Callers, Entry
  <2>1. CASE pc[d] = "done" /\ call'[d] = call[d]
    BY <2>t, <2>1 DEF FailsOnlyWhenExpired
  <2>2. CASE GetAccessToken(d)
    BY <2>2, AnsweredAtOnce
  <2>3. CASE AfterRefresh(d)
    BY <2>t, <2>3, AnsweredLate DEF StillServes
  <2>4. QED
    BY <2>1, <2>2, <2>3, DoneStep
<1>3. QED
  BY TypeCorrect, <1>1, <1>2, PTL DEF Spec

-----------------------------------------------------------------------------
(* How old a returned token may be.                                         *)

Outlives(e, t) == e.exp = 0 \/ e.exp > t

\* The refresh of d has put a token in place, or found a fresh one.
Renewed(d) == pc[d] \in {"persist", "write"} \/ (pc[d] = "refreshed" /\ call[d].ok)

\* The clock does not overtake a call: it began by now; what it gets in the end
\* was not expired when it began.
UnexpiredInv ==
  /\ \A c \in Callers : call[c].t0 <= now
  /\ \A c \in Callers : pc[c] = "install" => call[c].reply.life # 0
  /\ \A c \in Requests : Renewed(c) /\ call[c].op = "get" => Outlives(entry, call[c].t0)
  /\ ReturnsUnexpiredToken

\* A call keeps what it began with, until it returns.
LEMMA CallKeeps ==
  ASSUME TypeOK, NEW d \in Callers, RefreshLocked(d) \/ RefreshStep(d)
  PROVE  \/ Return(d) /\ call'[d] = NoCall /\ pc'[d] = "idle"
         \/ call'[d].t0 = call[d].t0 /\ call'[d].op = call[d].op
<1>1. call \in [Callers -> Call] /\ call[d] \in Call /\ pc \in [Callers -> Labels]
  BY DEF TypeOK, CallersTyped
<1>2. ASSUME NEW ok, EndRefresh(d, ok) PROVE call'[d].t0 = call[d].t0 /\ call'[d].op = call[d].op
  <2>1. call'[d] = [NoCall EXCEPT !.op = call[d].op, !.t0 = call[d].t0,
                                  !.tok = call[d].tok, !.ok = ok]
    BY <1>1, <1>2 DEF EndRefresh
  <2>2. QED
    BY <2>1 DEF NoCall
<1>3. CASE RefreshBegin(d)
  <2>1. call'[d] = [call[d] EXCEPT !.rs = entry, !.rk = mapKey]
    BY <1>1, <1>3 DEF RefreshBegin
  <2>2. QED
    BY <1>1, <2>1 DEF Call
<1>4. CASE CachedEndpoint(d) \/ Discover(d) \/ DiscoveryFails(d) \/ Exchange(d)
  BY <1>1, <1>4 DEF CachedEndpoint, Discover, DiscoveryFails, DiscoverAs, Exchange, Call
<1>5. CASE Install(d) \/ Persist(d)
  BY <1>1, <1>5 DEF Install, Persist, Call
<1>6. CASE AfterRefresh(d)
  BY <1>1, <1>6 DEF AfterRefresh, Call
<1>7. CASE Return(d)
  BY <1>1, <1>7 DEF Return, Goto
<1>8. QED
  BY <1>2, <1>3, <1>4, <1>5, <1>6, <1>7
     DEF RefreshLocked, RefreshAlreadyDone, RefreshImpossible, RefreshStep, ReplyLost, Rejected,
         PostFails, WriteFile, WriteFileFails, SkipFile

\* What a call begins with.
LEMMA CallBegins ==
  ASSUME TypeOK, NEW d \in Callers,
         \/ d = Ticker /\ ProactiveTick
         \/ d \in Requests /\ (GetAccessToken(d) \/ ForceRefresh(d))
  PROVE  \/ pc'[d] = pc[d] /\ call'[d] = call[d]
         \/ pc[d] = "idle" /\ pc'[d] \in {"lock", "done"} /\ call'[d].t0 \in {0, now}
<1>1. call \in [Callers -> Call] /\ pc \in [Callers -> Labels]
  BY DEF TypeOK, CallersTyped
<1>2. CASE ProactiveTick /\ d = Ticker
  <2>1. [NoCall EXCEPT !.op = "tick", !.t0 = now].t0 = now
    BY DEF NoCall
  <2>2. QED
    BY <1>1, <1>2, <2>1 DEF ProactiveTick, Begin, Goto, vars, callers
<1>3. CASE GetAccessToken(d)
  <2>1. \A ok : [NoCall EXCEPT !.op = "get", !.t0 = now, !.tok = entry, !.ok = ok].t0 = now
    BY DEF NoCall
  <2>2. QED
    BY <1>1, <1>3, <2>1 DEF GetAccessToken, Begin, Goto
<1>4. CASE ForceRefresh(d)
  <2>1. [NoCall EXCEPT !.op = "force"].t0 = 0
    BY DEF NoCall
  <2>2. QED
    BY <1>1, <1>4, <2>1 DEF ForceRefresh, Begin, Goto
<1>5. QED
  BY <1>2, <1>3, <1>4

\* How a refresh gets as far as that.
LEMMA RenewedStep ==
  ASSUME TypeOK, [Next]_vars, NEW d \in Callers, Renewed(d)'
  PROVE  \/ Renewed(d) /\ pc'[d] = pc[d] /\ call'[d] = call[d]
         \/ Install(d)
         \/ RefreshAlreadyDone(d) /\ call'[d].op = call[d].op /\ call'[d].t0 = call[d].t0
         \/ /\ Renewed(d) /\ UNCHANGED entry
            /\ call'[d].op = call[d].op /\ call'[d].t0 = call[d].t0
<1>1. call \in [Callers -> Call] /\ pc \in [Callers -> Labels]
  BY DEF TypeOK, CallersTyped
<1>2. pc'[d] = pc[d] /\ call'[d] = call[d] => Renewed(d)
  BY DEF Renewed
<1>3. ~Crash
  BY DEF Crash, Renewed
<1>4. CASE OwnStep(d)
  <2>1. pc'[d] \in {"persist", "write", "refreshed"}
    BY DEF Renewed
  <2>2. CASE RefreshLocked(d)
    <3>1. call'[d].op = call[d].op /\ call'[d].t0 = call[d].t0
      BY <2>1, <2>2, CallKeeps
    <3>2. ~RefreshBegin(d)
      BY <1>1, <2>1 DEF RefreshBegin, Goto
    <3>3. ~RefreshImpossible(d)
      <4>1. ASSUME EndRefresh(d, FALSE) PROVE FALSE
        <5>1. call'[d] = [NoCall EXCEPT !.op = call[d].op, !.t0 = call[d].t0,
                                        !.tok = call[d].tok, !.ok = FALSE]
              /\ pc'[d] = "refreshed"
          BY <1>1, <4>1 DEF EndRefresh, Goto
        <5>2. call'[d].ok = FALSE
          BY <5>1 DEF NoCall
        <5>3. QED
          BY <5>1, <5>2 DEF Renewed
      <4>2. QED
        BY <4>1 DEF RefreshImpossible
    <3>4. QED
      BY <2>2, <3>1, <3>2, <3>3 DEF RefreshLocked
  <2>3. CASE RefreshStep(d)
    <3>1. call'[d].op = call[d].op /\ call'[d].t0 = call[d].t0
      BY <2>1, <2>3, CallKeeps
    <3>2. ASSUME EndRefresh(d, FALSE) PROVE FALSE
      <4>1. call'[d] = [NoCall EXCEPT !.op = call[d].op, !.t0 = call[d].t0,
                                      !.tok = call[d].tok, !.ok = FALSE]
            /\ pc'[d] = "refreshed"
        BY <1>1, <3>2 DEF EndRefresh, Goto
      <4>2. call'[d].ok = FALSE
        BY <4>1 DEF NoCall
      <4>3. QED
        BY <4>1, <4>2 DEF Renewed
    <3>3. ~(CachedEndpoint(d) \/ Discover(d) \/ DiscoveryFails(d) \/ Exchange(d)
             \/ ReplyLost(d) \/ Rejected(d) \/ PostFails(d) \/ AfterRefresh(d) \/ Return(d))
      BY <1>1, <2>1, <3>2 DEF CachedEndpoint, Discover, DiscoveryFails, DiscoverAs, Exchange,
         ReplyLost, Rejected, PostFails, AfterRefresh, Return, Goto
    <3>4. CASE Persist(d) \/ WriteFile(d) \/ WriteFileFails(d) \/ SkipFile(d)
      <4>1. UNCHANGED entry /\ pc[d] \in {"persist", "write"}
        BY <3>4 DEF Persist, WriteFile, WriteFileFails, SkipFile, memory
      <4>2. QED
        BY <3>1, <4>1 DEF Renewed
    <3>5. QED
      BY <2>3, <3>3, <3>4 DEF RefreshStep
  <2>4. CASE \/ d = Ticker /\ ProactiveTick
             \/ d \in Requests /\ (GetAccessToken(d) \/ ForceRefresh(d))
    BY <1>2, <2>1, <2>4, CallBegins
  <2>5. QED
    BY <1>4, <2>2, <2>3, <2>4 DEF OwnStep
<1>5. QED
  BY <1>2, <1>3, <1>4, CallStepCases

\* The entry a call got is not replaced by one that expired before the call.
LEMMA EntryOutlives ==
  ASSUME TypeOK, Calling, UnexpiredInv, [Next]_vars, \A r \in Reloaders : ~ReloadInstalls(r),
         NEW d \in Callers, pc[d] # "idle", pc'[d] # "idle", Outlives(entry, call[d].t0)
  PROVE  Outlives(entry', call[d].t0)
<1>1. mode = "up" /\ ~Crash
  BY DEF Calling, Crash
<1>2. ASSUME NEW c \in Callers, Install(c) PROVE entry'.exp > call[d].t0
  <2>1. /\ entry'.exp = now + call[c].reply.life /\ call[c].reply.life # 0
        /\ call[c].reply.life \in Nat
    BY <1>2 DEF Install, NewEntry, UnexpiredInv, TypeOK, CallersTyped, Reply
  <2>2. call[d].t0 \in Nat /\ now \in Nat /\ call[d].t0 <= now
    BY CallFields DEF UnexpiredInv, Call, TypeOK, WorldTyped
  <2>3. QED
    BY <2>1, <2>2
<1>3. QED
  BY <1>1, <1>2, EntryStep DEF Outlives

\* The lifetimes the provider grants are not empty.
LEMMA LifetimeStep ==
  ASSUME TypeOK, UnexpiredInv, [Next]_vars, NEW d \in Callers, pc'[d] = "install"
  PROVE  call'[d].reply.life # 0
<1>1. CASE pc[d] = "install" /\ call'[d].reply = call[d].reply
  BY <1>1 DEF UnexpiredInv
<1>2. CASE Exchange(d)
  <2>1. call \in [Callers -> Call] /\ call[d] \in Call
    BY DEF TypeOK, CallersTyped
  <2>2. PICK rotate \in Rotation, life \in Lifetimes :
          call'[d] = [call[d] EXCEPT !.reply =
                        [key |-> issued + 1, refresh |-> IF rotate THEN issued + 1 ELSE 0,
                         life |-> life]]
    BY <1>2, <2>1 DEF Exchange
  <2>3. call'[d].reply = [key |-> issued + 1, refresh |-> IF rotate THEN issued + 1 ELSE 0,
                          life |-> life]
    BY <2>1, <2>2 DEF Call
  <2>4. QED
    BY <2>2, <2>3, NumberAssumption
<1>3. QED
  BY <1>1, <1>2, ReplyStep

\* What a call would be answered had not expired when it began.
LEMMA UnexpiredStep ==
  ASSUME TypeOK, TypeOK', Calling, UnexpiredInv, [Next]_vars,
         \A r \in Reloaders : ~ReloadInstalls(r)
  PROVE  UnexpiredInv'
<1>t. now \in Nat /\ now' \in Nat /\ now <= now'
  BY TimeGoes
<1>1. ASSUME NEW d \in Callers PROVE call'[d].t0 <= now'
  <2>1. call[d].t0 <= now /\ call[d].t0 \in Nat
    BY CallFields DEF UnexpiredInv, Call
  <2>2. CASE call'[d].t0 \in {call[d].t0, 0, now}
    BY <1>t, <2>1, <2>2
  <2>3. NoCall.t0 = 0
    BY DEF NoCall
  <2>4. Crash => call'[d] = NoCall
    BY DEF Crash
  <2>5. QED
    BY <2>2, <2>3, <2>4, CallStepCases, CallBegins, CallKeeps DEF OwnStep
<1>2. ASSUME NEW d \in Requests, Renewed(d)', call'[d].op = "get"
      PROVE  Outlives(entry', call'[d].t0)
  <2>t. /\ d \in Callers /\ pc'[d] # "idle" /\ call[d].t0 \in Nat /\ call[d].t0 <= now
        /\ call[d] \in Call /\ call \in [Callers -> Call]
    BY <1>2, CallFields DEF Callers, Renewed, Call, UnexpiredInv, TypeOK, CallersTyped
  <2>1. CASE Renewed(d) /\ call'[d].op = call[d].op /\ call'[d].t0 = call[d].t0
    <3>1. Outlives(entry, call[d].t0) /\ pc[d] # "idle"
      BY <1>2, <2>1 DEF UnexpiredInv, Renewed
    <3>2. QED
      BY <2>1, <2>t, <3>1, EntryOutlives
  <2>2. CASE Install(d)
    <3>1. /\ entry'.exp = now + call[d].reply.life /\ call[d].reply.life # 0
          /\ call[d].reply.life \in Nat
      BY <2>t, <2>2 DEF Install, NewEntry, UnexpiredInv, TypeOK, CallersTyped, Reply
    <3>2. call'[d].t0 = call[d].t0
      BY <2>t, <2>2 DEF Install, Call
    <3>3. QED
      BY <1>t, <2>t, <3>1, <3>2 DEF Outlives
  <2>3. CASE RefreshAlreadyDone(d) /\ call'[d].op = call[d].op /\ call'[d].t0 = call[d].t0
    <3>1. FreshEnough(entry) /\ UNCHANGED entry /\ entry.exp \in Nat
      BY <1>2, <2>3 DEF RefreshAlreadyDone, MustExchange, memory, TypeOK, ManagerTyped, Entry
    <3>2. QED
      BY <1>t, <2>t, <2>3, <3>1, NumberAssumption DEF FreshEnough, Outlives
  <2>4. QED
    BY <1>2, <2>t, <2>1, <2>2, <2>3, RenewedStep
<1>3. ASSUME NEW d \in Requests, pc'[d] = "done", call'[d].op = "get", call'[d].ok
      PROVE  Outlives(call'[d].tok, call'[d].t0)
  <2>t. /\ d \in Callers /\ call[d].t0 \in Nat /\ call[d].t0 <= now /\ call[d].tok.exp \in Nat
        /\ entry.exp \in Nat
    BY CallFields DEF Callers, Call, UnexpiredInv, Entry, TypeOK, ManagerTyped
  <2>1. CASE pc[d] = "done" /\ call'[d] = call[d]
    BY <1>3, <2>1 DEF UnexpiredInv, ReturnsUnexpiredToken, Outlives
  <2>2. CASE GetAccessToken(d)
    BY <1>3, <1>t, <2>t, <2>2, AnsweredAtOnce, NumberAssumption DEF NeedsRefresh, Outlives
  <2>3. CASE AfterRefresh(d)
    <3>1. pc[d] = "refreshed" /\ call[d].op = "get"
      BY <2>3 DEF AfterRefresh
    <3>2. call[d].ok => Outlives(entry, call[d].t0)
      BY <3>1 DEF UnexpiredInv, Renewed
    <3>3. StillServes(call[d].tok) => Outlives(call[d].tok, call[d].t0)
      BY <1>t, <2>t DEF StillServes, Outlives
    <3>4. QED
      BY <1>3, <2>3, <3>2, <3>3, AnsweredLate
  <2>4. QED
    BY <1>3, <2>1, <2>2, <2>3, DoneStep
<1>4. QED
  BY <1>1, <1>2, <1>3, LifetimeStep DEF UnexpiredInv, ReturnsUnexpiredToken, Outlives

\* "GetAccessToken returns a valid access token": as long as no file is loaded
\* again, what it returns without an error had not expired when it was called,
\* however many refreshes, failures and crashes are in between.
THEOREM ReturnsUnexpired == Spec /\ NoReload => []ReturnsUnexpiredToken
<1>1. Init => UnexpiredInv
  <2> SUFFICES ASSUME Init PROVE UnexpiredInv
    OBVIOUS
  <2>1. \A c \in Callers : pc[c] = "idle" /\ call[c].t0 = 0 /\ now = 0
    BY DEF Init, NoCall
  <2>2. QED
    BY <2>1 DEF UnexpiredInv, ReturnsUnexpiredToken, Renewed, Callers
<1>2. TypeOK /\ TypeOK' /\ Calling /\ UnexpiredInv /\ [Next]_vars
        /\ [\A r \in Reloaders : ~ReloadInstalls(r)]_vars => UnexpiredInv'
  <2> SUFFICES ASSUME TypeOK, TypeOK', Calling, UnexpiredInv, [Next]_vars,
                      [\A r \in Reloaders : ~ReloadInstalls(r)]_vars
               PROVE  UnexpiredInv'
    OBVIOUS
  <2>1. CASE \A r \in Reloaders : ~ReloadInstalls(r)
    BY <2>1, UnexpiredStep
  <2>2. CASE UNCHANGED vars
    BY <2>2 DEF vars, callers, memory, UnexpiredInv, ReturnsUnexpiredToken, Renewed, Outlives
  <2>3. QED
    BY <2>1, <2>2
<1>3. UnexpiredInv => ReturnsUnexpiredToken
  BY DEF UnexpiredInv
<1>4. QED
  BY TypeCorrect, CallsRunInProcess, <1>1, <1>2, <1>3, PTL DEF Spec, NoReload

-----------------------------------------------------------------------------
(* Which refresh token is sent, and when.                                   *)

\* The refresh of d has its snapshot and no answer yet.
Asking(d) == pc[d] \in {"endpoint", "discover", "post"}

\* How a refresh gets as far as that.
LEMMA AskingStep ==
  ASSUME TypeOK, [Next]_vars, NEW d \in Callers, Asking(d)'
  PROVE  \/ pc'[d] = pc[d] /\ call'[d] = call[d]
         \/ RefreshBegin(d) /\ call'[d].op = call[d].op /\ call'[d].rs = entry
         \/ /\ Asking(d) /\ UNCHANGED <<entry, now, valid>>
            /\ call'[d].op = call[d].op /\ call'[d].rs = call[d].rs
<1>1. call \in [Callers -> Call] /\ call[d] \in Call /\ pc \in [Callers -> Labels]
  BY DEF TypeOK, CallersTyped
<1>2. ~Crash
  BY DEF Crash, Asking
<1>3. CASE OwnStep(d)
  <2>1. \A ok : ~EndRefresh(d, ok)
    BY <1>1 DEF EndRefresh, Goto, Asking
  <2>2. CASE RefreshLocked(d)
    <3>1. RefreshBegin(d)
      BY <2>1, <2>2 DEF RefreshLocked, RefreshAlreadyDone, RefreshImpossible
    <3>2. call'[d] = [call[d] EXCEPT !.rs = entry, !.rk = mapKey]
      BY <1>1, <3>1 DEF RefreshBegin
    <3>3. QED
      BY <1>1, <3>1, <3>2 DEF Call
  <2>3. CASE RefreshStep(d)
    <3>1. CachedEndpoint(d) \/ Discover(d) \/ DiscoveryFails(d)
      BY <1>1, <2>1, <2>3 DEF RefreshStep, Exchange, ReplyLost, Rejected, PostFails, Install,
         Persist, WriteFile, WriteFileFails, SkipFile, AfterRefresh, Return, Goto, Asking
    <3>2. PICK e : call'[d] = [call[d] EXCEPT !.ep = e]
      BY <1>1, <3>1 DEF CachedEndpoint, Discover, DiscoveryFails, DiscoverAs
    <3>3. call'[d].op = call[d].op /\ call'[d].rs = call[d].rs
      BY <1>1, <3>2 DEF Call
    <3>4. Asking(d) /\ UNCHANGED <<entry, now, valid>>
      BY <3>1 DEF CachedEndpoint, Discover, DiscoveryFails, DiscoverAs, Asking, provider, memory
    <3>5. QED
      BY <3>3, <3>4
  <2>4. CASE \/ d = Ticker /\ ProactiveTick
             \/ d \in Requests /\ (GetAccessToken(d) \/ ForceRefresh(d))
    BY <2>4, CallBegins DEF Asking
  <2>5. QED
    BY <1>3, <2>2, <2>3, <2>4 DEF OwnStep
<1>4. QED
  BY <1>2, <1>3, CallStepCases

\* While one refresh has its snapshot, nothing else gets into the manager, as
\* long as no file is loaded.
LEMMA EntryHeld ==
  ASSUME TypeOK, SingleFlight, Calling, [Next]_vars, \A r \in Reloaders : ~ReloadInstalls(r),
         NEW d \in Callers, Asking(d), Asking(d)'
  PROVE  UNCHANGED entry
<1>1. mode = "up" /\ refreshMu = d
  BY DEF Calling, SingleFlight, HoldsRefreshMu, Asking
<1>2. ~Crash
  BY DEF Crash, Asking
<1>3. \A c \in Callers : ~Install(c)
  BY <1>1 DEF Install, SingleFlight, HoldsRefreshMu, Asking
<1>4. QED
  BY <1>1, <1>2, <1>3, EntryStep

\* A refresh nobody forced is under way only while the entry is not fresh.
Needed == \A c \in Callers : Asking(c) /\ call[c].op # "force" => ~FreshEnough(entry)

\* It begins so, and neither time nor anyone else can change that.
LEMMA NeededStep ==
  ASSUME TypeOK, SingleFlight, Calling, Needed, [Next]_vars,
         \A r \in Reloaders : ~ReloadInstalls(r)
  PROVE  Needed'
<1> SUFFICES ASSUME NEW d \in Callers, Asking(d)', call'[d].op # "force"
             PROVE  ~FreshEnough(entry)'
  BY DEF Needed
<1>t. /\ now \in Nat /\ now' \in Nat /\ now <= now' /\ entry.exp \in Nat
      /\ Skew \in Nat
  BY TimeGoes, NumberAssumption DEF TypeOK, ManagerTyped, Entry
<1>1. CASE Asking(d) /\ call'[d].op = call[d].op
  <2>1. UNCHANGED entry /\ ~FreshEnough(entry)
    BY <1>1, EntryHeld DEF Needed
  <2>2. QED
    BY <1>t, <2>1 DEF FreshEnough
<1>2. CASE RefreshBegin(d) /\ call'[d].op = call[d].op
  BY <1>2 DEF RefreshBegin, MustExchange, FreshEnough, memory
<1>3. QED
  BY <1>1, <1>2, AskingStep DEF Asking

\* "Concurrent calls are deduplicated": as long as no file is loaded again, an
\* exchange that nobody forced is never made for an entry that is fresh, since
\* refresh looks again once it has refreshMu.
THEOREM ExchangesNeeded == Spec /\ NoReload => NoNeedlessExchange
<1>1. Init => Needed
  BY DEF Init, Needed, Asking
<1>2. TypeOK /\ SingleFlight /\ Calling /\ Needed /\ [Next]_vars
        /\ [\A r \in Reloaders : ~ReloadInstalls(r)]_vars => Needed'
  <2>1. ASSUME Needed, UNCHANGED vars PROVE Needed'
    BY <2>1 DEF vars, callers, memory, Needed, Asking, FreshEnough
  <2>2. QED
    BY <2>1, NeededStep
<1>3. Needed => [\A c \in Callers : pc[c] = "post" /\ pc'[c] = "install" /\ call[c].op # "force"
                                      => ~FreshEnough(entry)]_vars
  BY DEF Needed, Asking
<1>4. QED
  BY TypeCorrect, RefreshIsSingleFlight, CallsRunInProcess, <1>1, <1>2, <1>3, PTL
     DEF Spec, NoReload, NoNeedlessExchange

\* What may part the manager from the provider: an answer that is lost, a
\* process killed before it has saved, an older file loaded again.
Undisturbed ==
  /\ ~Crash
  /\ \A c \in Callers : ~ReplyLost(c)
  /\ \A r \in Reloaders : ~ReloadInstalls(r)

NothingLost == [][Undisturbed]_vars

\* The refresh token that Install will put in place.
TakesOver(l) == IF l.reply.refresh = 0 THEN l.rs.refresh ELSE l.reply.refresh

\* The provider would accept what the file to boot from holds, what the manager
\* holds unless its owner is about to replace it, and what a refresh works with.
LiveInv ==
  /\ mode = "down" => /\ db = None
                      /\ file \in FileMap => \A a \in Accounts :
                           file[a] # None => file[a].refresh \in valid \cup {0}
  /\ mode # "down" => \/ entry.refresh \in valid \cup {0}
                      \/ \E c \in Callers : pc[c] = "install"
  /\ \A c \in Callers : Asking(c) => call[c].rs.refresh \in valid
  /\ \A c \in Callers : pc[c] = "install" => TakesOver(call[c]) \in valid

\* Only the provider's answer to the owner of refreshMu retires a token.
LEMMA ValidStep ==
  ASSUME TypeOK, SingleFlight, [Next]_vars, Undisturbed
  PROVE  \/ valid \subseteq valid'
         \/ \E c \in Callers : Exchange(c)
<1>1. ASSUME NEW c \in Callers, RefreshStep(c), ~Exchange(c) PROVE valid' = valid
  BY <1>1 DEF RefreshStep, CachedEndpoint, Discover, DiscoveryFails, DiscoverAs, Rejected,
     PostFails, Install, Persist, WriteFile, WriteFileFails, SkipFile, AfterRefresh, Return,
     provider, Undisturbed
<1>2. QED
  BY <1>1 DEF provider, Next, Boot, BootFromDB, BootFromFile, SeedStore, StartWatch, Crash,
     ProactiveTick, Begin, Tick, GetAccessToken, ForceRefresh, RefreshLocked,
     RefreshAlreadyDone, RefreshImpossible, RefreshBegin, ExternalEdit, WatchEvent,
     UnflagTimer, AdminReload, ReloadStep, DebounceFires, ReloadInstalls, ReloadRefused, vars

\* A call is about to install what Exchange gave it, until it installs it.
LEMMA InstallingStep ==
  ASSUME TypeOK, [Next]_vars, NEW d \in Callers, pc[d] = "install" \/ pc'[d] = "install"
  PROVE  \/ pc[d] = "install" /\ pc'[d] = pc[d] /\ call'[d] = call[d]
         \/ Exchange(d)
         \/ Install(d)
         \/ Crash
<1>1. pc \in [Callers -> Labels]
  BY DEF TypeOK, CallersTyped
<1>2. CASE OwnStep(d)
  <2>1. CASE RefreshLocked(d)
    BY <1>1, <2>1 DEF RefreshLocked, RefreshAlreadyDone, RefreshImpossible, RefreshBegin, Locks,
       EndRefresh, Goto
  <2>2. CASE RefreshStep(d)
    BY <1>1, <2>2 DEF RefreshStep, CachedEndpoint, Discover, DiscoveryFails, DiscoverAs,
       ReplyLost, Grant, Rejected, PostFails, Persist, WriteFile, WriteFileFails, SkipFile,
       AfterRefresh, Return, EndRefresh, Goto
  <2>3. CASE \/ d = Ticker /\ ProactiveTick
             \/ d \in Requests /\ (GetAccessToken(d) \/ ForceRefresh(d))
    BY <2>3, CallBegins
  <2>4. QED
    BY <1>2, <2>1, <2>2, <2>3 DEF OwnStep
<1>3. QED
  BY <1>2, CallStepCases

\* Before the first boot, only a login changes the file, and nothing the store.
LEMMA DownStep ==
  ASSUME Calling, [Next]_vars, mode = "down", mode' = "down"
  PROVE  UNCHANGED db /\ (UNCHANGED <<file, valid>> \/ ExternalEdit)
<1>1. ASSUME NEW c \in Callers, RefreshStep(c) PROVE pc[c] # "idle"
  BY <1>1 DEF RefreshStep, CachedEndpoint, Discover, DiscoveryFails, DiscoverAs, Exchange,
     ReplyLost, Grant, Rejected, PostFails, Install, Persist, WriteFile, WriteFileFails,
     SkipFile, AfterRefresh, Return
<1>2. ASSUME NEW c \in Callers, RefreshLocked(c) PROVE pc[c] # "idle"
  BY <1>2 DEF RefreshLocked, RefreshAlreadyDone, RefreshImpossible, RefreshBegin, Locks
<1>3. QED
  BY <1>1, <1>2 DEF Calling, provider, disk, Next, Boot, BootFromDB, BootFromFile, SeedStore,
     StartWatch, Crash, ProactiveTick, Begin, Tick, GetAccessToken, ForceRefresh, ExternalEdit,
     WatchEvent, UnflagTimer, AdminReload, ReloadStep, DebounceFires, ReloadInstalls,
     ReloadRefused, vars

\* A login keeps live what was live in the file.
LEMMA LoginLive ==
  ASSUME TypeOK, ExternalEdit, NEW a \in Accounts, file' \in FileMap, file'[a] # None,
         file \in FileMap /\ file[a] # None => file[a].refresh \in valid \cup {0}
  PROVE  file'[a].refresh \in valid' \cup {0}
<1>1. file' # Malformed
  BY BootstrapAssumption
<1>2. PICK b \in Accounts, i \in Issuers \cup {None}, life \in Lifetimes :
        /\ valid' = valid \cup {issued + 1}
        /\ file' = [IF file = Malformed THEN NoMap ELSE file EXCEPT
                     ![b] = [key |-> issued + 1, refresh |-> issued + 1,
                             exp |-> now + life, iss |-> i]]
  BY <1>1 DEF ExternalEdit
<1>3. PICK m \in FileMap : m = IF file = Malformed THEN NoMap ELSE file
  BY EmptyTyped DEF TypeOK, WorldTyped
<1>4. m[a] # None => m[a].refresh \in valid \cup {0}
  BY <1>3 DEF NoMap
<1>5. PICK e : /\ e.refresh = issued + 1 /\ file' = [m EXCEPT ![b] = e]
  BY <1>2, <1>3
<1>6. file'[a] = IF a = b THEN e ELSE m[a]
  BY <1>5 DEF FileMap
<1>7. QED
  BY <1>2, <1>4, <1>5, <1>6

\* What Exchange gives its call to take over is live.
LEMMA ExchangeLive ==
  ASSUME TypeOK, NEW d \in Callers, Exchange(d), call[d].rs.refresh \in valid
  PROVE  TakesOver(call'[d]) \in valid' /\ pc'[d] = "install"
<1>1. /\ call \in [Callers -> Call] /\ call[d] \in Call /\ pc \in [Callers -> Labels]
      /\ issued \in Nat
  BY DEF TypeOK, CallersTyped, WorldTyped
<1>2. PICK rotate \in Rotation, life \in Lifetimes :
        /\ Grant(d, rotate) /\ pc' = [pc EXCEPT ![d] = "install"]
        /\ call'[d] = [call[d] EXCEPT !.reply =
                        [key |-> issued + 1, refresh |-> IF rotate THEN issued + 1 ELSE 0,
                         life |-> life]]
  BY <1>1 DEF Exchange, Goto
<1>3. /\ call'[d].reply.refresh = (IF rotate THEN issued + 1 ELSE 0)
      /\ call'[d].rs = call[d].rs
  BY <1>1, <1>2 DEF Call
<1>4. issued + 1 # 0
  BY <1>1
<1>5. QED
  BY <1>1, <1>2, <1>3, <1>4 DEF Grant, TakesOver

\* The boot takes the entry of a live file; a refresh sends the entry's token,
\* and the owner of refreshMu takes over what it was given for it.
LEMMA LiveStep ==
  ASSUME TypeOK, TypeOK', SingleFlight, SingleFlight', Calling, Calling', LiveInv, [Next]_vars,
         Undisturbed
  PROVE  LiveInv'
<1>0. \A c \in Callers : Exchange(c) => pc[c] = "post" /\ mode = "up"
  BY DEF Exchange, Grant, Calling
<1>1. ASSUME mode' = "down" PROVE mode = "down"
  <2>1. ASSUME NEW c \in Callers, RefreshStep(c) \/ RefreshLocked(c) PROVE mode' = mode
    BY <2>1 DEF RefreshStep, CachedEndpoint, Discover, DiscoveryFails, DiscoverAs, Exchange,
       ReplyLost, Rejected, PostFails, Install, Persist, WriteFile, WriteFileFails, SkipFile,
       AfterRefresh, Return, RefreshLocked, RefreshAlreadyDone, RefreshImpossible, RefreshBegin
  <2>2. QED
    BY <1>1, <2>1 DEF Undisturbed, Next, Boot, BootFromDB, BootFromFile, SeedStore, StartWatch,
       ProactiveTick, Begin, Tick, GetAccessToken, ForceRefresh, ExternalEdit, WatchEvent,
       UnflagTimer, AdminReload, ReloadStep, DebounceFires, ReloadInstalls, ReloadRefused, vars
<1>2. ASSUME mode' = "down"
      PROVE  /\ db' = None
             /\ \A a \in Accounts : file' \in FileMap /\ file'[a] # None
                                      => file'[a].refresh \in valid' \cup {0}
  BY <1>1, <1>2, DownStep, LoginLive DEF LiveInv
<1>3. ASSUME mode' # "down"
      PROVE  entry'.refresh \in valid' \cup {0} \/ \E c \in Callers : pc'[c] = "install"
  <2>1. ASSUME NEW c \in Callers, Install(c) PROVE entry'.refresh \in valid'
    <3>1. entry'.refresh = TakesOver(call[c]) /\ valid' = valid /\ pc[c] = "install"
      BY <2>1 DEF Install, NewEntry, TakesOver, provider
    <3>2. QED
      BY <3>1 DEF LiveInv
  <2>2. ASSUME mode = "down", NEW f \in {file, db}, NEW a \in Loads(f), Load(f, a)
        PROVE  entry'.refresh \in valid' \cup {0}
    <3>1. f = file /\ f \in FileMap /\ a \in Accounts /\ f[a] # None
      BY <2>2, ChoiceAssumption DEF LiveInv, Loads, Candidates, TypeOK, WorldTyped
    <3>2. entry'.refresh \in valid \cup {0}
      BY <2>2, <3>1 DEF LiveInv, Load
    <3>3. valid \subseteq valid'
      BY <1>0, <2>2, ValidStep
    <3>4. QED
      BY <3>2, <3>3
  <2>3. CASE UNCHANGED entry /\ mode # "down"
    <3>1. CASE \E c \in Callers : pc[c] = "install"
      BY <2>1, <3>1, InstallingStep, ExchangeLive, <1>0 DEF Undisturbed
    <3>2. CASE entry.refresh \in valid \cup {0}
      <4>1. ASSUME NEW c \in Callers, Exchange(c) PROVE pc'[c] = "install"
        BY <4>1 DEF Exchange, Goto, TypeOK, CallersTyped
      <4>2. QED
        BY <2>3, <3>2, <4>1, ValidStep
    <3>3. QED
      BY <2>3, <3>1, <3>2 DEF LiveInv
  <2>4. QED
    BY <1>3, <2>1, <2>2, <2>3, EntryStep DEF Undisturbed
<1>4. ASSUME NEW d \in Callers, Asking(d)' PROVE call'[d].rs.refresh \in valid'
  <2>1. ASSUME NEW c \in Callers, Exchange(c), Asking(d) PROVE FALSE
    <3>1. refreshMu = c /\ refreshMu = d
      BY <1>0, <2>1 DEF SingleFlight, HoldsRefreshMu, Asking
    <3>2. pc'[c] = "install"
      BY <2>1 DEF Exchange, Goto, TypeOK, CallersTyped
    <3>3. QED
      BY <1>4, <3>1, <3>2 DEF Asking
  <2>2. CASE Asking(d) /\ call'[d].rs = call[d].rs
    BY <2>1, <2>2, ValidStep DEF LiveInv
  <2>3. CASE RefreshBegin(d) /\ call'[d].rs = entry
    <3>1. /\ refreshMu = None /\ entry.refresh # 0 /\ mode = "up" /\ valid' = valid
      BY <2>3 DEF RefreshBegin, Locks, Calling, provider
    <3>2. \A c \in Callers : pc[c] # "install"
      BY <3>1, IdAssumption DEF SingleFlight, HoldsRefreshMu
    <3>3. QED
      BY <2>3, <3>1, <3>2 DEF LiveInv
  <2>4. QED
    BY <1>4, <2>2, <2>3, AskingStep DEF Asking
<1>5. ASSUME NEW d \in Callers, pc'[d] = "install" PROVE TakesOver(call'[d]) \in valid'
  <2>1. CASE Exchange(d)
    BY <1>0, <2>1, ExchangeLive DEF LiveInv, Asking
  <2>2. CASE pc[d] = "install" /\ call'[d] = call[d]
    <3>1. TakesOver(call'[d]) \in valid
      BY <2>2 DEF LiveInv
    <3>2. \A c \in Callers : ~Exchange(c)
      BY <1>0, <2>2 DEF SingleFlight, HoldsRefreshMu
    <3>3. QED
      BY <3>1, <3>2, ValidStep
  <2>3. ~Install(d)
    BY <1>5 DEF Install, Goto, TypeOK, CallersTyped
  <2>4. QED
    BY <1>5, <2>1, <2>2, <2>3, InstallingStep DEF Undisturbed
<1>6. QED
  BY <1>2, <1>3, <1>4, <1>5 DEF LiveInv

\* refreshMu's comment: as long as no answer is lost, the process is not killed
\* and no file is loaded again, no caller ever sends a refresh token that an
\* earlier exchange has consumed.
THEOREM PostsLive == Spec /\ NothingLost => []PostsLiveToken
<1>1. Init => LiveInv
  <2> SUFFICES ASSUME Init PROVE LiveInv
    OBVIOUS
  <2>1. ASSUME NEW a \in Accounts, file[a] # None PROVE file[a].refresh \in valid \cup {0}
    <3>1. file[a].refresh <= FirstGrants /\ file[a].refresh \in Nat /\ FirstGrants \in Nat
      BY <2>1, GrantAssumption, BootstrapAssumption, NumberAssumption DEF Init, FileMap, Entry
    <3>2. QED
      BY <3>1 DEF Init
  <2>2. QED
    BY <2>1 DEF Init, LiveInv, Asking
<1>2. TypeOK /\ TypeOK' /\ SingleFlight /\ SingleFlight' /\ Calling /\ Calling' /\ LiveInv
        /\ [Next]_vars /\ [Undisturbed]_vars => LiveInv'
  <2>1. ASSUME LiveInv, UNCHANGED vars PROVE LiveInv'
    BY <2>1 DEF vars, provider, disk, callers, memory, LiveInv, Asking, TakesOver
  <2>2. QED
    BY <2>1, LiveStep
<1>3. LiveInv => PostsLiveToken
  BY DEF LiveInv, PostsLiveToken, Asking
<1>4. QED
  BY TypeCorrect, RefreshIsSingleFlight, CallsRunInProcess, <1>1, <1>2, <1>3, PTL
     DEF Spec, NothingLost

-----------------------------------------------------------------------------
(* The account served.                                                      *)

Selected(a) == a \in Accounts /\ (Filter # {} => a \in Filter)

\* The account in memory and the one a refresh works for pass the filter; with
\* one account that does, the map holds the entry served.
PinnedInv ==
  /\ mode # "down" => Selected(mapKey)
  /\ \A c \in Callers : HoldsRefreshMu(c) => Selected(call[c].rk)
  /\ PinnedEntryIsInMap

\* loadBytes selects an account that passes the filter.
LEMMA LoadSelects ==
  ASSUME NEW f, NEW a \in Loads(f)
  PROVE  Selected(a)
BY ChoiceAssumption DEF Loads, Candidates, Selected

\* A refresh keeps its account from the snapshot to the write-back.
LEMMA HoldingStep ==
  ASSUME TypeOK, [Next]_vars, NEW d \in Callers, HoldsRefreshMu(d)'
  PROVE  \/ HoldsRefreshMu(d) /\ call'[d].rk = call[d].rk
         \/ RefreshBegin(d) /\ call'[d].rk = mapKey
<1>1. call \in [Callers -> Call] /\ call[d] \in Call /\ pc \in [Callers -> Labels]
  BY DEF TypeOK, CallersTyped
<1>2. ~Crash
  BY DEF Crash, HoldsRefreshMu
<1>3. CASE OwnStep(d)
  <2>1. \A ok : ~EndRefresh(d, ok)
    BY <1>1 DEF EndRefresh, Goto, HoldsRefreshMu
  <2>2. CASE RefreshLocked(d)
    <3>1. RefreshBegin(d)
      BY <2>1, <2>2 DEF RefreshLocked, RefreshAlreadyDone, RefreshImpossible
    <3>2. call'[d] = [call[d] EXCEPT !.rs = entry, !.rk = mapKey]
      BY <1>1, <3>1 DEF RefreshBegin
    <3>3. QED
      BY <1>1, <3>1, <3>2 DEF Call
  <2>3. CASE RefreshStep(d)
    <3>1. CASE CachedEndpoint(d) \/ Discover(d) \/ DiscoveryFails(d) \/ Exchange(d)
      <4>1. HoldsRefreshMu(d)
        BY <3>1 DEF CachedEndpoint, Discover, DiscoveryFails, DiscoverAs, Exchange, Grant,
           HoldsRefreshMu
      <4>2. call'[d].rk = call[d].rk
        BY <1>1, <3>1 DEF CachedEndpoint, Discover, DiscoveryFails, DiscoverAs, Exchange, Call
      <4>3. QED
        BY <4>1, <4>2
    <3>2. CASE Install(d) \/ Persist(d)
      BY <1>1, <3>2 DEF Install, Persist, HoldsRefreshMu, Call
    <3>3. QED
      BY <1>1, <2>1, <2>3, <3>1, <3>2 DEF RefreshStep, ReplyLost, Rejected, PostFails,
         WriteFile, WriteFileFails, SkipFile, AfterRefresh, Return, Goto, HoldsRefreshMu
  <2>4. CASE \/ d = Ticker /\ ProactiveTick
             \/ d \in Requests /\ (GetAccessToken(d) \/ ForceRefresh(d))
    BY <2>4, CallBegins DEF HoldsRefreshMu
  <2>5. QED
    BY <1>3, <2>2, <2>3, <2>4 DEF OwnStep
<1>4. QED
  BY <1>2, <1>3, CallStepCases DEF HoldsRefreshMu

\* Boots and reloads change memory as a whole, Install only entry and map.
LEMMA MemoryStep ==
  ASSUME [Next]_vars
  PROVE  \/ UNCHANGED <<entry, mapKey, fileData>> /\ (mode = "down" => mode' = "down")
         \/ \E f : \E a \in Loads(f) : Load(f, a)
         \/ Crash
         \/ \E c \in Callers : Install(c)
<1> USE DEF memory
<1>1. ASSUME NEW c \in Callers, RefreshStep(c), ~Install(c)
      PROVE  UNCHANGED <<entry, mapKey, fileData, mode>>
  BY <1>1 DEF RefreshStep, CachedEndpoint, Discover, DiscoveryFails, DiscoverAs, Exchange,
     ReplyLost, Rejected, PostFails, Persist, WriteFile, WriteFileFails, SkipFile,
     AfterRefresh, Return
<1>2. ASSUME NEW c \in Callers, RefreshLocked(c) PROVE UNCHANGED <<entry, mapKey, fileData, mode>>
  BY <1>2 DEF RefreshLocked, RefreshAlreadyDone, RefreshImpossible, RefreshBegin
<1>3. CASE Boot
  BY <1>3 DEF Boot, BootFromDB, BootFromFile, SeedStore, StartWatch
<1>4. ASSUME NEW r \in Reloaders, ReloadInstalls(r) PROVE \E f : \E a \in Loads(f) : Load(f, a)
  BY <1>4 DEF ReloadInstalls
<1>5. QED
  BY <1>1, <1>2, <1>3, <1>4
     DEF Next, ProactiveTick, Begin, Tick, GetAccessToken, ForceRefresh, ExternalEdit,
         WatchEvent, UnflagTimer, AdminReload, ReloadStep, DebounceFires, ReloadRefused, vars

\* Whatever refreshes and reloads overlap: with one account configured, Install
\* files the new entry under the account that is served.
LEMMA PinnedStep ==
  ASSUME TypeOK, Calling, PinnedInv, [Next]_vars
  PROVE  PinnedInv'
<1>1. ASSUME NEW d \in Callers, HoldsRefreshMu(d)' PROVE Selected(call'[d].rk)
  <2>1. RefreshBegin(d) => Selected(mapKey)
    BY DEF RefreshBegin, Locks, Calling, PinnedInv
  <2>2. QED
    BY <1>1, <2>1, HoldingStep DEF PinnedInv
<1>2. ASSUME mode' # "down" PROVE Selected(mapKey')
  <2>1. ASSUME NEW f, NEW a \in Loads(f), Load(f, a) PROVE Selected(mapKey')
    BY <2>1, LoadSelects DEF Load
  <2>2. ASSUME NEW c \in Callers, Install(c) PROVE mapKey' = mapKey /\ mode # "down"
    BY <2>2 DEF Install, Calling
  <2>3. QED
    BY <1>2, <2>1, <2>2, MemoryStep DEF PinnedInv, Crash
<1>3. ASSUME mode' # "down", Filter = {mapKey'} PROVE entry' = fileData'[mapKey']
  <2>1. ASSUME NEW f, NEW a \in Loads(f), Load(f, a) PROVE entry' = fileData'[mapKey']
    BY <2>1 DEF Load
  <2>2. ASSUME NEW c \in Callers, Install(c) PROVE entry' = fileData'[mapKey']
    <3>1. Selected(call[c].rk) /\ mapKey' = mapKey
      BY <2>2 DEF Install, HoldsRefreshMu, PinnedInv
    <3>2. call[c].rk = mapKey' /\ mapKey' \in Accounts
      BY <1>3, <3>1 DEF Selected
    <3>3. fileData' = [fileData EXCEPT ![mapKey'] = entry'] /\ fileData \in FileMap
      BY <2>2, <3>2 DEF Install, TypeOK, ManagerTyped
    <3>4. QED
      BY <3>2, <3>3 DEF FileMap
  <2>3. QED
    BY <1>3, <2>1, <2>2, MemoryStep DEF PinnedInv, PinnedEntryIsInMap, Crash
<1>4. QED
  BY <1>1, <1>2, <1>3 DEF PinnedInv, PinnedEntryIsInMap

\* What is proved of the filter and the map, for the theorems that follow.
LEMMA SelectedAccounts == Spec => []PinnedInv
<1>1. Init => PinnedInv
  BY DEF Init, PinnedInv, PinnedEntryIsInMap, HoldsRefreshMu
<1>2. TypeOK /\ Calling /\ PinnedInv /\ [Next]_vars => PinnedInv'
  BY PinnedStep
<1>3. QED
  BY TypeCorrect, CallsRunInProcess, <1>1, <1>2, PTL DEF Spec

\* With one account configured, the entry served is the one the map holds for
\* it, whatever refreshes and reloads overlap: saving the map saves it.
THEOREM PinnedIsInMap == Spec => []PinnedEntryIsInMap
<1>1. PinnedInv => PinnedEntryIsInMap
  BY DEF PinnedInv
<1>2. QED
  BY SelectedAccounts, <1>1, PTL

-----------------------------------------------------------------------------
(* auth.json and auth_states.                                               *)

\* Who touches the two places where credentials are saved.
LEMMA DiskStep ==
  ASSUME [Next]_vars
  PROVE  \/ UNCHANGED <<file, db>>
         \/ BootFromDB \/ SeedStore \/ ExternalEdit
         \/ \E c \in Callers : Persist(c) \/ WriteFile(c)
<1> USE DEF disk
<1>1. ASSUME NEW c \in Callers, RefreshStep(c), ~Persist(c), ~WriteFile(c)
      PROVE  UNCHANGED <<file, db>>
  BY <1>1 DEF RefreshStep, CachedEndpoint, Discover, DiscoveryFails, DiscoverAs, Exchange,
     ReplyLost, Rejected, PostFails, Install, WriteFileFails, SkipFile, AfterRefresh, Return
<1>2. QED
  BY <1>1 DEF Next, Boot, BootFromFile, StartWatch, Crash, ProactiveTick, Begin, Tick,
     GetAccessToken, ForceRefresh, RefreshLocked, RefreshAlreadyDone, RefreshImpossible,
     RefreshBegin, WatchEvent, UnflagTimer, AdminReload, ReloadStep, DebounceFires,
     ReloadInstalls, ReloadRefused, vars

\* The process goes through its phases.
LEMMA ModeStep ==
  ASSUME [Next]_vars
  PROVE  UNCHANGED mode \/ Boot \/ Crash
<1>1. ASSUME NEW c \in Callers, RefreshStep(c) \/ RefreshLocked(c) PROVE mode' = mode
  BY <1>1 DEF RefreshStep, CachedEndpoint, Discover, DiscoveryFails, DiscoverAs, Exchange,
     ReplyLost, Rejected, PostFails, Install, Persist, WriteFile, WriteFileFails, SkipFile,
     AfterRefresh, Return, RefreshLocked, RefreshAlreadyDone, RefreshImpossible, RefreshBegin
<1>2. QED
  BY <1>1 DEF Next, ProactiveTick, Begin, Tick, GetAccessToken, ForceRefresh, ExternalEdit,
     WatchEvent, UnflagTimer, AdminReload, ReloadStep, DebounceFires, ReloadInstalls,
     ReloadRefused, vars

\* A fault and an edit of the file are remembered.
LEMMA BudgetStep ==
  ASSUME TypeOK, [Next]_vars
  PROVE  /\ faults' = 0 => faults = 0 /\ ~Crash /\ \A c \in Callers : ~WriteFileFails(c)
         /\ edits' = 0 => edits = 0 /\ ~ExternalEdit
<1>1. faults \in Nat /\ edits \in Nat /\ faults + 1 # 0 /\ edits + 1 # 0
  BY DEF TypeOK, WorldTyped
<1>2. /\ Crash => faults' = faults + 1
      /\ \A c \in Callers : WriteFileFails(c) => faults' = faults + 1
      /\ ExternalEdit => edits' = edits + 1
  BY DEF Crash, WriteFileFails, ExternalEdit, Fault
<1>3. UNCHANGED faults \/ faults' = faults + 1
  <2>1. ASSUME NEW c \in Callers, RefreshStep(c) PROVE UNCHANGED faults \/ faults' = faults + 1
    BY <2>1 DEF RefreshStep, CachedEndpoint, Discover, DiscoveryFails, DiscoverAs, Exchange,
       ReplyLost, Rejected, PostFails, Install, Persist, WriteFile, WriteFileFails, SkipFile,
       AfterRefresh, Return, Fault, budget
  <2>2. QED
    BY <2>1 DEF Next, Boot, BootFromDB, MaterializeBlob, BootFromFile, SeedStore, StartWatch,
       Crash, ProactiveTick, Begin, Tick, GetAccessToken, ForceRefresh, RefreshLocked,
       RefreshAlreadyDone, RefreshImpossible, RefreshBegin, ExternalEdit, WatchEvent,
       UnflagTimer, AdminReload, ReloadStep, DebounceFires, ReloadInstalls, ReloadRefused,
       vars, Fault, budget
<1>4. UNCHANGED edits \/ edits' = edits + 1
  <2>1. ASSUME NEW c \in Callers, RefreshStep(c) PROVE UNCHANGED edits
    BY <2>1 DEF RefreshStep, CachedEndpoint, Discover, DiscoveryFails, DiscoverAs, Exchange,
       ReplyLost, Rejected, PostFails, Install, Persist, WriteFile, WriteFileFails, SkipFile,
       AfterRefresh, Return, budget
  <2>2. QED
    BY <2>1 DEF Next, Boot, BootFromDB, BootFromFile, SeedStore, StartWatch,
       Crash, ProactiveTick, Begin, Tick, GetAccessToken, ForceRefresh, RefreshLocked,
       RefreshAlreadyDone, RefreshImpossible, RefreshBegin, ExternalEdit, WatchEvent,
       UnflagTimer, AdminReload, ReloadStep, DebounceFires, ReloadInstalls, ReloadRefused,
       vars, budget
<1>5. QED
  BY <1>1, <1>2, <1>3, <1>4

\* A refresh is between its two saves from Persist until it has written the file.
LEMMA WritingStep ==
  ASSUME TypeOK, [Next]_vars, NEW d \in Callers
  PROVE  /\ pc'[d] = "write" => /\ pc[d] = "write" \/ Persist(d)
                                /\ call'[d] = call[d]
         /\ pc[d] = "write" => \/ pc'[d] = "write"
                               \/ Crash \/ WriteFile(d) \/ WriteFileFails(d) \/ SkipFile(d)
<1>1. call \in [Callers -> Call] /\ pc \in [Callers -> Labels]
  BY DEF TypeOK, CallersTyped
<1>2. CASE pc'[d] = pc[d] /\ call'[d] = call[d]
  BY <1>2
<1>3. CASE Crash
  BY <1>3 DEF Crash
<1>4. CASE OwnStep(d)
  <2>1. CASE RefreshLocked(d)
    BY <1>1, <2>1 DEF RefreshLocked, RefreshAlreadyDone, RefreshImpossible, RefreshBegin, Locks,
       EndRefresh, Goto
  <2>2. CASE RefreshStep(d)
    BY <1>1, <2>2 DEF RefreshStep, CachedEndpoint, Discover, DiscoveryFails, DiscoverAs, Exchange,
       ReplyLost, Grant, Rejected, PostFails, Install, Persist, WriteFile, WriteFileFails,
       SkipFile, AfterRefresh, Return, EndRefresh, Goto
  <2>3. CASE \/ d = Ticker /\ ProactiveTick
             \/ d \in Requests /\ (GetAccessToken(d) \/ ForceRefresh(d))
    BY <2>3, CallBegins
  <2>4. QED
    BY <1>4, <2>1, <2>2, <2>3 DEF OwnStep
<1>5. QED
  BY <1>2, <1>3, <1>4, CallStepCases

\* Between its two saves a refresh has the store ahead of the file by its copy
\* of the map; the store is empty before the first boot, which then fills it.
SavedInv ==
  /\ faults = 0 => (mode = "down" => db = None) /\ mode # "watch"
  /\ edits = 0 => file # Malformed
  /\ FileWritable /\ faults = 0 /\ edits = 0 /\ mode = "up" =>
       /\ \A c \in Callers : pc[c] = "write" => db = call[c].fd
       /\ (\A c \in Callers : pc[c] # "write") => file = db

\* The store before the file, one refresh at a time.
LEMMA SavedStep ==
  ASSUME TypeOK, SingleFlight, Calling, SavedInv, [Next]_vars
  PROVE  SavedInv'
<1>f. Malformed \notin FileMap \cup {None} /\ file \in FileMap \cup {Malformed}
  BY BootstrapAssumption DEF TypeOK, WorldTyped
<1>1. ASSUME faults' = 0, mode' = "down" PROVE db' = None
  BY <1>1, BudgetStep, ModeStep, DownStep
     DEF SavedInv, Boot, BootFromDB, BootFromFile, SeedStore, StartWatch
<1>2. ASSUME faults' = 0 PROVE mode' # "watch"
  BY <1>2, BudgetStep, ModeStep
     DEF SavedInv, Boot, BootFromDB, BootFromFile, SeedStore, StartWatch
<1>3. ASSUME edits' = 0 PROVE file' # Malformed
  <2>1. file # Malformed /\ ~ExternalEdit
    BY <1>3, BudgetStep DEF SavedInv
  <2>2. BootFromDB => file' # Malformed
    BY <2>1 DEF BootFromDB, MaterializeBlob, Loads
  <2>3. \A c \in Callers : WriteFile(c) => file' \in FileMap
    BY CallFields DEF WriteFile
  <2>4. (SeedStore \/ \E c \in Callers : Persist(c)) => file' = file
    BY DEF SeedStore, Persist
  <2>5. QED
    BY <1>f, <2>1, <2>2, <2>3, <2>4, DiskStep
<1>4. ASSUME FileWritable, faults' = 0, edits' = 0, mode' = "up"
      PROVE  /\ \A c \in Callers : pc'[c] = "write" => db' = call'[c].fd
             /\ (\A c \in Callers : pc'[c] # "write") => file' = db'
  <2>0. faults = 0 /\ edits = 0 /\ ~Crash /\ ~ExternalEdit /\ \A c \in Callers : ~WriteFileFails(c)
    BY <1>4, BudgetStep
  <2>1. CASE mode # "up"
    <3>1. SeedStore
      BY <1>4, <2>0, <2>1, ModeStep
         DEF SavedInv, Boot, BootFromDB, BootFromFile, StartWatch
    <3>2. file' = file /\ db' = file
      <4>1. faults + 1 # 0
        BY <2>0
      <4>2. QED
        BY <1>4, <2>0, <3>1, <4>1 DEF SeedStore, Fault, SavedInv
    <3>3. \A c \in Callers : pc'[c] = "idle"
      BY <2>1, <3>1 DEF SeedStore, callers, Calling
    <3>4. QED
      BY <3>2, <3>3
  <2>2. CASE mode = "up"
    <3>1. ~BootFromDB /\ ~SeedStore
      BY <2>2 DEF BootFromDB, SeedStore
    <3>2. ASSUME NEW c \in Callers, NEW d \in Callers,
                 pc[c] \in {"persist", "write"}, pc[d] \in {"persist", "write"}
          PROVE  c = d
      BY <3>2 DEF SingleFlight, HoldsRefreshMu
    <3>3. ASSUME NEW c \in Callers, Persist(c)
          PROVE  db' = call[c].fd /\ pc[c] = "persist" /\ pc'[c] = "write"
      <4>1. faults + 1 # 0
        BY <2>0
      <4>2. QED
        BY <1>4, <2>0, <3>3, <4>1 DEF Persist, Fault, Goto, TypeOK, CallersTyped
    <3>4. ASSUME NEW c \in Callers, WriteFile(c)
          PROVE  file' = call[c].fd /\ db' = db /\ pc[c] = "write"
      BY <3>4 DEF WriteFile
    <3>5. ASSUME NEW d \in Callers, pc'[d] = "write" PROVE db' = call'[d].fd
      <4>1. CASE Persist(d)
        BY <3>3, <3>5, <4>1, WritingStep
      <4>2. CASE pc[d] = "write" /\ call'[d] = call[d]
        <5>1. db = call[d].fd
          BY <1>4, <2>0, <2>2, <4>2 DEF SavedInv
        <5>2. \A c \in Callers : ~Persist(c)
          BY <3>2, <3>3, <4>2
        <5>3. db' = db
          BY <2>0, <3>1, <3>4, <5>2, DiskStep
        <5>4. QED
          BY <4>2, <5>1, <5>3
      <4>3. QED
        BY <3>5, <4>1, <4>2, WritingStep
    <3>6. ASSUME \A c \in Callers : pc'[c] # "write" PROVE file' = db'
      <4>1. \A c \in Callers : ~Persist(c)
        BY <3>3, <3>6
      <4>2. CASE \A c \in Callers : pc[c] # "write"
        BY <1>4, <2>0, <2>2, <3>1, <3>4, <4>1, <4>2, DiskStep DEF SavedInv
      <4>3. ASSUME NEW d \in Callers, pc[d] = "write" PROVE file' = db'
        <5>1. db = call[d].fd
          BY <1>4, <2>0, <2>2, <4>3 DEF SavedInv
        <5>2. ~SkipFile(d)
          BY <1>4 DEF SkipFile
        <5>3. WriteFile(d)
          BY <2>0, <3>6, <4>3, <5>2, WritingStep
        <5>4. QED
          BY <3>4, <5>1, <5>3
      <4>4. QED
        BY <4>2, <4>3
    <3>7. QED
      BY <3>5, <3>6
  <2>3. QED
    BY <2>1, <2>2
<1>5. QED
  BY <1>1, <1>2, <1>3, <1>4 DEF SavedInv

\* Unless a save failed or someone else wrote the file, auth.json and the
\* auth_states row are the same whenever no refresh is under way.
THEOREM DiskAndStoreAgree == Spec => []SavesAgree
<1>1. Init => SavedInv
  <2>1. Init => file # Malformed
    BY BootstrapAssumption DEF Init
  <2>2. QED
    BY <2>1 DEF Init, SavedInv
<1>2. TypeOK /\ SingleFlight /\ Calling /\ SavedInv /\ [Next]_vars => SavedInv'
  BY SavedStep
<1>3. SingleFlight /\ SavedInv /\ TypeOK => SavesAgree
  BY IdAssumption DEF SavedInv, SavesAgree, SingleFlight, HoldsRefreshMu
<1>4. QED
  BY TypeCorrect, RefreshIsSingleFlight, CallsRunInProcess, <1>1, <1>2, <1>3, PTL DEF Spec

\* A bounded set of naturals has a greatest element.
LEMMA Greatest ==
  ASSUME NEW n \in Nat, NEW S \in SUBSET (0 .. n), S # {}
  PROVE  \E m \in S : \A k \in S : k <= m
<1> DEFINE T == {n - k : k \in S}
<1>0. \A k \in S : k \in Nat /\ n - k \in Nat
  OBVIOUS
<1>1. T \subseteq Nat /\ T # {}
  <2>1. T \subseteq Nat
    BY <1>0
  <2>2. \A k \in S : n - k \in T
    OBVIOUS
  <2>3. QED
    BY <2>1, <2>2
<1>2. PICK t \in T : \A u \in T : ~(<<u, t>> \in OpToRel(<, Nat))
  <2>1. \E t \in T : \A u \in T : ~(<<u, t>> \in OpToRel(<, Nat))
    <3> HIDE DEF T
    <3>1. QED
      BY <1>1, NatLessThanWellFounded, WFMin
  <2>2. QED
    BY <2>1
<1>3. \A u \in T : ~(u < t)
  BY <1>1, <1>2 DEF OpToRel
<1>4. PICK m \in S : t = n - m
  OBVIOUS
<1>5. ASSUME NEW k \in S PROVE k <= m
  <2>1. ~(n - k < n - m)
    BY <1>3, <1>4
  <2>2. QED
    BY <2>1
<1>6. QED
  BY <1>5

\* Newest is the greatest key of a map, where the provider has issued them all.
LEMMA NewestIs ==
  ASSUME NEW n \in Nat, NEW f \in FileMap, UpTo(f, n)
  PROVE  /\ Newest(f) \in Nat
         /\ \A a \in Accounts : f[a] # None => f[a].key <= Newest(f)
         /\ Newest(f) = 0 \/ \E a \in Accounts : f[a] # None /\ Newest(f) = f[a].key
<1> DEFINE keys == {f[a].key : a \in {b \in Accounts : f[b] # None}}
<1>1. \A a \in Accounts : f[a] # None => f[a].key \in 0 .. n
  BY DEF FileMap, Entry, UpTo
<1>2. keys \cup {0} \in SUBSET (0 .. n) /\ keys \cup {0} # {}
  BY <1>1
<1>3. \E k \in keys \cup {0} : \A j \in keys \cup {0} : j <= k
  <2> HIDE DEF keys
  <2>1. QED
    BY <1>2, Greatest
<1>4. Newest(f) \in keys \cup {0} /\ \A j \in keys : j <= Newest(f)
  BY <1>3 DEF Newest
<1>5. QED
  BY <1>1, <1>2, <1>4

\* LoadAuthState never fails: the file is loaded only when there is no row.
StoreReadable == [][BootFromFile => db = None]_vars

\* The store is ahead of no grant a refresh is about to save, and of no file
\* that is about to be saved into it.
StoreInv ==
  /\ mode = "seed" => db = None
  /\ \A c \in Callers : pc[c] = "install" => UpTo(db, call[c].reply.key)
  /\ \A c \in Callers : pc[c] = "persist" =>
       \E a \in Accounts : call[c].fd[a] # None /\ UpTo(db, call[c].fd[a].key)

\* A refresh has installed and not saved yet.
LEMMA PersistingStep ==
  ASSUME TypeOK, [Next]_vars, NEW d \in Callers, pc'[d] = "persist"
  PROVE  (pc[d] = "persist" /\ call'[d] = call[d]) \/ Install(d)
<1>1. call \in [Callers -> Call] /\ pc \in [Callers -> Labels]
  BY DEF TypeOK, CallersTyped
<1>2. ~Crash
  BY DEF Crash
<1>3. CASE OwnStep(d)
  <2>1. CASE RefreshLocked(d)
    BY <1>1, <2>1 DEF RefreshLocked, RefreshAlreadyDone, RefreshImpossible, RefreshBegin,
       EndRefresh, Goto
  <2>2. CASE RefreshStep(d)
    BY <1>1, <2>2 DEF RefreshStep, CachedEndpoint, Discover, DiscoveryFails, DiscoverAs, Exchange,
       ReplyLost, Rejected, PostFails, Persist, WriteFile, WriteFileFails,
       SkipFile, AfterRefresh, Return, EndRefresh, Goto
  <2>3. CASE \/ d = Ticker /\ ProactiveTick
             \/ d \in Requests /\ (GetAccessToken(d) \/ ForceRefresh(d))
    BY <2>3, CallBegins
  <2>4. QED
    BY <1>3, <2>1, <2>2, <2>3 DEF OwnStep
<1>4. QED
  BY <1>2, <1>3, CallStepCases

\* While a refresh has its grant and has not saved it, nobody else saves.
LEMMA StoreHeld ==
  ASSUME TypeOK, SingleFlight, Calling, [Next]_vars, NEW d \in Callers, HoldsRefreshMu(d),
         ~Persist(d)
  PROVE  db' = db
<1>1. mode = "up" /\ refreshMu = d
  BY DEF Calling, SingleFlight, HoldsRefreshMu
<1>2. ~BootFromDB /\ ~SeedStore
  BY <1>1 DEF BootFromDB, SeedStore
<1>3. \A c \in Callers : ~Persist(c)
  BY <1>1 DEF Persist, SingleFlight, HoldsRefreshMu
<1>4. QED
  BY <1>2, <1>3, DiskStep DEF ExternalEdit, WriteFile

\* An exchange gets a newer grant than any in the store, and Install files it.
LEMMA StoreStep ==
  ASSUME TypeOK, TypeOK', SingleFlight, Calling, IssuedInv, PinnedInv, StoreInv, [Next]_vars,
         BootFromFile => db = None
  PROVE  StoreInv'
<1>t. issued \in Nat /\ call \in [Callers -> Call] /\ pc \in [Callers -> Labels]
  BY DEF TypeOK, WorldTyped, CallersTyped
<1>1. ASSUME mode' = "seed" PROVE db' = None
  <2>1. CASE BootFromFile
    BY <2>1 DEF BootFromFile, disk
  <2>2. CASE mode = "seed"
    <3>1. ~BootFromDB /\ ~SeedStore /\ \A c \in Callers : ~Persist(c)
      BY <1>1, <2>2 DEF BootFromDB, SeedStore, Persist, Calling
    <3>2. QED
      BY <2>2, <3>1, DiskStep DEF ExternalEdit, WriteFile, StoreInv
  <2>3. QED
    BY <1>1, <2>1, <2>2, ModeStep DEF Boot, BootFromDB, SeedStore, StartWatch, Crash
<1>2. ASSUME NEW d \in Callers, pc'[d] = "install" PROVE UpTo(db', call'[d].reply.key)
  <2>1. CASE Exchange(d)
    <3>1. /\ db' = db /\ UpTo(db, issued)
      BY <2>1 DEF Exchange, disk, IssuedInv, Copies
    <3>2. ~(pc[d] = "install")
      BY <2>1 DEF Exchange, Grant
    <3>3. call'[d].reply.key = issued + 1
      BY <1>2, <3>2, ReplyStep
    <3>4. issued + 1 \in Nat /\ issued <= issued + 1
      BY <1>t
    <3>5. QED
      BY <1>t, <3>1, <3>3, <3>4, UpToFacts
  <2>2. CASE pc[d] = "install" /\ call'[d] = call[d]
    BY <2>2, StoreHeld DEF HoldsRefreshMu, Persist, StoreInv
  <2>3. ~Install(d) /\ ~Crash
    BY <1>2, <1>t DEF Install, Goto, Crash
  <2>4. QED
    BY <1>2, <2>1, <2>2, <2>3, InstallingStep
<1>3. ASSUME NEW d \in Callers, pc'[d] = "persist"
      PROVE  \E a \in Accounts : call'[d].fd[a] # None /\ UpTo(db', call'[d].fd[a].key)
  <2>1. CASE Install(d)
    <3>1. /\ pc[d] = "install" /\ db' = db /\ UpTo(db, call[d].reply.key)
      BY <2>1 DEF Install, disk, StoreInv
    <3>2. call[d].rk \in Accounts
      BY <3>1 DEF PinnedInv, HoldsRefreshMu, Selected
    <3>3. NewEntry(d) \in Entry /\ NewEntry(d).key = call[d].reply.key
      BY <3>1, NewEntryTyped DEF NewEntry
    <3>4. call'[d].fd = [fileData EXCEPT ![call[d].rk] = NewEntry(d)]
      BY <1>t, <2>1 DEF Install, Call
    <3>5. call'[d].fd[call[d].rk] = NewEntry(d)
      BY <3>2, <3>4 DEF TypeOK, ManagerTyped, FileMap
    <3>6. QED
      BY <3>1, <3>2, <3>3, <3>5, BootstrapAssumption
  <2>2. CASE pc[d] = "persist" /\ call'[d] = call[d]
    <3>1. ~Persist(d)
      BY <1>3, <1>t DEF Persist, Goto
    <3>2. QED
      BY <2>2, <3>1, StoreHeld DEF HoldsRefreshMu, StoreInv
  <2>3. QED
    BY <1>3, <2>1, <2>2, PersistingStep
<1>4. QED
  BY <1>1, <1>2, <1>3 DEF StoreInv

\* What is saved is newer than what it replaces.
LEMMA StoreAhead ==
  ASSUME TypeOK, TypeOK', IssuedInv, IssuedInv', StoreInv, [Next]_vars, {db, db'} \subseteq FileMap
  PROVE  Newest(db) <= Newest(db')
<1>1. /\ issued \in Nat /\ issued' \in Nat /\ UpTo(db, issued) /\ UpTo(db', issued')
      /\ db \in FileMap /\ db' \in FileMap
  BY DEF TypeOK, WorldTyped, IssuedInv, Copies
<1>2. Newest(db) \in Nat /\ Newest(db') \in Nat
  BY <1>1, NewestIs
<1>3. CASE db' = db
  BY <1>2, <1>3
<1>4. ASSUME NEW c \in Callers, Persist(c), db' # db PROVE Newest(db) <= Newest(db')
  <2>1. PICK a \in Accounts : db'[a] # None /\ UpTo(db, db'[a].key)
    BY <1>4 DEF Persist, StoreInv
  <2>2. db'[a].key \in Nat /\ db'[a].key <= Newest(db')
    BY <1>1, <2>1, NewestIs DEF FileMap, Entry
  <2>3. Newest(db) <= db'[a].key
    <3>1. CASE Newest(db) = 0
      BY <2>2, <3>1
    <3>2. CASE \E b \in Accounts : db[b] # None /\ Newest(db) = db[b].key
      BY <1>1, <2>1, <3>2 DEF UpTo
    <3>3. QED
      BY <1>1, <3>1, <3>2, NewestIs
  <2>4. QED
    BY <1>2, <2>2, <2>3
<1>5. SeedStore => db' = db
  BY <1>1, BootstrapAssumption DEF SeedStore, StoreInv
<1>6. QED
  BY <1>3, <1>4, <1>5, DiskStep DEF BootFromDB, ExternalEdit, WriteFile

\* The invariant behind the theorem that follows.
LEMMA StoreIsBehind == Spec /\ StoreReadable => []StoreInv
<1>1. Init => StoreInv
  BY DEF Init, StoreInv
<1>2. TypeOK /\ TypeOK' /\ SingleFlight /\ Calling /\ IssuedInv /\ PinnedInv /\ StoreInv
        /\ [Next]_vars /\ [BootFromFile => db = None]_vars => StoreInv'
  <2>1. ASSUME StoreInv, UNCHANGED vars PROVE StoreInv'
    BY <2>1 DEF vars, callers, disk, StoreInv
  <2>2. QED
    BY <2>1, StoreStep
<1>3. QED
  BY TypeCorrect, RefreshIsSingleFlight, CallsRunInProcess, NothingUnissued, SelectedAccounts,
     <1>1, <1>2, PTL DEF Spec, StoreReadable

\* Persist is called in the order of the exchanges: unless LoadAuthState failed
\* at a boot, auth_states never goes back to an older grant, whatever crashes,
\* logins and reloads there are.
THEOREM StoreAdvances == Spec /\ StoreReadable => StoreNeverRegresses
<1>1. TypeOK /\ TypeOK' /\ IssuedInv /\ IssuedInv' /\ StoreInv /\ [Next]_vars
        => [({db, db'} \subseteq FileMap) => Newest(db) <= Newest(db')]_vars
  BY StoreAhead
<1>2. QED
  BY TypeCorrect, NothingUnissued, StoreIsBehind, <1>1, PTL DEF Spec, StoreNeverRegresses

-----------------------------------------------------------------------------
(* No grant that works is lost.                                             *)

\* The deployment configures one account, and starts from a file that holds
\* every grant there is.
OneConfigured == \E a \in Accounts : Filter = {a}
AllOnFile == \A f \in Bootstraps : \A g \in 1 .. FirstGrants : InMap(f, g)

\* The process is not killed, no answer is lost, and of the two saves of a
\* refresh at most one fails: where the file is not written, the store has the
\* map already.
SavedOnce ==
  /\ ~Crash
  /\ \A c \in Callers : /\ ~ReplyLost(c)
                        /\ WriteFileFails(c) \/ SkipFile(c) => db = call[c].fd

OneSaveWorks == [][SavedOnce]_vars

Account == CHOOSE a \in Accounts : Filter = {a}

Holds(f, g) == f \in FileMap /\ f[Account] # None /\ f[Account].refresh = g

\* A refresh token in use is g or dead.
NoOther(x, g) == x \in valid => x = g

\* A copy of the map has the other accounts as they are on file, and of the
\* configured one g or a dead token.
Current(f, g) ==
  f \in FileMap \ {NoMap} =>
    /\ \A a \in Accounts \ {Account} : f[a] = file[a]
    /\ f[Account] # None => NoOther(f[Account].refresh, g)

\* A refresh has its answer and has not ended.
Carries(c) == pc[c] \in {"install", "persist", "write"}

\* One grant g is all the configured account has, wherever it is: everything
\* that works and is not g is on file for another account; and g itself is
\* saved, or in the hands of a refresh that will save it.
GrantInv(g) ==
  /\ file \in FileMap
  /\ mode # "watch" /\ (mode # "up" => db = None)
  /\ \A f \in Copies : Current(f, g)
  /\ NoOther(entry.refresh, g)
  /\ \A c \in Callers :
       /\ Asking(c) => NoOther(call[c].rs.refresh, g)
       /\ pc[c] = "install" => TakesOver(call[c]) = g
       /\ pc[c] \in {"persist", "write"} => Holds(call[c].fd, g)
  /\ \A h \in valid \ {g} : \E a \in Accounts \ {Account} : file[a] # None /\ file[a].refresh = h
  /\ g \in valid => Holds(file, g) \/ Holds(db, g) \/ \E c \in Callers : Carries(c)

\* A step keeps the grant in use, or replaces it.
Turn(g, h) == (valid' = valid /\ h = g) \/ valid' = (valid \ {g}) \cup {h}

\* With one configured account, it is the one that is ever selected.
LEMMA TheAccount ==
  ASSUME OneConfigured
  PROVE  /\ Account \in Accounts /\ Filter = {Account}
         /\ \A a : Selected(a) => a = Account
<1>1. Account \in Accounts /\ Filter = {Account}
  BY DEF OneConfigured, Account
<1>2. QED
  BY <1>1 DEF Selected

\* What is in use stays g or dead when g is replaced.
LEMMA NoOtherStays ==
  ASSUME NEW x, NEW g, NEW h, Turn(g, h), NoOther(x, g)
  PROVE  x \in valid' => x = h
BY DEF Turn, NoOther

\* A copy stays current as long as the other accounts stay on file.
LEMMA CurrentStays ==
  ASSUME NEW f, NEW g, NEW h, Turn(g, h), Current(f, g),
         \A a \in Accounts \ {Account} : file'[a] = file[a]
  PROVE  Current(f, h)'
BY NoOtherStays DEF Current, NoOther

\* What the provider's live tokens are changes with an answer, or a login.
LEMMA GrantsStep ==
  ASSUME [Next]_vars
  PROVE  \/ valid' = valid
         \/ ExternalEdit
         \/ \E c \in Callers : Exchange(c) \/ ReplyLost(c)
<1>1. ASSUME NEW c \in Callers, RefreshStep(c), ~Exchange(c), ~ReplyLost(c)
      PROVE  valid' = valid
  BY <1>1 DEF RefreshStep, CachedEndpoint, Discover, DiscoveryFails, DiscoverAs, Rejected,
     PostFails, Install, Persist, WriteFile, WriteFileFails, SkipFile, AfterRefresh, Return,
     provider
<1>2. QED
  BY <1>1 DEF provider, Next, Boot, BootFromDB, BootFromFile, SeedStore, StartWatch, Crash,
     ProactiveTick, Begin, Tick, GetAccessToken, ForceRefresh, RefreshLocked,
     RefreshAlreadyDone, RefreshImpossible, RefreshBegin, WatchEvent,
     UnflagTimer, AdminReload, ReloadStep, DebounceFires, ReloadInstalls, ReloadRefused, vars

\* An exchange replaces the grant it was asked for by the one it takes over.
LEMMA ExchangeTurns ==
  ASSUME TypeOK, NEW d \in Callers, Exchange(d), NEW g, NoOther(call[d].rs.refresh, g)
  PROVE  Turn(g, TakesOver(call'[d])) /\ pc'[d] = "install"
<1>1. /\ call \in [Callers -> Call] /\ call[d] \in Call /\ pc \in [Callers -> Labels]
      /\ issued \in Nat
  BY DEF TypeOK, CallersTyped, WorldTyped
<1>2. PICK rotate \in Rotation, life \in Lifetimes :
        /\ Grant(d, rotate) /\ pc' = [pc EXCEPT ![d] = "install"]
        /\ call'[d] = [call[d] EXCEPT !.reply =
                        [key |-> issued + 1, refresh |-> IF rotate THEN issued + 1 ELSE 0,
                         life |-> life]]
  BY <1>1 DEF Exchange, Goto
<1>3. /\ call'[d].reply.refresh = (IF rotate THEN issued + 1 ELSE 0)
      /\ call'[d].rs = call[d].rs
  BY <1>1, <1>2 DEF Call
<1>4. call[d].rs.refresh = g
  BY <1>2 DEF Grant, Accepted, NoOther
<1>5. issued + 1 # 0
  BY <1>1
<1>6. ASSUME rotate PROVE Turn(g, TakesOver(call'[d]))
  <2>1. TakesOver(call'[d]) = issued + 1
    BY <1>3, <1>5, <1>6 DEF TakesOver
  <2>2. valid' = (valid \ {g}) \cup {issued + 1}
    BY <1>2, <1>4, <1>6 DEF Grant
  <2>3. QED
    BY <2>1, <2>2 DEF Turn
<1>7. ASSUME ~rotate PROVE Turn(g, TakesOver(call'[d]))
  BY <1>2, <1>3, <1>4, <1>7 DEF Grant, TakesOver, Turn
<1>8. QED
  BY <1>1, <1>2, <1>6, <1>7

\* Until it has ended, a refresh that has its answer goes on to save it.
LEMMA CarriesStep ==
  ASSUME TypeOK, [Next]_vars, NEW d \in Callers, Carries(d)
  PROVE  Carries(d)' \/ Crash \/ WriteFile(d) \/ WriteFileFails(d) \/ SkipFile(d)
<1>1. pc \in [Callers -> Labels]
  BY DEF TypeOK, CallersTyped
<1>2. CASE OwnStep(d)
  <2>1. ~RefreshLocked(d)
    BY DEF RefreshLocked, RefreshAlreadyDone, RefreshImpossible, RefreshBegin, Locks, Carries
  <2>2. CASE RefreshStep(d)
    BY <1>1, <2>2 DEF RefreshStep, CachedEndpoint, Discover, DiscoveryFails, DiscoverAs, Exchange,
       ReplyLost, Grant, Rejected, PostFails, Install, Persist, AfterRefresh, Return, Goto, Carries
  <2>3. CASE \/ d = Ticker /\ ProactiveTick
             \/ d \in Requests /\ (GetAccessToken(d) \/ ForceRefresh(d))
    BY <2>3, CallBegins DEF Carries
  <2>4. QED
    BY <1>2, <2>1, <2>2, <2>3 DEF OwnStep
<1>3. QED
  BY <1>2, CallStepCases DEF Carries

\* The one who has an answer, or asks for one, is alone.
LEMMA OnlyOne ==
  ASSUME SingleFlight, NEW c \in Callers, NEW d \in Callers, HoldsRefreshMu(c), HoldsRefreshMu(d)
  PROVE  c = d
BY DEF SingleFlight

\* A step makes at most one exchange, so one grant comes after g.
LEMMA GrantTurns ==
  ASSUME TypeOK, SingleFlight, NEW g, GrantInv(g), [Next]_vars, SavedOnce, ~ExternalEdit
  PROVE  \E h : /\ Turn(g, h)
                /\ \A d \in Callers : Exchange(d) => h = TakesOver(call'[d])
                /\ (\A d \in Callers : ~Exchange(d)) => h = g /\ valid' = valid
<1>1. CASE \A d \in Callers : ~Exchange(d)
  <2>1. valid' = valid
    BY <1>1, GrantsStep DEF SavedOnce
  <2>2. Turn(g, g)
    BY <2>1 DEF Turn
  <2>3. QED
    BY <1>1, <2>1, <2>2
<1>2. ASSUME NEW d \in Callers, Exchange(d)
      PROVE  \E h : /\ Turn(g, h)
                    /\ \A c \in Callers : Exchange(c) => h = TakesOver(call'[c])
                    /\ (\A c \in Callers : ~Exchange(c)) => h = g /\ valid' = valid
  <2>1. pc[d] = "post" /\ NoOther(call[d].rs.refresh, g)
    BY <1>2 DEF Exchange, Grant, GrantInv, Asking
  <2>2. Turn(g, TakesOver(call'[d]))
    BY <1>2, <2>1, ExchangeTurns
  <2>3. ASSUME NEW c \in Callers, Exchange(c) PROVE c = d
    BY <2>1, <2>3, OnlyOne DEF Exchange, Grant, HoldsRefreshMu
  <2>4. QED
    BY <1>2, <2>2, <2>3
<1>3. QED
  BY <1>1, <1>2

\* What is written to the file leaves the other accounts as they are.
LEMMA OthersOnFile ==
  ASSUME OneConfigured, TypeOK, NEW g, GrantInv(g), [Next]_vars, ~ExternalEdit
  PROVE  file' \in FileMap /\ \A a \in Accounts \ {Account} : file'[a] = file[a]
<1>1. CASE file' = file
  BY <1>1 DEF GrantInv
<1>2. ASSUME NEW c \in Callers, WriteFile(c)
      PROVE  file' \in FileMap /\ \A a \in Accounts \ {Account} : file'[a] = file[a]
  <2>1. file' = call[c].fd /\ Holds(call[c].fd, g) /\ Current(call[c].fd, g)
    BY <1>2 DEF WriteFile, GrantInv, Copies
  <2>2. call[c].fd \in FileMap /\ call[c].fd # NoMap
    BY <2>1, TheAccount DEF Holds, NoMap
  <2>3. QED
    BY <2>1, <2>2 DEF Current
<1>3. ~BootFromDB
  BY DEF BootFromDB, GrantInv
<1>4. SeedStore \/ (\E c \in Callers : Persist(c)) => file' = file
  BY DEF SeedStore, Persist
<1>5. QED
  BY <1>1, <1>2, <1>3, <1>4, DiskStep

\* What a refresh installs, and saves: the grant, in a map that is current.
LEMMA InstalledHolds ==
  ASSUME OneConfigured, TypeOK, Calling, PinnedInv, NEW g, GrantInv(g), NEW c \in Callers, NEW f,
         InstallMakes(c, f)
  PROVE  Holds(f, g) /\ Current(f, g) /\ entry'.refresh = g /\ call'[c].fd = f
<1>1. /\ pc[c] = "install" /\ mode = "up" /\ TakesOver(call[c]) = g /\ NewEntry(c) \in Entry
      /\ entry' = NewEntry(c)
  BY NewEntryTyped DEF InstallMakes, Install, Calling, GrantInv
<1>2. Account \in Accounts /\ call[c].rk = Account /\ mapKey = Account
  BY <1>1, TheAccount DEF PinnedInv, HoldsRefreshMu
<1>3. fileData \in FileMap /\ fileData[Account] = entry /\ entry \in Entry
  BY <1>1, <1>2, TheAccount DEF PinnedInv, PinnedEntryIsInMap, TypeOK, ManagerTyped
<1>4. fileData # NoMap /\ Current(fileData, g)
  BY <1>2, <1>3, BootstrapAssumption DEF NoMap, GrantInv, Copies
<1>5. f = [fileData EXCEPT ![Account] = NewEntry(c)] /\ f \in FileMap
  BY <1>1, <1>2, <1>3, MapUpdate DEF InstallMakes
<1>6. f[Account] = NewEntry(c) /\ \A a \in Accounts \ {Account} : f[a] = fileData[a]
  BY <1>2, <1>3, <1>5 DEF FileMap
<1>7. NewEntry(c).refresh = g
  BY <1>1 DEF NewEntry, TakesOver
<1>8. NewEntry(c) # None
  BY <1>1, BootstrapAssumption
<1>9. call'[c].fd = f
  BY CallFields DEF InstallMakes, Install, TypeOK, CallersTyped, Call
<1>10. QED
  BY <1>1, <1>3, <1>4, <1>5, <1>6, <1>7, <1>8, <1>9 DEF Holds, Current, NoOther

\* Copies stay current: what they stem from is, or is made by Install.
LEMMA CopiesCurrent ==
  ASSUME OneConfigured, TypeOK, Calling, PinnedInv, NEW g, GrantInv(g), [Next]_vars,
         ~ExternalEdit, NEW h, Turn(g, h), NEW f \in Copies'
  PROVE  Current(f, h)'
<1>1. Current(f, g)
  <2>1. CASE f \in Copies
    BY <2>1 DEF GrantInv
  <2>2. CASE f \in {NoMap, None, Malformed}
    BY <2>2, BootstrapAssumption DEF Current
  <2>3. ~LoginWrites(f)
    BY DEF LoginWrites
  <2>4. QED
    BY <2>1, <2>2, <2>3, CopiesStep, InstalledHolds DEF Stems
<1>2. QED
  BY <1>1, OthersOnFile, CurrentStays

\* The entry served holds no other grant: it is loaded from a copy, or installed.
LEMMA EntryCurrent ==
  ASSUME OneConfigured, TypeOK, Calling, PinnedInv, NEW g, GrantInv(g), [Next]_vars, ~Crash
  PROVE  NoOther(entry'.refresh, g)
<1>1. ASSUME NEW f \in Copies, NEW a \in Loads(f), Load(f, a) PROVE NoOther(entry'.refresh, g)
  <2>0. f \in FileMap \cup {None, Malformed}
    BY CallFields DEF Copies, TypeOK, WorldTyped, ManagerTyped, WatcherTyped
  <2>1. a = Account /\ f \in FileMap /\ f[a] \in Entry /\ f[a] # None
    BY <2>0, TheAccount, LoadSelects, LoadsTyped, BootstrapAssumption
  <2>2. f # NoMap /\ Current(f, g)
    BY <2>1, TheAccount DEF NoMap, GrantInv
  <2>3. QED
    BY <1>1, <2>1, <2>2 DEF Current, Load
<1>2. ASSUME NEW c \in Callers, Install(c) PROVE NoOther(entry'.refresh, g)
  BY <1>2, InstalledHolds DEF InstallMakes, NoOther
<1>3. CASE UNCHANGED entry
  BY <1>3 DEF GrantInv
<1>4. ASSUME NEW r \in Reloaders, ReloadInstalls(r) PROVE NoOther(entry'.refresh, g)
  BY <1>1, <1>4 DEF ReloadInstalls, Copies
<1>5. QED
  BY <1>1, <1>2, <1>3, <1>4, EntryStep DEF Copies

\* A refresh sends the token of the entry it found.
LEMMA AskingCurrent ==
  ASSUME TypeOK, NEW g, GrantInv(g), [Next]_vars, NEW d \in Callers, Asking(d)'
  PROVE  NoOther(call'[d].rs.refresh, g)
BY AskingStep DEF GrantInv, Asking

\* A refresh about to install takes over the grant.
LEMMA InstallingCurrent ==
  ASSUME TypeOK, SingleFlight, NEW g, GrantInv(g), [Next]_vars, ~Crash, NEW h,
         \A d \in Callers : Exchange(d) => h = TakesOver(call'[d]),
         (\A d \in Callers : ~Exchange(d)) => h = g,
         NEW d \in Callers, pc'[d] = "install"
  PROVE  TakesOver(call'[d]) = h
<1>1. CASE Exchange(d)
  BY <1>1
<1>2. CASE pc[d] = "install" /\ call'[d] = call[d]
  <2>1. \A c \in Callers : ~Exchange(c)
    BY <1>2, OnlyOne DEF Exchange, Grant, HoldsRefreshMu
  <2>2. QED
    BY <1>2, <2>1 DEF GrantInv
<1>3. ~Install(d)
  BY DEF Install, Goto, TypeOK, CallersTyped
<1>4. QED
  BY <1>1, <1>2, <1>3, InstallingStep

\* What a refresh saves is the grant.
LEMMA SavingCurrent ==
  ASSUME OneConfigured, TypeOK, SingleFlight, Calling, PinnedInv, NEW g, GrantInv(g), [Next]_vars,
         NEW h, (\A d \in Callers : ~Exchange(d)) => h = g,
         NEW d \in Callers, pc'[d] \in {"persist", "write"}
  PROVE  Holds(call'[d].fd, h)
<1>1. CASE Install(d)
  <2>1. \A c \in Callers : ~Exchange(c)
    BY <1>1, OnlyOne DEF Install, Exchange, Grant, HoldsRefreshMu
  <2>2. InstallMakes(d, [fileData EXCEPT ![call[d].rk] = NewEntry(d)])
    BY <1>1 DEF InstallMakes
  <2>3. QED
    BY <2>1, <2>2, InstalledHolds
<1>2. CASE pc[d] \in {"persist", "write"} /\ call'[d] = call[d]
  <2>1. \A c \in Callers : ~Exchange(c)
    BY <1>2, OnlyOne DEF Exchange, Grant, HoldsRefreshMu
  <2>2. QED
    BY <1>2, <2>1 DEF GrantInv
<1>3. Persist(d) => pc[d] = "persist"
  BY DEF Persist
<1>4. QED
  BY <1>1, <1>2, <1>3, PersistingStep, WritingStep

\* The grant stays saved, or with a refresh that will save it.
LEMMA GrantSaved ==
  ASSUME OneConfigured, TypeOK, SingleFlight, Calling, NEW g, GrantInv(g), g \in valid,
         [Next]_vars, SavedOnce, ~ExternalEdit
  PROVE  Holds(file', g) \/ Holds(db', g) \/ \E c \in Callers : Carries(c)'
<1>1. ASSUME NEW c \in Callers, Carries(c)
      PROVE  Holds(file', g) \/ Holds(db', g) \/ Carries(c)'
  <2>1. CASE WriteFile(c)
    BY <2>1 DEF WriteFile, GrantInv
  <2>2. CASE WriteFileFails(c) \/ SkipFile(c)
    BY <2>2 DEF WriteFileFails, SkipFile, SavedOnce, disk, GrantInv
  <2>3. QED
    BY <1>1, <2>1, <2>2, CarriesStep DEF SavedOnce
<1>2. ASSUME \A c \in Callers : ~Carries(c) PROVE Holds(file', g) \/ Holds(db', g)
  <2>1. ~BootFromDB /\ \A c \in Callers : ~Persist(c) /\ ~WriteFile(c)
    BY <1>2 DEF BootFromDB, GrantInv, Persist, WriteFile, Carries
  <2>2. CASE SeedStore
    <3>1. Holds(file, g) /\ file' = file
      BY <1>2, <2>2, BootstrapAssumption DEF SeedStore, GrantInv, Holds
    <3>2. QED
      BY <3>1
  <2>3. CASE UNCHANGED <<file, db>>
    BY <1>2, <2>3 DEF GrantInv
  <2>4. QED
    BY <2>1, <2>2, <2>3, DiskStep
<1>3. QED
  BY <1>1, <1>2

\* The store is empty until the boot has filled it.
LEMMA StoreFills ==
  ASSUME Calling, NEW g, GrantInv(g), [Next]_vars, SavedOnce, ~ExternalEdit
  PROVE  mode' # "watch" /\ (mode' # "up" => db' = None)
<1>1. ~BootFromDB /\ ~StartWatch
  BY DEF BootFromDB, StartWatch, GrantInv
<1>2. BootFromFile => mode' = "seed" /\ db' = db /\ mode = "down"
  BY DEF BootFromFile, disk
<1>3. SeedStore => mode' = "up"
  BY DEF SeedStore
<1>4. ASSUME mode' = mode, mode # "up" PROVE db' = db
  <2>1. \A c \in Callers : ~Persist(c)
    BY <1>4 DEF Persist, Calling
  <2>2. \A c \in Callers : WriteFile(c) => db' = db
    BY DEF WriteFile
  <2>3. ~SeedStore
    BY <1>3, <1>4
  <2>4. QED
    BY <1>1, <2>1, <2>2, <2>3, DiskStep
<1>5. QED
  BY <1>1, <1>2, <1>3, <1>4, ModeStep DEF Boot, GrantInv, SavedOnce

\* Each step leaves one grant, the same or the next.
LEMMA GrantStep ==
  ASSUME OneConfigured, TypeOK, SingleFlight, Calling, PinnedInv, NEW g, GrantInv(g),
         [Next]_vars, SavedOnce, ~ExternalEdit
  PROVE  \E h : GrantInv(h)'
<1>1. PICK h : /\ Turn(g, h)
               /\ \A d \in Callers : Exchange(d) => h = TakesOver(call'[d])
               /\ (\A d \in Callers : ~Exchange(d)) => h = g /\ valid' = valid
  BY GrantTurns
<1>2. file' \in FileMap /\ \A a \in Accounts \ {Account} : file'[a] = file[a]
  BY OthersOnFile
<1>3. \A f \in Copies' : Current(f, h)'
  BY <1>1, CopiesCurrent
<1>4. NoOther(entry.refresh, h)'
  BY <1>1, EntryCurrent, NoOtherStays DEF SavedOnce, NoOther
<1>5. \A d \in Callers : Asking(d)' => NoOther(call[d].rs.refresh, h)'
  BY <1>1, AskingCurrent, NoOtherStays DEF NoOther
<1>6. \A d \in Callers : pc'[d] = "install" => TakesOver(call'[d]) = h
  BY <1>1, InstallingCurrent DEF SavedOnce
<1>7. \A d \in Callers : pc'[d] \in {"persist", "write"} => Holds(call'[d].fd, h)
  BY <1>1, SavingCurrent
<1>8. ASSUME NEW k \in valid', k # h
      PROVE  \E a \in Accounts \ {Account} : file'[a] # None /\ file'[a].refresh = k
  <2>1. k \in valid /\ k # g
    BY <1>1, <1>8 DEF Turn
  <2>2. QED
    BY <1>2, <2>1 DEF GrantInv
<1>9. ASSUME h \in valid' PROVE Holds(file', h) \/ Holds(db', h) \/ \E c \in Callers : Carries(c)'
  <2>1. CASE \A d \in Callers : ~Exchange(d)
    BY <1>1, <1>9, <2>1, GrantSaved
  <2>2. ASSUME NEW d \in Callers, Exchange(d) PROVE Carries(d)'
    BY <2>2 DEF Exchange, Goto, TypeOK, CallersTyped, Carries
  <2>3. QED
    BY <2>1, <2>2
<1>10. GrantInv(h)'
  BY <1>2, <1>3, <1>4, <1>5, <1>6, <1>7, <1>8, <1>9, StoreFills DEF GrantInv, Holds
<1>11. QED
  BY <1>10

\* A deployment starts with one grant.
LEMMA GrantInit == ASSUME OneConfigured, AllOnFile, Init PROVE \E g : GrantInv(g)
<1> DEFINE g == IF file[Account] # None THEN file[Account].refresh ELSE 0
<1>1. file \in FileMap /\ Account \in Accounts
  BY TheAccount, BootstrapAssumption DEF Init
<1>2. NoCall.fd = NoMap /\ NoEntry.refresh = 0
  BY DEF NoCall, NoEntry
<1>3. Copies \subseteq {file, None, NoMap}
  BY <1>2 DEF Init, Copies
<1>4. \A f \in Copies : Current(f, g)
  BY <1>3, BootstrapAssumption DEF Current, NoOther
<1>5. 0 \notin valid
  BY NumberAssumption DEF Init
<1>6. NoOther(entry.refresh, g)
  BY <1>2, <1>5 DEF Init, NoOther
<1>7. ASSUME NEW h \in valid, h # g
      PROVE  \E a \in Accounts \ {Account} : file[a] # None /\ file[a].refresh = h
  <2>1. PICK a \in Accounts : file[a] # None /\ file[a].refresh = h
    BY <1>7 DEF Init, AllOnFile, InMap
  <2>2. a # Account
    BY <1>7, <2>1
  <2>3. QED
    BY <2>1, <2>2
<1>8. g \in valid => Holds(file, g)
  BY <1>1, <1>5 DEF Holds
<1>9. GrantInv(g)
  BY <1>1, <1>4, <1>6, <1>7, <1>8 DEF GrantInv, Init, Asking
<1>10. QED
  BY <1>9

\* Wherever the grant is, it is not lost.
LEMMA GrantIsKept ==
  ASSUME OneConfigured, TypeOK, NEW g, GrantInv(g) PROVE LiveGrantKept
<1>1. ASSUME NEW f, Holds(f, g) PROVE InMap(f, g)
  BY <1>1, TheAccount DEF Holds, InMap
<1>2. ASSUME NEW h \in valid, h # g PROVE InMap(file, h)
  BY <1>2 DEF GrantInv, InMap
<1>3. ASSUME NEW c \in Callers, Carries(c)
      PROVE  \/ pc[c] = "install" /\ call[c].reply.refresh \in {0, g}
             \/ pc[c] \in {"persist", "write"} /\ InMap(call[c].fd, g)
  BY <1>1, <1>3 DEF Carries, GrantInv, TakesOver
<1>4. QED
  BY <1>1, <1>2, <1>3 DEF LiveGrantKept, GrantInv

\* With one account configured, as long as nobody else writes auth.json, a
\* refresh token that works is in memory, saved, or in the hands of the call
\* that got it, though one of the two saves of any refresh may fail, and files
\* read before a refresh may be loaded after it.
THEOREM LiveGrantsKept ==
  ASSUME OneConfigured, AllOnFile PROVE Spec /\ OneSaveWorks => []LiveGrantKept
<1> DEFINE Inv == edits = 0 => \E g : GrantInv(g)
<1>1. Init => Inv
  BY GrantInit
<1>2. TypeOK /\ SingleFlight /\ Calling /\ PinnedInv /\ Inv /\ [Next]_vars /\ [SavedOnce]_vars
        => Inv'
  <2> SUFFICES ASSUME TypeOK, SingleFlight, Calling, PinnedInv, Inv, [Next]_vars,
                      [SavedOnce]_vars, edits' = 0
               PROVE  \E g : GrantInv(g)'
    OBVIOUS
  <2>1. edits = 0 /\ ~ExternalEdit
    BY BudgetStep
  <2>2. PICK g : GrantInv(g)
    BY <2>1
  <2>3. CASE UNCHANGED vars
    <3>1. GrantInv(g)'
      BY <2>2, <2>3 DEF vars, provider, disk, memory, callers, watcher, GrantInv, Current, Copies,
         NoOther, Asking, Carries, Holds
    <3>2. QED
      BY <3>1
  <2>4. CASE SavedOnce
    BY <2>1, <2>2, <2>4, GrantStep
  <2>5. QED
    BY <2>3, <2>4
<1>3. TypeOK /\ Inv => LiveGrantKept
  BY GrantIsKept DEF LiveGrantKept
<1>4. QED
  BY TypeCorrect, RefreshIsSingleFlight, CallsRunInProcess, SelectedAccounts, <1>1, <1>2, <1>3, PTL
     DEF Spec, OneSaveWorks

-----------------------------------------------------------------------------
(* The watcher's flag.                                                      *)

Saving(c) == pc[c] \in {"persist", "write"}

\* The watcher ignores the file only while someone is going to end that: a
\* refresh that has not written yet, or the timer of one that has.
FlagInv == writing => unflag > 0 \/ \E c \in Callers : Saving(c)

\* What moves the flag and its timers.
LEMMA FlagStep ==
  ASSUME [Next]_vars
  PROVE  \/ UNCHANGED <<writing, unflag>>
         \/ writing' = FALSE
         \/ \E c \in Callers : Install(c) \/ WriteFile(c)
<1>1. ASSUME NEW c \in Callers, RefreshStep(c), ~Install(c), ~WriteFile(c)
      PROVE  UNCHANGED <<writing, unflag>> \/ writing' = FALSE
  BY <1>1 DEF RefreshStep, CachedEndpoint, Discover, DiscoveryFails, DiscoverAs, Exchange,
     ReplyLost, Rejected, PostFails, Persist, WriteFileFails, SkipFile, AfterRefresh, Return,
     memory, watcher
<1>2. ASSUME NEW c \in Callers, RefreshLocked(c)
      PROVE  UNCHANGED <<writing, unflag>>
  BY <1>2 DEF RefreshLocked, RefreshAlreadyDone, RefreshImpossible, RefreshBegin, memory, watcher
<1>3. ASSUME NEW r \in Reloaders, ReloadInstalls(r) \/ ReloadRefused(r)
      PROVE  UNCHANGED <<writing, unflag>>
  BY <1>3 DEF ReloadInstalls, ReloadRefused, memory
<1>4. ASSUME NEW r \in Reloaders, AdminReload(r) \/ DebounceFires(r)
      PROVE  UNCHANGED <<writing, unflag>>
  BY <1>4 DEF AdminReload, DebounceFires, memory
<1>5. Boot \/ Tick \/ ExternalEdit \/ WatchEvent \/ UNCHANGED vars => UNCHANGED <<writing, unflag>>
  BY DEF Boot, BootFromDB, BootFromFile, SeedStore, StartWatch, Tick, ExternalEdit, WatchEvent,
     vars, memory, watcher
<1>6. Crash \/ UnflagTimer => writing' = FALSE
  BY DEF Crash, UnflagTimer
<1>7. ProactiveTick \/ (\E c \in Requests : GetAccessToken(c) \/ ForceRefresh(c))
        => UNCHANGED <<writing, unflag>>
  <2>1. \A c, label, l : Begin(c, label, l) => UNCHANGED <<writing, unflag>>
    BY DEF Begin, memory, watcher
  <2>2. QED
    BY <2>1 DEF ProactiveTick, GetAccessToken, ForceRefresh, vars, memory, watcher
<1>8. QED
  BY <1>1, <1>2, <1>3, <1>4, <1>5, <1>6, <1>7 DEF Next, ReloadStep

\* Who is to end the flag stays, or does so, or leaves a timer.
LEMMA SavingStep ==
  ASSUME TypeOK, [Next]_vars, NEW d \in Callers, Saving(d)
  PROVE  \/ Saving(d)' \/ writing' = FALSE \/ unflag' > 0
<1>1. pc \in [Callers -> Labels] /\ unflag \in Nat
  BY DEF TypeOK, CallersTyped, WatcherTyped
<1>2. WriteFile(d) => unflag' > 0
  BY <1>1 DEF WriteFile
<1>3. Crash \/ WriteFileFails(d) \/ SkipFile(d) => writing' = FALSE
  BY DEF Crash, WriteFileFails, SkipFile
<1>4. pc'[d] = "install" => Crash
  BY InstallingStep DEF Saving, Exchange, Grant, Install
<1>5. QED
  BY <1>2, <1>3, <1>4, CarriesStep DEF Carries, Saving

\* "m.writing", with its 500ms timer, in refresh: the flag that makes the
\* watcher skip events is never up without a refresh or a timer that will lower
\* it, however refreshes, their failures and timers overlap.
THEOREM FlagIsPending == Spec => []FlagInv
<1>1. Init => FlagInv
  BY DEF Init, FlagInv
<1>2. ASSUME TypeOK, FlagInv, [Next]_vars PROVE FlagInv'
  <2>1. pc \in [Callers -> Labels] /\ unflag \in Nat
    BY <1>2 DEF TypeOK, CallersTyped, WatcherTyped
  <2>2. ASSUME NEW c \in Callers, Install(c) PROVE Saving(c)'
    BY <2>1, <2>2 DEF Install, Goto, Saving
  <2>3. ASSUME NEW c \in Callers, WriteFile(c) PROVE unflag' > 0
    BY <2>1, <2>3 DEF WriteFile
  <2>4. CASE UNCHANGED <<writing, unflag>>
    BY <2>4, SavingStep, <1>2 DEF FlagInv
  <2>5. QED
    BY <1>2, <2>2, <2>3, <2>4, FlagStep DEF FlagInv
<1>3. QED
  BY TypeCorrect, <1>1, <1>2, PTL DEF Spec

=============================================================================
