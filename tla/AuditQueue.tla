----------------------------- MODULE AuditQueue -----------------------------
(***************************************************************************)
(* The audit queue of internal/store/store.go and the shutdown that drains *)
(* it: server.Run (internal/server/server.go), then the deferred Closes of *)
(* cmd/proxy/main.go.  Handlers are requests inside the proxy's forward;   *)
(* each makes at most one audit row.  A definition marked BROKEN is not    *)
(* part of the specification: it is the next one with a slip, kept to see  *)
(* the properties catch it.                                                *)
(***************************************************************************)
EXTENDS Naturals, Sequences, FiniteSets

CONSTANTS
  Handlers, Workers,
  Capacity,             \* auditQueueSize
  MaxRows, MaxTicks, MaxFaults  \* bounds: rows, proactive ticks after the first, failing inserts

ASSUME AuditAssumption ==
  /\ Workers # {}  \* startAuditWorkers: at least one
  /\ {Capacity, MaxRows, MaxTicks, MaxFaults} \subseteq Nat

VARIABLES
  phase,     \* how far run and its deferred calls are
  forced,    \* Run returned an error: handlers may outlive it
  loop,      \* the goroutine of StartProactiveRefresh
  handler,   \* where each handler is in forward
  auditCh,   \* the channel, a queue of row numbers
  worker,    \* "select" (main loop), "drain", "stopped"
  hand,      \* the row a worker is inserting, 0 for none
  accepted,  \* rows InsertAuditLog put in the channel
  written,   \* rows in the table
  rows, ticks, faults

vars == <<phase, forced, loop, handler, auditCh, worker, hand, accepted, written,
          rows, ticks, faults>>

Queued == {auditCh[i] : i \in 1 .. Len(auditCh)}

Init ==
  /\ phase = "serving" /\ forced = FALSE
  /\ loop = "ticking"  \* it starts with a tick
  /\ handler = [h \in Handlers |-> "idle"]
  /\ auditCh = <<>>
  /\ worker = [w \in Workers |-> "select"] /\ hand = [w \in Workers |-> 0]
  /\ accepted = {} /\ written = {}
  /\ rows = 0 /\ ticks = 0 /\ faults = 0

-----------------------------------------------------------------------------
(* Requests.  The process serves them until it exits.  A connection younger  *)
(* than 5s when Shutdown begins may still bring one, and so may connections  *)
(* that Run leaves open: one each after a Shutdown that timed out (it has    *)
(* turned keep-alives off), any number after a failed listener.              *)

HandlerGoes(h, from, to) ==
  /\ phase # "exited" /\ handler[h] = from
  /\ handler' = [handler EXCEPT ![h] = to]
  /\ UNCHANGED <<phase, forced, loop, worker, hand, written, ticks, faults>>

\* The bound is here, where requests come in: no later step may wait for it.
Pending == {h \in Handlers : handler[h] \in {"forwarding", "recording"}}

Request(h) ==
  /\ rows + Cardinality(Pending) < MaxRows
  /\ phase \in {"serving", "draining"} \/ forced
  /\ HandlerGoes(h, "idle", "forwarding")
  /\ UNCHANGED <<auditCh, accepted, rows>>

\* The answer has been passed on, or an error: now for the record.  A body that
\* cannot be read, or no request to be made of it, leaves none.
Answered(h) ==
  /\ \E to \in {"recording", "returning"} : HandlerGoes(h, "forwarding", to)
  /\ UNCHANGED <<auditCh, accepted, rows>>

\* BROKEN: the send waits for room.
InsertAuditLogBroken(h) ==
  /\ rows' = rows + 1
  /\ Len(auditCh) < Capacity
  /\ auditCh' = Append(auditCh, rows + 1) /\ accepted' = accepted \cup {rows + 1}
  /\ HandlerGoes(h, "recording", "returning")

\* A full channel drops the row; the handler is told nothing.
InsertAuditLog(h) ==
  /\ rows' = rows + 1
  /\ IF Len(auditCh) < Capacity
       THEN auditCh' = Append(auditCh, rows + 1) /\ accepted' = accepted \cup {rows + 1}
       ELSE UNCHANGED <<auditCh, accepted>>
  /\ HandlerGoes(h, "recording", "returning")

Return(h) ==
  /\ HandlerGoes(h, "returning", "idle")
  /\ UNCHANGED <<auditCh, accepted, rows>>

-----------------------------------------------------------------------------
(* run: serve, shut down, close the manager, close the store, exit.          *)

RunGoes(from, to) ==
  /\ phase = from /\ phase' = to
  /\ UNCHANGED <<loop, handler, auditCh, worker, hand, accepted, written, rows, ticks, faults>>

\* SIGINT or SIGTERM: Shutdown closes the listener and waits for the handlers.
Signal == RunGoes("serving", "draining") /\ UNCHANGED forced

Shutdown ==
  /\ RunGoes("draining", "closingAuth") /\ UNCHANGED forced
  /\ \A h \in Handlers : handler[h] = "idle"

\* BROKEN: Shutdown is given a context without a deadline.
ShutdownTimesOutBroken == FALSE

\* The timeout of Shutdown: Run gives up on the handlers that are left.
ShutdownTimesOut ==
  /\ RunGoes("draining", "closingAuth") /\ forced' = TRUE
  /\ \E h \in Handlers : handler[h] # "idle"

\* ListenAndServe failed: Run returns at once.
ListenFails == RunGoes("serving", "closingAuth") /\ forced' = TRUE

\* authMgr.Close has closed stopCh and waits for the loop.
CloseAuth == loop = "stopped" /\ RunGoes("closingAuth", "closingStore") /\ UNCHANGED forced

\* BROKEN: st.Close does not wait for the workers.
CloseStoreBroken == RunGoes("closingStore", "exited") /\ UNCHANGED forced

\* st.Close has closed auditStop and waits for the workers; then the process ends.
CloseStore ==
  /\ \A w \in Workers : worker[w] = "stopped"
  /\ RunGoes("closingStore", "exited") /\ UNCHANGED forced

\* A tick that is due may win the select against stopCh.
TickStarts ==
  /\ phase # "exited" /\ loop = "idle" /\ loop' = "ticking"
  /\ ticks < MaxTicks /\ ticks' = ticks + 1
  /\ UNCHANGED <<phase, forced, handler, auditCh, worker, hand, accepted, written, rows, faults>>

\* stopCh is seen between two ticks only.
LoopStops ==
  /\ phase = "closingAuth" /\ loop = "idle" /\ loop' = "stopped"
  /\ UNCHANGED <<phase, forced, handler, auditCh, worker, hand, accepted, written,
                 rows, ticks, faults>>

TickEnds ==
  /\ loop = "ticking" /\ loop' = "idle"
  /\ UNCHANGED <<phase, forced, handler, auditCh, worker, hand, accepted, written,
                 rows, ticks, faults>>

-----------------------------------------------------------------------------
(* The workers.                                                              *)

\* From the main loop, whether or not auditStop is closed, or while draining.
Take(w) ==
  /\ worker[w] # "stopped" /\ hand[w] = 0 /\ auditCh # <<>>
  /\ hand' = [hand EXCEPT ![w] = Head(auditCh)] /\ auditCh' = Tail(auditCh)
  /\ UNCHANGED <<phase, forced, loop, handler, worker, accepted, written, rows, ticks, faults>>

\* insertAuditLogSync; its error is ignored.
Insert(w) ==
  /\ hand[w] # 0 /\ hand' = [hand EXCEPT ![w] = 0]
  /\ \/ written' = written \cup {hand[w]} /\ UNCHANGED faults
     \/ faults < MaxFaults /\ faults' = faults + 1 /\ UNCHANGED written
  /\ UNCHANGED <<phase, forced, loop, handler, auditCh, worker, accepted, rows, ticks>>

WorkerGoes(w, from, to) ==
  /\ worker[w] = from /\ hand[w] = 0
  /\ worker' = [worker EXCEPT ![w] = to]
  /\ UNCHANGED <<phase, forced, loop, handler, auditCh, hand, accepted, written, rows,
                 ticks, faults>>

\* auditStop is closed: drain.
StopSeen(w) == phase = "closingStore" /\ WorkerGoes(w, "select", "drain")

DrainedBroken(w) == WorkerGoes(w, "drain", "stopped")  \* BROKEN: nothing is drained
Drained(w) == auditCh = <<>> /\ WorkerGoes(w, "drain", "stopped")

-----------------------------------------------------------------------------
HandlerStep(h) == InsertAuditLog(h) \/ Return(h)
RunStep == Shutdown \/ ShutdownTimesOut \/ CloseAuth \/ CloseStore
WorkerStep(w) == Take(w) \/ StopSeen(w) \/ Drained(w)

\* After the exit nothing happens.
Exited == phase = "exited" /\ UNCHANGED vars

Next ==
  \/ Signal \/ ListenFails \/ RunStep \/ TickStarts \/ TickEnds \/ LoopStops \/ Exited
  \/ \E h \in Handlers : Request(h) \/ Answered(h) \/ HandlerStep(h)
  \/ \E w \in Workers : WorkerStep(w) \/ Insert(w)

Spec == Init /\ [][Next]_vars

\* Goroutines that can run do, and Shutdown has a timeout.  An upstream
\* (Answered) or the database (Insert) may take forever, and so may a tick: its
\* context of 30s covers neither refreshMu.Lock nor Persist's SaveAuthState.
Fairness ==
  /\ WF_vars(RunStep) /\ WF_vars(LoopStops)
  /\ \A h \in Handlers : WF_vars(HandlerStep(h))
  /\ \A w \in Workers : WF_vars(WorkerStep(w))

FairSpec == Spec /\ Fairness

-----------------------------------------------------------------------------
(* Properties.                                                              *)

TypeOK ==
  /\ phase \in {"serving", "draining", "closingAuth", "closingStore", "exited"}
  /\ forced \in BOOLEAN /\ loop \in {"idle", "ticking", "stopped"}
  /\ handler \in [Handlers -> {"idle", "forwarding", "recording", "returning"}]
  /\ auditCh \in Seq(Nat \ {0})
  /\ worker \in [Workers -> {"select", "drain", "stopped"}] /\ hand \in [Workers -> Nat]
  /\ accepted \subseteq Nat \ {0} /\ written \subseteq Nat
  /\ rows \in Nat /\ ticks \in Nat /\ faults \in Nat

\* Close: "Drain remaining queued rows".  After a shutdown in which no handler
\* was left behind and no insert failed, every row that was accepted is in the
\* table.
GracefulExitLosesNothing ==
  phase = "exited" /\ ~forced /\ faults = 0 => accepted \subseteq written

\* An accepted row is in the channel, with a worker or in the table.
RowsAccounted ==
  faults = 0 => accepted \subseteq written \cup Queued \cup {hand[w] : w \in Workers}

\* Once Run returned without an error, no handler can send any more.
NoLateSender ==
  phase \in {"closingAuth", "closingStore", "exited"} /\ ~forced
    => \A h \in Handlers : handler[h] = "idle"

\* A worker only leaves an empty channel, which then stays empty, with no row
\* in hand; and the process only ends after the workers.
WorkersDrain ==
  /\ \A w \in Workers : worker[w] # "select" => phase \in {"closingStore", "exited"}
  /\ \A w \in Workers : worker[w] = "stopped" => hand[w] = 0 /\ (~forced => auditCh = <<>>)
  /\ phase = "exited" => \A w \in Workers : worker[w] = "stopped"

\* The inductive invariant behind GracefulExitLosesNothing.
DrainInv == TypeOK /\ RowsAccounted /\ NoLateSender /\ WorkersDrain

\* InsertAuditLog: "Non-blocking ... so request path never waits on Postgres
\* under load": a handler that has to record gets on and returns, with the
\* database stuck, the channel full and the workers gone, unless it all ends.
RequestsNeverWait ==
  \A h \in Handlers : handler[h] = "recording" ~> handler[h] = "idle" \/ phase = "exited"

\* Run: "shuts down gracefully".  Once told to stop, the process ends, whatever
\* its upstreams do, as long as the database answers: the workers' inserts, and
\* the save of a refresh, which the tick that Close waits for makes or waits for.
DatabaseAnswers == (\A w \in Workers : []<>(hand[w] = 0)) /\ []<>(loop # "ticking")
ShutdownEnds == DatabaseAnswers => (phase = "draining" ~> phase = "exited")

=============================================================================
