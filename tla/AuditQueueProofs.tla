-------------------------- MODULE AuditQueueProofs --------------------------
(***************************************************************************)
(* Proofs about AuditQueue, for any handlers, any workers and any queue    *)
(* size: a shutdown that leaves no handler behind loses no accepted row.   *)
(***************************************************************************)
EXTENDS AuditQueue, TLAPS

Phases == {"serving", "draining", "closingAuth", "closingStore", "exited"}

\* What the channel holds, when it is empty, sent to and received from.
LEMMA QueueFacts ==
  ASSUME auditCh \in Seq(Nat \ {0})
  PROVE  /\ auditCh = <<>> => Queued = {}
         /\ \A row \in Nat \ {0} :
              auditCh' = Append(auditCh, row)
                => auditCh' \in Seq(Nat \ {0}) /\ Queued' = Queued \cup {row}
         /\ auditCh # <<>> /\ auditCh' = Tail(auditCh)
              => /\ auditCh' \in Seq(Nat \ {0}) /\ Head(auditCh) \in Nat \ {0}
                 /\ Queued = Queued' \cup {Head(auditCh)}
<1>1. auditCh = <<>> => Queued = {}
  BY DEF Queued
<1>2. ASSUME NEW row \in Nat \ {0}, auditCh' = Append(auditCh, row)
      PROVE  auditCh' \in Seq(Nat \ {0}) /\ Queued' = Queued \cup {row}
  <2>1. /\ auditCh' \in Seq(Nat \ {0}) /\ Len(auditCh') = Len(auditCh) + 1
        /\ Len(auditCh) \in Nat /\ auditCh'[Len(auditCh) + 1] = row
        /\ \A i \in 1 .. Len(auditCh) : auditCh'[i] = auditCh[i]
    BY <1>2
  <2>2. 1 .. Len(auditCh') = (1 .. Len(auditCh)) \cup {Len(auditCh) + 1}
    BY <2>1
  <2>3. QED
    BY <2>1, <2>2 DEF Queued
<1>3. ASSUME auditCh # <<>>, auditCh' = Tail(auditCh)
      PROVE  /\ auditCh' \in Seq(Nat \ {0}) /\ Head(auditCh) \in Nat \ {0}
             /\ Queued = Queued' \cup {Head(auditCh)}
  <2>1. /\ auditCh' \in Seq(Nat \ {0}) /\ Len(auditCh') = Len(auditCh) - 1
        /\ Len(auditCh) \in Nat /\ Len(auditCh) # 0
        /\ Head(auditCh) = auditCh[1] /\ auditCh[1] \in Nat \ {0}
        /\ \A i \in 1 .. Len(auditCh') : auditCh'[i] = auditCh[i + 1]
    BY <1>3
  <2>2. \A i \in 1 .. Len(auditCh) : i = 1 \/ i - 1 \in 1 .. Len(auditCh')
    BY <2>1
  <2>3. Queued \subseteq Queued' \cup {Head(auditCh)}
    <3>1. ASSUME NEW i \in 1 .. Len(auditCh), i - 1 \in 1 .. Len(auditCh')
          PROVE  auditCh[i] \in Queued'
      <4>1. auditCh'[i - 1] = auditCh[i]
        BY <2>1, <3>1
      <4>2. QED
        BY <3>1, <4>1 DEF Queued
    <3>2. QED
      BY <2>1, <2>2, <3>1 DEF Queued
  <2>4. Queued' \cup {Head(auditCh)} \subseteq Queued
    <3>1. 1 \in 1 .. Len(auditCh) /\ \A i \in 1 .. Len(auditCh') : i + 1 \in 1 .. Len(auditCh)
      BY <2>1
    <3>2. Head(auditCh) \in Queued
      BY <2>1, <3>1 DEF Queued
    <3>3. ASSUME NEW i \in 1 .. Len(auditCh') PROVE auditCh'[i] \in Queued
      <4>1. auditCh'[i] = auditCh[i + 1] /\ i + 1 \in 1 .. Len(auditCh)
        BY <2>1, <3>1
      <4>2. QED
        BY <4>1 DEF Queued
    <3>4. Queued' \subseteq Queued
      BY <3>3 DEF Queued
    <3>5. QED
      BY <3>2, <3>4
  <2>5. QED
    BY <2>1, <2>3, <2>4
<1>4. QED
  BY <1>1, <1>2, <1>3

\* Nothing is accepted, queued or in hand when the process starts.
LEMMA InitDrain == Init => DrainInv
<1>1. Init => TypeOK
  <2> SUFFICES ASSUME Init PROVE TypeOK
    OBVIOUS
  <2>1. auditCh \in Seq(Nat \ {0})
    BY DEF Init
  <2>2. /\ handler \in [Handlers -> {"idle", "forwarding", "recording", "returning"}]
        /\ worker \in [Workers -> {"select", "drain", "stopped"}]
        /\ hand \in [Workers -> Nat]
    BY DEF Init
  <2>3. /\ accepted \subseteq Nat \ {0} /\ written \subseteq Nat
        /\ rows \in Nat /\ ticks \in Nat /\ faults \in Nat
    BY DEF Init
  <2>4. QED
    BY <2>1, <2>2, <2>3 DEF Init, TypeOK
<1>2. Init => RowsAccounted /\ NoLateSender /\ WorkersDrain
  BY DEF Init, RowsAccounted, NoLateSender, WorkersDrain
<1>3. QED
  BY <1>1, <1>2 DEF DrainInv

\* A step of forward: only the send of InsertAuditLog touches the queue, and
\* a handler that can send is one that Shutdown has not waited for.
LEMMA HandlerKeeps ==
  ASSUME DrainInv, NEW h \in Handlers,
         Request(h) \/ Answered(h) \/ InsertAuditLog(h) \/ Return(h)
  PROVE  DrainInv'
<1>1. TypeOK /\ RowsAccounted /\ NoLateSender /\ WorkersDrain
  BY DEF DrainInv
<1>2. /\ UNCHANGED <<phase, forced, loop, worker, hand, written, ticks, faults>>
      /\ handler' \in [Handlers -> {"idle", "forwarding", "recording", "returning"}]
      /\ \A g \in Handlers : handler'[g] = IF g = h THEN handler'[h] ELSE handler[g]
      /\ handler[h] = "idle" => phase \in {"serving", "draining"} \/ forced
  BY <1>1 DEF Request, Answered, InsertAuditLog, Return, HandlerGoes, TypeOK
<1>3. NoLateSender'
  BY <1>1, <1>2 DEF NoLateSender
<1>4. CASE UNCHANGED <<auditCh, accepted>> /\ rows' \in Nat
  <2>1. TypeOK'
    BY <1>1, <1>2, <1>4 DEF TypeOK
  <2>2. RowsAccounted' /\ WorkersDrain'
    BY <1>1, <1>2, <1>4 DEF RowsAccounted, WorkersDrain, Queued
  <2>3. QED
    BY <1>3, <2>1, <2>2 DEF DrainInv
<1>5. CASE /\ handler[h] = "recording" /\ rows' = rows + 1
           /\ auditCh' = Append(auditCh, rows + 1) /\ accepted' = accepted \cup {rows + 1}
  <2>1. rows + 1 \in Nat \ {0} /\ rows' \in Nat
    BY <1>1, <1>5 DEF TypeOK
  <2>2. auditCh' \in Seq(Nat \ {0}) /\ Queued' = Queued \cup {rows + 1}
    BY <1>1, <1>5, <2>1, QueueFacts DEF TypeOK
  <2>3. TypeOK'
    BY <1>1, <1>2, <1>5, <2>1, <2>2 DEF TypeOK
  <2>4. RowsAccounted'
    BY <1>1, <1>2, <1>5, <2>2 DEF RowsAccounted
  <2>5. ~forced => \A w \in Workers : worker[w] # "stopped"
    BY <1>1, <1>5 DEF NoLateSender, WorkersDrain
  <2>6. WorkersDrain'
    BY <1>1, <1>2, <2>5 DEF WorkersDrain
  <2>7. QED
    BY <1>3, <2>3, <2>4, <2>6 DEF DrainInv
<1>6. QED
  BY <1>1, <1>4, <1>5 DEF Request, Answered, InsertAuditLog, Return, HandlerGoes, TypeOK

\* A step of run, of its deferred calls, or of the refresh loop: the process
\* only gets past Shutdown without an error, and past Close, when all are done.
LEMMA RunKeeps ==
  ASSUME DrainInv,
         Signal \/ ListenFails \/ RunStep \/ TickStarts \/ TickEnds \/ LoopStops
  PROVE  DrainInv'
<1>1. TypeOK /\ RowsAccounted /\ NoLateSender /\ WorkersDrain
  BY DEF DrainInv
<1> USE DEF RunStep, Signal, ListenFails, Shutdown, ShutdownTimesOut, CloseAuth, CloseStore,
            RunGoes, TickStarts, TickEnds, LoopStops
<1>2. /\ UNCHANGED <<handler, auditCh, worker, hand, accepted, written, rows, faults>>
      /\ forced => forced'
  OBVIOUS
<1>3. TypeOK'
  <2>1. phase' \in Phases /\ forced' \in BOOLEAN
    BY <1>1 DEF TypeOK, Phases
  <2>2. loop' \in {"idle", "ticking", "stopped"} /\ ticks' \in Nat
    BY <1>1 DEF TypeOK
  <2>3. QED
    BY <1>1, <1>2, <2>1, <2>2 DEF TypeOK, Phases
<1>4. RowsAccounted'
  BY <1>1, <1>2 DEF RowsAccounted, Queued
<1>5. NoLateSender'
  BY <1>1, <1>2 DEF NoLateSender
<1>6. WorkersDrain'
  BY <1>1, <1>2 DEF WorkersDrain
<1>7. QED
  BY <1>3, <1>4, <1>5, <1>6 DEF DrainInv

\* A step of a worker: a row goes from the channel to its hand and from there
\* to the table, and it leaves with neither.
LEMMA WorkerKeeps ==
  ASSUME DrainInv, NEW w \in Workers, WorkerStep(w) \/ Insert(w)
  PROVE  DrainInv'
<1>1. TypeOK /\ RowsAccounted /\ NoLateSender /\ WorkersDrain
  BY DEF DrainInv
<1>2. UNCHANGED <<phase, forced, loop, handler, accepted, rows, ticks>>
  BY DEF WorkerStep, Take, StopSeen, Drained, WorkerGoes, Insert
<1>3. NoLateSender'
  BY <1>1, <1>2 DEF NoLateSender
<1>4. CASE Take(w)
  <2>1. /\ auditCh' \in Seq(Nat \ {0}) /\ Head(auditCh) \in Nat \ {0}
        /\ Queued = Queued' \cup {Head(auditCh)} /\ auditCh # <<>>
    BY <1>1, <1>4, QueueFacts DEF Take, TypeOK
  <2>2. /\ hand' = [hand EXCEPT ![w] = Head(auditCh)] /\ hand[w] = 0 /\ worker[w] # "stopped"
        /\ UNCHANGED <<worker, written, faults>>
    BY <1>4 DEF Take
  <2>3. TypeOK'
    BY <1>1, <1>2, <2>1, <2>2 DEF TypeOK
  <2>4. RowsAccounted'
    <3>1. \A row \in {hand[v] : v \in Workers} : row = 0 \/ row \in {hand'[v] : v \in Workers}
      BY <1>1, <2>2 DEF TypeOK
    <3>2. Head(auditCh) \in {hand'[v] : v \in Workers}
      BY <1>1, <2>2 DEF TypeOK
    <3>3. 0 \notin accepted
      BY <1>1 DEF TypeOK
    <3>4. QED
      BY <1>1, <1>2, <2>1, <2>2, <3>1, <3>2, <3>3 DEF RowsAccounted
  <2>5. WorkersDrain'
    BY <1>1, <1>2, <2>1, <2>2 DEF WorkersDrain, TypeOK
  <2>6. QED
    BY <1>3, <2>3, <2>4, <2>5 DEF DrainInv
<1>5. CASE Insert(w)
  <2>1. /\ hand' = [hand EXCEPT ![w] = 0] /\ hand[w] # 0 /\ UNCHANGED <<auditCh, worker>>
        /\ \/ written' = written \cup {hand[w]} /\ UNCHANGED faults
           \/ faults' = faults + 1 /\ UNCHANGED written
    BY <1>5 DEF Insert
  <2>2. TypeOK'
    <3>1. hand[w] \in Nat /\ hand' \in [Workers -> Nat]
      BY <1>1, <2>1 DEF TypeOK
    <3>2. written' \subseteq Nat
      <4>1. written \subseteq Nat /\ written' \in {written, written \cup {hand[w]}}
        BY <1>1, <2>1 DEF TypeOK
      <4>2. QED
        BY <3>1, <4>1
    <3>3. faults' \in Nat
      BY <1>1, <2>1 DEF TypeOK
    <3>4. QED
      BY <1>1, <1>2, <2>1, <3>1, <3>2, <3>3 DEF TypeOK
  <2>3. RowsAccounted'
    <3>1. \A row \in {hand[v] : v \in Workers} :
            row = hand[w] \/ row \in {hand'[v] : v \in Workers}
      BY <1>1, <2>1 DEF TypeOK
    <3>2. faults' = 0 => faults = 0 /\ written' = written \cup {hand[w]}
      BY <1>1, <2>1 DEF TypeOK
    <3>3. QED
      BY <1>1, <1>2, <2>1, <3>1, <3>2 DEF RowsAccounted, Queued
  <2>4. WorkersDrain'
    BY <1>1, <1>2, <2>1 DEF WorkersDrain, TypeOK
  <2>5. QED
    BY <1>3, <2>2, <2>3, <2>4 DEF DrainInv
<1>6. CASE StopSeen(w) \/ Drained(w)
  <2>1. /\ UNCHANGED <<hand, auditCh, written, faults>> /\ hand[w] = 0
        /\ \/ worker' = [worker EXCEPT ![w] = "drain"] /\ phase = "closingStore"
           \/ worker' = [worker EXCEPT ![w] = "stopped"] /\ auditCh = <<>> /\ worker[w] = "drain"
        /\ worker[w] # "stopped"
    BY <1>6 DEF StopSeen, Drained, WorkerGoes
  <2>2. TypeOK'
    BY <1>1, <1>2, <2>1 DEF TypeOK
  <2>3. RowsAccounted'
    BY <1>1, <1>2, <2>1 DEF RowsAccounted, Queued
  <2>4. WorkersDrain'
    BY <1>1, <1>2, <2>1 DEF WorkersDrain, TypeOK
  <2>5. QED
    BY <1>3, <2>2, <2>3, <2>4 DEF DrainInv
<1>7. QED
  BY <1>4, <1>5, <1>6 DEF WorkerStep

\* Every accepted row is in the channel, with a worker or in the table, until
\* an insert fails, and no worker leaves while one can still arrive.
THEOREM DrainInvariant == Spec => []DrainInv
<1>1. DrainInv /\ [Next]_vars => DrainInv'
  <2> SUFFICES ASSUME DrainInv, [Next]_vars PROVE DrainInv'
    OBVIOUS
  <2>1. CASE UNCHANGED vars
    BY <2>1 DEF vars, DrainInv, TypeOK, RowsAccounted, NoLateSender, WorkersDrain, Queued
  <2>2. QED
    BY <2>1, HandlerKeeps, RunKeeps, WorkerKeeps DEF Next, HandlerStep, Exited
<1>2. QED
  BY <1>1, InitDrain, PTL DEF Spec

\* Close: "Drain remaining queued rows".
THEOREM NothingLost == Spec => []GracefulExitLosesNothing
<1>1. DrainInv => GracefulExitLosesNothing
  <2> SUFFICES ASSUME DrainInv, phase = "exited", ~forced, faults = 0
               PROVE  accepted \subseteq written
    BY DEF GracefulExitLosesNothing
  <2>1. \A w \in Workers : hand[w] = 0 /\ auditCh = <<>>
    BY DEF DrainInv, WorkersDrain
  <2>2. Queued = {}
    BY <2>1, AuditAssumption, QueueFacts DEF DrainInv, TypeOK
  <2>3. 0 \notin accepted
    BY DEF DrainInv, TypeOK
  <2>4. QED
    BY <2>1, <2>2, <2>3 DEF DrainInv, RowsAccounted
<1>2. QED
  BY <1>1, DrainInvariant, PTL

=============================================================================
