------------------------- MODULE ProxyForwardProofs -------------------------
(***************************************************************************)
(* The four safety properties of ProxyForward, for any number of handlers, *)
(* any body lengths and limits, any statuses of the upstream and any bound *)
(* on what is started.  What a handler's locals hold at each place of      *)
(* forward (Locals) gives ForwardsWholeBody; with what it has written and  *)
(* recorded (Outcome) the two properties of the record; with how its call  *)
(* stands in the credential manager (CallInv) and which token it saw       *)
(* (NewerInv) the retry.                                                   *)
(***************************************************************************)
EXTENDS ProxyForward, TLAPS

Labels == {"idle", "read", "token", "do", "drain", "force", "stream", "end"}
Stages == {"idle", "get", "force", "refreshed", "done"}
Statuses == Codes \cup {0, 413, 502, 503}
Try == [token : Nat, body : Nat]
Row == [code : Statuses, failed : BOOLEAN, req : Nat, reqCut : BOOLEAN,
        resp : Nat, respCut : BOOLEAN]

\* The types of the credential manager's state, of the handlers' locals and of
\* what the handlers have sent.
ServiceType ==
  /\ minted \in Nat /\ held \in Nat /\ grant \in Nat /\ renewed \in BOOLEAN
  /\ owner \in Handlers \cup {Ticker, None}
  /\ st \in [Handlers -> Stages] /\ picked \in [Handlers -> Nat]
  /\ ok \in [Handlers -> BOOLEAN]

InputType ==
  /\ at \in [Handlers -> Labels]
  /\ size \in [Handlers -> Nat] /\ body \in [Handlers -> Nat]
  /\ reqBody \in [Handlers -> Nat] /\ retried \in [Handlers -> BOOLEAN]

OutputType ==
  /\ tries \in [Handlers -> Seq(Try)]
  /\ status \in [Handlers -> Statuses] /\ sent \in [Handlers -> Nat]
  /\ kept \in [Handlers -> Nat] /\ cut \in [Handlers -> BOOLEAN]
  /\ records \in [Handlers -> Seq(Row)]

TypeOK ==
  /\ ServiceType /\ InputType /\ OutputType
  /\ started \in Nat /\ reloaded \in BOOLEAN

Whole(h) == size[h] <= MaxRequest

\* How many requests have gone upstream, and where the body is.
Locals(h) ==
  /\ at[h] = "idle" => ~retried[h]
  /\ at[h] \in {"idle", "read", "token"} => Len(tries[h]) = IF retried[h] THEN 1 ELSE 0
  /\ at[h] \in {"do", "stream"} => Len(tries[h]) = IF retried[h] THEN 2 ELSE 1
  /\ at[h] \in {"drain", "force"} => Len(tries[h]) = 1 /\ ~retried[h]
  /\ at[h] = "end" => Len(tries[h]) <= 2
  /\ at[h] = "read" => body[h] = size[h]
  /\ at[h] \in {"token", "do", "drain", "force", "stream"} =>
       body[h] = size[h] /\ reqBody[h] = size[h] /\ Whole(h)
  /\ \A i \in 1 .. Len(tries[h]) : tries[h][i].body = size[h] /\ Whole(h)
  /\ at[h] \in {"stream", "end"} /\ status[h] = 401 => Len(tries[h]) = 2

\* The audit buffer holds the beginning of what was written; no row before the
\* end, and then the one that belongs to the outcome.
Outcome(h) ==
  /\ at[h] \notin {"stream", "end"} => sent[h] = 0
  /\ AuditEnabled => kept[h] = Least(sent[h], MaxBody) /\ (cut[h] <=> sent[h] > MaxBody)
  /\ at[h] # "end" \/ ~AuditEnabled => records[h] = <<>>
  /\ Len(records[h]) <= 1
  /\ AuditEnabled /\ at[h] = "end" /\ records[h] = <<>> => status[h] = 502 /\ tries[h] = <<>>
  /\ at[h] = "end" /\ records[h] # <<>> =>
       \/ records[h][1].code = status[h]
       \/ records[h][1].failed /\ status[h] = 502 /\ sent[h] = 0
  /\ at[h] = "end" /\ records[h] # <<>> /\ tries[h] # <<>> =>
       /\ records[h][1].req = Least(size[h], MaxBody)
       /\ records[h][1].reqCut <=> size[h] > MaxBody
       /\ records[h][1].resp = Least(sent[h], MaxBody)
       /\ records[h][1].respCut <=> sent[h] > MaxBody

\* A handler is in a call of the credential manager where forward waits for
\* one, and nowhere else; before the load there are no handlers at work.
Calling(h) ==
  /\ owner = h => st[h] \in {"get", "force"}
  /\ at[h] = "token" => st[h] \in {"get", "refreshed", "done"}
  /\ at[h] = "force" => st[h] \in {"force", "done"}
  /\ at[h] \notin {"token", "force"} => st[h] = "idle"

FlightInv ==
  /\ held <= minted /\ grant <= minted
  /\ owner = None => grant = 0 /\ ~renewed
  /\ held = 0 => owner = None /\ \A h \in Handlers : at[h] = "idle"

CallInv == FlightInv /\ \A h \in Handlers : Calling(h)

First(h) == tries[h][1].token

\* Unless a file was reloaded, tokens in memory only get newer: the one that
\* was refused is not newer than the one held, and older once its refresh has
\* installed another.
Newer(h) ==
  /\ at[h] = "token" => picked[h] <= held
  /\ Len(tries[h]) > 0 => First(h) <= held
  /\ retried[h] /\ at[h] # "end" => First(h) < held
  /\ retried[h] /\ at[h] = "token" => First(h) < picked[h]
  /\ Len(tries[h]) = 2 => First(h) < tries[h][2].token
  /\ at[h] = "force" /\ owner = h /\ renewed => First(h) < held
  /\ at[h] = "force" /\ st[h] = "done" /\ ok[h] => First(h) < held

NewerInv ==
  ~reloaded =>
    /\ grant # 0 => held < grant
    /\ \A h \in Handlers : Newer(h)

LocalsInv == \A h \in Handlers : Locals(h)
OutcomeInv == \A h \in Handlers : Outcome(h)

-----------------------------------------------------------------------------
(* Steps.                                                                   *)

\* A step of the request that handler h serves.
Works(h) == \/ Arrive(h) \/ Prepares(h) \/ Answers(h) \/ Drained(h)
            \/ Streaming(h) \/ Done(h)

\* A step of the credential manager alone.
ManagerStep ==
  \/ \E h \in Handlers : CallMoves(h)
  \/ \E c \in Handlers \cup {Ticker} : Refresh(c) \/ AnswerLost(c)
  \/ Load \/ Reload \/ ProactiveTick

\* Every step is a step of one handler, of the manager, or none.
LEMMA StepCases ==
  ASSUME [Next]_vars
  PROVE  UNCHANGED vars \/ ManagerStep \/ \E h \in Handlers : Works(h)
BY DEF Next, ManagerStep, Works

\* The manager works on its own state.
LEMMA ManagerApart ==
  ASSUME ManagerStep
  PROVE  UNCHANGED proxy
BY DEF ManagerStep, CallMoves, Refresh, AnswerLost, Load, Reload, ProactiveTick

\* What a handler's step does to the manager: nothing, or a call begins or
\* returns.
LEMMA WorkCalls ==
  ASSUME NEW h \in Handlers, Works(h)
  PROVE  UNCHANGED service \/ Token!Get(h) \/ Token!Force(h) \/ Token!Return(h)
BY DEF Works, Arrive, Prepares, Answers, RejectOversized, ReadFails, AskToken, NoToken, Post,
   DoFails, Unauthorized, Drained, ForceFails, Retry, Relay, Streaming, Chunk, StreamBreaks,
   WriteFails, StreamEnds, Done, GotAnswer

\* What the manager's own steps are in TokenService.
LEMMA ManagerCalls ==
  ASSUME ManagerStep
  PROVE  \/ \E h \in Handlers : Token!CallStep(h)
         \/ \E c \in Handlers \cup {Ticker} :
              Token!Lock(c) \/ Token!Mint(c) \/ Token!Install(c) \/ Token!Unlock(c) \/ Token!Lose(c)
         \/ Token!Provide
BY DEF ManagerStep, CallMoves, Refresh, AnswerLost, Load, Reload, ProactiveTick

\* The steps of TokenService keep its types.
LEMMA ServiceTyped ==
  ASSUME ServiceType, [Next]_vars
  PROVE  ServiceType'
<1> USE DEF ServiceType, Stages
<1>1. CASE UNCHANGED service
  BY <1>1 DEF service
<1>2. ASSUME NEW h \in Handlers, Token!Get(h) \/ Token!Force(h) \/ Token!Return(h)
      PROVE  ServiceType'
  <2>1. ASSUME NEW stage \in Stages, NEW token \in Nat, NEW success \in BOOLEAN,
               Token!Answer(h, stage, token, success),
               UNCHANGED <<minted, held, owner, grant, renewed>>
        PROVE  ServiceType'
    BY <2>1 DEF Token!Answer
  <2> QED BY <1>2, <2>1 DEF Token!Get, Token!Force, Token!Return, Token!flight
<1>3. ASSUME NEW h \in Handlers, Token!CallStep(h)
      PROVE  ServiceType'
  <2>1. ASSUME NEW success \in BOOLEAN, Token!Skip(h, success)
        PROVE  ServiceType'
    BY <2>1 DEF Token!Skip, Token!Ended, Token!Answer, Token!flight
  <2>2. ASSUME Token!Finish(h)
        PROVE  ServiceType'
    BY <2>2 DEF Token!Finish, Token!Answer, Token!flight
  <2> QED BY <1>3, <2>1, <2>2 DEF Token!CallStep
<1>4. ASSUME NEW c \in Handlers \cup {Ticker}, Token!Lock(c) \/ Token!Mint(c) \/ Token!Install(c)
      PROVE  ServiceType'
  <2>1. UNCHANGED <<st, picked, ok>>
    BY <1>4 DEF Token!Lock, Token!Mint, Token!Install, Token!calls
  <2>2. /\ minted' \in Nat /\ held' \in Nat /\ grant' \in Nat /\ renewed' \in BOOLEAN
        /\ owner' \in Handlers \cup {Ticker, None}
    <3>1. CASE Token!Lock(c)
      BY <3>1 DEF Token!Lock
    <3>2. CASE Token!Mint(c)
      BY <3>2 DEF Token!Mint
    <3>3. CASE Token!Install(c)
      BY <3>3 DEF Token!Install
    <3> QED BY <1>4, <3>1, <3>2, <3>3
  <2> QED BY <2>1, <2>2
<1>5. ASSUME NEW c \in Handlers \cup {Ticker}, Token!Unlock(c) \/ Token!Lose(c)
      PROVE  ServiceType'
  <2>1. ASSUME NEW success \in BOOLEAN, Token!Ended(c, success)
        PROVE  st' \in [Handlers -> Stages] /\ picked' \in [Handlers -> Nat]
               /\ ok' \in [Handlers -> BOOLEAN]
    <3>1. CASE c \in Handlers
      BY <2>1, <3>1 DEF Token!Ended, Token!Answer
    <3>2. CASE c \notin Handlers
      BY <2>1, <3>2 DEF Token!Ended, Token!calls
    <3> QED BY <3>1, <3>2
  <2>2. /\ minted' \in Nat /\ held' \in Nat /\ grant' \in Nat /\ renewed' \in BOOLEAN
        /\ owner' \in Handlers \cup {Ticker, None}
    <3>1. CASE Token!Unlock(c)
      BY <3>1 DEF Token!Unlock
    <3>2. CASE Token!Lose(c)
      BY <3>2 DEF Token!Lose
    <3> QED BY <1>5, <3>1, <3>2
  <2>3. Token!Ended(c, renewed) \/ Token!Ended(c, FALSE)
    BY <1>5 DEF Token!Unlock, Token!Lose
  <2> QED BY <2>1, <2>2, <2>3
<1>6. ASSUME Token!Provide
      PROVE  ServiceType'
  BY <1>6 DEF Token!Provide, Token!flight, Token!calls
<1>7. CASE UNCHANGED vars
  BY <1>1, <1>7 DEF vars
<1> QED BY <1>1, <1>2, <1>3, <1>4, <1>5, <1>6, <1>7, StepCases, WorkCalls, ManagerCalls

\* Lengths of bodies stay lengths, also what is left of one.
LEMMA InputTyped ==
  ASSUME TypeOK, [Next]_vars
  PROVE  InputType'
<1> USE LengthAssumption DEF TypeOK, InputType, Labels, Goto, Set
<1>1. CASE UNCHANGED proxy
  BY <1>1 DEF proxy, input
<1>2. ASSUME NEW h \in Handlers, Arrive(h)
      PROVE  InputType'
  BY <1>2 DEF Arrive
<1>3. ASSUME NEW h \in Handlers, RejectOversized(h) \/ AskToken(h)
      PROVE  InputType'
  <2>1. Read(h) \in Nat /\ body[h] - Read(h) \in Nat
    BY DEF Read, Least
  <2> QED BY <1>3, <2>1 DEF RejectOversized, AskToken, Refuse
<1>4. ASSUME NEW h \in Handlers,
             \/ ReadFails(h) \/ NoToken(h) \/ Post(h) \/ DoFails(h) \/ Unauthorized(h)
             \/ Drained(h) \/ ForceFails(h) \/ Retry(h) \/ \E code \in Codes : Relay(h, code)
      PROVE  InputType'
  BY <1>4 DEF ReadFails, NoToken, Post, DoFails, Unauthorized, Drained, ForceFails, Retry,
     Relay, Refuse, input
<1>5. ASSUME NEW h \in Handlers, Streaming(h) \/ Done(h)
      PROVE  InputType'
  <2>1. CASE Streaming(h)
    BY <2>1 DEF Streaming, Chunk, StreamBreaks, WriteFails, StreamEnds, input
  <2>2. CASE Done(h)
    BY <2>2 DEF Done
  <2> QED BY <1>5, <2>1, <2>2
<1>6. CASE UNCHANGED vars
  BY <1>6 DEF vars, input
<1> QED BY <1>1, <1>2, <1>3, <1>4, <1>5, <1>6, StepCases, ManagerApart DEF Works, Prepares, Answers

\* The buffer never holds more than the cap, so a chunk of any length fits or
\* is cut.
LEMMA KeepTyped ==
  ASSUME TypeOK, NEW h \in Handlers, NEW n \in Nat, kept[h] <= MaxBody, Keep(h, n)
  PROVE  /\ kept' \in [Handlers -> Nat] /\ cut' \in [Handlers -> BOOLEAN]
         /\ kept'[h] = kept[h] + Least(n, MaxBody - kept[h])
         /\ cut'[h] <=> cut[h] \/ n > MaxBody - kept[h]
         /\ \A g \in Handlers \ {h} : kept'[g] = kept[g] /\ cut'[g] = cut[g]
<1>1. MaxBody - kept[h] \in Nat /\ kept[h] + Least(n, MaxBody - kept[h]) \in Nat
  BY LengthAssumption DEF TypeOK, OutputType, Least
<1>2. (cut[h] \/ n > MaxBody - kept[h]) \in BOOLEAN
  OBVIOUS
<1>3. /\ kept' = [kept EXCEPT ![h] = kept[h] + Least(n, MaxBody - kept[h])]
      /\ cut' = [cut EXCEPT ![h] = cut[h] \/ n > MaxBody - kept[h]]
  BY DEF Keep, Set
<1>4. kept \in [Handlers -> Nat] /\ cut \in [Handlers -> BOOLEAN]
  BY DEF TypeOK, OutputType
<1>5. /\ kept' \in [Handlers -> Nat]
      /\ kept'[h] = kept[h] + Least(n, MaxBody - kept[h])
      /\ \A g \in Handlers \ {h} : kept'[g] = kept[g]
  BY <1>1, <1>3, <1>4
<1>6. /\ cut' \in [Handlers -> BOOLEAN]
      /\ cut'[h] <=> cut[h] \/ n > MaxBody - kept[h]
      /\ \A g \in Handlers \ {h} : cut'[g] = cut[g]
  BY <1>2, <1>3, <1>4
<1> QED BY <1>5, <1>6

\* A row is written for handler h only, and it tells what Record is given.
LEMMA RecordTyped ==
  ASSUME TypeOK, NEW h \in Handlers, NEW code \in Statuses, NEW failed \in BOOLEAN,
         NEW length \in Nat, Record(h, code, failed, length)
  PROVE  /\ records' \in [Handlers -> Seq(Row)]
         /\ \A g \in Handlers \ {h} : records'[g] = records[g]
         /\ ~AuditEnabled => records' = records
         /\ AuditEnabled /\ records[h] = <<>> =>
              /\ Len(records'[h]) = 1
              /\ records'[h][1].code = code /\ records'[h][1].failed = failed
              /\ records'[h][1].req = Least(length, MaxBody)
              /\ records'[h][1].reqCut <=> length > MaxBody
              /\ records'[h][1].resp = kept[h] /\ records'[h][1].respCut = cut[h]
<1> DEFINE row == [code |-> code, failed |-> failed,
                   req |-> Least(length, MaxBody), reqCut |-> length > MaxBody,
                   resp |-> kept[h], respCut |-> cut[h]]
<1>1. row \in Row
  BY LengthAssumption DEF TypeOK, OutputType, Row, Least
<1>2. /\ row.code = code /\ row.failed = failed /\ row.req = Least(length, MaxBody)
      /\ row.reqCut <=> length > MaxBody
      /\ row.resp = kept[h] /\ row.respCut = cut[h]
  OBVIOUS
<1>3. records' = IF ~AuditEnabled THEN records ELSE [records EXCEPT ![h] = Append(@, row)]
  BY DEF Record
<1> HIDE DEF row
<1>4. records[h] \in Seq(Row) /\ Append(records[h], row) \in Seq(Row)
  BY <1>1 DEF TypeOK, OutputType
<1>5. CASE ~AuditEnabled
  BY <1>3, <1>5 DEF TypeOK, OutputType
<1>6. CASE AuditEnabled
  <2>1. /\ records' \in [Handlers -> Seq(Row)] /\ records'[h] = Append(records[h], row)
        /\ \A g \in Handlers \ {h} : records'[g] = records[g]
    BY <1>3, <1>4, <1>6 DEF TypeOK, OutputType
  <2>2. records[h] = <<>> => Len(records'[h]) = 1 /\ records'[h][1] = row
    BY <2>1, <1>1, <1>4
  <2> QED BY <1>2, <1>6, <2>1, <2>2
<1> QED BY <1>5, <1>6, LengthAssumption

\* Where there is a buffer, it keeps to its cap.
LEMMA BufferCapped ==
  ASSUME TypeOK, NEW h \in Handlers, Outcome(h), AuditEnabled
  PROVE  kept[h] \in Nat /\ kept[h] <= MaxBody
BY LengthAssumption DEF TypeOK, OutputType, Outcome, Least

\* A record's arguments at the places where one is made.
LEMMA RefuseTyped ==
  ASSUME TypeOK, NEW h \in Handlers, NEW code \in Statuses, NEW recorded \in Statuses,
         NEW length \in Nat, Refuse(h, code, recorded, length)
  PROVE  /\ status' \in [Handlers -> Statuses] /\ status'[h] = code
         /\ \A g \in Handlers \ {h} : status'[g] = status[g]
         /\ records' \in [Handlers -> Seq(Row)]
         /\ \A g \in Handlers \ {h} : records'[g] = records[g]
<1>1. Record(h, recorded, TRUE, length) \/ Record(h, recorded, FALSE, length)
  <2>1. CASE code = 413
    BY <2>1 DEF Refuse, Record
  <2>2. CASE code # 413
    BY <2>2 DEF Refuse, Record
  <2> QED BY <2>1, <2>2
<1>2. /\ records' \in [Handlers -> Seq(Row)]
      /\ \A g \in Handlers \ {h} : records'[g] = records[g]
  BY <1>1, RecordTyped
<1>3. status' = [status EXCEPT ![h] = code] /\ status \in [Handlers -> Statuses]
  BY DEF Refuse, Set, TypeOK, OutputType
<1> QED BY <1>2, <1>3

\* What went upstream and what came of it keep their types.
LEMMA OutputTyped ==
  ASSUME TypeOK, OutcomeInv, [Next]_vars
  PROVE  OutputType'
<1> USE LengthAssumption
<1>1. CASE UNCHANGED proxy
  BY <1>1 DEF proxy, output, TypeOK, OutputType
<1>2. ASSUME NEW h \in Handlers,
             \/ Arrive(h) \/ AskToken(h) \/ Unauthorized(h) \/ Drained(h) \/ Retry(h)
      PROVE  OutputType'
  BY <1>2 DEF Arrive, AskToken, Unauthorized, Drained, Retry, output, TypeOK, OutputType
<1>3. ASSUME NEW h \in Handlers,
             RejectOversized(h) \/ NoToken(h) \/ DoFails(h) \/ ForceFails(h)
      PROVE  OutputType'
  <2>1. \E code \in Statuses, recorded \in Statuses, length \in Nat :
          Refuse(h, code, recorded, length)
    <3>1. {0, 413, 502, 503} \subseteq Statuses /\ MaxRequest \in Nat /\ reqBody[h] \in Nat
      BY DEF Statuses, TypeOK, InputType
    <3>2. CASE RejectOversized(h)
      BY <3>1, <3>2 DEF RejectOversized
    <3>3. CASE NoToken(h)
      BY <3>1, <3>3 DEF NoToken
    <3>4. CASE DoFails(h)
      BY <3>1, <3>4 DEF DoFails
    <3>5. CASE ForceFails(h)
      BY <3>1, <3>5 DEF ForceFails
    <3> QED BY <1>3, <3>2, <3>3, <3>4, <3>5
  <2>2. UNCHANGED <<tries, sent, kept, cut>>
    BY <2>1 DEF Refuse
  <2> QED BY <2>1, <2>2, RefuseTyped DEF TypeOK, OutputType
<1>4. ASSUME NEW h \in Handlers, ReadFails(h) \/ \E code \in Codes : Relay(h, code)
      PROVE  OutputType'
  <2>1. \E code \in Statuses : status' = [status EXCEPT ![h] = code]
    BY <1>4 DEF ReadFails, Relay, Set, Statuses
  <2>2. UNCHANGED <<tries, sent, kept, cut, records>>
    BY <1>4 DEF ReadFails, Relay
  <2> QED BY <2>1, <2>2 DEF TypeOK, OutputType
<1>5. ASSUME NEW h \in Handlers, Post(h)
      PROVE  OutputType'
  <2>1. [token |-> picked[h], body |-> reqBody[h]] \in Try
    BY DEF Try, TypeOK, ServiceType, InputType
  <2>2. tries' \in [Handlers -> Seq(Try)]
    BY <1>5, <2>1 DEF Post, TypeOK, OutputType
  <2> QED BY <1>5, <2>2 DEF Post, output, TypeOK, OutputType
<1>6. ASSUME NEW h \in Handlers, NEW n \in 1 .. MaxResponse, Chunk(h, n)
      PROVE  OutputType'
  <2>1. UNCHANGED <<tries, status, records>> /\ sent' \in [Handlers -> Nat]
    BY <1>6 DEF Chunk, Set, TypeOK, OutputType
  <2>2. kept' \in [Handlers -> Nat] /\ cut' \in [Handlers -> BOOLEAN]
    <3>1. CASE AuditEnabled
      <4>1. kept[h] <= MaxBody
        BY <3>1, BufferCapped DEF OutcomeInv
      <4> QED BY <1>6, <3>1, <4>1, KeepTyped DEF Chunk
    <3>2. CASE ~AuditEnabled
      BY <1>6, <3>2 DEF Chunk, TypeOK, OutputType
    <3> QED BY <3>1, <3>2
  <2> QED BY <2>1, <2>2 DEF TypeOK, OutputType
<1>7. ASSUME NEW h \in Handlers, StreamBreaks(h) \/ WriteFails(h) \/ StreamEnds(h)
      PROVE  OutputType'
  <2>1. UNCHANGED <<tries, sent, kept, cut>> /\ status' \in [Handlers -> Statuses]
    <3>1. status \in [Handlers -> Statuses] /\ 502 \in Statuses
      BY DEF Statuses, TypeOK, OutputType
    <3>2. status' = status \/ \E code \in Statuses : status' = [status EXCEPT ![h] = code]
      BY <1>7, <3>1 DEF StreamBreaks, WriteFails, StreamEnds, Set
    <3>3. UNCHANGED <<tries, sent, kept, cut>>
      BY <1>7 DEF StreamBreaks, WriteFails, StreamEnds
    <3> QED BY <3>1, <3>2, <3>3
  <2>2. status[h] \in Statuses /\ reqBody[h] \in Nat
    BY DEF TypeOK, InputType, OutputType
  <2>3. records' \in [Handlers -> Seq(Row)]
    BY <1>7, <2>2, RecordTyped DEF StreamBreaks, WriteFails, StreamEnds
  <2> QED BY <2>1, <2>3 DEF TypeOK, OutputType
<1>8. ASSUME NEW h \in Handlers, Done(h)
      PROVE  OutputType'
  <2>1. <<>> \in Seq(Try) /\ <<>> \in Seq(Row)
    OBVIOUS
  <2> QED BY <1>8, <2>1 DEF Done, Set, Statuses, TypeOK, OutputType
<1>9. CASE UNCHANGED vars
  BY <1>9 DEF vars, output, TypeOK, OutputType
<1> QED BY <1>1, <1>2, <1>3, <1>4, <1>5, <1>6, <1>7, <1>8, <1>9, StepCases, ManagerApart
        DEF Works, Prepares, Answers, Streaming

\* The locals and the response of handler g.
Mine(g) == <<at[g], size[g], body[g], reqBody[g], retried[g], tries[g],
             status[g], sent[g], kept[g], cut[g], records[g]>>

\* A handler works on its own locals only.
LEMMA OthersKept ==
  ASSUME TypeOK, OutcomeInv, NEW h \in Handlers, Works(h), NEW g \in Handlers, g # h
  PROVE  UNCHANGED Mine(g)
<1>1. at'[g] = at[g] /\ size'[g] = size[g] /\ retried'[g] = retried[g]
  BY DEF Works, Arrive, Prepares, Answers, RejectOversized, ReadFails, AskToken, NoToken, Post,
     DoFails, Unauthorized, Drained, ForceFails, Retry, Relay, Streaming, Chunk, StreamBreaks,
     WriteFails, StreamEnds, Done, Refuse, Goto, Set, input, TypeOK, InputType
<1>2. body'[g] = body[g] /\ reqBody'[g] = reqBody[g] /\ tries'[g] = tries[g]
  BY DEF Works, Arrive, Prepares, Answers, RejectOversized, ReadFails, AskToken, NoToken, Post,
     DoFails, Unauthorized, Drained, ForceFails, Retry, Relay, Streaming, Chunk, StreamBreaks,
     WriteFails, StreamEnds, Done, Refuse, Set, input, TypeOK, InputType, OutputType
<1>3. status'[g] = status[g]
  <2>1. status' = status \/ \E code : status' = [status EXCEPT ![h] = code]
    <3>1. CASE Prepares(h) \/ Answers(h)
      BY <3>1 DEF Prepares, Answers, RejectOversized, ReadFails, AskToken, NoToken, Post, DoFails,
         Unauthorized, ForceFails, Retry, Relay, Refuse, Set, output
    <3>2. CASE Arrive(h) \/ Drained(h) \/ Streaming(h) \/ Done(h)
      BY <3>2 DEF Arrive, Drained, Streaming, Chunk, StreamBreaks, WriteFails, StreamEnds, Done,
         Set, output
    <3> QED BY <3>1, <3>2 DEF Works
  <2> QED BY <2>1 DEF TypeOK, OutputType
<1>6. sent'[g] = sent[g]
  BY DEF Works, Arrive, Prepares, Answers, RejectOversized, ReadFails, AskToken, NoToken, Post,
     DoFails, Unauthorized, Drained, ForceFails, Retry, Relay, Streaming, Chunk, StreamBreaks,
     WriteFails, StreamEnds, Done, Refuse, Set, output, TypeOK, OutputType
<1>4. kept'[g] = kept[g] /\ cut'[g] = cut[g]
  BY DEF Works, Arrive, Prepares, Answers, RejectOversized, ReadFails, AskToken, NoToken, Post,
     DoFails, Unauthorized, Drained, ForceFails, Retry, Relay, Streaming, Chunk, Keep,
     StreamBreaks, WriteFails, StreamEnds, Done, Refuse, Set, output, TypeOK, OutputType
<1>5. records'[g] = records[g]
  BY DEF Works, Arrive, Prepares, Answers, RejectOversized, ReadFails, AskToken, NoToken, Post,
     DoFails, Unauthorized, Drained, ForceFails, Retry, Relay, Streaming, Chunk, StreamBreaks,
     WriteFails, StreamEnds, Done, Refuse, Record, Set, output, TypeOK, OutputType
<1> QED BY <1>1, <1>2, <1>3, <1>4, <1>5, <1>6 DEF Mine

-----------------------------------------------------------------------------
(* The body and the record.                                                 *)

\* A handler's own step keeps the facts about its locals: the body is back in
\* place when forward runs again, and it runs again once.
LEMMA LocalsStep ==
  ASSUME TypeOK, NEW h \in Handlers, Locals(h), Works(h)
  PROVE  Locals(h)'
<1> USE DEF Locals, Whole
<1>0. /\ at[h] \in Labels /\ size[h] \in Nat /\ body[h] \in Nat /\ reqBody[h] \in Nat
      /\ retried[h] \in BOOLEAN /\ tries[h] \in Seq(Try) /\ Len(tries[h]) \in Nat
  BY DEF TypeOK, InputType, OutputType
<1>1. CASE Arrive(h)
  <2>1. /\ at'[h] = "read" /\ body'[h] = size'[h] /\ at[h] = "idle"
        /\ UNCHANGED <<retried, tries, status>>
    BY <1>1 DEF Arrive, Goto, Set, output, TypeOK, InputType
  <2> QED BY <1>0, <2>1
<1>2. CASE RejectOversized(h)
  <2>1. /\ at'[h] = "end" /\ at[h] = "read" /\ status'[h] = 413
        /\ UNCHANGED <<retried, tries, size>>
    BY <1>2 DEF RejectOversized, Refuse, Goto, Set, TypeOK, InputType, OutputType
  <2> QED BY <1>0, <2>1
<1>3. CASE ReadFails(h)
  <2>1. /\ at'[h] = "end" /\ at[h] = "read" /\ status'[h] = 502
        /\ UNCHANGED <<retried, tries, size>>
    BY <1>3 DEF ReadFails, Goto, Set, input, TypeOK, InputType, OutputType
  <2> QED BY <1>0, <2>1
<1>4. CASE AskToken(h)
  <2>1. body[h] = size[h] /\ Read(h) = size[h] /\ size[h] <= MaxRequest
    BY <1>0, <1>4, LengthAssumption DEF AskToken, Read, Least
  <2>2. /\ at'[h] = "token" /\ at[h] = "read" /\ body'[h] = size[h] /\ reqBody'[h] = size[h]
        /\ UNCHANGED <<retried, tries, size, status>>
    BY <1>4, <2>1 DEF AskToken, Goto, Set, output, TypeOK, InputType
  <2> QED BY <1>0, <2>1, <2>2
<1>5. CASE NoToken(h) \/ DoFails(h) \/ ForceFails(h)
  <2>1. /\ at'[h] = "end" /\ at[h] \in {"token", "do", "force"} /\ status'[h] \in {502, 503}
        /\ UNCHANGED <<retried, tries, size>>
    BY <1>5 DEF NoToken, DoFails, ForceFails, GotAnswer, Refuse, Goto, Set, TypeOK, InputType,
       OutputType
  <2> QED BY <1>0, <2>1
<1>6. CASE Post(h)
  <2>1. PICK t : t = [token |-> picked[h], body |-> reqBody[h]]
    OBVIOUS
  <2>2. t \in Try /\ t.body = reqBody[h]
    BY <2>1 DEF Try, TypeOK, ServiceType, InputType
  <2>3. /\ at'[h] = "do" /\ at[h] = "token" /\ tries'[h] = Append(tries[h], t)
        /\ UNCHANGED <<size, body, reqBody, retried>>
    BY <1>6, <2>1 DEF Post, GotAnswer, Goto, Set, input, TypeOK, InputType, OutputType
  <2>4. /\ Len(tries'[h]) = Len(tries[h]) + 1 /\ tries'[h][Len(tries[h]) + 1] = t
        /\ \A i \in 1 .. Len(tries[h]) : tries'[h][i] = tries[h][i]
    BY <1>0, <2>2, <2>3
  <2>5. \A i \in 1 .. Len(tries'[h]) : tries'[h][i].body = size[h]
    BY <1>0, <2>2, <2>3, <2>4
  <2> QED BY <1>0, <2>3, <2>4, <2>5
<1>7. CASE Unauthorized(h) \/ Drained(h)
  <2>1. /\ at'[h] \in {"drain", "force"} /\ at[h] \in {"do", "drain"} /\ ~retried[h]
        /\ UNCHANGED <<size, body, reqBody, retried, tries, status>>
    BY <1>0, <1>7 DEF Unauthorized, Drained, Goto, Set, input, output, TypeOK, InputType
  <2> QED BY <1>0, <2>1
<1>8. CASE Retry(h)
  <2>1. /\ at'[h] = "read" /\ at[h] = "force" /\ retried'[h]
        /\ UNCHANGED <<size, body, reqBody, tries, status>>
    BY <1>8 DEF Retry, GotAnswer, Goto, Set, output, TypeOK, InputType
  <2> QED BY <1>0, <2>1
<1>9. ASSUME NEW code \in Codes, Relay(h, code)
      PROVE  Locals(h)'
  <2>1. /\ at'[h] = "stream" /\ at[h] = "do" /\ status'[h] = code
        /\ code = 401 => retried[h]
        /\ UNCHANGED <<size, body, reqBody, retried, tries>>
    BY <1>9 DEF Relay, Goto, Set, input, TypeOK, InputType, OutputType
  <2> QED BY <1>0, <2>1
<1>10. ASSUME NEW n \in 1 .. MaxResponse, Chunk(h, n)
       PROVE  Locals(h)'
  BY <1>10 DEF Chunk, input
<1>11. CASE StreamBreaks(h) \/ WriteFails(h) \/ StreamEnds(h)
  <2>1. /\ at'[h] = "end" /\ at[h] = "stream" /\ status'[h] \in {502, status[h]}
        /\ UNCHANGED <<size, retried, tries>>
    <3>1. at'[h] = "end" /\ at[h] = "stream" /\ UNCHANGED <<size, retried, tries>>
      BY <1>11 DEF StreamBreaks, WriteFails, StreamEnds, Goto, Set, input, TypeOK, InputType
    <3>2. status' = status \/ status' = [status EXCEPT ![h] = 502]
      BY <1>11 DEF StreamBreaks, WriteFails, StreamEnds, Set, TypeOK, OutputType
    <3> QED BY <3>1, <3>2 DEF TypeOK, OutputType
  <2> QED BY <1>0, <2>1
<1>12. CASE Done(h)
  <2>1. at'[h] = "idle" /\ ~retried'[h] /\ tries'[h] = <<>>
    BY <1>12 DEF Done, Goto, Set, TypeOK, InputType, OutputType
  <2> QED BY <2>1
<1> QED BY <1>1, <1>2, <1>3, <1>4, <1>5, <1>6, <1>7, <1>8, <1>9, <1>10, <1>11, <1>12
        DEF Works, Prepares, Answers, Streaming

\* Locals holds for every handler after every step.
LEMMA LocalsKept ==
  ASSUME TypeOK, OutcomeInv, LocalsInv, [Next]_vars
  PROVE  LocalsInv'
<1>1. ASSUME NEW g \in Handlers, UNCHANGED Mine(g)
      PROVE  Locals(g)'
  BY <1>1 DEF LocalsInv, Locals, Whole, Mine
<1>2. ASSUME NEW h \in Handlers, Works(h)
      PROVE  LocalsInv'
  BY <1>1, <1>2, LocalsStep, OthersKept DEF LocalsInv
<1>3. CASE UNCHANGED proxy
  BY <1>1, <1>3 DEF proxy, input, output, Mine, LocalsInv
<1>4. CASE UNCHANGED vars
  BY <1>3, <1>4 DEF vars, proxy
<1> QED BY <1>2, <1>3, <1>4, StepCases, ManagerApart

\* What a refusal records: the status of the answer, or that there was none.
LEMMA RefusalRecorded ==
  ASSUME TypeOK, NEW h \in Handlers, Outcome(h), NEW code \in {413, 502, 503},
         NEW recorded \in Statuses, NEW length \in Nat,
         at[h] \notin {"stream", "end"}, Refuse(h, code, recorded, length),
         recorded = code \/ code = 502,
         tries[h] # <<>> => length = size[h]
  PROVE  Outcome(h)'
<1>1. /\ at'[h] = "end" /\ status'[h] = code /\ sent[h] = 0 /\ records[h] = <<>>
      /\ UNCHANGED <<size, tries, sent, kept, cut>>
  BY DEF Refuse, Goto, Set, Outcome, TypeOK, InputType, OutputType
<1>2. ASSUME NEW failed \in BOOLEAN, Record(h, recorded, failed, length),
             failed = TRUE \/ code # 502
      PROVE  Outcome(h)'
  <2>1. CASE AuditEnabled
    <3>1. /\ Len(records'[h]) = 1
          /\ records'[h][1].code = recorded /\ records'[h][1].failed = failed
          /\ records'[h][1].req = Least(length, MaxBody)
          /\ records'[h][1].reqCut <=> length > MaxBody
          /\ records'[h][1].resp = kept[h] /\ records'[h][1].respCut = cut[h]
      BY <1>1, <1>2, <2>1, RecordTyped
    <3>2. records'[h] # <<>>
      BY <3>1
    <3> QED BY <1>1, <1>2, <2>1, <3>1, <3>2 DEF Outcome
  <2>2. CASE ~AuditEnabled
    <3>1. records' = records
      BY <1>2, <2>2 DEF Record
    <3> QED BY <1>1, <2>2, <3>1 DEF Outcome
  <2> QED BY <2>1, <2>2, LengthAssumption
<1>3. CASE code = 413
  <2>1. Record(h, recorded, FALSE, length)
    BY <1>3 DEF Refuse, Record
  <2>2. code # 502
    BY <1>3
  <2> QED BY <1>2, <2>1, <2>2
<1>4. CASE code # 413
  <2>1. Record(h, recorded, TRUE, length)
    BY <1>4 DEF Refuse, Record
  <2> QED BY <1>2, <2>1
<1> QED BY <1>3, <1>4

\* What the end of an answer records.
LEMMA EndRecorded ==
  ASSUME TypeOK, NEW h \in Handlers, Locals(h), Outcome(h), at[h] = "stream",
         NEW failed \in BOOLEAN, Record(h, status[h], failed, reqBody[h]),
         Goto(h, "end"), UNCHANGED <<size, tries, sent, kept, cut>>,
         \/ status'[h] = status[h]
         \/ failed /\ status'[h] = 502 /\ sent[h] = 0
  PROVE  Outcome(h)'
<1>1. /\ at'[h] = "end" /\ records[h] = <<>> /\ reqBody[h] = size[h]
      /\ status[h] \in Statuses /\ reqBody[h] \in Nat
  BY DEF Goto, Set, Outcome, Locals, TypeOK, InputType, OutputType
<1>2. CASE AuditEnabled
  <2>1. /\ Len(records'[h]) = 1
        /\ records'[h][1].code = status[h] /\ records'[h][1].failed = failed
        /\ records'[h][1].req = Least(size[h], MaxBody)
        /\ records'[h][1].reqCut <=> size[h] > MaxBody
        /\ records'[h][1].resp = kept[h] /\ records'[h][1].respCut = cut[h]
    BY <1>1, <1>2, RecordTyped
  <2>2. records'[h] # <<>>
    BY <2>1
  <2> QED BY <1>1, <1>2, <2>1, <2>2 DEF Outcome
<1>3. CASE ~AuditEnabled
  <2>1. records' = records
    BY <1>3 DEF Record
  <2> QED BY <1>1, <1>3, <2>1 DEF Outcome
<1> QED BY <1>2, <1>3, LengthAssumption

\* A chunk goes to the client whole and to the buffer as far as it fits.
LEMMA ChunkKept ==
  ASSUME TypeOK, NEW h \in Handlers, Outcome(h), NEW n \in 1 .. MaxResponse, Chunk(h, n)
  PROVE  Outcome(h)'
<1>1. /\ at[h] = "stream" /\ sent'[h] = sent[h] + n /\ n \in Nat /\ sent[h] \in Nat
      /\ UNCHANGED <<at, size, tries, status, records>>
  BY LengthAssumption DEF Chunk, Set, input, TypeOK, OutputType
<1>2. CASE AuditEnabled
  <2>1. kept[h] \in Nat /\ kept[h] <= MaxBody
    BY <1>2, BufferCapped
  <2>2. /\ kept'[h] = kept[h] + Least(n, MaxBody - kept[h])
        /\ cut'[h] <=> cut[h] \/ n > MaxBody - kept[h]
    BY <1>1, <1>2, <2>1, KeepTyped DEF Chunk
  <2>3. kept[h] = Least(sent[h], MaxBody) /\ (cut[h] <=> sent[h] > MaxBody)
    BY <1>2 DEF Outcome
  <2>4. kept'[h] = Least(sent'[h], MaxBody) /\ (cut'[h] <=> sent'[h] > MaxBody)
    BY <1>1, <2>2, <2>3, LengthAssumption DEF Least
  <2> QED BY <1>1, <2>4 DEF Outcome
<1>3. CASE ~AuditEnabled
  BY <1>1, <1>3 DEF Outcome
<1> QED BY <1>2, <1>3, LengthAssumption

\* A handler's own step keeps its buffer and its row in line with what went out.
LEMMA OutcomeStep ==
  ASSUME TypeOK, NEW h \in Handlers, Locals(h), Outcome(h), Works(h)
  PROVE  Outcome(h)'
<1>0. /\ size[h] \in Nat /\ reqBody[h] \in Nat /\ tries[h] \in Seq(Try) /\ sent[h] \in Nat
      /\ MaxRequest \in Nat /\ {0, 413, 502, 503} \subseteq Statuses
  BY LengthAssumption DEF TypeOK, InputType, OutputType, Statuses
<1>1. ASSUME UNCHANGED <<tries, output>>, at'[h] \notin {"stream", "end"},
             at[h] \notin {"stream", "end"}
      PROVE  Outcome(h)'
  BY <1>1 DEF Outcome, output
<1>2. CASE \/ Arrive(h) \/ AskToken(h) \/ Unauthorized(h) \/ Drained(h) \/ Retry(h)
  <2>1. UNCHANGED <<tries, output>>
    BY <1>2 DEF Arrive, AskToken, Unauthorized, Drained, Retry
  <2>2. at'[h] \notin {"stream", "end"} /\ at[h] \notin {"stream", "end"}
    BY <1>2 DEF Arrive, AskToken, Unauthorized, Drained, Retry, GotAnswer, Goto, Set, TypeOK,
       InputType
  <2> QED BY <1>1, <2>1, <2>2
<1>3. CASE Post(h)
  <2>1. at'[h] = "do" /\ at[h] = "token" /\ UNCHANGED output
    BY <1>3 DEF Post, GotAnswer, Goto, Set, TypeOK, InputType
  <2> QED BY <2>1 DEF Outcome, output
<1>4. CASE RejectOversized(h)
  <2>1. tries[h] = <<>>
    BY <1>0, <1>4, LengthAssumption DEF RejectOversized, Locals, Whole, Read, Least
  <2> QED BY <1>0, <1>4, <2>1, RefusalRecorded DEF RejectOversized
<1>5. CASE ReadFails(h)
  <2>1. /\ at'[h] = "end" /\ at[h] = "read" /\ status'[h] = 502 /\ tries[h] = <<>>
        /\ UNCHANGED <<size, tries, sent, kept, cut, records>>
    BY <1>0, <1>5 DEF ReadFails, Locals, Goto, Set, input, TypeOK, InputType, OutputType
  <2> QED BY <2>1 DEF Outcome
<1>6. CASE NoToken(h)
  BY <1>0, <1>6, RefusalRecorded DEF NoToken, GotAnswer, Locals
<1>7. CASE DoFails(h)
  BY <1>0, <1>7, RefusalRecorded DEF DoFails, Locals
<1>8. CASE ForceFails(h)
  BY <1>0, <1>8, RefusalRecorded DEF ForceFails, GotAnswer, Locals
<1>9. ASSUME NEW code \in Codes, Relay(h, code)
      PROVE  Outcome(h)'
  <2>1. /\ at'[h] = "stream" /\ at[h] = "do"
        /\ UNCHANGED <<size, tries, sent, kept, cut, records>>
    BY <1>9 DEF Relay, Goto, Set, input, TypeOK, InputType
  <2> QED BY <2>1 DEF Outcome
<1>10. ASSUME NEW n \in 1 .. MaxResponse, Chunk(h, n)
       PROVE  Outcome(h)'
  BY <1>10, ChunkKept
<1>11. CASE StreamBreaks(h)
  <2>1. status'[h] = IF sent[h] = 0 THEN 502 ELSE status[h]
    BY <1>11 DEF StreamBreaks, Set, TypeOK, OutputType
  <2> QED BY <1>11, <2>1, EndRecorded DEF StreamBreaks, input
<1>12. CASE WriteFails(h)
  BY <1>12, EndRecorded DEF WriteFails, input
<1>13. CASE StreamEnds(h)
  BY <1>13, EndRecorded DEF StreamEnds, input
<1>14. CASE Done(h)
  <2>1. /\ at'[h] = "idle" /\ records'[h] = <<>> /\ sent'[h] = 0 /\ kept'[h] = 0
        /\ cut'[h] = FALSE
    BY <1>14 DEF Done, Goto, Set, TypeOK, InputType, OutputType
  <2> QED BY <2>1, LengthAssumption DEF Outcome, Least
<1> QED BY <1>2, <1>3, <1>4, <1>5, <1>6, <1>7, <1>8, <1>9, <1>10, <1>11, <1>12, <1>13, <1>14
        DEF Works, Prepares, Answers, Streaming

\* Outcome holds for every handler after every step.
LEMMA OutcomeKept ==
  ASSUME TypeOK, LocalsInv, OutcomeInv, [Next]_vars
  PROVE  OutcomeInv'
<1>1. ASSUME NEW g \in Handlers, UNCHANGED Mine(g)
      PROVE  Outcome(g)'
  BY <1>1 DEF OutcomeInv, Outcome, Mine
<1>2. ASSUME NEW h \in Handlers, Works(h)
      PROVE  OutcomeInv'
  BY <1>1, <1>2, OutcomeStep, OthersKept DEF OutcomeInv, LocalsInv
<1>3. CASE UNCHANGED proxy
  BY <1>1, <1>3 DEF proxy, input, output, Mine, OutcomeInv
<1>4. CASE UNCHANGED vars
  BY <1>3, <1>4 DEF vars, proxy
<1> QED BY <1>2, <1>3, <1>4, StepCases, ManagerApart

-----------------------------------------------------------------------------
(* The call in the credential manager.                                      *)

\* What a handler's step does to its own call and to its place: outside
\* "token" and "force" the manager is left alone.
LEMMA WorkPlaces ==
  ASSUME TypeOK, NEW h \in Handlers, Works(h)
  PROVE  \/ /\ UNCHANGED service
            /\ at[h] \notin {"token", "force"} /\ at'[h] \notin {"token", "force"}
            /\ at[h] = "idle" => held # 0
         \/ /\ Token!Get(h) /\ at[h] = "read" /\ at'[h] = "token"
         \/ /\ Token!Force(h) /\ at[h] = "drain" /\ at'[h] = "force"
         \/ /\ Token!Return(h) /\ at[h] \in {"token", "force"}
            /\ at'[h] \notin {"token", "force"}
<1> USE DEF Goto, Set, TypeOK, InputType
<1>1. CASE Arrive(h) \/ Drained(h) \/ Streaming(h) \/ Done(h)
  BY <1>1 DEF Arrive, Drained, Streaming, Chunk, StreamBreaks, WriteFails, StreamEnds, Done
<1>2. CASE \/ RejectOversized(h) \/ ReadFails(h) \/ AskToken(h) \/ DoFails(h) \/ Unauthorized(h)
           \/ \E code \in Codes : Relay(h, code)
  BY <1>2 DEF RejectOversized, ReadFails, AskToken, DoFails, Unauthorized, Relay, Refuse
<1>3. CASE NoToken(h) \/ Post(h) \/ ForceFails(h) \/ Retry(h)
  BY <1>3 DEF NoToken, Post, ForceFails, Retry, GotAnswer, Refuse
<1> QED BY <1>1, <1>2, <1>3 DEF Works, Prepares, Answers

\* An answer is one handler's.
LEMMA AnswerShows ==
  ASSUME ServiceType, NEW h \in Handlers, NEW stage, NEW token, NEW success,
         Token!Answer(h, stage, token, success)
  PROVE  /\ st'[h] = stage /\ picked'[h] = token
         /\ ok' = [ok EXCEPT ![h] = success]
         /\ \A g \in Handlers \ {h} : st'[g] = st[g] /\ picked'[g] = picked[g] /\ ok'[g] = ok[g]
BY DEF ServiceType, Token!Answer

\* How the end of a refresh shows in the calls: in its owner's only.
LEMMA EndedShows ==
  ASSUME ServiceType, NEW c \in Handlers \cup {Ticker}, NEW success \in BOOLEAN,
         Token!Ended(c, success)
  PROVE  \A g \in Handlers :
           /\ picked'[g] = picked[g]
           /\ g # c => st'[g] = st[g] /\ ok'[g] = ok[g]
           /\ g = c => /\ st'[g] = IF st[g] = "get" THEN "refreshed" ELSE "done"
                       /\ ok'[g] = success
<1>1. CASE c \in Handlers
  <2>1. Token!Answer(c, IF st[c] = "get" THEN "refreshed" ELSE "done", picked[c], success)
    BY <1>1 DEF Token!Ended
  <2>2. ok'[c] = success
    BY <1>1, <2>1 DEF Token!Answer, ServiceType
  <2> QED BY <1>1, <2>1, <2>2, AnswerShows
<1>2. CASE c \notin Handlers
  BY <1>2 DEF Token!Ended, Token!calls
<1> QED BY <1>1, <1>2

\* A call is where forward waits for it, after every step of a handler,
LEMMA WorkCalling ==
  ASSUME TypeOK, OutcomeInv, CallInv, NEW h \in Handlers, Works(h)
  PROVE  CallInv'
<1>0. ServiceType /\ Calling(h)
  BY DEF TypeOK, CallInv
<1>1. \A g \in Handlers \ {h} : at'[g] = at[g]
  BY OthersKept DEF Mine
<1>2. UNCHANGED <<minted, held, owner, grant, renewed>>
  BY WorkPlaces DEF service, Token!Get, Token!Force, Token!Return, Token!flight
<1>3. held # 0
  BY WorkPlaces DEF CallInv, FlightInv
<1>4. FlightInv'
  BY <1>2, <1>3 DEF CallInv, FlightInv
<1>5. CASE UNCHANGED service
  <2>1. Calling(h)'
    BY <1>5, <1>0, WorkPlaces DEF Calling, service, Token!Get, Token!Force, Token!Return,
       Token!Answer, ServiceType
  <2>2. ASSUME NEW g \in Handlers \ {h}
        PROVE  Calling(g)'
    BY <1>1, <1>5 DEF CallInv, Calling, service
  <2> QED BY <1>4, <2>1, <2>2 DEF CallInv
<1>6. CASE Token!Get(h) \/ Token!Force(h) \/ Token!Return(h)
  <2>1. PICK stage, token, success : Token!Answer(h, stage, token, success)
    BY <1>6 DEF Token!Get, Token!Force, Token!Return
  <2>2. ASSUME NEW g \in Handlers \ {h}
        PROVE  Calling(g)'
    BY <1>0, <1>1, <1>2, <2>1, AnswerShows DEF CallInv, Calling
  <2>3. Calling(h)'
    <3>1. CASE UNCHANGED service
      BY <1>0, <1>5, <3>1 DEF CallInv
    <3>2. CASE Token!Get(h) /\ at[h] = "read" /\ at'[h] = "token"
      BY <1>0, <1>2, <3>2, AnswerShows DEF Calling, Token!Get
    <3>3. CASE Token!Force(h) /\ at[h] = "drain" /\ at'[h] = "force"
      BY <1>0, <1>2, <3>3, AnswerShows DEF Calling, Token!Force
    <3>4. CASE Token!Return(h) /\ at'[h] \notin {"token", "force"}
      BY <1>0, <1>2, <3>4, AnswerShows DEF Calling, Token!Return
    <3> QED BY <3>1, <3>2, <3>3, <3>4, WorkPlaces
  <2> QED BY <1>4, <2>2, <2>3 DEF CallInv
<1> QED BY <1>5, <1>6, WorkPlaces

\* and of the manager.
LEMMA ManagerCalling ==
  ASSUME TypeOK, CallInv, ManagerStep
  PROVE  CallInv'
<1>0. ServiceType /\ FlightInv /\ UNCHANGED at
  BY ManagerApart DEF TypeOK, CallInv, proxy
<1>1. ASSUME NEW h \in Handlers, NEW success \in BOOLEAN, Token!Skip(h, success)
      PROVE  CallInv'
  <2>1. FlightInv'
    BY <1>0, <1>1 DEF FlightInv, Token!Skip, Token!flight
  <2>2. ASSUME NEW g \in Handlers
        PROVE  Calling(g)'
    <3>1. /\ g # h => st'[g] = st[g]
          /\ g = h => st'[g] = IF st[g] = "get" THEN "refreshed" ELSE "done"
      BY <1>0, <1>1, EndedShows DEF Token!Skip
    <3>2. owner' = None /\ None # g /\ st[h] \in {"get", "force"} /\ Calling(g)
      BY <1>1, ServiceAssumption DEF Token!Skip, Token!flight, CallInv
    <3> QED BY <1>0, <3>1, <3>2 DEF Calling
  <2> QED BY <2>1, <2>2 DEF CallInv
<1>2. ASSUME NEW h \in Handlers, Token!Finish(h)
      PROVE  CallInv'
  <2>1. FlightInv' /\ owner' = owner
    BY <1>0, <1>2 DEF FlightInv, Token!Finish, Token!flight
  <2>2. PICK token, success : Token!Answer(h, "done", token, success)
    BY <1>2 DEF Token!Finish
  <2>3. ASSUME NEW g \in Handlers
        PROVE  Calling(g)'
    <3>1. /\ g # h => st'[g] = st[g]
          /\ g = h => st'[g] = "done" /\ st[g] = "refreshed"
      BY <1>0, <1>2, <2>2, AnswerShows DEF Token!Finish
    <3>2. Calling(g)
      BY DEF CallInv
    <3> QED BY <1>0, <2>1, <3>1, <3>2 DEF Calling
  <2> QED BY <2>1, <2>3 DEF CallInv
<1>3. ASSUME NEW c \in Handlers \cup {Ticker},
             Token!Lock(c) \/ Token!Mint(c) \/ Token!Install(c)
      PROVE  CallInv'
  <2>1. UNCHANGED <<st, picked, ok>> /\ owner' = c
    BY <1>3 DEF Token!Lock, Token!Mint, Token!Install, Token!calls
  <2>2. c # None /\ (c \in Handlers => st[c] \in {"get", "force"})
    BY <1>3, ServiceAssumption DEF Token!Lock, Token!Mint, Token!Install, CallInv, Calling
  <2>3. FlightInv'
    <3>1. CASE Token!Lock(c)
      BY <1>0, <2>1, <2>2, <3>1 DEF FlightInv, Token!Lock, ServiceType
    <3>2. CASE Token!Mint(c)
      BY <1>0, <2>1, <2>2, <3>2 DEF FlightInv, Token!Mint, ServiceType
    <3>3. CASE Token!Install(c)
      BY <1>0, <2>1, <2>2, <3>3 DEF FlightInv, Token!Install, ServiceType
    <3> QED BY <1>3, <3>1, <3>2, <3>3
  <2>4. ASSUME NEW g \in Handlers
        PROVE  Calling(g)'
    BY <1>0, <2>1, <2>2 DEF CallInv, Calling
  <2> QED BY <2>3, <2>4 DEF CallInv
<1>4. ASSUME NEW c \in Handlers \cup {Ticker}, Token!Unlock(c) \/ Token!Lose(c)
      PROVE  CallInv'
  <2>1. owner = c /\ owner' = None /\ c # None
    BY <1>4, ServiceAssumption DEF Token!Unlock, Token!Lose
  <2>2. FlightInv'
    <3>1. CASE Token!Unlock(c)
      BY <1>0, <2>1, <3>1 DEF FlightInv, Token!Unlock, ServiceType
    <3>2. CASE Token!Lose(c)
      BY <1>0, <2>1, <3>2 DEF FlightInv, Token!Lose, ServiceType
    <3> QED BY <1>4, <3>1, <3>2
  <2>3. PICK success \in BOOLEAN : Token!Ended(c, success)
    BY <1>4, <1>0 DEF Token!Unlock, Token!Lose, ServiceType
  <2>4. ASSUME NEW g \in Handlers
        PROVE  Calling(g)'
    <3>1. /\ g # c => st'[g] = st[g]
          /\ g = c => st'[g] = IF st[g] = "get" THEN "refreshed" ELSE "done"
      BY <1>0, <2>3, EndedShows
    <3>2. None # g /\ Calling(g)
      BY ServiceAssumption DEF CallInv
    <3> QED BY <1>0, <2>1, <3>1, <3>2 DEF Calling
  <2> QED BY <2>2, <2>4 DEF CallInv
<1>5. CASE Token!Provide
  <2>1. UNCHANGED <<minted, owner, grant, renewed, st, picked, ok>> /\ held' \in 1 .. minted
    BY <1>5 DEF Token!Provide, Token!flight, Token!calls
  <2>2. FlightInv'
    BY <1>0, <2>1 DEF FlightInv, ServiceType
  <2> QED BY <1>0, <2>1, <2>2 DEF CallInv, Calling
<1> QED BY <1>1, <1>2, <1>3, <1>4, <1>5, ManagerCalls DEF Token!CallStep

-----------------------------------------------------------------------------
(* Which token a request carries.                                           *)

\* The manager loads a file where none was loaded, or counts as reloaded.
LEMMA ProvideShows ==
  ASSUME ServiceType, ManagerStep
  PROVE  /\ reloaded => reloaded'
         /\ \/ \E h \in Handlers : Token!CallStep(h)
            \/ \E c \in Handlers \cup {Ticker} :
                 Token!Lock(c) \/ Token!Mint(c) \/ Token!Install(c) \/ Token!Unlock(c)
                   \/ Token!Lose(c)
            \/ Token!Provide /\ (held = 0 \/ reloaded')
BY DEF ManagerStep, CallMoves, Refresh, AnswerLost, Load, Reload, ProactiveTick, budget

\* A request that goes upstream carries the token its call has picked.
LEMMA PostNewer ==
  ASSUME TypeOK, NEW h \in Handlers, Locals(h), Newer(h), Post(h)
  PROVE  Newer(h)'
<1>1. PICK t : t = [token |-> picked[h], body |-> reqBody[h]]
  OBVIOUS
<1>2. t \in Try /\ t.token = picked[h] /\ picked[h] \in Nat
  BY <1>1 DEF Try, TypeOK, ServiceType, InputType
<1>3. /\ at'[h] = "do" /\ at[h] = "token" /\ tries'[h] = Append(tries[h], t)
      /\ UNCHANGED <<held, retried>>
  BY <1>1 DEF Post, GotAnswer, Goto, Set, input, Token!Return, TypeOK, InputType, OutputType
<1>4. /\ tries[h] \in Seq(Try) /\ retried[h] \in BOOLEAN
      /\ Len(tries[h]) = IF retried[h] THEN 1 ELSE 0
  BY <1>3 DEF Locals, TypeOK, InputType, OutputType
<1>5. /\ ~retried[h] => Len(tries'[h]) = 1 /\ tries'[h][1] = t
      /\ retried[h] => Len(tries'[h]) = 2 /\ tries'[h][1] = tries[h][1] /\ tries'[h][2] = t
  BY <1>2, <1>3, <1>4
<1> QED BY <1>2, <1>3, <1>4, <1>5 DEF Newer, First

\* A handler's step keeps the order of its tokens: forward runs again only
\* after a refresh of its own put a newer one there.
LEMMA WorkNewer ==
  ASSUME TypeOK, LocalsInv, OutcomeInv, CallInv, NewerInv, NEW h \in Handlers, Works(h)
  PROVE  NewerInv'
<1>0. ServiceType /\ Locals(h) /\ Calling(h)
  BY DEF TypeOK, LocalsInv, CallInv
<1>1. UNCHANGED <<minted, held, owner, grant, renewed>>
  BY WorkPlaces DEF service, Token!Get, Token!Force, Token!Return, Token!flight
<1>2. reloaded' = reloaded
  BY DEF Works, Arrive, Prepares, Answers, RejectOversized, ReadFails, AskToken, NoToken, Post,
     DoFails, Unauthorized, Drained, ForceFails, Retry, Relay, Streaming, Chunk, StreamBreaks,
     WriteFails, StreamEnds, Done, Refuse, budget
<1> SUFFICES ASSUME ~reloaded PROVE NewerInv'
  BY <1>2 DEF NewerInv
<1>3. Newer(h) /\ (grant # 0 => held < grant)
  BY DEF NewerInv
<1>4. ASSUME NEW g \in Handlers \ {h}
      PROVE  Newer(g)'
  <2>1. UNCHANGED Mine(g) /\ Newer(g)
    BY OthersKept DEF NewerInv
  <2>2. st'[g] = st[g] /\ picked'[g] = picked[g] /\ ok'[g] = ok[g]
    BY <1>0, WorkCalls, AnswerShows DEF service, Token!Get, Token!Force, Token!Return
  <2> QED BY <1>1, <2>1, <2>2 DEF Newer, First, Mine
<1>5. Newer(h)'
  <2>0. Len(tries[h]) \in Nat /\ retried[h] \in BOOLEAN
    BY DEF TypeOK, InputType, OutputType
  <2>1. ASSUME UNCHANGED <<service, tries, retried>>, at[h] # "end",
               at'[h] \notin {"token", "force"}
        PROVE  Newer(h)'
    BY <1>3, <2>1 DEF Newer, First, service
  <2>2. CASE Arrive(h) \/ RejectOversized(h) \/ ReadFails(h) \/ DoFails(h) \/ Unauthorized(h)
    <3>1. UNCHANGED <<service, tries, retried>> /\ at[h] # "end"
      BY <2>2 DEF Arrive, RejectOversized, ReadFails, DoFails, Unauthorized, Refuse, input
    <3>2. at'[h] \notin {"token", "force"}
      BY <2>2 DEF Arrive, RejectOversized, ReadFails, DoFails, Unauthorized, Refuse, Goto, Set,
         TypeOK, InputType
    <3> QED BY <2>1, <3>1, <3>2
  <2>3. ASSUME NEW code \in Codes, Relay(h, code)
        PROVE  Newer(h)'
    BY <2>1, <2>3 DEF Relay, input, Goto, Set, TypeOK, InputType
  <2>4. CASE Streaming(h)
    <3>1. UNCHANGED <<service, tries, retried>> /\ at[h] # "end"
      BY <2>4 DEF Streaming, Chunk, StreamBreaks, WriteFails, StreamEnds, input
    <3>2. at'[h] \notin {"token", "force"}
      BY <2>4 DEF Streaming, Chunk, StreamBreaks, WriteFails, StreamEnds, Goto, Set, TypeOK,
         InputType
    <3> QED BY <2>1, <3>1, <3>2
  <2>5. CASE AskToken(h)
    <3>1. at[h] = "read" /\ at'[h] = "token" /\ UNCHANGED <<tries, retried>>
      BY <2>5 DEF AskToken, Goto, Set, TypeOK, InputType
    <3>2. picked'[h] = held
      BY <1>0, <2>5, AnswerShows DEF AskToken, Token!Get
    <3> QED BY <1>0, <1>1, <1>3, <3>1, <3>2 DEF Newer, First, ServiceType
  <2>6. CASE Drained(h)
    <3>1. at[h] = "drain" /\ at'[h] = "force" /\ UNCHANGED <<tries, retried>>
      BY <2>6 DEF Drained, input, Goto, Set, TypeOK, InputType
    <3>2. st[h] = "idle" /\ st'[h] = "force" /\ owner # h
      BY <1>0, <2>6, <3>1, AnswerShows DEF Drained, Token!Force, Calling
    <3> QED BY <1>1, <1>3, <3>1, <3>2 DEF Newer, First
  <2>7. CASE NoToken(h) \/ ForceFails(h)
    <3>1. at[h] # "end" /\ at'[h] = "end" /\ UNCHANGED <<tries, retried>>
      BY <2>7 DEF NoToken, ForceFails, GotAnswer, Refuse, Goto, Set, TypeOK, InputType
    <3> QED BY <1>1, <1>3, <3>1 DEF Newer, First
  <2>8. CASE Post(h)
    BY <1>0, <1>3, <2>8, PostNewer
  <2>9. CASE Retry(h)
    <3>1. /\ at[h] = "force" /\ at'[h] = "read" /\ retried'[h] /\ tries' = tries
          /\ st[h] = "done" /\ ok[h]
      BY <2>9 DEF Retry, GotAnswer, Goto, Set, TypeOK, InputType
    <3> QED BY <1>1, <1>3, <3>1 DEF Newer, First
  <2>10. CASE Done(h)
    <3>1. at'[h] = "idle" /\ ~retried'[h] /\ tries'[h] = <<>>
      BY <2>10 DEF Done, Goto, Set, TypeOK, InputType, OutputType
    <3> QED BY <3>1 DEF Newer
  <2> QED BY <2>2, <2>3, <2>4, <2>5, <2>6, <2>7, <2>8, <2>9, <2>10 DEF Works, Prepares, Answers
<1> QED BY <1>1, <1>3, <1>4, <1>5 DEF NewerInv

\* The manager's steps keep it for every handler: what it installs is newer
\* than what it had.
LEMMA ManagerNewer ==
  ASSUME TypeOK, LocalsInv, CallInv, NewerInv, ManagerStep
  PROVE  NewerInv'
<1>0. ServiceType /\ FlightInv /\ UNCHANGED proxy
  BY ManagerApart DEF TypeOK, CallInv
<1>1. UNCHANGED <<at, retried, tries>>
  BY <1>0 DEF proxy, input
<1> SUFFICES ASSUME ~reloaded' PROVE NewerInv'
  BY DEF NewerInv
<1>2. /\ ~reloaded /\ (grant # 0 => held < grant)
      /\ \A g \in Handlers : Newer(g) /\ Calling(g) /\ Locals(g)
  BY <1>0, ProvideShows DEF NewerInv, CallInv, LocalsInv
<1>3. ASSUME NEW h \in Handlers, NEW success \in BOOLEAN, Token!Skip(h, success)
      PROVE  NewerInv'
  <2>1. UNCHANGED <<minted, held, owner, grant, renewed>> /\ st[h] \in {"get", "force"}
        /\ (success => st[h] = "get")
    BY <1>3 DEF Token!Skip, Token!flight
  <2>2. ASSUME NEW g \in Handlers
        PROVE  Newer(g)'
    <3>1. /\ picked'[g] = picked[g]
          /\ g # h => st'[g] = st[g] /\ ok'[g] = ok[g]
          /\ g = h => ok'[g] = success
      BY <1>0, <1>3, EndedShows DEF Token!Skip
    <3>2. at[h] = "force" => ~success
      BY <1>2, <2>1 DEF Calling
    <3> QED BY <1>1, <1>2, <2>1, <3>1, <3>2 DEF Newer, First
  <2> QED BY <1>2, <2>1, <2>2 DEF NewerInv
<1>4. ASSUME NEW h \in Handlers, Token!Finish(h)
      PROVE  NewerInv'
  <2>1. UNCHANGED <<minted, held, owner, grant, renewed>> /\ at[h] = "token"
    BY <1>2, <1>4 DEF Token!Finish, Token!flight, Calling
  <2>2. PICK token \in {held, picked[h]}, success \in BOOLEAN :
          Token!Answer(h, "done", token, success)
    BY <1>4 DEF Token!Finish
  <2>3. ASSUME NEW g \in Handlers
        PROVE  Newer(g)'
    <3>1. /\ g # h => st'[g] = st[g] /\ ok'[g] = ok[g] /\ picked'[g] = picked[g]
          /\ g = h => picked'[g] = token
      BY <1>0, <2>2, AnswerShows
    <3> QED BY <1>0, <1>1, <1>2, <2>1, <3>1 DEF Newer, First, ServiceType
  <2> QED BY <1>2, <2>1, <2>3 DEF NewerInv
<1>5. ASSUME NEW c \in Handlers \cup {Ticker}, Token!Lock(c) \/ Token!Mint(c)
      PROVE  NewerInv'
  <2>1. UNCHANGED <<held, renewed, st, picked, ok>> /\ ~renewed
    BY <1>0, <1>5 DEF Token!Lock, Token!Mint, Token!calls, FlightInv
  <2>2. grant' # 0 => held < grant'
    BY <1>0, <1>2, <1>5 DEF Token!Lock, Token!Mint, FlightInv, ServiceType
  <2> QED BY <1>1, <1>2, <2>1, <2>2 DEF NewerInv, Newer, First
<1>6. ASSUME NEW c \in Handlers \cup {Ticker}, Token!Install(c)
      PROVE  NewerInv'
  <2>1. UNCHANGED <<st, picked, ok>> /\ held < held' /\ grant' = 0
    BY <1>2, <1>6 DEF Token!Install, Token!calls
  <2>2. held \in Nat /\ held' \in Nat /\ picked \in [Handlers -> Nat]
    BY <1>0, <1>6 DEF Token!Install, ServiceType
  <2>3. ASSUME NEW g \in Handlers
        PROVE  Newer(g)'
    <3>1. Newer(g) /\ Len(tries[g]) \in Nat /\ tries[g] \in Seq(Try)
      BY <1>2 DEF TypeOK, OutputType
    <3>2. Len(tries[g]) > 0 => First(g) \in Nat
      <4>1. Len(tries[g]) > 0 => tries[g][1] \in Try
        BY <3>1
      <4> QED BY <4>1 DEF First, Try
    <3>3. at[g] \in {"force"} \/ (retried[g] /\ at[g] # "end") => Len(tries[g]) > 0
      <4>1. Locals(g) /\ at[g] \in Labels
        BY <1>2 DEF TypeOK, InputType
      <4> QED BY <4>1 DEF Locals, Labels
    <3> QED BY <1>1, <2>1, <2>2, <3>1, <3>2, <3>3 DEF Newer, First
  <2> QED BY <2>1, <2>3 DEF NewerInv
<1>7. ASSUME NEW c \in Handlers \cup {Ticker}, Token!Unlock(c) \/ Token!Lose(c)
      PROVE  NewerInv'
  <2>1. /\ UNCHANGED <<held, grant>> /\ owner = c /\ owner' = None
    BY <1>7 DEF Token!Unlock, Token!Lose
  <2>2. PICK success \in BOOLEAN : Token!Ended(c, success) /\ (success => renewed)
    BY <1>7, <1>0 DEF Token!Unlock, Token!Lose, ServiceType
  <2>3. ASSUME NEW g \in Handlers
        PROVE  Newer(g)'
    <3>1. /\ picked'[g] = picked[g]
          /\ g # c => st'[g] = st[g] /\ ok'[g] = ok[g]
          /\ g = c => ok'[g] = success
      BY <1>0, <2>2, EndedShows
    <3>2. None # g
      BY ServiceAssumption
    <3> QED BY <1>1, <1>2, <2>1, <2>2, <3>1, <3>2 DEF Newer, First
  <2> QED BY <1>2, <2>1, <2>3 DEF NewerInv
<1>8. CASE Token!Provide /\ held = 0
  <2>1. grant' = 0 /\ UNCHANGED <<owner, renewed, st, picked, ok>>
    BY <1>0, <1>8 DEF Token!Provide, Token!flight, Token!calls, FlightInv
  <2>2. ASSUME NEW g \in Handlers
        PROVE  Newer(g)'
    <3>1. at'[g] = "idle" /\ ~retried'[g] /\ Len(tries'[g]) = 0
      BY <1>0, <1>1, <1>2, <1>8 DEF FlightInv, Locals
    <3> QED BY <3>1 DEF Newer
  <2> QED BY <2>1, <2>2 DEF NewerInv
<1> QED BY <1>0, <1>3, <1>4, <1>5, <1>6, <1>7, <1>8, ProvideShows DEF Token!CallStep

-----------------------------------------------------------------------------
(* The theorems.                                                            *)

ForwardInv == TypeOK /\ LocalsInv /\ OutcomeInv /\ CallInv /\ NewerInv

\* At the start nobody serves a request and no token is loaded.
LEMMA ForwardInit == Init => ForwardInv
<1> SUFFICES ASSUME Init PROVE ForwardInv
  OBVIOUS
<1> USE LengthAssumption, ServiceAssumption DEF Init, Token!Init
<1>1. ServiceType
  BY DEF ServiceType, Stages
<1>2. InputType
  BY DEF InputType, Labels
<1>3. OutputType
  <2>1. <<>> \in Seq(Try) /\ <<>> \in Seq(Row)
    OBVIOUS
  <2> QED BY <2>1 DEF OutputType, Statuses
<1>4. LocalsInv
  <2> SUFFICES ASSUME NEW h \in Handlers PROVE Locals(h)
    BY DEF LocalsInv
  <2>1. at[h] = "idle" /\ ~retried[h] /\ Len(tries[h]) = 0
    OBVIOUS
  <2> QED BY <2>1 DEF Locals
<1>5. OutcomeInv
  <2> SUFFICES ASSUME NEW h \in Handlers PROVE Outcome(h)
    BY DEF OutcomeInv
  <2>1. /\ at[h] = "idle" /\ records[h] = <<>> /\ Len(records[h]) = 0
        /\ sent[h] = 0 /\ kept[h] = 0 /\ cut[h] = FALSE
    OBVIOUS
  <2> QED BY <2>1 DEF Outcome, Least
<1>6. CallInv
  BY DEF CallInv, FlightInv, Calling
<1>7. NewerInv
  BY DEF NewerInv, Newer
<1> QED BY <1>1, <1>2, <1>3, <1>4, <1>5, <1>6, <1>7 DEF ForwardInv, TypeOK

\* A step that changes nothing disturbs nothing.
LEMMA ForwardRests == ForwardInv /\ UNCHANGED vars => CallInv' /\ NewerInv'
BY DEF ForwardInv, CallInv, FlightInv, Calling, NewerInv, Newer, First, vars, service, input, budget

\* A step begins one thing at most, and only a reload counts as one.
LEMMA StartsCounted ==
  ASSUME [Next]_vars
  PROVE  /\ started' = started \/ started' = started + 1
         /\ reloaded' = reloaded \/ reloaded' = TRUE
<1>1. CASE UNCHANGED vars
  BY <1>1 DEF vars, budget
<1>2. ASSUME NEW h \in Handlers, Prepares(h) \/ Answers(h)
      PROVE  UNCHANGED budget
  BY <1>2 DEF Prepares, Answers, RejectOversized, ReadFails, AskToken, NoToken, Post, DoFails,
     Unauthorized, ForceFails, Retry, Relay, Refuse
<1>3. ASSUME NEW h \in Handlers, Drained(h) \/ Streaming(h) \/ Done(h)
      PROVE  UNCHANGED budget
  BY <1>3 DEF Drained, Streaming, Chunk, StreamBreaks, WriteFails, StreamEnds, Done
<1>4. ASSUME NEW h \in Handlers, Arrive(h)
      PROVE  started' = started + 1 /\ reloaded' = reloaded
  BY <1>4 DEF Arrive, MayStart
<1>5. CASE ManagerStep
  BY <1>5 DEF ManagerStep, CallMoves, Refresh, AnswerLost, Load, Reload, ProactiveTick, MayStart,
     budget
<1> QED BY <1>1, <1>2, <1>3, <1>4, <1>5, StepCases DEF Works, budget

\* The invariant is inductive.
LEMMA ForwardStep == ForwardInv /\ [Next]_vars => ForwardInv'
<1> SUFFICES ASSUME ForwardInv, [Next]_vars PROVE ForwardInv'
  OBVIOUS
<1> USE DEF ForwardInv
<1>1. ServiceType' /\ InputType' /\ OutputType'
  BY ServiceTyped, InputTyped, OutputTyped DEF TypeOK
<1>2. started' \in Nat
  <2>1. started' = started \/ started' = started + 1
    BY StepCases, StartsCounted
  <2> QED BY <2>1 DEF TypeOK
<1>5. reloaded' \in BOOLEAN
  BY StepCases, StartsCounted DEF TypeOK
<1>3. LocalsInv' /\ OutcomeInv'
  BY LocalsKept, OutcomeKept
<1>4. CallInv' /\ NewerInv'
  <2>1. CASE UNCHANGED vars
    BY <2>1, ForwardRests
  <2>2. CASE ManagerStep
    BY <2>2, ManagerCalling, ManagerNewer
  <2>3. CASE \E h \in Handlers : Works(h)
    BY <2>3, WorkCalling, WorkNewer
  <2> QED BY <2>1, <2>2, <2>3, StepCases
<1> QED BY <1>1, <1>2, <1>3, <1>4, <1>5 DEF TypeOK

\* A sequence of at most one element that is not empty has one.
LEMMA SingleRow ==
  ASSUME NEW rs \in Seq(Row), rs # <<>>, Len(rs) <= 1
  PROVE  Len(rs) = 1
<1>1. Len(rs) \in Nat /\ Len(rs) # 0
  OBVIOUS
<1> QED BY <1>1

\* The invariant holds of every state the proxy reaches.
THEOREM ForwardInvariant == Spec => []ForwardInv
BY ForwardInit, ForwardStep, PTL DEF Spec

\* API.md: "On upstream 401, the proxy force-refreshes the session token and
\* retries once" (Handler and forward of proxy.go).  However the handlers, the
\* ticker and the reloads share the manager, at most two requests go upstream,
\* and a second carries a newer token than the one that was refused.
THEOREM RetriesOnce == Spec => []RetriesOnceWithNewToken
<1>1. ForwardInv => RetriesOnceWithNewToken
  <2> SUFFICES ASSUME ForwardInv, NEW h \in Handlers
               PROVE  /\ Len(tries[h]) <= 2
                      /\ at[h] \in {"stream", "end"} /\ status[h] = 401 => Len(tries[h]) = 2
                      /\ ~reloaded /\ Len(tries[h]) = 2
                           => tries[h][1].token < tries[h][2].token
    BY DEF RetriesOnceWithNewToken
  <2>1. Locals(h) /\ at[h] \in Labels /\ (~reloaded => Newer(h))
    BY DEF ForwardInv, LocalsInv, NewerInv, TypeOK, InputType
  <2> QED BY <2>1 DEF Locals, Labels, Newer, First
<1> QED BY <1>1, ForwardInvariant, PTL

\* forward: "an oversized request must be rejected outright, not silently
\* truncated".  What goes upstream is the client's whole body, the second time
\* too.
THEOREM WholeBodyForwarded == Spec => []ForwardsWholeBody
<1>1. ForwardInv => ForwardsWholeBody
  BY DEF ForwardInv, LocalsInv, Locals, Whole, ForwardsWholeBody
<1> QED BY <1>1, ForwardInvariant, PTL

\* One request leaves one row, at its end, with its outcome.
THEOREM RecordedOnce == Spec => []OneTrueRecord
<1>1. ForwardInv => OneTrueRecord
  <2> SUFFICES ASSUME ForwardInv, AuditEnabled, NEW h \in Handlers
               PROVE  /\ Len(records[h]) <= 1
                      /\ at[h] \in {"read", "token", "do", "drain", "force", "stream"}
                           => records[h] = <<>>
                      /\ at[h] = "end" /\ records[h] = <<>> => status[h] = 502 /\ tries[h] = <<>>
                      /\ at[h] = "end" /\ records[h] # <<>> =>
                           \/ records[h][1].code = status[h]
                           \/ records[h][1].failed /\ status[h] = 502 /\ sent[h] = 0
    BY DEF OneTrueRecord
  <2>1. Outcome(h)
    BY DEF ForwardInv, OutcomeInv
  <2> QED BY <2>1 DEF Outcome
<1> QED BY <1>1, ForwardInvariant, PTL

\* recordAudit and the tee: the row of an answered request holds the beginning
\* of both bodies, and its flags tell whether there was more.
THEOREM TruncationFlagged == Spec => []RecordFlagsTruncation
<1>1. ForwardInv => RecordFlagsTruncation
  <2> SUFFICES ASSUME ForwardInv, NEW h \in Handlers,
                      at[h] = "end", records[h] # <<>>, tries[h] # <<>>
               PROVE  /\ records[h][1].req = Least(size[h], MaxBody)
                      /\ records[h][1].reqCut = (size[h] > MaxBody)
                      /\ records[h][1].resp = Least(sent[h], MaxBody)
                      /\ records[h][1].respCut = (sent[h] > MaxBody)
    BY DEF RecordFlagsTruncation
  <2>1. Outcome(h) /\ records[h] \in Seq(Row)
    BY DEF ForwardInv, OutcomeInv, TypeOK, OutputType
  <2>2. Len(records[h]) = 1
    BY <2>1, SingleRow DEF Outcome
  <2>3. records[h][1] \in Row
    BY <2>1, <2>2
  <2>4. records[h][1].reqCut \in BOOLEAN /\ records[h][1].respCut \in BOOLEAN
    BY <2>3 DEF Row
  <2> QED BY <2>1, <2>4 DEF Outcome
<1> QED BY <1>1, ForwardInvariant, PTL
=============================================================================
