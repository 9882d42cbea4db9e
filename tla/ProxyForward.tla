---------------------------- MODULE ProxyForward ----------------------------
(***************************************************************************)
(* The upstream proxy (internal/proxy/proxy.go): Handler and forward, from *)
(* the request body to the audit record, with the one retry after a 401,   *)
(* composed with the credential manager it calls, for which TokenService   *)
(* stands.  Bodies are modelled by their lengths.  The upstream (xAI) and  *)
(* the client are external: the one answers, fails or breaks off as it     *)
(* likes, the other may go away.  Headers, URLs and the model name of a    *)
(* record are not modelled.  BROKEN marks a definition kept as a mutant.   *)
(***************************************************************************)
EXTENDS Naturals, Sequences

CONSTANTS
  Handlers,      \* goroutines that serve requests
  Ticker, None, FirstGrants,  \* of TokenService
  Sizes,         \* lengths of request bodies
  Codes,         \* statuses the upstream answers with
  MaxRequest,    \* maxRequest
  MaxBody,       \* maxBody, the audit cap
  AuditEnabled,
  MaxResponse,   \* bound: length of a response body
  MaxStarts      \* bound: requests, ticks, reloads and lost answers in all

ASSUME LengthAssumption ==
  /\ {MaxRequest, MaxBody} \subseteq Nat \ {0} /\ MaxResponse \in Nat
  /\ Sizes \subseteq Nat /\ AuditEnabled \in BOOLEAN

ASSUME ServiceAssumption ==
  /\ FirstGrants \in Nat \ {0}
  /\ Ticker \notin Handlers /\ None \notin Handlers \cup {Ticker}

ASSUME BoundAssumption == MaxStarts \in Nat

VARIABLES
  minted, held, owner, grant, renewed, st, picked, ok,  \* of TokenService
  at,        \* where each handler is
  size,      \* the length of the client's request body
  body,      \* what c.Request.Body still holds
  reqBody,   \* what forward has read of it
  retried,   \* forward's parameter
  tries,     \* what went upstream: token and body of each request
  status,    \* the status the client got; 0: none yet
  sent,      \* bytes of the response written to the client
  kept, cut, \* respBuf and respTrunc
  records,   \* the rows given to InsertAuditLog
  started,   \* what was begun, at most MaxStarts
  reloaded   \* has a file been loaded again

Token == INSTANCE TokenService WITH Clients <- Handlers

service == <<minted, held, owner, grant, renewed, st, picked, ok>>
input == <<size, body, reqBody, retried>>
output == <<status, sent, kept, cut, records>>
budget == <<started, reloaded>>
vars == <<service, at, input, tries, output, budget>>

Least(m, n) == IF m < n THEN m ELSE n
Set(var, h, v) == [var EXCEPT ![h] = v]
Goto(h, label) == at' = Set(at, h, label)

-----------------------------------------------------------------------------
Init ==
  /\ Token!Init
  /\ at = [h \in Handlers |-> "idle"]
  /\ size = [h \in Handlers |-> 0] /\ body = [h \in Handlers |-> 0]
  /\ reqBody = [h \in Handlers |-> 0] /\ retried = [h \in Handlers |-> FALSE]
  /\ tries = [h \in Handlers |-> <<>>]
  /\ status = [h \in Handlers |-> 0] /\ sent = [h \in Handlers |-> 0]
  /\ kept = [h \in Handlers |-> 0] /\ cut = [h \in Handlers |-> FALSE]
  /\ records = [h \in Handlers |-> <<>>]
  /\ started = 0 /\ reloaded = FALSE

MayStart == started < MaxStarts /\ started' = started + 1

\* A request passes the middleware and reaches Handler.
Arrive(h) ==
  /\ at[h] = "idle" /\ held # 0 /\ MayStart
  /\ \E s \in Sizes : size' = Set(size, h, s) /\ body' = Set(body, h, s)
  /\ Goto(h, "read")
  /\ UNCHANGED <<service, reqBody, retried, tries, output, reloaded>>

\* recordAudit: bodies are clamped for the row only; code 0 is "no answer".
Record(h, code, failed, length) ==
  records' = IF ~AuditEnabled THEN records ELSE
    [records EXCEPT ![h] = Append(@,
      [code |-> code, failed |-> failed,
       req |-> Least(length, MaxBody), reqCut |-> length > MaxBody,
       resp |-> kept[h], respCut |-> cut[h]])]

\* The handler answers by itself and records it.
Refuse(h, code, recorded, length) ==
  /\ status' = Set(status, h, code)
  /\ Record(h, recorded, code # 413, length)
  /\ Goto(h, "end")
  /\ UNCHANGED <<size, retried, tries, sent, kept, cut, budget>>

-----------------------------------------------------------------------------
(* forward, up to the request that goes upstream.                           *)

\* readLimited reads up to one byte more than allowed, to see if it is there.
Read(h) == Least(body[h], MaxRequest + 1)

RejectOversized(h) ==
  /\ at[h] = "read" /\ Read(h) > MaxRequest
  /\ reqBody' = Set(reqBody, h, MaxRequest)
  /\ body' = Set(body, h, body[h] - Read(h))
  /\ Refuse(h, 413, 413, MaxRequest)
  /\ UNCHANGED service

\* The body breaks off: Handler answers 502, nothing is recorded.
ReadFails(h) ==
  /\ at[h] = "read" /\ ~retried[h]
  /\ status' = Set(status, h, 502)
  /\ Goto(h, "end")
  /\ UNCHANGED <<service, input, tries, sent, kept, cut, records, budget>>

\* BROKEN: the body that was read is not put back.
AskTokenBroken(h) ==
  /\ at[h] = "read" /\ Read(h) <= MaxRequest
  /\ reqBody' = Set(reqBody, h, Read(h))
  /\ body' = Set(body, h, body[h] - Read(h))
  /\ Token!Get(h)
  /\ Goto(h, "token")
  /\ UNCHANGED <<size, retried, tries, output, budget>>

\* The body is put back where a second forward will find it.
AskToken(h) ==
  /\ at[h] = "read" /\ Read(h) <= MaxRequest
  /\ reqBody' = Set(reqBody, h, Read(h))
  /\ body' = Set(body, h, Read(h))
  /\ Token!Get(h)
  /\ Goto(h, "token")
  /\ UNCHANGED <<size, retried, tries, output, budget>>

GotAnswer(h, label) == at[h] = label /\ st[h] = "done" /\ Token!Return(h)

NoToken(h) ==
  /\ GotAnswer(h, "token") /\ ~ok[h]
  /\ Refuse(h, 503, 503, reqBody[h])
  /\ UNCHANGED <<body, reqBody>>

Post(h) ==
  /\ GotAnswer(h, "token") /\ ok[h]
  /\ tries' = [tries EXCEPT ![h] = Append(@, [token |-> picked[h], body |-> reqBody[h]])]
  /\ Goto(h, "do")
  /\ UNCHANGED <<input, output, budget>>

\* Do fails: nothing was written yet, so Handler answers 502.
DoFails(h) ==
  /\ at[h] = "do"
  /\ Refuse(h, 502, 0, reqBody[h])
  /\ UNCHANGED <<service, body, reqBody>>

-----------------------------------------------------------------------------
(* The upstream's answer.                                                   *)

\* BROKEN: the first 401 is recorded as well.
UnauthorizedBroken(h) ==
  /\ at[h] = "do" /\ 401 \in Codes /\ ~retried[h]
  /\ Goto(h, "drain")
  /\ UNCHANGED <<service, input, tries, status, sent, kept, cut, budget>>
  /\ Record(h, 401, FALSE, reqBody[h])

\* The first 401: its body is read to the end, unseen, ...
Unauthorized(h) ==
  /\ at[h] = "do" /\ 401 \in Codes /\ ~retried[h]
  /\ Goto(h, "drain")
  /\ UNCHANGED <<service, input, tries, output, budget>>

\* ... and the token is refreshed,
Drained(h) ==
  /\ at[h] = "drain" /\ Token!Force(h)
  /\ Goto(h, "force")
  /\ UNCHANGED <<input, tries, output, budget>>

\* in vain,
ForceFails(h) ==
  /\ GotAnswer(h, "force") /\ ~ok[h]
  /\ Refuse(h, 502, 502, reqBody[h])
  /\ UNCHANGED <<body, reqBody>>

\* or with success, and forward runs once more.
Retry(h) ==
  /\ GotAnswer(h, "force") /\ ok[h]
  /\ retried' = Set(retried, h, TRUE)
  /\ Goto(h, "read")
  /\ UNCHANGED <<size, body, reqBody, tries, output, budget>>

\* Any other answer, and a second 401, is the client's.
Relay(h, code) ==
  /\ at[h] = "do" /\ (code = 401 => retried[h])
  /\ status' = Set(status, h, code)
  /\ Goto(h, "stream")
  /\ UNCHANGED <<service, input, tries, sent, kept, cut, records, budget>>

\* BROKEN: a chunk that fills the buffer exactly counts as cut.
KeepBroken(h, n) ==
  LET remain == MaxBody - kept[h]
  IN  /\ kept' = Set(kept, h, kept[h] + Least(n, remain))
      /\ cut' = Set(cut, h, cut[h] \/ n >= remain)

\* The tee of a chunk of n bytes into the audit buffer.
Keep(h, n) ==
  LET remain == MaxBody - kept[h]
  IN  /\ kept' = Set(kept, h, kept[h] + Least(n, remain))
      /\ cut' = Set(cut, h, cut[h] \/ n > remain)

Chunk(h, n) ==
  /\ at[h] = "stream" /\ sent[h] + n <= MaxResponse
  /\ sent' = Set(sent, h, sent[h] + n)
  /\ IF AuditEnabled THEN Keep(h, n) ELSE UNCHANGED <<kept, cut>>
  /\ UNCHANGED <<service, at, input, tries, status, records, budget>>

\* The upstream breaks off: with nothing written yet the client gets a 502.
StreamBreaks(h) ==
  /\ at[h] = "stream"
  /\ Record(h, status[h], TRUE, reqBody[h])
  /\ status' = Set(status, h, IF sent[h] = 0 THEN 502 ELSE status[h])
  /\ Goto(h, "end")
  /\ UNCHANGED <<service, input, tries, sent, kept, cut, budget>>

\* The client went away: the chunk in hand is neither written nor kept.
WriteFails(h) ==
  /\ at[h] = "stream" /\ sent[h] < MaxResponse
  /\ Record(h, status[h], TRUE, reqBody[h])
  /\ Goto(h, "end")
  /\ UNCHANGED <<service, input, tries, status, sent, kept, cut, budget>>

StreamEnds(h) ==
  /\ at[h] = "stream"
  /\ Record(h, status[h], FALSE, reqBody[h])
  /\ Goto(h, "end")
  /\ UNCHANGED <<service, input, tries, status, sent, kept, cut, budget>>

\* The handler returns; its locals and the response are gone.
Done(h) ==
  /\ at[h] = "end" /\ Goto(h, "idle")
  /\ size' = Set(size, h, 0) /\ body' = Set(body, h, 0) /\ reqBody' = Set(reqBody, h, 0)
  /\ retried' = Set(retried, h, FALSE) /\ tries' = Set(tries, h, <<>>)
  /\ status' = Set(status, h, 0) /\ sent' = Set(sent, h, 0)
  /\ kept' = Set(kept, h, 0) /\ cut' = Set(cut, h, FALSE)
  /\ records' = Set(records, h, <<>>)
  /\ UNCHANGED <<service, budget>>

-----------------------------------------------------------------------------
(* The credential manager, between the calls of the proxy.                  *)

proxy == <<at, input, tries, output>>

\* NewManager's load at boot, and reloads of a file that may be older.
Load ==
  /\ held = 0 /\ Token!Provide
  /\ UNCHANGED <<proxy, budget>>

Reload ==
  /\ held # 0 /\ MayStart /\ Token!Provide
  /\ reloaded' = TRUE
  /\ UNCHANGED proxy

ProactiveTick ==
  /\ MayStart /\ Token!Lock(Ticker)
  /\ UNCHANGED <<proxy, reloaded>>

CallMoves(h) == (Token!Lock(h) \/ Token!CallStep(h)) /\ UNCHANGED <<proxy, budget>>

Refresh(c) ==
  /\ Token!Mint(c) \/ Token!Install(c) \/ Token!Unlock(c)
  /\ UNCHANGED <<proxy, budget>>

AnswerLost(c) == MayStart /\ Token!Lose(c) /\ UNCHANGED <<proxy, reloaded>>

-----------------------------------------------------------------------------
\* What the handler does by itself before there is an answer, ...
Prepares(h) ==
  \/ RejectOversized(h) \/ ReadFails(h) \/ AskToken(h) \/ NoToken(h) \/ Post(h)
  \/ ForceFails(h) \/ Retry(h)

\* ... and how Do returns.
Answers(h) == DoFails(h) \/ Unauthorized(h) \/ \E code \in Codes : Relay(h, code)

Streaming(h) ==
  \/ \E n \in 1 .. MaxResponse : Chunk(h, n)
  \/ StreamBreaks(h) \/ WriteFails(h) \/ StreamEnds(h)

Next ==
  \/ \E h \in Handlers : \/ Arrive(h) \/ Prepares(h) \/ Answers(h) \/ Drained(h)
                         \/ Streaming(h) \/ Done(h) \/ CallMoves(h)
  \/ \E c \in Handlers \cup {Ticker} : Refresh(c) \/ AnswerLost(c)
  \/ Load \/ Reload \/ ProactiveTick

Spec == Init /\ [][Next]_vars

\* What ends by itself: reading the client's body (ReadTimeout), the exchange
\* (30s), the wait for refreshMu (a waiter is not starved).  What the upstream
\* owes need not come: neither Do, whose ResponseHeaderTimeout starts only once
\* the request body is written, nor a body of the upstream, so Answers, Drained
\* and Streaming are not fair.
FairSpec ==
  /\ Spec
  /\ \A h \in Handlers :
       /\ WF_vars(Prepares(h)) /\ SF_vars(CallMoves(h))
  /\ \A c \in Handlers \cup {Ticker} : WF_vars(Refresh(c))

-----------------------------------------------------------------------------
(* Properties.                                                              *)

\* API.md: "On upstream 401, the proxy force-refreshes the session token and
\* retries once".  Whatever other requests, the ticker and logins do, at most
\* two requests go upstream, and unless an older file was reloaded the second
\* carries a token the first did not: a 401 reaches the client only after two
\* different tokens were refused.
RetriesOnceWithNewToken ==
  \A h \in Handlers :
    /\ Len(tries[h]) <= 2
    /\ at[h] \in {"stream", "end"} /\ status[h] = 401 => Len(tries[h]) = 2
    /\ ~reloaded /\ Len(tries[h]) = 2 => tries[h][1].token < tries[h][2].token

\* forward: "an oversized request must be rejected outright, not silently
\* truncated": whatever goes upstream, also the second time, is the whole body.
ForwardsWholeBody ==
  \A h \in Handlers : \A i \in 1 .. Len(tries[h]) :
    tries[h][i].body = size[h] /\ size[h] <= MaxRequest

\* One request, one row, written when its outcome is known, also if it was
\* retried; only a request whose body could not be read has none.  The row
\* tells the client's status, or what the upstream said if that failed later.
OneTrueRecord ==
  AuditEnabled => \A h \in Handlers :
    /\ Len(records[h]) <= 1
    /\ at[h] \in {"read", "token", "do", "drain", "force", "stream"} => records[h] = <<>>
    /\ at[h] = "end" /\ records[h] = <<>> => status[h] = 502 /\ tries[h] = <<>>
    /\ at[h] = "end" /\ records[h] # <<>> =>
         LET row == records[h][1]
         IN  \/ row.code = status[h]
             \/ row.failed /\ status[h] = 502 /\ sent[h] = 0

\* The row of an answered request holds the beginning of both bodies, and its
\* flags say exactly whether that is all the client sent and got.
RecordFlagsTruncation ==
  \A h \in Handlers : at[h] = "end" /\ records[h] # <<>> /\ tries[h] # <<>> =>
    LET row == records[h][1]
    IN  /\ row.req = Least(size[h], MaxBody) /\ row.reqCut = (size[h] > MaxBody)
        /\ row.resp = Least(sent[h], MaxBody) /\ row.respCut = (sent[h] > MaxBody)

\* However the manager's calls queue up behind refreshMu and fail, a request
\* that was read gets an answer, or the beginning of one, unless an upstream
\* keeps Do waiting or never ends the body of a 401: no timeout covers either
\* from end to end.
UpstreamReacts == \A h \in Handlers : []<>(at[h] \notin {"do", "drain"})
RequestsAreAnswered ==
  UpstreamReacts => \A h \in Handlers : at[h] = "read" ~> at[h] \in {"stream", "end"}
=============================================================================
