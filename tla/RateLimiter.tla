----------------------------- MODULE RateLimiter -----------------------------
(***************************************************************************)
(* The per-key limiter of internal/middleware/middleware.go.  A limiter is *)
(* made at the first request of a key and kept for good; it is a token     *)
(* bucket of golang.org/x/time/rate, which is external.  Rates and tokens  *)
(* are counted in 1/Unit of a request.  markAt and admitted only observe:  *)
(* they count the requests let in since an arbitrary moment.               *)
(***************************************************************************)
EXTENDS Integers

CONSTANTS
  Keys,
  RateLimitRPS,  \* the override of each key, as a rate; not positive: none
  RPS, Burst,    \* the defaults of the configuration
  Unit

VARIABLES
  now,
  made,          \* keys that have a limiter
  tokens, last,  \* its tokens at its last use
  admitted, markAt,
  passedAt,      \* when the key's last request was let in, Never if none was
  refused        \* the key's last request was refused, at this moment

Never == -1

limiters == <<made, tokens, last>>
observer == <<admitted, markAt, passedAt, refused>>

Overridden(k) == RateLimitRPS[k] > 0
RateOf(k) == IF Overridden(k) THEN RateLimitRPS[k] ELSE RPS

\* BROKEN: a small override leaves no room for a single request.
BurstOfBroken(k) ==
  IF Overridden(k) THEN (2 * RateLimitRPS[k]) \div Unit ELSE Burst

\* int(rps * 2), but at least one request.
BurstOf(k) ==
  LET twice == (2 * RateLimitRPS[k]) \div Unit
  IN  IF ~Overridden(k) THEN Burst ELSE IF twice < 1 THEN 1 ELSE twice

Full(k) == BurstOf(k) * Unit

\* BROKEN: every request gets a limiter of its own.
LevelBroken(k) == Full(k)

\* The tokens the limiter of k holds now: get makes it with a full bucket.
Level(k) ==
  LET grown == tokens[k] + RateOf(k) * (now - last[k])
  IN  IF k \notin made \/ grown > Full(k) THEN Full(k) ELSE grown

Init ==
  /\ made = {} /\ tokens = [k \in Keys |-> 0] /\ last = [k \in Keys |-> 0]
  /\ admitted = [k \in Keys |-> 0] /\ markAt = now
  /\ passedAt = [k \in Keys |-> Never] /\ refused = {}

\* Middleware: get, under mu, and Allow.
Allow(k) ==
  /\ Level(k) >= Unit
  /\ made' = made \cup {k}
  /\ tokens' = [tokens EXCEPT ![k] = Level(k) - Unit]
  /\ last' = [last EXCEPT ![k] = now]
  /\ admitted' = [admitted EXCEPT ![k] = @ + 1]
  /\ passedAt' = [passedAt EXCEPT ![k] = now]
  /\ refused' = refused \ {k}
  /\ UNCHANGED markAt

\* 429.  Allow takes nothing from a bucket that has too little.
TooMany(k) ==
  /\ Level(k) < Unit
  /\ made' = made \cup {k}
  /\ tokens' = [tokens EXCEPT ![k] = Level(k)]
  /\ last' = [last EXCEPT ![k] = now]
  /\ refused' = refused \cup {k}
  /\ UNCHANGED <<admitted, markAt, passedAt>>

\* The observer starts to count, at any moment.
Mark ==
  /\ markAt' = now /\ admitted' = [k \in Keys |-> 0]
  /\ UNCHANGED <<limiters, passedAt, refused>>

\* A moment later.
Later == refused' = {} /\ UNCHANGED <<limiters, admitted, markAt, passedAt>>

-----------------------------------------------------------------------------
(* Properties.                                                              *)

\* API.md: "Per API key token bucket".  Counted from any moment, a key is let
\* in no more often than its burst and its rate since then allow, whenever
\* its requests come and whatever the other keys do.
RateIsBounded ==
  \A k \in Keys :
    Unit * admitted[k] <= Full(k) + RateOf(k) * (now - markAt)

\* A key, however low its override, is never shut out: a refusal means that
\* one of its requests was let in less than one interval of its rate ago.
RefusedOnlyAfterUse ==
  \A k \in refused : passedAt[k] # Never /\ RateOf(k) * (now - passedAt[k]) < Unit
=============================================================================
