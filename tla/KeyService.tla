----------------------------- MODULE KeyService -----------------------------
(***************************************************************************)
(* What the store promises about API keys, whatever its caches do: a       *)
(* request that presents a key may be let in if the key is enabled, or was *)
(* revoked no longer than Grace before the request came; it is turned away *)
(* only if the key is not enabled, or the answer is an error.  KeyStore    *)
(* implements this with Grace = keyCacheTTL.                               *)
(***************************************************************************)
EXTENDS Naturals

CONSTANTS Keys, Clients, None, Grace

VARIABLES now, status, revokedAt, verdict
vars == <<now, status, revokedAt, verdict>>

Init ==
  /\ now = 1
  /\ status = [k \in Keys |-> "absent"]
  /\ revokedAt = [k \in Keys |-> 0]
  /\ verdict = [c \in Clients |-> None]

Create(k) ==
  /\ status[k] = "absent"
  /\ status' = [status EXCEPT ![k] = "enabled"]
  /\ UNCHANGED <<now, revokedAt, verdict>>

Revoke(k) ==
  /\ status[k] = "enabled"
  /\ status' = [status EXCEPT ![k] = "revoked"]
  /\ revokedAt' = [revokedAt EXCEPT ![k] = now]
  /\ UNCHANGED <<now, verdict>>

Present(c, k) ==
  /\ verdict[c] = None
  /\ verdict' = [verdict EXCEPT ![c] = [key |-> k, start |-> now, answer |-> "pending"]]
  /\ UNCHANGED <<now, status, revokedAt>>

Acceptable(k, t) == \/ status[k] = "enabled"
                    \/ status[k] = "revoked" /\ t <= revokedAt[k] + Grace

Decide(c, answer) ==
  /\ verdict[c] # None /\ verdict[c].answer = "pending"
  /\ answer = "accepted" => Acceptable(verdict[c].key, verdict[c].start)
  /\ answer = "refused" => status[verdict[c].key] # "enabled"
  /\ verdict' = [verdict EXCEPT ![c].answer = answer]
  /\ UNCHANGED <<now, status, revokedAt>>

\* The answer is used, or the process that held it dies.
Forget(C) ==
  /\ verdict' = [c \in Clients |-> IF c \in C THEN None ELSE verdict[c]]
  /\ UNCHANGED <<now, status, revokedAt>>

Tick == now' = now + 1 /\ UNCHANGED <<status, revokedAt, verdict>>

Next ==
  \/ Tick
  \/ \E k \in Keys : Create(k) \/ Revoke(k) \/ \E c \in Clients : Present(c, k)
  \/ \E c \in Clients, answer \in {"accepted", "refused", "error"} : Decide(c, answer)
  \/ \E C \in SUBSET Clients : Forget(C)

Spec == Init /\ [][Next]_vars
=============================================================================
