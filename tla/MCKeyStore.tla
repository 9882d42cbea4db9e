----------------------------- MODULE MCKeyStore -----------------------------
(* Instances of KeyStore for TLC: which replica serves which request.       *)
EXTENDS KeyStore

CONSTANTS r1, r2, v1, v2, adm1, adm2

\* Both validators share a replica; one administrator works on that replica,
\* the other on another one, whose invalidations the validators never see.
TwoReplicas == [p \in {v1, v2, adm1, adm2} |-> IF p = adm2 THEN r2 ELSE r1]

\* One replica for everything.
OneReplica == [p \in {v1, v2, adm1} |-> r1]
=============================================================================
