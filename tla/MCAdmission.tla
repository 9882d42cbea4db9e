----------------------------- MODULE MCAdmission -----------------------------
(* Instance of Admission for TLC: the overrides of the keys' rates.         *)
EXTENDS Admission

CONSTANTS k1, k2

\* One key with the default limit, one with a quarter of a request per moment.
OneOverride == [k \in Keys |-> IF k = k1 THEN 0 ELSE 1]
=============================================================================
