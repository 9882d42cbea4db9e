--------------------------- MODULE MCAuthManager ---------------------------
(* Instances of AuthManager for TLC: the auth.json maps to start from.      *)
EXTENDS AuthManager

CONSTANT a1

Cred(k, e) == [key |-> k, refresh |-> k, exp |-> e, iss |-> None]

\* One account, from a token that will soon expire.
OneAccount == {[a \in Accounts |-> Cred(1, e)] : e \in {2}}

\* The same, or with a credential that has no refresh token.
MaybeUnrefreshable == OneAccount \cup {[a \in Accounts |-> [Cred(1, 2) EXCEPT !.refresh = 0]]}

\* Two accounts; the first will soon expire.
FirstExpires == {[a \in Accounts |-> IF a = a1 THEN Cred(1, 2) ELSE Cred(2, 9)]}

\* Two accounts, the second also with an empty key or with no entry at all.
TwoAccounts == {[a \in Accounts |-> IF a = a1 THEN Cred(1, 8) ELSE b] :
                  b \in {Cred(2, 9), [NoEntry EXCEPT !.refresh = 2], None}}
=============================================================================
