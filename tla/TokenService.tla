---------------------------- MODULE TokenService ----------------------------
(***************************************************************************)
(* What the credential manager (internal/auth/auth.go) promises to the     *)
(* users of its TokenProvider interface (internal/proxy/proxy.go:22): one  *)
(* access token is held at a time, only one refresh runs at a time, and a  *)
(* ForceRefresh that succeeds has put a token there that the provider      *)
(* issued during the call.  Access tokens are numbered in the order the    *)
(* provider issues them; files, expiry and timers are left to AuthManager. *)
(* Checked: AuthManager!KeepsContract.  Used by: ProxyForward.             *)
(***************************************************************************)
EXTENDS Naturals

CONSTANTS
  Clients,      \* callers of GetAccessToken and ForceRefresh
  Ticker,       \* the proactive refresh loop
  None,         \* no owner
  FirstGrants   \* tokens that exist at the start

VARIABLES
  minted,       \* the provider has issued the tokens 1..minted
  held,         \* the token in memory; 0 before it is loaded
  owner,        \* who is refreshing
  grant,        \* the token the owner was given and has not installed; 0: none
  renewed,      \* the owner has installed its token
  st,           \* "idle"; in a call: "get", "force", "refreshed"; "done"
  picked, ok    \* the token a call returns, and whether it succeeded

flight == <<owner, grant, renewed>>
calls == <<st, picked, ok>>
tvars == <<minted, held, flight, calls>>

Init ==
  /\ minted = FirstGrants /\ held = 0
  /\ owner = None /\ grant = 0 /\ renewed = FALSE
  /\ st = [c \in Clients |-> "idle"]
  /\ picked = [c \in Clients |-> 0] /\ ok = [c \in Clients |-> FALSE]

Answer(c, stage, token, success) ==
  /\ st' = [st EXCEPT ![c] = stage]
  /\ picked' = [picked EXCEPT ![c] = token]
  /\ ok' = [ok EXCEPT ![c] = success]

\* A file or a saved state with an issued token is loaded, or loaded again.
Provide ==
  /\ held' \in 1 .. minted
  /\ UNCHANGED <<minted, flight, calls>>

\* A login elsewhere.
Login == minted' = minted + 1 /\ UNCHANGED <<held, flight, calls>>

\* GetAccessToken looks at the token: good enough, or to be refreshed first.
Get(c) ==
  /\ st[c] = "idle" /\ held # 0
  /\ Answer(c, "done", held, TRUE) \/ Answer(c, "get", held, FALSE)
  /\ UNCHANGED <<minted, held, flight>>

Force(c) ==
  /\ st[c] = "idle" /\ held # 0
  /\ Answer(c, "force", 0, FALSE)
  /\ UNCHANGED <<minted, held, flight>>

\* Where a call goes when its refresh has ended: only GetAccessToken goes on.
Ended(c, success) ==
  IF c \in Clients
    THEN Answer(c, IF st[c] = "get" THEN "refreshed" ELSE "done", picked[c], success)
    ELSE UNCHANGED calls

\* BROKEN: a forced refresh is also content with what another one did.
SkipBroken(c, success) ==
  /\ owner = None /\ st[c] \in {"get", "force"}
  /\ Ended(c, success)
  /\ UNCHANGED <<minted, held, flight>>

\* The refresh ends before it asks: another one did it, or it is impossible.
Skip(c, success) ==
  /\ owner = None /\ st[c] \in {"get", "force"}
  /\ success => st[c] = "get"
  /\ Ended(c, success)
  /\ UNCHANGED <<minted, held, flight>>

Lock(c) ==
  /\ owner = None /\ held # 0
  /\ c \in Clients => st[c] \in {"get", "force"}
  /\ owner' = c
  /\ UNCHANGED <<minted, held, grant, renewed, calls>>

Mint(c) ==
  /\ owner = c /\ grant = 0 /\ ~renewed
  /\ minted' = minted + 1 /\ grant' = minted + 1
  /\ UNCHANGED <<held, owner, renewed, calls>>

Install(c) ==
  /\ owner = c /\ grant # 0
  /\ held' = grant /\ grant' = 0 /\ renewed' = TRUE
  /\ UNCHANGED <<minted, owner, calls>>

\* BROKEN: the mutex stays locked when the refresh fails.
UnlockBroken(c) ==
  /\ owner = c /\ grant = 0
  /\ owner' = (IF renewed THEN None ELSE "leaked") /\ renewed' = FALSE
  /\ Ended(c, renewed)
  /\ UNCHANGED <<minted, held, grant>>

\* The owner is done: with success exactly if it has installed a token.
Unlock(c) ==
  /\ owner = c /\ grant = 0
  /\ owner' = None /\ renewed' = FALSE
  /\ Ended(c, renewed)
  /\ UNCHANGED <<minted, held, grant>>

\* The provider issued a token and the answer was lost.
Lose(c) ==
  /\ minted' = minted + 1
  /\ owner = c /\ grant = 0 /\ ~renewed
  /\ owner' = None
  /\ Ended(c, FALSE)
  /\ UNCHANGED <<held, grant, renewed>>

\* GetAccessToken after the refresh: the current token, or the old one, or none.
Finish(c) ==
  /\ st[c] = "refreshed"
  /\ IF ok[c] THEN Answer(c, "done", held, TRUE)
              ELSE \E good \in BOOLEAN : Answer(c, "done", picked[c], good)
  /\ UNCHANGED <<minted, held, flight>>

Return(c) ==
  /\ st[c] = "done"
  /\ Answer(c, "idle", 0, FALSE)
  /\ UNCHANGED <<minted, held, flight>>

Crash ==
  /\ held' = 0 /\ owner' = None /\ grant' = 0 /\ renewed' = FALSE
  /\ st' = [c \in Clients |-> "idle"]
  /\ picked' = [c \in Clients |-> 0] /\ ok' = [c \in Clients |-> FALSE]
  /\ UNCHANGED minted

RefreshStep(c) == Lock(c) \/ Mint(c) \/ Install(c) \/ Unlock(c) \/ Lose(c)
CallStep(c) == (\E success \in BOOLEAN : Skip(c, success)) \/ Finish(c)

Next ==
  \/ Provide \/ Login \/ Crash
  \/ \E c \in Clients : Get(c) \/ Force(c) \/ CallStep(c) \/ Return(c)
  \/ \E c \in Clients \cup {Ticker} : RefreshStep(c)

Spec == Init /\ [][Next]_tvars

=============================================================================
