---------------------------- MODULE AuditListing ----------------------------
(***************************************************************************)
(* An administrator reads the audit log while it is being written:         *)
(* ListAudit of internal/handlers/admin/admin.go and ListAuditLogs of      *)
(* internal/store/store.go, beside the queue and the shutdown of           *)
(* AuditQueue.  Rows are numbered in the order of created_at, which        *)
(* InsertAuditLog sets (no two rows in the same microsecond: the query does *)
(* not order those); workers insert them in any order.  The client is      *)
(* external: it walks the pages, going on by the number of items it got,   *)
(* until one is empty.  Filters select rows and are not modelled.          *)
(***************************************************************************)
EXTENDS AuditQueue

CONSTANTS
  Limits,    \* the limit a walk asks for, 0 if it is left out or not a number
  DefaultLimit, MaxLimit  \* 50 and 500

ASSUME LimitsAssumption ==
  /\ Limits \subseteq Nat
  /\ {DefaultLimit, MaxLimit} \subseteq Nat \ {0} /\ DefaultLimit <= MaxLimit

VARIABLES
  walk,      \* "idle", "walking" between two pages, "walked" after an empty one
  limit, offset,
  before,    \* rows of the table when the walk began
  shown      \* rows that were on a page

walker == <<walk, limit, offset, before, shown>>
allVars == <<vars, walker>>

WalkInit ==
  /\ walk = "idle" /\ limit = 0 /\ offset = 0
  /\ before = {} /\ shown = {}

Serves == phase # "exited"

WalkStarts ==
  /\ Serves /\ walk = "idle" /\ walk' = "walking"
  /\ limit' \in Limits
  /\ before' = written
  /\ UNCHANGED <<offset, shown>>

\* ListAuditLogs clamps the limit; ListAudit still reports the one asked for.
PageSize ==
  IF limit = 0 THEN DefaultLimit ELSE IF limit > MaxLimit THEN MaxLimit ELSE limit

\* Newest first.
Position(r) == Cardinality({s \in written : s >= r})

\* BROKEN: the offset counts pages.
PageBroken ==
  {r \in written : PageSize * offset < Position(r) /\ Position(r) <= PageSize * (offset + 1)}

Page == {r \in written : offset < Position(r) /\ Position(r) <= offset + PageSize}

\* The rows are read after they are counted, and the total is older than the
\* page; a query that fails is a 500, and the client asks for the page again.
ListAudit ==
  /\ Serves /\ walk = "walking"
  /\ walk' = IF Page = {} THEN "walked" ELSE "walking"
  /\ offset' = offset + Cardinality(Page) /\ shown' = shown \cup Page
  /\ UNCHANGED <<limit, before>>

WalkStep == WalkStarts \/ ListAudit

ListingNext == (Next /\ UNCHANGED walker) \/ (WalkStep /\ UNCHANGED vars)

ListingInit == Init /\ WalkInit

ListingSpec == ListingInit /\ [][ListingNext]_allVars /\ Fairness

-----------------------------------------------------------------------------
(* Property.                                                                *)

\* API.md: "List proxied request/response audit entries (newest first)".  A
\* walk to the empty page has shown every row that was there when it began,
\* however many rows were inserted meanwhile, also older ones, inserted late.
\* (The total is no such end: it is counted before the page is read.)
WalkMissesNothing == walk = "walked" => before \subseteq shown
=============================================================================
