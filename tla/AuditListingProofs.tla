------------------------- MODULE AuditListingProofs -------------------------
(***************************************************************************)
(* A walk through the audit log misses no row that was there when it began, *)
(* for any limits of the page, any queue, workers and faults.  The proof    *)
(* counts: the positions of a finite set of rows, newest first, are the     *)
(* numbers up to its cardinality, each taken once, and rows inserted during *)
(* a walk only push the others to higher positions.                         *)
(***************************************************************************)
EXTENDS AuditListing, AuditQueueProofs, FiniteSetTheorems

\* Position, of a row in any set of rows.
Rank(S, r) == Cardinality({s \in S : s >= r})

\* A rank is at least one, an older row has a higher one, and a set with more
\* rows does not lower it.
LEMMA RankFacts ==
  ASSUME NEW S \in SUBSET Nat, IsFiniteSet(S), NEW r \in S
  PROVE  /\ Rank(S, r) \in Nat /\ Rank(S, r) > 0
         /\ \A t \in S : r < t => Rank(S, t) < Rank(S, r)
         /\ \A R \in SUBSET S : Rank(R, r) <= Rank(S, r)
<1> DEFINE Upper(R, x) == {s \in R : s >= x}
<1>1. \A R \in SUBSET S : \A x : /\ Upper(R, x) \subseteq S /\ IsFiniteSet(Upper(R, x))
                                 /\ Cardinality(Upper(R, x)) \in Nat
  BY FS_Subset, FS_CardinalityType
<1>2. Rank(S, r) \in Nat /\ Rank(S, r) > 0
  <2>1. r \in Upper(S, r)
    OBVIOUS
  <2>2. Cardinality(Upper(S, r)) # 0
    BY <1>1, <2>1, FS_EmptySet
  <2> QED BY <1>1, <2>2 DEF Rank
<1>3. ASSUME NEW t \in S, r < t
      PROVE  Rank(S, t) < Rank(S, r)
  <2>1. Upper(S, t) \subseteq Upper(S, r) /\ r \in Upper(S, r) /\ r \notin Upper(S, t)
    <3>1. r \in Nat /\ t \in Nat /\ r >= r /\ ~(r >= t)
      BY <1>3
    <3>2. \A s \in S : s >= t => s >= r
      <4> SUFFICES ASSUME NEW s \in S, s >= t PROVE s >= r
        OBVIOUS
      <4>1. s \in Nat
        OBVIOUS
      <4> QED BY <1>3, <3>1, <4>1
    <3> QED BY <3>1, <3>2
  <2>2. /\ IsFiniteSet(Upper(S, r)) /\ Cardinality(Upper(S, r)) \in Nat
        /\ Cardinality(Upper(S, t)) \in Nat
    BY <1>1
  <2> HIDE DEF Upper
  <2>3. /\ Cardinality(Upper(S, t)) <= Cardinality(Upper(S, r))
        /\ Cardinality(Upper(S, t)) # Cardinality(Upper(S, r))
    BY <2>1, <2>2, FS_Subset
  <2>4. Cardinality(Upper(S, t)) < Cardinality(Upper(S, r))
    BY <2>2, <2>3
  <2> USE DEF Upper
  <2> QED BY <2>4 DEF Rank
<1>4. ASSUME NEW R \in SUBSET S
      PROVE  Rank(R, r) <= Rank(S, r)
  <2>1. Upper(R, r) \in SUBSET Upper(S, r)
    OBVIOUS
  <2>2. IsFiniteSet(Upper(S, r))
    BY <1>1
  <2> HIDE DEF Upper
  <2>3. Cardinality(Upper(R, r)) <= Cardinality(Upper(S, r))
    BY <2>1, <2>2, FS_Subset
  <2> USE DEF Upper
  <2> QED BY <2>3 DEF Rank
<1> QED BY <1>2, <1>3, <1>4

\* No two rows have the same rank, so a page holds no more than it was asked
\* for.
LEMMA PageFits ==
  ASSUME NEW S \in SUBSET Nat, IsFiniteSet(S), NEW o \in Nat, NEW n \in Nat
  PROVE  LET P == {r \in S : o < Rank(S, r) /\ Rank(S, r) <= o + n}
         IN  Cardinality(P) \in Nat /\ Cardinality(P) <= n
<1> DEFINE P == {r \in S : o < Rank(S, r) /\ Rank(S, r) <= o + n}
           T == (o + 1) .. (o + n)
           f == [r \in P |-> Rank(S, r)]
<1>1. f \in [P -> T]
  <2> SUFFICES ASSUME NEW r \in P PROVE Rank(S, r) \in T
    OBVIOUS
  <2>1. Rank(S, r) \in Nat /\ o < Rank(S, r) /\ Rank(S, r) <= o + n
    BY RankFacts
  <2> QED BY <2>1
<1>2. \A r, t \in P : f[r] = f[t] => r = t
  <2> SUFFICES ASSUME NEW r \in P, NEW t \in P, Rank(S, r) = Rank(S, t)
               PROVE  r = t
    OBVIOUS
  <2>1. ~(r < t) /\ ~(t < r)
    BY RankFacts
  <2> QED BY <2>1
<1>3. f \in Injection(P, T)
  BY <1>1, <1>2 DEF Injection, IsInjective
<1>4. IsFiniteSet(T) /\ Cardinality(T) = n
  <2>1. o + 1 \in Int /\ o + n \in Int
    OBVIOUS
  <2>2. IsFiniteSet(T) /\ Cardinality(T) = IF o + 1 > o + n THEN 0 ELSE (o + n) - (o + 1) + 1
    BY <2>1, FS_Interval
  <2> QED BY <2>2
<1>5. IsFiniteSet(P)
  BY FS_Subset
<1> HIDE DEF P, T, f
<1>6. Cardinality(P) <= n
  BY <1>3, <1>4, FS_Injection
<1>7. Cardinality(P) \in Nat
  BY <1>5, FS_CardinalityType
<1> USE DEF P
<1> QED BY <1>6, <1>7

\* A set of natural numbers that is not empty has a least element.
LEMMA Smallest ==
  ASSUME NEW S \in SUBSET Nat, S # {}
  PROVE  \E m \in S : \A k \in S : m <= k
<1>1. PICK m \in S : \A k \in S : ~(<<k, m>> \in OpToRel(<, Nat))
  BY NatLessThanWellFounded, WFMin
<1>2. \A k \in S : ~(k < m)
  BY <1>1 DEF OpToRel
<1> QED BY <1>2

\* The ranks have no gap: above an offset that some row is beyond, there is a
\* row at the next rank.
LEMMA NextRank ==
  ASSUME NEW S \in SUBSET Nat, IsFiniteSet(S), NEW o \in Nat,
         NEW x \in S, o < Rank(S, x)
  PROVE  \E m \in S : Rank(S, m) = o + 1
<1> DEFINE Ranks == {Rank(S, r) : r \in {s \in S : o < Rank(S, s)}}
<1>1. Ranks \in SUBSET Nat /\ Ranks # {}
  BY RankFacts
<1>2. PICK least \in Ranks : \A k \in Ranks : least <= k
  <2> HIDE DEF Ranks
  <2> QED BY <1>1, Smallest
<1>3. PICK m \in S : o < Rank(S, m) /\ least = Rank(S, m)
  BY <1>2
<1>4. \A s \in S : o < Rank(S, s) => Rank(S, m) <= Rank(S, s)
  BY <1>2, <1>3
<1> DEFINE Newer == {s \in S : s > m}
<1>5. IsFiniteSet(Newer) /\ m \notin Newer /\ {s \in S : s >= m} = Newer \cup {m}
  <2>1. IsFiniteSet(Newer)
    BY FS_Subset
  <2>2. \A s \in S : s >= m <=> s > m \/ s = m
    <3> SUFFICES ASSUME NEW s \in S PROVE s >= m <=> s > m \/ s = m
      OBVIOUS
    <3>1. s \in Nat /\ m \in Nat
      OBVIOUS
    <3> QED BY <3>1
  <2>3. ~(m > m) /\ m \in S
    <3>1. m \in Nat
      OBVIOUS
    <3> QED BY <3>1
  <2> QED BY <2>1, <2>2, <2>3
<1>6. Cardinality(Newer) \in Nat /\ Rank(S, m) = Cardinality(Newer) + 1
  <2>1. Rank(S, m) = Cardinality(Newer \cup {m})
    BY <1>5 DEF Rank
  <2>2. IsFiniteSet(Newer) /\ m \notin Newer
    BY <1>5
  <2> HIDE DEF Newer
  <2>3. Cardinality(Newer \cup {m}) = Cardinality(Newer) + 1
    BY <2>2, FS_AddElement
  <2>4. Cardinality(Newer) \in Nat
    BY <2>2, FS_CardinalityType
  <2> QED BY <2>1, <2>3, <2>4
<1>7. CASE Newer = {}
  <2>1. Cardinality(Newer) = 0
    BY <1>7, FS_EmptySet
  <2> QED BY <1>3, <1>6, <2>1
<1>8. CASE Newer # {}
  <2>1. Newer \in SUBSET Nat
    OBVIOUS
  <2>2. PICK t \in Newer : \A s \in Newer : t <= s
    <3> HIDE DEF Newer
    <3> QED BY <1>8, <2>1, Smallest
  <2>3. {s \in S : s >= t} = Newer /\ t \in S /\ m < t
    <3>1. t \in S /\ t \in Nat /\ m \in Nat /\ m < t
      BY <2>2
    <3>2. \A s \in S : s >= t <=> s > m
      <4> SUFFICES ASSUME NEW s \in S PROVE s >= t <=> s > m
        OBVIOUS
      <4>1. s \in Nat
        OBVIOUS
      <4>2. s > m => t <= s
        BY <2>2
      <4> QED BY <3>1, <4>1, <4>2
    <3> QED BY <3>1, <3>2
  <2>4. Rank(S, t) = Cardinality(Newer)
    BY <2>3 DEF Rank
  <2>5. Rank(S, t) <= o
    <3>1. Rank(S, t) < Rank(S, m)
      BY <1>6, <2>4
    <3>2. Rank(S, t) \in Nat /\ Rank(S, m) \in Nat
      BY <1>6, <2>4
    <3> QED BY <1>4, <2>3, <3>1, <3>2
  <2> QED BY <1>3, <1>6, <2>4, <2>5
<1> QED BY <1>7, <1>8

-----------------------------------------------------------------------------
(* The walk.                                                                *)

\* Every row of the beginning that was not on a page yet is beyond the offset.
WalkInv ==
  /\ written \subseteq Nat /\ IsFiniteSet(written) /\ before \subseteq written
  /\ walk \in {"idle", "walking", "walked"} /\ limit \in Nat /\ offset \in Nat
  /\ walk = "idle" => offset = 0
  /\ walk = "walking" => \A r \in before \ shown : offset < Position(r)
  /\ walk = "walked" => before \subseteq shown

\* A step of the queue adds a row at most.
LEMMA RowsAdded ==
  ASSUME Next
  PROVE  written' = written \/ \E row : written' = written \cup {row}
BY DEF Next, Signal, ListenFails, RunStep, Shutdown, ShutdownTimesOut, CloseAuth, CloseStore,
   RunGoes, TickStarts, TickEnds, LoopStops, Exited, vars, Request, Answered, HandlerStep,
   InsertAuditLog, Return, HandlerGoes, WorkerStep, Take, StopSeen, Drained, WorkerGoes, Insert

\* Rows inserted during the walk only push the others further.
LEMMA InsertsPush ==
  ASSUME WalkInv, TypeOK', Next, UNCHANGED walker
  PROVE  WalkInv'
<1>1. UNCHANGED <<walk, limit, offset, before, shown>>
  BY DEF walker
<1>2. written' \in SUBSET Nat /\ written \in SUBSET written' /\ IsFiniteSet(written')
  <2>1. written' \in SUBSET Nat /\ IsFiniteSet(written)
    BY DEF WalkInv, TypeOK
  <2>2. CASE written' = written
    BY <2>1, <2>2
  <2>3. ASSUME NEW row, written' = written \cup {row}
        PROVE  written \in SUBSET written' /\ IsFiniteSet(written')
    BY <2>1, <2>3, FS_AddElement
  <2> QED BY <2>1, <2>2, <2>3, RowsAdded
<1>3. \A r \in written : Position(r) \in Nat /\ Position(r)' \in Nat
                         /\ Position(r) <= Position(r)'
  <2> SUFFICES ASSUME NEW r \in written
               PROVE  /\ Position(r) \in Nat /\ Position(r)' \in Nat
                      /\ Position(r) <= Position(r)'
    OBVIOUS
  <2>1. Position(r) = Rank(written, r) /\ Position(r)' = Rank(written', r)
    BY DEF Position, Rank
  <2>2. Rank(written, r) \in Nat
    BY RankFacts DEF WalkInv
  <2>3. Rank(written', r) \in Nat /\ Rank(written, r) <= Rank(written', r)
    BY <1>2, RankFacts
  <2> QED BY <2>1, <2>2, <2>3
<1>4. walk = "walking" => \A r \in before \ shown : offset < Position(r)'
  BY <1>3 DEF WalkInv
<1> QED BY <1>1, <1>2, <1>4 DEF WalkInv

\* A page shows the rows next beyond the offset, and the offset goes on by as
\* many; an empty page is shown only if no row is beyond it.
LEMMA PageAdvances ==
  ASSUME WalkInv, ListAudit, UNCHANGED vars
  PROVE  WalkInv'
<1>1. written' = written
  BY DEF vars
<1>2. PageSize \in Nat /\ PageSize > 0
  BY LimitsAssumption DEF PageSize, WalkInv
<1>3. Page = {r \in written : offset < Rank(written, r) /\ Rank(written, r) <= offset + PageSize}
  BY DEF Page, Position, Rank
<1>4. Cardinality(Page) \in Nat /\ Cardinality(Page) <= PageSize
  <2>1. written \in SUBSET Nat /\ IsFiniteSet(written) /\ offset \in Nat
    BY DEF WalkInv
  <2> HIDE DEF PageSize
  <2> QED BY <1>2, <1>3, <2>1, PageFits
<1>5. \A r \in written : Position(r) = Rank(written, r) /\ Rank(written, r) \in Nat
  BY RankFacts DEF Position, Rank, WalkInv
<1>6. /\ walk = "walking" /\ walk' = IF Page = {} THEN "walked" ELSE "walking"
      /\ offset' = offset + Cardinality(Page) /\ shown' = shown \cup Page
      /\ UNCHANGED <<limit, before>>
  BY DEF ListAudit
<1>7. \A r \in before \ shown' : offset' < Position(r)'
  <2> SUFFICES ASSUME NEW r \in before, r \notin shown, r \notin Page
               PROVE  offset' < Position(r)'
    BY <1>6
  <2>1. r \in written /\ offset < Rank(written, r) /\ offset \in Nat
    BY <1>5, <1>6 DEF WalkInv
  <2>2. offset + PageSize < Rank(written, r)
    BY <1>2, <1>3, <1>5, <2>1
  <2>3. Position(r)' = Rank(written, r)
    BY <1>1 DEF Position, Rank
  <2> QED BY <1>2, <1>4, <1>5, <1>6, <2>1, <2>2, <2>3
<1>8. Page = {} => before \subseteq shown
  <2> SUFFICES ASSUME NEW r \in before, r \notin shown
               PROVE  Page # {}
    OBVIOUS
  <2>1. /\ r \in written /\ offset < Rank(written, r) /\ offset \in Nat
        /\ written \in SUBSET Nat /\ IsFiniteSet(written)
    BY <1>5, <1>6 DEF WalkInv
  <2>2. PICK m \in written : Rank(written, m) = offset + 1
    BY <2>1, NextRank
  <2>3. m \in Page
    BY <1>2, <1>3, <2>1, <2>2
  <2> QED BY <2>3
<1>9. offset' \in Nat
  BY <1>4, <1>6 DEF WalkInv
<1> QED BY <1>1, <1>6, <1>7, <1>8, <1>9 DEF WalkInv

\* A walk begins before every row.
LEMMA WalkBegins ==
  ASSUME WalkInv, WalkStarts, UNCHANGED vars
  PROVE  WalkInv'
<1>1. /\ written' = written /\ walk' = "walking" /\ offset' = 0 /\ offset = 0
      /\ before' = written /\ shown' = shown /\ limit' \in Nat
  BY LimitsAssumption DEF WalkStarts, vars, WalkInv
<1>2. \A r \in written : Position(r)' = Rank(written, r) /\ Rank(written, r) > 0
  BY <1>1, RankFacts DEF Position, Rank, WalkInv
<1> QED BY <1>1, <1>2 DEF WalkInv

\* API.md: "List proxied request/response audit entries (newest first)"
\* (ListAudit and ListAuditLogs): a walk to the empty page has shown every row
\* that was there when it began, however many are inserted meanwhile.
THEOREM WalkIsComplete == ListingSpec => []WalkMissesNothing
<1>1. ListingInit => WalkInv
  BY FS_EmptySet DEF ListingInit, Init, WalkInit, WalkInv
<1>2. WalkInv /\ TypeOK' /\ [ListingNext]_allVars => WalkInv'
  <2> SUFFICES ASSUME WalkInv, TypeOK', [ListingNext]_allVars PROVE WalkInv'
    OBVIOUS
  <2>1. CASE UNCHANGED allVars
    BY <2>1 DEF allVars, vars, walker, WalkInv, Position
  <2> QED BY <2>1, InsertsPush, PageAdvances, WalkBegins DEF ListingNext, WalkStep
<1>3. [ListingNext]_allVars => [Next]_vars
  BY DEF ListingNext, allVars
<1>4. ListingSpec => Spec
  BY <1>3, PTL DEF ListingSpec, ListingInit, Spec
<1>5. DrainInv => TypeOK
  BY DEF DrainInv
<1>6. WalkInv => WalkMissesNothing
  BY DEF WalkInv, WalkMissesNothing
<1> QED BY <1>1, <1>2, <1>4, <1>5, <1>6, DrainInvariant, PTL DEF ListingSpec
=============================================================================
