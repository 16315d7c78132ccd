-------------------------- MODULE DailyQuotaProofs --------------------------
(***************************************************************************)
(* What the quota keeps, for every number of workers and every limit.      *)
(*                                                                         *)
(* The invariant is its own strengthening: a claim is at most what is left *)
(* of the limit, so the worker's share must be bounded by the total at the *)
(* time it claims (SharesInTotal).  For a fleet the successes are counted   *)
(* one by one: each is a place <<w, i>> below the limit that its worker has *)
(* filled, and no two fill the same.                                       *)
(***************************************************************************)
EXTENDS DailyQuota, FiniteSetTheorems, TLAPS

QuotaInv == QuotaTypeOK /\ SharesInTotal /\ WorkerWithinLimit

\* Each action of the quota keeps the invariant.
LEMMA QuotaStep ==
  ASSUME DailyLimit \in Nat, QuotaInv, [Next]_quotaVars
  PROVE  QuotaInv'
<1> USE DEF QuotaInv, QuotaTypeOK, SharesInTotal, WorkerWithinLimit
<1>1. ASSUME NEW w \in Workers, NEW n \in 1 .. DailyLimit, Claim(w, n)
      PROVE  QuotaInv'
  <2>1. n + spentBy[w] <= DailyLimit
    BY <1>1 DEF Claim
  <2>2. QED
    BY <1>1, <2>1 DEF Claim
<1>2. ASSUME NEW w \in Workers, Spend(w)
      PROVE  QuotaInv'
  <2>1. /\ claim[w] - 1 \in 0 .. DailyLimit
        /\ spentBy[w] + 1 \in Nat
    BY <1>2 DEF Spend
  <2>2. QuotaTypeOK'
    BY <1>2, <2>1 DEF Spend
  <2>3. SharesInTotal'
    BY <1>2 DEF Spend
  <2>4. WorkerWithinLimit'
    BY <1>2 DEF Spend
  <2>5. QED
    BY <2>2, <2>3, <2>4
<1>3. ASSUME NEW w \in Workers, NEW n \in 0 .. claim[w] - 1, Forgo(w, n)
      PROVE  QuotaInv'
  BY <1>3 DEF Forgo
<1>4. CASE Midnight
  BY <1>4 DEF Midnight
<1>5. CASE UNCHANGED quotaVars
  BY <1>5 DEF quotaVars
<1>6. QED
  BY <1>1, <1>2, <1>3, <1>4, <1>5 DEF Next

\* The invariant of the quota.
LEMMA QuotaInvariant ==
  ASSUME DailyLimit \in Nat
  PROVE  Spec => []QuotaInv
<1>1. Init => QuotaInv
  BY DEF Init, QuotaInv, QuotaTypeOK, SharesInTotal, WorkerWithinLimit
<1>2. QuotaInv /\ [Next]_quotaVars => QuotaInv'
  BY QuotaStep
<1>3. QED
  BY <1>1, <1>2, PTL DEF Spec

\* No worker records more than the limit in a day, its claim included.
THEOREM QuotaPerWorker ==
  ASSUME DailyLimit \in Nat
  PROVE  Spec => []WorkerWithinLimit
<1>1. QuotaInv => WorkerWithinLimit
  BY DEF QuotaInv
<1>2. QED
  BY <1>1, QuotaInvariant, PTL

\* The only worker there is records everything, so the limit itself holds.
THEOREM QuotaOfSoleWorker ==
  ASSUME DailyLimit \in Nat
  PROVE  Spec => []SoleWorkerWithinLimit
<1>1. QuotaInv => SoleWorkerWithinLimit
  BY DEF QuotaInv, QuotaTypeOK, SharesInTotal, WorkerWithinLimit, SoleWorkerWithinLimit
<1>2. QED
  BY <1>1, QuotaInvariant, PTL
-----------------------------------------------------------------------------
(* A fleet of workers.                                                     *)

\* The places that the workers' successes fill.
Places == Workers \X (1 .. DailyLimit)
Filled == {x \in Places : x[2] <= spentBy[x[1]]}

\* Every recorded success fills a place of its own.
PlacesInv == Cardinality(Filled) = spent

LEMMA PlacesCount ==
  ASSUME DailyLimit \in Nat, IsFiniteSet(Workers)
  PROVE  IsFiniteSet(Places) /\ Cardinality(Places) = Cardinality(Workers) * DailyLimit
<1>1. IsFiniteSet(1 .. DailyLimit) /\ Cardinality(1 .. DailyLimit) = DailyLimit
  BY FS_Interval
<1>2. QED
  BY <1>1, FS_Product DEF Places

LEMMA PlacesStep ==
  ASSUME DailyLimit \in Nat, IsFiniteSet(Workers), QuotaInv, PlacesInv, [Next]_quotaVars
  PROVE  PlacesInv'
<1> USE DEF QuotaInv, QuotaTypeOK, WorkerWithinLimit
<1>1. IsFiniteSet(Filled)
  BY PlacesCount, FS_Subset DEF Filled
<1>2. ASSUME UNCHANGED <<spent, spentBy>>
      PROVE  PlacesInv'
  BY <1>2 DEF PlacesInv, Filled
<1>3. ASSUME NEW w \in Workers, Spend(w)
      PROVE  PlacesInv'
  <2> DEFINE place == <<w, spentBy[w] + 1>>
  <2>1. spentBy[w] + 1 \in 1 .. DailyLimit
    BY <1>3 DEF Spend
  <2>2. place \in Places /\ place \notin Filled
    BY <2>1 DEF Places, Filled
  <2>3. \A x \in Places : x[2] <= spentBy'[x[1]] <=> x[2] <= spentBy[x[1]] \/ x = place
    <3> SUFFICES ASSUME NEW v \in Workers, NEW i \in 1 .. DailyLimit
                 PROVE  i <= spentBy'[v] <=> i <= spentBy[v] \/ (v = w /\ i = spentBy[w] + 1)
      BY DEF Places
    <3>1. spentBy'[v] = IF v = w THEN spentBy[w] + 1 ELSE spentBy[v]
      BY <1>3 DEF Spend
    <3>2. spentBy[v] \in Nat
      OBVIOUS
    <3>3. QED
      BY <3>1, <3>2
  <2>4. Filled' = Filled \cup {place}
    BY <2>2, <2>3 DEF Filled, Places
  <2>5. Cardinality(Filled') = Cardinality(Filled) + 1
    BY <1>1, <2>2, <2>4, FS_AddElement
  <2>6. QED
    BY <1>3, <2>5 DEF Spend, PlacesInv
<1>4. CASE Midnight
  <2>1. Filled' = {}
    BY <1>4 DEF Midnight, Filled, Places
  <2>2. QED
    BY <1>4, <2>1, FS_EmptySet DEF Midnight, PlacesInv
<1>5. QED
  BY <1>2, <1>3, <1>4 DEF Next, Claim, Forgo, quotaVars

\* However the workers' counts and sends interleave, a fleet of n records at
\* most n times the limit in a day.
THEOREM QuotaOfFleet ==
  ASSUME DailyLimit \in Nat, IsFiniteSet(Workers)
  PROVE  Spec => []FleetWithinLimit
<1>1. Init => PlacesInv
  <2> SUFFICES ASSUME Init
               PROVE  PlacesInv
    OBVIOUS
  <2>1. Filled = {}
    BY DEF Init, Filled, Places
  <2>2. QED
    BY <2>1, FS_EmptySet DEF Init, PlacesInv
<1>2. QuotaInv /\ PlacesInv /\ [Next]_quotaVars => PlacesInv'
  BY PlacesStep
<1>3. PlacesInv => FleetWithinLimit
  <2>1. Cardinality(Filled) <= Cardinality(Places)
    BY PlacesCount, FS_Subset DEF Filled
  <2>2. QED
    BY <2>1, PlacesCount DEF PlacesInv, FleetWithinLimit
<1>4. QED
  BY <1>1, <1>2, <1>3, QuotaInvariant, PTL DEF Spec

-----------------------------------------------------------------------------
(* Workers that take turns.                                                *)

\* What a lock from the count to the last recorded success would give.
ClaimsTakeTurns == \A v, w \in Workers : claim[v] > 0 /\ claim[w] > 0 => v = w

\* The limit itself, the claim of whoever has one included.
TotalWithinLimit == \A w \in Workers : spent + claim[w] <= DailyLimit

LEMMA TotalStep ==
  ASSUME DailyLimit \in Nat, QuotaInv, TotalWithinLimit, ClaimsTakeTurns, ClaimsTakeTurns',
         [Next]_quotaVars
  PROVE  TotalWithinLimit'
<1> USE DEF QuotaInv, QuotaTypeOK, TotalWithinLimit
<1>1. ASSUME NEW w \in Workers, NEW n \in 1 .. DailyLimit, Claim(w, n)
      PROVE  TotalWithinLimit'
  <2>1. claim' \in [Workers -> 0 .. DailyLimit] /\ claim'[w] = n
    BY <1>1 DEF Claim
  <2>2. \A v \in Workers \ {w} : claim'[v] = 0
    BY <2>1 DEF ClaimsTakeTurns
  <2>3. QED
    BY <1>1, <2>1, <2>2 DEF Claim
<1>2. ASSUME NEW w \in Workers, Spend(w)
      PROVE  TotalWithinLimit'
  <2>1. \A v \in Workers \ {w} : claim[v] = 0
    BY <1>2 DEF ClaimsTakeTurns, Spend
  <2>2. QED
    BY <1>2, <2>1 DEF Spend
<1>3. ASSUME NEW w \in Workers, NEW n \in 0 .. claim[w] - 1, Forgo(w, n)
      PROVE  TotalWithinLimit'
  BY <1>3 DEF Forgo
<1>4. CASE Midnight
  BY <1>4 DEF Midnight
<1>5. CASE UNCHANGED quotaVars
  BY <1>5 DEF quotaVars
<1>6. QED
  BY <1>1, <1>2, <1>3, <1>4, <1>5 DEF Next

\* A fleet whose claims take turns keeps the limit itself: that claims overlap
\* is all that takes it to n times the limit.
THEOREM QuotaInTurn ==
  ASSUME DailyLimit \in Nat
  PROVE  Spec /\ []ClaimsTakeTurns => []TotalWithinLimit
<1>1. Init => TotalWithinLimit
  BY DEF Init, TotalWithinLimit
<1>2. QuotaInv /\ TotalWithinLimit /\ ClaimsTakeTurns /\ ClaimsTakeTurns' /\ [Next]_quotaVars
        => TotalWithinLimit'
  BY TotalStep
<1>3. QED
  BY <1>1, <1>2, QuotaInvariant, PTL DEF Spec
=============================================================================
