----------------------------- MODULE DailyQuota -----------------------------
(***************************************************************************)
(* What the daily send limit promises when several workers draw on it.     *)
(*                                                                         *)
(* A worker counts today's recorded successes, claims at most what is left *)
(* of the limit, and spends its claim one success at a time.  The claim is *)
(* private: nothing is reserved, so two workers may claim the same rest.   *)
(* Campaign dispatch and warm-up both count this way.                      *)
(***************************************************************************)
EXTENDS Integers, FiniteSets

CONSTANTS Workers,     \* the processes that draw on the limit
          DailyLimit   \* successes allowed per day

VARIABLES spent,    \* successes recorded today
          spentBy,  \* the part of spent each worker recorded
          claim     \* what each worker may still record

quotaVars == <<spent, spentBy, claim>>

Init == /\ spent = 0
        /\ spentBy = [w \in Workers |-> 0]
        /\ claim = [w \in Workers |-> 0]

Claim(w, n) == /\ claim[w] = 0
               /\ n <= DailyLimit - spent
               /\ claim' = [claim EXCEPT ![w] = n]
               /\ UNCHANGED <<spent, spentBy>>

Spend(w) == /\ claim[w] > 0
            /\ claim' = [claim EXCEPT ![w] = @ - 1]
            /\ spent' = spent + 1
            /\ spentBy' = [spentBy EXCEPT ![w] = @ + 1]

\* The claim shrinks without a recorded success: a send failed, was not due
\* any more, or the worker gave up its whole batch.
Forgo(w, n) == /\ claim' = [claim EXCEPT ![w] = n]
               /\ UNCHANGED <<spent, spentBy>>

\* A new day starts the count afresh; claims made yesterday survive it.
Midnight == /\ spent' = 0
            /\ spentBy' = [w \in Workers |-> 0]
            /\ UNCHANGED claim

Next == \/ \E w \in Workers : \/ \E n \in 1 .. DailyLimit : Claim(w, n)
                              \/ Spend(w)
                              \/ \E n \in 0 .. claim[w] - 1 : Forgo(w, n)
        \/ Midnight

Spec == Init /\ [][Next]_quotaVars

QuotaTypeOK == /\ spent \in Nat
               /\ spentBy \in [Workers -> Nat]
               /\ claim \in [Workers -> 0 .. DailyLimit]

\* No worker records more than the limit in a day.
WorkerWithinLimit == \A w \in Workers : spentBy[w] + claim[w] <= DailyLimit

\* With one worker the limit itself holds.
SoleWorkerWithinLimit ==
  \A w \in Workers : Workers = {w} => spent + claim[w] <= DailyLimit

\* A fleet of n workers records at most n times the limit; that is all
\* check-then-send guarantees of the total.
FleetWithinLimit == spent <= Cardinality(Workers) * DailyLimit

\* Every worker's share is part of the total, and one worker's is all of it.
SharesInTotal ==
  \A w \in Workers : /\ spentBy[w] <= spent
                     /\ Workers = {w} => spentBy[w] = spent
=============================================================================
