------------------------------ MODULE Contacts ------------------------------
(***************************************************************************)
(* Suppression, lead import and bulk verification over the one contacts    *)
(* table they share.                                                       *)
(***************************************************************************)
EXTENDS LeadImport, VerificationJobs

vars == <<suppressionVars, importVars, jobVars>>

Init == SuppressionInit /\ ImportInit /\ JobsInit

Next ==
  \/ SuppressionNext /\ UNCHANGED <<importVars, jobVars>>
  \/ ImportNext /\ UNCHANGED jobVars
  \/ JobsNext /\ UNCHANGED importVars

\* A worker takes what the broker has, and finishes what it has begun.
Fairness ==
  \A w \in Workers :
    /\ WF_vars(WorkerStep(w) /\ UNCHANGED importVars)
    /\ WF_vars((LookUp(w) \/ \E mx \in BOOLEAN : VerifyCommit(w, mx)) /\ UNCHANGED <<importVars, jobVars>>)
    /\ WF_vars((\E t \in Tasks : Find(w, t)) /\ UNCHANGED importVars)

Spec == Init /\ [][Next]_vars
FairSpec == Spec /\ Fairness

TypeOK == SuppressionTypeOK /\ ImportTypeOK /\ JobsTypeOK
=============================================================================
