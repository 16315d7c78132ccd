----------------------- MODULE CampaignDispatchProofs -----------------------
(***************************************************************************)
(* Theorems of CampaignDispatch, for every set of workers, clients,        *)
(* contacts and keys and every limit.                                      *)
(***************************************************************************)
EXTENDS CampaignDispatch, FiniteSetTheorems, WellFoundedInduction, TLAPS

-----------------------------------------------------------------------------
(* The operators the actions are built from.                               *)

\* A non-empty set of naturals has a least element.
LEMMA LeastElement ==
  ASSUME NEW S, S \subseteq Nat, S # {}
  PROVE  \E s \in S : \A t \in S : s <= t
<1>1. PICK x \in S : \A y \in S : ~(<<y, x>> \in OpToRel(<, Nat))
  BY NatLessThanWellFounded, WFMin, Zenon
<1>2. \A y \in S : ~(y < x)
  BY <1>1, Zenon DEF OpToRel
<1>3. QED
  BY <1>2

\* A lead moves to a step of the sequence, or is finished.
LEMMA ProgressedType ==
  ASSUME DatabaseOK, NEW l \in Rows
  PROVE  Progressed(l) \in LeadRow
<1> DEFINE least == CHOOSE s \in NextSteps(l) : \A t \in NextSteps(l) : s <= t
<1>1. leads[l] \in LeadRow
  BY DEF DatabaseOK
<1>2. NextSteps(l) \subseteq Steps /\ Steps \subseteq Nat
  BY DispatchAssumption DEF NextSteps, DatabaseOK, Steps
<1>3. ASSUME NextSteps(l) # {}
      PROVE  least \in Steps
  <2>1. \E s \in NextSteps(l) : \A t \in NextSteps(l) : s <= t
    BY <1>2, <1>3, LeastElement
  <2>2. QED
    BY <1>2, <2>1
<1> HIDE DEF least
<1>4. Progressed(l) = IF NextSteps(l) = {}
                      THEN [leads[l] EXCEPT !.status = "sent", !.due = TRUE]
                      ELSE [leads[l] EXCEPT !.status = "scheduled", !.due = FALSE, !.step = least]
  BY DEF Progressed, least
<1>5. QED
  BY <1>1, <1>3, <1>4 DEF LeadRow, LeadStatus

LEMMA ForgetType ==
  ASSUME HistoryOK, NEW C, Forget(C)
  PROVE  forgotten' \in [Contacts -> Nat]
BY DispatchAssumption DEF HistoryOK, Forget, Count

\* What a sync writes is a table of leads.
LEMMA SyncedType ==
  ASSUME DatabaseOK, SessionOK, NEW p \in Procs,
         NEW keys \in [plan[p].add -> FreshKeys],
         \A c, d \in plan[p].add : keys[c] = keys[d] => c = d
  PROVE  /\ DOMAIN Synced(p, keys) \subseteq Leads
         /\ Synced(p, keys) \in [DOMAIN Synced(p, keys) -> LeadRow]
<1> DEFINE added == {keys[c] : c \in plan[p].add}
           row(l) == IF l \in added THEN NewLead(CHOOSE c \in plan[p].add : keys[c] = l)
                     ELSE IF l \in plan[p].reset THEN [leads[l] EXCEPT !.status = "scheduled"]
                     ELSE leads[l]
           table == (Rows \ plan[p].drop) \cup added
<1>1. plan[p].add \subseteq Contacts
  BY DEF SessionOK, SyncPlan
<1>2. added \subseteq Leads
  BY DEF FreshKeys
<1>3. ASSUME NEW l \in table
      PROVE  row(l) \in LeadRow
  <2>1. CASE l \in added
    <3> DEFINE c == CHOOSE d \in plan[p].add : keys[d] = l
    <3>1. c \in Contacts
      BY <1>1, <2>1
    <3> HIDE DEF c
    <3>2. NewLead(c) \in LeadRow
      BY <3>1, DispatchAssumption DEF NewLead, LeadRow, LeadStatus, Steps
    <3>3. QED
      BY <2>1, <3>2 DEF c
  <2>2. CASE l \notin added
    <3>1. leads[l] \in LeadRow
      BY <1>3, <2>2 DEF DatabaseOK
    <3>2. [leads[l] EXCEPT !.status = "scheduled"] \in LeadRow
      BY <3>1 DEF LeadRow, LeadStatus
    <3>3. QED
      BY <2>2, <3>1, <3>2
  <2>3. QED
    BY <2>1, <2>2
<1> HIDE DEF row, added
<1>4. Synced(p, keys) = [l \in table |-> row(l)]
  BY DEF Synced, row, added
<1>5. table \subseteq Leads
  BY <1>2 DEF DatabaseOK
<1>6. QED
  BY <1>3, <1>4, <1>5

-----------------------------------------------------------------------------
(* The steps that the handlers share.                                      *)

\* What the sessions look like after a step of some process.
SessionsOK == SessionOK /\ BatchOK /\ late \in [Workers -> SUBSET Contacts]
              /\ unheard \subseteq Workers

LEMMA SessionClosed ==
  ASSUME TypeOK, NEW p \in Procs, CloseSession(p)
  PROVE  SessionsOK'
<1>1. SessionOK'
  BY DEF TypeOK, SessionOK, CloseSession, PcValues, NoPlan, SyncPlan, CampaignStatus, Procs
<1>2. BatchOK'
  BY DEF TypeOK, SessionOK, BatchOK, CloseSession, Working, Holding, Procs
<1>3. late' \in [Workers -> SUBSET Contacts] /\ unheard' \subseteq Workers
  BY DEF TypeOK, HistoryOK, CloseSession
<1>4. QED
  BY <1>1, <1>2, <1>3 DEF SessionsOK

LEMMA Advanced ==
  ASSUME TypeOK, NEW w \in Workers, Advance(w)
  PROVE  SessionsOK'
<1> DEFINE rest == batch[w] \ {task[w].lead}
<1>1. CASE rest = {}
  BY <1>1, SessionClosed DEF Advance, Procs
<1>2. CASE rest # {}
  <2>1. /\ pc' = [pc EXCEPT ![w] = "next"]
        /\ batch' = [batch EXCEPT ![w] = rest]
        /\ task' = [task EXCEPT ![w] = Null]
        /\ unheard' = unheard \ {w}
        /\ UNCHANGED <<plan, starting, seen, late>>
    BY <1>2 DEF Advance
  <2>2. SessionOK'
    BY <2>1 DEF TypeOK, SessionOK, PcValues, Working, Procs
  <2>3. BatchOK'
    BY <1>2, <2>1 DEF TypeOK, SessionOK, BatchOK, Working, Holding, Procs
  <2>4. QED
    BY <2>1, <2>2, <2>3 DEF TypeOK, HistoryOK, SessionsOK
<1>3. QED
  BY <1>1, <1>2

LEMMA Looked ==
  ASSUME TypeOK, NEW w \in Workers, NEW l \in Rows, Look(w, l),
         batch' \in [Workers -> SUBSET Leads], l \in batch'[w],
         \A v \in Workers \ {w} : batch'[v] = batch[v],
         UNCHANGED <<plan, starting, seen, late>>
  PROVE  SessionsOK'
<1> DEFINE t == [lead |-> l, contact |-> leads[l].contact, step |-> leads[l].step, today |-> FALSE]
<1>1. t \in Task /\ t.lead = l
  BY DEF TypeOK, DatabaseOK, LeadRow, Task
<1>2. Verdict(l) \in {"skip", "halt", "send"}
  BY DEF Verdict
<1>3. t # Null
  BY <1>1, DispatchAssumption
<1> HIDE DEF t
<1>4. /\ pc' = [pc EXCEPT ![w] = Verdict(l)]
      /\ task' = [task EXCEPT ![w] = t]
      /\ unheard' = unheard \ {w}
  BY DEF Look, t
<1>5. SessionOK'
  BY <1>1, <1>2, <1>4 DEF TypeOK, SessionOK, PcValues, Working, Procs
<1>6. BatchOK'
  BY <1>1, <1>2, <1>3, <1>4 DEF TypeOK, SessionOK, BatchOK, Working, Holding, Procs
<1>7. QED
  BY <1>4, <1>5, <1>6 DEF TypeOK, HistoryOK, SessionsOK

-----------------------------------------------------------------------------
(* Type correctness.                                                       *)

LEMMA InitTypeOK == Init => TypeOK
<1> SUFFICES ASSUME Init
             PROVE  TypeOK
  OBVIOUS
<1>1. DatabaseOK
  <2>1. Rows \subseteq Leads /\ leads \in [Rows -> LeadRow]
    <3>1. CASE leads = [l \in {} |-> Null]
      BY <3>1 DEF Rows
    <3>2. CASE \E keys \in [Contacts -> Leads] :
                 /\ \A c, d \in Contacts : keys[c] = keys[d] => c = d
                 /\ leads = [l \in {keys[c] : c \in Contacts} |->
                               NewLead(CHOOSE c \in Contacts : keys[c] = l)]
      <4>1. PICK keys \in [Contacts -> Leads] :
              leads = [l \in {keys[c] : c \in Contacts} |->
                         NewLead(CHOOSE c \in Contacts : keys[c] = l)]
        BY <3>2
      <4>2. Rows = {keys[c] : c \in Contacts}
        BY <4>1 DEF Rows
      <4>3. ASSUME NEW l \in Rows
            PROVE  leads[l] \in LeadRow
        <5> DEFINE c == CHOOSE d \in Contacts : keys[d] = l
        <5>1. c \in Contacts
          BY <4>2
        <5>2. leads[l] = NewLead(c)
          BY <4>1, <4>2
        <5> HIDE DEF c
        <5>3. QED
          BY <5>1, <5>2, DispatchAssumption DEF NewLead, LeadRow, LeadStatus, Steps
      <4>4. QED
        BY <4>1, <4>2, <4>3
    <3>3. QED
      BY <3>1, <3>2 DEF Init
  <2>2. QED
    BY <2>1 DEF Init, DatabaseOK, CampaignStatus
<1>2. SessionOK
  BY DEF Init, SessionOK, PcValues, NoPlan, SyncPlan, CampaignStatus
<1>3. HistoryOK
  BY DispatchAssumption DEF Init, HistoryOK
<1>4. BatchOK
  BY DEF Init, BatchOK, Working, Holding, Procs
<1>5. QED
  BY <1>1, <1>2, <1>3, <1>4 DEF TypeOK

\* Synchronisation and the end of a session.
LEMMA SyncTypeOK ==
  ASSUME TypeOK, NEW p \in Procs, Sync(p) \/ Crash(p)
  PROVE  TypeOK'
<1> USE DEF TypeOK
<1>0. /\ AfterSync(p) \in {"select", "admit", "idle"}
      /\ AfterSync(p) \in PcValues \ Working
  BY DEF AfterSync, PcValues, Working
<1>1. CASE SyncSkip(p)
  <2>1. SessionOK' /\ BatchOK'
    BY <1>0, <1>1 DEF SyncSkip, SessionOK, BatchOK, Working, Holding, Procs
  <2>2. QED
    BY <1>1, <2>1 DEF SyncSkip, DatabaseOK, Rows, HistoryOK, database, history
<1>2. CASE SyncRead(p)
  <2>1. ASSUME NEW e \in ExistingByContact
        PROVE  PlanFor(e) \in SyncPlan
    BY DEF PlanFor, SyncPlan, ExistingByContact, DatabaseOK, HasRow
  <2>2. SessionOK' /\ BatchOK'
    BY <1>2, <2>1 DEF SyncRead, SessionOK, BatchOK, PcValues, Working, Holding, Procs
  <2>3. QED
    BY <1>2, <2>2 DEF SyncRead, DatabaseOK, Rows, HistoryOK, database, history
<1>3. CASE SyncCommit(p)
  <2>1. Rows' \subseteq Leads /\ leads' \in [Rows' -> LeadRow]
    BY <1>3, SyncedType DEF SyncCommit, Rows
  <2>2. DatabaseOK'
    BY <1>3, <2>1 DEF SyncCommit, DatabaseOK, Rows
  <2>3. NoPlan \in SyncPlan
    BY DEF NoPlan, SyncPlan
  <2>4. SessionOK' /\ BatchOK'
    <3>1. seen' \in [Clients -> CampaignStatus]
      BY <1>3 DEF SyncCommit, SessionOK, DatabaseOK
    <3>2. plan' \in [Procs -> SyncPlan]
      BY <1>3, <2>3 DEF SyncCommit, SessionOK
    <3>3. pc' \in [Procs -> PcValues]
      BY <1>0, <1>3 DEF SyncCommit, SessionOK
    <3>4. BatchOK'
      BY <1>0, <1>3 DEF SyncCommit, SessionOK, BatchOK, Working, Holding, Procs
    <3>5. QED
      BY <1>3, <3>1, <3>2, <3>3, <3>4 DEF SyncCommit, SessionOK
  <2>5. forgotten' \in [Contacts -> Nat]
    BY <1>3, ForgetType DEF SyncCommit
  <2>6. QED
    BY <1>3, <2>2, <2>4, <2>5 DEF SyncCommit, HistoryOK
<1>4. CASE SyncStale(p)
  <2>1. SessionsOK'
    BY <1>4, SessionClosed DEF SyncStale
  <2>2. QED
    BY <1>4, <2>1 DEF SyncStale, SessionsOK, DatabaseOK, Rows, HistoryOK, database
<1>5. CASE Crash(p)
  <2>1. SessionsOK'
    BY <1>5, SessionClosed DEF Crash
  <2>2. forgotten' \in [Contacts -> Nat]
    BY <1>5, ForgetType DEF Crash
  <2>3. QED
    BY <1>5, <2>1, <2>2 DEF Crash, SessionsOK, DatabaseOK, Rows, HistoryOK, database
<1>6. QED
  BY <1>1, <1>2, <1>3, <1>4, <1>5 DEF Sync

\* Choosing the leads of the cycle.
LEMMA ChoosingTypeOK ==
  ASSUME TypeOK, NEW w \in Workers,
         BeginCycle(w) \/ Select(w) \/ SelectNothing(w) \/ Take(w) \/ RowGone(w)
  PROVE  TypeOK'
<1> USE DEF TypeOK
<1>1. CASE BeginCycle(w)
  <2>1. SessionOK' /\ BatchOK'
    BY <1>1 DEF BeginCycle, SessionOK, BatchOK, PcValues, Working, Holding, Procs
  <2>2. QED
    BY <1>1, <2>1 DEF BeginCycle, DatabaseOK, Rows, HistoryOK, database, history
<1>2. CASE Select(w)
  <2>1. PICK S \in Picks(DailyLimit - sentToday) :
          \E l \in {m \in S : Eligible(m)} :
            /\ batch' = [batch EXCEPT ![w] = {m \in S : Eligible(m)}]
            /\ Look(w, l)
    BY <1>2 DEF Select
  <2>2. PICK l \in {m \in S : Eligible(m)} :
          /\ batch' = [batch EXCEPT ![w] = {m \in S : Eligible(m)}]
          /\ Look(w, l)
    BY <2>1
  <2>3. S \subseteq Rows
    BY DEF Picks, Pending
  <2>4. batch' \in [Workers -> SUBSET Leads] /\ l \in batch'[w]
    BY <2>2, <2>3 DEF SessionOK, DatabaseOK
  <2>5. SessionsOK'
    BY <1>2, <2>2, <2>3, <2>4, Looked DEF Select, SessionOK
  <2>6. QED
    BY <1>2, <2>5 DEF Select, SessionsOK, DatabaseOK, Rows, HistoryOK, database
<1>3. CASE SelectNothing(w)
  <2>1. SessionsOK'
    BY <1>3, SessionClosed DEF SelectNothing, Procs
  <2>2. QED
    BY <1>3, <2>1 DEF SelectNothing, SessionsOK, DatabaseOK, Rows, HistoryOK, database
<1>4. CASE Take(w)
  <2>1. PICK l \in batch[w] \cap Rows : Look(w, l)
    BY <1>4 DEF Take
  <2>2. SessionsOK'
    BY <1>4, <2>1, Looked DEF Take, SessionOK
  <2>3. QED
    BY <1>4, <2>2 DEF Take, SessionsOK, DatabaseOK, Rows, HistoryOK, database
<1>5. CASE RowGone(w)
  <2>1. SessionsOK'
    BY <1>5, SessionClosed DEF RowGone, Procs
  <2>2. forgotten' \in [Contacts -> Nat]
    BY <1>5, ForgetType DEF RowGone
  <2>3. QED
    BY <1>5, <2>1, <2>2 DEF RowGone, SessionsOK, DatabaseOK, Rows, HistoryOK, database
<1>6. QED
  BY <1>1, <1>2, <1>3, <1>4, <1>5

\* Sending to a lead and settling it.
LEMMA SendingTypeOK ==
  ASSUME TypeOK, NEW w \in Workers,
         Settle(w) \/ Send(w) \/ LogSend(w) \/ Finish(w) \/ FailLead(w)
  PROVE  TypeOK'
<1> USE DEF TypeOK
<1>0. ASSUME pc[w] \in Holding
      PROVE  task[w] \in Task
  BY <1>0 DEF BatchOK, SessionOK
<1>1. CASE Settle(w)
  <2>1. SessionsOK'
    BY <1>1, Advanced DEF Settle
  <2>2. DatabaseOK'
    BY <1>1 DEF Settle, DatabaseOK, Rows, LeadRow, LeadStatus
  <2>3. QED
    BY <1>1, <2>1, <2>2 DEF Settle, SessionsOK, HistoryOK
<1>2. ASSUME NEW acked \in BOOLEAN, Deliver(w, acked)
      PROVE  TypeOK'
  <2>1. task[w].contact \in Contacts /\ task[w].step \in Steps
    BY <1>0, <1>2 DEF Deliver, Holding, Working, Task
  <2>2. mail' \in [Contacts -> [Steps -> Nat]]
    <3> DEFINE c == task[w].contact
               s == task[w].step
    <3>1. Count(mail[c][s]) \in Nat
      BY <2>1, DispatchAssumption DEF HistoryOK, Count
    <3>2. mail' = [mail EXCEPT ![c][s] = Count(@)]
      BY <1>2 DEF Deliver
    <3> HIDE DEF c, s
    <3>3. QED
      BY <3>1, <3>2 DEF HistoryOK
  <2>3. forgotten' \in [Contacts -> Nat]
    BY <1>2, ForgetType DEF Deliver
  <2>4. SessionOK' /\ BatchOK'
    BY <1>2 DEF Deliver, SessionOK, BatchOK, PcValues, Working, Holding, Procs
  <2>5. QED
    BY <1>2, <2>2, <2>3, <2>4 DEF Deliver, DatabaseOK, Rows, HistoryOK, database
<1>3. CASE SendFails(w)
  <2>1. SessionOK' /\ BatchOK'
    BY <1>3 DEF SendFails, SessionOK, BatchOK, PcValues, Working, Holding, Procs
  <2>2. QED
    BY <1>3, <2>1 DEF SendFails, DatabaseOK, Rows, HistoryOK, database, history
<1>4. CASE LogSend(w)
  <2>1. task[w] \in Task
    BY <1>0, <1>4 DEF LogSend, Holding, Working
  <2> DEFINE t == [task[w] EXCEPT !.today = TRUE]
  <2>2. t \in Task /\ t.lead = task[w].lead /\ t # Null
    BY <2>1, DispatchAssumption DEF Task
  <2>3. task' = [task EXCEPT ![w] = t]
    BY <1>4 DEF LogSend
  <2> HIDE DEF t
  <2>4. /\ pc[w] = "log" /\ pc' = [pc EXCEPT ![w] = "finish"]
        /\ UNCHANGED <<database, plan, starting, seen, batch, history, ops, crashes>>
    BY <1>4 DEF LogSend
  <2>5. SessionOK'
    BY <2>2, <2>3, <2>4 DEF SessionOK, PcValues, Working, Procs
  <2>6. BatchOK'
    BY <2>2, <2>3, <2>4 DEF SessionOK, BatchOK, Working, Holding, Procs
  <2>7. QED
    BY <2>4, <2>5, <2>6 DEF DatabaseOK, Rows, HistoryOK, database, history
<1>5. CASE Finish(w)
  <2>1. task[w] \in Task
    BY <1>0, <1>5 DEF Finish, Holding, Working
  <2>2. SessionsOK'
    BY <1>5, Advanced DEF Finish
  <2>3. Rows' \subseteq Leads /\ leads' \in [Rows' -> LeadRow]
    BY <1>5, ProgressedType DEF Finish, DatabaseOK, Rows
  <2>4. sentToday' \in Nat /\ sentBy' \in [Workers -> Nat]
    BY <1>5, <2>1 DEF Finish, DatabaseOK, HistoryOK, Task
  <2>5. QED
    BY <1>5, <2>2, <2>3, <2>4 DEF Finish, SessionsOK, DatabaseOK, HistoryOK
<1>6. CASE FailLead(w)
  <2>1. SessionsOK'
    BY <1>6, Advanced DEF FailLead
  <2>2. DatabaseOK'
    BY <1>6 DEF FailLead, DatabaseOK, Rows, LeadRow, LeadStatus
  <2>3. QED
    BY <1>6, <2>1, <2>2 DEF FailLead, SessionsOK, HistoryOK
<1>7. QED
  BY <1>1, <1>2, <1>3, <1>4, <1>5, <1>6 DEF Send

\* Operators, recipients and requests.
LEMMA OperatorTypeOK ==
  ASSUME TypeOK, Operator
  PROVE  TypeOK'
<1> USE DEF TypeOK
<1>1. Operates => ops' \in Nat
  BY DEF Operates, HistoryOK
<1>2. ASSUME NEW c \in Contacts, Block(c)
      PROVE  TypeOK'
  <2>1. late' \in [Workers -> SUBSET Contacts]
    BY <1>2 DEF Block, HistoryOK
  <2>2. QED
    BY <1>1, <1>2, <2>1 DEF Block, DatabaseOK, Rows, SessionOK, HistoryOK, BatchOK, session
<1>3. ASSUME NEW c \in Contacts, Unblock(c)
      PROVE  TypeOK'
  BY <1>1, <1>3 DEF Unblock, DatabaseOK, Rows, SessionOK, HistoryOK, BatchOK, session, history
<1>4. ASSUME NEW c \in Contacts, Reply(c)
      PROVE  TypeOK'
  BY <1>1, <1>4 DEF Reply, DatabaseOK, Rows, SessionOK, HistoryOK, BatchOK, session
<1>5. ASSUME NEW from, NEW to \in CampaignStatus, SetStatus(from, to)
      PROVE  TypeOK'
  BY <1>1, <1>5 DEF SetStatus, DatabaseOK, Rows, SessionOK, HistoryOK, BatchOK, session, history
<1>6. Pause \/ Archive \/ Unarchive => TypeOK'
  BY <1>5 DEF Pause, Archive, Unarchive, CampaignStatus
<1>7. CASE ReplaceSequence
  BY <1>1, <1>7
  DEF ReplaceSequence, DatabaseOK, Rows, SessionOK, HistoryOK, BatchOK, session, history
<1>8. QED
  BY <1>2, <1>3, <1>4, <1>6, <1>7 DEF Operator

LEMMA RequestTypeOK ==
  ASSUME TypeOK, NEW k \in Clients, ClientRequest(k)
  PROVE  TypeOK'
<1> USE DEF TypeOK
<1>1. ASSUME Request(k), members' \subseteq Contacts, attached' \in BOOLEAN,
             starting' \subseteq Clients, seen' \in [Clients -> CampaignStatus]
      PROVE  TypeOK'
  <2>1. ops' \in Nat
    BY <1>1 DEF Request, Operates, HistoryOK
  <2>2. SessionOK' /\ BatchOK'
    BY <1>1, DispatchAssumption
    DEF Request, SessionOK, BatchOK, PcValues, Working, Holding, Procs
  <2>3. QED
    BY <1>1, <2>1, <2>2 DEF Request, DatabaseOK, Rows, HistoryOK, history
<1>2. Request(k)
  BY DEF ClientRequest, AddMember, RemoveMember, AttachList, DetachList, DeleteList, DryRun, Start
<1>3. members' \subseteq Contacts /\ attached' \in BOOLEAN
  BY DEF ClientRequest, AddMember, RemoveMember, AttachList, DetachList, DeleteList, DryRun, Start, DatabaseOK
<1>4. starting' \subseteq Clients /\ seen' \in [Clients -> CampaignStatus]
  <2>1. CASE Start(k)
    BY <2>1 DEF Start, SessionOK, DatabaseOK
  <2>2. CASE UNCHANGED <<starting, seen>>
    BY <2>2 DEF SessionOK
  <2>3. QED
    BY <2>1, <2>2 DEF ClientRequest, AddMember, RemoveMember, AttachList, DetachList, DeleteList, DryRun
<1>5. QED
  BY <1>1, <1>2, <1>3, <1>4

LEMMA ClientTypeOK ==
  ASSUME TypeOK, NEW k \in Clients, Admit(k) \/ Refuse(k) \/ Activate(k)
  PROVE  TypeOK'
<1> USE DEF TypeOK
<1>1. CASE Admit(k)
  <2>1. SessionOK' /\ BatchOK'
    BY <1>1, DispatchAssumption
    DEF Admit, SessionOK, DatabaseOK, BatchOK, PcValues, Working, Holding, Procs
  <2>2. QED
    BY <1>1, <2>1 DEF Admit, DatabaseOK, Rows, HistoryOK, database, history
<1>2. CASE Refuse(k)
  <2>1. SessionsOK'
    BY <1>2, SessionClosed DEF Refuse, Procs
  <2>2. QED
    BY <1>2, <2>1 DEF Refuse, SessionsOK, DatabaseOK, Rows, HistoryOK, database
<1>3. CASE Activate(k)
  <2>1. SessionsOK'
    BY <1>3, SessionClosed DEF Activate, Procs
  <2>2. QED
    BY <1>3, <2>1 DEF Activate, SessionsOK, DatabaseOK, Rows, HistoryOK, CampaignStatus
<1>4. QED
  BY <1>1, <1>2, <1>3

\* Time passes.
LEMMA TimeTypeOK ==
  ASSUME TypeOK, NewDay \/ \E l \in Leads : StepDue(l)
  PROVE  TypeOK'
<1> USE DEF TypeOK
<1>1. CASE NewDay
  <2> DEFINE t(w) == IF task[w] = Null THEN Null ELSE [task[w] EXCEPT !.today = FALSE]
  <2>1. ASSUME NEW w \in Workers
        PROVE  /\ t(w) \in Task \cup {Null}
               /\ t(w) = Null <=> task[w] = Null
               /\ t(w) # Null => t(w).lead = task[w].lead
    <3>1. CASE task[w] = Null
      BY <3>1
    <3>2. CASE task[w] # Null
      <4>1. task[w] \in Task
        BY <3>2 DEF SessionOK
      <4>2. t(w) \in Task /\ t(w).lead = task[w].lead
        BY <3>2, <4>1 DEF Task
      <4>3. QED
        BY <3>2, <4>2, DispatchAssumption
    <3>3. QED
      BY <3>1, <3>2
  <2> HIDE DEF t
  <2>2. task' = [w \in Workers |-> t(w)]
    BY <1>1 DEF NewDay, t
  <2>3. SessionOK'
    BY <1>1, <2>1, <2>2 DEF NewDay, SessionOK
  <2>4. BatchOK'
    BY <1>1, <2>1, <2>2 DEF NewDay, BatchOK
  <2>5. QED
    BY <1>1, <2>3, <2>4 DEF NewDay, DatabaseOK, Rows, HistoryOK
<1>2. ASSUME NEW l \in Leads, StepDue(l)
      PROVE  TypeOK'
  <2>1. l \in Rows /\ leads \in [Rows -> LeadRow] /\ leads' = [leads EXCEPT ![l].due = TRUE]
    BY <1>2 DEF StepDue, DatabaseOK, Rows
  <2>2. leads' \in [Rows -> LeadRow] /\ Rows' = Rows
    BY <2>1 DEF LeadRow, Rows
  <2> DatabaseOK'
    BY <1>2, <2>2 DEF StepDue, DatabaseOK
  <2>3. SessionOK' /\ BatchOK'
    BY <1>2 DEF StepDue, SessionOK, BatchOK, session
  <2>4. HistoryOK'
    BY <1>2 DEF StepDue, HistoryOK, history
  <2>5. QED
    BY <2>3, <2>4
<1>3. QED
  BY <1>1, <1>2

\* Every step keeps the types.
LEMMA StepTypeOK ==
  ASSUME TypeOK, [Next]_vars
  PROVE  TypeOK'
<1>1. ASSUME NEW w \in Workers, BeginCycle(w) \/ CycleStep(w) \/ Send(w)
      PROVE  TypeOK'
  BY <1>1, SyncTypeOK, ChoosingTypeOK, SendingTypeOK DEF CycleStep, Procs
<1>2. ASSUME NEW k \in Clients, ClientStep(k) \/ ClientRequest(k)
      PROVE  TypeOK'
  BY <1>2, SyncTypeOK, ClientTypeOK, RequestTypeOK DEF ClientStep, Procs
<1>3. CASE UNCHANGED vars
  BY <1>3 DEF vars, database, session, history, TypeOK, DatabaseOK, Rows, SessionOK,
              HistoryOK, BatchOK
<1>4. QED
  BY <1>1, <1>2, <1>3, SyncTypeOK, OperatorTypeOK, TimeTypeOK DEF Next

\* The rows, the sessions and the history keep their types, and what a worker
\* holds matches where it stands in _process_campaign, in every interleaving.
THEOREM TypeCorrect == Spec => []TypeOK
<1>1. TypeOK /\ [Next]_vars => TypeOK'
  BY StepTypeOK
<1>2. QED
  BY InitTypeOK, <1>1, PTL DEF Spec

-----------------------------------------------------------------------------
(* The dispatch implements the daily quota.                                *)

LEMMA BatchSize ==
  ASSUME TypeOK, NEW w \in Workers
  PROVE  /\ IsFiniteSet(batch[w])
         /\ Cardinality(batch[w]) \in Nat
         /\ Cardinality(batch[w]) = 0 <=> batch[w] = {}
<1>1. batch[w] \subseteq Leads
  BY DEF TypeOK, SessionOK
<1>2. IsFiniteSet(batch[w])
  BY <1>1, FS_Subset, DispatchAssumption
<1>3. QED
  BY <1>2, FS_CardinalityType, FS_EmptySet

\* A batch is replaced by a smaller one, nothing is recorded.
LEMMA ShrinkIsForgo ==
  ASSUME TypeOK, NEW w \in Workers, NEW B \in SUBSET batch[w], B # batch[w],
         batch' = [batch EXCEPT ![w] = B], UNCHANGED <<sentToday, sentBy>>
  PROVE  Quota!Next
<1> DEFINE n == Cardinality(B)
<1>1. n \in 0 .. Cardinality(batch[w]) - 1
  <2>1. IsFiniteSet(B) /\ n <= Cardinality(batch[w]) /\ n # Cardinality(batch[w])
    BY BatchSize, FS_Subset
  <2>2. QED
    BY <2>1, BatchSize, FS_CardinalityType
<1> HIDE DEF n
<1>2. [v \in Workers |-> Cardinality(batch'[v])]
        = [[v \in Workers |-> Cardinality(batch[v])] EXCEPT ![w] = n]
  BY DEF TypeOK, SessionOK, n
<1>3. QED
  BY <1>1, <1>2 DEF Quota!Next, Quota!Forgo

LEMMA ClosingIsQuotaStep ==
  ASSUME TypeOK, NEW p \in Procs, CloseSession(p), UNCHANGED <<sentToday, sentBy>>
  PROVE  [Quota!Next]_Quota!quotaVars
<1>1. batch' = [w \in Workers |-> IF w = p THEN {} ELSE batch[w]]
  BY DEF CloseSession
<1>2. CASE p \in Workers /\ batch[p] # {}
  <2>1. batch' = [batch EXCEPT ![p] = {}]
    BY <1>1, <1>2 DEF TypeOK, SessionOK
  <2>2. QED
    BY <1>2, <2>1, ShrinkIsForgo
<1>3. CASE ~(p \in Workers /\ batch[p] # {})
  <2>1. batch' = batch
    BY <1>1, <1>3 DEF TypeOK, SessionOK
  <2>2. QED
    BY <2>1 DEF Quota!quotaVars
<1>4. QED
  BY <1>2, <1>3

LEMMA AdvanceShrinks ==
  ASSUME TypeOK, NEW w \in Workers, task[w] # Null, Advance(w)
  PROVE  /\ batch' = [batch EXCEPT ![w] = batch[w] \ {task[w].lead}]
         /\ task[w].lead \in batch[w]
BY DEF TypeOK, SessionOK, BatchOK, Advance, CloseSession

LEMMA AdvancingIsQuotaStep ==
  ASSUME TypeOK, NEW w \in Workers, task[w] # Null, Advance(w),
         UNCHANGED <<sentToday, sentBy>>
  PROVE  Quota!Next
<1> DEFINE B == batch[w] \ {task[w].lead}
<1>1. B \in SUBSET batch[w] /\ B # batch[w]
  BY AdvanceShrinks
<1>2. batch' = [batch EXCEPT ![w] = B]
  BY AdvanceShrinks
<1> HIDE DEF B
<1>3. QED
  BY <1>1, <1>2, ShrinkIsForgo

LEMMA SelectIsClaim ==
  ASSUME TypeOK, NEW w \in Workers, Select(w)
  PROVE  Quota!Next
<1>1. PICK S \in Picks(DailyLimit - sentToday) :
        \E l \in {m \in S : Eligible(m)} :
          /\ batch' = [batch EXCEPT ![w] = {m \in S : Eligible(m)}]
          /\ Look(w, l)
  BY DEF Select
<1> DEFINE B == {m \in S : Eligible(m)}
           n == Cardinality(B)
<1>2. B # {} /\ batch' = [batch EXCEPT ![w] = B]
  BY <1>1
<1>3. IsFiniteSet(S) /\ Cardinality(S) <= DailyLimit - sentToday
  <2>1. S \subseteq Leads
    BY DEF Picks, Pending, TypeOK, DatabaseOK
  <2>2. IsFiniteSet(S)
    BY <2>1, FS_Subset, DispatchAssumption
  <2>3. Cardinality(S) \in Nat
    BY <2>2, FS_CardinalityType
  <2>4. QED
    BY <2>2, <2>3, DispatchAssumption DEF Picks, TypeOK, DatabaseOK
<1>4. n \in 1 .. DailyLimit /\ n <= DailyLimit - sentToday
  <2>1. B \in SUBSET S
    OBVIOUS
  <2>2. IsFiniteSet(B) /\ n <= Cardinality(S)
    BY <1>3, <2>1, FS_Subset
  <2>3. n \in Nat /\ n # 0
    BY <1>2, <2>2, FS_CardinalityType, FS_EmptySet
  <2>4. Cardinality(S) \in Nat
    BY <1>3, FS_CardinalityType
  <2>5. QED
    BY <1>3, <2>2, <2>3, <2>4, DispatchAssumption DEF TypeOK, DatabaseOK
<1> HIDE DEF B, n
<1>5. Cardinality(batch[w]) = 0
  BY BatchSize DEF Select, TypeOK, BatchOK, Working
<1>6. [v \in Workers |-> Cardinality(batch'[v])]
        = [[v \in Workers |-> Cardinality(batch[v])] EXCEPT ![w] = n]
  BY <1>2 DEF TypeOK, SessionOK, n
<1>7. UNCHANGED <<sentToday, sentBy>>
  BY DEF Select, database
<1>8. QED
  BY <1>4, <1>5, <1>6, <1>7 DEF Quota!Next, Quota!Claim

LEMMA FinishIsSpend ==
  ASSUME TypeOK, NEW w \in Workers, Finish(w)
  PROVE  Quota!Next
<1>1. task[w] # Null /\ task[w] \in Task
  BY DEF TypeOK, SessionOK, BatchOK, Finish, Holding, Working
<1>2. CASE task[w].today
  <2> DEFINE B == batch[w] \ {task[w].lead}
  <2>1. /\ batch' = [batch EXCEPT ![w] = B]
        /\ task[w].lead \in batch[w]
    BY <1>1, AdvanceShrinks DEF Finish
  <2>2. Cardinality(B) = Cardinality(batch[w]) - 1 /\ Cardinality(batch[w]) > 0
    <3>1. IsFiniteSet(batch[w]) /\ Cardinality(batch[w]) \in Nat \ {0}
      BY <2>1, BatchSize
    <3>2. Cardinality(batch[w] \ {task[w].lead}) = Cardinality(batch[w]) - 1
      BY <2>1, <3>1, FS_RemoveElement, Zenon
    <3>3. QED
      BY <3>1, <3>2
  <2> HIDE DEF B
  <2>3. [v \in Workers |-> Cardinality(batch'[v])]
          = [[v \in Workers |-> Cardinality(batch[v])] EXCEPT ![w] = @ - 1]
    BY <2>1, <2>2 DEF TypeOK, SessionOK
  <2>4. sentToday' = sentToday + 1 /\ sentBy' = [sentBy EXCEPT ![w] = @ + 1]
    BY <1>2 DEF Finish
  <2>5. QED
    BY <2>2, <2>3, <2>4 DEF Quota!Next, Quota!Spend
<1>3. CASE ~task[w].today
  <2>1. UNCHANGED <<sentToday, sentBy>>
    BY <1>3 DEF Finish, TypeOK, DatabaseOK, HistoryOK
  <2>2. QED
    BY <1>1, <2>1, AdvancingIsQuotaStep DEF Finish
<1>4. QED
  BY <1>1, <1>2, <1>3 DEF Task

\* Selecting a batch is a claim, finishing a lead spends it, giving a lead or
\* the session up forgoes it; all else stutters.
LEMMA StepImplementsQuota ==
  ASSUME TypeOK, [Next]_vars
  PROVE  [Quota!Next]_Quota!quotaVars
<1> DEFINE Goal == [Quota!Next]_Quota!quotaVars
<1>1. UNCHANGED <<batch, sentToday, sentBy>> => Goal
  BY DEF Quota!quotaVars
<1>2. ASSUME NEW p \in Procs, Sync(p) \/ Crash(p)
      PROVE  Goal
  <2>1. CASE SyncStale(p) \/ Crash(p)
    BY <2>1, ClosingIsQuotaStep DEF SyncStale, Crash, database
  <2>2. CASE SyncSkip(p) \/ SyncRead(p) \/ SyncCommit(p)
    BY <1>1, <2>2 DEF SyncSkip, SyncRead, SyncCommit, database, history
  <2>3. QED
    BY <1>2, <2>1, <2>2 DEF Sync
<1>3. ASSUME NEW w \in Workers, BeginCycle(w) \/ CycleStep(w) \/ Send(w)
      PROVE  Goal
  <2>1. CASE Select(w) \/ Finish(w)
    BY <2>1, SelectIsClaim, FinishIsSpend
  <2>2. CASE SelectNothing(w) \/ RowGone(w)
    BY <2>2, ClosingIsQuotaStep DEF SelectNothing, RowGone, database, Procs
  <2>3. CASE Settle(w) \/ FailLead(w)
    <3>1. task[w] # Null
      BY <2>3 DEF Settle, FailLead, TypeOK, BatchOK, Holding, Working
    <3>2. QED
      BY <2>3, <3>1, AdvancingIsQuotaStep DEF Settle, FailLead
  <2>4. CASE BeginCycle(w) \/ Take(w) \/ LogSend(w) \/ Send(w)
    BY <1>1, <2>4 DEF BeginCycle, Take, LogSend, Send, Deliver, SendFails, database, history
  <2>5. QED
    BY <1>2, <1>3, <2>1, <2>2, <2>3, <2>4 DEF CycleStep, Procs
<1>4. ASSUME NEW k \in Clients, ClientStep(k) \/ ClientRequest(k)
      PROVE  Goal
  <2>1. CASE Refuse(k) \/ Activate(k)
    BY <2>1, ClosingIsQuotaStep DEF Refuse, Activate, database, Procs
  <2>2. CASE Admit(k) \/ ClientRequest(k)
    BY <1>1, <2>2 DEF Admit, ClientRequest, AddMember, RemoveMember, AttachList, DetachList, DeleteList,
                      DryRun, Start, Request, database, history
  <2>3. QED
    BY <1>2, <1>4, <2>1, <2>2 DEF ClientStep, Procs
<1>5. Operator \/ (\E l \in Leads : StepDue(l)) => Goal
  BY <1>1 DEF Operator, Block, Unblock, Reply, Pause, Archive, Unarchive, SetStatus,
              ReplaceSequence, StepDue, session, history
<1>6. NewDay => Goal
  BY DEF NewDay, Quota!Next, Quota!Midnight
<1>7. UNCHANGED vars => Goal
  BY <1>1 DEF vars, database, session, history
<1>8. QED
  BY <1>2, <1>3, <1>4, <1>5, <1>6, <1>7 DEF Next

LEMMA InitImplementsQuota == Init => Quota!Init
BY FS_EmptySet DEF Init, Quota!Init

\* Whatever the interleaving of workers, handlers, crashes and replies, the
\* count of _process_campaign and the batch it cuts behave as the daily quota.
THEOREM DispatchImplementsQuota == Spec => ImplementsQuota
<1>1. TypeOK /\ [Next]_vars => [Quota!Next]_Quota!quotaVars
  BY StepImplementsQuota
<1>2. QED
  BY <1>1, TypeCorrect, InitImplementsQuota, PTL DEF Spec, ImplementsQuota, Quota!Spec

-----------------------------------------------------------------------------
(* The limits, from what is proved of the quota.                           *)

QuotaProofs == INSTANCE DailyQuotaProofs
                 WITH spent <- sentToday, spentBy <- sentBy,
                      claim <- [w \in Workers |-> Cardinality(batch[w])]

LEMMA QuotaSpecs == Quota!Spec => QuotaProofs!Spec
BY DEF Quota!Spec, Quota!Init, Quota!Next, Quota!quotaVars, Quota!Claim, Quota!Spend,
       Quota!Forgo, Quota!Midnight,
       QuotaProofs!Spec, QuotaProofs!Init, QuotaProofs!Next, QuotaProofs!quotaVars,
       QuotaProofs!Claim, QuotaProofs!Spend, QuotaProofs!Forgo, QuotaProofs!Midnight

\* However many cycles run at once, none of them attributes more than
\* daily_limit successes to a day.
THEOREM WorkersKeepTheLimit == Spec => []WorkerWithinLimit
<1>1. DailyLimit \in Nat
  BY DispatchAssumption
<1>2. QuotaProofs!Spec => []QuotaProofs!WorkerWithinLimit
  BY <1>1, QuotaProofs!QuotaPerWorker
<1>3. QuotaProofs!WorkerWithinLimit => WorkerWithinLimit
  BY DEF QuotaProofs!WorkerWithinLimit, WorkerWithinLimit
<1>4. QED
  BY <1>2, <1>3, DispatchImplementsQuota, QuotaSpecs, PTL DEF ImplementsQuota

\* A single worker process keeps the campaign within daily_limit.
THEOREM SoleWorkerKeepsTheLimit == Spec => []SoleWorkerWithinLimit
<1>1. DailyLimit \in Nat
  BY DispatchAssumption
<1>2. QuotaProofs!Spec => []QuotaProofs!SoleWorkerWithinLimit
  BY <1>1, QuotaProofs!QuotaOfSoleWorker
<1>3. QuotaProofs!SoleWorkerWithinLimit => SoleWorkerWithinLimit
  BY DEF QuotaProofs!SoleWorkerWithinLimit, SoleWorkerWithinLimit
<1>4. QED
  BY <1>2, <1>3, DispatchImplementsQuota, QuotaSpecs, PTL DEF ImplementsQuota

\* A fleet of n worker processes keeps the campaign within n times daily_limit,
\* however their cycles overlap.
THEOREM FleetKeepsTheLimit ==
  ASSUME IsFiniteSet(Workers)
  PROVE  Spec => []FleetWithinLimit
<1>1. DailyLimit \in Nat
  BY DispatchAssumption
<1>2. QuotaProofs!Spec => []QuotaProofs!FleetWithinLimit
  BY <1>1, QuotaProofs!QuotaOfFleet DEF QuotaProofs!IsFiniteSet, IsFiniteSet
<1>3. QuotaProofs!FleetWithinLimit => FleetWithinLimit
  BY DEF QuotaProofs!FleetWithinLimit, FleetWithinLimit, QuotaProofs!Cardinality, Cardinality
<1>4. QED
  BY <1>2, <1>3, DispatchImplementsQuota, QuotaSpecs, PTL DEF ImplementsQuota

\* What a lock on the campaign's cycle would give: one batch at a time.
BatchesTakeTurns == \A v, w \in Workers : batch[v] # {} /\ batch[w] # {} => v = w

\* The campaign as a whole stays within daily_limit, the batch in hand included.
CampaignWithinLimit == \A w \in Workers : sentToday + Cardinality(batch[w]) <= DailyLimit

\* Any number of worker processes keeps the campaign within daily_limit if their
\* cycles take turns, whatever else goes on: overlaps of cycles are all that the
\* count in _process_campaign has to fear.
THEOREM CyclesInTurnKeepTheLimit == Spec /\ []BatchesTakeTurns => []CampaignWithinLimit
<1>1. DailyLimit \in Nat
  BY DispatchAssumption
<1>2. QuotaProofs!Spec /\ []QuotaProofs!ClaimsTakeTurns => []QuotaProofs!TotalWithinLimit
  BY <1>1, QuotaProofs!QuotaInTurn
<1>3. BatchesTakeTurns => QuotaProofs!ClaimsTakeTurns
  <2>1. \A w \in Workers : Cardinality(batch[w]) > 0 => batch[w] # {}
    BY FS_EmptySet
  <2>2. QED
    BY <2>1 DEF BatchesTakeTurns, QuotaProofs!ClaimsTakeTurns
<1>4. QuotaProofs!TotalWithinLimit => CampaignWithinLimit
  BY DEF QuotaProofs!TotalWithinLimit, CampaignWithinLimit
<1>5. QED
  BY <1>2, <1>3, <1>4, DispatchImplementsQuota, QuotaSpecs, PTL DEF ImplementsQuota

-----------------------------------------------------------------------------
(* Blocks and replies.                                                     *)

\* A row of a batch keeps its contact as long as it exists: keys are not
\* reused, and no handler moves a lead to another contact.
KeepsContacts ==
  \A w \in Workers : \A l \in batch[w] \cap Rows' :
    l \in Rows /\ leads'[l].contact = leads[l].contact

LEMMA SyncKeepsContacts ==
  ASSUME TypeOK, NEW p \in Procs, SyncCommit(p)
  PROVE  KeepsContacts
<1>1. PICK keys \in [plan[p].add -> FreshKeys] : leads' = Synced(p, keys)
  BY DEF SyncCommit
<1> DEFINE added == {keys[c] : c \in plan[p].add}
<1>2. Rows' = (Rows \ plan[p].drop) \cup added
  BY <1>1 DEF Rows, Synced
<1>3. ASSUME NEW w \in Workers, NEW l \in batch[w], l \in Rows'
      PROVE  l \in Rows /\ leads'[l].contact = leads[l].contact
  <2>1. l \notin added
    BY DEF FreshKeys, Referenced
  <2>2. leads'[l] = IF l \in plan[p].reset THEN [leads[l] EXCEPT !.status = "scheduled"]
                    ELSE leads[l]
    BY <1>1, <1>2, <1>3, <2>1 DEF Synced
  <2>3. leads[l] \in LeadRow
    BY <1>2, <1>3, <2>1 DEF TypeOK, DatabaseOK
  <2>4. QED
    BY <1>2, <1>3, <2>1, <2>2, <2>3 DEF LeadRow
<1>4. QED
  BY <1>3 DEF KeepsContacts

LEMMA StepKeepsContacts ==
  ASSUME TypeOK, [Next]_vars
  PROVE  KeepsContacts
<1> USE DEF TypeOK, KeepsContacts
<1>1. UNCHANGED leads => KeepsContacts
  BY DEF Rows
<1>2. ASSUME NEW l \in Rows, NEW row, row.contact = leads[l].contact,
             leads' = [leads EXCEPT ![l] = row]
      PROVE  KeepsContacts
  BY <1>2 DEF DatabaseOK, Rows
<1>3. ASSUME NEW p \in Procs, Sync(p) \/ Crash(p)
      PROVE  KeepsContacts
  BY <1>1, <1>3, SyncKeepsContacts DEF Sync, SyncSkip, SyncRead, SyncStale, Crash, database
<1>4. ASSUME NEW w \in Workers, BeginCycle(w) \/ CycleStep(w) \/ Send(w)
      PROVE  KeepsContacts
  <2>1. CASE Settle(w)
    <3> DEFINE l == task[w].lead
               row == [leads[l] EXCEPT !.status = IF pc[w] = "skip" THEN "sent" ELSE "replied"]
    <3>1. l \in Rows /\ leads' = [leads EXCEPT ![l] = row]
      BY <2>1 DEF Settle
    <3>2. row.contact = leads[l].contact
      BY <3>1 DEF DatabaseOK, LeadRow
    <3> HIDE DEF l, row
    <3>3. QED
      BY <1>2, <3>1, <3>2
  <2>2. CASE FailLead(w)
    <3> DEFINE l == task[w].lead
               row == [leads[l] EXCEPT !.status = "failed"]
    <3>1. l \in Rows /\ leads' = [leads EXCEPT ![l] = row]
      BY <2>2 DEF FailLead
    <3>2. row.contact = leads[l].contact
      BY <3>1 DEF DatabaseOK, LeadRow
    <3> HIDE DEF l, row
    <3>3. QED
      BY <1>2, <3>1, <3>2
  <2>3. CASE Finish(w)
    <3> DEFINE l == task[w].lead
    <3>1. l \in Rows /\ leads' = [leads EXCEPT ![l] = Progressed(l)]
      BY <2>3 DEF Finish
    <3>2. Progressed(l).contact = leads[l].contact
      BY <3>1 DEF DatabaseOK, LeadRow, Progressed
    <3> HIDE DEF l
    <3>3. QED
      BY <1>2, <3>1, <3>2
  <2>4. CASE BeginCycle(w) \/ Select(w) \/ SelectNothing(w) \/ Take(w) \/ RowGone(w)
             \/ LogSend(w) \/ Send(w)
    BY <1>1, <2>4 DEF BeginCycle, Select, SelectNothing, Take, RowGone, LogSend, Send, Deliver,
                      SendFails, database
  <2>5. QED
    BY <1>3, <1>4, <2>1, <2>2, <2>3, <2>4 DEF CycleStep, Procs
<1>5. ASSUME NEW k \in Clients, ClientStep(k) \/ ClientRequest(k)
      PROVE  KeepsContacts
  <2>1. Admit(k) \/ Refuse(k) \/ Activate(k) => UNCHANGED leads
    BY DEF Admit, Refuse, Activate, database
  <2>2. ClientRequest(k) => UNCHANGED leads
    BY DEF ClientRequest, AddMember, RemoveMember, AttachList, DetachList, DeleteList, DryRun, Start, Request
  <2>3. QED
    BY <1>1, <1>3, <1>5, <2>1, <2>2 DEF ClientStep, Procs
<1>6. ASSUME NEW l \in Leads, StepDue(l)
      PROVE  KeepsContacts
  <2> DEFINE row == [leads[l] EXCEPT !.due = TRUE]
  <2>1. l \in Rows /\ leads' = [leads EXCEPT ![l] = row]
    BY <1>6 DEF StepDue
  <2>2. row.contact = leads[l].contact
    BY <2>1 DEF DatabaseOK, LeadRow
  <2> HIDE DEF row
  <2>3. QED
    BY <1>2, <2>1, <2>2
<1>7. Operator \/ NewDay \/ UNCHANGED vars => UNCHANGED leads
  BY DEF Operator, Block, Unblock, Reply, Pause, Archive, Unarchive, SetStatus, ReplaceSequence,
         NewDay, vars, database
<1>8. QED
  BY <1>1, <1>3, <1>4, <1>5, <1>6, <1>7 DEF Next

\* What a worker holds does not grow when its batch does not and its task is
\* for the same contact, or given up.
LEMMA HoldsShrinks ==
  ASSUME NEW w \in Workers, KeepsContacts, batch'[w] \subseteq batch[w],
         task'[w] # Null => task[w] # Null /\ task'[w].contact = task[w].contact
  PROVE  Holds(w)' \subseteq Holds(w)
BY DEF Holds, KeepsContacts

LEMMA LateStep ==
  ASSUME TypeOK, OnlyLateBlocksAreMailed, [Next]_vars
  PROVE  OnlyLateBlocksAreMailed'
<1> USE DEF OnlyLateBlocksAreMailed
<1>0. KeepsContacts
  BY StepKeepsContacts
<1>1. ASSUME NEW w \in Workers, Holds(w)' \subseteq Holds(w), blocked' \subseteq blocked,
             late[w] \subseteq late'[w]
      PROVE  Holds(w)' \cap blocked' \subseteq late'[w]
  BY <1>1
<1>2. ASSUME UNCHANGED <<batch, task, late>>, blocked' \subseteq blocked
      PROVE  OnlyLateBlocksAreMailed'
  BY <1>0, <1>1, <1>2, HoldsShrinks
<1>3. ASSUME NEW p \in Procs, CloseSession(p), UNCHANGED blocked
      PROVE  OnlyLateBlocksAreMailed'
  <2> SUFFICES ASSUME NEW w \in Workers
               PROVE  Holds(w)' \cap blocked' \subseteq late'[w]
    OBVIOUS
  <2>1. CASE w = p
    BY <1>3, <2>1 DEF CloseSession, Holds
  <2>2. CASE w # p
    <3>1. batch'[w] = batch[w] /\ task'[w] = task[w] /\ late'[w] = late[w]
      BY <1>3, <2>2 DEF CloseSession
    <3>2. Holds(w)' \subseteq Holds(w)
      BY <1>0, <3>1, HoldsShrinks
    <3>3. QED
      BY <1>1, <1>3, <3>1, <3>2
  <2>3. QED
    BY <2>1, <2>2
<1>4. ASSUME NEW v \in Workers, Advance(v), UNCHANGED blocked
      PROVE  OnlyLateBlocksAreMailed'
  <2>1. CASE CloseSession(v)
    BY <1>3, <1>4, <2>1 DEF Procs
  <2>2. CASE ~CloseSession(v)
    <3>1. /\ batch' = [batch EXCEPT ![v] = batch[v] \ {task[v].lead}]
          /\ task' = [task EXCEPT ![v] = Null]
          /\ late' = late
      BY <1>4, <2>2 DEF Advance
    <3>2. ASSUME NEW w \in Workers
          PROVE  /\ batch'[w] \subseteq batch[w]
                 /\ task'[w] # Null => task'[w] = task[w]
      BY <3>1 DEF TypeOK, SessionOK
    <3>3. ASSUME NEW w \in Workers
          PROVE  Holds(w)' \subseteq Holds(w)
      BY <1>0, <3>2, HoldsShrinks
    <3>4. QED
      BY <1>1, <1>4, <3>1, <3>3
  <2>3. QED
    BY <2>1, <2>2
<1>5. ASSUME NEW v \in Workers, NEW l \in Rows, NEW B, Look(v, l), l \in B,
             batch' = [batch EXCEPT ![v] = B], UNCHANGED <<leads, late, blocked>>,
             \A m \in B \cap Rows : leads[m].contact \in blocked => leads[m].contact \in late[v]
      PROVE  OnlyLateBlocksAreMailed'
  <2> SUFFICES ASSUME NEW w \in Workers
               PROVE  Holds(w)' \cap blocked' \subseteq late'[w]
    OBVIOUS
  <2>1. CASE w = v
    <3>1. task'[w].contact = leads[l].contact /\ batch'[w] = B
      BY <1>5, <2>1 DEF Look, TypeOK, SessionOK
    <3>2. Holds(w)' \subseteq {leads[m].contact : m \in B \cap Rows}
      BY <1>5, <3>1 DEF Holds, Rows
    <3>3. QED
      BY <1>5, <2>1, <3>2
  <2>2. CASE w # v
    <3>1. batch'[w] = batch[w] /\ task'[w] = task[w]
      BY <1>5, <2>2 DEF Look, TypeOK, SessionOK
    <3>2. Holds(w)' \subseteq Holds(w)
      BY <1>0, <3>1, HoldsShrinks
    <3>3. QED
      BY <1>1, <1>5, <3>2
  <2>3. QED
    BY <2>1, <2>2
<1>6. ASSUME NEW p \in Procs, Sync(p) \/ Crash(p)
      PROVE  OnlyLateBlocksAreMailed'
  BY <1>2, <1>3, <1>6 DEF Sync, SyncSkip, SyncRead, SyncCommit, SyncStale, Crash, database, history
<1>7. ASSUME NEW w \in Workers, BeginCycle(w) \/ CycleStep(w) \/ Send(w)
      PROVE  OnlyLateBlocksAreMailed'
  <2>1. CASE Select(w)
    <3>1. PICK S \in Picks(DailyLimit - sentToday) : \E l \in {m \in S : Eligible(m)} :
                 /\ batch' = [batch EXCEPT ![w] = {m \in S : Eligible(m)}]
                 /\ Look(w, l)
      BY <2>1 DEF Select
    <3>2. S \subseteq Rows
      BY DEF Picks, Pending
    <3>3. QED
      BY <1>5, <2>1, <3>1, <3>2 DEF Select, Eligible, database
  <2>2. CASE Take(w)
    <3>1. PICK l \in batch[w] \cap Rows : Look(w, l)
      BY <2>2 DEF Take
    <3>2. batch' = [batch EXCEPT ![w] = batch[w]]
      BY <2>2 DEF Take, TypeOK, SessionOK
    <3>3. \A m \in batch[w] \cap Rows : leads[m].contact \in blocked => leads[m].contact \in late[w]
      BY DEF Holds
    <3>4. UNCHANGED <<leads, late, blocked>>
      BY <2>2 DEF Take, database
    <3>5. QED
      BY <1>5, <3>1, <3>2, <3>3, <3>4
  <2>3. CASE SelectNothing(w) \/ RowGone(w)
    BY <1>3, <2>3 DEF SelectNothing, RowGone, database, Procs
  <2>4. CASE Settle(w) \/ Finish(w) \/ FailLead(w)
    BY <1>4, <2>4 DEF Settle, Finish, FailLead
  <2>5. CASE LogSend(w)
    <3>1. task[w] \in Task /\ task[w] # Null
      BY <2>5 DEF LogSend, TypeOK, SessionOK, BatchOK, Holding, Working
    <3>2. \A v \in Workers : task'[v] # Null => task[v] # Null /\ task'[v].contact = task[v].contact
      BY <2>5, <3>1 DEF LogSend, TypeOK, SessionOK, Task
    <3>3. \A v \in Workers : Holds(v)' \subseteq Holds(v)
      BY <1>0, <2>5, <3>2, HoldsShrinks DEF LogSend
    <3>4. QED
      BY <1>1, <2>5, <3>3 DEF LogSend, database, history
  <2>6. CASE BeginCycle(w) \/ Send(w)
    BY <1>2, <2>6 DEF BeginCycle, Send, Deliver, SendFails, database, history
  <2>7. QED
    BY <1>6, <1>7, <2>1, <2>2, <2>3, <2>4, <2>5, <2>6 DEF CycleStep, Procs
<1>8. ASSUME NEW k \in Clients, ClientStep(k) \/ ClientRequest(k)
      PROVE  OnlyLateBlocksAreMailed'
  <2>1. CASE Refuse(k) \/ Activate(k)
    BY <1>3, <2>1 DEF Refuse, Activate, database, Procs
  <2>2. CASE Admit(k) \/ ClientRequest(k)
    BY <1>2, <2>2 DEF Admit, ClientRequest, AddMember, RemoveMember, AttachList, DetachList, DeleteList,
                      DryRun, Start, Request, database, history
  <2>3. QED
    BY <1>6, <1>8, <2>1, <2>2 DEF ClientStep, Procs
<1>9. ASSUME NEW c \in Contacts, Block(c)
      PROVE  OnlyLateBlocksAreMailed'
  <2> SUFFICES ASSUME NEW w \in Workers
               PROVE  Holds(w)' \cap blocked' \subseteq late'[w]
    OBVIOUS
  <2>1. Holds(w)' \subseteq Holds(w)
    BY <1>0, <1>9, HoldsShrinks DEF Block, session
  <2>2. late'[w] = IF c \in Holds(w) THEN late[w] \cup {c} ELSE late[w]
    BY <1>9 DEF Block
  <2>3. QED
    BY <1>9, <2>1, <2>2 DEF Block
<1>10. CASE NewDay
  <2>1. \A v \in Workers : task'[v] # Null => task[v] # Null /\ task'[v].contact = task[v].contact
    BY <1>10 DEF NewDay, TypeOK, SessionOK, Task
  <2>2. \A v \in Workers : Holds(v)' \subseteq Holds(v)
    BY <1>0, <1>10, <2>1, HoldsShrinks DEF NewDay
  <2>3. QED
    BY <1>1, <1>10, <2>2 DEF NewDay
<1>11. Operator \/ (\E l \in Leads : StepDue(l)) \/ UNCHANGED vars => OnlyLateBlocksAreMailed'
  BY <1>2, <1>9 DEF Operator, Unblock, Reply, Pause, Archive, Unarchive, SetStatus,
                    ReplaceSequence, StepDue, vars, database, session, history
<1>12. QED
  BY <1>6, <1>7, <1>8, <1>10, <1>11 DEF Next

\* Mail goes to a blocked contact only from a batch selected before the block,
\* whoever else synchronises, deletes rows or dies meanwhile.
THEOREM OnlyLateBlocks == Spec => []OnlyLateBlocksAreMailed
<1>1. Init => OnlyLateBlocksAreMailed
  BY DEF Init, OnlyLateBlocksAreMailed
<1>2. TypeOK /\ OnlyLateBlocksAreMailed /\ [Next]_vars => OnlyLateBlocksAreMailed'
  BY LateStep
<1>3. QED
  BY <1>1, <1>2, TypeCorrect, PTL DEF Spec

LEMMA ReplyStep ==
  ASSUME TypeOK, RepliesStopTheSequence, [Next]_vars
  PROVE  RepliesStopTheSequence'
<1> USE DEF RepliesStopTheSequence
<1>1. ASSUME UNCHANGED replied,
             \A w \in Workers : pc'[w] = "send" =>
               /\ pc[w] = "send"
               /\ task'[w].contact = task[w].contact /\ task'[w].step = task[w].step
               /\ w \in unheard => w \in unheard'
      PROVE  RepliesStopTheSequence'
  BY <1>1
<1>2. ASSUME UNCHANGED <<pc, task, unheard, replied>>
      PROVE  RepliesStopTheSequence'
  BY <1>2
<1>3. ASSUME NEW p \in Procs, CloseSession(p), UNCHANGED replied
      PROVE  RepliesStopTheSequence'
  BY <1>1, <1>3 DEF CloseSession, TypeOK, SessionOK
<1>4. ASSUME NEW v \in Workers, Advance(v), UNCHANGED replied
      PROVE  RepliesStopTheSequence'
  <2>1. CASE CloseSession(v)
    BY <1>3, <1>4, <2>1 DEF Procs
  <2>2. CASE ~CloseSession(v)
    BY <1>1, <1>4, <2>2 DEF Advance, TypeOK, SessionOK, Procs
  <2>3. QED
    BY <2>1, <2>2
<1>5. ASSUME NEW v \in Workers, NEW l \in Rows, Look(v, l), UNCHANGED replied
      PROVE  RepliesStopTheSequence'
  <2> SUFFICES ASSUME NEW w \in Workers, pc'[w] = "send", task'[w].step \in StopOnReply,
                      task'[w].contact \in replied'
               PROVE  w \in unheard'
    OBVIOUS
  <2>1. w # v
    <3>1. Verdict(l) = "send" => leads[l].step \notin StopOnReply \/ leads[l].contact \notin replied
      BY DEF Verdict
    <3>2. QED
      BY <1>5, <3>1 DEF Look, TypeOK, SessionOK, Procs
  <2>2. QED
    BY <1>5, <2>1 DEF Look, TypeOK, SessionOK
<1>6. ASSUME NEW p \in Procs, NEW s \in PcValues \ {"send"}, pc' = [pc EXCEPT ![p] = s],
             UNCHANGED <<task, unheard, replied>>
      PROVE  RepliesStopTheSequence'
  BY <1>1, <1>6 DEF TypeOK, SessionOK
<1>7. ASSUME NEW p \in Procs, Sync(p) \/ Crash(p)
      PROVE  RepliesStopTheSequence'
  <2>1. AfterSync(p) \in PcValues \ {"send"} /\ "syncing" \in PcValues \ {"send"}
    BY DEF AfterSync, PcValues
  <2>2. QED
    BY <1>3, <1>6, <1>7, <2>1
    DEF Sync, SyncSkip, SyncRead, SyncCommit, SyncStale, Crash, database, history
<1>8. ASSUME NEW w \in Workers, BeginCycle(w) \/ CycleStep(w) \/ Send(w)
      PROVE  RepliesStopTheSequence'
  <2>1. CASE Select(w) \/ Take(w)
    BY <1>5, <2>1 DEF Select, Take, Picks, Pending, database
  <2>2. CASE SelectNothing(w) \/ RowGone(w)
    BY <1>3, <2>2 DEF SelectNothing, RowGone, database, Procs
  <2>3. CASE Settle(w) \/ Finish(w) \/ FailLead(w)
    BY <1>4, <2>3 DEF Settle, Finish, FailLead
  <2>4. CASE LogSend(w)
    BY <1>1, <2>4 DEF LogSend, TypeOK, SessionOK, Procs, database, history
  <2>5. CASE BeginCycle(w) \/ Send(w)
    <3>1. {"sync", "log", "fail"} \subseteq PcValues \ {"send"}
      BY DEF PcValues, Working
    <3>2. QED
      BY <1>6, <2>5, <3>1 DEF BeginCycle, Send, Deliver, SendFails, Procs, database, history
  <2>6. QED
    BY <1>7, <1>8, <2>1, <2>2, <2>3, <2>4, <2>5 DEF CycleStep, Procs
<1>9. ASSUME NEW k \in Clients, ClientStep(k) \/ ClientRequest(k)
      PROVE  RepliesStopTheSequence'
  <2>1. CASE Refuse(k) \/ Activate(k)
    BY <1>3, <2>1 DEF Refuse, Activate, database, Procs
  <2>2. CASE Admit(k) \/ ClientRequest(k)
    <3>1. {"sync", "activate"} \subseteq PcValues \ {"send"}
      BY DEF PcValues
    <3>2. QED
      BY <1>6, <2>2, <3>1
      DEF Admit, ClientRequest, AddMember, RemoveMember, AttachList, DetachList, DeleteList, DryRun, Start,
          Request, Procs, database, history
  <2>3. QED
    BY <1>7, <1>9, <2>1, <2>2 DEF ClientStep, Procs
<1>10. ASSUME NEW c \in Contacts, Reply(c)
       PROVE  RepliesStopTheSequence'
  <2>1. \A w \in Workers : pc[w] = "send" => task[w] # Null
    BY DEF TypeOK, BatchOK, Holding, Working
  <2>2. QED
    BY <1>10, <2>1 DEF Reply, session
<1>11. CASE NewDay
  <2>1. \A w \in Workers : pc[w] = "send" => task[w] # Null /\ task[w] \in Task
    BY DEF TypeOK, SessionOK, BatchOK, Holding, Working
  <2>2. QED
    BY <1>1, <1>11, <2>1 DEF NewDay, Task
<1>12. Operator \/ (\E l \in Leads : StepDue(l)) \/ UNCHANGED vars => RepliesStopTheSequence'
  BY <1>2, <1>10 DEF Operator, Block, Unblock, Pause, Archive, Unarchive, SetStatus,
                     ReplaceSequence, StepDue, vars, database, session, history
<1>13. QED
  BY <1>7, <1>8, <1>9, <1>11, <1>12 DEF Next

\* A stop_on_reply step goes to someone who replied only when the reply came
\* after the worker had looked at that lead.
THEOREM RepliesStop == Spec => []RepliesStopTheSequence
<1>1. Init => RepliesStopTheSequence
  BY DEF Init, RepliesStopTheSequence, Procs
<1>2. TypeOK /\ RepliesStopTheSequence /\ [Next]_vars => RepliesStopTheSequence'
  BY ReplyStep
<1>3. QED
  BY <1>1, <1>2, TypeCorrect, PTL DEF Spec
-----------------------------------------------------------------------------
(* Steps: none is skipped while nobody edits the sequence and no two workers *)
(* have the same lead.                                                     *)

SoleWorker == \A v, w \in Workers : v = w
OneSequence == \A s, t \in Sequences : s = t

\* What a claim on a lead would ensure: _process_campaign only reads the rows.
LeadsApart == \A v, w \in Workers : v # w => batch[v] \cap batch[w] \cap Rows = {}

\* What a claim on the recipient would ensure besides: a row may be dropped and
\* made anew while a worker still has the old one.
ContactsApart == \A v, w \in Workers : v # w => Holds(v) \cap Holds(w) = {}

\* What a lock around sync_campaign_leads would ensure.
SyncsTakeTurns == \A p, q \in Procs : pc[p] = "syncing" /\ pc[q] = "syncing" => p = q

LEMMA ApartContactsApartLeads == ContactsApart => LeadsApart
BY DEF ContactsApart, LeadsApart, Holds

LEMMA SoleWorkerIsApart == SoleWorker => ContactsApart /\ LeadsApart
BY DEF SoleWorker, ContactsApart, LeadsApart

LEMMA NobodyElseSyncs == SoleWorker /\ Clients = {} => SyncsTakeTurns
BY DEF SoleWorker, SyncsTakeTurns, Procs

\* The row of l after a step that neither moves l on nor skips its step: as it
\* was but for a status other than "sent", or new under a key nobody holds.
RowKept(l) ==
  \/ /\ l \in Rows
     /\ leads'[l].contact = leads[l].contact /\ leads'[l].step = leads[l].step
     /\ leads'[l].status = "sent" => leads[l].status = "sent"
  \/ /\ l \notin Rows /\ \A w \in Workers : l \notin batch[w]
     /\ leads'[l].step = 1 /\ leads'[l].status # "sent"
RowsKept == \A l \in Rows' : RowKept(l)

MovesOn(w) == Finish(w) \/ (Settle(w) /\ pc[w] = "skip")

LEMMA SyncKeepsRows ==
  ASSUME TypeOK, NEW p \in Procs, SyncCommit(p)
  PROVE  RowsKept
<1>1. PICK keys \in [plan[p].add -> FreshKeys] : leads' = Synced(p, keys)
  BY DEF SyncCommit
<1> DEFINE added == {keys[c] : c \in plan[p].add}
<1>2. Rows' = (Rows \ plan[p].drop) \cup added
  BY <1>1 DEF Rows, Synced
<1>3. ASSUME NEW l \in Rows', l \in added
      PROVE  RowKept(l)
  <2>1. leads'[l] = NewLead(CHOOSE c \in plan[p].add : keys[c] = l)
    BY <1>1, <1>2, <1>3 DEF Synced
  <2>2. l \notin Rows /\ \A w \in Workers : l \notin batch[w]
    BY <1>3 DEF FreshKeys, Referenced
  <2>3. QED
    BY <2>1, <2>2 DEF RowKept, NewLead
<1>4. ASSUME NEW l \in Rows', l \notin added
      PROVE  RowKept(l)
  <2>1. l \in Rows /\ leads[l] \in LeadRow
    BY <1>2, <1>4 DEF TypeOK, DatabaseOK
  <2>2. leads'[l] = IF l \in plan[p].reset THEN [leads[l] EXCEPT !.status = "scheduled"]
                    ELSE leads[l]
    BY <1>1, <1>2, <1>4 DEF Synced
  <2>3. QED
    BY <2>1, <2>2 DEF RowKept, LeadRow
<1>5. QED
  BY <1>3, <1>4 DEF RowsKept

LEMMA StepKeepsRows ==
  ASSUME TypeOK, [Next]_vars, \A w \in Workers : ~MovesOn(w)
  PROVE  RowsKept
<1> USE DEF TypeOK, RowsKept, RowKept
<1>1. UNCHANGED leads => RowsKept
  BY DEF Rows
<1>2. ASSUME NEW l \in Rows, NEW row, leads' = [leads EXCEPT ![l] = row],
             row.contact = leads[l].contact, row.step = leads[l].step,
             row.status = "sent" => leads[l].status = "sent"
      PROVE  RowsKept
  BY <1>2 DEF DatabaseOK, Rows
<1>3. ASSUME NEW p \in Procs, Sync(p) \/ Crash(p)
      PROVE  RowsKept
  BY <1>1, <1>3, SyncKeepsRows DEF Sync, SyncSkip, SyncRead, SyncStale, Crash, database
<1>4. ASSUME NEW w \in Workers, BeginCycle(w) \/ CycleStep(w) \/ Send(w)
      PROVE  RowsKept
  <2>1. CASE Settle(w)
    <3> DEFINE l == task[w].lead
               row == [leads[l] EXCEPT !.status = "replied"]
    <3>1. l \in Rows /\ leads' = [leads EXCEPT ![l] = row]
      BY <2>1 DEF Settle, MovesOn
    <3>2. row.contact = leads[l].contact /\ row.step = leads[l].step /\ row.status = "replied"
      BY <3>1 DEF DatabaseOK, LeadRow
    <3> HIDE DEF l, row
    <3>3. QED
      BY <1>2, <3>1, <3>2
  <2>2. CASE FailLead(w)
    <3> DEFINE l == task[w].lead
               row == [leads[l] EXCEPT !.status = "failed"]
    <3>1. l \in Rows /\ leads' = [leads EXCEPT ![l] = row]
      BY <2>2 DEF FailLead
    <3>2. row.contact = leads[l].contact /\ row.step = leads[l].step /\ row.status = "failed"
      BY <3>1 DEF DatabaseOK, LeadRow
    <3> HIDE DEF l, row
    <3>3. QED
      BY <1>2, <3>1, <3>2
  <2>3. CASE BeginCycle(w) \/ Select(w) \/ SelectNothing(w) \/ Take(w) \/ RowGone(w)
             \/ LogSend(w) \/ Send(w)
    BY <1>1, <2>3 DEF BeginCycle, Select, SelectNothing, Take, RowGone, LogSend, Send, Deliver,
                      SendFails, database
  <2>4. QED
    BY <1>3, <1>4, <2>1, <2>2, <2>3 DEF CycleStep, MovesOn, Procs
<1>5. ASSUME NEW k \in Clients, ClientStep(k) \/ ClientRequest(k)
      PROVE  RowsKept
  <2>1. Admit(k) \/ Refuse(k) \/ Activate(k) => UNCHANGED leads
    BY DEF Admit, Refuse, Activate, database
  <2>2. ClientRequest(k) => UNCHANGED leads
    BY DEF ClientRequest, AddMember, RemoveMember, AttachList, DetachList, DeleteList, DryRun, Start, Request
  <2>3. QED
    BY <1>1, <1>3, <1>5, <2>1, <2>2 DEF ClientStep, Procs
<1>6. ASSUME NEW l \in Leads, StepDue(l)
      PROVE  RowsKept
  <2> DEFINE row == [leads[l] EXCEPT !.due = TRUE]
  <2>1. l \in Rows /\ leads' = [leads EXCEPT ![l] = row]
    BY <1>6 DEF StepDue
  <2>2. row.contact = leads[l].contact /\ row.step = leads[l].step /\ row.status = leads[l].status
    BY <2>1 DEF DatabaseOK, LeadRow
  <2> HIDE DEF row
  <2>3. QED
    BY <1>2, <2>1, <2>2
<1>7. Operator \/ NewDay \/ UNCHANGED vars => UNCHANGED leads
  BY DEF Operator, Block, Unblock, Reply, Pause, Archive, Unarchive, SetStatus, ReplaceSequence,
         NewDay, vars, database
<1>8. QED
  BY <1>1, <1>3, <1>4, <1>5, <1>6, <1>7 DEF Next

\* A lead moves on, and stays the same contact's.
LEMMA ProgressedMovesOn ==
  ASSUME TypeOK, NEW l \in Rows
  PROVE  /\ Progressed(l).contact = leads[l].contact
         /\ Progressed(l).step >= leads[l].step
<1> DEFINE next == CHOOSE s \in NextSteps(l) : \A t \in NextSteps(l) : s <= t
<1>1. leads[l] \in LeadRow /\ leads[l].step \in Nat
  BY DispatchAssumption DEF TypeOK, DatabaseOK, LeadRow, Steps
<1>2. NextSteps(l) \subseteq Nat
  BY DispatchAssumption DEF NextSteps, TypeOK, DatabaseOK, Steps
<1>3. NextSteps(l) # {} => next \in NextSteps(l)
  <2>1. NextSteps(l) # {} => \E s \in NextSteps(l) : \A t \in NextSteps(l) : s <= t
    BY <1>2, LeastElement
  <2>2. QED
    BY <2>1
<1>4. Progressed(l) = IF NextSteps(l) = {}
                      THEN [leads[l] EXCEPT !.status = "sent", !.due = TRUE]
                      ELSE [leads[l] EXCEPT !.status = "scheduled", !.due = FALSE, !.step = next]
  BY DEF Progressed
<1> HIDE DEF next
<1>5. CASE NextSteps(l) = {}
  BY <1>1, <1>4, <1>5 DEF LeadRow
<1>6. CASE NextSteps(l) # {}
  <2>1. next \in Nat /\ next > leads[l].step
    BY <1>2, <1>3, <1>6 DEF NextSteps
  <2>2. Progressed(l).contact = leads[l].contact /\ Progressed(l).step = next
    BY <1>1, <1>4, <1>6 DEF LeadRow
  <2>3. QED
    BY <1>1, <2>1, <2>2
<1>7. QED
  BY <1>5, <1>6

\* A row as it is after a step in which it exists throughout.
LEMMA StepNeverGoesBack ==
  ASSUME TypeOK, [Next]_vars, NEW l \in Rows \cap Rows'
  PROVE  leads'[l].step >= leads[l].step /\ leads'[l].contact = leads[l].contact
<1>1. leads[l] \in LeadRow /\ leads[l].step \in Nat
  BY DispatchAssumption DEF TypeOK, DatabaseOK, LeadRow, Steps
<1>2. CASE \A w \in Workers : ~MovesOn(w)
  BY <1>1, <1>2, StepKeepsRows DEF RowsKept, RowKept
<1>3. ASSUME NEW w \in Workers, MovesOn(w)
      PROVE  leads'[l].step >= leads[l].step /\ leads'[l].contact = leads[l].contact
  <2> DEFINE k == task[w].lead
             row == IF Finish(w) THEN Progressed(k) ELSE [leads[k] EXCEPT !.status = "sent"]
  <2>1. k \in Rows /\ leads' = [leads EXCEPT ![k] = row]
    <3>1. CASE Finish(w)
      BY <3>1 DEF Finish
    <3>2. CASE ~Finish(w)
      BY <1>3, <3>2 DEF MovesOn, Settle
    <3>3. QED
      BY <3>1, <3>2
  <2>2. row.contact = leads[k].contact /\ row.step >= leads[k].step
    <3>1. leads[k] \in LeadRow /\ leads[k].step \in Nat
      BY <2>1, DispatchAssumption DEF TypeOK, DatabaseOK, LeadRow, Steps
    <3>2. CASE Finish(w)
      BY <2>1, <3>2, ProgressedMovesOn
    <3>3. CASE ~Finish(w)
      BY <3>1, <3>3 DEF LeadRow
    <3>4. QED
      BY <3>2, <3>3
  <2> HIDE DEF k, row
  <2>3. leads'[l] = IF l = k THEN row ELSE leads[l]
    BY <2>1 DEF Rows
  <2>4. QED
    BY <1>1, <2>2, <2>3
<1>4. QED
  BY <1>2, <1>3

\* However many cycles and syncs work on the rows, and whatever sequence the
\* operator saves meanwhile, no lead goes back to an earlier step or over to
\* another contact.
THEOREM NoLeadGoesBack == Spec => LeadsNeverGoBack
<1>1. TypeOK /\ [Next]_vars => [LeadsMoveOn]_vars
  BY StepNeverGoesBack DEF LeadsMoveOn
<1>2. QED
  BY <1>1, TypeCorrect, PTL DEF Spec, LeadsNeverGoBack

\* The lead in hand stands at the step in hand, whose predecessors the contact
\* has; once the server has taken the mail it has that step as well.
InStep(w) ==
  task[w] # Null =>
    /\ pc[w] # "skip"
    /\ pc[w] \in {"log", "finish"} => mail[task[w].contact][task[w].step] > 0
    /\ \A s \in sequence : s < task[w].step => mail[task[w].contact][s] > 0
    /\ task[w].lead \in Rows => /\ task[w].contact = leads[task[w].lead].contact
                                /\ task[w].step = leads[task[w].lead].step

StepInv ==
  /\ \A l \in Rows : leads[l].step \in sequence
  /\ NoStepSkipped
  /\ \A w \in Workers : InStep(w)

\* A session goes on with the task it has.
SameTask(w) ==
  task'[w] # Null =>
    /\ task[w] # Null
    /\ task'[w].lead = task[w].lead /\ task'[w].contact = task[w].contact
    /\ task'[w].step = task[w].step
    /\ pc'[w] = "skip" => pc[w] = "skip"
    /\ pc'[w] \in {"log", "finish"} => pc[w] \in {"log", "finish"}

LEMMA TaskStaysInStep ==
  ASSUME TypeOK, NEW w \in Workers, InStep(w), SameTask(w), RowsKept, UNCHANGED sequence,
         \A c \in Contacts, s \in Steps : mail[c][s] > 0 => mail'[c][s] > 0
  PROVE  InStep(w)'
<1> SUFFICES ASSUME task'[w] # Null
             PROVE  InStep(w)'
  BY DEF InStep
<1>1. task[w] \in Task /\ task[w].lead \in batch[w]
  BY DEF TypeOK, SessionOK, BatchOK, SameTask
<1>2. task[w].contact \in Contacts /\ task[w].step \in Steps
  BY <1>1 DEF Task
<1>3. task[w].lead \in Rows' =>
        /\ task[w].lead \in Rows
        /\ leads'[task[w].lead].contact = leads[task[w].lead].contact
        /\ leads'[task[w].lead].step = leads[task[w].lead].step
  BY <1>1 DEF RowsKept, RowKept
<1>4. sequence \subseteq Steps
  BY DispatchAssumption DEF TypeOK, DatabaseOK
<1>5. QED
  BY <1>2, <1>3, <1>4 DEF InStep, SameTask

\* A worker looks at a lead: it stands at a step of the sequence.
LEMMA LookIsInStep ==
  ASSUME TypeOK, StepInv, NEW w \in Workers, NEW l \in Rows, Look(w, l),
         UNCHANGED <<sequence, leads, mail>>
  PROVE  \A v \in Workers : v = w => InStep(v)'
<1>1. task'[w].lead = l /\ task'[w].contact = leads[l].contact /\ task'[w].step = leads[l].step
  BY DEF Look, TypeOK, SessionOK
<1>2. pc'[w] \in {"halt", "send"}
  BY DEF Look, TypeOK, SessionOK, Verdict, StepInv, Procs
<1>3. \A s \in sequence : s < leads[l].step => mail[leads[l].contact][s] > 0
  BY DEF StepInv, NoStepSkipped
<1>4. QED
  BY <1>1, <1>2, <1>3 DEF InStep, Rows

\* Only a look at a lead and an accepted mail change what a worker is about.
LEMMA StepKeepsTask ==
  ASSUME TypeOK, [Next]_vars, NEW w \in Workers, ~Select(w), ~Take(w), ~Deliver(w, TRUE)
  PROVE  SameTask(w)
<1> USE DEF SameTask
<1>1. ASSUME UNCHANGED <<pc, task>>
      PROVE  SameTask(w)
  BY <1>1
<1>2. ASSUME NEW p \in Procs, CloseSession(p)
      PROVE  SameTask(w)
  BY <1>2 DEF CloseSession, TypeOK, SessionOK
<1>3. ASSUME NEW v \in Workers, Advance(v)
      PROVE  SameTask(w)
  BY <1>2, <1>3 DEF Advance, TypeOK, SessionOK, Procs
<1>4. ASSUME NEW p \in Procs, NEW s \in PcValues \ {"skip", "log", "finish"},
             pc' = [pc EXCEPT ![p] = s], UNCHANGED task
      PROVE  SameTask(w)
  BY <1>4 DEF TypeOK, SessionOK
<1>5. ASSUME NEW v \in Workers, v # w, NEW s, NEW t, pc' = [pc EXCEPT ![v] = s],
             task' = [task EXCEPT ![v] = t]
      PROVE  SameTask(w)
  BY <1>5 DEF TypeOK, SessionOK
<1>6. ASSUME NEW p \in Procs, Sync(p) \/ Crash(p)
      PROVE  SameTask(w)
  <2>1. AfterSync(p) \in PcValues \ {"skip", "log", "finish"}
        /\ "syncing" \in PcValues \ {"skip", "log", "finish"}
    BY DEF AfterSync, PcValues
  <2>2. QED
    BY <1>2, <1>4, <1>6, <2>1
    DEF Sync, SyncSkip, SyncRead, SyncCommit, SyncStale, Crash, database, history
<1>7. ASSUME NEW v \in Workers, BeginCycle(v) \/ CycleStep(v) \/ Send(v)
      PROVE  SameTask(w)
  <2>1. CASE (Select(v) \/ Take(v)) /\ v # w
    <3>1. PICK l \in Leads : Look(v, l)
      BY <2>1 DEF Select, Take, Picks, Pending, TypeOK, DatabaseOK
    <3>2. QED
      BY <1>5, <2>1, <3>1 DEF Look
  <2>2. CASE SelectNothing(v) \/ RowGone(v)
    BY <1>2, <2>2 DEF SelectNothing, RowGone, Procs
  <2>3. CASE Settle(v) \/ Finish(v) \/ FailLead(v)
    BY <1>3, <2>3 DEF Settle, Finish, FailLead
  <2>4. CASE LogSend(v)
    <3>1. task[v] \in Task /\ task[v] # Null
      BY <2>4 DEF LogSend, TypeOK, SessionOK, BatchOK, Holding, Working
    <3>2. QED
      BY <2>4, <3>1 DEF LogSend, TypeOK, SessionOK, Task, Procs
  <2>5. CASE BeginCycle(v) \/ SendFails(v) \/ Deliver(v, FALSE)
    <3>1. {"sync", "fail"} \subseteq PcValues \ {"skip", "log", "finish"}
      BY DEF PcValues, Working
    <3>2. QED
      BY <1>4, <2>5, <3>1 DEF BeginCycle, Deliver, SendFails, Procs, database, history
  <2>6. CASE Deliver(v, TRUE) /\ v # w
    BY <2>6 DEF Deliver, TypeOK, SessionOK
  <2>7. QED
    BY <1>6, <1>7, <2>1, <2>2, <2>3, <2>4, <2>5, <2>6 DEF CycleStep, Send, Procs
<1>8. ASSUME NEW k \in Clients, ClientStep(k) \/ ClientRequest(k)
      PROVE  SameTask(w)
  <2>1. CASE Refuse(k) \/ Activate(k)
    BY <1>2, <2>1 DEF Refuse, Activate, Procs
  <2>2. CASE Admit(k) \/ ClientRequest(k)
    <3>1. {"sync", "activate"} \subseteq PcValues \ {"skip", "log", "finish"}
      BY DEF PcValues
    <3>2. QED
      BY <1>4, <2>2, <3>1
      DEF Admit, ClientRequest, AddMember, RemoveMember, AttachList, DetachList, DeleteList, DryRun, Start,
          Request, Procs
  <2>3. QED
    BY <1>6, <1>8, <2>1, <2>2 DEF ClientStep, Procs
<1>9. CASE NewDay
  <2>1. task[w] # Null => task[w] \in Task
    BY DEF TypeOK, SessionOK
  <2>2. QED
    BY <1>9, <2>1 DEF NewDay, Task
<1>10. Operator \/ (\E l \in Leads : StepDue(l)) \/ UNCHANGED vars => SameTask(w)
  BY <1>1 DEF Operator, Block, Unblock, Reply, Pause, Archive, Unarchive, SetStatus,
              ReplaceSequence, StepDue, vars, session
<1>11. QED
  BY <1>6, <1>7, <1>8, <1>9, <1>10 DEF Next

\* Mail is only ever added, by a delivery.
LEMMA StepKeepsMail ==
  ASSUME TypeOK, [Next]_vars
  PROVE  \/ UNCHANGED mail
         \/ \E w \in Workers, acked \in BOOLEAN : Deliver(w, acked)
<1>1. ASSUME NEW p \in Procs, Sync(p) \/ Crash(p)
      PROVE  UNCHANGED mail
  BY <1>1 DEF Sync, SyncSkip, SyncRead, SyncCommit, SyncStale, Crash, history
<1>2. ASSUME NEW w \in Workers, BeginCycle(w) \/ CycleStep(w) \/ SendFails(w)
      PROVE  UNCHANGED mail
  BY <1>1, <1>2 DEF BeginCycle, CycleStep, Select, SelectNothing, Take, RowGone, Settle, LogSend,
                    Finish, FailLead, SendFails, history, Procs
<1>3. ASSUME NEW k \in Clients, ClientStep(k) \/ ClientRequest(k)
      PROVE  UNCHANGED mail
  BY <1>1, <1>3 DEF ClientStep, Admit, Refuse, Activate, ClientRequest, AddMember, RemoveMember,
                    AttachList, DetachList, DeleteList, DryRun, Start, Request, history, Procs
<1>4. Operator \/ NewDay \/ (\E l \in Leads : StepDue(l)) \/ UNCHANGED vars => UNCHANGED mail
  BY DEF Operator, Block, Unblock, Reply, Pause, Archive, Unarchive, SetStatus, ReplaceSequence,
         StepDue, NewDay, vars, history
<1>5. QED
  BY <1>1, <1>2, <1>3, <1>4 DEF Next, Send

\* A delivery counts where it went, and leaves the other counters alone.
LEMMA DeliveryCounts ==
  ASSUME TypeOK, NEW w \in Workers, NEW acked \in BOOLEAN, Deliver(w, acked)
  PROVE  /\ task[w] # Null /\ task[w] \in Task
         /\ \A c \in Contacts, s \in Steps :
              mail'[c][s] = IF c = task[w].contact /\ s = task[w].step THEN Count(mail[c][s])
                            ELSE mail[c][s]
<1>1. task[w] # Null /\ task[w] \in Task
  BY DEF Deliver, TypeOK, SessionOK, BatchOK, Holding, Working
<1>2. task[w].contact \in Contacts /\ task[w].step \in Steps
  BY <1>1 DEF Task
<1>3. mail' = [mail EXCEPT ![task[w].contact][task[w].step] = Count(@)]
  BY DEF Deliver
<1>4. mail \in [Contacts -> [Steps -> Nat]]
  BY DEF TypeOK, HistoryOK
<1>5. QED
  BY <1>1, <1>2, <1>3, <1>4

LEMMA MailGrows ==
  ASSUME TypeOK, [Next]_vars, MaxMail > 0
  PROVE  \A c \in Contacts, s \in Steps : mail[c][s] > 0 => mail'[c][s] > 0
<1>1. \A c \in Contacts, s \in Steps : mail[c][s] \in Nat
  BY DEF TypeOK, HistoryOK
<1>2. CASE UNCHANGED mail
  BY <1>2
<1>3. ASSUME NEW w \in Workers, NEW acked \in BOOLEAN, Deliver(w, acked)
      PROVE  \A c \in Contacts, s \in Steps : mail[c][s] > 0 => mail'[c][s] > 0
  BY <1>1, <1>3, DeliveryCounts DEF Count
<1>4. QED
  BY <1>2, <1>3, StepKeepsMail

\* The lead whose mail is logged moves to the next step, and has this one.
LEMMA FinishInStep ==
  ASSUME TypeOK, TypeOK', StepInv, LeadsApart, NEW w \in Workers, Finish(w), UNCHANGED sequence
  PROVE  StepInv'
<1> DEFINE l == task[w].lead
           next == CHOOSE s \in NextSteps(l) : \A t \in NextSteps(l) : s <= t
<1>1. l \in Rows /\ leads' = [leads EXCEPT ![l] = Progressed(l)] /\ mail' = mail
  BY DEF Finish
<1>2. leads[l] \in LeadRow /\ Rows' = Rows
  BY <1>1 DEF TypeOK, DatabaseOK, Rows
<1>3. sequence \subseteq Steps /\ Steps \subseteq Nat
  BY DispatchAssumption DEF TypeOK, DatabaseOK, Steps
<1>4. mail[leads[l].contact][leads[l].step] > 0
  BY <1>1 DEF Finish, StepInv, InStep, TypeOK, BatchOK, Holding, Working
<1>5. NextSteps(l) # {} => /\ next \in sequence /\ next > leads[l].step
                           /\ \A s \in sequence : s < next => s <= leads[l].step
  <2> SUFFICES ASSUME NextSteps(l) # {}
               PROVE  /\ next \in sequence /\ next > leads[l].step
                      /\ \A s \in sequence : s < next => s <= leads[l].step
    OBVIOUS
  <2>1. \E s \in NextSteps(l) : \A t \in NextSteps(l) : s <= t
    BY <1>3, LeastElement DEF NextSteps
  <2>2. next \in NextSteps(l) /\ \A t \in NextSteps(l) : next <= t
    BY <2>1
  <2> HIDE DEF next, l
  <2>3. leads[l].step \in Nat
    BY <1>2, <1>3 DEF LeadRow
  <2>4. \A s \in sequence : s \in NextSteps(l) <=> s > leads[l].step
    BY DEF NextSteps
  <2>5. NextSteps(l) \subseteq sequence
    BY DEF NextSteps
  <2>6. ASSUME NEW s \in sequence, s < next
        PROVE  s <= leads[l].step
    <3>1. s \in Nat /\ next \in Nat
      BY <1>3, <2>2, <2>5
    <3>2. ~(s > leads[l].step)
      BY <2>2, <2>4, <2>6, <3>1
    <3>3. QED
      BY <2>3, <3>1, <3>2
  <2>7. QED
    BY <2>2, <2>4, <2>5, <2>6
<1>6. ASSUME NextSteps(l) = {}, NEW s \in sequence
      PROVE  s <= leads[l].step
  <2> HIDE DEF l
  <2>1. leads[l].step \in Nat /\ s \in Nat
    BY <1>2, <1>3 DEF LeadRow
  <2>2. ~(s > leads[l].step)
    BY <1>6 DEF NextSteps
  <2>3. QED
    BY <2>1, <2>2
<1> HIDE DEF next
<1>7. /\ leads'[l].contact = leads[l].contact
      /\ IF NextSteps(l) = {} THEN leads'[l].step = leads[l].step
         ELSE leads'[l].step = next /\ leads'[l].status = "scheduled"
  <2>1. leads'[l] = Progressed(l)
    BY <1>1 DEF TypeOK, DatabaseOK
  <2>2. Progressed(l) = IF NextSteps(l) = {}
                        THEN [leads[l] EXCEPT !.status = "sent", !.due = TRUE]
                        ELSE [leads[l] EXCEPT !.status = "scheduled", !.due = FALSE, !.step = next]
    BY DEF Progressed, next
  <2> HIDE DEF l
  <2>3. QED
    BY <1>2, <2>1, <2>2 DEF LeadRow
<1>8. \A m \in Rows \ {l} : leads'[m] = leads[m]
  BY <1>1 DEF TypeOK, DatabaseOK, Rows
<1>9. \A m \in Rows : leads'[m].step \in sequence
  BY <1>5, <1>7, <1>8 DEF StepInv
<1>10. ASSUME NEW s \in sequence, s < leads'[l].step \/ leads'[l].status = "sent"
       PROVE  mail[leads[l].contact][s] > 0
  <2>1. s <= leads[l].step /\ leads[l].step \in Nat /\ s \in Nat
    BY <1>2, <1>3, <1>5, <1>6, <1>7, <1>10 DEF LeadRow
  <2>2. CASE s = leads[l].step
    BY <1>4, <2>2
  <2>3. CASE s < leads[l].step
    BY <1>1, <2>3 DEF StepInv, NoStepSkipped
  <2>4. QED
    BY <2>1, <2>2, <2>3
<1>11. NoStepSkipped'
  BY <1>1, <1>2, <1>7, <1>8, <1>10 DEF StepInv, NoStepSkipped
<1>12. ASSUME NEW v \in Workers
       PROVE  InStep(v)'
  <2>1. CASE v = w
    <3>1. task'[w] = Null
      BY DEF Finish, Advance, CloseSession, TypeOK, SessionOK
    <3>2. QED
      BY <2>1, <3>1 DEF InStep
  <2>2. CASE v # w
    <3>1. task'[v] = task[v] /\ pc'[v] = pc[v]
      BY <2>2 DEF Finish, Advance, CloseSession, TypeOK, SessionOK, Procs
    <3>2. task[v] # Null /\ task[v].lead \in Rows => task[v].lead # l
      <4>1. task[w] # Null
        BY DEF Finish, TypeOK, BatchOK, Holding, Working
      <4>2. QED
        BY <1>1, <2>2, <4>1 DEF LeadsApart, TypeOK, BatchOK
    <3>3. InStep(v)
      BY DEF StepInv
    <3> HIDE DEF l
    <3>4. task[v] # Null /\ task[v].lead \in Rows
            => leads'[task[v].lead] = leads[task[v].lead]
      BY <1>8, <3>2
    <3>5. QED
      BY <1>1, <1>2, <3>1, <3>3, <3>4 DEF InStep
  <2>3. QED
    BY <2>1, <2>2
<1>13. QED
  BY <1>2, <1>9, <1>11, <1>12 DEF StepInv

LEMMA StepStep ==
  ASSUME TypeOK, TypeOK', StepInv, LeadsApart, OneSequence, MaxMail > 0, [Next]_vars
  PROVE  StepInv'
<1>1. sequence' = sequence
  BY DEF OneSequence, TypeOK, DatabaseOK
<1>2. \A w \in Workers : MovesOn(w) => Finish(w)
  BY DEF MovesOn, StepInv, InStep, TypeOK, BatchOK, Holding, Working
<1>3. CASE \E w \in Workers : Finish(w)
  BY <1>1, <1>3, FinishInStep
<1>4. CASE \A w \in Workers : ~Finish(w)
  <2>1. RowsKept
    BY <1>2, <1>4, StepKeepsRows
  <2>2. \A c \in Contacts, s \in Steps : mail[c][s] > 0 => mail'[c][s] > 0
    BY MailGrows
  <2>3. 1 \in sequence /\ sequence \subseteq Steps
    BY DispatchAssumption DEF TypeOK, DatabaseOK
  <2>4. \A l \in Rows' : leads'[l].step \in sequence'
    BY <1>1, <2>1, <2>3 DEF RowsKept, RowKept, StepInv
  <2>5. ASSUME NEW l \in Rows', NEW s \in sequence, s < leads'[l].step \/ leads'[l].status = "sent"
        PROVE  mail'[leads'[l].contact][s] > 0
    <3>1. s \in Nat /\ s >= 1
      BY <2>3, DispatchAssumption DEF Steps
    <3>2. /\ l \in Rows /\ leads'[l].contact = leads[l].contact
          /\ s < leads[l].step \/ leads[l].status = "sent"
      BY <2>1, <2>5, <3>1 DEF RowsKept, RowKept
    <3>3. mail[leads[l].contact][s] > 0
      BY <3>2 DEF StepInv, NoStepSkipped
    <3>4. leads[l].contact \in Contacts
      BY <3>2 DEF TypeOK, DatabaseOK, LeadRow
    <3>5. QED
      BY <2>2, <2>3, <3>2, <3>3, <3>4
  <2>6. NoStepSkipped'
    BY <1>1, <2>5 DEF NoStepSkipped
  <2>7. ASSUME NEW w \in Workers
        PROVE  InStep(w)'
    <3>1. CASE Select(w) \/ Take(w)
      <4>1. PICK l \in Rows : Look(w, l)
        BY <3>1 DEF Select, Take, Picks, Pending
      <4>2. QED
        BY <1>1, <3>1, <4>1, LookIsInStep DEF Select, Take, database
    <3>2. CASE Deliver(w, TRUE)
      <4>1. /\ task[w] # Null /\ task[w] \in Task /\ UNCHANGED <<task, leads>> /\ pc'[w] = "log"
        BY <3>2, DeliveryCounts DEF Deliver, TypeOK, SessionOK, database, Procs
      <4>2. task[w].contact \in Contacts /\ task[w].step \in Steps
        BY <4>1 DEF Task
      <4>3. mail'[task[w].contact][task[w].step] > 0
        <5>1. mail'[task[w].contact][task[w].step] = Count(mail[task[w].contact][task[w].step])
          BY <3>2, <4>2, DeliveryCounts
        <5>2. mail[task[w].contact][task[w].step] \in Nat
          BY <4>2 DEF TypeOK, HistoryOK
        <5>3. QED
          BY <5>1, <5>2 DEF Count
      <4>4. \A s \in sequence : s < task[w].step => mail'[task[w].contact][s] > 0
        BY <2>2, <2>3, <4>1, <4>2 DEF StepInv, InStep
      <4>5. QED
        BY <1>1, <4>1, <4>3, <4>4 DEF StepInv, InStep, Rows
    <3>3. CASE ~Select(w) /\ ~Take(w) /\ ~Deliver(w, TRUE)
      BY <1>1, <2>1, <2>2, <3>3, StepKeepsTask, TaskStaysInStep DEF StepInv
    <3>4. QED
      BY <3>1, <3>2, <3>3
  <2>8. QED
    BY <2>4, <2>6, <2>7 DEF StepInv
<1>5. QED
  BY <1>3, <1>4

LEMMA InitInStep == Init => StepInv
<1> SUFFICES ASSUME Init
             PROVE  StepInv
  OBVIOUS
<1>1. ASSUME NEW l \in Rows
      PROVE  leads[l].step = 1 /\ leads[l].status = "scheduled"
  <2>1. \E c : leads[l] = NewLead(c)
    BY DEF Init, Rows
  <2>2. QED
    BY <2>1 DEF NewLead
<1>2. 1 \in sequence /\ sequence \subseteq Steps
  BY DispatchAssumption DEF Init
<1>3. NoStepSkipped
  <2>1. \A s \in sequence : ~(s < 1)
    BY <1>2, DispatchAssumption DEF Steps
  <2>2. QED
    BY <1>1, <2>1 DEF NoStepSkipped
<1>4. QED
  BY <1>1, <1>2, <1>3 DEF StepInv, InStep, Init

\* While nobody edits the sequence and no two workers have the same lead, a lead
\* stands at a step, or is finished, only when every step before it was delivered
\* to the contact, whatever fails, dies or is retried, and whoever synchronises.
THEOREM NoStepIsSkippedApart ==
  ASSUME OneSequence, MaxMail > 0
  PROVE  Spec /\ []LeadsApart => []NoStepSkipped
<1>1. TypeOK /\ TypeOK' /\ LeadsApart /\ StepInv /\ [Next]_vars => StepInv'
  BY StepStep
<1>2. StepInv => NoStepSkipped
  BY DEF StepInv
<1>3. QED
  BY <1>1, <1>2, InitInStep, TypeCorrect, PTL DEF Spec

\* One worker process has every lead for itself.
THEOREM NoStepIsSkipped ==
  ASSUME SoleWorker, OneSequence, MaxMail > 0
  PROVE  Spec => []NoStepSkipped
<1>1. LeadsApart
  BY SoleWorkerIsApart
<1>2. QED
  BY <1>1, NoStepIsSkippedApart, PTL

-----------------------------------------------------------------------------
(* Duplicates: while syncs take turns and no two workers are about the same *)
(* contact, a step is repeated only when the rows lost a delivery.         *)

\* What the rows and the hands know of: the step was left behind, the lead is
\* done, or a mail to the contact is out and about to be recorded.
InFlightTo(c, s) ==
  \E w \in Workers : pc[w] \in {"log", "finish"} /\ task[w].contact = c /\ task[w].step = s
Shows(l, s) == s < leads[l].step \/ leads[l].status = "sent" \/ InFlightTo(leads[l].contact, s)

Accounted == \A c \in Contacts, s \in Steps : mail[c][s] <= MaxMail /\ mail[c][s] <= 1 + forgotten[c]

\* One row for each contact; a delivery neither rows nor hands show was forgotten.
RowsInv ==
  /\ Accounted
  /\ AudienceIsDeduplicated
  /\ \A l \in Rows, s \in Steps : ~Shows(l, s) => mail[leads[l].contact][s] <= forgotten[leads[l].contact]
  /\ \A c \in Contacts \ HasRow, s \in Steps : ~InFlightTo(c, s) => mail[c][s] <= forgotten[c]

\* The rows of a batch are still to be mailed.
BatchWaits(w) == \A l \in batch[w] \cap Rows : leads[l].status = "scheduled"

\* The task is what the row says; where the row is gone, what was delivered to
\* the contact is forgotten, but for the mail the worker is about to record.
TaskMatches(w) == /\ leads[task[w].lead].contact = task[w].contact
                  /\ leads[task[w].lead].step = task[w].step
TaskForgotten(w) ==
  \A s \in Steps : \/ mail[task[w].contact][s] <= forgotten[task[w].contact]
                   \/ pc[w] \in {"log", "finish"} /\ s = task[w].step
TaskKnown(w) ==
  task[w] # Null => IF task[w].lead \in Rows THEN TaskMatches(w) ELSE TaskForgotten(w)

HandInv == \A w \in Workers : BatchWaits(w) /\ TaskKnown(w)

\* A plan under way adds rows for contacts that have none, and resets failed ones.
PlanFits(p) ==
  pc[p] = "syncing" => /\ plan[p].add \cap HasRow = {}
                       /\ \A l \in plan[p].reset \cap Rows : leads[l].status = "failed"
PlanInv == \A p \in Procs : PlanFits(p)

LedgerInv == RowsInv /\ HandInv /\ PlanInv

LEMMA Forgetting ==
  ASSUME TypeOK, Accounted, NEW C, Forget(C)
  PROVE  \A c \in Contacts : /\ forgotten[c] <= forgotten'[c]
                             /\ c \in C => \A s \in Steps : mail[c][s] <= forgotten'[c]
<1> SUFFICES ASSUME NEW c \in Contacts
             PROVE  /\ forgotten[c] <= forgotten'[c]
                    /\ c \in C => \A s \in Steps : mail[c][s] <= forgotten'[c]
  OBVIOUS
<1>1. forgotten[c] \in Nat /\ MaxMail \in Nat /\ \A s \in Steps : mail[c][s] \in Nat
  BY DispatchAssumption DEF TypeOK, HistoryOK
<1>2. forgotten'[c] = IF c \in C THEN Count(forgotten[c]) ELSE forgotten[c]
  BY DEF Forget
<1>3. QED
  BY <1>1, <1>2 DEF Count, Accounted

LEMMA Counters ==
  ASSUME TypeOK, TypeOK'
  PROVE  \A c \in Contacts, s \in Steps :
           /\ mail[c][s] \in Nat /\ mail'[c][s] \in Nat
           /\ forgotten[c] \in Nat /\ forgotten'[c] \in Nat
BY DEF TypeOK, HistoryOK

\* A worker is the only one about the contact of its task.
LEMMA TaskApart ==
  ASSUME ContactsApart, NEW v \in Workers, NEW w \in Workers, v # w, task[w] # Null
  PROVE  /\ task[v] # Null => task[v].contact # task[w].contact
         /\ \A l \in batch[v] \cap Rows : leads[l].contact # task[w].contact
BY DEF ContactsApart, Holds

\* A lead in hand that is still a row is scheduled, at the step in hand, and in
\* no other worker's batch.
LEMMA TaskRow ==
  ASSUME TypeOK, HandInv, NEW w \in Workers, task[w] # Null
  PROVE  /\ task[w] \in Task /\ task[w].lead \in batch[w]
         /\ task[w].contact \in Contacts /\ task[w].step \in Steps
         /\ task[w].lead \in Rows =>
              /\ leads[task[w].lead].status = "scheduled"
              /\ leads[task[w].lead].contact = task[w].contact
              /\ leads[task[w].lead].step = task[w].step
<1>1. task[w] \in Task /\ task[w].lead \in batch[w]
  BY DEF TypeOK, SessionOK, BatchOK
<1>2. BatchWaits(w) /\ TaskKnown(w)
  BY DEF HandInv
<1>3. QED
  BY <1>1, <1>2 DEF Task, BatchWaits, TaskKnown, TaskMatches

\* A mail to the contact of a worker that has none out is no one's.
LEMMA NoneInFlight ==
  ASSUME TypeOK, ContactsApart, NEW w \in Workers, task[w] # Null, NEW s,
         InFlightTo(task[w].contact, s)
  PROVE  pc[w] \in {"log", "finish"} /\ task[w].step = s
<1>1. PICK v \in Workers : pc[v] \in {"log", "finish"} /\ task[v].contact = task[w].contact
                           /\ task[v].step = s
  BY DEF InFlightTo
<1>2. task[v] # Null
  BY <1>1 DEF TypeOK, BatchOK, Holding, Working
<1>3. QED
  BY <1>1, <1>2, TaskApart

\* A step that adds no mail and moves no contact: what rows and hands stop
\* showing is forgotten.
LEMMA RowsStay ==
  ASSUME TypeOK, TypeOK', RowsInv, UNCHANGED mail, Rows' = Rows,
         \A l \in Rows : leads'[l].contact = leads[l].contact,
         \A c \in Contacts : forgotten[c] <= forgotten'[c],
         \A l \in Rows, s \in Steps :
           Shows(l, s) => Shows(l, s)' \/ mail[leads[l].contact][s] <= forgotten'[leads[l].contact],
         \A c \in Contacts \ HasRow, s \in Steps :
           InFlightTo(c, s) => InFlightTo(c, s)' \/ mail[c][s] <= forgotten'[c]
  PROVE  RowsInv'
<1>1. \A c \in Contacts, s \in Steps :
        mail[c][s] \in Nat /\ forgotten[c] \in Nat /\ forgotten'[c] \in Nat
  BY Counters
<1>2. Accounted'
  BY <1>1 DEF RowsInv, Accounted
<1>3. AudienceIsDeduplicated'
  BY DEF RowsInv, AudienceIsDeduplicated
<1>4. ASSUME NEW l \in Rows, NEW s \in Steps, ~Shows(l, s)'
      PROVE  mail[leads[l].contact][s] <= forgotten'[leads[l].contact]
  <2>1. leads[l].contact \in Contacts
    BY DEF TypeOK, DatabaseOK, LeadRow
  <2>2. CASE Shows(l, s)
    BY <1>4, <2>2
  <2>3. CASE ~Shows(l, s)
    <3>1. mail[leads[l].contact][s] <= forgotten[leads[l].contact]
      BY <2>3 DEF RowsInv
    <3>2. QED
      BY <1>1, <2>1, <3>1
  <2>4. QED
    BY <2>2, <2>3
<1>5. HasRow' = HasRow
  BY DEF HasRow
<1>6. ASSUME NEW c \in Contacts \ HasRow, NEW s \in Steps, ~InFlightTo(c, s)'
      PROVE  mail[c][s] <= forgotten'[c]
  <2>1. CASE InFlightTo(c, s)
    BY <1>6, <2>1
  <2>2. CASE ~InFlightTo(c, s)
    <3>1. mail[c][s] <= forgotten[c]
      BY <2>2 DEF RowsInv
    <3>2. QED
      BY <1>1, <3>1
  <2>3. QED
    BY <2>1, <2>2
<1>7. \A l \in Rows', s \in Steps :
        ~Shows(l, s)' => mail'[leads'[l].contact][s] <= forgotten'[leads'[l].contact]
  BY <1>4
<1>8. \A c \in Contacts \ HasRow', s \in Steps : ~InFlightTo(c, s)' => mail'[c][s] <= forgotten'[c]
  BY <1>5, <1>6
<1>9. QED
  BY <1>2, <1>3, <1>7, <1>8 DEF RowsInv

\* A worker that keeps its task and its batch, while its rows stay as they are.
LEMMA HandStays ==
  ASSUME TypeOK, TypeOK', RowsInv, UNCHANGED mail, NEW w \in Workers, BatchWaits(w), TaskKnown(w),
         batch'[w] = batch[w],
         task'[w] # Null => /\ task[w] # Null /\ task'[w].lead = task[w].lead
                            /\ task'[w].contact = task[w].contact /\ task'[w].step = task[w].step,
         pc[w] \in {"log", "finish"} /\ task'[w] # Null => pc'[w] \in {"log", "finish"},
         Rows' = Rows,
         \A l \in batch[w] \cap Rows : /\ leads'[l].contact = leads[l].contact
                                       /\ leads'[l].step = leads[l].step
                                       /\ leads'[l].status = leads[l].status,
         \A c \in Contacts : forgotten[c] <= forgotten'[c]
  PROVE  BatchWaits(w)' /\ TaskKnown(w)'
<1>1. BatchWaits(w)'
  BY DEF BatchWaits
<1>2. ASSUME task'[w] # Null
      PROVE  IF task[w].lead \in Rows THEN TaskMatches(w)' ELSE TaskForgotten(w)'
  <2>1. task[w] \in Task /\ task[w].lead \in batch[w]
    BY <1>2 DEF TypeOK, SessionOK, BatchOK
  <2>2. task[w].contact \in Contacts
    BY <2>1 DEF Task
  <2>3. CASE task[w].lead \in Rows
    BY <1>2, <2>1, <2>3 DEF TaskKnown, TaskMatches
  <2>4. CASE task[w].lead \notin Rows
    <3>1. TaskForgotten(w)
      BY <1>2, <2>4 DEF TaskKnown
    <3>2. \A s \in Steps : mail[task[w].contact][s] <= forgotten[task[w].contact]
                           => mail[task[w].contact][s] <= forgotten'[task[w].contact]
      BY <2>2, Counters
    <3>3. QED
      BY <1>2, <2>4, <3>1, <3>2 DEF TaskForgotten
  <2>5. QED
    BY <2>3, <2>4
<1>3. TaskKnown(w)'
  BY <1>2 DEF TaskKnown
<1>4. QED
  BY <1>1, <1>3

\* A session is closed: a mail in flight is forgotten.
LEMMA ClosingKeepsLedger ==
  ASSUME TypeOK, TypeOK', LedgerInv, NEW p \in Procs, CloseSession(p),
         Forget(InFlight(p)), UNCHANGED <<leads, mail>>
  PROVE  LedgerInv'
<1>1. Rows' = Rows /\ HasRow' = HasRow
  BY DEF Rows, HasRow
<1>2. \A c \in Contacts : /\ forgotten[c] <= forgotten'[c]
                          /\ c \in InFlight(p) => \A s \in Steps : mail[c][s] <= forgotten'[c]
  BY Forgetting DEF LedgerInv, RowsInv
<1>3. /\ \A w \in Workers : w # p => pc'[w] = pc[w] /\ task'[w] = task[w] /\ batch'[w] = batch[w]
      /\ p \in Workers => batch'[p] = {} /\ task'[p] = Null
      /\ pc'[p] = "idle" /\ \A q \in Procs : q # p => pc'[q] = pc[q] /\ plan'[q] = plan[q]
  BY DEF CloseSession, TypeOK, SessionOK, Procs
<1>4. ASSUME NEW c \in Contacts, NEW s \in Steps, InFlightTo(c, s)
      PROVE  InFlightTo(c, s)' \/ mail[c][s] <= forgotten'[c]
  <2>1. PICK w \in Workers : pc[w] \in {"log", "finish"} /\ task[w].contact = c /\ task[w].step = s
    BY <1>4 DEF InFlightTo
  <2>2. CASE w = p
    BY <1>2, <2>1, <2>2 DEF InFlight
  <2>3. CASE w # p
    BY <1>3, <2>1, <2>3 DEF InFlightTo
  <2>4. QED
    BY <2>2, <2>3
<1>5. ASSUME NEW l \in Rows, NEW s \in Steps, Shows(l, s)
      PROVE  Shows(l, s)' \/ mail[leads[l].contact][s] <= forgotten'[leads[l].contact]
  <2>1. leads[l].contact \in Contacts
    BY DEF TypeOK, DatabaseOK, LeadRow
  <2>2. QED
    BY <1>4, <1>5, <2>1 DEF Shows
<1>6. RowsInv'
  BY <1>1, <1>2, <1>4, <1>5, RowsStay DEF LedgerInv
<1>7. ASSUME NEW w \in Workers
      PROVE  BatchWaits(w)' /\ TaskKnown(w)'
  <2>1. CASE w = p
    BY <1>3, <2>1 DEF BatchWaits, TaskKnown
  <2>2. CASE w # p
    BY <1>1, <1>2, <1>3, <2>2, HandStays DEF LedgerInv, HandInv
  <2>3. QED
    BY <2>1, <2>2
<1>8. PlanInv'
  BY <1>1, <1>3 DEF LedgerInv, PlanInv, PlanFits
<1>9. QED
  BY <1>6, <1>7, <1>8 DEF LedgerInv, HandInv

\* A session is closed with no mail in flight.
LEMMA QuietClosing ==
  ASSUME TypeOK, TypeOK', LedgerInv, NEW p \in Procs, CloseSession(p),
         pc[p] \notin {"log", "finish"}, UNCHANGED <<leads, mail, forgotten>>
  PROVE  LedgerInv'
<1>1. InFlight(p) = {}
  BY DEF InFlight
<1>2. forgotten' = [c \in Contacts |-> IF c \in InFlight(p) THEN Count(forgotten[c]) ELSE forgotten[c]]
  BY <1>1 DEF TypeOK, HistoryOK
<1>3. QED
  BY <1>2, ClosingKeepsLedger DEF Forget

\* The worker is done with a lead, whose row now shows at least what it did.
LEMMA AdvancingKeepsLedger ==
  ASSUME TypeOK, TypeOK', ContactsApart, LedgerInv, NEW w \in Workers, Advance(w),
         pc[w] \in Holding, task[w].lead \in Rows, NEW row,
         leads' = [leads EXCEPT ![task[w].lead] = row],
         row.contact = leads[task[w].lead].contact,
         \A s \in Steps : Shows(task[w].lead, s) => s < row.step \/ row.status = "sent",
         UNCHANGED <<mail, forgotten>>
  PROVE  LedgerInv'
<1> DEFINE l == task[w].lead
<1>1. task[w] # Null
  BY DEF TypeOK, BatchOK
<1>2. /\ l \in Rows /\ l \in batch[w] /\ leads[l].status = "scheduled"
      /\ leads[l].contact = task[w].contact
  BY <1>1, TaskRow DEF LedgerInv
<1>3. leads'[l] = row /\ Rows' = Rows /\ \A m \in Rows \ {l} : leads'[m] = leads[m]
  BY <1>2 DEF Rows
<1>4. /\ batch'[w] \subseteq batch[w] \ {l} /\ task'[w] = Null /\ pc'[w] \in {"idle", "next"}
      /\ \A v \in Workers : v # w => pc'[v] = pc[v] /\ task'[v] = task[v] /\ batch'[v] = batch[v]
      /\ \A p \in Procs : p # w => pc'[p] = pc[p] /\ plan'[p] = plan[p]
  BY DEF Advance, CloseSession, TypeOK, SessionOK, Procs
<1>5. row.contact = task[w].contact
  BY <1>2 DEF l
<1> HIDE DEF l
<1>6. \A m \in Rows : leads'[m].contact = leads[m].contact
  BY <1>2, <1>3, <1>5
<1>7. HasRow' = HasRow
  BY <1>3, <1>6 DEF HasRow
<1>8. ASSUME NEW c, NEW s, c # task[w].contact, InFlightTo(c, s)
      PROVE  InFlightTo(c, s)'
  BY <1>4, <1>8 DEF InFlightTo
<1>9. ASSUME NEW m \in Rows, NEW s \in Steps, Shows(m, s)
      PROVE  Shows(m, s)'
  <2>1. CASE m = l
    BY <1>3, <1>9, <2>1 DEF Shows, l
  <2>2. CASE m # l
    <3>1. leads[m].contact # task[w].contact
      BY <1>2, <2>2 DEF LedgerInv, RowsInv, AudienceIsDeduplicated
    <3>2. leads'[m] = leads[m]
      BY <1>3, <2>2
    <3>3. QED
      BY <1>8, <1>9, <3>1, <3>2 DEF Shows
  <2>3. QED
    BY <2>1, <2>2
<1>10. \A c \in Contacts \ HasRow, s \in Steps : InFlightTo(c, s) => InFlightTo(c, s)'
  <2>1. task[w].contact \in HasRow
    BY <1>2 DEF HasRow
  <2>2. QED
    BY <1>8, <2>1
<1>11. \A c \in Contacts : forgotten[c] <= forgotten'[c]
  BY DEF TypeOK, HistoryOK
<1>12. RowsInv'
  BY <1>3, <1>6, <1>9, <1>10, <1>11, RowsStay DEF LedgerInv
<1>13. ASSUME NEW v \in Workers
       PROVE  BatchWaits(v)' /\ TaskKnown(v)'
  <2>1. CASE v = w
    BY <1>3, <1>4, <2>1 DEF LedgerInv, HandInv, BatchWaits, TaskKnown
  <2>2. CASE v # w
    <3>1. \A m \in batch[v] \cap Rows : leads'[m] = leads[m]
      <4>1. l \notin batch[v]
        BY <1>1, <1>2, <2>2, TaskApart
      <4>2. QED
        BY <1>3, <4>1
    <3>2. BatchWaits(v) /\ TaskKnown(v)
      BY DEF LedgerInv, HandInv
    <3>3. RowsInv /\ batch'[v] = batch[v] /\ task'[v] = task[v] /\ pc'[v] = pc[v]
      BY <1>4, <2>2 DEF LedgerInv
    <3>4. QED
      BY <1>3, <1>11, <3>1, <3>2, <3>3, HandStays
  <2>3. QED
    BY <2>1, <2>2
<1>14. ASSUME NEW p \in Procs
       PROVE  PlanFits(p)'
  <2>1. CASE p = w
    BY <1>4, <2>1 DEF PlanFits
  <2>2. CASE p # w
    <3>1. PlanFits(p)
      BY DEF LedgerInv, PlanInv
    <3>2. QED
      BY <1>2, <1>3, <1>4, <1>7, <2>2, <3>1 DEF PlanFits
  <2>3. QED
    BY <2>1, <2>2
<1>15. QED
  BY <1>12, <1>13, <1>14 DEF LedgerInv, HandInv, PlanInv

\* A step that changes neither the rows nor what the workers are about.
LEMMA QuietKeepsLedger ==
  ASSUME TypeOK, TypeOK', LedgerInv, UNCHANGED <<leads, mail, forgotten, batch, plan>>,
         \A w \in Workers :
           /\ task'[w] # Null => /\ task[w] # Null /\ task'[w].lead = task[w].lead
                                 /\ task'[w].contact = task[w].contact /\ task'[w].step = task[w].step
           /\ pc[w] \in {"log", "finish"} => pc'[w] \in {"log", "finish"},
         \A p \in Procs : pc'[p] = "syncing" => pc[p] = "syncing"
  PROVE  LedgerInv'
<1>1. Rows' = Rows /\ HasRow' = HasRow
  BY DEF Rows, HasRow
<1>2. ASSUME NEW w \in Workers, pc[w] \in {"log", "finish"}
      PROVE  /\ pc'[w] \in {"log", "finish"}
             /\ task'[w].contact = task[w].contact /\ task'[w].step = task[w].step
  <2>1. pc'[w] \in Holding
    BY <1>2 DEF Holding, Working
  <2>2. QED
    BY <1>2, <2>1 DEF TypeOK, BatchOK
<1>3. \A c, s : InFlightTo(c, s) => InFlightTo(c, s)'
  BY <1>2 DEF InFlightTo
<1>4. \A l \in Rows, s \in Steps : Shows(l, s) => Shows(l, s)'
  BY <1>3 DEF Shows
<1>5. \A c \in Contacts : forgotten[c] <= forgotten'[c]
  BY DEF TypeOK, HistoryOK
<1>6. RowsInv'
  BY <1>1, <1>3, <1>4, <1>5, RowsStay DEF LedgerInv
<1>7. ASSUME NEW w \in Workers
      PROVE  BatchWaits(w)' /\ TaskKnown(w)'
  BY <1>1, <1>5, HandStays DEF LedgerInv, HandInv
<1>8. PlanInv'
  BY <1>1 DEF LedgerInv, PlanInv, PlanFits
<1>9. QED
  BY <1>6, <1>7, <1>8 DEF LedgerInv, HandInv

\* A worker with nothing in flight looks at a lead that is still scheduled.
LEMMA LookKeepsLedger ==
  ASSUME TypeOK, TypeOK', LedgerInv, NEW w \in Workers, NEW l \in Rows, Look(w, l),
         pc[w] \in {"select", "next"}, \A m \in batch'[w] \cap Rows : leads[m].status = "scheduled",
         \A v \in Workers : v # w => batch'[v] = batch[v],
         UNCHANGED <<leads, mail, forgotten, plan>>
  PROVE  LedgerInv'
<1>1. Rows' = Rows /\ HasRow' = HasRow
  BY DEF Rows, HasRow
<1>2. /\ \A v \in Workers : v # w => pc'[v] = pc[v] /\ task'[v] = task[v]
      /\ \A p \in Procs : p # w => pc'[p] = pc[p]
      /\ pc'[w] \in {"skip", "halt", "send"}
      /\ task'[w].lead = l /\ task'[w].contact = leads[l].contact /\ task'[w].step = leads[l].step
  BY DEF Look, Verdict, TypeOK, SessionOK, Procs
<1>3. \A c, s : InFlightTo(c, s) => InFlightTo(c, s)'
  BY <1>2 DEF InFlightTo
<1>4. \A m \in Rows, s \in Steps : Shows(m, s) => Shows(m, s)'
  BY <1>3 DEF Shows
<1>5. \A c \in Contacts : forgotten[c] <= forgotten'[c]
  BY DEF TypeOK, HistoryOK
<1>6. RowsInv'
  BY <1>1, <1>3, <1>4, <1>5, RowsStay DEF LedgerInv
<1>7. ASSUME NEW v \in Workers
      PROVE  BatchWaits(v)' /\ TaskKnown(v)'
  <2>1. CASE v = w
    BY <1>1, <1>2, <2>1 DEF BatchWaits, TaskKnown, TaskMatches
  <2>2. CASE v # w
    BY <1>1, <1>2, <1>5, <2>2, HandStays DEF LedgerInv, HandInv
  <2>3. QED
    BY <2>1, <2>2
<1>8. PlanInv'
  BY <1>1, <1>2 DEF LedgerInv, PlanInv, PlanFits
<1>9. QED
  BY <1>6, <1>7, <1>8 DEF LedgerInv, HandInv

\* The plan a sync makes fits the rows it read.
LEMMA ReadKeepsLedger ==
  ASSUME TypeOK, TypeOK', LedgerInv, NEW p \in Procs, SyncRead(p)
  PROVE  LedgerInv'
<1>1. /\ UNCHANGED <<leads, mail, forgotten, batch, task>> /\ pc[p] = "sync" /\ pc'[p] = "syncing"
      /\ \A q \in Procs : q # p => pc'[q] = pc[q] /\ plan'[q] = plan[q]
  BY DEF SyncRead, database, history, TypeOK, SessionOK
<1>2. Rows' = Rows /\ HasRow' = HasRow
  BY <1>1 DEF Rows, HasRow
<1>3. \A w \in Workers : pc[w] \in {"log", "finish"} => pc'[w] \in {"log", "finish"}
  BY <1>1 DEF Procs
<1>4. \A c, s : InFlightTo(c, s) => InFlightTo(c, s)'
  BY <1>1, <1>3 DEF InFlightTo
<1>5. \A l \in Rows, s \in Steps : Shows(l, s) => Shows(l, s)'
  BY <1>1, <1>4 DEF Shows
<1>6. \A c \in Contacts : forgotten[c] <= forgotten'[c]
  BY <1>1 DEF TypeOK, HistoryOK
<1>7. RowsInv'
  BY <1>1, <1>2, <1>4, <1>5, <1>6, RowsStay DEF LedgerInv
<1>8. ASSUME NEW w \in Workers
      PROVE  BatchWaits(w)' /\ TaskKnown(w)'
  BY <1>1, <1>2, <1>3, <1>6, HandStays DEF LedgerInv, HandInv
<1>9. PlanFits(p)'
  <2>1. PICK e \in ExistingByContact : plan'[p] = PlanFor(e)
    BY DEF SyncRead, TypeOK, SessionOK
  <2>2. plan'[p].add \cap HasRow = {}
    BY <2>1 DEF PlanFor
  <2>3. \A l \in plan'[p].reset : leads[l].status = "failed"
    BY <2>1 DEF PlanFor
  <2>4. QED
    BY <1>1, <1>2, <2>2, <2>3 DEF PlanFits
<1>10. PlanInv'
  BY <1>1, <1>2, <1>9 DEF LedgerInv, PlanInv, PlanFits
<1>11. QED
  BY <1>7, <1>8, <1>10 DEF LedgerInv, HandInv

\* A sync adds a row only for a contact that has none, and forgets the mailed
\* contacts whose rows it drops.
LEMMA CommitKeepsLedger ==
  ASSUME TypeOK, TypeOK', SyncsTakeTurns, LedgerInv, NEW p \in Procs, SyncCommit(p)
  PROVE  LedgerInv'
<1>1. PICK keys \in [plan[p].add -> FreshKeys] :
        /\ \A c, d \in plan[p].add : keys[c] = keys[d] => c = d
        /\ leads' = Synced(p, keys)
  BY DEF SyncCommit
<1>2. /\ UNCHANGED <<mail, batch, task>> /\ pc[p] = "syncing"
      /\ pc'[p] \in {"select", "admit", "idle"}
      /\ \A q \in Procs : q # p => pc'[q] = pc[q]
      /\ Forget(MailedAmong(plan[p].drop))
  BY DEF SyncCommit, AfterSync, TypeOK, SessionOK
<1>3. /\ plan[p].add \cap HasRow = {} /\ plan[p].add \subseteq Contacts
      /\ \A l \in plan[p].reset \cap Rows : leads[l].status = "failed"
  BY <1>2 DEF LedgerInv, PlanInv, PlanFits, TypeOK, SessionOK, SyncPlan
<1> DEFINE added == {keys[c] : c \in plan[p].add}
<1>4. /\ Rows' = (Rows \ plan[p].drop) \cup added /\ added \cap Rows = {}
      /\ \A w \in Workers : added \cap batch[w] = {}
  BY <1>1 DEF Rows, Synced, FreshKeys, Referenced
<1>5. ASSUME NEW c \in plan[p].add
      PROVE  leads'[keys[c]].contact = c
  <2>1. leads'[keys[c]] = NewLead(CHOOSE d \in plan[p].add : keys[d] = keys[c])
    BY <1>1, <1>4 DEF Synced
  <2>2. (CHOOSE d \in plan[p].add : keys[d] = keys[c]) = c
    BY <1>1
  <2>3. QED
    BY <2>1, <2>2 DEF NewLead
<1>6. ASSUME NEW l \in Rows \ plan[p].drop
      PROVE  /\ leads'[l].contact = leads[l].contact /\ leads'[l].step = leads[l].step
             /\ leads[l].status \in {"sent", "scheduled"} => leads'[l].status = leads[l].status
  <2>1. leads'[l] = IF l \in plan[p].reset THEN [leads[l] EXCEPT !.status = "scheduled"]
                    ELSE leads[l]
    BY <1>1, <1>4 DEF Synced
  <2>2. leads[l] \in LeadRow
    BY DEF TypeOK, DatabaseOK
  <2>3. QED
    BY <1>3, <2>1, <2>2 DEF LeadRow
<1>7. \A c \in Contacts : /\ forgotten[c] <= forgotten'[c]
                          /\ c \in MailedAmong(plan[p].drop) => \A s \in Steps : mail[c][s] <= forgotten'[c]
  BY <1>2, Forgetting DEF LedgerInv, RowsInv
<1>8. \A c \in Contacts, s \in Steps :
        mail[c][s] \in Nat /\ forgotten[c] \in Nat /\ forgotten'[c] \in Nat
  BY Counters
<1>9. \A l \in Rows : leads[l].contact \in Contacts /\ leads[l].contact \in HasRow
  BY DEF TypeOK, DatabaseOK, LeadRow, HasRow
<1> HIDE DEF added
<1>10. Accounted'
  BY <1>2, <1>7, <1>8 DEF LedgerInv, RowsInv, Accounted
<1>11. ASSUME NEW l \in Rows', NEW m \in Rows', leads'[l].contact = leads'[m].contact
       PROVE  l = m
  <2>1. \A k \in added : \E c \in plan[p].add : k = keys[c] /\ leads'[k].contact = c
    BY <1>5 DEF added
  <2>2. CASE l \in added /\ m \in added
    BY <1>11, <2>1, <2>2
  <2>3. CASE l \notin added /\ m \notin added
    <3>1. leads[l].contact = leads[m].contact
      BY <1>4, <1>6, <1>11, <2>3
    <3>2. QED
      BY <1>4, <2>3, <3>1 DEF LedgerInv, RowsInv, AudienceIsDeduplicated
  <2>4. CASE l \in added <=> m \notin added
    BY <1>3, <1>4, <1>6, <1>9, <1>11, <2>1, <2>4
  <2>5. QED
    BY <2>2, <2>3, <2>4
<1>12. \A c, s : InFlightTo(c, s)' <=> InFlightTo(c, s)
  BY <1>2 DEF InFlightTo, Procs
<1>13. ASSUME NEW c \in Contacts, \E l \in Rows \cap plan[p].drop : leads[l].contact = c, NEW s \in Steps
       PROVE  mail[c][s] <= forgotten'[c]
  <2>1. CASE Mailed(c)
    BY <1>7, <1>13, <2>1 DEF MailedAmong
  <2>2. CASE ~Mailed(c)
    BY <1>8, <2>2 DEF Mailed
  <2>3. QED
    BY <2>1, <2>2
<1>14. ASSUME NEW l \in Rows', NEW s \in Steps, ~Shows(l, s)'
       PROVE  mail[leads'[l].contact][s] <= forgotten'[leads'[l].contact]
  <2>1. CASE l \in added
    <3>1. PICK c \in plan[p].add : l = keys[c]
      BY <2>1 DEF added
    <3>2. c \in Contacts \ HasRow /\ leads'[l].contact = c
      BY <1>3, <1>5, <3>1
    <3>3. ~InFlightTo(c, s)
      BY <1>12, <1>14, <3>2 DEF Shows
    <3>4. mail[c][s] <= forgotten[c]
      BY <3>2, <3>3 DEF LedgerInv, RowsInv
    <3>5. QED
      BY <1>7, <1>8, <3>2, <3>4
  <2>2. CASE l \notin added
    <3>1. l \in Rows \ plan[p].drop
      BY <1>4, <2>2
    <3>2. ~Shows(l, s)
      BY <1>6, <1>12, <1>14, <3>1 DEF Shows
    <3>3. mail[leads[l].contact][s] <= forgotten[leads[l].contact]
      BY <3>1, <3>2 DEF LedgerInv, RowsInv
    <3>4. QED
      BY <1>6, <1>7, <1>8, <1>9, <3>1, <3>3
  <2>3. QED
    BY <2>1, <2>2
<1>15. ASSUME NEW c \in Contacts \ HasRow', NEW s \in Steps, ~InFlightTo(c, s)'
       PROVE  mail[c][s] <= forgotten'[c]
  <2>1. CASE c \notin HasRow
    <3>1. mail[c][s] <= forgotten[c]
      BY <1>12, <1>15, <2>1 DEF LedgerInv, RowsInv
    <3>2. QED
      BY <1>7, <1>8, <3>1
  <2>2. CASE c \in HasRow
    <3>1. PICK l \in Rows : leads[l].contact = c
      BY <2>2 DEF HasRow
    <3>2. l \in plan[p].drop
      <4>1. l \in Rows' => leads'[l].contact # c
        BY <1>15 DEF HasRow
      <4>2. QED
        BY <1>4, <1>6, <3>1, <4>1
    <3>3. QED
      BY <1>13, <3>1, <3>2
  <2>3. QED
    BY <2>1, <2>2
<1>16. RowsInv'
  BY <1>2, <1>10, <1>11, <1>14, <1>15 DEF RowsInv, AudienceIsDeduplicated
<1>17. ASSUME NEW w \in Workers
       PROVE  BatchWaits(w)'
  BY <1>2, <1>4, <1>6 DEF LedgerInv, HandInv, BatchWaits
<1>18. ASSUME NEW w \in Workers, task[w] # Null
       PROVE  IF task[w].lead \in Rows' THEN TaskMatches(w)' ELSE TaskForgotten(w)'
  <2>1. /\ task[w].lead \in batch[w] /\ task[w].contact \in Contacts
        /\ task[w].lead \in Rows => TaskMatches(w)
    BY <1>18, TaskRow DEF LedgerInv, TaskMatches
  <2>2. pc'[w] = pc[w]
    <3>1. pc[w] # "syncing"
      BY <1>18 DEF TypeOK, BatchOK, Holding, Working
    <3>2. QED
      BY <1>2, <3>1 DEF Procs
  <2>3. CASE task[w].lead \in Rows'
    BY <1>2, <1>4, <1>6, <2>1, <2>3 DEF TaskMatches
  <2>4. CASE task[w].lead \notin Rows' /\ task[w].lead \in Rows
    <3>1. task[w].lead \in Rows \cap plan[p].drop /\ leads[task[w].lead].contact = task[w].contact
      BY <1>4, <2>1, <2>4 DEF TaskMatches
    <3>2. \A s \in Steps : mail[task[w].contact][s] <= forgotten'[task[w].contact]
      BY <1>13, <2>1, <3>1
    <3>3. QED
      BY <1>2, <2>4, <3>2 DEF TaskForgotten
  <2>5. CASE task[w].lead \notin Rows' /\ task[w].lead \notin Rows
    <3>1. TaskForgotten(w)
      BY <1>18, <2>5 DEF LedgerInv, HandInv, TaskKnown
    <3>2. \A s \in Steps : mail[task[w].contact][s] <= forgotten[task[w].contact]
                           => mail[task[w].contact][s] <= forgotten'[task[w].contact]
      BY <1>7, <1>8, <2>1
    <3>3. QED
      BY <1>2, <2>2, <2>5, <3>1, <3>2 DEF TaskForgotten
  <2>6. QED
    BY <2>3, <2>4, <2>5
<1>19. HandInv'
  BY <1>2, <1>17, <1>18 DEF HandInv, TaskKnown
<1>20. PlanInv'
  BY <1>2 DEF SyncsTakeTurns, PlanInv, PlanFits
<1>21. QED
  BY <1>16, <1>19, <1>20 DEF LedgerInv

\* What a worker is about to mail is not on record as delivered.
LEMMA SendIsNew ==
  ASSUME TypeOK, ContactsApart, LedgerInv, NEW w \in Workers, pc[w] = "send", NEW s \in Steps,
         s >= task[w].step
  PROVE  mail[task[w].contact][s] <= forgotten[task[w].contact]
<1>1. task[w] # Null
  BY DEF TypeOK, BatchOK, Holding, Working
<1>2. task[w].contact \in Contacts /\ task[w].step \in Nat /\ s \in Nat
  BY <1>1, TaskRow, DispatchAssumption DEF LedgerInv, Steps
<1>3. ~InFlightTo(task[w].contact, s)
  BY <1>1, NoneInFlight
<1>4. CASE task[w].lead \in Rows
  <2>1. /\ leads[task[w].lead].status = "scheduled" /\ leads[task[w].lead].contact = task[w].contact
        /\ leads[task[w].lead].step = task[w].step
    BY <1>1, <1>4, TaskRow DEF LedgerInv
  <2>2. ~Shows(task[w].lead, s)
    BY <1>2, <1>3, <2>1 DEF Shows
  <2>3. QED
    BY <1>4, <2>1, <2>2 DEF LedgerInv, RowsInv
<1>5. CASE task[w].lead \notin Rows
  BY <1>1, <1>5 DEF LedgerInv, HandInv, TaskKnown, TaskForgotten
<1>6. QED
  BY <1>4, <1>5

\* The mail goes to the contact of the lead in hand, and is in flight or forgotten.
LEMMA DeliveryKeepsLedger ==
  ASSUME TypeOK, TypeOK', ContactsApart, LedgerInv, NEW w \in Workers, NEW acked \in BOOLEAN,
         Deliver(w, acked)
  PROVE  LedgerInv'
<1> DEFINE c == task[w].contact
           s == task[w].step
<1>1. /\ task[w] # Null /\ task[w] \in Task
      /\ \A d \in Contacts, t \in Steps :
           mail'[d][t] = IF d = c /\ t = s THEN Count(mail[d][t]) ELSE mail[d][t]
  BY DeliveryCounts
<1>2. c \in Contacts /\ s \in Steps /\ s \in Nat
  BY <1>1, DispatchAssumption DEF Task, Steps
<1>3. /\ UNCHANGED <<leads, plan, batch, task>> /\ pc[w] = "send"
      /\ pc'[w] = IF acked THEN "log" ELSE "fail"
      /\ \A p \in Procs : p # w => pc'[p] = pc[p]
      /\ Forget(IF acked THEN {} ELSE {c})
  BY DEF Deliver, database, TypeOK, SessionOK, Procs
<1>4. mail[c][s] <= forgotten[c]
  BY <1>2, <1>3, SendIsNew
<1>5. \A d, t : InFlightTo(d, t)' <=> InFlightTo(d, t) \/ (acked /\ d = c /\ t = s)
  BY <1>3 DEF InFlightTo, Procs
<1>6. \A v \in Workers : v # w /\ task[v] # Null => task[v].contact # c
  BY <1>1, TaskApart
<1> HIDE DEF c, s
<1>7. Rows' = Rows /\ HasRow' = HasRow
  BY <1>3 DEF Rows, HasRow
<1>8. \A d \in Contacts, t \in Steps :
        /\ mail[d][t] \in Nat /\ forgotten[d] \in Nat /\ forgotten'[d] \in Nat
        /\ forgotten[d] <= forgotten'[d]
        /\ mail[d][t] <= MaxMail /\ mail[d][t] <= 1 + forgotten[d] /\ MaxMail \in Nat
  <2>1. \A d \in Contacts : forgotten[d] <= forgotten'[d]
    BY <1>3, Forgetting DEF LedgerInv, RowsInv
  <2>2. QED
    BY <2>1, Counters, DispatchAssumption DEF LedgerInv, RowsInv, Accounted
<1>9. ASSUME NEW d \in Contacts, NEW t \in Steps, d # c \/ t # s
      PROVE  mail'[d][t] = mail[d][t]
  BY <1>1, <1>9
<1>10. mail'[c][s] = Count(mail[c][s])
  BY <1>1, <1>2
<1>11. ~acked => \A t \in Steps : mail'[c][t] <= forgotten'[c]
  <2> SUFFICES ASSUME ~acked, NEW t \in Steps
               PROVE  mail'[c][t] <= forgotten'[c]
    OBVIOUS
  <2>1. forgotten'[c] = Count(forgotten[c])
    BY <1>2, <1>3 DEF Forget
  <2>2. CASE t = s
    BY <1>2, <1>4, <1>8, <1>10, <2>1, <2>2 DEF Count
  <2>3. CASE t # s
    <3>1. mail'[c][t] = mail[c][t]
      BY <1>2, <1>9, <2>3
    <3>2. QED
      BY <1>2, <1>8, <2>1, <3>1 DEF Count
  <2>4. QED
    BY <2>2, <2>3
<1>12. mail'[c][s] <= MaxMail /\ mail'[c][s] <= 1 + forgotten'[c]
  BY <1>2, <1>4, <1>8, <1>10 DEF Count
<1>13. Accounted'
  <2> SUFFICES ASSUME NEW d \in Contacts, NEW t \in Steps
               PROVE  mail'[d][t] <= MaxMail /\ mail'[d][t] <= 1 + forgotten'[d]
    BY DEF Accounted
  <2>1. CASE d = c /\ t = s
    BY <1>12, <2>1
  <2>2. CASE d # c \/ t # s
    BY <1>8, <1>9, <2>2
  <2>3. QED
    BY <2>1, <2>2
<1>14. ASSUME NEW d \in Contacts, NEW t \in Steps, ~InFlightTo(d, t)',
              ~InFlightTo(d, t) => mail[d][t] <= forgotten[d]
       PROVE  mail'[d][t] <= forgotten'[d]
  <2>1. mail[d][t] <= forgotten[d]
    BY <1>5, <1>14
  <2>2. CASE d # c \/ t # s
    BY <1>8, <1>9, <2>1, <2>2
  <2>3. CASE d = c /\ t = s
    BY <1>5, <1>11, <1>14, <2>3
  <2>4. QED
    BY <2>2, <2>3
<1>15. ASSUME NEW m \in Rows, NEW t \in Steps, ~Shows(m, t)'
       PROVE  mail'[leads[m].contact][t] <= forgotten'[leads[m].contact]
  <2>1. PICK d \in Contacts : d = leads[m].contact
    BY DEF TypeOK, DatabaseOK, LeadRow
  <2>2. ~InFlightTo(d, t)' /\ (~InFlightTo(d, t) => ~Shows(m, t))
    BY <1>3, <1>15, <2>1 DEF Shows, InFlightTo
  <2>3. ~Shows(m, t) => mail[d][t] <= forgotten[d]
    BY <2>1 DEF LedgerInv, RowsInv
  <2>4. QED
    BY <1>14, <2>1, <2>2, <2>3
<1>16. ASSUME NEW d \in Contacts \ HasRow, NEW t \in Steps, ~InFlightTo(d, t)'
       PROVE  mail'[d][t] <= forgotten'[d]
  BY <1>14, <1>16 DEF LedgerInv, RowsInv
<1>17. RowsInv'
  BY <1>3, <1>7, <1>13, <1>15, <1>16 DEF LedgerInv, RowsInv, AudienceIsDeduplicated
<1>18. ASSUME NEW v \in Workers, task[v] # Null, task[v].lead \notin Rows
       PROVE  TaskForgotten(v)'
  <2>1. TaskForgotten(v) /\ task[v].contact \in Contacts
    BY <1>18, TaskRow DEF LedgerInv, HandInv, TaskKnown
  <2>2. CASE v # w
    <3>1. pc'[v] = pc[v] /\ task[v].contact # c
      BY <1>3, <1>6, <1>18, <2>2 DEF Procs
    <3>2. QED
      BY <1>3, <1>8, <1>9, <2>1, <3>1 DEF TaskForgotten
  <2>3. CASE v = w
    <3>1. task'[v].contact = c /\ task'[v].step = s
      BY <1>3, <2>3 DEF c, s
    <3>2. CASE acked
      <4>1. \A t \in Steps : t # s => mail[c][t] <= forgotten[c]
        BY <1>3, <2>1, <2>3 DEF TaskForgotten, c, s
      <4>2. \A t \in Steps : t # s => mail'[c][t] <= forgotten'[c]
        BY <1>2, <1>8, <1>9, <4>1
      <4>3. pc'[v] = "log"
        BY <1>3, <2>3, <3>2
      <4>4. QED
        BY <3>1, <4>2, <4>3 DEF TaskForgotten
    <3>3. CASE ~acked
      BY <1>11, <3>1, <3>3 DEF TaskForgotten
    <3>4. QED
      BY <3>2, <3>3
  <2>4. QED
    BY <2>2, <2>3
<1>19. HandInv'
  BY <1>3, <1>7, <1>18 DEF LedgerInv, HandInv, BatchWaits, TaskKnown, TaskMatches
<1>20. PlanInv'
  BY <1>3, <1>7 DEF LedgerInv, PlanInv, PlanFits
<1>21. QED
  BY <1>17, <1>19, <1>20 DEF LedgerInv

\* The worker is done with a lead: it moved on, or was settled or failed.
LEMMA DoneKeepsLedger ==
  ASSUME TypeOK, TypeOK', ContactsApart, LedgerInv, NEW w \in Workers,
         Settle(w) \/ Finish(w) \/ FailLead(w)
  PROVE  LedgerInv'
<1> DEFINE l == task[w].lead
<1>1. /\ Advance(w) /\ pc[w] \in Holding /\ l \in Rows /\ UNCHANGED <<mail, forgotten>>
  BY DEF Settle, Finish, FailLead, Holding, Working
<1>2. leads[l] \in LeadRow /\ task[w] # Null
  BY <1>1 DEF TypeOK, DatabaseOK, BatchOK
<1>3. /\ leads[l].status = "scheduled" /\ task[w].step = leads[l].step
      /\ leads[l].contact = task[w].contact
  BY <1>1, <1>2, TaskRow DEF LedgerInv
<1>4. CASE Settle(w) \/ FailLead(w)
  <2>1. PICK st \in LeadStatus : leads' = [leads EXCEPT ![l] = [leads[l] EXCEPT !.status = st]]
    BY <1>4 DEF Settle, FailLead, LeadStatus
  <2> DEFINE row == [leads[l] EXCEPT !.status = st]
  <2>2. row.contact = leads[l].contact /\ row.step = leads[l].step
    BY <1>2 DEF LeadRow
  <2>3. \A s \in Steps : Shows(l, s) => s < row.step
    <3>1. pc[w] \notin {"log", "finish"}
      BY <1>4 DEF Settle, FailLead
    <3>2. \A s \in Steps : ~InFlightTo(leads[l].contact, s)
      BY <1>2, <1>3, <3>1, NoneInFlight
    <3>3. QED
      BY <1>3, <2>2, <3>2 DEF Shows
  <2> HIDE DEF row
  <2>4. leads' = [leads EXCEPT ![l] = row]
    BY <2>1 DEF row
  <2>5. QED
    BY <1>1, <2>2, <2>3, <2>4, AdvancingKeepsLedger
<1>5. CASE Finish(w)
  <2> DEFINE row == Progressed(l)
             next == CHOOSE s \in NextSteps(l) : \A t \in NextSteps(l) : s <= t
  <2>1. leads' = [leads EXCEPT ![l] = row]
    BY <1>5 DEF Finish
  <2>2. sequence \subseteq Steps /\ Steps \subseteq Nat
    BY DispatchAssumption DEF TypeOK, DatabaseOK, Steps
  <2>3. NextSteps(l) # {} => next \in Nat /\ next > leads[l].step
    <3>1. NextSteps(l) # {} => \E s \in NextSteps(l) : \A t \in NextSteps(l) : s <= t
      BY <2>2, LeastElement DEF NextSteps
    <3>2. NextSteps(l) # {} => next \in NextSteps(l)
      BY <3>1
    <3>3. QED
      BY <2>2, <3>2 DEF NextSteps
  <2>4. row = IF NextSteps(l) = {}
              THEN [leads[l] EXCEPT !.status = "sent", !.due = TRUE]
              ELSE [leads[l] EXCEPT !.status = "scheduled", !.due = FALSE, !.step = next]
    BY DEF Progressed
  <2> HIDE DEF next, row
  <2>5. row.contact = leads[l].contact
    BY <1>2, <2>4 DEF LeadRow
  <2>6. row.status = "sent" \/ (row.step \in Nat /\ row.step > leads[l].step)
    BY <1>2, <2>3, <2>4 DEF LeadRow
  <2>7. leads[l].step \in Nat
    BY <1>2, <2>2 DEF LeadRow
  <2> HIDE DEF l
  <2>8. ASSUME NEW s \in Steps, Shows(l, s)
        PROVE  s < row.step \/ row.status = "sent"
    <3>1. s < leads[l].step \/ s = leads[l].step
      <4>1. InFlightTo(leads[l].contact, s) => s = leads[l].step
        BY <1>2, <1>3, NoneInFlight
      <4>2. QED
        BY <1>3, <2>8, <4>1 DEF Shows
    <3>2. s \in Nat
      BY <2>2
    <3>3. QED
      BY <2>6, <2>7, <3>1, <3>2
  <2>9. /\ task[w].lead \in Rows /\ leads' = [leads EXCEPT ![task[w].lead] = row]
        /\ row.contact = leads[task[w].lead].contact
        /\ \A s \in Steps : Shows(task[w].lead, s) => s < row.step \/ row.status = "sent"
    BY <1>1, <2>1, <2>5, <2>8 DEF l
  <2>10. QED
    BY <1>1, <2>9, AdvancingKeepsLedger
<1>6. QED
  BY <1>4, <1>5

\* A pause of the next step ends.
LEMMA DueKeepsLedger ==
  ASSUME TypeOK, TypeOK', LedgerInv, NEW k \in Leads, StepDue(k)
  PROVE  LedgerInv'
<1>1. /\ k \in Rows /\ leads' = [leads EXCEPT ![k] = [leads[k] EXCEPT !.due = TRUE]]
      /\ UNCHANGED <<mail, forgotten, pc, plan, batch, task>>
  BY DEF StepDue, session, history
<1>2. ASSUME NEW l \in Rows
      PROVE  /\ leads'[l].contact = leads[l].contact /\ leads'[l].step = leads[l].step
             /\ leads'[l].status = leads[l].status
  <2>1. leads[l] \in LeadRow
    BY DEF TypeOK, DatabaseOK
  <2>2. leads'[l] = IF l = k THEN [leads[l] EXCEPT !.due = TRUE] ELSE leads[l]
    BY <1>1 DEF Rows
  <2>3. QED
    BY <2>1, <2>2 DEF LeadRow
<1>3. Rows' = Rows /\ HasRow' = HasRow
  <2>1. Rows' = Rows
    BY <1>1 DEF Rows
  <2>2. QED
    BY <1>2, <2>1 DEF HasRow
<1>4. \A c, s : InFlightTo(c, s) => InFlightTo(c, s)'
  BY <1>1 DEF InFlightTo
<1>5. \A l \in Rows, s \in Steps : Shows(l, s) => Shows(l, s)'
  BY <1>2, <1>4 DEF Shows
<1>6. \A c \in Contacts : forgotten[c] <= forgotten'[c]
  BY <1>1 DEF TypeOK, HistoryOK
<1>7. RowsInv'
  BY <1>1, <1>2, <1>3, <1>4, <1>5, <1>6, RowsStay DEF LedgerInv
<1>8. ASSUME NEW w \in Workers
      PROVE  BatchWaits(w)' /\ TaskKnown(w)'
  BY <1>1, <1>2, <1>3, <1>6, HandStays DEF LedgerInv, HandInv
<1>9. PlanInv'
  BY <1>1, <1>2, <1>3 DEF LedgerInv, PlanInv, PlanFits
<1>10. QED
  BY <1>7, <1>8, <1>9 DEF LedgerInv, HandInv

LEMMA LedgerStep ==
  ASSUME TypeOK, TypeOK', SyncsTakeTurns, ContactsApart, LedgerInv, [Next]_vars
  PROVE  LedgerInv'
<1>1. ASSUME UNCHANGED <<leads, mail, forgotten, batch, plan, pc, task>>
      PROVE  LedgerInv'
  BY <1>1, QuietKeepsLedger
<1>2. ASSUME NEW p \in Procs, pc[p] \in {"idle", "sync", "admit", "send"},
             NEW s \in {"sync", "select", "admit", "idle", "fail", "activate"},
             pc' = [pc EXCEPT ![p] = s],
             UNCHANGED <<leads, mail, forgotten, batch, plan, task>>
      PROVE  LedgerInv'
  <2>1. \A q \in Procs : /\ pc[q] \in {"log", "finish"} => pc'[q] \in {"log", "finish"}
                         /\ pc'[q] = "syncing" => pc[q] = "syncing"
    BY <1>2 DEF TypeOK, SessionOK
  <2>2. QED
    BY <1>2, <2>1, QuietKeepsLedger DEF Procs
<1>3. ASSUME NEW p \in Procs, Sync(p) \/ Crash(p)
      PROVE  LedgerInv'
  <2>1. CASE SyncSkip(p)
    <3>1. AfterSync(p) \in {"select", "admit", "idle"}
      BY DEF AfterSync
    <3>2. QED
      BY <1>2, <2>1, <3>1 DEF SyncSkip, database, history
  <2>2. CASE SyncRead(p)
    BY <2>2, ReadKeepsLedger
  <2>3. CASE SyncCommit(p)
    BY <2>3, CommitKeepsLedger
  <2>4. CASE SyncStale(p)
    BY <2>4, QuietClosing DEF SyncStale, database
  <2>5. CASE Crash(p)
    BY <2>5, ClosingKeepsLedger DEF Crash, database
  <2>6. QED
    BY <1>3, <2>1, <2>2, <2>3, <2>4, <2>5 DEF Sync
<1>4. ASSUME NEW w \in Workers, BeginCycle(w) \/ CycleStep(w) \/ Send(w)
      PROVE  LedgerInv'
  <2>1. CASE BeginCycle(w) \/ SendFails(w)
    BY <1>2, <2>1 DEF BeginCycle, SendFails, database, history, Procs
  <2>2. CASE Select(w)
    <3>1. PICK S \in Picks(DailyLimit - sentToday) : \E l \in {m \in S : Eligible(m)} :
                 /\ batch' = [batch EXCEPT ![w] = {m \in S : Eligible(m)}]
                 /\ Look(w, l)
      BY <2>2 DEF Select
    <3>2. PICK l \in {m \in S : Eligible(m)} :
            batch' = [batch EXCEPT ![w] = {m \in S : Eligible(m)}] /\ Look(w, l)
      BY <3>1
    <3>3. \A m \in S : m \in Rows /\ leads[m].status = "scheduled"
      BY DEF Picks, Pending
    <3>4. batch'[w] \subseteq S /\ \A v \in Workers : v # w => batch'[v] = batch[v]
      BY <3>2 DEF TypeOK, SessionOK
    <3>5. UNCHANGED <<leads, mail, forgotten, plan>> /\ pc[w] = "select"
      BY <2>2 DEF Select, database
    <3>6. QED
      BY <3>2, <3>3, <3>4, <3>5, LookKeepsLedger
  <2>3. CASE Take(w)
    <3>1. PICK l \in batch[w] \cap Rows : Look(w, l)
      BY <2>3 DEF Take
    <3>2. UNCHANGED <<leads, mail, forgotten, plan, batch>> /\ pc[w] = "next"
      BY <2>3 DEF Take, database
    <3>3. \A m \in batch'[w] \cap Rows : leads[m].status = "scheduled"
      BY <3>2 DEF LedgerInv, HandInv, BatchWaits
    <3>4. QED
      BY <3>1, <3>2, <3>3, LookKeepsLedger
  <2>4. CASE SelectNothing(w)
    BY <2>4, QuietClosing DEF SelectNothing, database, Procs
  <2>5. CASE RowGone(w)
    BY <2>5, ClosingKeepsLedger DEF RowGone, database, Procs
  <2>6. CASE Settle(w) \/ Finish(w) \/ FailLead(w)
    BY <2>6, DoneKeepsLedger
  <2>7. CASE Deliver(w, TRUE) \/ Deliver(w, FALSE)
    BY <2>7, DeliveryKeepsLedger
  <2>8. CASE LogSend(w)
    <3>1. task[w] \in Task /\ task[w] # Null
      BY <2>8 DEF LogSend, TypeOK, SessionOK, BatchOK, Holding, Working
    <3>2. ASSUME NEW v \in Workers
          PROVE  /\ task'[v] # Null => /\ task[v] # Null /\ task'[v].lead = task[v].lead
                                       /\ task'[v].contact = task[v].contact
                                       /\ task'[v].step = task[v].step
                 /\ pc[v] \in {"log", "finish"} => pc'[v] \in {"log", "finish"}
      BY <2>8, <3>1 DEF LogSend, TypeOK, SessionOK, Task, Procs
    <3>3. \A p \in Procs : pc'[p] = "syncing" => pc[p] = "syncing"
      BY <2>8 DEF LogSend, TypeOK, SessionOK
    <3>4. UNCHANGED <<leads, mail, forgotten, batch, plan>>
      BY <2>8 DEF LogSend, database, history
    <3>5. QED
      BY <3>2, <3>3, <3>4, QuietKeepsLedger
  <2>9. QED
    BY <1>3, <1>4, <2>1, <2>2, <2>3, <2>4, <2>5, <2>6, <2>7, <2>8 DEF CycleStep, Send, Procs
<1>5. ASSUME NEW k \in Clients, ClientStep(k) \/ ClientRequest(k)
      PROVE  LedgerInv'
  <2>1. CASE Refuse(k) \/ Activate(k)
    <3>1. k \in Procs /\ pc[k] \notin {"log", "finish"}
      BY <2>1 DEF Refuse, Activate, Procs
    <3>2. CloseSession(k) /\ UNCHANGED <<leads, mail, forgotten>>
      BY <2>1 DEF Refuse, Activate, database
    <3>3. QED
      BY <3>1, <3>2, QuietClosing
  <2>2. CASE Admit(k)
    BY <1>2, <2>2 DEF Admit, database, history, Procs
  <2>3. CASE ClientRequest(k)
    BY <1>2, <2>3 DEF ClientRequest, AddMember, RemoveMember, AttachList, DetachList, DeleteList,
                      DryRun, Start, Request, history, Procs
  <2>4. QED
    BY <1>3, <1>5, <2>1, <2>2, <2>3 DEF ClientStep, Procs
<1>6. ASSUME NEW k \in Leads, StepDue(k)
      PROVE  LedgerInv'
  BY <1>6, DueKeepsLedger
<1>7. CASE NewDay
  <2>1. \A w \in Workers : task[w] # Null => task[w] \in Task
    BY DEF TypeOK, SessionOK
  <2>2. \A w \in Workers :
          task'[w] # Null => /\ task[w] # Null /\ task'[w].lead = task[w].lead
                             /\ task'[w].contact = task[w].contact /\ task'[w].step = task[w].step
    BY <1>7, <2>1 DEF NewDay, Task
  <2>3. UNCHANGED <<leads, mail, forgotten, batch, plan, pc>>
    BY <1>7 DEF NewDay
  <2>4. QED
    BY <2>2, <2>3, QuietKeepsLedger
<1>8. CASE Operator
  BY <1>1, <1>8 DEF Operator, Block, Unblock, Reply, Pause, Archive, Unarchive, SetStatus,
                    ReplaceSequence, session, history
<1>9. CASE UNCHANGED vars
  BY <1>1, <1>9 DEF vars, database, session, history
<1>10. QED
  BY <1>3, <1>4, <1>5, <1>6, <1>7, <1>8, <1>9 DEF Next

LEMMA InitLedger == Init => LedgerInv
<1> SUFFICES ASSUME Init
             PROVE  LedgerInv
  OBVIOUS
<1>1. \A c \in Contacts, s \in Steps : mail[c][s] = 0 /\ forgotten[c] = 0
  BY DEF Init
<1>2. ASSUME NEW l \in Rows, NEW m \in Rows, leads[l].contact = leads[m].contact
      PROVE  l = m
  <2>1. PICK keys \in [Contacts -> Leads] :
          /\ \A c, d \in Contacts : keys[c] = keys[d] => c = d
          /\ leads = [k \in {keys[c] : c \in Contacts} |->
                        NewLead(CHOOSE c \in Contacts : keys[c] = k)]
    <3>1. leads # [k \in {} |-> Null]
      BY DEF Rows
    <3>2. QED
      BY <3>1 DEF Init
  <2>2. ASSUME NEW k \in Rows
        PROVE  leads[k].contact \in Contacts /\ keys[leads[k].contact] = k
    <3>1. leads[k].contact = CHOOSE c \in Contacts : keys[c] = k
      BY <2>1 DEF NewLead, Rows
    <3>2. \E c \in Contacts : keys[c] = k
      BY <2>1 DEF Rows
    <3>3. QED
      BY <3>1, <3>2
  <2>3. QED
    BY <1>2, <2>2
<1>3. \A l \in Rows : leads[l].contact \in Contacts
  BY InitTypeOK DEF TypeOK, DatabaseOK, LeadRow
<1>4. RowsInv
  BY <1>1, <1>2, <1>3, DispatchAssumption DEF RowsInv, Accounted, AudienceIsDeduplicated
<1>5. HandInv /\ PlanInv
  BY DEF Init, HandInv, BatchWaits, TaskKnown, PlanInv, PlanFits
<1>6. QED
  BY <1>4, <1>5 DEF LedgerInv

\* While syncs take turns and no two workers are about the same contact, a
\* contact gets a step twice only when the rows lost a delivery to it: a crash
\* between the send and the commit, an acknowledgement that never came, or a sync
\* that deleted the row.  Requests come and go beside the workers, and the
\* operator may edit the sequence, block, unblock and pause at any time.
THEOREM DuplicatesExplainedApart ==
  Spec /\ []SyncsTakeTurns /\ []ContactsApart => []DuplicatesAreExplained
<1>1. TypeOK /\ TypeOK' /\ SyncsTakeTurns /\ ContactsApart /\ LedgerInv /\ [Next]_vars => LedgerInv'
  BY LedgerStep
<1>2. LedgerInv => DuplicatesAreExplained
  BY DEF LedgerInv, RowsInv, Accounted, DuplicatesAreExplained
<1>3. QED
  BY <1>1, <1>2, InitLedger, TypeCorrect, PTL DEF Spec

\* One worker process, no request beside it.
Alone == SoleWorker /\ Clients = {}

\* A worker that is alone has its syncs and its recipients for itself.
THEOREM DuplicatesExplained ==
  ASSUME Alone
  PROVE  Spec => []DuplicatesAreExplained
<1>1. SyncsTakeTurns /\ ContactsApart
  BY NobodyElseSyncs, SoleWorkerIsApart DEF Alone
<1>2. QED
  BY <1>1, DuplicatesExplainedApart, PTL
-----------------------------------------------------------------------------
(* The audience: what a lock around the sync would give.                   *)

\* The actions that write to the leads.
Writes(w) == Settle(w) \/ Finish(w) \/ FailLead(w)

LEMMA LeadsWritten ==
  ASSUME [Next]_vars
  PROVE  \/ UNCHANGED leads
         \/ \E p \in Procs : SyncCommit(p)
         \/ \E w \in Workers : Writes(w)
         \/ \E l \in Leads : StepDue(l)
<1>1. ASSUME NEW p \in Procs, Sync(p) \/ Crash(p)
      PROVE  SyncCommit(p) \/ UNCHANGED leads
  BY <1>1 DEF Sync, SyncSkip, SyncRead, SyncStale, Crash, database
<1>2. ASSUME NEW w \in Workers, BeginCycle(w) \/ CycleStep(w) \/ Send(w)
      PROVE  SyncCommit(w) \/ Writes(w) \/ UNCHANGED leads
  BY <1>1, <1>2 DEF BeginCycle, CycleStep, Select, SelectNothing, Take, RowGone, LogSend, Send, Deliver,
                    SendFails, Writes, database, Procs
<1>3. ASSUME NEW k \in Clients, ClientStep(k) \/ ClientRequest(k)
      PROVE  SyncCommit(k) \/ UNCHANGED leads
  BY <1>1, <1>3 DEF ClientStep, Admit, Refuse, Activate, ClientRequest, AddMember, RemoveMember,
                    AttachList, DetachList, DeleteList, DryRun, Start, Request, database, Procs
<1>4. Operator \/ NewDay \/ UNCHANGED vars => UNCHANGED leads
  BY DEF Operator, Block, Unblock, Reply, Pause, Archive, Unarchive, SetStatus, ReplaceSequence,
         NewDay, vars, database
<1>5. QED
  BY <1>1, <1>2, <1>3, <1>4 DEF Next, Procs

\* Only the commit of a sync adds or drops rows.
LEMMA KeysWritten ==
  ASSUME TypeOK, [Next]_vars, \A p \in Procs : ~SyncCommit(p)
  PROVE  Rows' = Rows /\ HasRow' = HasRow
<1>1. Rows' = Rows
  <2>1. \A w \in Workers : Writes(w) => Rows' = Rows
    BY DEF Writes, Settle, Finish, FailLead, Rows
  <2>2. \A l \in Leads : StepDue(l) => Rows' = Rows
    BY DEF StepDue, Rows
  <2>3. QED
    BY <2>1, <2>2, LeadsWritten DEF Rows
<1>2. \A l \in Rows : leads'[l].contact = leads[l].contact
  BY <1>1, StepNeverGoesBack
<1>3. QED
  BY <1>1, <1>2 DEF HasRow

\* A plan under way is the one the sync read.
LEMMA PlanUnderWay ==
  ASSUME TypeOK, [Next]_vars, NEW p \in Procs, ~SyncRead(p), pc'[p] = "syncing"
  PROVE  pc[p] = "syncing" /\ plan'[p] = plan[p]
<1> DEFINE Same == pc[p] = "syncing" /\ plan'[p] = plan[p]
<1>1. ASSUME NEW q \in Procs, CloseSession(q)
      PROVE  Same
  BY <1>1 DEF CloseSession, TypeOK, SessionOK
<1>2. ASSUME NEW q \in Procs, NEW s, s # "syncing", pc' = [pc EXCEPT ![q] = s],
             plan' = plan \/ plan' = [plan EXCEPT ![q] = NoPlan]
      PROVE  Same
  BY <1>2 DEF TypeOK, SessionOK
<1>3. ASSUME NEW q \in Procs, Sync(q) \/ Crash(q)
      PROVE  Same
  <2>1. AfterSync(q) # "syncing"
    BY DEF AfterSync
  <2>2. CASE SyncRead(q)
    BY <2>2 DEF SyncRead, TypeOK, SessionOK
  <2>3. QED
    BY <1>1, <1>2, <1>3, <2>1, <2>2 DEF Sync, SyncSkip, SyncCommit, SyncStale, Crash
<1>4. ASSUME NEW w \in Workers, Advance(w)
      PROVE  Same
  <2>1. CASE CloseSession(w)
    BY <1>1, <2>1 DEF Procs
  <2>2. CASE ~CloseSession(w)
    BY <1>2, <1>4, <2>2 DEF Advance, Procs
  <2>3. QED
    BY <2>1, <2>2
<1>5. ASSUME NEW w \in Workers, BeginCycle(w) \/ CycleStep(w) \/ Send(w)
      PROVE  Same
  <2>1. CASE Select(w) \/ Take(w)
    <3>1. PICK l : Look(w, l)
      BY <2>1 DEF Select, Take
    <3>2. Verdict(l) # "syncing"
      BY DEF Verdict
    <3>3. QED
      BY <1>2, <2>1, <3>1, <3>2 DEF Select, Take, Look, Procs
  <2>2. CASE SelectNothing(w) \/ RowGone(w)
    BY <1>1, <2>2 DEF SelectNothing, RowGone, Procs
  <2>3. CASE Settle(w) \/ Finish(w) \/ FailLead(w)
    BY <1>4, <2>3 DEF Settle, Finish, FailLead
  <2>4. CASE BeginCycle(w) \/ LogSend(w) \/ SendFails(w)
    BY <1>2, <2>4 DEF BeginCycle, LogSend, SendFails, Procs
  <2>5. ASSUME NEW acked \in BOOLEAN, Deliver(w, acked)
        PROVE  Same
    BY <1>2, <2>5 DEF Deliver, Procs
  <2>6. QED
    BY <1>3, <1>5, <2>1, <2>2, <2>3, <2>4, <2>5 DEF CycleStep, Send, Procs
<1>6. ASSUME NEW k \in Clients, ClientStep(k) \/ ClientRequest(k)
      PROVE  Same
  <2>1. CASE Refuse(k) \/ Activate(k)
    BY <1>1, <2>1 DEF Refuse, Activate, Procs
  <2>2. CASE Admit(k) \/ ClientRequest(k)
    BY <1>2, <2>2 DEF Admit, ClientRequest, AddMember, RemoveMember, AttachList, DetachList,
                      DeleteList, DryRun, Start, Request, Procs
  <2>3. QED
    BY <1>3, <1>6, <2>1, <2>2 DEF ClientStep, Procs
<1>7. Operator \/ NewDay \/ (\E l \in Leads : StepDue(l)) \/ UNCHANGED vars => UNCHANGED <<pc, plan>>
  BY DEF Operator, Block, Unblock, Reply, Pause, Archive, Unarchive, SetStatus, ReplaceSequence,
         NewDay, StepDue, vars, session
<1>8. QED
  BY <1>3, <1>5, <1>6, <1>7 DEF Next

\* Nobody gets a second row, now or by a plan under way.
AudienceInv ==
  /\ AudienceIsDeduplicated
  /\ \A p \in Procs : pc[p] = "syncing" => plan[p].add \cap HasRow = {}

LEMMA CommitDeduplicates ==
  ASSUME TypeOK, AudienceInv, NEW p \in Procs, SyncCommit(p)
  PROVE  AudienceIsDeduplicated'
<1>1. PICK keys \in [plan[p].add -> FreshKeys] :
        /\ \A c, d \in plan[p].add : keys[c] = keys[d] => c = d
        /\ leads' = Synced(p, keys)
  BY DEF SyncCommit
<1>2. plan[p].add \cap HasRow = {}
  BY DEF AudienceInv, SyncCommit
<1> DEFINE added == {keys[c] : c \in plan[p].add}
<1>3. Rows' = (Rows \ plan[p].drop) \cup added
  BY <1>1 DEF Rows, Synced
<1>4. ASSUME NEW l \in added
      PROVE  leads'[l].contact \in plan[p].add /\ keys[leads'[l].contact] = l
  <2>1. leads'[l] = NewLead(CHOOSE c \in plan[p].add : keys[c] = l)
    BY <1>1, <1>3 DEF Synced
  <2>2. \E c \in plan[p].add : keys[c] = l
    OBVIOUS
  <2>3. QED
    BY <2>1, <2>2 DEF NewLead
<1>5. ASSUME NEW l \in Rows', l \notin added
      PROVE  l \in Rows /\ leads'[l].contact = leads[l].contact
  <2>1. l \in Rows /\ leads[l] \in LeadRow
    BY <1>3, <1>5 DEF TypeOK, DatabaseOK
  <2>2. leads'[l] = IF l \in plan[p].reset THEN [leads[l] EXCEPT !.status = "scheduled"]
                    ELSE leads[l]
    BY <1>1, <1>3, <1>5 DEF Synced
  <2>3. QED
    BY <2>1, <2>2 DEF LeadRow
<1> HIDE DEF added
<1>6. ASSUME NEW l \in Rows', NEW m \in Rows', leads'[l].contact = leads'[m].contact
      PROVE  l = m
  <2>1. CASE l \in added /\ m \in added
    BY <1>4, <1>6, <2>1
  <2>2. CASE l \notin added /\ m \notin added
    BY <1>5, <1>6, <2>2 DEF AudienceInv, AudienceIsDeduplicated
  <2>3. CASE l \in added <=> m \notin added
    BY <1>2, <1>4, <1>5, <1>6, <2>3 DEF HasRow
  <2>4. QED
    BY <2>1, <2>2, <2>3
<1>7. QED
  BY <1>6 DEF AudienceIsDeduplicated

LEMMA AudienceStep ==
  ASSUME TypeOK, SyncsTakeTurns, AudienceInv, [Next]_vars
  PROVE  AudienceInv'
<1>1. ASSUME NEW p \in Procs, SyncCommit(p)
      PROVE  AudienceInv'
  <2>1. \A q \in Procs : pc'[q] # "syncing"
    BY <1>1 DEF SyncCommit, AfterSync, SyncsTakeTurns, TypeOK, SessionOK
  <2>2. QED
    BY <1>1, <2>1, CommitDeduplicates DEF AudienceInv
<1>2. CASE \A p \in Procs : ~SyncCommit(p)
  <2>1. Rows' = Rows /\ HasRow' = HasRow
    BY <1>2, KeysWritten
  <2>2. \A l \in Rows : leads'[l].contact = leads[l].contact
    BY <2>1, StepNeverGoesBack
  <2>3. AudienceIsDeduplicated'
    BY <2>1, <2>2 DEF AudienceInv, AudienceIsDeduplicated
  <2>4. ASSUME NEW p \in Procs, pc'[p] = "syncing"
        PROVE  plan'[p].add \cap HasRow = {}
    <3>1. CASE SyncRead(p)
      <4>1. PICK e \in ExistingByContact : plan'[p] = PlanFor(e)
        BY <3>1 DEF SyncRead, TypeOK, SessionOK
      <4>2. QED
        BY <4>1 DEF PlanFor
    <3>2. CASE ~SyncRead(p)
      BY <2>4, <3>2, PlanUnderWay DEF AudienceInv
    <3>3. QED
      BY <3>1, <3>2
  <2>5. QED
    BY <2>1, <2>3, <2>4 DEF AudienceInv
<1>3. QED
  BY <1>1, <1>2

\* While syncs take turns, whoever asks for them and whatever the workers do
\* meanwhile, the audience is deduplicated: the duplicate rows come from two
\* syncs at once and from nothing else.
THEOREM AudienceDeduplicatedInTurn == Spec /\ []SyncsTakeTurns => []AudienceIsDeduplicated
<1>1. Init => AudienceInv
  BY InitLedger DEF LedgerInv, RowsInv, PlanInv, PlanFits, AudienceInv
<1>2. TypeOK /\ SyncsTakeTurns /\ AudienceInv /\ [Next]_vars => AudienceInv'
  BY AudienceStep
<1>3. AudienceInv => AudienceIsDeduplicated
  BY DEF AudienceInv
<1>4. QED
  BY <1>1, <1>2, <1>3, TypeCorrect, PTL DEF Spec

\* One worker process, no request beside it: nobody else synchronises.
THEOREM AudienceDeduplicatedAlone ==
  ASSUME Alone
  PROVE  Spec => []AudienceIsDeduplicated
<1>1. SyncsTakeTurns
  BY NobodyElseSyncs DEF Alone
<1>2. QED
  BY <1>1, AudienceDeduplicatedInTurn, PTL
-----------------------------------------------------------------------------
(* A finished lead stays finished.                                         *)

\* What it takes besides: a sync that drops no lead a worker has in its batch.
DropsApart ==
  \A p \in Procs, w \in Workers : pc[p] = "syncing" => batch[w] \cap plan[p].drop = {}

\* A plan under way drops leads that are still to be mailed.
DropInv ==
  \A p \in Procs : pc[p] = "syncing" => \A l \in plan[p].drop \cap Rows : leads[l].status = "scheduled"

\* The status of a lead that no worker has in hand changes in a sync only.
LEMMA StatusStays ==
  ASSUME TypeOK, [Next]_vars, \A p \in Procs : ~SyncCommit(p), NEW l \in Rows,
         \A w \in Workers : task[w] # Null => task[w].lead # l
  PROVE  l \in Rows' /\ leads'[l].status = leads[l].status
<1>1. l \in Rows'
  BY KeysWritten
<1>2. CASE UNCHANGED leads
  BY <1>1, <1>2
<1>3. ASSUME NEW w \in Workers, Writes(w)
      PROVE  leads'[l] = leads[l]
  <2>1. task[w] # Null
    BY <1>3 DEF Writes, Settle, Finish, FailLead, TypeOK, BatchOK, Holding, Working
  <2>2. task[w].lead # l
    BY <2>1
  <2>3. \E row : leads' = [leads EXCEPT ![task[w].lead] = row]
    BY <1>3 DEF Writes, Settle, Finish, FailLead
  <2>4. QED
    BY <2>2, <2>3 DEF Rows
<1>4. ASSUME NEW k \in Leads, StepDue(k)
      PROVE  leads'[l].status = leads[l].status
  <2>1. leads' = [leads EXCEPT ![k] = [leads[k] EXCEPT !.due = TRUE]]
    BY <1>4 DEF StepDue
  <2>2. leads[l] \in LeadRow
    BY DEF TypeOK, DatabaseOK
  <2>3. QED
    BY <2>1, <2>2 DEF Rows, LeadRow
<1>5. QED
  BY <1>1, <1>2, <1>3, <1>4, LeadsWritten

LEMMA DropStep ==
  ASSUME TypeOK, SyncsTakeTurns, DropsApart, DropInv, [Next]_vars
  PROVE  DropInv'
<1>1. ASSUME NEW p \in Procs, SyncCommit(p)
      PROVE  DropInv'
  <2>1. \A q \in Procs : pc'[q] # "syncing"
    BY <1>1 DEF SyncCommit, AfterSync, SyncsTakeTurns, TypeOK, SessionOK
  <2>2. QED
    BY <2>1 DEF DropInv
<1>2. ASSUME \A q \in Procs : ~SyncCommit(q), NEW p \in Procs, pc'[p] = "syncing",
             NEW l \in plan'[p].drop \cap Rows'
      PROVE  leads'[l].status = "scheduled"
  <2>1. l \in Rows
    BY <1>2, KeysWritten
  <2>2. CASE SyncRead(p)
    <3>1. PICK e \in ExistingByContact : plan'[p] = PlanFor(e)
      BY <2>2 DEF SyncRead, TypeOK, SessionOK
    <3>2. leads[l].status = "scheduled"
      BY <1>2, <3>1 DEF PlanFor
    <3>3. QED
      BY <2>2, <3>2 DEF SyncRead, database
  <2>3. CASE ~SyncRead(p)
    <3>1. pc[p] = "syncing" /\ plan'[p] = plan[p]
      BY <1>2, <2>3, PlanUnderWay
    <3>2. leads[l].status = "scheduled"
      BY <1>2, <2>1, <3>1 DEF DropInv
    <3>3. \A w \in Workers : task[w] # Null => task[w].lead # l
      BY <1>2, <3>1 DEF DropsApart, TypeOK, BatchOK
    <3>4. QED
      BY <1>2, <2>1, <3>2, <3>3, StatusStays
  <2>4. QED
    BY <2>2, <2>3
<1>3. QED
  BY <1>1, <1>2 DEF DropInv

\* A sync drops scheduled leads and resets failed ones; the lead in a worker's
\* hand is scheduled.
LEMMA FinishedStep ==
  ASSUME TypeOK, LedgerInv, DropInv, [Next]_vars
  PROVE  FinishedLeadsStay
<1> SUFFICES ASSUME NEW l \in Rows, leads[l].status \in {"sent", "replied"}
             PROVE  l \in Rows' /\ leads'[l].status = leads[l].status
  BY DEF FinishedLeadsStay
<1>1. ASSUME NEW p \in Procs, SyncCommit(p)
      PROVE  l \in Rows' /\ leads'[l].status = leads[l].status
  <2>1. PICK keys \in [plan[p].add -> FreshKeys] : leads' = Synced(p, keys)
    BY <1>1 DEF SyncCommit
  <2>2. l \notin plan[p].drop /\ l \notin plan[p].reset
    BY <1>1 DEF LedgerInv, PlanInv, PlanFits, DropInv, SyncCommit
  <2>3. \A c \in plan[p].add : keys[c] # l
    BY DEF FreshKeys
  <2>4. QED
    BY <2>1, <2>2, <2>3 DEF Synced, Rows
<1>2. CASE \A p \in Procs : ~SyncCommit(p)
  <2>1. \A w \in Workers : task[w] # Null => task[w].lead # l
    BY TaskRow DEF LedgerInv
  <2>2. QED
    BY <1>2, <2>1, StatusStays
<1>3. QED
  BY <1>1, <1>2

\* While syncs take turns and neither another worker nor a sync touches a lead
\* that a worker has, a lead that was sent its last step, or whose recipient
\* replied, is neither dropped nor scheduled again.
THEOREM FinishedLeadsStayFinishedApart ==
  Spec /\ []SyncsTakeTurns /\ []ContactsApart /\ []DropsApart => FinishedStaysFinished
<1>1. TypeOK /\ TypeOK' /\ SyncsTakeTurns /\ ContactsApart /\ LedgerInv /\ [Next]_vars => LedgerInv'
  BY LedgerStep
<1>2. TypeOK /\ SyncsTakeTurns /\ DropsApart /\ DropInv /\ [Next]_vars => DropInv'
  BY DropStep
<1>3. Init => DropInv
  BY DEF Init, DropInv
<1>4. TypeOK /\ LedgerInv /\ DropInv /\ [Next]_vars => [FinishedLeadsStay]_vars
  BY FinishedStep
<1>5. QED
  BY <1>1, <1>2, <1>3, <1>4, InitLedger, TypeCorrect, PTL DEF Spec, FinishedStaysFinished

\* A worker that synchronises has no batch; with one worker process, and no
\* request beside it, that is all that ever synchronises.
THEOREM FinishedLeadsStayFinished ==
  ASSUME Alone
  PROVE  Spec => FinishedStaysFinished
<1>1. SyncsTakeTurns /\ ContactsApart
  BY NobodyElseSyncs, SoleWorkerIsApart DEF Alone
<1>2. TypeOK => DropsApart
  BY DEF DropsApart, TypeOK, BatchOK, Working, Alone, SoleWorker, Procs
<1>3. QED
  BY <1>1, <1>2, TypeCorrect, FinishedLeadsStayFinishedApart, PTL
-----------------------------------------------------------------------------
(* Workers that keep apart implement the abstract outreach.                *)

\* A mail on its way into the rows was delivered.
FlightInv ==
  \A w \in Workers : pc[w] \in {"log", "finish"} => mail[task[w].contact][task[w].step] > 0

LEMMA FlightStep ==
  ASSUME TypeOK, TypeOK', FlightInv, MaxMail > 0, [Next]_vars
  PROVE  FlightInv'
<1> SUFFICES ASSUME NEW w \in Workers, pc'[w] \in {"log", "finish"}
             PROVE  mail'[task'[w].contact][task'[w].step] > 0
  BY DEF FlightInv
<1>1. task'[w] # Null /\ task'[w] \in Task
  BY DEF TypeOK, SessionOK, BatchOK, Holding, Working
<1>2. task'[w].contact \in Contacts /\ task'[w].step \in Steps
  BY <1>1 DEF Task
<1>3. CASE Select(w) \/ Take(w)
  <2>1. PICK l \in Rows : Look(w, l)
    BY <1>3 DEF Select, Take, Picks, Pending
  <2>2. pc'[w] \in {"skip", "halt", "send"}
    BY <2>1 DEF Look, Verdict, TypeOK, SessionOK, Procs
  <2>3. QED
    BY <2>2
<1>4. CASE Deliver(w, TRUE)
  <2>1. task' = task
    BY <1>4 DEF Deliver
  <2>2. mail'[task[w].contact][task[w].step] = Count(mail[task[w].contact][task[w].step])
    BY <1>2, <1>4, <2>1, DeliveryCounts
  <2>3. mail[task[w].contact][task[w].step] \in Nat
    BY <1>2, <2>1 DEF TypeOK, HistoryOK
  <2>4. QED
    BY <2>1, <2>2, <2>3 DEF Count
<1>5. CASE ~Select(w) /\ ~Take(w) /\ ~Deliver(w, TRUE)
  <2>1. /\ task'[w].contact = task[w].contact /\ task'[w].step = task[w].step
        /\ pc[w] \in {"log", "finish"}
    BY <1>1, <1>5, StepKeepsTask DEF SameTask
  <2>2. mail[task[w].contact][task[w].step] > 0
    BY <2>1 DEF FlightInv
  <2>3. QED
    BY <1>2, <2>1, <2>2, MailGrows
<1>6. QED
  BY <1>3, <1>4, <1>5

\* What a worker mails is due, and prepared where the sequence is fixed.
LEMMA DeliveryIsOutreach ==
  ASSUME TypeOK, ContactsApart, LedgerInv, OneSequence => StepInv, NEW w \in Workers,
         NEW acked \in BOOLEAN, Deliver(w, acked)
  PROVE  Outreach!Next
<1> DEFINE c == task[w].contact
           s == task[w].step
<1>1. task[w] # Null /\ task[w] \in Task
  BY DeliveryCounts
<1>2. c \in Contacts /\ s \in Steps
  BY <1>1 DEF Task
<1>3. /\ mail' = [mail EXCEPT ![c][s] = Count(@)] /\ UNCHANGED sequence /\ pc[w] = "send"
      /\ Forget(IF acked THEN {} ELSE {c})
  BY DEF Deliver, database
<1>4. \A t \in Steps : t >= s => mail[c][t] <= forgotten[c]
  BY <1>3, SendIsNew
<1>5. ASSUME \A q \in Sequences : q = sequence, NEW t \in sequence, t < s
      PROVE  mail[c][t] > 0
  BY <1>1, <1>5 DEF OneSequence, StepInv, InStep
<1> HIDE DEF c, s
<1>6. Outreach!Due(c, s) /\ ((\A q \in Sequences : q = sequence) => Outreach!Prepared(c, s))
  BY <1>4, <1>5 DEF Outreach!Due, Outreach!Prepared
<1>7. mail' = [mail EXCEPT ![c][s] = Outreach!Count(@)]
  BY <1>3 DEF Count, Outreach!Count
<1>8. \E C \in {{}, {c}} : Outreach!Losing(C)
  BY <1>3 DEF Forget, Count, Outreach!Losing, Outreach!Count
<1>9. Outreach!Deliver(c, s)
  BY <1>3, <1>6, <1>7, <1>8 DEF Outreach!Deliver
<1>10. QED
  BY <1>2, <1>9 DEF Outreach!Next

\* What the rows lose was delivered.
LEMMA ForgettingIsOutreach ==
  ASSUME TypeOK, NEW C \in SUBSET Contacts, \A c \in C : Mailed(c), Forget(C),
         UNCHANGED <<sequence, mail>>
  PROVE  Outreach!Next
<1>1. Outreach!Losing(C)
  BY DEF Forget, Count, Outreach!Losing, Outreach!Count
<1>2. QED
  BY <1>1 DEF Outreach!Next, Outreach!Lose, Mailed

LEMMA InFlightIsMailed ==
  ASSUME TypeOK, FlightInv, NEW p \in Procs
  PROVE  InFlight(p) \in SUBSET Contacts /\ \A c \in InFlight(p) : Mailed(c)
<1>1. CASE p \in Workers /\ pc[p] \in {"log", "finish"}
  <2>1. task[p] # Null /\ task[p] \in Task
    BY <1>1 DEF TypeOK, SessionOK, BatchOK, Holding, Working
  <2>2. task[p].contact \in Contacts /\ task[p].step \in Steps
    BY <2>1 DEF Task
  <2>3. QED
    BY <1>1, <2>2 DEF InFlight, FlightInv, Mailed
<1>2. CASE ~(p \in Workers /\ pc[p] \in {"log", "finish"})
  BY <1>2 DEF InFlight
<1>3. QED
  BY <1>1, <1>2

LEMMA StepImplementsOutreach ==
  ASSUME TypeOK, ContactsApart, LedgerInv, OneSequence => StepInv, FlightInv, [Next]_vars
  PROVE  [Outreach!Next]_Outreach!outreachVars
<1> DEFINE Goal == [Outreach!Next]_Outreach!outreachVars
<1>1. UNCHANGED <<sequence, mail, forgotten>> => Goal
  BY DEF Outreach!outreachVars
<1>2. ASSUME NEW p \in Procs, Sync(p) \/ Crash(p)
      PROVE  Goal
  <2>1. CASE SyncCommit(p)
    <3>1. MailedAmong(plan[p].drop) \in SUBSET Contacts
          /\ \A c \in MailedAmong(plan[p].drop) : Mailed(c)
      BY DEF MailedAmong
    <3>2. QED
      BY <2>1, <3>1, ForgettingIsOutreach DEF SyncCommit
  <2>2. CASE Crash(p)
    BY <2>2, InFlightIsMailed, ForgettingIsOutreach DEF Crash, database
  <2>3. CASE SyncSkip(p) \/ SyncRead(p) \/ SyncStale(p)
    BY <1>1, <2>3 DEF SyncSkip, SyncRead, SyncStale, database, history
  <2>4. QED
    BY <1>2, <2>1, <2>2, <2>3 DEF Sync
<1>3. ASSUME NEW w \in Workers, BeginCycle(w) \/ CycleStep(w) \/ Send(w)
      PROVE  Goal
  <2>1. CASE RowGone(w)
    BY <2>1, InFlightIsMailed, ForgettingIsOutreach DEF RowGone, database, Procs
  <2>2. CASE Deliver(w, TRUE) \/ Deliver(w, FALSE)
    BY <2>2, DeliveryIsOutreach
  <2>3. CASE BeginCycle(w) \/ Select(w) \/ SelectNothing(w) \/ Take(w) \/ Settle(w) \/ LogSend(w)
             \/ Finish(w) \/ FailLead(w) \/ SendFails(w)
    BY <1>1, <2>3 DEF BeginCycle, Select, SelectNothing, Take, Settle, LogSend, Finish, FailLead,
                      SendFails, database, history
  <2>4. QED
    BY <1>2, <1>3, <2>1, <2>2, <2>3 DEF CycleStep, Send, Procs
<1>4. ASSUME NEW k \in Clients, ClientStep(k) \/ ClientRequest(k)
      PROVE  Goal
  <2>1. CASE Admit(k) \/ Refuse(k) \/ Activate(k)
    BY <1>1, <2>1 DEF Admit, Refuse, Activate, database, history
  <2>2. CASE ClientRequest(k)
    BY <1>1, <2>2 DEF ClientRequest, AddMember, RemoveMember, AttachList, DetachList, DeleteList,
                      DryRun, Start, Request, history
  <2>3. QED
    BY <1>2, <1>4, <2>1, <2>2 DEF ClientStep, Procs
<1>5. CASE ReplaceSequence
  <2>1. sequence' \in Sequences /\ UNCHANGED <<mail, forgotten>>
    BY <1>5 DEF ReplaceSequence, history
  <2>2. QED
    BY <2>1 DEF Outreach!Next, Outreach!Replace
<1>6. Operator /\ ~ReplaceSequence => Goal
  BY <1>1 DEF Operator, Block, Unblock, Reply, Pause, Archive, Unarchive, SetStatus, session, history
<1>7. NewDay \/ (\E l \in Leads : StepDue(l)) \/ UNCHANGED vars => Goal
  BY <1>1 DEF NewDay, StepDue, vars, database, session, history
<1>8. QED
  BY <1>2, <1>3, <1>4, <1>5, <1>6, <1>7 DEF Next

LEMMA InitImplementsOutreach == Init => Outreach!Init
BY DEF Init, Outreach!Init

\* While syncs take turns and no two workers are about the same contact, the
\* recipients get what the abstract outreach promises, whatever the operator
\* edits, blocks or pauses, whoever asks for a sync and whatever fails or dies: a
\* step only when neither it nor a later one is on record as delivered, and no
\* step left out unless the sequence was replaced.
THEOREM DispatchImplementsOutreachApart ==
  ASSUME MaxMail > 0
  PROVE  Spec /\ []SyncsTakeTurns /\ []ContactsApart => ImplementsOutreach
<1> DEFINE Steady == OneSequence => StepInv
<1>1. Init => LedgerInv /\ Steady /\ FlightInv
  <2>1. Init => FlightInv
    BY DEF Init, FlightInv, Procs
  <2>2. QED
    BY <2>1, InitLedger, InitInStep
<1>2. TypeOK /\ TypeOK' /\ SyncsTakeTurns /\ ContactsApart /\ LedgerInv /\ Steady /\ FlightInv
        /\ [Next]_vars
        => LedgerInv' /\ Steady' /\ FlightInv'
  <2>1. TypeOK /\ TypeOK' /\ ContactsApart /\ Steady /\ [Next]_vars => Steady'
    BY StepStep, ApartContactsApartLeads
  <2>2. QED
    BY <2>1, LedgerStep, FlightStep
<1>3. TypeOK /\ ContactsApart /\ LedgerInv /\ Steady /\ FlightInv /\ [Next]_vars
        => [Outreach!Next]_Outreach!outreachVars
  BY StepImplementsOutreach
<1> HIDE DEF Steady
<1> DEFINE Turns == []SyncsTakeTurns /\ []ContactsApart
<1>4. Spec /\ Turns => [](TypeOK /\ LedgerInv /\ Steady /\ FlightInv)
  BY <1>1, <1>2, TypeCorrect, PTL DEF Spec
<1>5. Spec => Init /\ [][Next]_vars
  BY DEF Spec
<1>6. Spec /\ Turns => Outreach!Init /\ [][Outreach!Next]_Outreach!outreachVars
  BY <1>3, <1>4, <1>5, InitImplementsOutreach, PTL
<1>7. QED
  BY <1>6 DEF ImplementsOutreach, Outreach!Spec

\* One worker process, no request beside it.
THEOREM DispatchImplementsOutreach ==
  ASSUME Alone, MaxMail > 0
  PROVE  Spec => ImplementsOutreach
<1>1. SyncsTakeTurns /\ ContactsApart
  BY NobodyElseSyncs, SoleWorkerIsApart DEF Alone
<1>2. Spec /\ []SyncsTakeTurns /\ []ContactsApart => ImplementsOutreach
  BY DispatchImplementsOutreachApart
<1>3. QED
  BY <1>1, <1>2, PTL
=============================================================================
