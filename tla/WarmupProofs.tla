---------------------------- MODULE WarmupProofs ----------------------------
(***************************************************************************)
(* Theorems of Warmup, for every set of workers, handlers and mailboxes    *)
(* and every limit.                                                        *)
(***************************************************************************)
EXTENDS Warmup, FiniteSetTheorems, TLAPS

-----------------------------------------------------------------------------
(* Type correctness.                                                       *)

LEMMA ProcSplit == Workers \subseteq Procs /\ Clients \subseteq Procs /\ Workers \cap Clients = {}
BY WarmupAssumption DEF Procs

LEMMA InitTypeOK == Init => TypeOK
<1> SUFFICES ASSUME Init PROVE TypeOK
  OBVIOUS
<1>1. DatabaseOK
  <2>1. pairs \subseteq PairRow
    <3>1. ASSUME NEW p \in Procs PROVE [key : Keys, by : {p}] \subseteq PairRow
      BY DEF PairRow
    <3>2. pairs = {} \/ \E p \in Procs : pairs = [key : Keys, by : {p}]
      BY DEF Init
    <3>3. QED
      BY <3>1, <3>2
  <2>2. QED
    BY <2>1 DEF Init, DatabaseOK
<1>2. SessionOK
  <2>1. \A p \in Procs : plan[p] = NoPlan
    BY DEF Init
  <2>2. NoPlan \in Plan /\ NoPlan.start \cup NoPlan.stop = {} /\ NoPlan.add = {}
    BY DEF NoPlan, Plan
  <2>3. \A p \in Procs : plan[p].start \cup plan[p].stop \subseteq pairs
                         /\ [key : plan[p].add, by : {p}] \cap pairs = {}
    BY <2>1, <2>2
  <2>4. \A w \in Workers : pc[w] = "idle" /\ task[w] = Null /\ todo[w] = {}
    BY ProcSplit DEF Init
  <2>5. plan \in [Procs -> Plan]
    BY <2>2 DEF Init
  <2>6. QED
    BY <2>3, <2>4, <2>5 DEF Init, SessionOK, PcValues, Sending
<1>3. HistoryOK
  BY WarmupAssumption DEF Init, HistoryOK
<1>4. QED
  BY <1>1, <1>2, <1>3 DEF TypeOK

\* What late becomes is made of keys.
LEMMA LateType ==
  ASSUME HistoryOK
  PROVE  /\ Lose => late' \in [Procs -> SUBSET Keys]
         /\ \A p \in Procs : Settle(p) => late' \in [Procs -> SUBSET Keys]
<1>1. Wanted \subseteq Keys
  BY DEF Wanted
<1>2. QED
  BY <1>1 DEF HistoryOK, Lose, Settle

\* The reads of a sync.
LEMMA SurveyTypeOK ==
  ASSUME TypeOK, NEW p \in Procs, Survey(p), pc[p] \in {"idle", "read"}, ops' \in Nat
  PROVE  TypeOK'
<1> USE DEF TypeOK
<1>1. DatabaseOK'
  BY DEF Survey, DatabaseOK, database, switches
<1>2. PICK existing \in ExistingPairs : plan' = [plan EXCEPT ![p] = PlanFor(existing)]
  BY DEF Survey
<1>3. existing \subseteq pairs
  BY <1>2 DEF ExistingPairs
<1>4. PlanFor(existing) \in Plan
  BY <1>3 DEF PlanFor, Plan, DatabaseOK, Wanted
<1>5. PlanFor(existing).start \cup PlanFor(existing).stop \subseteq pairs
  BY <1>3 DEF PlanFor
<1>6. [key : PlanFor(existing).add, by : {p}] \cap pairs = {}
  BY DEF PlanFor, Paired
<1>7. pairs' = pairs
  BY DEF Survey, database
<1>8. \A q \in Procs : /\ plan'[q] \in Plan
                       /\ plan'[q].start \cup plan'[q].stop \subseteq pairs'
                       /\ [key : plan'[q].add, by : {q}] \cap pairs' = {}
  BY <1>2, <1>4, <1>5, <1>6, <1>7 DEF SessionOK
<1>9. plan' \in [Procs -> Plan]
  BY <1>2, <1>4 DEF SessionOK
<1>10. pc' \in [Procs -> PcValues] /\ \A w \in Workers \ {p} : pc'[w] = pc[w]
  BY ProcSplit DEF Survey, SessionOK, PcValues
<1>11. ASSUME NEW w \in Workers
       PROVE  /\ task'[w] \in todo'[w] \cup {Null}
              /\ pc'[w] \in Sending <=> task'[w] # Null
              /\ pc'[w] \in Sending \cup {"next"} <=> todo'[w] # {}
  <2>1. CASE w = p
    BY <2>1, ProcSplit DEF Survey, SessionOK, Sending
  <2>2. CASE w # p
    BY <2>2, <1>10 DEF Survey, SessionOK
  <2>3. QED
    BY <2>1, <2>2
<1>12. SessionOK'
  BY <1>7, <1>8, <1>9, <1>10, <1>11 DEF Survey, SessionOK
<1>13. HistoryOK'
  BY <1>7 DEF Survey, HistoryOK
<1>14. QED
  BY <1>1, <1>12, <1>13

\* The commit of a sync.
LEMMA CommitTypeOK ==
  ASSUME TypeOK, NEW p \in Procs, SyncCommit(p)
  PROVE  TypeOK'
<1> USE DEF TypeOK
<1> DEFINE new == [key : plan[p].add, by : {p}]
           started == plan[p].start \cup new
<1>1. /\ pairs' = pairs \cup new
      /\ active' = (active \ plan[p].stop) \cup started
      /\ stray' \subseteq stray \cup started
  BY DEF SyncCommit
<1>2. new \subseteq PairRow
  BY DEF SessionOK, Plan, PairRow
<1>3. plan[p].start \subseteq pairs /\ plan[p].stop \subseteq pairs
  BY DEF SessionOK
<1> HIDE DEF new
<1>4. DatabaseOK'
  BY <1>1, <1>2, <1>3 DEF SyncCommit, DatabaseOK, switches
<1>5. plan' = [plan EXCEPT ![p] = NoPlan]
  BY DEF SyncCommit
<1>6. NoPlan \in Plan /\ NoPlan.start \cup NoPlan.stop = {} /\ NoPlan.add = {}
  BY DEF NoPlan, Plan
<1>7. ASSUME NEW q \in Procs
      PROVE  /\ plan'[q].start \cup plan'[q].stop \subseteq pairs'
             /\ [key : plan'[q].add, by : {q}] \cap pairs' = {}
  <2>1. CASE q = p
    BY <1>5, <1>6, <2>1 DEF SessionOK
  <2>2. CASE q # p
    <3>1. plan'[q] = plan[q]
      BY <1>5, <2>2 DEF SessionOK
    <3>2. [key : plan[q].add, by : {q}] \cap new = {}
      BY <2>2 DEF new
    <3>3. QED
      BY <1>1, <3>1, <3>2 DEF SessionOK
  <2>3. QED
    BY <2>1, <2>2
<1>8. plan' \in [Procs -> Plan]
  BY <1>5, <1>6 DEF SessionOK
<1>9. /\ pc' \in [Procs -> PcValues]
      /\ \A w \in Workers : pc'[w] = IF w = p THEN "load" ELSE pc[w]
  BY ProcSplit DEF SyncCommit, AfterSync, SessionOK, PcValues
<1>10. ASSUME NEW w \in Workers
       PROVE  /\ task'[w] \in todo'[w] \cup {Null}
              /\ pc'[w] \in Sending <=> task'[w] # Null
              /\ pc'[w] \in Sending \cup {"next"} <=> todo'[w] # {}
  <2>1. task' = task /\ todo' = todo
    BY DEF SyncCommit
  <2>2. CASE w = p
    BY <1>9, <2>1, <2>2 DEF SyncCommit, SessionOK, Sending
  <2>3. CASE w # p
    BY <1>9, <2>1, <2>3 DEF SessionOK
  <2>4. QED
    BY <2>2, <2>3
<1>11. SessionOK'
  BY <1>1, <1>7, <1>8, <1>9, <1>10 DEF SyncCommit, SessionOK
<1>12. HistoryOK'
  BY <1>1, <1>3, LateType DEF SyncCommit, HistoryOK
<1>13. QED
  BY <1>4, <1>11, <1>12

\* A worker's pairs and what it does with one of them.  Nothing else changes
\* but switches, counts and history.
LEMMA WorkerStepTypeOK ==
  ASSUME TypeOK, NEW w \in Workers,
         UNCHANGED <<plan, again, pairs, active, stray, ops, crashes>>,
         DatabaseOK', sentBy' \in [Workers -> Nat], late' \in [Procs -> SUBSET Keys],
         NEW here \in PcValues, NEW rest \in SUBSET pairs, NEW hand,
         pc' = [pc EXCEPT ![w] = here],
         todo' = [todo EXCEPT ![w] = rest],
         task' = [task EXCEPT ![w] = hand],
         today' \subseteq Workers,
         hand \in rest \cup {Null},
         here \in Sending <=> hand # Null,
         here \in Sending \cup {"next"} <=> rest # {}
  PROVE  TypeOK'
<1>1. w \in Procs
  BY ProcSplit
<1>2. \A v \in Workers : /\ pc'[v] = IF v = w THEN here ELSE pc[v]
                         /\ todo'[v] = IF v = w THEN rest ELSE todo[v]
                         /\ task'[v] = IF v = w THEN hand ELSE task[v]
  <2>1. pc \in [Procs -> PcValues] /\ Workers \subseteq Procs
    BY ProcSplit DEF TypeOK, SessionOK
  <2>2. todo \in [Workers -> SUBSET pairs] /\ task \in [Workers -> pairs \cup {Null}]
    BY DEF TypeOK, SessionOK
  <2>3. QED
    BY <2>1, <2>2
<1>3. \A v \in Workers : /\ task'[v] \in todo'[v] \cup {Null}
                         /\ pc'[v] \in Sending <=> task'[v] # Null
                         /\ pc'[v] \in Sending \cup {"next"} <=> todo'[v] # {}
  BY <1>2 DEF TypeOK, SessionOK
<1>4. SessionOK'
  BY <1>1, <1>3 DEF TypeOK, SessionOK
<1>5. HistoryOK'
  BY DEF TypeOK, HistoryOK
<1>6. QED
  BY <1>4, <1>5 DEF TypeOK

\* A pair is done with.
LEMMA DoneTypeOK ==
  ASSUME TypeOK, NEW w \in Workers, NEW r \in todo[w], Done(w, r),
         UNCHANGED <<plan, again, pairs, active, stray, ops, crashes>>,
         DatabaseOK', sentBy' \in [Workers -> Nat]
  PROVE  TypeOK'
<1> DEFINE rest == todo[w] \ {r}
<1>1. late' \in [Procs -> SUBSET Keys]
  BY ProcSplit, LateType DEF Done, TypeOK
<1>2. rest \in SUBSET pairs
  BY DEF TypeOK, SessionOK
<1>3. /\ AfterPair(w, rest) \in PcValues
      /\ AfterPair(w, rest) \notin Sending
      /\ AfterPair(w, rest) \in Sending \cup {"next"} <=> rest # {}
  BY DEF AfterPair, PcValues, Sending
<1>4. /\ pc' = [pc EXCEPT ![w] = AfterPair(w, rest)]
      /\ todo' = [todo EXCEPT ![w] = rest]
      /\ task' = [task EXCEPT ![w] = Null]
      /\ today' \subseteq Workers
  BY DEF Done, TypeOK, SessionOK
<1> HIDE DEF rest
<1>5. QED
  BY <1>1, <1>2, <1>3, <1>4, WorkerStepTypeOK

LEMMA CycleTypeOK ==
  ASSUME TypeOK, NEW w \in Workers,
         Load(w) \/ Skip(w) \/ AttemptAny(w) \/ Record(w) \/ RecordFailure(w)
  PROVE  TypeOK'
<1>1. DatabaseOK /\ sentBy \in [Workers -> Nat] /\ late \in [Procs -> SUBSET Keys]
  BY DEF TypeOK, HistoryOK
<1>2. CASE Load(w)
  <2>1. UNCHANGED <<plan, again, pairs, active, stray, ops, crashes>>
    BY <1>2 DEF Load, database
  <2>2. DatabaseOK' /\ sentBy' \in [Workers -> Nat]
    BY <1>1, <1>2 DEF Load, DatabaseOK, database, switches
  <2>3. late' \in [Procs -> SUBSET Keys]
    BY <1>2, ProcSplit, LateType DEF Load, TypeOK
  <2>4. /\ active \in SUBSET pairs
        /\ AfterPair(w, active) \in PcValues
        /\ AfterPair(w, active) \notin Sending
        /\ AfterPair(w, active) \in Sending \cup {"next"} <=> active # {}
    BY <1>1 DEF DatabaseOK, AfterPair, PcValues, Sending
  <2>5. task[w] = Null
    BY <1>2 DEF Load, TypeOK, SessionOK, Sending
  <2>6. /\ pc' = [pc EXCEPT ![w] = AfterPair(w, active)]
        /\ todo' = [todo EXCEPT ![w] = active]
        /\ task' = [task EXCEPT ![w] = Null]
        /\ today' \subseteq Workers
    BY <1>2, <2>5 DEF Load, TypeOK, SessionOK
  <2>7. QED
    BY <2>1, <2>2, <2>3, <2>4, <2>6, WorkerStepTypeOK
<1>3. CASE Skip(w)
  <2>1. PICK r \in todo[w] : Done(w, r)
    BY <1>3 DEF Skip
  <2>2. /\ UNCHANGED <<plan, again, pairs, active, stray, ops, crashes>>
        /\ DatabaseOK' /\ sentBy' \in [Workers -> Nat]
    BY <1>1, <1>3 DEF Skip, DatabaseOK, database, switches
  <2>3. QED
    BY <2>1, <2>2, DoneTypeOK
<1>4. CASE AttemptAny(w)
  <2>1. PICK m \in Mailboxes : Attempt(w, m)
    BY <1>4 DEF AttemptAny
  <2>2. PICK r \in todo[w] : task' = [task EXCEPT ![w] = r]
    BY <2>1 DEF Attempt
  <2>3. UNCHANGED <<plan, again, pairs, active, stray, ops, crashes>>
    BY <2>1 DEF Attempt, database, history
  <2>4. /\ DatabaseOK' /\ sentBy' \in [Workers -> Nat] /\ late' \in [Procs -> SUBSET Keys]
    BY <1>1, <2>1 DEF Attempt, DatabaseOK, database, switches, history
  <2>5. r \in pairs /\ Null \notin pairs /\ todo[w] \in SUBSET pairs
    BY WarmupAssumption DEF TypeOK, DatabaseOK, SessionOK
  <2>6. /\ pc' = [pc EXCEPT ![w] = "send"]
        /\ todo' = [todo EXCEPT ![w] = todo[w]]
        /\ today' \subseteq Workers
    BY <2>1 DEF Attempt, TypeOK, SessionOK
  <2>7. "send" \in PcValues /\ "send" \in Sending
    BY DEF PcValues, Sending
  <2>8. r # Null
    BY <2>5
  <2>9. QED
    BY <2>2, <2>3, <2>4, <2>5, <2>6, <2>7, <2>8, WorkerStepTypeOK
<1>5. CASE Record(w) \/ RecordFailure(w)
  <2>1. task[w] \in todo[w] /\ Done(w, task[w])
    BY <1>5 DEF Record, RecordFailure, TypeOK, SessionOK, Sending
  <2>2. UNCHANGED <<plan, again, pairs, active, stray, ops, crashes>>
    BY <1>5 DEF Record, RecordFailure, database
  <2>3. sent' \in [Mailboxes -> Nat] /\ sentBy' \in [Workers -> Nat]
    BY <1>1, <1>5 DEF Record, RecordFailure, DatabaseOK, database
  <2>4. DatabaseOK'
    BY <1>1, <1>5, <2>3 DEF Record, RecordFailure, DatabaseOK, database, switches
  <2>5. QED
    BY <2>1, <2>2, <2>3, <2>4, DoneTypeOK
<1>6. QED
  BY <1>2, <1>3, <1>4, <1>5

\* What the SMTP server does.
LEMMA SendTypeOK ==
  ASSUME TypeOK, NEW w \in Workers, Send(w)
  PROVE  TypeOK'
<1>1. DatabaseOK /\ sentBy \in [Workers -> Nat] /\ late \in [Procs -> SUBSET Keys]
  BY DEF TypeOK, HistoryOK
<1>2. UNCHANGED <<plan, again, pairs, active, stray, ops, crashes, todo, task, today, sentBy>>
  BY DEF Send, Deliver, SendFails, history
<1>3. healthy' \subseteq Mailboxes /\ late' \in [Procs -> SUBSET Keys]
  BY <1>1, LateType DEF Send, Deliver, SendFails, history, switches, DatabaseOK, TypeOK
<1>4. DatabaseOK'
  BY <1>1, <1>2, <1>3 DEF Send, Deliver, SendFails, switches, DatabaseOK
<1>5. PICK here \in {"record", "fail"} : pc' = [pc EXCEPT ![w] = here]
  BY DEF Send, Deliver, SendFails
<1>6. task[w] # Null /\ task[w] \in todo[w] /\ todo[w] # {}
  BY DEF Send, Deliver, SendFails, TypeOK, SessionOK, Sending
<1>7. here \in PcValues /\ here \in Sending
  BY DEF PcValues, Sending
<1>8. /\ todo' = [todo EXCEPT ![w] = todo[w]]
      /\ task' = [task EXCEPT ![w] = task[w]]
      /\ todo[w] \in SUBSET pairs /\ today' \subseteq Workers
  BY <1>2 DEF TypeOK, SessionOK
<1>9. sentBy' \in [Workers -> Nat]
  BY <1>1, <1>2
<1>10. QED
  BY <1>2, <1>3, <1>4, <1>5, <1>6, <1>7, <1>8, <1>9, WorkerStepTypeOK

\* A handler or the environment changes a switch; no pair and no plan.
LEMMA SwitchTypeOK ==
  ASSUME TypeOK,
         UNCHANGED <<pairs, active, sent, plan, todo, task, today, sentBy, stray, crashes>>,
         enabled' \in BOOLEAN, usable' \subseteq Mailboxes, willing' \subseteq Mailboxes,
         healthy' \subseteq Mailboxes, again' \subseteq Clients,
         pc' = pc \/ \E k \in Clients : \E here \in PcValues : pc' = [pc EXCEPT ![k] = here],
         Lose, ops' \in Nat
  PROVE  TypeOK'
<1>1. DatabaseOK'
  BY DEF TypeOK, DatabaseOK
<1>2. pc' \in [Procs -> PcValues] /\ \A w \in Workers : pc'[w] = pc[w]
  BY ProcSplit DEF TypeOK, SessionOK
<1>3. SessionOK'
  BY <1>2 DEF TypeOK, SessionOK
<1>4. HistoryOK'
  BY LateType DEF TypeOK, HistoryOK
<1>5. QED
  BY <1>1, <1>3, <1>4 DEF TypeOK

LEMMA HandlerTypeOK ==
  ASSUME TypeOK, NEW k \in Clients, ClientStep(k) \/ ClientRequest(k)
  PROVE  TypeOK'
<1>1. k \in Procs /\ ops \in Nat
  BY ProcSplit DEF TypeOK, HistoryOK
<1>2. CASE SyncCommit(k)
  BY <1>1, <1>2, CommitTypeOK
<1>3. CASE SyncRead(k)
  BY <1>1, <1>3, SurveyTypeOK DEF SyncRead
<1>4. CASE RunNow(k)
  <2>1. ops' \in Nat
    BY <1>1, <1>4 DEF RunNow
  <2>2. QED
    BY <1>1, <1>4, <2>1, SurveyTypeOK DEF RunNow
<1>5. CASE Switch(k)
  BY <1>1, <1>5, SwitchTypeOK DEF Switch, TypeOK, DatabaseOK, SessionOK, PcValues
<1>6. CASE Start(k) \/ Pause(k) \/ \E m \in Mailboxes : SetParticipation(k, m)
  <2>1. \E here \in PcValues : pc' = [pc EXCEPT ![k] = here]
    BY <1>6 DEF Start, Pause, SetParticipation, PcValues
  <2>2. Act /\ ops' \in Nat
    BY <1>1, <1>6 DEF Start, Pause, SetParticipation, Act
  <2>3. again' \subseteq Clients
    BY <1>6 DEF Start, Pause, SetParticipation, TypeOK, SessionOK
  <2>4. /\ enabled' \in BOOLEAN /\ usable' \subseteq Mailboxes
        /\ willing' \subseteq Mailboxes /\ healthy' \subseteq Mailboxes
    BY <1>6 DEF Start, Pause, SetParticipation, TypeOK, DatabaseOK, switches
  <2>5. QED
    BY <2>1, <2>2, <2>3, <2>4, SwitchTypeOK DEF Act
<1>7. QED
  BY <1>2, <1>3, <1>4, <1>5, <1>6 DEF ClientStep, ClientRequest

LEMMA EnvironmentTypeOK ==
  ASSUME TypeOK, NEW m \in Mailboxes, EditMailbox(m) \/ Probe(m)
  PROVE  TypeOK'
<1>1. Act /\ ops' \in Nat
  BY DEF EditMailbox, Probe, Act, TypeOK, HistoryOK
<1>2. QED
  BY <1>1, SwitchTypeOK DEF Act, EditMailbox, Probe, TypeOK, DatabaseOK, SessionOK

LEMMA CrashTypeOK ==
  ASSUME TypeOK, NEW p \in Procs, Crash(p)
  PROVE  TypeOK'
<1>1. NoPlan \in Plan /\ NoPlan.start \cup NoPlan.stop = {} /\ NoPlan.add = {}
  BY DEF NoPlan, Plan
<1>2. DatabaseOK'
  BY DEF Crash, TypeOK, DatabaseOK, database, switches
<1>3. pairs' = pairs
  BY DEF Crash, database
<1>4. \A q \in Procs : /\ plan'[q] \in Plan
                       /\ plan'[q].start \cup plan'[q].stop \subseteq pairs'
                       /\ [key : plan'[q].add, by : {q}] \cap pairs' = {}
  BY <1>1, <1>3 DEF Crash, TypeOK, SessionOK
<1>5. plan' \in [Procs -> Plan]
  BY <1>1 DEF Crash, TypeOK, SessionOK
<1>6. \A w \in Workers : /\ task'[w] \in todo'[w] \cup {Null}
                         /\ pc'[w] \in Sending <=> task'[w] # Null
                         /\ pc'[w] \in Sending \cup {"next"} <=> todo'[w] # {}
  BY ProcSplit DEF Crash, TypeOK, SessionOK, Sending
<1>7. pc' \in [Procs -> PcValues]
  BY DEF Crash, TypeOK, SessionOK, PcValues
<1>8. SessionOK'
  BY <1>3, <1>4, <1>5, <1>6, <1>7 DEF Crash, TypeOK, SessionOK
<1>9. HistoryOK'
  BY <1>3, LateType DEF Crash, TypeOK, HistoryOK
<1>10. QED
  BY <1>2, <1>8, <1>9 DEF TypeOK

LEMMA NewDayTypeOK == TypeOK /\ NewDay => TypeOK'
BY DEF NewDay, TypeOK, DatabaseOK, SessionOK, HistoryOK, switches

LEMMA StepTypeOK == TypeOK /\ [Next]_vars => TypeOK'
<1> SUFFICES ASSUME TypeOK, [Next]_vars PROVE TypeOK'
  OBVIOUS
<1>1. ASSUME NEW w \in Workers, BeginCycle(w)
      PROVE  TypeOK'
  BY <1>1, ProcSplit, SurveyTypeOK DEF BeginCycle, TypeOK, HistoryOK
<1>2. ASSUME NEW w \in Workers, CycleStep(w)
      PROVE  TypeOK'
  BY <1>2, ProcSplit, CommitTypeOK, CycleTypeOK DEF CycleStep
<1>3. CASE UNCHANGED vars
  BY <1>3 DEF vars, database, session, history, switches, TypeOK, DatabaseOK, SessionOK, HistoryOK
<1>4. QED
  BY <1>1, <1>2, <1>3, SendTypeOK, HandlerTypeOK, EnvironmentTypeOK, CrashTypeOK, NewDayTypeOK
     DEF Next

\* The variables have their types, plans are about rows that exist or that only
\* their process may insert, and a worker has a pair in hand exactly while it
\* sends (sync_pairs, process_all_active_pairs, _attempt_send).
THEOREM TypeCorrect == Spec => []TypeOK
<1>1. QED
  BY InitTypeOK, StepTypeOK, PTL DEF Spec

-----------------------------------------------------------------------------
(* The quota of a mailbox.                                                 *)

LEMMA SameClaimsStutter ==
  ASSUME \A v \in Workers : Claims(v)' = Claims(v),
         sent'[Observed] = sent[Observed], sentBy' = sentBy
  PROVE  [Quota!Next]_Quota!quotaVars
BY DEF Quota!quotaVars

\* A claim is given up and nothing is recorded.
LEMMA DropIsForgo ==
  ASSUME NEW w \in Workers, Claims(w) = 1, Claims(w)' = 0,
         \A v \in Workers \ {w} : Claims(v)' = Claims(v),
         sent'[Observed] = sent[Observed], sentBy' = sentBy
  PROVE  Quota!Next
<1>1. [v \in Workers |-> Claims(v)'] = [[v \in Workers |-> Claims(v)] EXCEPT ![w] = 0]
  OBVIOUS
<1>2. 0 \in 0 .. Claims(w) - 1
  OBVIOUS
<1>3. Quota!Forgo(w, 0)
  BY <1>1 DEF Quota!Forgo
<1>4. QED
  BY <1>2, <1>3 DEF Quota!Next

\* A worker that does not send claims nothing.
LEMMA ClaimRange ==
  ASSUME NEW w \in Workers
  PROVE  /\ Claims(w) \in {0, 1}
         /\ Claims(w) = 1 <=> pc[w] \in Sending /\ Sender(w) = Observed
BY DEF Claims

LEMMA AttemptIsClaim ==
  ASSUME TypeOK, NEW w \in Workers, NEW m \in Mailboxes, Attempt(w, m)
  PROVE  [Quota!Next]_Quota!quotaVars
<1>1. /\ sent' = sent /\ sentBy' = sentBy
      /\ pc[w] = "next" /\ pc'[w] = "send" /\ task'[w].key[1] = m
      /\ \A v \in Workers \ {w} : pc'[v] = pc[v] /\ task'[v] = task[v]
  BY ProcSplit DEF Attempt, TypeOK, SessionOK, database, history
<1>2. \A v \in Workers \ {w} : Claims(v)' = Claims(v)
  BY <1>1 DEF Claims, Sender
<1>3. Claims(w) = 0 /\ Claims(w)' = IF m = Observed THEN 1 ELSE 0
  BY <1>1 DEF Claims, Sender, Sending
<1>4. CASE m = Observed
  <2>1. 1 <= DailyLimit - sent[Observed]
    <3>1. PICK limit \in Limits : sent[Observed] < limit
      BY <1>4 DEF Attempt
    <3>2. limit \in 0 .. DailyLimit /\ sent[Observed] \in Nat /\ DailyLimit \in Nat
      BY WarmupAssumption DEF TypeOK, DatabaseOK
    <3>3. QED
      BY <3>1, <3>2
  <2>2. [v \in Workers |-> Claims(v)'] = [[v \in Workers |-> Claims(v)] EXCEPT ![w] = 1]
    BY <1>2, <1>3, <1>4
  <2>3. Quota!Claim(w, 1)
    BY <1>1, <1>3, <2>1, <2>2 DEF Quota!Claim
  <2>4. 1 \in 1 .. DailyLimit
    BY <2>1, WarmupAssumption DEF TypeOK, DatabaseOK
  <2>5. QED
    BY <2>3, <2>4 DEF Quota!Next
<1>5. CASE m # Observed
  BY <1>1, <1>2, <1>3, <1>5, SameClaimsStutter
<1>6. QED
  BY <1>4, <1>5

LEMMA RecordIsQuotaStep ==
  ASSUME TypeOK, NEW w \in Workers, Record(w) \/ RecordFailure(w)
  PROVE  [Quota!Next]_Quota!quotaVars
<1>1. pc[w] \in Sending /\ pc'[w] \notin Sending
  BY ProcSplit DEF Record, RecordFailure, Done, AfterPair, Sending, TypeOK, SessionOK
<1>2. \A v \in Workers \ {w} : pc'[v] = pc[v] /\ task'[v] = task[v]
  BY ProcSplit DEF Record, RecordFailure, Done, TypeOK, SessionOK
<1>3. \A v \in Workers \ {w} : Claims(v)' = Claims(v)
  BY <1>2 DEF Claims, Sender
<1>4. Claims(w)' = 0 /\ Claims(w) = IF Sender(w) = Observed THEN 1 ELSE 0
  BY <1>1 DEF Claims
<1>5. sent \in [Mailboxes -> Nat] /\ sentBy \in [Workers -> Nat] /\ Observed \in Mailboxes
  BY WarmupAssumption DEF TypeOK, DatabaseOK, HistoryOK
<1>6. CASE Sender(w) # Observed
  <2>1. sent'[Observed] = sent[Observed] /\ sentBy' = sentBy
    BY <1>5, <1>6 DEF Record, RecordFailure, database
  <2>2. QED
    BY <1>3, <1>4, <1>6, <2>1, SameClaimsStutter
<1>7. CASE Sender(w) = Observed /\ Record(w) /\ w \in today
  <2>1. sent'[Observed] = sent[Observed] + 1 /\ sentBy' = [sentBy EXCEPT ![w] = @ + 1]
    BY <1>5, <1>7 DEF Record
  <2>2. [v \in Workers |-> Claims(v)'] = [[v \in Workers |-> Claims(v)] EXCEPT ![w] = @ - 1]
    <3>1. Claims(w) = 1 /\ Claims(w)' = 0
      BY <1>4, <1>7
    <3>2. \A v \in Workers : Claims(v)' = IF v = w THEN Claims(w) - 1 ELSE Claims(v)
      BY <1>3, <3>1
    <3>3. QED
      BY <3>2
  <2>3. Quota!Spend(w)
    BY <1>4, <1>7, <2>1, <2>2 DEF Quota!Spend
  <2>4. QED
    BY <2>3 DEF Quota!Next
<1>8. CASE Sender(w) = Observed /\ ~(Record(w) /\ w \in today)
  <2>1. sent' = sent /\ sentBy' = sentBy
    BY <1>8 DEF Record, RecordFailure, database
  <2>2. QED
    BY <1>3, <1>4, <1>8, <2>1, DropIsForgo
<1>9. QED
  BY <1>6, <1>7, <1>8

LEMMA CrashIsQuotaStep ==
  ASSUME TypeOK, NEW p \in Procs, Crash(p)
  PROVE  [Quota!Next]_Quota!quotaVars
<1>1. sent' = sent /\ sentBy' = sentBy
  BY DEF Crash, database
<1>2. \A v \in Workers \ {p} : pc'[v] = pc[v] /\ task'[v] = task[v]
  BY ProcSplit DEF Crash, TypeOK, SessionOK
<1>3. \A v \in Workers \ {p} : Claims(v)' = Claims(v)
  BY <1>2 DEF Claims, Sender
<1>4. p \in Workers => Claims(p)' = 0
  BY DEF Crash, TypeOK, SessionOK, Claims, Sending
<1>5. CASE p \in Workers /\ Claims(p) = 1
  BY <1>1, <1>3, <1>4, <1>5, DropIsForgo
<1>6. CASE ~(p \in Workers /\ Claims(p) = 1)
  BY <1>1, <1>3, <1>4, <1>6, ClaimRange, SameClaimsStutter
<1>7. QED
  BY <1>5, <1>6

\* Queueing an event is a claim; its success spends it, unless midnight came
\* between, and everything else forgoes it or stutters.
LEMMA StepImplementsQuota ==
  ASSUME TypeOK, [Next]_vars
  PROVE  [Quota!Next]_Quota!quotaVars
<1> DEFINE Goal == [Quota!Next]_Quota!quotaVars
<1>1. ASSUME \A w \in Workers : /\ pc'[w] \in Sending <=> pc[w] \in Sending
                                /\ task'[w] = task[w],
             sent' = sent, sentBy' = sentBy
      PROVE  Goal
  <2>1. \A w \in Workers : Claims(w)' = Claims(w)
    BY <1>1 DEF Claims, Sender
  <2>2. QED
    BY <1>1, <2>1, SameClaimsStutter
<1>2. ASSUME NEW p \in Procs, Survey(p), pc[p] \in {"idle", "read"}
      PROVE  Goal
  BY <1>1, <1>2, ProcSplit DEF Survey, database, TypeOK, SessionOK, Sending
<1>3. ASSUME NEW p \in Procs, SyncCommit(p)
      PROVE  Goal
  BY <1>1, <1>3, ProcSplit DEF SyncCommit, AfterSync, TypeOK, SessionOK, Sending
<1>4. ASSUME NEW w \in Workers, CycleStep(w) \/ Send(w) \/ BeginCycle(w)
      PROVE  Goal
  <2>1. CASE Load(w)
    BY <1>1, <2>1, ProcSplit DEF Load, AfterPair, database, TypeOK, SessionOK, Sending
  <2>2. CASE Skip(w)
    <3>1. PICK r \in todo[w] : Done(w, r)
      BY <2>2 DEF Skip
    <3>2. pc[w] = "next" /\ task[w] = Null
      BY <2>2 DEF Skip, TypeOK, SessionOK, Sending
    <3>3. QED
      BY <1>1, <2>2, <3>1, <3>2, ProcSplit
         DEF Skip, Done, AfterPair, database, TypeOK, SessionOK, Sending
  <2>3. CASE Send(w)
    <3>1. pc[w] = "send" /\ task' = task /\ sent' = sent /\ sentBy' = sentBy
      BY <2>3 DEF Send, Deliver, SendFails, history
    <3>2. PICK here \in {"record", "fail"} : pc' = [pc EXCEPT ![w] = here]
      BY <2>3 DEF Send, Deliver, SendFails
    <3>3. QED
      BY <1>1, <3>1, <3>2, ProcSplit DEF TypeOK, SessionOK, Sending
  <2>4. QED
    BY <1>2, <1>3, <1>4, <2>1, <2>2, <2>3, ProcSplit, AttemptIsClaim, RecordIsQuotaStep
       DEF CycleStep, AttemptAny, BeginCycle
<1>5. ASSUME NEW k \in Clients, ClientStep(k) \/ ClientRequest(k)
      PROVE  Goal
  <2>1. CASE Switch(k) \/ Start(k) \/ Pause(k) \/ \E m \in Mailboxes : SetParticipation(k, m)
    <3>1. \A w \in Workers : pc'[w] = pc[w]
      BY <2>1, ProcSplit DEF Switch, Start, Pause, SetParticipation, TypeOK, SessionOK
    <3>2. task' = task /\ sent' = sent /\ sentBy' = sentBy
      BY <2>1 DEF Switch, Start, Pause, SetParticipation, Act
    <3>3. QED
      BY <1>1, <3>1, <3>2
  <2>2. QED
    BY <1>2, <1>3, <1>5, <2>1, ProcSplit DEF ClientStep, ClientRequest, SyncRead, RunNow
<1>6. ASSUME NEW m \in Mailboxes, EditMailbox(m) \/ Probe(m)
      PROVE  Goal
  BY <1>1, <1>6 DEF EditMailbox, Probe, Act
<1>7. NewDay => Goal
  <2>1. ASSUME NewDay PROVE Quota!Midnight
    <3>1. sent'[Observed] = 0
      BY <2>1, WarmupAssumption DEF NewDay
    <3>2. \A w \in Workers : Claims(w)' = Claims(w)
      BY <2>1 DEF NewDay, Claims, Sender
    <3>3. QED
      BY <2>1, <3>1, <3>2 DEF NewDay, Quota!Midnight
  <2>2. QED
    BY <2>1 DEF Quota!Next
<1>8. UNCHANGED vars => Goal
  BY <1>1 DEF vars, database, session, history
<1>9. QED
  BY <1>4, <1>5, <1>6, <1>7, <1>8, CrashIsQuotaStep DEF Next

LEMMA InitImplementsQuota == Init => Quota!Init
<1> SUFFICES ASSUME Init PROVE Quota!Init
  OBVIOUS
<1>1. \A w \in Workers : Claims(w) = 0
  BY ProcSplit DEF Init, Claims, Sending
<1>2. sent[Observed] = 0
  BY WarmupAssumption DEF Init
<1>3. QED
  BY <1>1, <1>2 DEF Init, Quota!Init

\* Whatever workers, handlers and crashes do, counting today's successes before
\* a queued event (_attempt_send) behaves as the daily quota of each mailbox.
THEOREM WarmupImplementsQuota == Spec => ImplementsQuota
<1>1. TypeOK /\ [Next]_vars => [Quota!Next]_Quota!quotaVars
  BY StepImplementsQuota
<1>2. QED
  BY <1>1, TypeCorrect, InitImplementsQuota, PTL DEF Spec, ImplementsQuota, Quota!Spec

QuotaProofs == INSTANCE DailyQuotaProofs
                 WITH spent <- sent[Observed], spentBy <- sentBy,
                      claim <- [w \in Workers |-> Claims(w)]

LEMMA QuotaSpecs == Quota!Spec => QuotaProofs!Spec
BY DEF Quota!Spec, Quota!Init, Quota!Next, Quota!quotaVars, Quota!Claim, Quota!Spend,
       Quota!Forgo, Quota!Midnight,
       QuotaProofs!Spec, QuotaProofs!Init, QuotaProofs!Next, QuotaProofs!quotaVars,
       QuotaProofs!Claim, QuotaProofs!Spend, QuotaProofs!Forgo, QuotaProofs!Midnight

\* A single worker process keeps every mailbox within its warm-up limit, the
\* event in flight included, though get_daily_limit draws at random.
THEOREM SoleWorkerKeepsTheLimit == Spec => []SoleWorkerWithinLimit
<1>1. DailyLimit \in Nat
  BY WarmupAssumption
<1>2. QuotaProofs!Spec => []QuotaProofs!SoleWorkerWithinLimit
  BY <1>1, QuotaProofs!QuotaOfSoleWorker
<1>3. QuotaProofs!SoleWorkerWithinLimit => SoleWorkerWithinLimit
  BY DEF QuotaProofs!SoleWorkerWithinLimit, SoleWorkerWithinLimit
<1>4. QED
  BY <1>2, <1>3, WarmupImplementsQuota, QuotaSpecs, PTL DEF ImplementsQuota

\* A fleet of n worker processes keeps every mailbox within n times its warm-up
\* limit, however manual passes and those of the beat overlap.
THEOREM FleetKeepsTheLimit ==
  ASSUME IsFiniteSet(Workers)
  PROVE  Spec => []FleetWithinLimit
<1>1. DailyLimit \in Nat
  BY WarmupAssumption
<1>2. QuotaProofs!Spec => []QuotaProofs!FleetWithinLimit
  BY <1>1, QuotaProofs!QuotaOfFleet DEF QuotaProofs!IsFiniteSet, IsFiniteSet
<1>3. QuotaProofs!FleetWithinLimit => FleetWithinLimit
  BY DEF QuotaProofs!FleetWithinLimit, FleetWithinLimit, QuotaProofs!Cardinality, Cardinality
<1>4. QED
  BY <1>2, <1>3, WarmupImplementsQuota, QuotaSpecs, PTL DEF ImplementsQuota

\* What a lock on the sending mailbox would give: one event in flight at a time.
SendersTakeTurns == \A v, w \in Workers : Claims(v) > 0 /\ Claims(w) > 0 => v = w

\* The mailbox stays within its warm-up limit, an event in flight included.
MailboxWithinLimit == \A w \in Workers : sent[Observed] + Claims(w) <= DailyLimit

\* Any number of worker processes keeps a mailbox within its warm-up limit if
\* they send from it in turns, however their cycles overlap otherwise.
THEOREM SendersInTurnKeepTheLimit == Spec /\ []SendersTakeTurns => []MailboxWithinLimit
<1>1. DailyLimit \in Nat
  BY WarmupAssumption
<1>2. QuotaProofs!Spec /\ []QuotaProofs!ClaimsTakeTurns => []QuotaProofs!TotalWithinLimit
  BY <1>1, QuotaProofs!QuotaInTurn
<1>3. SendersTakeTurns => QuotaProofs!ClaimsTakeTurns
  BY DEF SendersTakeTurns, QuotaProofs!ClaimsTakeTurns
<1>4. QuotaProofs!TotalWithinLimit => MailboxWithinLimit
  BY DEF QuotaProofs!TotalWithinLimit, MailboxWithinLimit
<1>5. QED
  BY <1>2, <1>3, <1>4, WarmupImplementsQuota, QuotaSpecs, PTL DEF ImplementsQuota

-----------------------------------------------------------------------------
(* Only wanted pairs are used.                                             *)

Explained(w, r) == r.key \in Wanted \/ Excused(w, r)

\* The active pairs a worker will not deactivate, the active pairs it will
\* load, and the pairs it has loaded.
Uses(w) == IF pc[w] = "commit" THEN active \ plan[w].stop
           ELSE IF pc[w] = "load" THEN active
           ELSE todo[w]

\* OnlyWantedPairsRun says nothing of a worker that has planned and not yet
\* committed; this does.
WantedInv == \A w \in Workers : \A r \in Uses(w) : Explained(w, r)

\* While a process has a plan or pairs, late collects what stops being wanted.
LEMMA LossIsRecorded ==
  ASSUME TypeOK, [Next]_vars, NEW q \in Procs,
         pc[q] \notin Unplanned, pc'[q] \notin Unplanned
  PROVE  Wanted \cup late[q] \subseteq Wanted' \cup late'[q]
<1> DEFINE Goal == Wanted \cup late[q] \subseteq Wanted' \cup late'[q]
<1>1. late \in [Procs -> SUBSET Keys] /\ pc'[q] # "idle" /\ pc[q] # "idle"
  BY ProcSplit DEF TypeOK, HistoryOK, Unplanned
<1>2. ASSUME switches' = switches PROVE Wanted' = Wanted
  BY <1>2 DEF switches, Wanted, Ready
<1>3. Lose => Goal
  BY <1>1 DEF Lose
<1>4. ASSUME NEW p \in Procs, Settle(p) PROVE late'[q] = late[q]
  BY <1>1, <1>4 DEF Settle
<1>5. ASSUME NEW p \in Procs, Survey(p), pc[p] \in Unplanned PROVE Goal
  <2>1. late'[q] = late[q]
    BY <1>1, <1>5 DEF Survey
  <2>2. QED
    BY <1>2, <1>5, <2>1 DEF Survey, database
<1>6. ASSUME NEW p \in Procs, SyncCommit(p) PROVE Goal
  BY <1>2, <1>4, <1>6 DEF SyncCommit
<1>7. ASSUME NEW v \in Workers, BeginCycle(v) \/ CycleStep(v) PROVE Goal
  <2>1. CASE BeginCycle(v) \/ SyncCommit(v)
    BY <1>5, <1>6, <2>1, ProcSplit DEF BeginCycle, Unplanned
  <2>2. CASE AttemptAny(v)
    BY <1>2, <2>2 DEF AttemptAny, Attempt, database, history
  <2>3. CASE Load(v) \/ Skip(v) \/ Record(v) \/ RecordFailure(v)
    <3>1. Settle(v) /\ switches' = switches
      BY <2>3 DEF Load, Skip, Record, RecordFailure, Done, database
    <3>2. QED
      BY <1>2, <1>4, <3>1, ProcSplit
  <2>4. QED
    BY <1>7, <2>1, <2>2, <2>3 DEF CycleStep
<1>8. ASSUME NEW v \in Workers, Send(v) PROVE Goal
  <2>1. CASE SendFails(v)
    BY <1>2, <1>3, <2>1 DEF SendFails
  <2>2. CASE \E m \in Mailboxes : Deliver(v, m)
    BY <2>2 DEF Deliver, history, Wanted, Ready
  <2>3. QED
    BY <1>8, <2>1, <2>2 DEF Send
<1>9. ASSUME NEW k \in Clients, ClientStep(k) \/ ClientRequest(k) PROVE Goal
  <2>1. CASE SyncRead(k) \/ RunNow(k) \/ SyncCommit(k)
    BY <1>5, <1>6, <2>1, ProcSplit DEF SyncRead, RunNow, Unplanned
  <2>2. CASE ~(SyncRead(k) \/ RunNow(k) \/ SyncCommit(k))
    BY <1>3, <1>9, <2>2 DEF ClientStep, ClientRequest, Switch, Start, Pause, SetParticipation, Act
  <2>3. QED
    BY <2>1, <2>2
<1>10. ASSUME NEW m \in Mailboxes, EditMailbox(m) \/ Probe(m) PROVE Goal
  BY <1>3, <1>10 DEF EditMailbox, Probe, Act
<1>11. ASSUME NEW p \in Procs, Crash(p) PROVE Goal
  BY <1>2, <1>4, <1>11 DEF Crash, database
<1>12. NewDay \/ UNCHANGED vars => Goal
  BY <1>2 DEF NewDay, vars, database, history
<1>13. QED
  BY <1>7, <1>8, <1>9, <1>10, <1>11, <1>12 DEF Next

\* Rows are never deleted; a row that becomes active is wanted or stray; a row
\* in some worker's hands stays stray.
LEMMA PairStep ==
  ASSUME [Next]_vars
  PROVE  /\ pairs \subseteq pairs'
         /\ \A r \in active' \ active : r.key \in Wanted' \/ r \in stray'
         /\ \A r \in stray \cap active' : r.key \in Wanted' \/ r \in stray'
         /\ stray \cap InHand \subseteq stray'
<1>1. CASE \E p \in Procs : SyncCommit(p)
  <2>1. PICK p \in Procs : SyncCommit(p)
    BY <1>1
  <2> DEFINE started == plan[p].start \cup [key : plan[p].add, by : {p}]
  <2>2. /\ pairs' = pairs \cup [key : plan[p].add, by : {p}]
        /\ active' = (active \ plan[p].stop) \cup started
        /\ stray' = (stray \ ((started \cup plan[p].stop) \ InHand))
                      \cup {r \in started : r.key \notin Wanted}
    BY <2>1 DEF SyncCommit
  <2>3. Wanted' = Wanted
    BY <2>1 DEF SyncCommit, switches, Wanted, Ready
  <2> HIDE DEF started
  <2>4. QED
    BY <2>2, <2>3
<1>2. CASE ~\E p \in Procs : SyncCommit(p)
  <2>1. UNCHANGED <<pairs, active, stray>>
    BY <1>2, ProcSplit
       DEF Next, BeginCycle, CycleStep, Send, ClientStep, ClientRequest, Survey, Load, Skip,
           AttemptAny, Attempt, Deliver, SendFails, Record, RecordFailure, Crash, NewDay, Act,
           Start, Pause, SetParticipation, RunNow, Switch, SyncRead, EditMailbox, Probe,
           vars, database, history
  <2>2. QED
    BY <2>1
<1>3. QED
  BY <1>1, <1>2

\* Where the pairs a worker uses come from.
LEMMA Turn ==
  ASSUME TypeOK, [Next]_vars, NEW w \in Workers
  PROVE  /\ pc'[w] = "commit" => \/ BeginCycle(w)
                                 \/ pc[w] = "commit" /\ plan'[w] = plan[w]
         /\ pc'[w] = "load" => \/ SyncCommit(w)
                               \/ pc[w] = "load"
         /\ todo'[w] \subseteq todo[w] \/ Load(w)
<1> DEFINE Goal == /\ pc'[w] = "commit" => \/ BeginCycle(w)
                                           \/ pc[w] = "commit" /\ plan'[w] = plan[w]
                   /\ pc'[w] = "load" => \/ SyncCommit(w)
                                         \/ pc[w] = "load"
                   /\ todo'[w] \subseteq todo[w] \/ Load(w)
<1>1. w \in Procs /\ w \notin Clients
  BY ProcSplit
<1>2. ASSUME pc'[w] = pc[w], plan'[w] = plan[w], todo'[w] = todo[w] PROVE Goal
  BY <1>2
<1>3. ASSUME NEW p \in Procs \ {w}, Survey(p) \/ SyncCommit(p) \/ Crash(p) PROVE Goal
  BY <1>1, <1>2, <1>3 DEF Survey, SyncCommit, Crash, TypeOK, SessionOK
<1>4. ASSUME NEW v \in Workers \ {w}, CycleStep(v) \/ Send(v) \/ BeginCycle(v) PROVE Goal
  <2>1. CASE SyncCommit(v) \/ BeginCycle(v)
    BY <1>3, <2>1, ProcSplit DEF BeginCycle
  <2>2. CASE ~(SyncCommit(v) \/ BeginCycle(v))
    <3>1. plan' = plan
      BY <1>4, <2>2 DEF CycleStep, Send, Load, Skip, AttemptAny, Attempt, Record, RecordFailure,
                        Deliver, SendFails
    <3>2. pc'[w] = pc[w] /\ todo'[w] = todo[w]
      <4>1. CASE Send(v)
        BY <1>1, <1>4, <4>1 DEF Send, Deliver, SendFails, Done, TypeOK, SessionOK
      <4>2. CASE Load(v)
        BY <1>1, <1>4, <4>2 DEF Load, TypeOK, SessionOK
      <4>3. CASE Skip(v)
        BY <1>1, <1>4, <4>3 DEF Skip, Done, TypeOK, SessionOK
      <4>4. CASE AttemptAny(v)
        BY <1>1, <1>4, <4>4 DEF AttemptAny, Attempt, TypeOK, SessionOK
      <4>5. CASE Record(v)
        BY <1>1, <1>4, <4>5 DEF Record, Done, TypeOK, SessionOK
      <4>6. CASE RecordFailure(v)
        BY <1>1, <1>4, <4>6 DEF RecordFailure, Done, TypeOK, SessionOK
      <4>7. QED
        BY <1>4, <2>2, <4>1, <4>2, <4>3, <4>4, <4>5, <4>6 DEF CycleStep
    <3>3. QED
      BY <1>2, <3>1, <3>2
  <2>3. QED
    BY <2>1, <2>2
<1>5. CASE CycleStep(w) \/ Send(w) \/ BeginCycle(w)
  <2>1. CASE BeginCycle(w) \/ SyncCommit(w) \/ Load(w)
    BY <1>1, <2>1 DEF BeginCycle, Survey, SyncCommit, AfterSync, Load, AfterPair, TypeOK, SessionOK
  <2>2. CASE Skip(w) \/ Record(w) \/ RecordFailure(w)
    <3>1. PICK r : Done(w, r)
      BY <2>2 DEF Skip, Record, RecordFailure
    <3>2. pc'[w] \in {"idle", "next"} /\ todo'[w] \subseteq todo[w]
      BY <1>1, <3>1 DEF Done, AfterPair, TypeOK, SessionOK
    <3>3. QED
      BY <3>2
  <2>3. CASE AttemptAny(w) \/ Send(w)
    <3>1. pc'[w] \in {"send", "record", "fail"} /\ todo' = todo
      BY <1>1, <2>3 DEF AttemptAny, Attempt, Send, Deliver, SendFails, TypeOK, SessionOK
    <3>2. QED
      BY <3>1
  <2>4. QED
    BY <1>5, <2>1, <2>2, <2>3 DEF CycleStep
<1>6. ASSUME NEW k \in Clients, ClientStep(k) \/ ClientRequest(k) PROVE Goal
  <2>1. CASE SyncRead(k) \/ RunNow(k) \/ SyncCommit(k)
    BY <1>1, <1>3, <2>1, ProcSplit DEF SyncRead, RunNow
  <2>2. CASE ~(SyncRead(k) \/ RunNow(k) \/ SyncCommit(k))
    <3>1. plan' = plan /\ todo' = todo
      BY <1>6, <2>2 DEF ClientStep, ClientRequest, Switch, Start, Pause, SetParticipation, Act
    <3>2. pc'[w] = pc[w]
      BY <1>1, <1>6, <2>2
         DEF ClientStep, ClientRequest, Switch, Start, Pause, SetParticipation, TypeOK, SessionOK
    <3>3. QED
      BY <1>2, <3>1, <3>2
  <2>3. QED
    BY <2>1, <2>2
<1>7. ASSUME NEW m \in Mailboxes, EditMailbox(m) \/ Probe(m) PROVE Goal
  BY <1>2, <1>7 DEF EditMailbox, Probe, Act
<1>8. Crash(w) => Goal
  BY <1>1 DEF Crash, TypeOK, SessionOK
<1>9. NewDay \/ UNCHANGED vars => Goal
  BY <1>2 DEF NewDay, vars, session
<1>10. QED
  BY <1>3, <1>4, <1>5, <1>6, <1>7, <1>8, <1>9 DEF Next

\* What explained a row that was used still explains it, or the row is wanted.
LEMMA ExplanationLasts ==
  ASSUME TypeOK, [Next]_vars, NEW w \in Workers, NEW r,
         pc[w] \notin Unplanned, pc'[w] \notin Unplanned,
         Explained(w, r), r \in active' \/ r \in InHand
  PROVE  Explained(w, r)'
<1>1. Wanted \cup late[w] \subseteq Wanted' \cup late'[w]
  BY LossIsRecorded, ProcSplit
<1>2. r \in stray => r.key \in Wanted' \/ r \in stray'
  BY PairStep
<1>3. Duplicated(r) => Duplicated(r)'
  BY PairStep DEF Duplicated
<1>4. QED
  BY <1>1, <1>2, <1>3 DEF Explained, Excused

\* A plan deactivates every unwanted row it kept; a row it did not keep has a
\* second one of its key.
LEMMA SurveyExplains ==
  ASSUME TypeOK, NEW w \in Workers, Survey(w)
  PROVE  \A r \in active' \ plan'[w].stop : Explained(w, r)'
<1>1. PICK existing \in ExistingPairs : plan' = [plan EXCEPT ![w] = PlanFor(existing)]
  BY DEF Survey
<1>2. UNCHANGED <<pairs, active, stray>> /\ Wanted' = Wanted
  BY DEF Survey, database, switches, Wanted, Ready
<1>3. plan'[w].stop = {r \in existing \cap active : r.key \notin Wanted}
  BY <1>1, ProcSplit DEF PlanFor, TypeOK, SessionOK
<1>4. ASSUME NEW r \in active, r \notin existing
      PROVE  Duplicated(r)
  <2>1. r \in pairs /\ r.key \in Paired
    BY <1>4 DEF TypeOK, DatabaseOK, Paired
  <2>2. Cardinality({q \in existing : q.key = r.key}) = 1
    BY <1>1, <2>1 DEF ExistingPairs
  <2>3. {q \in existing : q.key = r.key} # {}
    BY <2>2, FS_EmptySet
  <2>4. PICK q \in existing : q.key = r.key
    BY <2>3
  <2>5. QED
    BY <1>1, <1>4, <2>4 DEF ExistingPairs, Duplicated
<1>5. QED
  BY <1>2, <1>3, <1>4 DEF Explained, Excused, Duplicated

LEMMA WantedStep == TypeOK /\ TypeOK' /\ WantedInv /\ [Next]_vars => WantedInv'
<1> SUFFICES ASSUME TypeOK, TypeOK', WantedInv, [Next]_vars,
                    NEW w \in Workers, NEW r \in Uses(w)'
             PROVE  Explained(w, r)'
  BY DEF WantedInv
<1>1. /\ todo[w] # {} <=> pc[w] \in Sending \cup {"next"}
      /\ todo'[w] # {} <=> pc'[w] \in Sending \cup {"next"}
  BY DEF TypeOK, SessionOK
<1>2. pc'[w] \notin Unplanned
  BY <1>1 DEF Uses, Unplanned, Sending
<1>3. ASSUME r \notin active, r \in active' PROVE Explained(w, r)'
  BY <1>3, PairStep DEF Explained, Excused
<1>4. CASE pc'[w] = "commit"
  <2>1. r \in active' \ plan'[w].stop
    BY <1>4 DEF Uses
  <2>2. CASE BeginCycle(w)
    BY <2>1, <2>2, SurveyExplains DEF BeginCycle
  <2>3. CASE pc[w] = "commit" /\ plan'[w] = plan[w] /\ r \in active
    <3>1. Explained(w, r)
      BY <2>1, <2>3 DEF WantedInv, Uses
    <3>2. QED
      BY <1>2, <2>1, <2>3, <3>1, ExplanationLasts DEF Unplanned
  <2>4. QED
    BY <1>3, <1>4, <2>1, <2>2, <2>3, Turn
<1>5. CASE pc'[w] = "load"
  <2>1. r \in active'
    BY <1>5 DEF Uses
  <2>2. CASE SyncCommit(w) /\ r \in active
    <3>1. pc[w] = "commit"
      BY <2>2 DEF SyncCommit
    <3>2. CASE r \in plan[w].stop
      <4>1. r \in plan[w].start \cup [key : plan[w].add, by : {w}]
        BY <2>1, <2>2, <3>2 DEF SyncCommit
      <4>2. r.key \in Wanted' \/ r \in stray'
        <5>1. Wanted' = Wanted
          BY <2>2 DEF SyncCommit, switches, Wanted, Ready
        <5>2. QED
          BY <2>2, <4>1, <5>1 DEF SyncCommit
      <4>3. QED
        BY <4>2 DEF Explained, Excused
    <3>3. CASE r \notin plan[w].stop
      <4>1. Explained(w, r)
        BY <2>2, <3>1, <3>3 DEF WantedInv, Uses
      <4>2. QED
        BY <1>2, <2>1, <3>1, <4>1, ExplanationLasts DEF Unplanned
    <3>4. QED
      BY <3>2, <3>3
  <2>3. CASE pc[w] = "load" /\ r \in active
    <3>1. Explained(w, r)
      BY <2>3 DEF WantedInv, Uses
    <3>2. QED
      BY <1>2, <2>1, <2>3, <3>1, ExplanationLasts DEF Unplanned
  <2>4. QED
    BY <1>3, <1>5, <2>1, <2>2, <2>3, Turn
<1>6. CASE pc'[w] \notin {"commit", "load"}
  <2>1. r \in todo'[w]
    BY <1>6 DEF Uses
  <2>2. CASE Load(w) /\ r \notin todo[w]
    <3>1. pc[w] = "load" /\ r \in active /\ active' = active
      BY <2>1, <2>2 DEF Load, TypeOK, SessionOK, database
    <3>2. Explained(w, r)
      BY <3>1 DEF WantedInv, Uses
    <3>3. QED
      BY <1>2, <3>1, <3>2, ExplanationLasts DEF Unplanned
  <2>3. CASE r \in todo[w]
    <3>1. pc[w] \in Sending \cup {"next"} /\ r \in InHand
      BY <1>1, <2>3 DEF InHand
    <3>2. Explained(w, r)
      BY <2>3, <3>1 DEF WantedInv, Uses, Sending
    <3>3. QED
      BY <1>2, <3>1, <3>2, ExplanationLasts DEF Unplanned, Sending
  <2>4. QED
    BY <2>1, <2>2, <2>3, Turn
<1>7. QED
  BY <1>4, <1>5, <1>6

\* After its sync a worker works only on pairs whose mailboxes are ready while
\* warm-up is on, however other syncs, switches and checks interleave, save
\* for the three excuses (sync_pairs, process_all_active_pairs).
THEOREM OnlyWantedPairs == Spec => []OnlyWantedPairsRun
<1>1. Init => WantedInv
  BY ProcSplit DEF Init, WantedInv, Uses
<1>2. WantedInv /\ TypeOK => OnlyWantedPairsRun
  BY DEF WantedInv, Uses, OnlyWantedPairsRun, Explained, TypeOK, SessionOK, Sending
<1>3. QED
  BY <1>1, <1>2, TypeCorrect, WantedStep, PTL DEF Spec

-----------------------------------------------------------------------------
(* Without overlaps.  Two of the excuses are due to syncs that interleave; *)
(* nothing in the code keeps them apart, so these are hypotheses.          *)

\* What a lock around sync_pairs would give: one plan at a time.
SyncsTakeTurns == \A p, q \in Procs : pc[p] = "commit" /\ pc[q] = "commit" => p = q

\* What reading the switch, the mailboxes and the pairs under such a lock and
\* keeping them from changing until the commit would give.
PlansStayCurrent == \A p \in Procs : pc[p] = "commit" => late[p] = {}

\* A unique constraint on the pair's mailboxes, which the table has not.
OneRowPerPair == \A q, r \in pairs : q.key = r.key => q = r

\* A plan is of a survey, or it is the one the process had.
LEMMA PlanUnderWay ==
  ASSUME TypeOK, [Next]_vars, NEW p \in Procs, pc'[p] = "commit"
  PROVE  Survey(p) \/ (pc[p] = "commit" /\ plan'[p] = plan[p])
<1> DEFINE Kept == pc[p] = "commit" /\ plan'[p] = plan[p]
<1>1. pc \in [Procs -> PcValues] /\ plan \in [Procs -> Plan]
  BY DEF TypeOK, SessionOK
<1>2. ASSUME NEW q \in Procs, NEW v, v # "commit", pc' = [pc EXCEPT ![q] = v], plan' = plan
      PROVE  Kept
  BY <1>1, <1>2
<1>3. UNCHANGED <<pc, plan>> => Kept
  OBVIOUS
<1>4. ASSUME NEW q \in Procs, Survey(q) PROVE Survey(p) \/ Kept
  BY <1>1, <1>4 DEF Survey
<1>5. ASSUME NEW q \in Procs, SyncCommit(q) \/ Crash(q) PROVE Kept
  <2>1. PICK v \in {"load", "read", "idle"} : pc' = [pc EXCEPT ![q] = v]
    BY <1>5 DEF SyncCommit, AfterSync, Crash
  <2>2. plan' = [plan EXCEPT ![q] = NoPlan]
    BY <1>5 DEF SyncCommit, Crash
  <2>3. QED
    BY <1>1, <2>1, <2>2
<1>6. ASSUME NEW w \in Workers, BeginCycle(w) \/ CycleStep(w) \/ Send(w) PROVE Survey(p) \/ Kept
  <2>1. CASE BeginCycle(w) \/ SyncCommit(w)
    BY <1>4, <1>5, <2>1, ProcSplit DEF BeginCycle
  <2>2. CASE Load(w) \/ Skip(w) \/ Record(w) \/ RecordFailure(w)
    <3>1. plan' = plan /\ \E v \in {"idle", "next"} : pc' = [pc EXCEPT ![w] = v]
      BY <2>2 DEF Load, Skip, Record, RecordFailure, Done, AfterPair
    <3>2. QED
      BY <1>2, <3>1, ProcSplit
  <2>3. CASE AttemptAny(w) \/ Send(w)
    <3>1. plan' = plan /\ \E v \in Sending : pc' = [pc EXCEPT ![w] = v]
      BY <2>3 DEF AttemptAny, Attempt, Send, SendFails, Deliver, Sending
    <3>2. QED
      BY <1>2, <3>1, ProcSplit DEF Sending
  <2>4. QED
    BY <1>6, <2>1, <2>2, <2>3 DEF CycleStep
<1>7. ASSUME NEW k \in Clients, ClientStep(k) \/ ClientRequest(k) PROVE Survey(p) \/ Kept
  <2>1. CASE SyncRead(k) \/ RunNow(k) \/ SyncCommit(k)
    BY <1>4, <1>5, <2>1, ProcSplit DEF SyncRead, RunNow
  <2>2. CASE ~(SyncRead(k) \/ RunNow(k) \/ SyncCommit(k))
    <3>1. plan' = plan /\ \E v \in {"read", "enable", "disable"} : pc' = [pc EXCEPT ![k] = v]
      BY <1>7, <2>2 DEF ClientStep, ClientRequest, Switch, Start, Pause, SetParticipation, Act
    <3>2. QED
      BY <1>2, <3>1, ProcSplit
  <2>3. QED
    BY <2>1, <2>2
<1>8. ASSUME NEW m \in Mailboxes, EditMailbox(m) \/ Probe(m) PROVE Kept
  BY <1>3, <1>8 DEF EditMailbox, Probe, Act
<1>9. NewDay \/ UNCHANGED vars => Kept
  BY <1>3 DEF NewDay, vars, session
<1>10. QED
  BY <1>5, <1>6, <1>7, <1>8, <1>9 DEF Next

\* Only a commit changes the rows, their activity or what is stray.
LEMMA RowsAreOfACommit ==
  ASSUME [Next]_vars
  PROVE  UNCHANGED <<pairs, active, stray>> \/ \E p \in Procs : SyncCommit(p)
BY ProcSplit
   DEF Next, BeginCycle, CycleStep, Send, ClientStep, ClientRequest, Survey, Load, Skip,
       AttemptAny, Attempt, Deliver, SendFails, Record, RecordFailure, Crash, NewDay, Act,
       Start, Pause, SetParticipation, RunNow, Switch, SyncRead, EditMailbox, Probe,
       vars, database, history

\* OneRowPerPair is not inductive: a plan must add only keys that have no row
\* yet at the moment of its commit, and it does while no other plan commits.
RowsInv ==
  /\ OneRowPerPair
  /\ \A p \in Procs : pc[p] = "commit" => plan[p].add \cap Paired = {}

LEMMA RowsStep == TypeOK /\ SyncsTakeTurns /\ RowsInv /\ [Next]_vars => RowsInv'
<1> SUFFICES ASSUME TypeOK, SyncsTakeTurns, RowsInv, [Next]_vars
             PROVE  RowsInv'
  OBVIOUS
<1>1. ASSUME NEW p \in Procs, Survey(p) PROVE plan'[p].add \cap Paired' = {}
  <2>1. plan'[p].add = Wanted \ Paired
    <3>1. PICK existing \in ExistingPairs : plan' = [plan EXCEPT ![p] = PlanFor(existing)]
      BY <1>1 DEF Survey
    <3>2. plan'[p] = PlanFor(existing)
      BY <3>1 DEF TypeOK, SessionOK
    <3>3. QED
      BY <3>2 DEF PlanFor
  <2>2. Paired' = Paired
    BY <1>1 DEF Survey, database, Paired
  <2>3. QED
    BY <2>1, <2>2
<1>2. CASE UNCHANGED <<pairs, active, stray>>
  <2>1. Paired' = Paired /\ OneRowPerPair'
    BY <1>2 DEF Paired, OneRowPerPair, RowsInv
  <2>2. ASSUME NEW p \in Procs, pc'[p] = "commit" PROVE plan'[p].add \cap Paired' = {}
    BY <1>1, <2>1, <2>2, PlanUnderWay DEF RowsInv
  <2>3. QED
    BY <2>1, <2>2 DEF RowsInv
<1>3. ASSUME NEW p \in Procs, SyncCommit(p) PROVE RowsInv'
  <2> DEFINE new == [key : plan[p].add, by : {p}]
  <2>1. pc[p] = "commit" /\ pairs' = pairs \cup new
    BY <1>3 DEF SyncCommit
  <2>2. plan[p].add \cap Paired = {}
    BY <2>1 DEF RowsInv
  <2>3. ASSUME NEW q \in pairs', NEW r \in pairs', q.key = r.key PROVE q = r
    <3>1. CASE q \in pairs /\ r \in pairs
      BY <2>3, <3>1 DEF RowsInv, OneRowPerPair
    <3>2. CASE q \in new /\ r \in new
      BY <2>3, <3>2
    <3>3. CASE q \in new /\ r \in pairs
      BY <2>2, <2>3, <3>3 DEF Paired
    <3>4. CASE q \in pairs /\ r \in new
      BY <2>2, <2>3, <3>4 DEF Paired
    <3>5. QED
      BY <2>1, <2>3, <3>1, <3>2, <3>3, <3>4
  <2>4. ASSUME NEW q \in Procs PROVE pc'[q] # "commit"
    <3>1. PICK v \in {"load", "read", "idle"} : pc' = [pc EXCEPT ![p] = v]
      BY <1>3 DEF SyncCommit, AfterSync
    <3>2. q = p \/ pc[q] # "commit"
      BY <2>1 DEF SyncsTakeTurns
    <3>3. pc \in [Procs -> PcValues]
      BY DEF TypeOK, SessionOK
    <3>4. QED
      BY <3>1, <3>2, <3>3
  <2>5. QED
    BY <2>3, <2>4 DEF RowsInv, OneRowPerPair
<1>4. QED
  BY <1>2, <1>3, RowsAreOfACommit

\* If syncs take their turns, warm-up keeps one row per pair of mailboxes,
\* though no constraint of the table asks for it and every process may insert
\* (sync_pairs, WarmupPair).
THEOREM PairsStayUnique == Spec /\ []SyncsTakeTurns => []OneRowPerPair
<1>1. Init => RowsInv
  <2> SUFFICES ASSUME Init PROVE RowsInv
    OBVIOUS
  <2>1. PICK p : pairs = {} \/ pairs = [key : Keys, by : {p}]
    BY DEF Init
  <2>2. OneRowPerPair
    <3>1. \A q \in [key : Keys, by : {p}] : q = [key |-> q.key, by |-> p]
      OBVIOUS
    <3>2. \A q, r \in [key : Keys, by : {p}] : q.key = r.key => q = r
      BY <3>1, Zenon
    <3>3. QED
      BY <2>1, <3>2 DEF OneRowPerPair
  <2>3. \A q \in Procs : pc[q] = "idle"
    BY DEF Init
  <2>4. QED
    BY <2>2, <2>3 DEF RowsInv
<1>2. RowsInv => OneRowPerPair
  BY DEF RowsInv
<1>3. QED
  BY <1>1, <1>2, TypeCorrect, RowsStep, PTL DEF Spec

\* A plan activates rows of pairs that are wanted, or that stopped being so
\* since the survey; and where plans stay current there are no strays.
CurrentInv ==
  /\ \A p \in Procs : pc[p] = "commit" =>
        /\ plan[p].add \subseteq Wanted \cup late[p]
        /\ \A r \in plan[p].start : r.key \in Wanted \cup late[p]
  /\ stray = {}

LEMMA CurrentStep == TypeOK /\ PlansStayCurrent /\ CurrentInv /\ [Next]_vars => CurrentInv'
<1> SUFFICES ASSUME TypeOK, PlansStayCurrent, CurrentInv, [Next]_vars
             PROVE  CurrentInv'
  OBVIOUS
<1>1. ASSUME NEW p \in Procs, pc'[p] = "commit"
      PROVE  /\ plan'[p].add \subseteq Wanted' \cup late'[p]
             /\ \A r \in plan'[p].start : r.key \in Wanted' \cup late'[p]
  <2>1. CASE Survey(p)
    <3>1. PICK existing \in ExistingPairs : plan' = [plan EXCEPT ![p] = PlanFor(existing)]
      BY <2>1 DEF Survey
    <3>2. plan'[p] = PlanFor(existing)
      BY <3>1 DEF TypeOK, SessionOK
    <3>3. Wanted' = Wanted
      BY <2>1 DEF Survey, database, switches, Wanted, Ready
    <3>4. QED
      BY <3>2, <3>3 DEF PlanFor
  <2>2. CASE pc[p] = "commit" /\ plan'[p] = plan[p]
    <3>1. Wanted \cup late[p] \subseteq Wanted' \cup late'[p]
      BY <1>1, <2>2, LossIsRecorded DEF Unplanned
    <3>2. QED
      BY <2>2, <3>1 DEF CurrentInv
  <2>3. QED
    BY <1>1, <2>1, <2>2, PlanUnderWay
<1>2. stray' = {}
  <2>1. ASSUME NEW p \in Procs, SyncCommit(p) PROVE stray' = {}
    <3> DEFINE started == plan[p].start \cup [key : plan[p].add, by : {p}]
    <3>1. pc[p] = "commit" /\ late[p] = {}
      BY <2>1 DEF SyncCommit, PlansStayCurrent
    <3>2. \A r \in started : r.key \in Wanted
      BY <3>1 DEF CurrentInv
    <3>3. stray' = (stray \ ((started \cup plan[p].stop) \ InHand))
                     \cup {r \in started : r.key \notin Wanted}
      BY <2>1 DEF SyncCommit
    <3> HIDE DEF started
    <3>4. QED
      BY <3>2, <3>3 DEF CurrentInv
  <2>2. QED
    BY <2>1, RowsAreOfACommit DEF CurrentInv
<1>3. QED
  BY <1>1, <1>2 DEF CurrentInv

\* What OnlyWantedPairsRun says once neither strays nor second rows excuse.
OnlyWantedOrLatePairsRun ==
  \A w \in Workers :
    \A r \in IF pc[w] = "load" THEN active ELSE todo[w] : r.key \in Wanted \cup late[w]

\* If syncs take their turns and nothing they read changes before they commit,
\* a worker only works on pairs that are ready, or that stopped being so after
\* it planned its own cycle: no other process can make it send over a pair
\* that was switched off before (sync_pairs, process_all_active_pairs).
THEOREM OnlyWantedPairsInTurn ==
  Spec /\ []SyncsTakeTurns /\ []PlansStayCurrent => []OnlyWantedOrLatePairsRun
<1>1. Init => CurrentInv
  BY DEF Init, CurrentInv
<1>2. OnlyWantedPairsRun /\ OneRowPerPair /\ CurrentInv /\ TypeOK => OnlyWantedOrLatePairsRun
  <2> SUFFICES ASSUME OnlyWantedPairsRun, OneRowPerPair, CurrentInv, TypeOK,
                      NEW w \in Workers,
                      NEW r \in IF pc[w] = "load" THEN active ELSE todo[w]
               PROVE  r.key \in Wanted \cup late[w]
    BY DEF OnlyWantedOrLatePairsRun
  <2>1. r.key \in Wanted \/ Excused(w, r)
    BY DEF OnlyWantedPairsRun
  <2>2. r \in pairs
    BY DEF TypeOK, DatabaseOK, SessionOK
  <2>3. ~Duplicated(r) /\ r \notin stray
    BY <2>2 DEF Duplicated, OneRowPerPair, CurrentInv
  <2>4. QED
    BY <2>1, <2>3 DEF Excused
<1>3. QED
  BY <1>1, <1>2, TypeCorrect, CurrentStep, OnlyWantedPairs, PairsStayUnique, PTL DEF Spec
=============================================================================
