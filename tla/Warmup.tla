------------------------------- MODULE Warmup -------------------------------
(***************************************************************************)
(* Warm-up: mailboxes that take part mail each other.  A sync makes one    *)
(* active pair of every two ready mailboxes and deactivates the others; a  *)
(* worker's cycle syncs, loads the active pairs and tries to send over     *)
(* each of them; the HTTP handlers start and pause, change participation   *)
(* and queue passes, and they sync too.                                    *)
(*                                                                         *)
(* An action is one database transaction or one network call, and any      *)
(* other process may commit between two of them.  A session writes only    *)
(* the values that differ from the ones it loaded.                         *)
(***************************************************************************)
EXTENDS Integers, FiniteSets

CONSTANTS
  Workers,     \* Celery worker processes
  Clients,     \* threads that serve HTTP requests
  Mailboxes,
  Limits,      \* what get_daily_limit may answer; it draws at random
  DailyLimit,  \* the largest of these answers
  Observed,    \* the mailbox the quota and the liveness property look at
  Null,        \* no pair in hand
  MaxOps,      \* bound: actions of operators and of the environment
  MaxCrashes   \* bound: process crashes

Procs == Workers \cup Clients
Keys == {key \in Mailboxes \X Mailboxes : key[1] # key[2]}

\* A row of warmup_pairs: its key, and the process that inserted it.  No
\* constraint of the table makes the key unique.
PairRow == [key : Keys, by : Procs]
Plan == [start : SUBSET PairRow, stop : SUBSET PairRow, add : SUBSET Keys]

ASSUME WarmupAssumption ==
  /\ Workers \cap Clients = {}
  /\ DailyLimit \in Nat
  /\ Limits \subseteq 0 .. DailyLimit
  /\ Observed \in Mailboxes
  /\ Null \notin PairRow
  /\ {MaxOps, MaxCrashes} \subseteq Nat

VARIABLES
  \* the database
  enabled,  \* warmup_settings.is_enabled
  usable,   \* mailboxes that are active and whose provider resolves
  willing,  \* mailboxes with warmup_enabled
  healthy,  \* mailboxes with smtp_last_check_status = "healthy"
  pairs,    \* the rows of warmup_pairs
  active,   \* those with is_active
  sent,     \* each mailbox's successful events dated today
  \* the sessions of the processes
  pc, plan,
  again,    \* handlers that sync once more
  todo,     \* the pairs a worker loaded and has not dealt with
  task,     \* the pair it sends over
  today,    \* workers whose queued event is dated today
  \* history
  sentBy,   \* the part of sent[Observed] each worker recorded
  late,     \* keys that stopped being wanted since the process planned
  stray,    \* rows that a commit activated when they were not wanted any more
  \* what is left of the bounds
  ops, crashes

switches == <<enabled, usable, willing, healthy>>
database == <<switches, pairs, active, sent>>
session == <<pc, plan, again, todo, task, today>>
history == <<sentBy, late, stray>>
vars == <<database, session, history, ops, crashes>>

-----------------------------------------------------------------------------
(* Synchronising the pairs with the mailboxes.                             *)

NoPlan == [start |-> {}, stop |-> {}, add |-> {}]

Unplanned == {"idle", "enable", "disable", "read"}

Ready == usable \cap willing \cap healthy

\* Two different mailboxes are two ready ones.
Wanted == {key \in Keys : enabled /\ key[1] \in Ready /\ key[2] \in Ready}

Paired == {r.key : r \in pairs}

\* existing_pairs keeps one row per key, whichever the query returned last.
ExistingPairs == {S \in SUBSET pairs : \A key \in Paired : Cardinality({r \in S : r.key = key}) = 1}

\* Mutant: pairs are only ever switched off.
PlanWithoutStart(existing) ==
  [start |-> {}, stop |-> {r \in existing \cap active : r.key \notin Wanted}, add |-> Wanted \ Paired]

\* Mutant: a pair whose mailbox is not ready any more stays active.
PlanWithoutStop(existing) ==
  [start |-> {r \in existing \ active : r.key \in Wanted}, stop |-> {}, add |-> Wanted \ Paired]

\* Mutant: pairs that exist are added once more.
PlanIgnoringExisting(existing) ==
  [start |-> {r \in existing \ active : r.key \in Wanted},
   stop |-> {r \in existing \cap active : r.key \notin Wanted},
   add |-> Wanted]

PlanFor(existing) ==
  [start |-> {r \in existing \ active : r.key \in Wanted},
   stop |-> {r \in existing \cap active : r.key \notin Wanted},
   add |-> Wanted \ Paired]

\* The reads of sync_pairs: the switch, the mailboxes, the pairs.
Survey(p) ==
  /\ \E existing \in ExistingPairs : plan' = [plan EXCEPT ![p] = PlanFor(existing)]
  /\ pc' = [pc EXCEPT ![p] = "commit"]
  /\ late' = [late EXCEPT ![p] = {}]
  /\ UNCHANGED <<database, again, todo, task, today, sentBy, stray, crashes>>

\* A handler's sync.
SyncRead(p) == pc[p] = "read" /\ Survey(p) /\ UNCHANGED ops

\* The pairs some worker still works on.
InHand == UNION {todo[w] : w \in Workers}

\* Nothing is late for a process that is through.
Settle(p) == late' = [late EXCEPT ![p] = IF pc'[p] = "idle" THEN {} ELSE @]

\* What is lost while a process has a plan or pairs.
Lose == late' = [p \in Procs |-> IF pc[p] \in Unplanned THEN {} ELSE late[p] \cup (Wanted \ Wanted')]

AfterSync(p) == IF p \in Workers THEN "load" ELSE IF p \in again THEN "read" ELSE "idle"

SyncCommit(p) ==
  LET new == [key : plan[p].add, by : {p}]
      started == plan[p].start \cup new
  IN /\ pc[p] = "commit"
     /\ pairs' = pairs \cup new
     /\ active' = (active \ plan[p].stop) \cup started
     /\ stray' = (stray \ ((started \cup plan[p].stop) \ InHand))
                   \cup {r \in started : r.key \notin Wanted}
     /\ plan' = [plan EXCEPT ![p] = NoPlan]
     /\ pc' = [pc EXCEPT ![p] = AfterSync(p)]
     /\ again' = again \ {p}
     /\ Settle(p)
     /\ UNCHANGED <<switches, sent, todo, task, today, sentBy, ops, crashes>>

-----------------------------------------------------------------------------
(* The cycle of a worker.                                                  *)

\* The beat or a queued pass runs process_all_active_pairs.
BeginCycle(w) == pc[w] = "idle" /\ enabled /\ Survey(w) /\ UNCHANGED ops

AfterPair(w, left) == IF left = {} THEN "idle" ELSE "next"

Load(w) ==
  /\ pc[w] = "load"
  /\ todo' = [todo EXCEPT ![w] = active]
  /\ pc' = [pc EXCEPT ![w] = AfterPair(w, active)]
  /\ Settle(w)
  /\ UNCHANGED <<database, plan, again, task, today, sentBy, stray, ops, crashes>>

\* A pair is dealt with: its event is committed and the worker turns to the
\* next one.
Done(w, r) ==
  /\ todo' = [todo EXCEPT ![w] = @ \ {r}]
  /\ task' = [task EXCEPT ![w] = Null]
  /\ today' = today \ {w}
  /\ pc' = [pc EXCEPT ![w] = AfterPair(w, todo[w] \ {r})]
  /\ Settle(w)

\* By chance, unless the pass is forced, or at the limit.
Skip(w) ==
  /\ pc[w] = "next"
  /\ \E r \in todo[w] : Done(w, r)
  /\ UNCHANGED <<database, plan, again, sentBy, stray, ops, crashes>>

\* Mutant: the successes of today are not counted.
AttemptUncounted(w, m) ==
  /\ pc[w] = "next"
  /\ \E r \in todo[w] : r.key[1] = m /\ task' = [task EXCEPT ![w] = r]
  /\ today' = today \cup {w}
  /\ pc' = [pc EXCEPT ![w] = "send"]
  /\ UNCHANGED <<database, plan, again, todo, history, ops, crashes>>

\* The sender m is below its limit: the event is committed as queued.
Attempt(w, m) ==
  /\ pc[w] = "next"
  /\ \E limit \in Limits : sent[m] < limit
  /\ \E r \in todo[w] : r.key[1] = m /\ task' = [task EXCEPT ![w] = r]
  /\ today' = today \cup {w}
  /\ pc' = [pc EXCEPT ![w] = "send"]
  /\ UNCHANGED <<database, plan, again, todo, history, ops, crashes>>

Sender(w) == task[w].key[1]

\* send_email looks at the sender again, though not at warm-up's own switches.
Deliver(w, m) ==
  /\ pc[w] = "send"
  /\ m = Sender(w)
  /\ m \in usable
  /\ healthy' = healthy \cup {m}
  /\ pc' = [pc EXCEPT ![w] = "record"]
  /\ UNCHANGED <<enabled, usable, willing, pairs, active, sent, plan, again, todo, task, today,
                 history, ops, crashes>>

\* Refused because the mailbox is not usable, or in the middle of the call
\* (healthy stays), or answered with a failure.
SendFails(w) ==
  /\ pc[w] = "send"
  /\ \/ UNCHANGED <<switches, late>>
     \/ /\ Sender(w) \in usable
        /\ healthy' = healthy \ {Sender(w)}
        /\ UNCHANGED <<enabled, usable, willing>>
        /\ Lose
  /\ pc' = [pc EXCEPT ![w] = "fail"]
  /\ UNCHANGED <<pairs, active, sent, plan, again, todo, task, today, sentBy, stray, ops, crashes>>

\* The event becomes a success; its date is when it was queued.
Record(w) ==
  /\ pc[w] = "record"
  /\ sent' = IF w \in today THEN [sent EXCEPT ![Sender(w)] = @ + 1] ELSE sent
  /\ sentBy' = IF w \in today /\ Sender(w) = Observed THEN [sentBy EXCEPT ![w] = @ + 1] ELSE sentBy
  /\ Done(w, task[w])
  /\ UNCHANGED <<switches, pairs, active, plan, again, stray, ops, crashes>>

RecordFailure(w) ==
  /\ pc[w] = "fail"
  /\ Done(w, task[w])
  /\ UNCHANGED <<database, plan, again, sentBy, stray, ops, crashes>>

\* A process dies, or an exception ends its cycle or its request.
Crash(p) ==
  /\ pc[p] # "idle"
  /\ crashes > 0
  /\ crashes' = crashes - 1
  /\ pc' = [pc EXCEPT ![p] = "idle"]
  /\ plan' = [plan EXCEPT ![p] = NoPlan]
  /\ again' = again \ {p}
  /\ todo' = [w \in Workers |-> IF w = p THEN {} ELSE todo[w]]
  /\ task' = [w \in Workers |-> IF w = p THEN Null ELSE task[w]]
  /\ today' = today \ {p}
  /\ Settle(p)
  /\ UNCHANGED <<database, sentBy, stray, ops>>

\* Midnight UTC.
NewDay ==
  /\ sent' = [m \in Mailboxes |-> 0]
  /\ sentBy' = [w \in Workers |-> 0]
  /\ today' = {}
  /\ UNCHANGED <<switches, pairs, active, pc, plan, again, todo, task, late, stray, ops, crashes>>

-----------------------------------------------------------------------------
(* The operator, through handlers that sync, and the environment.          *)

\* One of the bounded actions; it may change what is wanted.
Act ==
  /\ ops > 0
  /\ ops' = ops - 1
  /\ Lose
  /\ UNCHANGED <<pairs, active, sent, plan, todo, task, today, sentBy, stray, crashes>>

\* POST start syncs twice: in set_global_enabled and for the status it answers.
\* The switch is written only if it was loaded as off.
Start(k) ==
  /\ pc[k] = "idle"
  /\ pc' = [pc EXCEPT ![k] = IF enabled THEN "read" ELSE "enable"]
  /\ again' = again \cup {k}
  /\ UNCHANGED switches
  /\ Act

\* POST pause and POST stop.
Pause(k) ==
  /\ pc[k] = "idle"
  /\ pc' = [pc EXCEPT ![k] = IF enabled THEN "disable" ELSE "read"]
  /\ UNCHANGED <<switches, again>>
  /\ Act

\* PATCH warmup of a mailbox.
SetParticipation(k, m) ==
  /\ pc[k] = "idle"
  /\ \/ m \in willing /\ willing' = willing \ {m}
     \/ m \notin willing /\ willing' = willing \cup {m}
  /\ pc' = [pc EXCEPT ![k] = "read"]
  /\ UNCHANGED <<enabled, usable, healthy, again>>
  /\ Act

\* POST run-now, unless a blocker refuses it; the job log's commit writes the
\* sync.  What GET status, GET pairs and refused requests sync is rolled back.
RunNow(k) ==
  /\ pc[k] = "idle"
  /\ ops > 0
  /\ ops' = ops - 1
  /\ enabled
  /\ Cardinality(Ready) >= 2
  /\ willing \subseteq Ready
  /\ Survey(k)

\* The commit of set_global_enabled.
Switch(k) ==
  /\ \/ pc[k] = "enable" /\ enabled' = TRUE
     \/ pc[k] = "disable" /\ enabled' = FALSE
  /\ pc' = [pc EXCEPT ![k] = "read"]
  /\ Lose
  /\ UNCHANGED <<usable, willing, healthy, pairs, active, sent, plan, again, todo, task, today,
                 sentBy, stray, ops, crashes>>

\* PUT mailbox, or the provider's settings.
EditMailbox(m) ==
  /\ \/ m \in usable /\ usable' = usable \ {m}
     \/ m \notin usable /\ usable' = usable \cup {m}
  /\ UNCHANGED <<enabled, willing, healthy, pc, again>>
  /\ Act

\* The SMTP check of a mailbox, or another message it sends.
Probe(m) ==
  /\ \/ m \in healthy /\ healthy' = healthy \ {m}
     \/ m \notin healthy /\ healthy' = healthy \cup {m}
  /\ UNCHANGED <<enabled, usable, willing, pc, again>>
  /\ Act

-----------------------------------------------------------------------------

\* Warm-up is new, or it was in use, is paused or its mailboxes just recovered.
Init ==
  /\ enabled \in BOOLEAN
  /\ usable = Mailboxes /\ willing = Mailboxes
  /\ healthy \in SUBSET Mailboxes
  /\ pairs \in {{}} \cup {[key : Keys, by : {p}] : p \in Procs}
  /\ active = {}
  /\ sent = [m \in Mailboxes |-> 0]
  /\ pc = [p \in Procs |-> "idle"]
  /\ plan = [p \in Procs |-> NoPlan]
  /\ again = {}
  /\ todo = [w \in Workers |-> {}]
  /\ task = [w \in Workers |-> Null]
  /\ today = {}
  /\ sentBy = [w \in Workers |-> 0]
  /\ late = [p \in Procs |-> {}]
  /\ stray = {}
  /\ ops = MaxOps /\ crashes = MaxCrashes

AttemptAny(w) == \E m \in Mailboxes : Attempt(w, m)
Send(w) == SendFails(w) \/ \E m \in Mailboxes : Deliver(w, m)

\* A step of a worker's cycle, apart from what the SMTP server does.
CycleStep(w) ==
  SyncCommit(w) \/ Load(w) \/ Skip(w) \/ AttemptAny(w) \/ Record(w) \/ RecordFailure(w)

ClientStep(k) == Switch(k) \/ SyncRead(k) \/ SyncCommit(k)

ClientRequest(k) ==
  Start(k) \/ Pause(k) \/ RunNow(k) \/ \E m \in Mailboxes : SetParticipation(k, m)

Next ==
  \/ \E w \in Workers : BeginCycle(w) \/ CycleStep(w) \/ Send(w)
  \/ \E k \in Clients : ClientStep(k) \/ ClientRequest(k)
  \/ \E p \in Procs : Crash(p)
  \/ \E m \in Mailboxes : EditMailbox(m) \/ Probe(m)
  \/ NewDay

Spec == Init /\ [][Next]_vars

\* A worker that runs goes on; beat issues a pass every 900 s; days pass; a
\* pair that gets its turn again and again is not skipped by chance for ever
\* (random.random() > 0.3), and SMTP failures are transient.
Fairness ==
  /\ \A w \in Workers :
       /\ WF_vars(BeginCycle(w))
       /\ WF_vars(CycleStep(w))
       /\ WF_vars(Send(w))
       /\ \A m \in Mailboxes : SF_vars(Attempt(w, m)) /\ SF_vars(Deliver(w, m))
  /\ WF_vars(NewDay)

FairSpec == Spec /\ Fairness

-----------------------------------------------------------------------------
(* Properties.                                                             *)

Sending == {"send", "record", "fail"}
PcValues == {"idle", "read", "commit", "enable", "disable", "load", "next"} \cup Sending

DatabaseOK ==
  /\ enabled \in BOOLEAN
  /\ usable \subseteq Mailboxes /\ willing \subseteq Mailboxes /\ healthy \subseteq Mailboxes
  /\ pairs \subseteq PairRow
  /\ active \subseteq pairs
  /\ sent \in [Mailboxes -> Nat]

\* A plan adds only keys that a process has not added before.
SessionOK ==
  /\ pc \in [Procs -> PcValues]
  /\ plan \in [Procs -> Plan]
  /\ \A p \in Procs : plan[p].start \cup plan[p].stop \subseteq pairs
                      /\ [key : plan[p].add, by : {p}] \cap pairs = {}
  /\ again \subseteq Clients
  /\ todo \in [Workers -> SUBSET pairs]
  /\ task \in [Workers -> pairs \cup {Null}]
  /\ today \subseteq Workers
  /\ \A w \in Workers : /\ task[w] \in todo[w] \cup {Null}
                        /\ pc[w] \in Sending <=> task[w] # Null
                        /\ pc[w] \in Sending \cup {"next"} <=> todo[w] # {}

HistoryOK ==
  /\ sentBy \in [Workers -> Nat]
  /\ late \in [Procs -> SUBSET Keys]
  /\ stray \subseteq pairs
  /\ ops \in Nat /\ crashes \in Nat

\* The types; a plan is about rows that exist or that its process may insert,
\* and a worker has a pair in hand exactly while it sends.
TypeOK == DatabaseOK /\ SessionOK /\ HistoryOK

\* The limit of one mailbox as the abstract quota states it: a queued event is
\* a claim of one.
Claims(w) == IF pc[w] \in Sending /\ Sender(w) = Observed THEN 1 ELSE 0
Quota == INSTANCE DailyQuota
           WITH spent <- sent[Observed], spentBy <- sentBy, claim <- [w \in Workers |-> Claims(w)]
ImplementsQuota == Quota!Spec

\* With one worker process a mailbox stays within its warm-up limit.
SoleWorkerWithinLimit ==
  \A w \in Workers : Workers = {w} => sent[Observed] + Claims(w) <= DailyLimit

\* With n of them it stays within n times that.
FleetWithinLimit == sent[Observed] <= Cardinality(Workers) * DailyLimit

Duplicated(r) == \E q \in pairs : q.key = r.key /\ q # r

\* The excuses for working on a pair that is not wanted: it was wanted when the
\* process planned; a commit of another process, out of date, activated it; or
\* a second row of its key hid it from the sync.
Excused(p, r) == r.key \in late[p] \/ r \in stray \/ Duplicated(r)

\* After its own sync a worker uses a pair only if warm-up is on and both
\* mailboxes are ready, or with one of these excuses.
OnlyWantedPairsRun ==
  \A w \in Workers :
    \A r \in IF pc[w] = "load" THEN active ELSE todo[w] : r.key \in Wanted \/ Excused(w, r)

\* While warm-up is on and the mailbox and some partner are ready, the mailbox
\* sends again and again: what a sync deactivated comes back by itself.
ReadyMailboxWarmsUp ==
  <>[](\E key \in Wanted : key[1] = Observed)
    => []<>(\E w \in Workers : pc[w] = "record" /\ Sender(w) = Observed)

=============================================================================
