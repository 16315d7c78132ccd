-------------------------- MODULE CampaignDispatch --------------------------
(***************************************************************************)
(* One campaign's outreach: attached-list synchronisation, the dispatch    *)
(* cycle of the Celery workers, and the HTTP handlers that change the same *)
(* rows while a cycle runs.                                                *)
(*                                                                         *)
(* An action is one database transaction or one network call; between two  *)
(* of them any other process may commit.  The isolation is READ COMMITTED, *)
(* a commit expires what a session has loaded, and UPDATE and DELETE are   *)
(* by primary key.                                                         *)
(***************************************************************************)
EXTENDS Integers, FiniteSets

CONSTANTS
  Workers,      \* Celery worker processes
  Clients,      \* threads that serve HTTP requests
  Contacts,     \* people in the contacts table
  Leads,        \* primary keys for campaign_leads rows
  DailyLimit,   \* campaign.daily_limit
  MaxStep,      \* largest step_number in use
  Sequences,    \* the sets of step numbers the operator may save
  StopOnReply,  \* the step numbers saved with stop_on_reply
  Null,         \* no lead in hand
  MaxMail,      \* bound: where the history counters saturate
  MaxOps,       \* bound: operator and recipient actions
  MaxCrashes    \* bound: process crashes

Steps == 1 .. MaxStep
Procs == Workers \cup Clients

LeadStatus == {"scheduled", "sent", "failed", "replied"}
LeadRow == [contact : Contacts, status : LeadStatus, step : Steps, due : BOOLEAN]
Task == [lead : Leads, contact : Contacts, step : Steps, today : BOOLEAN]
SyncPlan == [drop : SUBSET Leads, reset : SUBSET Leads, add : SUBSET Contacts]
CampaignStatus == {"draft", "active", "paused", "archived"}

ASSUME DispatchAssumption ==
  /\ Workers \cap Clients = {}
  /\ IsFiniteSet(Leads)
  /\ DailyLimit \in Nat \ {0}
  /\ MaxStep \in Nat \ {0}
  /\ \A seq \in Sequences : 1 \in seq /\ seq \subseteq Steps
  /\ Null \notin Task
  /\ {MaxMail, MaxOps, MaxCrashes} \subseteq Nat

VARIABLES
  \* the database
  status,      \* campaign.status
  sequence,    \* step numbers of campaign.sequence_steps
  attached,    \* is the contact list attached to the campaign?
  members,     \* contacts on that list
  blocked,     \* contacts evaluate_contact_for_campaign refuses
  replied,     \* contacts with last_replied_at
  leads,       \* campaign_leads: primary key -> row
  sentToday,   \* today's successful send_logs with this campaign_id
  \* the sessions of the processes
  pc, plan, starting, seen, batch, task,
  \* history
  mail,        \* deliveries of each step to each contact
  sentBy,      \* the part of sentToday each worker recorded
  forgotten,   \* deliveries to a contact that the lead rows do not show
  late,        \* contacts blocked after the worker selected its batch
  unheard,     \* workers whose recipient replied after the worker looked
  \* what is left of the bounds
  ops, crashes

database == <<status, sequence, attached, members, blocked, replied, leads, sentToday>>
session == <<pc, plan, starting, seen, batch, task>>
history == <<mail, sentBy, forgotten, late, unheard>>
vars == <<database, session, history, ops, crashes>>

-----------------------------------------------------------------------------
(* Synchronising the leads with the attached list.                         *)

NoPlan == [drop |-> {}, reset |-> {}, add |-> {}]

Rows == DOMAIN leads
HasRow == {leads[l].contact : l \in Rows}

\* existing_by_contact keeps one row per contact, whichever the query
\* returned last.
ExistingByContact == {e \in [HasRow -> Rows] : \A c \in HasRow : leads[e[c]].contact = c}

\* Mutant: failed leads are not scheduled again.
PlanWithoutRetry(existing) ==
  LET scheduled == {c \in HasRow : leads[existing[c]].status = "scheduled"}
      target == members \ blocked
  IN [drop |-> {existing[c] : c \in scheduled \ target}, reset |-> {}, add |-> target \ HasRow]

PlanFor(existing) ==
  LET scheduled == {c \in HasRow : leads[existing[c]].status = "scheduled"}
      failed == {c \in HasRow : leads[existing[c]].status = "failed"}
      target == members \ blocked
  IN [drop |-> {existing[c] : c \in scheduled \ target},
      reset |-> {existing[c] : c \in failed \cap target},
      add |-> target \ HasRow]

\* Keys are never reused, so a row a session still refers to keeps its key.
Referenced == UNION {batch[w] : w \in Workers}
              \cup UNION {plan[p].drop \cup plan[p].reset : p \in Procs}
FreshKeys == Leads \ (Rows \cup Referenced)

NewLead(c) == [contact |-> c, status |-> "scheduled", step |-> 1, due |-> TRUE]

\* The table after the commit of a plan: keys tells the key of each new row.
Synced(p, keys) ==
  LET added == {keys[c] : c \in plan[p].add}
  IN [l \in (Rows \ plan[p].drop) \cup added |->
        IF l \in added THEN NewLead(CHOOSE c \in plan[p].add : keys[c] = l)
        ELSE IF l \in plan[p].reset THEN [leads[l] EXCEPT !.status = "scheduled"]
        ELSE leads[l]]

Mailed(c) == \E s \in Steps : mail[c][s] > 0

\* The contacts of the mailed rows in S: deleting these rows forgets them.
MailedAmong(S) == {c \in Contacts : Mailed(c) /\ \E l \in S \cap Rows : leads[l].contact = c}

Count(n) == IF n < MaxMail THEN n + 1 ELSE n

Forget(C) == forgotten' = [c \in Contacts |-> IF c \in C THEN Count(forgotten[c]) ELSE forgotten[c]]

AfterSync(p) == IF p \in Workers THEN "select" ELSE IF p \in starting THEN "admit" ELSE "idle"

\* Nothing is attached: sync_campaign_leads returns before it touches a lead.
SyncSkip(p) ==
  /\ pc[p] = "sync"
  /\ ~attached
  /\ pc' = [pc EXCEPT ![p] = AfterSync(p)]
  /\ UNCHANGED <<database, plan, starting, seen, batch, task, history, ops, crashes>>

\* The reads of sync_campaign_leads.
SyncRead(p) ==
  /\ pc[p] = "sync"
  /\ attached
  /\ \E existing \in ExistingByContact : plan' = [plan EXCEPT ![p] = PlanFor(existing)]
  /\ pc' = [pc EXCEPT ![p] = "syncing"]
  /\ UNCHANGED <<database, starting, seen, batch, task, history, ops, crashes>>

\* Its commit, after which a start handler has the campaign afresh.  Deleting a
\* row that is gone only warns.
SyncCommit(p) ==
  /\ pc[p] = "syncing"
  /\ plan[p].reset \subseteq Rows
  /\ \E keys \in [plan[p].add -> FreshKeys] :
       /\ \A c, d \in plan[p].add : keys[c] = keys[d] => c = d
       /\ leads' = Synced(p, keys)
  /\ Forget(MailedAmong(plan[p].drop))
  /\ plan' = [plan EXCEPT ![p] = NoPlan]
  /\ seen' = [k \in Clients |-> IF k = p /\ k \in starting THEN status ELSE seen[k]]
  /\ pc' = [pc EXCEPT ![p] = AfterSync(p)]
  /\ UNCHANGED <<status, sequence, attached, members, blocked, replied, sentToday,
                 starting, batch, task, mail, sentBy, late, unheard, ops, crashes>>

-----------------------------------------------------------------------------
(* Leaving a cycle or a request: the session is closed.                    *)

CloseSession(p) ==
  /\ pc' = [pc EXCEPT ![p] = "idle"]
  /\ plan' = [plan EXCEPT ![p] = NoPlan]
  /\ starting' = starting \ {p}
  /\ seen' = [k \in Clients |-> IF k = p THEN "draft" ELSE seen[k]]
  /\ batch' = [w \in Workers |-> IF w = p THEN {} ELSE batch[w]]
  /\ task' = [w \in Workers |-> IF w = p THEN Null ELSE task[w]]
  /\ late' = [w \in Workers |-> IF w = p THEN {} ELSE late[w]]
  /\ unheard' = unheard \ {p}

\* A row this sync wants to reset was deleted meanwhile: StaleDataError, and
\* the whole transaction is rolled back.
SyncStale(p) ==
  /\ pc[p] = "syncing"
  /\ ~(plan[p].reset \subseteq Rows)
  /\ CloseSession(p)
  /\ UNCHANGED <<database, mail, sentBy, forgotten, ops, crashes>>

\* The process dies, or an exception nobody catches ends its cycle.  Tasks are
\* acknowledged when they start, so no other worker takes the cycle over.
InFlight(p) == IF p \in Workers /\ pc[p] \in {"log", "finish"} THEN {task[p].contact} ELSE {}

Crash(p) ==
  /\ crashes > 0
  /\ pc[p] # "idle"
  /\ crashes' = crashes - 1
  /\ CloseSession(p)
  /\ Forget(InFlight(p))
  /\ UNCHANGED <<database, mail, sentBy, ops>>

-----------------------------------------------------------------------------
(* The dispatch cycle.                                                     *)

\* A queued pass or the beat schedule reaches a worker.
BeginCycle(w) ==
  /\ pc[w] = "idle"
  /\ status = "active"
  /\ pc' = [pc EXCEPT ![w] = "sync"]
  /\ UNCHANGED <<database, plan, starting, seen, batch, task, history, ops, crashes>>

Pending == {l \in Rows : leads[l].status = "scheduled" /\ leads[l].due}
\* Mutant: no eligibility filter.
EligibleAlways(l) == l \in Rows

Eligible(l) == leads[l].contact \notin blocked

\* Mutant: the reply is not checked.
VerdictIgnoringReplies(l) == IF leads[l].step \notin sequence THEN "skip" ELSE "send"

\* What the worker does with the lead it looks at.
Verdict(l) ==
  IF leads[l].step \notin sequence THEN "skip"
  ELSE IF leads[l].step \in StopOnReply /\ leads[l].contact \in replied THEN "halt"
  ELSE "send"

Look(w, l) ==
  /\ pc' = [pc EXCEPT ![w] = Verdict(l)]
  /\ task' = [task EXCEPT ![w] =
                [lead |-> l, contact |-> leads[l].contact, step |-> leads[l].step, today |-> FALSE]]
  /\ unheard' = unheard \ {w}

\* At most `room' of the pending leads, in no particular order.
Picks(room) ==
  {S \in SUBSET Pending : \/ Cardinality(S) = room
                          \/ Cardinality(S) < room /\ S = Pending}

\* Mutant: the query takes DailyLimit leads whatever was sent today.
SelectUncounted(w) ==
  /\ pc[w] = "select"
  /\ \E S \in Picks(DailyLimit) :
       LET chosen == {l \in S : Eligible(l)}
       IN \E l \in chosen : /\ batch' = [batch EXCEPT ![w] = chosen]
                            /\ Look(w, l)
  /\ UNCHANGED <<database, plan, starting, seen, mail, sentBy, forgotten, late, ops, crashes>>

\* Count, select, filter by eligibility, look at the first lead.  The limit
\* applies before the filter.
Select(w) ==
  /\ pc[w] = "select"
  /\ sentToday < DailyLimit
  /\ \E S \in Picks(DailyLimit - sentToday) :
       LET chosen == {l \in S : Eligible(l)}
       IN \E l \in chosen : /\ batch' = [batch EXCEPT ![w] = chosen]
                            /\ Look(w, l)
  /\ UNCHANGED <<database, plan, starting, seen, mail, sentBy, forgotten, late, ops, crashes>>

\* The limit is reached, or no selected lead is eligible.
SelectNothing(w) ==
  /\ pc[w] = "select"
  /\ \/ sentToday >= DailyLimit
     \/ \E S \in Picks(DailyLimit - sentToday) : \A l \in S : ~Eligible(l)
  /\ CloseSession(w)
  /\ UNCHANGED <<database, mail, sentBy, forgotten, ops, crashes>>

\* The later leads are read afresh, by key; only their step and the reply are
\* looked at again.
Take(w) ==
  /\ pc[w] = "next"
  /\ \E l \in batch[w] \cap Rows : Look(w, l)
  /\ UNCHANGED <<database, plan, starting, seen, batch, mail, sentBy, forgotten, late, ops, crashes>>

\* The row to read or to write is gone: ObjectDeletedError or StaleDataError
\* ends the cycle.
RowGone(w) ==
  /\ \/ pc[w] = "next" /\ ~(batch[w] \subseteq Rows)
     \/ pc[w] \in {"skip", "halt", "finish", "fail"} /\ task[w].lead \notin Rows
  /\ CloseSession(w)
  /\ Forget(InFlight(w))
  /\ UNCHANGED <<database, mail, sentBy, ops, crashes>>

\* Mutant: the loop does not end with the batch.
AdvanceForever(w) ==
  /\ pc' = [pc EXCEPT ![w] = "next"]
  /\ batch' = [batch EXCEPT ![w] = @ \ {task[w].lead}]
  /\ task' = [task EXCEPT ![w] = Null]
  /\ unheard' = unheard \ {w}
  /\ UNCHANGED <<plan, starting, seen, late>>

\* Go on with the rest of the batch.
Advance(w) ==
  LET rest == batch[w] \ {task[w].lead}
  IN IF rest = {} THEN CloseSession(w)
     ELSE /\ pc' = [pc EXCEPT ![w] = "next"]
          /\ batch' = [batch EXCEPT ![w] = rest]
          /\ task' = [task EXCEPT ![w] = Null]
          /\ unheard' = unheard \ {w}
          /\ UNCHANGED <<plan, starting, seen, late>>

\* The lead's step is not in the sequence: it counts as sent.  The recipient
\* replied: the sequence stops.
Settle(w) ==
  /\ pc[w] \in {"skip", "halt"}
  /\ task[w].lead \in Rows
  /\ leads' = [leads EXCEPT ![task[w].lead].status = IF pc[w] = "skip" THEN "sent" ELSE "replied"]
  /\ Advance(w)
  /\ UNCHANGED <<status, sequence, attached, members, blocked, replied, sentToday,
                 mail, sentBy, forgotten, ops, crashes>>

\* The SMTP server accepts the message; acked tells whether the worker learns.
\* A timeout after DATA returns (False, "timed out").
Deliver(w, acked) ==
  LET c == task[w].contact
      s == task[w].step
  IN /\ pc[w] = "send"
     /\ mail' = [mail EXCEPT ![c][s] = Count(@)]
     /\ pc' = [pc EXCEPT ![w] = IF acked THEN "log" ELSE "fail"]
     /\ Forget(IF acked THEN {} ELSE {c})
     /\ UNCHANGED <<database, plan, starting, seen, batch, task, sentBy, late, unheard,
                    ops, crashes>>

\* The mailbox is gone, inactive or disconnected, or the server refuses.
SendFails(w) ==
  /\ pc[w] = "send"
  /\ pc' = [pc EXCEPT ![w] = "fail"]
  /\ UNCHANGED <<database, plan, starting, seen, batch, task, history, ops, crashes>>

\* send_email commits the send log before the campaign is written to it.
LogSend(w) ==
  /\ pc[w] = "log"
  /\ task' = [task EXCEPT ![w].today = TRUE]
  /\ pc' = [pc EXCEPT ![w] = "finish"]
  /\ UNCHANGED <<database, plan, starting, seen, batch, history, ops, crashes>>

\* Mutant: off by one, the step just sent counts as a next step.
NextStepsFromCurrent(l) == {s \in sequence : s >= leads[l].step}

\* Mutant: any step but the one just sent is a next step.
NextStepsAnywhere(l) == {s \in sequence : s # leads[l].step}

\* _schedule_next_step reads the lead's step afresh, after the send.
NextSteps(l) == {s \in sequence : s > leads[l].step}

Progressed(l) ==
  IF NextSteps(l) = {}
  THEN [leads[l] EXCEPT !.status = "sent", !.due = TRUE]
  ELSE [leads[l] EXCEPT !.status = "scheduled", !.due = FALSE,
                        !.step = CHOOSE s \in NextSteps(l) : \A t \in NextSteps(l) : s <= t]

\* One commit moves the lead on and attributes the log to the campaign.
Finish(w) ==
  LET l == task[w].lead
  IN /\ pc[w] = "finish"
     /\ l \in Rows
     /\ leads' = [leads EXCEPT ![l] = Progressed(l)]
     /\ sentToday' = sentToday + IF task[w].today THEN 1 ELSE 0
     /\ sentBy' = [sentBy EXCEPT ![w] = @ + IF task[w].today THEN 1 ELSE 0]
     /\ Advance(w)
     /\ UNCHANGED <<status, sequence, attached, members, blocked, replied, mail, forgotten,
                    ops, crashes>>

\* Mutant: a failed send moves the lead on.
FailLeadMovesOn(w) ==
  /\ pc[w] = "fail"
  /\ task[w].lead \in Rows
  /\ leads' = [leads EXCEPT ![task[w].lead] = Progressed(task[w].lead)]
  /\ Advance(w)
  /\ UNCHANGED <<status, sequence, attached, members, blocked, replied, sentToday,
                 mail, sentBy, forgotten, ops, crashes>>

FailLead(w) ==
  /\ pc[w] = "fail"
  /\ task[w].lead \in Rows
  /\ leads' = [leads EXCEPT ![task[w].lead].status = "failed"]
  /\ Advance(w)
  /\ UNCHANGED <<status, sequence, attached, members, blocked, replied, sentToday,
                 mail, sentBy, forgotten, ops, crashes>>

-----------------------------------------------------------------------------
(* Time.                                                                   *)

\* The UTC day ends: logs written so far are not today's any more.
NewDay ==
  /\ sentToday > 0 \/ \E w \in Workers : task[w] # Null /\ task[w].today
  /\ sentToday' = 0
  /\ sentBy' = [w \in Workers |-> 0]
  /\ task' = [w \in Workers |-> IF task[w] = Null THEN Null ELSE [task[w] EXCEPT !.today = FALSE]]
  /\ UNCHANGED <<status, sequence, attached, members, blocked, replied, leads, pc, plan,
                 starting, seen, batch, mail, forgotten, late, unheard, ops, crashes>>

\* The delay of the lead's next step has passed.
StepDue(l) ==
  /\ l \in Rows
  /\ ~leads[l].due
  /\ leads' = [leads EXCEPT ![l].due = TRUE]
  /\ UNCHANGED <<status, sequence, attached, members, blocked, replied, sentToday, session,
                 history, ops, crashes>>

-----------------------------------------------------------------------------
(* Operators and recipients, MaxOps actions in all.                        *)

Operates == ops > 0 /\ ops' = ops - 1

\* The contacts whose mail the worker still intends to send.
Holds(w) == {leads[l].contact : l \in batch[w] \cap Rows}
            \cup IF task[w] = Null THEN {} ELSE {task[w].contact}

\* Suppression, unsubscription or a failed verification.
Block(c) ==
  /\ Operates
  /\ c \notin blocked
  /\ blocked' = blocked \cup {c}
  /\ late' = [w \in Workers |-> IF c \in Holds(w) THEN late[w] \cup {c} ELSE late[w]]
  /\ UNCHANGED <<status, sequence, attached, members, replied, leads, sentToday, session,
                 mail, sentBy, forgotten, unheard, crashes>>

\* The suppression is deleted or the contact verified anew.
Unblock(c) ==
  /\ Operates
  /\ c \in blocked
  /\ blocked' = blocked \ {c}
  /\ UNCHANGED <<status, sequence, attached, members, replied, leads, sentToday, session,
                 history, crashes>>

\* The inbox sync stores a reply: contact.last_replied_at.
Reply(c) ==
  /\ Operates
  /\ Mailed(c)
  /\ c \notin replied
  /\ replied' = replied \cup {c}
  /\ unheard' = unheard \cup {w \in Workers : task[w] # Null /\ task[w].contact = c}
  /\ UNCHANGED <<status, sequence, attached, members, blocked, leads, sentToday, session,
                 mail, sentBy, forgotten, late, crashes>>

SetStatus(from, to) ==
  /\ Operates
  /\ status \in from
  /\ status # to
  /\ status' = to
  /\ UNCHANGED <<sequence, attached, members, blocked, replied, leads, sentToday, session,
                 history, crashes>>

Pause == SetStatus({"draft", "active"}, "paused")
Archive == SetStatus({"draft", "active", "paused"}, "archived")
Unarchive == SetStatus({"archived"}, "paused")

ReplaceSequence ==
  /\ Operates
  /\ \E seq \in Sequences : seq # sequence /\ sequence' = seq
  /\ UNCHANGED <<status, attached, members, blocked, replied, leads, sentToday, session,
                 history, crashes>>

\* A list handler commits the list and then synchronises the campaign.
Request(k) ==
  /\ Operates
  /\ pc[k] = "idle"
  /\ pc' = [pc EXCEPT ![k] = "sync"]
  /\ UNCHANGED <<status, sequence, blocked, replied, leads, sentToday, plan, batch, task,
                 history, crashes>>

AddMember(k, c) ==
  /\ c \notin members
  /\ members' = members \cup {c}
  /\ UNCHANGED <<attached, starting, seen>>
  /\ Request(k)

RemoveMember(k, c) ==
  /\ c \in members
  /\ members' = members \ {c}
  /\ UNCHANGED <<attached, starting, seen>>
  /\ Request(k)

AttachList(k) ==
  /\ ~attached
  /\ attached' = TRUE
  /\ UNCHANGED <<members, starting, seen>>
  /\ Request(k)

DetachList(k) ==
  /\ attached
  /\ attached' = FALSE
  /\ UNCHANGED <<members, starting, seen>>
  /\ Request(k)

\* The list goes with its members and attachments.
DeleteList(k) ==
  /\ attached \/ members # {}
  /\ attached' = FALSE
  /\ members' = {}
  /\ UNCHANGED <<starting, seen>>
  /\ Request(k)

\* POST dry-run and GET execution synchronise too.
DryRun(k) == UNCHANGED <<attached, members, starting, seen>> /\ Request(k)

\* POST start and POST retry.
Start(k) ==
  /\ status # "archived"
  /\ seen' = [seen EXCEPT ![k] = status]
  /\ starting' = starting \cup {k}
  /\ UNCHANGED <<attached, members>>
  /\ Request(k)

\* _scheduled_lead_snapshot
EligibleScheduled == {l \in Rows : leads[l].status = "scheduled" /\ Eligible(l)}

\* _queue_campaign_pass after its dry run: no blocker.  Without a commit of the
\* sync the status is the one the handler loaded first.
Admit(k) ==
  /\ pc[k] = "admit"
  /\ seen[k] # "archived"
  /\ EligibleScheduled # {}
  /\ sentToday < DailyLimit
  /\ pc' = [pc EXCEPT ![k] = "activate"]
  /\ UNCHANGED <<database, plan, starting, seen, batch, task, history, ops, crashes>>

\* A blocker, among them those of the mailbox and of deliverability, or a job
\* that is queued or running already.
Refuse(k) ==
  /\ pc[k] = "admit"
  /\ CloseSession(k)
  /\ UNCHANGED <<database, mail, sentBy, forgotten, ops, crashes>>

\* The pass is queued and the campaign set active; an unchanged value is not
\* written.
Activate(k) ==
  /\ pc[k] = "activate"
  /\ status' = IF seen[k] = "active" THEN status ELSE "active"
  /\ CloseSession(k)
  /\ UNCHANGED <<sequence, attached, members, blocked, replied, leads, sentToday, mail, sentBy,
                 forgotten, ops, crashes>>

-----------------------------------------------------------------------------

\* A list of contacts is attached, or the leads were imported into the
\* campaign.
Init ==
  /\ status \in {"draft", "active"}
  /\ sequence \in Sequences
  /\ \/ attached = TRUE /\ members = Contacts /\ leads = [l \in {} |-> Null]
     \/ /\ attached = FALSE
        /\ members = {}
        /\ \E keys \in [Contacts -> Leads] :
             /\ \A c, d \in Contacts : keys[c] = keys[d] => c = d
             /\ leads = [l \in {keys[c] : c \in Contacts} |->
                           NewLead(CHOOSE c \in Contacts : keys[c] = l)]
  /\ blocked = {}
  /\ replied = {}
  /\ sentToday = 0
  /\ pc = [p \in Procs |-> "idle"]
  /\ plan = [p \in Procs |-> NoPlan]
  /\ starting = {}
  /\ seen = [k \in Clients |-> "draft"]
  /\ batch = [w \in Workers |-> {}]
  /\ task = [w \in Workers |-> Null]
  /\ mail = [c \in Contacts |-> [s \in Steps |-> 0]]
  /\ sentBy = [w \in Workers |-> 0]
  /\ forgotten = [c \in Contacts |-> 0]
  /\ late = [w \in Workers |-> {}]
  /\ unheard = {}
  /\ ops = MaxOps
  /\ crashes = MaxCrashes

Sync(p) == SyncSkip(p) \/ SyncRead(p) \/ SyncCommit(p) \/ SyncStale(p)

\* A step of a worker's cycle, apart from what the SMTP server does.
CycleStep(w) ==
  Sync(w) \/ Select(w) \/ SelectNothing(w) \/ Take(w) \/ RowGone(w) \/ Settle(w)
  \/ LogSend(w) \/ Finish(w) \/ FailLead(w)

Send(w) == Deliver(w, TRUE) \/ Deliver(w, FALSE) \/ SendFails(w)

ClientStep(k) ==
  Sync(k) \/ Admit(k) \/ Refuse(k) \/ Activate(k)

ClientRequest(k) ==
  \/ \E c \in Contacts : AddMember(k, c) \/ RemoveMember(k, c)
  \/ AttachList(k) \/ DetachList(k) \/ DeleteList(k) \/ DryRun(k) \/ Start(k)

Operator ==
  \/ \E c \in Contacts : Block(c) \/ Unblock(c) \/ Reply(c)
  \/ Pause \/ Archive \/ Unarchive \/ ReplaceSequence

Next ==
  \/ \E w \in Workers : BeginCycle(w) \/ CycleStep(w) \/ Send(w)
  \/ \E k \in Clients : ClientStep(k) \/ ClientRequest(k)
  \/ \E p \in Procs : Crash(p)
  \/ \E l \in Leads : StepDue(l)
  \/ Operator
  \/ NewDay

Spec == Init /\ [][Next]_vars

\* A worker that runs goes on; beat issues a cycle every 300 s; SMTP failures
\* are transient; delays and days pass.  Nothing is assumed of operators,
\* recipients, requests and crashes.
Fairness ==
  /\ \A w \in Workers : /\ WF_vars(BeginCycle(w))
                        /\ WF_vars(CycleStep(w))
                        /\ WF_vars(Send(w))
                        /\ SF_vars(Deliver(w, TRUE))
  /\ \A l \in Leads : WF_vars(StepDue(l))
  /\ WF_vars(NewDay)

FairSpec == Spec /\ Fairness

-----------------------------------------------------------------------------
(* Safety.                                                                 *)

Working == {"next", "skip", "halt", "send", "log", "finish", "fail"}
Holding == Working \ {"next"}
PcValues == {"idle", "sync", "syncing", "select", "admit", "activate"} \cup Working

DatabaseOK ==
  /\ status \in CampaignStatus
  /\ sequence \in Sequences
  /\ attached \in BOOLEAN
  /\ members \subseteq Contacts /\ blocked \subseteq Contacts /\ replied \subseteq Contacts
  /\ Rows \subseteq Leads /\ leads \in [Rows -> LeadRow]
  /\ sentToday \in Nat

SessionOK ==
  /\ pc \in [Procs -> PcValues]
  /\ plan \in [Procs -> SyncPlan]
  /\ starting \subseteq Clients
  /\ seen \in [Clients -> CampaignStatus]
  /\ batch \in [Workers -> SUBSET Leads]
  /\ task \in [Workers -> Task \cup {Null}]

HistoryOK ==
  /\ mail \in [Contacts -> [Steps -> Nat]]
  /\ sentBy \in [Workers -> Nat]
  /\ forgotten \in [Contacts -> Nat]
  /\ late \in [Workers -> SUBSET Contacts]
  /\ unheard \subseteq Workers
  /\ ops \in Nat /\ crashes \in Nat

\* A worker has a batch exactly while it works on one, and the lead in its
\* hands is of that batch.
BatchOK ==
  \A w \in Workers : /\ pc[w] \in Working <=> batch[w] # {}
                     /\ pc[w] \in Holding <=> task[w] # Null
                     /\ task[w] # Null => task[w].lead \in batch[w]

\* The types, and what a worker holds while it works on a batch.
TypeOK == DatabaseOK /\ SessionOK /\ HistoryOK /\ BatchOK

\* The daily limit as the abstract quota states it: a batch is a claim.
Quota == INSTANCE DailyQuota
           WITH spent <- sentToday, spentBy <- sentBy,
                claim <- [w \in Workers |-> Cardinality(batch[w])]
ImplementsQuota == Quota!Spec

\* No worker attributes more than DailyLimit successes to a day, whatever it
\* still holds included: the batch is cut to what _process_campaign found left.
WorkerWithinLimit == \A w \in Workers : sentBy[w] + Cardinality(batch[w]) <= DailyLimit

\* With one worker process the campaign as a whole stays within daily_limit.
SoleWorkerWithinLimit ==
  \A w \in Workers : Workers = {w} => sentToday + Cardinality(batch[w]) <= DailyLimit

\* With n of them it stays within n times that.
FleetWithinLimit == sentToday <= Cardinality(Workers) * DailyLimit

\* Mail goes to a blocked contact only from a batch selected before the block:
\* neither a sync nor a selection lets a contact through that is blocked then.
OnlyLateBlocksAreMailed ==
  \A w \in Workers : Holds(w) \cap blocked \subseteq late[w]

\* A step with stop_on_reply is mailed to someone who replied only when the
\* reply came after the worker had looked at that lead.
RepliesStopTheSequence ==
  \A w \in Workers :
    pc[w] = "send" /\ task[w].step \in StopOnReply /\ task[w].contact \in replied => w \in unheard

\* A contact gets a step twice only if the rows lost a delivery to it: a crash
\* between the send and the commit, an acknowledgement that never came, or a
\* sync that deleted its row.
DuplicatesAreExplained ==
  \A c \in Contacts, s \in Steps : mail[c][s] <= 1 + forgotten[c]

\* A lead stands at a step, or is finished, only when every step before it was
\* delivered to the contact.
NoStepSkipped ==
  \A l \in Rows : \A s \in sequence :
    s < leads[l].step \/ leads[l].status = "sent" => mail[leads[l].contact][s] > 0

\* What the recipients see, as the abstract outreach states it: a step goes out
\* after those before it, and again only when a delivery got lost.
Outreach == INSTANCE Outreach WITH lost <- forgotten
ImplementsOutreach == Outreach!Spec

\* A lead never goes back to an earlier step, nor over to another contact, even
\* when two cycles work on it and the operator replaces the sequence.
LeadsMoveOn ==
  \A l \in Rows \cap Rows' : /\ leads'[l].step >= leads[l].step
                            /\ leads'[l].contact = leads[l].contact
LeadsNeverGoBack == [][LeadsMoveOn]_vars

\* A lead that is finished stays so: no sync drops it or schedules it again.
FinishedLeadsStay ==
  \A l \in Rows : leads[l].status \in {"sent", "replied"} =>
                   l \in Rows' /\ leads'[l].status = leads[l].status
FinishedStaysFinished == [][FinishedLeadsStay]_vars

-----------------------------------------------------------------------------
(* Liveness.                                                               *)

Served(c) == \E l \in Rows : leads[l].contact = c /\ leads[l].status \in {"sent", "replied"}

\* The re-sync of every active cycle strands nobody: while the campaign stays
\* active with its list attached, a member who stays eligible is taken through
\* the sequence, whatever SMTP failures and crashes come between.
NoMemberIsStranded ==
  \A c \in Contacts :
    <>[](status = "active" /\ attached /\ c \in members \ blocked) => <>[]Served(c)

-----------------------------------------------------------------------------
(* What the documentation claims and the code does not keep.               *)

\* README: the audience of the attached lists is deduplicated before leads are
\* scheduled.  Two syncs at once each insert a row for the same contact.
AudienceIsDeduplicated == \A l, m \in Rows : leads[l].contact = leads[m].contact => l = m

=============================================================================
