---------------------------- MODULE CampaignJobs ----------------------------
(***************************************************************************)
(* How a campaign pass gets from an HTTP request to a worker: the start    *)
(* and retry handlers, the Celery queue, the job_logs rows that guard      *)
(* against a second pass, and the operator's job panel.                    *)
(*                                                                         *)
(* The handler publishes the task before it commits the row and the new    *)
(* status, so a worker may look for the row first.  What a pass does to    *)
(* the leads is in CampaignDispatch.                                       *)
(***************************************************************************)
EXTENDS Integers, FiniteSets

CONSTANTS
  Workers,    \* Celery worker processes
  Clients,    \* threads that serve HTTP requests
  Tasks,      \* Celery task ids
  Null,       \* no task, no row
  MaxOps,     \* bound: operator actions
  MaxCrashes  \* bound: process crashes

\* A task has at most two rows: the handler's and one of the worker's own.
JobRows == Tasks \X {"handler", "worker"}

ASSUME JobsAssumption ==
  /\ Workers \cap Clients = {}
  /\ Null \notin Tasks \cup JobRows
  /\ {MaxOps, MaxCrashes} \subseteq Nat

CampaignStatus == {"draft", "active", "paused", "archived", "deleted"}
JobStatus == {"queued", "running", "completed", "failed", "cancelled"}

\* A job_logs row.  named: the payload has the campaign_id; created, started:
\* that timestamp is at most two beat intervals old.
JobRow == [named : BOOLEAN, status : JobStatus, created : BOOLEAN, started : BOOLEAN]

VARIABLES
  status,           \* campaign.status
  jobs,             \* job_logs: primary key -> row
  queue,            \* tasks the broker holds for this campaign
  at, seen, sent,   \* per client: place, status it loaded, task it published
  pc, task, row,    \* per worker: place, task (Null: of the beat) and its row
  \* history
  unheld,           \* tasks whose row may say more than happens
  halted,           \* tasks cancelled before a worker took them
  ops, crashes      \* what is left of the bounds

client == <<at, seen, sent>>
worker == <<pc, task, row>>
history == <<unheld, halted>>
vars == <<status, jobs, queue, client, worker, history, ops, crashes>>

Rows == DOMAIN jobs
RowsOf(t) == {r \in Rows : r[1] = t}

\* Task ids are fresh.
FreshTasks == Tasks \ (queue \cup {r[1] : r \in Rows} \cup {sent[k] : k \in Clients}
                       \cup {task[w] : w \in Workers} \cup unheld \cup halted)

\* A new row: the handler names the campaign in it, the worker does not.
Inserted(r) ==
  [q \in Rows \cup {r} |->
     IF q = r THEN [named |-> r[2] = "handler", status |-> "queued",
                    created |-> TRUE, started |-> FALSE]
     ELSE jobs[q]]

-----------------------------------------------------------------------------
(* POST start and POST retry: _queue_campaign_pass.                        *)

\* Mutant: a job is never too old to count.
BlocksForever(r) == jobs[r].named /\ jobs[r].status \in {"queued", "running"}

\* _campaign_job_for_status: the row counts as a pass under way.
Blocks(r) ==
  /\ jobs[r].named
  /\ \/ jobs[r].status = "queued" /\ jobs[r].created
     \/ jobs[r].status = "running" /\ jobs[r].started

\* The handler loads the campaign; deleted is a 404, archived a 409.
LoadCampaign(k) ==
  /\ at[k] = "idle"
  /\ ops > 0 /\ ops' = ops - 1
  /\ status \notin {"archived", "deleted"}
  /\ seen' = [seen EXCEPT ![k] = status]
  /\ at' = [at EXCEPT ![k] = "check"]
  /\ UNCHANGED <<status, jobs, queue, sent, worker, history, crashes>>

\* No pass is under way and the dry run finds no blocker.  The campaign is the
\* one loaded first, or loaded anew after the sync of the dry run committed.
Check(k) ==
  /\ at[k] = "check"
  /\ \A r \in Rows : ~Blocks(r)
  /\ \E s \in {seen[k], status} \ {"archived", "deleted"} : seen' = [seen EXCEPT ![k] = s]
  /\ at' = [at EXCEPT ![k] = "publish"]
  /\ UNCHANGED <<status, jobs, queue, sent, worker, history, ops, crashes>>

\* Back to the caller: a blocker (409), the job that is there already, no
\* broker (503), or the thread dies.
Return(k) ==
  /\ at' = [at EXCEPT ![k] = "idle"]
  /\ seen' = [seen EXCEPT ![k] = "draft"]
  /\ sent' = [sent EXCEPT ![k] = Null]

Refuse(k) ==
  /\ at[k] \in {"check", "publish"}
  /\ Return(k)
  /\ UNCHANGED <<status, jobs, queue, worker, history, ops, crashes>>

\* run_campaign_cycle.delay
Publish(k) ==
  /\ at[k] = "publish"
  /\ \E t \in FreshTasks : /\ queue' = queue \cup {t}
                           /\ sent' = [sent EXCEPT ![k] = t]
  /\ at' = [at EXCEPT ![k] = "record"]
  /\ UNCHANGED <<status, jobs, seen, worker, history, ops, crashes>>

\* The commit that follows: the campaign is active, the job is queued.
Record(k) ==
  /\ at[k] = "record"
  /\ status # "deleted"
  /\ status' = IF seen[k] = "active" THEN status ELSE "active"
  /\ jobs' = Inserted(<<sent[k], "handler">>)
  /\ Return(k)
  /\ UNCHANGED <<queue, worker, history, ops, crashes>>

\* The campaign was deleted meanwhile: StaleDataError, nothing is committed.
RecordStale(k) ==
  /\ at[k] = "record"
  /\ status = "deleted"
  /\ Return(k)
  /\ UNCHANGED <<status, jobs, queue, worker, history, ops, crashes>>

\* DELETE: only a draft, checked when it is loaded.
LoadDraft(k) ==
  /\ at[k] = "idle"
  /\ ops > 0 /\ ops' = ops - 1
  /\ status = "draft"
  /\ at' = [at EXCEPT ![k] = "delete"]
  /\ UNCHANGED <<status, jobs, queue, seen, sent, worker, history, crashes>>

\* The job rows that name the campaign go with it.
Delete(k) ==
  /\ at[k] = "delete"
  /\ status' = "deleted"
  /\ jobs' = [r \in {q \in Rows : ~jobs[q].named} |-> jobs[r]]
  /\ Return(k)
  /\ UNCHANGED <<queue, worker, history, ops, crashes>>

ClientDies(k) ==
  /\ at[k] # "idle"
  /\ crashes > 0 /\ crashes' = crashes - 1
  /\ Return(k)
  /\ UNCHANGED <<status, jobs, queue, worker, history, ops>>

-----------------------------------------------------------------------------
(* The worker: run_campaign_cycle.                                         *)

\* A beat cycle has no campaign id, and neither has its row: no handler of the
\* campaign ever looks at it, so the row is left out.
BeatCycle(w) ==
  /\ pc[w] = "idle"
  /\ pc' = [pc EXCEPT ![w] = "begin"]
  /\ UNCHANGED <<status, jobs, queue, client, task, row, history, ops, crashes>>

\* Mutant: the worker writes a row of its own without looking for one.
FindBlindly(w) ==
  /\ pc[w] = "idle"
  /\ \E t \in queue :
       /\ queue' = queue \ {t}
       /\ task' = [task EXCEPT ![w] = t]
       /\ row' = [row EXCEPT ![w] = <<t, "worker">>]
       /\ jobs' = Inserted(<<t, "worker">>)
  /\ pc' = [pc EXCEPT ![w] = "mark"]
  /\ UNCHANGED <<status, client, history, ops, crashes>>

\* Mutant: the task is not acknowledged, and comes again.
FindRedelivered(w) ==
  /\ pc[w] = "idle"
  /\ \E t \in queue :
       /\ task' = [task EXCEPT ![w] = t]
       /\ \/ /\ \E r \in RowsOf(t) : row' = [row EXCEPT ![w] = r]
             /\ UNCHANGED <<jobs, unheld>>
          \/ /\ RowsOf(t) = {}
             /\ row' = [row EXCEPT ![w] = <<t, "worker">>]
             /\ jobs' = Inserted(<<t, "worker">>)
             /\ unheld' = unheld \cup {t}
  /\ pc' = [pc EXCEPT ![w] = "mark"]
  /\ UNCHANGED <<status, queue, client, halted, ops, crashes>>

\* The task is acknowledged and its row looked up; without one the worker adds
\* a row that does not name the campaign.
Find(w) ==
  /\ pc[w] = "idle"
  /\ \E t \in queue :
       /\ queue' = queue \ {t}
       /\ task' = [task EXCEPT ![w] = t]
       /\ \/ /\ \E r \in RowsOf(t) : row' = [row EXCEPT ![w] = r]
             /\ UNCHANGED <<jobs, unheld>>
          \/ /\ RowsOf(t) = {}
             /\ row' = [row EXCEPT ![w] = <<t, "worker">>]
             /\ jobs' = Inserted(<<t, "worker">>)
             /\ unheld' = unheld \cup {t}
  /\ pc' = [pc EXCEPT ![w] = "mark"]
  /\ UNCHANGED <<status, client, halted, ops, crashes>>

\* status = "running", started_at = now, whatever the row said.
Mark(w) ==
  /\ pc[w] = "mark"
  /\ row[w] \in Rows
  /\ jobs' = [jobs EXCEPT ![row[w]].status = "running", ![row[w]].started = TRUE]
  /\ pc' = [pc EXCEPT ![w] = "begin"]
  /\ UNCHANGED <<status, queue, client, task, row, history, ops, crashes>>

\* Mutant: the worker keeps the job of its last task in hand.
ReleaseKeepingJob(w) ==
  /\ pc' = [pc EXCEPT ![w] = "idle"]
  /\ UNCHANGED <<task, row>>

\* The task is over and its session closed.
Release(w) ==
  /\ pc' = [pc EXCEPT ![w] = "idle"]
  /\ task' = [task EXCEPT ![w] = Null]
  /\ row' = [row EXCEPT ![w] = Null]

\* Mutant: the beat cycle has no campaign to look for.
BeginTargeted(w) ==
  /\ pc[w] = "begin"
  /\ pc' = [pc EXCEPT ![w] = IF status = "active" /\ task[w] # Null THEN "pass" ELSE "complete"]
  /\ UNCHANGED <<status, jobs, queue, client, task, row, history, ops, crashes>>

\* Only an active campaign is processed; one that is gone raises.
Begin(w) ==
  /\ pc[w] = "begin"
  /\ pc' = [pc EXCEPT ![w] = IF status = "active" THEN "pass"
                             ELSE IF status = "deleted" /\ task[w] # Null THEN "error"
                             ELSE "complete"]
  /\ UNCHANGED <<status, jobs, queue, client, task, row, history, ops, crashes>>

\* _process_campaign returns, or raises; process_active_campaigns catches.
EndPass(w) ==
  /\ pc[w] = "pass"
  /\ \E next \in {"complete", "error"} : /\ next = "error" => task[w] # Null
                                         /\ pc' = [pc EXCEPT ![w] = next]
  /\ UNCHANGED <<status, jobs, queue, client, task, row, history, ops, crashes>>

\* The result names the campaign, so the row of the worker's own does too now.
Complete(w) ==
  /\ pc[w] = "complete"
  /\ task[w] # Null => row[w] \in Rows
  /\ jobs' = IF task[w] = Null THEN jobs
             ELSE [jobs EXCEPT ![row[w]].status = "completed", ![row[w]].named = TRUE]
  /\ Release(w)
  /\ UNCHANGED <<status, queue, client, history, ops, crashes>>

\* The except branch looks the row up again: any row of the task.
Fail(w) ==
  /\ pc[w] = "error"
  /\ IF RowsOf(task[w]) = {} THEN jobs' = jobs
     ELSE \E r \in RowsOf(task[w]) : jobs' = [jobs EXCEPT ![r].status = "failed"]
  /\ unheld' = unheld \cup {task[w]}
  /\ Release(w)
  /\ UNCHANGED <<status, queue, client, halted, ops, crashes>>

\* The row was deleted with its campaign, or a flush of the pass failed: the
\* except branch raises itself and leaves the rows as they are.
Abort(w) ==
  /\ \/ pc[w] = "pass"
     \/ pc[w] \in {"mark", "complete"} /\ task[w] # Null /\ row[w] \notin Rows
  /\ unheld' = unheld \cup ({task[w]} \ {Null})
  /\ Release(w)
  /\ UNCHANGED <<status, jobs, queue, client, halted, ops, crashes>>

WorkerDies(w) ==
  /\ pc[w] # "idle"
  /\ crashes > 0 /\ crashes' = crashes - 1
  /\ unheld' = unheld \cup ({task[w]} \ {Null})
  /\ Release(w)
  /\ UNCHANGED <<status, jobs, queue, client, halted, ops>>

-----------------------------------------------------------------------------
(* The other handlers, and time.                                           *)

Operates == ops > 0 /\ ops' = ops - 1

SetStatus(from, to) ==
  /\ Operates
  /\ status \in from
  /\ status' = to
  /\ UNCHANGED <<jobs, queue, client, worker, history, crashes>>

Pause == SetStatus({"draft", "active"}, "paused")
Archive == SetStatus({"draft", "active", "paused"}, "archived")
Unarchive == SetStatus({"archived"}, "paused")

\* The job panel: only the row changes.
RetryJob(t) ==
  /\ Operates
  /\ \E r \in RowsOf(t) : jobs' = [jobs EXCEPT ![r].status = "queued"]
  /\ unheld' = unheld \cup {t}
  /\ UNCHANGED <<status, queue, client, worker, halted, crashes>>

CancelJob(t) ==
  /\ Operates
  /\ \E r \in RowsOf(t) : jobs' = [jobs EXCEPT ![r].status = "cancelled"]
  /\ halted' = IF t \in queue THEN halted \cup {t} ELSE halted
  /\ UNCHANGED <<status, queue, client, worker, unheld, crashes>>

\* Two beat intervals pass: created_at, or both timestamps, are too old.  The
\* age of a finished job only matters once it is queued again.
Age(r) ==
  /\ r \in Rows
  /\ jobs[r].status \in {"queued", "running"}
  /\ jobs[r].created \/ jobs[r].started
  /\ \E s \in {FALSE, jobs[r].started} :
       /\ ~jobs[r].created => ~s
       /\ jobs' = [jobs EXCEPT ![r].created = FALSE, ![r].started = s]
  /\ UNCHANGED <<status, queue, client, worker, history, ops, crashes>>

-----------------------------------------------------------------------------

Init ==
  /\ status \in {"draft", "paused"}
  /\ jobs = [r \in {} |-> Null]
  /\ queue = {}
  /\ at = [k \in Clients |-> "idle"]
  /\ seen = [k \in Clients |-> "draft"]
  /\ sent = [k \in Clients |-> Null]
  /\ pc = [w \in Workers |-> "idle"]
  /\ task = [w \in Workers |-> Null]
  /\ row = [w \in Workers |-> Null]
  /\ unheld = {} /\ halted = {}
  /\ ops = MaxOps /\ crashes = MaxCrashes

ClientStep(k) == Check(k) \/ Refuse(k) \/ Publish(k) \/ Record(k) \/ RecordStale(k)
                \/ Delete(k)

Cycle(w) ==
  Mark(w) \/ Begin(w) \/ EndPass(w) \/ Complete(w) \/ Fail(w) \/ Abort(w)

Operator ==
  \/ Pause \/ Archive \/ Unarchive
  \/ \E t \in Tasks : RetryJob(t) \/ CancelJob(t)

Next ==
  \/ \E k \in Clients : LoadCampaign(k) \/ LoadDraft(k) \/ ClientStep(k) \/ ClientDies(k)
  \/ \E w \in Workers : BeatCycle(w) \/ Find(w) \/ Cycle(w) \/ WorkerDies(w)
  \/ \E r \in JobRows : Age(r)
  \/ Operator

Spec == Init /\ [][Next]_vars

\* Workers go on and take what beat and the broker have for them; time passes.
Fairness ==
  /\ \A w \in Workers : WF_vars(Cycle(w)) /\ WF_vars(BeatCycle(w) \/ Find(w))
  /\ \A r \in JobRows : WF_vars(Age(r))

FairSpec == Spec /\ Fairness

-----------------------------------------------------------------------------

DatabaseOK ==
  /\ status \in CampaignStatus
  /\ Rows \subseteq JobRows /\ jobs \in [Rows -> JobRow]
  /\ queue \subseteq Tasks

ClientOK ==
  /\ at \in [Clients -> {"idle", "check", "publish", "record", "delete"}]
  /\ seen \in [Clients -> CampaignStatus]
  /\ sent \in [Clients -> Tasks \cup {Null}]
  /\ \A k \in Clients : at[k] = "record" <=> sent[k] # Null

WorkerOK ==
  /\ pc \in [Workers -> {"idle", "mark", "begin", "pass", "complete", "error"}]
  /\ task \in [Workers -> Tasks \cup {Null}]
  /\ row \in [Workers -> JobRows \cup {Null}]
  /\ \A w \in Workers : /\ pc[w] \in {"mark", "error"} => task[w] # Null
                        /\ task[w] # Null => row[w] \in {task[w]} \X {"handler", "worker"}
                        /\ task[w] = Null => row[w] = Null
                        /\ pc[w] = "idle" => task[w] = Null

HistoryOK ==
  unheld \subseteq Tasks /\ halted \subseteq Tasks /\ ops \in Nat /\ crashes \in Nat

\* The types; a handler knows its task, and a worker its row, while it needs it.
TypeOK == DatabaseOK /\ ClientOK /\ WorkerOK /\ HistoryOK

\* A row says "queued" only while its task waits in the broker or a worker is
\* about to mark it, and "running" only while a worker has it; the exceptions
\* are a worker that outran the commit of the row, a process that died, an
\* exception, and the panel's retry.
JobLogIsHonest ==
  \A r \in Rows :
    LET holders == {w \in Workers : row[w] = r}
    IN \/ r[1] \in unheld
       \/ /\ jobs[r].status = "queued" => r[1] \in queue \/ \E w \in holders : pc[w] = "mark"
          /\ jobs[r].status = "running" => \E w \in holders : pc[w] # "mark"

\* A job is worked on once: when it is completed or failed, only the panel
\* rewrites its row.
FinishedJobsStay ==
  \A r \in Rows \cap Rows' :
    jobs[r].status \in {"completed", "failed"} => jobs'[r].status = jobs[r].status \/ ops' < ops
JobsAreDoneOnce == [][FinishedJobsStay]_vars

\* No row keeps refusing new passes: one that lost its task grows stale.
NoRowBlocksForever == \A r \in JobRows : []<>(r \notin Rows \/ ~Blocks(r))

\* A campaign that stays active is passed over again and again: a start whose
\* own pass came too early or was lost is made up for by the beat.
ActiveCampaignIsServed ==
  <>[](status = "active") => []<>(\E w \in Workers : pc[w] = "pass")

-----------------------------------------------------------------------------
(* What the messages and the documentation claim and the code does not keep. *)

\* start_campaign: an archived campaign is restored before it is started.  An
\* archive between the handler's check and its commit is overwritten.
ArchivedNeedsRestore == [][status = "archived" => status' # "active"]_vars

\* Operations manual: jobs can be halted from the job panel.  Only the row
\* changes, and the worker does not look at what it says.
HaltedJobsDoNotRun == \A w \in Workers : pc[w] = "pass" => task[w] \notin halted
=============================================================================
