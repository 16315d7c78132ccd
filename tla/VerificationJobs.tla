-------------------------- MODULE VerificationJobs --------------------------
(***************************************************************************)
(* Bulk verification: the handler that queues it, the worker that runs it  *)
(* contact by contact, and the job rows both keep of it.  With the workers *)
(* disabled ("lean") the handler's own thread runs it.                     *)
(***************************************************************************)
EXTENDS Suppression, Sequences

CONSTANTS
  Tasks,      \* requests for a bulk verification
  Leads,      \* task -> the leads it names, in order
  Unknown,    \* a lead id without a contact
  NoTask,
  MaxCrashes  \* bound: workers that die

Writers == {"handler", "worker"}
JobRow == [task : Tasks \cup {NoTask}, status : {"none", "queued", "running", "completed", "failed"},
           processed : Nat]
Hand == [task : Tasks \cup {NoTask}, row : Writers,
         at : {"idle", "mark", "next", "checking", "count", "done", "failing"}]

ASSUME JobsAssumption ==
  /\ \A t \in Tasks : Leads[t] \in Seq(Emails \cup {Unknown})
  /\ Unknown \notin Emails /\ NoTask \notin Tasks
  /\ MaxCrashes \in Nat

VARIABLES
  mode,      \* settings.BACKGROUND_WORKERS_ENABLED
  stage,     \* how far the handler of each task is
  queue,     \* tasks in the broker
  jobRow,    \* job_logs: <<task, who inserted the row>> -> row, "none" before
  hand,      \* what each worker has in hand
  unserved,  \* history: tasks a crash, the broker or an exception ended
  crashes

jobVars == <<mode, stage, queue, jobRow, hand, unserved, crashes>>

Free == [task |-> NoTask, row |-> "handler", at |-> "idle"]
Row(w) == <<hand[w].task, hand[w].row>>
InHand(t) == \E w \in Workers : hand[w].task = t
At(w, place) == hand[w].at = place /\ pc[w] = "idle"
Goes(w, place) == hand' = [hand EXCEPT ![w].at = place]

\* POST /leads/verify/bulk commits a row with an id of its own first.
QueueBulk(t) ==
  /\ ops > 0 /\ ops' = ops - 1
  /\ stage[t] = "none"
  /\ Leads[t] # <<>>
  /\ stage' = [stage EXCEPT ![t] = "created"]
  /\ jobRow' = [jobRow EXCEPT ![<<t, "handler">>].status = "queued"]
  /\ UNCHANGED <<contact, kind, listed, pc, sess, rowGone, overtaken, raced, torn,
                 mode, queue, hand, unserved, crashes>>

Publish(t) ==
  /\ mode = "full"
  /\ stage[t] = "created"
  /\ stage' = [stage EXCEPT ![t] = "published"]
  /\ queue' = queue \cup {t}
  /\ UNCHANGED <<suppressionVars, mode, jobRow, hand, unserved, crashes>>

\* The broker is away: the request fails, and its row stays queued.
PublishFails(t) ==
  /\ mode = "full"
  /\ stage[t] = "created"
  /\ stage' = [stage EXCEPT ![t] = "recorded"]
  /\ unserved' = unserved \cup {t}
  /\ UNCHANGED <<suppressionVars, mode, queue, jobRow, hand, crashes>>

\* Only now does the row carry the task's id.
Record(t) ==
  /\ stage[t] = "published"
  /\ stage' = [stage EXCEPT ![t] = "recorded"]
  /\ jobRow' = [jobRow EXCEPT ![<<t, "handler">>].task = t]
  /\ UNCHANGED <<suppressionVars, mode, queue, hand, unserved, crashes>>

\* Lean mode: the row is running before a lead without contact is noticed,
\* which nothing catches.
RunInline(w, t) ==
  /\ mode = "lean"
  /\ At(w, "idle")
  /\ stage[t] = "created"
  /\ stage' = [stage EXCEPT ![t] = "recorded"]
  /\ jobRow' = [jobRow EXCEPT ![<<t, "handler">>].status = "running"]
  /\ IF \A i \in DOMAIN Leads[t] : Leads[t][i] \in Exists
     THEN /\ hand' = [hand EXCEPT ![w] = [task |-> t, row |-> "handler", at |-> "next"]]
          /\ UNCHANGED unserved
     ELSE /\ unserved' = unserved \cup {t}
          /\ UNCHANGED hand
  /\ UNCHANGED <<suppressionVars, mode, queue, crashes>>

\* The worker looks its row up by the task's id and adds one if there is none.
Find(w, t) ==
  /\ t \in queue
  /\ At(w, "idle")
  /\ queue' = queue \ {t}
  /\ LET found == jobRow[<<t, "handler">>].task = t
     IN /\ hand' = [hand EXCEPT ![w] =
                      [task |-> t, row |-> IF found THEN "handler" ELSE "worker", at |-> "mark"]]
        /\ jobRow' = IF found THEN jobRow
                     ELSE [jobRow EXCEPT ![<<t, "worker">>].task = t,
                                         ![<<t, "worker">>].status = "queued"]
  /\ UNCHANGED <<suppressionVars, mode, stage, unserved, crashes>>

Mark(w) ==
  /\ At(w, "mark")
  /\ jobRow' = [jobRow EXCEPT ![Row(w)].status = "running", ![Row(w)].processed = 0]
  /\ Goes(w, "next")
  /\ UNCHANGED <<suppressionVars, mode, stage, queue, unserved, crashes>>

\* The contact of the next lead is loaded, or there is none: ValueError.
Next1(w) == Leads[hand[w].task][jobRow[Row(w)].processed + 1]

VerifyNext(w) ==
  /\ At(w, "next")
  /\ jobRow[Row(w)].processed < Len(Leads[hand[w].task])
  /\ Next1(w) \in Exists
  /\ StartVerify(w, Next1(w))
  /\ Goes(w, "count")
  /\ UNCHANGED <<ops, mode, stage, queue, jobRow, unserved, crashes>>

VerifyUnknown(w) ==
  /\ At(w, "next")
  /\ jobRow[Row(w)].processed < Len(Leads[hand[w].task])
  /\ Next1(w) \notin Exists
  /\ Goes(w, "failing")
  /\ UNCHANGED <<suppressionVars, mode, stage, queue, jobRow, unserved, crashes>>

\* After the commit of the verdict: processed_count.  The lean handler counts
\* once, at the end, which nobody can tell.
CountLead(w) ==
  /\ At(w, "count")
  /\ jobRow' = [jobRow EXCEPT ![Row(w)].processed = @ + 1]
  /\ Goes(w, "next")
  /\ UNCHANGED <<suppressionVars, mode, stage, queue, unserved, crashes>>

\* Mutant: the last lead is left out.
CompleteEarly(w) ==
  /\ At(w, "next")
  /\ jobRow[Row(w)].processed + 1 >= Len(Leads[hand[w].task])
  /\ jobRow' = [jobRow EXCEPT ![Row(w)].status = "completed"]
  /\ hand' = [hand EXCEPT ![w] = Free]
  /\ UNCHANGED <<suppressionVars, mode, stage, queue, unserved, crashes>>

Complete(w) ==
  /\ At(w, "next")
  /\ jobRow[Row(w)].processed = Len(Leads[hand[w].task])
  /\ jobRow' = [jobRow EXCEPT ![Row(w)].status = "completed"]
  /\ hand' = [hand EXCEPT ![w] = Free]
  /\ UNCHANGED <<suppressionVars, mode, stage, queue, unserved, crashes>>

\* Mutant: the exception is not recorded.
FailSilently(w) ==
  /\ At(w, "failing")
  /\ hand' = [hand EXCEPT ![w] = Free]
  /\ UNCHANGED <<suppressionVars, mode, stage, queue, jobRow, unserved, crashes>>

\* The except branch looks the row up again: of two with the task's id it may
\* take either.
Fail(w) ==
  /\ At(w, "failing")
  /\ \E x \in Writers :
       /\ jobRow[<<hand[w].task, x>>].task = hand[w].task
       /\ jobRow' = [jobRow EXCEPT ![<<hand[w].task, x>>].status = "failed"]
  /\ hand' = [hand EXCEPT ![w] = Free]
  /\ UNCHANGED <<suppressionVars, mode, stage, queue, unserved, crashes>>

\* The worker dies; the task was acknowledged when it started.
Crash(w) ==
  /\ crashes > 0 /\ crashes' = crashes - 1
  /\ hand[w].task # NoTask
  /\ unserved' = unserved \cup {hand[w].task}
  /\ hand' = [hand EXCEPT ![w] = Free]
  /\ End(w)
  /\ overtaken' = overtaken \ {w}
  /\ UNCHANGED <<contact, kind, listed, rowGone, raced, torn, ops, mode, stage, queue, jobRow>>

JobsInit ==
  /\ mode \in {"full", "lean"}
  /\ stage = [t \in Tasks |-> "none"]
  /\ queue = {}
  /\ jobRow = [r \in Tasks \X Writers |-> [task |-> NoTask, status |-> "none", processed |-> 0]]
  /\ hand = [w \in Workers |-> Free]
  /\ unserved = {}
  /\ crashes = MaxCrashes

WorkerStep(w) ==
  \/ Mark(w) \/ VerifyNext(w) \/ VerifyUnknown(w) \/ CountLead(w) \/ Complete(w) \/ Fail(w)

JobsNext ==
  \/ \E t \in Tasks : QueueBulk(t) \/ Publish(t) \/ PublishFails(t) \/ Record(t)
  \/ \E w \in Workers : WorkerStep(w) \/ Crash(w) \/ \E t \in Tasks : RunInline(w, t) \/ Find(w, t)

-----------------------------------------------------------------------------
(* Properties.                                                             *)

JobsTypeOK ==
  /\ mode \in {"full", "lean"}
  /\ stage \in [Tasks -> {"none", "created", "published", "recorded"}]
  /\ queue \subseteq Tasks /\ unserved \subseteq Tasks
  /\ jobRow \in [Tasks \X Writers -> JobRow]
  /\ hand \in [Workers -> Hand]
  /\ crashes \in Nat

\* A row says queued or running only while its handler, the broker or a worker
\* has the task, unless the task was cut off, or the worker was faster than the
\* handler's commit and one of the two rows was left alone.
VerificationRowsAreHonest ==
  \A t \in Tasks, x \in Writers :
    jobRow[<<t, x>>].status \in {"queued", "running"} =>
      \/ stage[t] = "created" \/ t \in queue \/ InHand(t)
      \/ t \in unserved
      \/ \A y \in Writers : jobRow[<<t, y>>].status # "none"

\* A completed row means that each lead of its task has got a verdict.
CompletedJobsVerifiedTheirLeads ==
  \A t \in Tasks, x \in Writers :
    jobRow[<<t, x>>].status = "completed" =>
      \A i \in DOMAIN Leads[t] :
        Leads[t][i] \in Exists /\ contact[Leads[t][i]].status # "unverified"

\* A task that reached the broker ends in a finished row, whatever the order in
\* which handler and worker write theirs, unless its worker dies.
PublishedTasksEnd ==
  \A t \in Tasks :
    t \in queue ~> \/ t \in unserved
                   \/ \E x \in Writers : jobRow[<<t, x>>].status \in {"completed", "failed"}
=============================================================================
