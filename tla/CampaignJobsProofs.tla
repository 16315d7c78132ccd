------------------------- MODULE CampaignJobsProofs -------------------------
(***************************************************************************)
(* Theorems of CampaignJobs, for every set of workers, clients and tasks.  *)
(*                                                                         *)
(* JobLogIsHonest is inductive together with Custody: who has a task in    *)
(* hand between its publication, its row and its worker.                   *)
(***************************************************************************)
EXTENDS CampaignJobs, TLAPS

\* A task whose handler has not committed yet has no row of the handler, and
\* waits in the broker unless a worker outran the commit; a worker adds a row
\* of its own only then.  Two handlers never publish the same task.
Custody ==
  /\ \A k \in Clients : at[k] = "record" =>
       /\ sent[k] \in queue \cup unheld
       /\ <<sent[k], "handler">> \notin Rows
       /\ \A j \in Clients \ {k} : sent[j] # sent[k]
  /\ \A t \in Tasks : <<t, "worker">> \in Rows => t \in unheld

JobsInv == TypeOK /\ JobLogIsHonest /\ Custody

-----------------------------------------------------------------------------
(* The operators.                                                          *)

LEMMA InsertedType ==
  ASSUME TypeOK, NEW r \in JobRows
  PROVE  /\ DOMAIN Inserted(r) = Rows \cup {r}
         /\ Inserted(r) \in [Rows \cup {r} -> JobRow]
         /\ Inserted(r)[r].status = "queued"
         /\ \A q \in Rows \ {r} : Inserted(r)[q] = jobs[q]
BY DEF TypeOK, DatabaseOK, Inserted, JobRow, JobStatus

\* Only the status and the flags of one row change.
LEMMA RowChanged ==
  ASSUME TypeOK, NEW r \in Rows, NEW new \in JobRow, jobs' = [jobs EXCEPT ![r] = new]
  PROVE  /\ Rows' = Rows
         /\ jobs' \in [Rows -> JobRow]
         /\ jobs'[r] = new
         /\ \A q \in Rows \ {r} : jobs'[q] = jobs[q]
BY DEF TypeOK, DatabaseOK, Rows

LEMMA Returned ==
  ASSUME TypeOK, NEW k \in Clients, Return(k)
  PROVE  /\ ClientOK'
         /\ at'[k] # "record"
         /\ \A j \in Clients \ {k} : at'[j] = at[j]
         /\ \A j \in Clients : sent'[j] \in {sent[j], Null}
BY JobsAssumption DEF TypeOK, Return, ClientOK, CampaignStatus

LEMMA Released ==
  ASSUME TypeOK, NEW w \in Workers, Release(w)
  PROVE  /\ WorkerOK'
         /\ \A v \in Workers \ {w} : pc'[v] = pc[v] /\ row'[v] = row[v]
BY DEF TypeOK, Release, WorkerOK

-----------------------------------------------------------------------------
(* The invariant.                                                          *)

LEMMA InitJobsInv == Init => JobsInv
<1> SUFFICES ASSUME Init
             PROVE  JobsInv
  OBVIOUS
<1>1. Rows = {} /\ jobs \in [Rows -> JobRow]
  BY DEF Init, Rows
<1>2. TypeOK
  BY <1>1, JobsAssumption DEF Init, TypeOK, DatabaseOK, ClientOK, WorkerOK, HistoryOK, CampaignStatus
<1>3. JobLogIsHonest /\ Custody
  BY <1>1 DEF Init, JobLogIsHonest, Custody
<1>4. QED
  BY <1>2, <1>3 DEF JobsInv

\* A step that leaves the rows, the queue, the workers' places and the tasks
\* in the handlers' hands alone, or gives some of these tasks up.
LEMMA QuietStep ==
  ASSUME JobsInv, UNCHANGED <<jobs, queue, pc, row, unheld>>,
         \A k \in Clients : at'[k] = "record" => at[k] = "record" /\ sent'[k] = sent[k],
         \A k \in Clients : sent'[k] \in {sent[k], Null}
  PROVE  JobLogIsHonest' /\ Custody'
<1>1. JobLogIsHonest'
  BY DEF JobsInv, JobLogIsHonest, Rows
<1>2. Custody'
  BY JobsAssumption DEF JobsInv, TypeOK, ClientOK, Custody, Rows
<1>3. QED
  BY <1>1, <1>2

\* Handlers: only Publish, Record and Delete touch a task or a row.
LEMMA ClientKeepsInv ==
  ASSUME JobsInv, NEW k \in Clients, LoadCampaign(k) \/ LoadDraft(k) \/ ClientStep(k) \/ ClientDies(k)
  PROVE  JobsInv'
<1> USE DEF JobsInv, TypeOK
<1>1. CASE LoadCampaign(k) \/ LoadDraft(k) \/ Check(k)
  <2>1. TypeOK'
    BY <1>1 DEF LoadCampaign, LoadDraft, Check, DatabaseOK, Rows, ClientOK, WorkerOK, HistoryOK,
                worker, history
  <2>2. JobLogIsHonest' /\ Custody'
    BY <1>1, QuietStep DEF LoadCampaign, LoadDraft, Check, ClientOK, worker, history
  <2>3. QED
    BY <2>1, <2>2
<1>2. CASE Refuse(k) \/ RecordStale(k) \/ ClientDies(k)
  <2>1. ClientOK' /\ Return(k)
    BY <1>2, Returned DEF Refuse, RecordStale, ClientDies
  <2>2. TypeOK'
    BY <1>2, <2>1 DEF Refuse, RecordStale, ClientDies, DatabaseOK, Rows, WorkerOK, HistoryOK,
                      worker, history
  <2>3. JobLogIsHonest' /\ Custody'
    BY <1>2, <2>1, QuietStep, Returned
    DEF Refuse, RecordStale, ClientDies, Return, ClientOK, worker, history
  <2>4. QED
    BY <2>2, <2>3
<1>3. CASE Publish(k)
  <2>1. PICK t \in FreshTasks : queue' = queue \cup {t} /\ sent' = [sent EXCEPT ![k] = t]
    BY <1>3 DEF Publish
  <2>2. /\ t \in Tasks /\ t # Null
        /\ \A r \in Rows : r[1] # t
        /\ \A j \in Clients : sent[j] # t
    BY JobsAssumption DEF FreshTasks
  <2>3. TypeOK'
    BY <1>3, <2>1, <2>2
    DEF Publish, DatabaseOK, Rows, ClientOK, WorkerOK, HistoryOK, worker, history
  <2>4. JobLogIsHonest'
    BY <1>3, <2>1 DEF Publish, JobLogIsHonest, Rows, worker, history
  <2>5. Custody'
    BY <1>3, <2>1, <2>2 DEF Publish, Custody, Rows, ClientOK, worker, history
  <2>6. QED
    BY <2>3, <2>4, <2>5
<1>4. CASE Record(k)
  <2> DEFINE r == <<sent[k], "handler">>
  <2>1. /\ sent[k] \in Tasks /\ r \in JobRows
        /\ r[1] = sent[k] /\ r \notin Rows
        /\ sent[k] \in queue \cup unheld
    BY <1>4 DEF Record, ClientOK, Custody, JobRows
  <2>2. jobs' = Inserted(r)
    BY <1>4 DEF Record
  <2>3. /\ Rows' = Rows \cup {r} /\ jobs' \in [Rows' -> JobRow]
        /\ jobs'[r].status = "queued"
        /\ \A q \in Rows : jobs'[q] = jobs[q]
    BY <2>1, <2>2, InsertedType DEF Rows
  <2>4. ClientOK' /\ Return(k) /\ at'[k] # "record"
    BY <1>4, Returned DEF Record
  <2>5. /\ \A j \in Clients \ {k} : at'[j] = at[j] /\ sent'[j] = sent[j]
        /\ sent'[k] = Null
    BY <2>4 DEF Return, ClientOK
  <2>6. \A j \in Clients \ {k} : at[j] = "record" => <<sent[j], "handler">> # r
    BY <1>4 DEF Record, Custody
  <2>7. \A t \in Tasks : <<t, "worker">> # r
    OBVIOUS
  <2> HIDE DEF r
  <2>8. TypeOK'
    BY <1>4, <2>1, <2>3, <2>4
    DEF Record, DatabaseOK, WorkerOK, HistoryOK, CampaignStatus, worker, history
  <2>9. JobLogIsHonest'
    BY <1>4, <2>1, <2>3 DEF Record, JobLogIsHonest, worker, history
  <2>10. Custody'
    BY <1>4, <2>3, <2>4, <2>5, <2>6, <2>7, JobsAssumption DEF Record, Custody, ClientOK, history
  <2>11. QED
    BY <2>8, <2>9, <2>10
<1>5. CASE Delete(k)
  <2>1. /\ Rows' \subseteq Rows /\ \A q \in Rows' : jobs'[q] = jobs[q]
        /\ jobs' \in [Rows' -> JobRow]
    BY <1>5 DEF Delete, Rows, DatabaseOK
  <2>2. ClientOK' /\ Return(k)
    BY <1>5, Returned DEF Delete
  <2>3. \A j \in Clients : at'[j] = "record" => at[j] = "record" /\ sent'[j] = sent[j]
    BY <2>2 DEF Return, ClientOK
  <2>4. TypeOK'
    BY <1>5, <2>1, <2>2 DEF Delete, DatabaseOK, WorkerOK, HistoryOK, CampaignStatus, worker, history
  <2>5. JobLogIsHonest'
    BY <1>5, <2>1 DEF Delete, JobLogIsHonest, worker, history
  <2>6. \A j \in Clients : sent'[j] \in {sent[j], Null}
    BY <2>2, Returned
  <2>7. Custody'
    BY <1>5, <2>1, <2>3, <2>6, JobsAssumption DEF Delete, Custody, ClientOK, history
  <2>8. QED
    BY <2>4, <2>5, <2>7
<1>6. QED
  BY <1>1, <1>2, <1>3, <1>4, <1>5 DEF ClientStep

\* A step that leaves the handlers, the queue and the set of rows alone keeps
\* the custody of the tasks.
LEMMA CustodyKept ==
  ASSUME JobsInv, UNCHANGED <<client, queue>>, unheld \subseteq unheld', Rows' = Rows
  PROVE  Custody'
BY DEF JobsInv, Custody, client

LEMMA WorkerKeepsInv ==
  ASSUME JobsInv, NEW w \in Workers, BeatCycle(w) \/ Find(w) \/ Cycle(w) \/ WorkerDies(w)
  PROVE  JobsInv'
<1> USE DEF JobsInv, TypeOK
<1>0. UNCHANGED client => ClientOK'
  BY DEF client, ClientOK
<1>1. CASE BeatCycle(w) \/ Begin(w) \/ EndPass(w)
  <2>1. WorkerOK'
    BY <1>1 DEF BeatCycle, Begin, EndPass, WorkerOK
  <2>2. UNCHANGED <<status, jobs, queue, client, row, history, ops, crashes>>
    BY <1>1 DEF BeatCycle, Begin, EndPass
  <2>3. JobLogIsHonest'
    <3>1. \A v \in Workers : row[v] # Null => (pc'[v] = "mark" <=> pc[v] = "mark")
      BY <1>1 DEF BeatCycle, Begin, EndPass, WorkerOK
    <3>2. \A r \in Rows : r # Null
      BY JobsAssumption DEF DatabaseOK
    <3>3. QED
      BY <2>2, <3>1, <3>2 DEF JobLogIsHonest, Rows, history
  <2>4. QED
    BY <1>0, <2>1, <2>2, <2>3, CustodyKept DEF DatabaseOK, HistoryOK, Rows, history
<1>2. CASE Find(w)
  <2>1. PICK t \in queue :
          /\ queue' = queue \ {t}
          /\ task' = [task EXCEPT ![w] = t]
          /\ \/ /\ \E r \in RowsOf(t) : row' = [row EXCEPT ![w] = r]
                /\ UNCHANGED <<jobs, unheld>>
             \/ /\ RowsOf(t) = {}
                /\ row' = [row EXCEPT ![w] = <<t, "worker">>]
                /\ jobs' = Inserted(<<t, "worker">>)
                /\ unheld' = unheld \cup {t}
    BY <1>2 DEF Find
  <2>2. /\ pc[w] = "idle" /\ pc' = [pc EXCEPT ![w] = "mark"]
        /\ UNCHANGED <<status, client, halted, ops, crashes>>
        /\ row[w] = Null /\ t \in Tasks /\ t # Null
    BY <1>2, JobsAssumption DEF Find, WorkerOK, DatabaseOK
  <2>3. ASSUME NEW r \in RowsOf(t), row' = [row EXCEPT ![w] = r], UNCHANGED <<jobs, unheld>>
        PROVE  JobsInv'
    <3>1. r \in Rows /\ r[1] = t /\ r \in {t} \X {"handler", "worker"}
      BY DEF RowsOf, DatabaseOK, JobRows
    <3>2. TypeOK'
      BY <1>0, <2>1, <2>2, <2>3, <3>1 DEF DatabaseOK, WorkerOK, HistoryOK, Rows
    <3>3. JobLogIsHonest'
      <4> SUFFICES ASSUME NEW q \in Rows, q[1] \notin unheld
                   PROVE  /\ jobs[q].status = "queued" =>
                               q[1] \in queue' \/ \E v \in Workers : row'[v] = q /\ pc'[v] = "mark"
                          /\ jobs[q].status = "running" =>
                               \E v \in Workers : row'[v] = q /\ pc'[v] # "mark"
        BY <2>3 DEF JobLogIsHonest, Rows
      <4>1. q[1] = t => q = r
        <5>1. <<t, "worker">> \in Rows => t \in unheld
          BY <2>2 DEF Custody
        <5>2. \A x \in Rows : x[1] = t => x = <<t, "worker">> \/ x = <<t, "handler">>
          BY DEF DatabaseOK, JobRows
        <5>3. QED
          BY <3>1, <5>1, <5>2
      <4>2. q # Null
        BY JobsAssumption DEF DatabaseOK
      <4>3. row'[w] = r /\ pc'[w] = "mark"
        BY <2>2, <2>3 DEF WorkerOK
      <4>4. \A v \in Workers \ {w} : row'[v] = row[v] /\ pc'[v] = pc[v]
        BY <2>2, <2>3 DEF WorkerOK
      <4>5. QED
        BY <2>1, <2>2, <4>1, <4>2, <4>3, <4>4 DEF JobLogIsHonest
    <3>4. Custody'
      <4> SUFFICES ASSUME NEW k \in Clients, at[k] = "record"
                   PROVE  sent[k] \in queue' \cup unheld
        BY <2>2, <2>3 DEF Custody, Rows, client
      <4>1. sent[k] # t \/ t \in unheld
        <5>1. <<t, "worker">> \in Rows => t \in unheld
          BY <2>2 DEF Custody
        <5>2. r = <<t, "worker">> \/ r = <<t, "handler">>
          BY <3>1
        <5>3. QED
          BY <3>1, <5>1, <5>2 DEF Custody
      <4>2. QED
        BY <2>1, <4>1 DEF Custody
    <3>5. QED
      BY <3>2, <3>3, <3>4
  <2>4. ASSUME RowsOf(t) = {}, row' = [row EXCEPT ![w] = <<t, "worker">>],
               jobs' = Inserted(<<t, "worker">>), unheld' = unheld \cup {t}
        PROVE  JobsInv'
    <3> DEFINE r == <<t, "worker">>
    <3>1. r \in JobRows /\ r[1] = t /\ r \notin Rows
      BY <2>2, <2>4 DEF JobRows, RowsOf
    <3>2. /\ Rows' = Rows \cup {r} /\ jobs' \in [Rows' -> JobRow]
          /\ \A q \in Rows : jobs'[q] = jobs[q]
      BY <2>4, <3>1, InsertedType DEF Rows
    <3>3. TypeOK'
      BY <1>0, <2>1, <2>2, <2>4, <3>1, <3>2 DEF DatabaseOK, WorkerOK, HistoryOK
    <3>4. JobLogIsHonest'
      <4> SUFFICES ASSUME NEW q \in Rows', q[1] \notin unheld'
                   PROVE  /\ jobs'[q].status = "queued" =>
                               q[1] \in queue' \/ \E v \in Workers : row'[v] = q /\ pc'[v] = "mark"
                          /\ jobs'[q].status = "running" =>
                               \E v \in Workers : row'[v] = q /\ pc'[v] # "mark"
        BY DEF JobLogIsHonest
      <4>1. q \in Rows /\ q[1] # t /\ q[1] \notin unheld /\ q # Null
        BY <2>4, <3>1, <3>2, JobsAssumption DEF DatabaseOK
      <4>2. \A v \in Workers \ {w} : row'[v] = row[v] /\ pc'[v] = pc[v]
        BY <2>2, <2>4 DEF WorkerOK
      <4>3. QED
        BY <2>1, <2>2, <3>2, <4>1, <4>2 DEF JobLogIsHonest
    <3>5. Custody'
      <4>1. \A k \in Clients : <<sent[k], "handler">> # r
        OBVIOUS
      <4>2. \A s \in Tasks : <<s, "worker">> = r => s = t
        OBVIOUS
      <4> HIDE DEF r
      <4>3. QED
        BY <2>1, <2>2, <2>4, <3>2, <4>1, <4>2 DEF Custody, client
    <3>6. QED
      BY <3>3, <3>4, <3>5
  <2>5. QED
    BY <2>1, <2>3, <2>4
<1>3. CASE Mark(w)
  <2> DEFINE new == [jobs[row[w]] EXCEPT !.status = "running", !.started = TRUE]
  <2>1. row[w] \in Rows /\ pc' = [pc EXCEPT ![w] = "begin"]
        /\ UNCHANGED <<status, queue, client, task, row, history, ops, crashes>>
    BY <1>3 DEF Mark
  <2>2. new \in JobRow /\ new.status = "running"
    BY <2>1 DEF DatabaseOK, JobRow, JobStatus
  <2>3. jobs' = [jobs EXCEPT ![row[w]] = new]
    BY <1>3 DEF Mark
  <2> HIDE DEF new
  <2>4. /\ Rows' = Rows /\ jobs' \in [Rows -> JobRow]
        /\ jobs'[row[w]].status = "running"
        /\ \A q \in Rows \ {row[w]} : jobs'[q] = jobs[q]
    BY <2>1, <2>2, <2>3, RowChanged
  <2>5. TypeOK'
    BY <1>0, <2>1, <2>4 DEF DatabaseOK, WorkerOK, HistoryOK, history
  <2>6. JobLogIsHonest'
    <3>1. \A v \in Workers \ {w} : pc'[v] = pc[v]
      BY <2>1 DEF WorkerOK
    <3>2. pc'[w] = "begin"
      BY <2>1 DEF WorkerOK
    <3>3. QED
      BY <2>1, <2>4, <3>1, <3>2 DEF JobLogIsHonest, history
  <2>7. QED
    BY <2>1, <2>4, <2>5, <2>6, CustodyKept DEF history
<1>4. CASE Complete(w)
  <2>1. WorkerOK' /\ \A v \in Workers \ {w} : pc'[v] = pc[v] /\ row'[v] = row[v]
    BY <1>4, Released DEF Complete
  <2>2. UNCHANGED <<status, queue, client, history, ops, crashes>>
    BY <1>4 DEF Complete
  <2>3. /\ Rows' = Rows /\ jobs' \in [Rows -> JobRow]
        /\ \A q \in Rows \ {row[w]} : jobs'[q] = jobs[q]
        /\ row[w] \in Rows => jobs'[row[w]].status = "completed"
    <3>1. CASE task[w] = Null
      BY <1>4, <3>1, JobsAssumption DEF Complete, DatabaseOK, WorkerOK, Rows
    <3>2. CASE task[w] # Null
      <4> DEFINE new == [jobs[row[w]] EXCEPT !.status = "completed", !.named = TRUE]
      <4>1. row[w] \in Rows /\ jobs' = [jobs EXCEPT ![row[w]] = new]
        BY <1>4, <3>2 DEF Complete
      <4>2. new \in JobRow /\ new.status = "completed"
        BY <4>1 DEF DatabaseOK, JobRow, JobStatus
      <4> HIDE DEF new
      <4>3. QED
        BY <4>1, <4>2, RowChanged
    <3>3. QED
      BY <3>1, <3>2
  <2>4. TypeOK'
    BY <1>0, <2>1, <2>2, <2>3 DEF DatabaseOK, HistoryOK, history
  <2>5. JobLogIsHonest'
    BY <2>1, <2>2, <2>3 DEF JobLogIsHonest, history
  <2>6. QED
    BY <2>2, <2>3, <2>4, <2>5, CustodyKept DEF history
<1>5. CASE Fail(w) \/ Abort(w) \/ WorkerDies(w)
  <2>1. WorkerOK' /\ \A v \in Workers \ {w} : pc'[v] = pc[v] /\ row'[v] = row[v]
    BY <1>5, Released DEF Fail, Abort, WorkerDies
  <2>2. /\ UNCHANGED <<status, queue, client, halted, ops>>
        /\ crashes' \in Nat /\ unheld' = unheld \cup ({task[w]} \ {Null})
    <3>1. pc[w] = "error" => task[w] # Null
      BY DEF WorkerOK
    <3>2. QED
      BY <1>5, <3>1 DEF Fail, Abort, WorkerDies, HistoryOK
  <2>3. /\ Rows' = Rows /\ jobs' \in [Rows -> JobRow]
        /\ \A q \in Rows : q[1] = task[w] \/ jobs'[q] = jobs[q]
    <3>1. CASE UNCHANGED jobs
      BY <3>1 DEF DatabaseOK, Rows
    <3>2. ASSUME NEW r \in RowsOf(task[w]), jobs' = [jobs EXCEPT ![r].status = "failed"]
          PROVE  /\ Rows' = Rows /\ jobs' \in [Rows -> JobRow]
                 /\ \A q \in Rows : q[1] = task[w] \/ jobs'[q] = jobs[q]
      <4> DEFINE new == [jobs[r] EXCEPT !.status = "failed"]
      <4>1. r \in Rows /\ r[1] = task[w] /\ jobs' = [jobs EXCEPT ![r] = new]
        BY <3>2 DEF RowsOf
      <4>2. new \in JobRow
        BY <4>1 DEF DatabaseOK, JobRow, JobStatus
      <4> HIDE DEF new
      <4>3. QED
        BY <4>1, <4>2, RowChanged
    <3>3. QED
      BY <1>5, <3>1, <3>2 DEF Fail, Abort, WorkerDies
  <2>4. TypeOK'
    BY <1>0, <2>1, <2>2, <2>3 DEF DatabaseOK, WorkerOK, HistoryOK
  <2>5. JobLogIsHonest'
    <3> SUFFICES ASSUME NEW q \in Rows, q[1] \notin unheld'
                 PROVE  /\ jobs'[q] = jobs[q] /\ q[1] \notin unheld
                        /\ row[w] # q
      BY <2>1, <2>2, <2>3 DEF JobLogIsHonest
    <3>1. q # Null /\ q[1] \in Tasks
      BY JobsAssumption DEF DatabaseOK, JobRows
    <3>2. row[w] = q => task[w] = q[1]
      BY <3>1 DEF WorkerOK
    <3>3. q[1] # task[w]
      BY <2>2, <3>1, JobsAssumption
    <3>4. QED
      BY <2>2, <2>3, <3>2, <3>3
  <2>6. QED
    BY <2>2, <2>3, <2>4, <2>5, CustodyKept
<1>6. QED
  BY <1>1, <1>2, <1>3, <1>4, <1>5 DEF Cycle

\* Operators and time.
LEMMA OperatorKeepsInv ==
  ASSUME JobsInv, Operator \/ \E r \in JobRows : Age(r)
  PROVE  JobsInv'
<1> USE DEF JobsInv, TypeOK
<1>0. /\ UNCHANGED client => ClientOK'
      /\ UNCHANGED worker => WorkerOK'
  BY DEF client, ClientOK, worker, WorkerOK
<1>1. ASSUME NEW from, NEW to \in CampaignStatus, SetStatus(from, to)
      PROVE  JobsInv'
  <2>1. TypeOK'
    BY <1>0, <1>1 DEF SetStatus, Operates, DatabaseOK, Rows, HistoryOK, history
  <2>2. JobLogIsHonest' /\ Custody'
    BY <1>1, QuietStep DEF SetStatus, client, worker, history
  <2>3. QED
    BY <2>1, <2>2
<1>2. ASSUME NEW t \in Tasks, NEW r \in RowsOf(t), NEW s \in {"queued", "cancelled"},
             Operates, jobs' = [jobs EXCEPT ![r].status = s],
             UNCHANGED <<status, queue, client, worker, crashes>>,
             unheld' = IF s = "queued" THEN unheld \cup {t} ELSE unheld,
             halted' \subseteq Tasks
      PROVE  JobsInv'
  <2> DEFINE new == [jobs[r] EXCEPT !.status = s]
  <2>1. r \in Rows /\ r[1] = t
    BY DEF RowsOf
  <2>2. new \in JobRow /\ new.status = s
    BY <2>1 DEF DatabaseOK, JobRow, JobStatus
  <2>3. jobs' = [jobs EXCEPT ![r] = new]
    BY <1>2
  <2> HIDE DEF new
  <2>4. /\ Rows' = Rows /\ jobs' \in [Rows -> JobRow] /\ jobs'[r].status = s
        /\ \A q \in Rows \ {r} : jobs'[q] = jobs[q]
    BY <2>1, <2>2, <2>3, RowChanged
  <2>5. TypeOK'
    BY <1>0, <1>2, <2>4 DEF Operates, DatabaseOK, HistoryOK
  <2>6. JobLogIsHonest'
    BY <1>2, <2>1, <2>4 DEF JobLogIsHonest, worker
  <2>7. QED
    BY <1>2, <2>4, <2>5, <2>6, CustodyKept
<1>3. ASSUME NEW t \in Tasks, RetryJob(t)
      PROVE  JobsInv'
  BY <1>2, <1>3 DEF RetryJob, HistoryOK
<1>4. ASSUME NEW t \in Tasks, CancelJob(t)
      PROVE  JobsInv'
  BY <1>2, <1>4 DEF CancelJob, HistoryOK
<1>5. ASSUME NEW r \in JobRows, Age(r)
      PROVE  JobsInv'
  <2>1. PICK s \in {FALSE, jobs[r].started} :
          jobs' = [jobs EXCEPT ![r].created = FALSE, ![r].started = s]
    BY <1>5 DEF Age
  <2> DEFINE new == [jobs[r] EXCEPT !.created = FALSE, !.started = s]
  <2>2. r \in Rows
    BY <1>5 DEF Age
  <2>3. new \in JobRow /\ new.status = jobs[r].status
    BY <2>1, <2>2 DEF DatabaseOK, JobRow
  <2>4. jobs' = [jobs EXCEPT ![r] = new]
    BY <2>1
  <2> HIDE DEF new
  <2>5. /\ Rows' = Rows /\ jobs' \in [Rows -> JobRow]
        /\ \A q \in Rows : jobs'[q].status = jobs[q].status
    BY <2>2, <2>3, <2>4, RowChanged
  <2>6. UNCHANGED <<status, queue, client, worker, history, ops, crashes>>
    BY <1>5 DEF Age
  <2>7. TypeOK'
    BY <1>0, <2>5, <2>6 DEF DatabaseOK, HistoryOK, history
  <2>8. JobLogIsHonest'
    BY <2>5, <2>6 DEF JobLogIsHonest, worker, history
  <2>9. QED
    BY <2>5, <2>6, <2>7, <2>8, CustodyKept DEF history
<1>6. Pause \/ Archive \/ Unarchive => JobsInv'
  BY <1>1 DEF Pause, Archive, Unarchive, CampaignStatus
<1>7. QED
  BY <1>3, <1>4, <1>5, <1>6 DEF Operator

LEMMA JobsInvariant == Spec => []JobsInv
<1>1. ASSUME JobsInv, [Next]_vars
      PROVE  JobsInv'
  <2>1. CASE UNCHANGED vars
    <3>1. TypeOK'
      BY <1>1, <2>1 DEF vars, client, worker, history, JobsInv, TypeOK, DatabaseOK, Rows, ClientOK,
                        WorkerOK, HistoryOK
    <3>2. JobLogIsHonest' /\ Custody'
      BY <1>1, <2>1, QuietStep DEF vars, client, worker, history
    <3>3. QED
      BY <3>1, <3>2 DEF JobsInv
  <2>2. QED
    BY <1>1, <2>1, ClientKeepsInv, WorkerKeepsInv, OperatorKeepsInv DEF Next
<1>2. QED
  BY <1>1, InitJobsInv, PTL DEF Spec

\* Handlers and workers never lose track of the task or the row they work on.
THEOREM JobsTypeCorrect == Spec => []TypeOK
<1>1. JobsInv => TypeOK
  BY DEF JobsInv
<1>2. QED
  BY <1>1, JobsInvariant, PTL

\* With any number of handlers and workers, a row that says more than happens
\* is one a worker outran, a dead process left, an exception hit or the panel
\* rewrote.
THEOREM JobLogHonesty == Spec => []JobLogIsHonest
<1>1. JobsInv => JobLogIsHonest
  BY DEF JobsInv
<1>2. QED
  BY <1>1, JobsInvariant, PTL
-----------------------------------------------------------------------------
(* A job is worked on once.                                                *)

Done == {"completed", "failed"}

\* A task is in one place, and there is no place for the task of a finished row.
Exclusive ==
  /\ \A w \in Workers : task[w] # Null => /\ task[w] \notin queue
                                          /\ \A v \in Workers \ {w} : task[v] # task[w]
  /\ \A r \in Rows : jobs[r].status \in Done => /\ r[1] \notin queue
                                               /\ \A w \in Workers : task[w] # r[1]

\* What becomes of a row: it stays, the panel rewrites it, the worker that has
\* its task in hand does, or it is new.
RowMoves(r) ==
  \/ r \in Rows /\ jobs'[r].status = jobs[r].status
  \/ r \in Rows /\ ops' < ops /\ jobs'[r].status \notin Done
  \/ r \in Rows /\ \E w \in Workers : /\ task[w] = r[1]
                                      /\ jobs'[r].status \in Done => task'[w] = Null
  \/ r \notin Rows /\ jobs'[r].status \notin Done

LEMMA InsertedMoves ==
  ASSUME JobsInv, NEW r \in JobRows, r \notin Rows, jobs' = Inserted(r)
  PROVE  \A q \in Rows' : RowMoves(q)
<1>1. /\ Rows' = Rows \cup {r} /\ jobs'[r].status = "queued"
      /\ \A q \in Rows \ {r} : jobs'[q] = jobs[q]
  BY InsertedType DEF JobsInv, Rows
<1>2. QED
  BY <1>1 DEF RowMoves, Done

\* The worker writes a row of the task it has in hand.
LEMMA WrittenMoves ==
  ASSUME JobsInv, NEW w \in Workers, NEW r \in Rows, task[w] = r[1], NEW new \in JobRow,
         jobs' = [jobs EXCEPT ![r] = new], new.status \in Done => task'[w] = Null
  PROVE  \A q \in Rows' : RowMoves(q)
BY RowChanged DEF JobsInv, RowMoves, Rows

LEMMA WorkerMovesRows ==
  ASSUME JobsInv, NEW w \in Workers, Find(w) \/ Cycle(w)
  PROVE  \A q \in Rows' : RowMoves(q)
<1>1. UNCHANGED jobs => \A q \in Rows' : RowMoves(q)
  BY DEF RowMoves, Rows
<1>2. CASE Find(w)
  <2>1. PICK t \in queue : UNCHANGED jobs \/ (RowsOf(t) = {} /\ jobs' = Inserted(<<t, "worker">>))
    BY <1>2 DEF Find
  <2>2. t \in Tasks
    BY DEF JobsInv, TypeOK, DatabaseOK
  <2>3. <<t, "worker">> \in JobRows /\ (RowsOf(t) = {} => <<t, "worker">> \notin Rows)
    BY <2>2 DEF RowsOf, JobRows
  <2>4. QED
    BY <1>1, <2>1, <2>3, InsertedMoves
<1>3. ASSUME task[w] # Null, row[w] \in Rows
      PROVE  row[w][1] = task[w]
  BY <1>3 DEF JobsInv, TypeOK, WorkerOK
<1>4. CASE Mark(w)
  <2> DEFINE new == [jobs[row[w]] EXCEPT !.status = "running", !.started = TRUE]
  <2>1. row[w] \in Rows /\ task[w] # Null
    BY <1>4 DEF Mark, JobsInv, TypeOK, WorkerOK
  <2>2. new \in JobRow /\ new.status = "running"
    BY <2>1 DEF JobsInv, TypeOK, DatabaseOK, JobRow, JobStatus
  <2>3. jobs' = [jobs EXCEPT ![row[w]] = new]
    BY <1>4 DEF Mark
  <2> HIDE DEF new
  <2>4. QED
    BY <1>3, <2>1, <2>2, <2>3, WrittenMoves DEF Done
<1>5. CASE Complete(w) /\ task[w] # Null
  <2> DEFINE new == [jobs[row[w]] EXCEPT !.status = "completed", !.named = TRUE]
  <2>1. row[w] \in Rows /\ jobs' = [jobs EXCEPT ![row[w]] = new] /\ task'[w] = Null
    BY <1>5 DEF Complete, Release, JobsInv, TypeOK, WorkerOK
  <2>2. new \in JobRow
    BY <2>1 DEF JobsInv, TypeOK, DatabaseOK, JobRow, JobStatus
  <2> HIDE DEF new
  <2>3. QED
    BY <1>3, <1>5, <2>1, <2>2, WrittenMoves
<1>6. ASSUME NEW r \in RowsOf(task[w]), Fail(w), jobs' = [jobs EXCEPT ![r].status = "failed"]
      PROVE  \A q \in Rows' : RowMoves(q)
  <2> DEFINE new == [jobs[r] EXCEPT !.status = "failed"]
  <2>1. r \in Rows /\ r[1] = task[w] /\ task'[w] = Null
    BY <1>6 DEF RowsOf, Fail, Release, JobsInv, TypeOK, WorkerOK
  <2>2. new \in JobRow /\ jobs' = [jobs EXCEPT ![r] = new]
    BY <1>6, <2>1 DEF JobsInv, TypeOK, DatabaseOK, JobRow, JobStatus
  <2> HIDE DEF new
  <2>3. QED
    BY <2>1, <2>2, WrittenMoves
<1>7. Fail(w) => UNCHANGED jobs \/ \E r \in RowsOf(task[w]) : jobs' = [jobs EXCEPT ![r].status = "failed"]
  BY DEF Fail
<1>8. Begin(w) \/ EndPass(w) \/ Abort(w) \/ (Complete(w) /\ task[w] = Null) => UNCHANGED jobs
  BY DEF Begin, EndPass, Abort, Complete
<1>9. QED
  BY <1>1, <1>2, <1>4, <1>5, <1>6, <1>7, <1>8 DEF Cycle

LEMMA StepMovesRows ==
  ASSUME JobsInv, [Next]_vars
  PROVE  \A q \in Rows' : RowMoves(q)
<1>1. UNCHANGED jobs => \A q \in Rows' : RowMoves(q)
  BY DEF RowMoves, Rows
<1>2. ASSUME NEW k \in Clients, LoadCampaign(k) \/ LoadDraft(k) \/ ClientStep(k) \/ ClientDies(k)
      PROVE  \A q \in Rows' : RowMoves(q)
  <2>1. CASE Record(k)
    <3>1. /\ sent[k] \in Tasks /\ <<sent[k], "handler">> \notin Rows
          /\ jobs' = Inserted(<<sent[k], "handler">>)
      BY <2>1, JobsAssumption DEF Record, JobsInv, Custody, TypeOK, ClientOK
    <3>2. QED
      BY <3>1, InsertedMoves DEF JobRows
  <2>2. CASE Delete(k)
    BY <2>2 DEF Delete, RowMoves, Rows
  <2>3. CASE ~Record(k) /\ ~Delete(k)
    BY <1>1, <1>2, <2>3 DEF ClientStep, LoadCampaign, LoadDraft, Check, Refuse, Publish,
                            RecordStale, ClientDies
  <2>4. QED
    BY <2>1, <2>2, <2>3
<1>3. ASSUME NEW w \in Workers, BeatCycle(w) \/ Find(w) \/ Cycle(w) \/ WorkerDies(w)
      PROVE  \A q \in Rows' : RowMoves(q)
  BY <1>1, <1>3, WorkerMovesRows DEF BeatCycle, WorkerDies
<1>4. ASSUME NEW r \in JobRows, Age(r)
      PROVE  \A q \in Rows' : RowMoves(q)
  <2>1. PICK s \in {FALSE, jobs[r].started} :
          jobs' = [jobs EXCEPT ![r] = [jobs[r] EXCEPT !.created = FALSE, !.started = s]]
    BY <1>4 DEF Age
  <2>2. \A q \in Rows : jobs[q] \in JobRow
    BY DEF JobsInv, TypeOK, DatabaseOK
  <2>3. QED
    BY <2>1, <2>2 DEF RowMoves, Rows, JobRow
<1>5. ASSUME NEW t \in Tasks, RetryJob(t) \/ CancelJob(t)
      PROVE  \A q \in Rows' : RowMoves(q)
  <2>1. PICK r \in RowsOf(t), s \in {"queued", "cancelled"} :
          jobs' = [jobs EXCEPT ![r] = [jobs[r] EXCEPT !.status = s]]
    BY <1>5 DEF RetryJob, CancelJob
  <2>2. ops' < ops
    BY <1>5 DEF RetryJob, CancelJob, Operates, JobsInv, TypeOK, HistoryOK
  <2>3. \A q \in Rows : jobs[q] \in JobRow
    BY DEF JobsInv, TypeOK, DatabaseOK
  <2>4. QED
    BY <2>1, <2>2, <2>3 DEF RowMoves, Rows, RowsOf, JobRow, Done
<1>6. Pause \/ Archive \/ Unarchive \/ UNCHANGED vars => UNCHANGED jobs
  BY DEF Pause, Archive, Unarchive, SetStatus, vars
<1>7. QED
  BY <1>1, <1>2, <1>3, <1>4, <1>5, <1>6 DEF Next, Operator

\* Tasks go from the handler to the broker and from there to one worker.
LEMMA StepMovesTasks ==
  ASSUME JobsInv, [Next]_vars
  PROVE  \/ queue' = queue /\ \A w \in Workers : task'[w] \in {task[w], Null}
         \/ UNCHANGED task /\ \E t \in FreshTasks : queue' = queue \cup {t}
         \/ \E w \in Workers, t \in queue : queue' = queue \ {t} /\ task' = [task EXCEPT ![w] = t]
<1>1. ASSUME NEW w \in Workers, Cycle(w) \/ WorkerDies(w)
      PROVE  queue' = queue /\ \A v \in Workers : task'[v] \in {task[v], Null}
  BY <1>1 DEF Cycle, Mark, Begin, EndPass, Complete, Fail, Abort, WorkerDies, Release,
              JobsInv, TypeOK, WorkerOK
<1>2. ASSUME NEW w \in Workers, Find(w)
      PROVE  \E t \in queue : queue' = queue \ {t} /\ task' = [task EXCEPT ![w] = t]
  BY <1>2 DEF Find
<1>3. ASSUME NEW k \in Clients, Publish(k)
      PROVE  UNCHANGED task /\ \E t \in FreshTasks : queue' = queue \cup {t}
  BY <1>3 DEF Publish, worker
<1>4. ASSUME NEW k \in Clients, ~Publish(k),
             LoadCampaign(k) \/ LoadDraft(k) \/ ClientStep(k) \/ ClientDies(k)
      PROVE  UNCHANGED <<queue, task>>
  BY <1>4 DEF ClientStep, LoadCampaign, LoadDraft, Check, Refuse, Record, RecordStale, Delete,
              ClientDies, worker
<1>5. (\E w \in Workers : BeatCycle(w)) \/ (\E r \in JobRows : Age(r)) \/ Operator \/ UNCHANGED vars
        => UNCHANGED <<queue, task>>
  BY DEF BeatCycle, Age, Operator, Pause, Archive, Unarchive, SetStatus, RetryJob, CancelJob,
         vars, worker
<1>6. QED
  BY <1>1, <1>2, <1>3, <1>4, <1>5 DEF Next

LEMMA ExclusiveStep ==
  ASSUME JobsInv, JobsInv', Exclusive, [Next]_vars
  PROVE  Exclusive'
<1>1. \A r \in Rows' : r[1] \in Tasks /\ r[1] # Null
  BY JobsAssumption DEF JobsInv, TypeOK, DatabaseOK, JobRows
<1>2. task \in [Workers -> Tasks \cup {Null}] /\ queue \subseteq Tasks /\ Null \notin Tasks
  BY JobsAssumption DEF JobsInv, TypeOK, WorkerOK, DatabaseOK
<1>3. ASSUME NEW r \in Rows', jobs'[r].status \in Done
      PROVE  /\ r \in Rows /\ r[1] \notin queue
             /\ \A v \in Workers : task[v] = r[1] => task'[v] = Null
  <2>1. RowMoves(r)
    BY StepMovesRows
  <2>2. QED
    BY <1>1, <1>3, <2>1 DEF RowMoves, Exclusive
<1>4. CASE queue' = queue /\ \A w \in Workers : task'[w] \in {task[w], Null}
  BY <1>1, <1>3, <1>4 DEF Exclusive
<1>5. ASSUME NEW t \in FreshTasks, queue' = queue \cup {t}, UNCHANGED task
      PROVE  Exclusive'
  <2>1. /\ \A r \in Rows : r[1] # t
        /\ \A w \in Workers : task[w] # t
    BY DEF FreshTasks
  <2>2. QED
    BY <1>1, <1>3, <1>5, <2>1 DEF Exclusive
<1>6. ASSUME NEW w \in Workers, NEW t \in queue, queue' = queue \ {t}, task' = [task EXCEPT ![w] = t]
      PROVE  Exclusive'
  BY <1>1, <1>2, <1>3, <1>6 DEF Exclusive
<1>7. QED
  BY <1>4, <1>5, <1>6, StepMovesTasks

\* However handlers, workers, beat, crashes and the panel interleave, a row that
\* says completed or failed is never written again by a worker or a handler.
THEOREM JobsDoneOnce == Spec => JobsAreDoneOnce
<1>1. Init => Exclusive
  BY DEF Init, Exclusive, Rows
<1>2. JobsInv /\ JobsInv' /\ Exclusive /\ [Next]_vars => Exclusive'
  BY ExclusiveStep
<1>3. JobsInv /\ Exclusive /\ [Next]_vars => [FinishedJobsStay]_vars
  BY StepMovesRows DEF RowMoves, Exclusive, FinishedJobsStay, Done
<1>4. QED
  BY <1>1, <1>2, <1>3, JobsInvariant, PTL DEF Spec, JobsAreDoneOnce

-----------------------------------------------------------------------------
(* Passes do not pile up.  The handler refuses a second pass by what the   *)
(* rows say, which is what happens only under the two conditions below;    *)
(* the code sees to neither.                                               *)

\* The tasks of the campaign that wait in the broker or that a worker has.
Live == queue \cup ({task[w] : w \in Workers} \ {Null})

Starting(k) == at[k] \in {"publish", "record"}

\* What a lock on the campaign from the check to the commit would give.
StartsTakeTurns == \A j, k \in Clients : Starting(j) /\ Starting(k) => j = k

\* A live task has a row that counts as a pass under way, or its handler is yet
\* to commit one: nobody cancelled it, deleted it or let it grow stale, and its
\* handler did not die.
RowsKeepUp ==
  \A t \in Live : (\E k \in Clients : sent[k] = t) \/ (\E r \in RowsOf(t) : Blocks(r))

OnePassIsUnderWay == \A t, u \in Live : t = u

\* OnePassIsUnderWay is not inductive: a handler that has seen no pass must not
\* find one there when it publishes its own.
PassInv ==
  /\ OnePassIsUnderWay
  /\ \A k \in Clients : at[k] = "publish" => Live = {}
  /\ \A k \in Clients : at[k] = "record" => Live \subseteq {sent[k]}

\* Only a handler's publication adds to the live tasks.
LEMMA LiveStep ==
  ASSUME JobsInv, [Next]_vars
  PROVE  Live' \subseteq Live \/ \E k \in Clients : Publish(k)
<1>1. task \in [Workers -> Tasks \cup {Null}]
  BY DEF JobsInv, TypeOK, WorkerOK
<1>2. CASE queue' = queue /\ \A w \in Workers : task'[w] \in {task[w], Null}
  BY <1>2 DEF Live
<1>3. ASSUME NEW w \in Workers, NEW t \in queue, queue' = queue \ {t}, task' = [task EXCEPT ![w] = t]
      PROVE  Live' \subseteq Live
  BY <1>1, <1>3 DEF Live
<1>4. ASSUME NEW t \in FreshTasks, queue' = queue \cup {t}, ~\E k \in Clients : Publish(k)
      PROVE  FALSE
  <2>1. t \notin queue
    BY DEF FreshTasks
  <2>2. queue' \subseteq queue
    <3>1. ASSUME NEW w \in Workers, BeatCycle(w) \/ Find(w) \/ Cycle(w) \/ WorkerDies(w)
          PROVE  queue' \subseteq queue
      BY <3>1 DEF BeatCycle, Find, Cycle, Mark, Begin, EndPass, Complete, Fail, Abort, WorkerDies
    <3>2. ASSUME NEW k \in Clients, LoadCampaign(k) \/ LoadDraft(k) \/ ClientStep(k) \/ ClientDies(k)
          PROVE  queue' \subseteq queue
      BY <1>4, <3>2 DEF ClientStep, LoadCampaign, LoadDraft, Check, Refuse, Record, RecordStale,
                        Delete, ClientDies
    <3>3. Operator \/ (\E r \in JobRows : Age(r)) \/ UNCHANGED vars => queue' \subseteq queue
      BY DEF Operator, Pause, Archive, Unarchive, SetStatus, RetryJob, CancelJob, Age, vars
    <3>4. QED
      BY <3>1, <3>2, <3>3 DEF Next
  <2>3. QED
    BY <1>4, <2>1, <2>2
<1>5. QED
  BY <1>2, <1>3, <1>4, StepMovesTasks

\* How a handler comes to where it publishes, and to where it commits.
LEMMA StartStep ==
  ASSUME JobsInv, [Next]_vars, NEW k \in Clients
  PROVE  /\ at'[k] = "publish" => Check(k) \/ at[k] = "publish"
         /\ at'[k] = "record" => Publish(k) \/ (at[k] = "record" /\ sent'[k] = sent[k])
<1> DEFINE Goal == /\ at'[k] = "publish" => Check(k) \/ at[k] = "publish"
                   /\ at'[k] = "record" => Publish(k) \/ (at[k] = "record" /\ sent'[k] = sent[k])
<1>1. /\ at \in [Clients -> {"idle", "check", "publish", "record", "delete"}]
      /\ sent \in [Clients -> Tasks \cup {Null}]
  BY DEF JobsInv, TypeOK, ClientOK
<1>2. UNCHANGED <<at, sent>> => Goal
  OBVIOUS
<1>3. ASSUME NEW j \in Clients, LoadCampaign(j) \/ LoadDraft(j) PROVE Goal
  BY <1>1, <1>3 DEF LoadCampaign, LoadDraft
<1>4. ASSUME NEW j \in Clients, Check(j) PROVE Goal
  BY <1>1, <1>4 DEF Check
<1>5. ASSUME NEW j \in Clients, Publish(j) PROVE Goal
  <2>1. PICK t : at' = [at EXCEPT ![j] = "record"] /\ sent' = [sent EXCEPT ![j] = t]
    BY <1>5 DEF Publish
  <2>2. QED
    BY <1>1, <1>5, <2>1
<1>6. ASSUME NEW j \in Clients, Return(j) PROVE Goal
  BY <1>1, <1>6 DEF Return
<1>7. ASSUME NEW j \in Clients, ClientStep(j) \/ ClientDies(j) PROVE Goal
  BY <1>4, <1>5, <1>6, <1>7 DEF ClientStep, ClientDies, Refuse, Record, RecordStale, Delete
<1>8. ASSUME NEW w \in Workers, BeatCycle(w) \/ Find(w) \/ Cycle(w) \/ WorkerDies(w) PROVE Goal
  BY <1>2, <1>8 DEF BeatCycle, Find, Cycle, Mark, Begin, EndPass, Complete, Fail, Abort,
                    WorkerDies, client
<1>9. Operator \/ (\E r \in JobRows : Age(r)) \/ UNCHANGED vars => Goal
  BY <1>2 DEF Operator, Pause, Archive, Unarchive, SetStatus, RetryJob, CancelJob, Age, vars, client
<1>10. QED
  BY <1>3, <1>7, <1>8, <1>9 DEF Next

LEMMA PassStep ==
  ASSUME JobsInv, StartsTakeTurns, StartsTakeTurns', RowsKeepUp, PassInv, [Next]_vars
  PROVE  PassInv'
<1>1. ASSUME NEW k \in Clients, Publish(k) PROVE PassInv'
  <2>1. PICK t \in FreshTasks : queue' = queue \cup {t} /\ sent' = [sent EXCEPT ![k] = t]
    BY <1>1 DEF Publish
  <2>2. Live = {} /\ at[k] = "publish" /\ at' = [at EXCEPT ![k] = "record"] /\ task' = task
    BY <1>1 DEF Publish, PassInv, worker
  <2>3. Live' = {t}
    BY <2>1, <2>2 DEF Live
  <2>4. /\ at \in [Clients -> {"idle", "check", "publish", "record", "delete"}]
        /\ sent \in [Clients -> Tasks \cup {Null}]
    BY DEF JobsInv, TypeOK, ClientOK
  <2>5. \A j \in Clients : Starting(j)' => j = k
    BY <2>2, <2>4 DEF Starting, StartsTakeTurns
  <2>6. QED
    BY <2>1, <2>2, <2>3, <2>4, <2>5 DEF PassInv, OnePassIsUnderWay, Starting
<1>2. ASSUME Live' \subseteq Live, ~\E k \in Clients : Publish(k) PROVE PassInv'
  <2>1. OnePassIsUnderWay'
    BY <1>2 DEF PassInv, OnePassIsUnderWay
  <2>2. ASSUME NEW k \in Clients, at'[k] = "publish" PROVE Live' = {}
    <3>1. CASE at[k] = "publish"
      BY <1>2, <3>1 DEF PassInv
    <3>2. CASE Check(k)
      <4>1. \A r \in Rows : ~Blocks(r)
        BY <3>2 DEF Check
      <4>2. ASSUME NEW t \in Live PROVE FALSE
        <5>1. PICK j \in Clients : sent[j] = t
          BY <4>1, <4>2 DEF RowsKeepUp, RowsOf
        <5>2. t # Null
          BY <4>2, JobsAssumption DEF Live, JobsInv, TypeOK, DatabaseOK
        <5>3. at[j] = "record" /\ at[k] = "check"
          BY <3>2, <5>1, <5>2 DEF Check, JobsInv, TypeOK, ClientOK
        <5>4. at'[j] = "record"
          BY <3>2, <5>3 DEF Check, JobsInv, TypeOK, ClientOK
        <5>5. QED
          BY <2>2, <5>3, <5>4 DEF StartsTakeTurns, Starting
      <4>3. QED
        BY <1>2, <4>2
    <3>3. QED
      BY <2>2, <3>1, <3>2, StartStep
  <2>3. ASSUME NEW k \in Clients, at'[k] = "record" PROVE Live' \subseteq {sent'[k]}
    BY <1>2, <2>3, StartStep DEF PassInv
  <2>4. QED
    BY <2>1, <2>2, <2>3 DEF PassInv
<1>3. QED
  BY <1>1, <1>2, LiveStep

\* Where starts take turns and rows keep up, a campaign has one pass under way
\* at most, from its publication to the end of its work, however handlers,
\* workers, beat cycles, the panel and time interleave: the check of
\* _queue_campaign_pass is enough then, even if a worker outruns the commit.
THEOREM OnePassAtATime == Spec /\ []StartsTakeTurns /\ []RowsKeepUp => []OnePassIsUnderWay
<1>1. Init => PassInv
  BY DEF Init, PassInv, OnePassIsUnderWay, Live
<1>2. PassInv => OnePassIsUnderWay
  BY DEF PassInv
<1>3. JobsInv /\ StartsTakeTurns /\ StartsTakeTurns' /\ RowsKeepUp /\ PassInv /\ [Next]_vars => PassInv'
  BY PassStep
<1>4. QED
  BY <1>1, <1>2, <1>3, JobsInvariant, PTL DEF Spec

-----------------------------------------------------------------------------
(* How an archived campaign becomes active without being restored.         *)

SeenInv == \A k \in Clients : seen[k] \in {"draft", "active", "paused"}

\* Only the commit of a start that loaded the campaign before it was archived.
OnlyOvertakenStartsRevive ==
  status = "archived" /\ status' = "active"
    => \E k \in Clients : Record(k) /\ seen[k] \in {"draft", "paused"}

LEMMA StepSeen ==
  ASSUME JobsInv, SeenInv, [Next]_vars
  PROVE  SeenInv' /\ OnlyOvertakenStartsRevive
<1>1. status \in CampaignStatus /\ seen \in [Clients -> CampaignStatus]
  BY DEF JobsInv, TypeOK, DatabaseOK, ClientOK
<1>2. ASSUME NEW k \in Clients, NEW s \in {"draft", "active", "paused"}, seen' = [seen EXCEPT ![k] = s]
      PROVE  SeenInv'
  BY <1>1, <1>2 DEF SeenInv
<1>3. seen' = seen => SeenInv'
  BY DEF SeenInv
<1>4. status' = status \/ status' # "active" => OnlyOvertakenStartsRevive
  BY DEF OnlyOvertakenStartsRevive
<1>5. ASSUME NEW k \in Clients, LoadCampaign(k) \/ LoadDraft(k)
      PROVE  SeenInv' /\ OnlyOvertakenStartsRevive
  <2>1. status' = status
    BY <1>5 DEF LoadCampaign, LoadDraft
  <2>2. CASE LoadCampaign(k)
    <3>1. status \in {"draft", "active", "paused"} /\ seen' = [seen EXCEPT ![k] = status]
      BY <1>1, <2>2 DEF LoadCampaign, CampaignStatus
    <3>2. QED
      BY <1>2, <1>4, <2>1, <3>1
  <2>3. CASE LoadDraft(k)
    BY <1>3, <1>4, <2>1, <2>3 DEF LoadDraft
  <2>4. QED
    BY <1>5, <2>2, <2>3
<1>6. ASSUME NEW k \in Clients, ClientStep(k) \/ ClientDies(k)
      PROVE  SeenInv' /\ OnlyOvertakenStartsRevive
  <2>1. CASE Check(k)
    <3>1. PICK s \in {seen[k], status} \ {"archived", "deleted"} : seen' = [seen EXCEPT ![k] = s]
      BY <2>1 DEF Check
    <3>2. s \in {"draft", "active", "paused"} /\ status' = status
      BY <1>1, <2>1, <3>1 DEF Check, CampaignStatus
    <3>3. QED
      BY <1>2, <1>4, <3>1, <3>2
  <2>2. CASE Publish(k)
    BY <1>3, <1>4, <2>2 DEF Publish
  <2>3. CASE Record(k)
    <3>1. SeenInv'
      BY <1>2, <2>3 DEF Record, Return
    <3>2. OnlyOvertakenStartsRevive
      BY <2>3 DEF OnlyOvertakenStartsRevive, Record, SeenInv
    <3>3. QED
      BY <3>1, <3>2
  <2>4. CASE Refuse(k) \/ RecordStale(k) \/ Delete(k) \/ ClientDies(k)
    <3>1. Return(k) /\ (status' = status \/ status' # "active")
      BY <2>4 DEF Refuse, RecordStale, Delete, ClientDies
    <3>2. QED
      BY <1>2, <1>4, <3>1 DEF Return
  <2>5. QED
    BY <1>6, <2>1, <2>2, <2>3, <2>4 DEF ClientStep
<1>7. ASSUME NEW w \in Workers, BeatCycle(w) \/ Find(w) \/ Cycle(w) \/ WorkerDies(w)
      PROVE  SeenInv' /\ OnlyOvertakenStartsRevive
  <2>1. UNCHANGED <<status, seen>>
    BY <1>7 DEF BeatCycle, Find, Cycle, Mark, Begin, EndPass, Complete, Fail, Abort, WorkerDies,
                client
  <2>2. QED
    BY <1>3, <1>4, <2>1
<1>8. ASSUME Operator \/ (\E r \in JobRows : Age(r)) \/ UNCHANGED vars
      PROVE  SeenInv' /\ OnlyOvertakenStartsRevive
  <2>1. seen' = seen /\ (status' = status \/ status' # "active")
    BY <1>8 DEF Operator, Pause, Archive, Unarchive, SetStatus, RetryJob, CancelJob, Age, vars,
                client
  <2>2. QED
    BY <1>3, <1>4, <2>1
<1>9. QED
  BY <1>5, <1>6, <1>7, <1>8 DEF Next

\* An archived campaign that becomes active without being restored does so by the
\* commit of a start that had loaded it before; nothing else in the program
\* revives one, neither a worker nor the beat, the panel or a retry.
THEOREM ArchivedIsRevivedByOvertakenStarts == Spec => [][OnlyOvertakenStartsRevive]_vars
<1>1. Init => SeenInv
  BY DEF Init, SeenInv
<1>2. JobsInv /\ SeenInv /\ [Next]_vars => SeenInv' /\ [OnlyOvertakenStartsRevive]_vars
  BY StepSeen
<1>3. QED
  BY <1>1, <1>2, JobsInvariant, PTL DEF Spec
=============================================================================
