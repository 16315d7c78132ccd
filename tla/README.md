# Cold Email CRM in TLA+

TLA+ models of the backend's core (`src/backend/app`): how campaigns are turned
into mail, how passes over them are queued, who may be mailed, how mailboxes are
reached, warmed up and read, and what holds while workers, HTTP handlers,
operators and recipients act at once.

Paths below are relative to `src/backend/app` unless they begin with `src/`.

## 1. The system

FastAPI handlers and Celery workers share one PostgreSQL database; Redis is the
Celery broker. Celery beat issues a campaign cycle every 300 s, a warm-up cycle
every 900 s, an inbox sync every 60 s (where it is enabled) and a heartbeat every 30 s
(`workers/celery_app.py:30-51`). Workers and handlers each have sessions of
their own (`core/database.py`, READ COMMITTED, no autoflush). Nothing else
coordinates them: the code takes no row locks, and neither `campaign_leads` nor
`job_logs` has a unique constraint. What can go wrong therefore goes wrong
between a read and the commit that relies on it, and the models have one action
per transaction or network call for this reason.

| Component | State | Operations | Talks to | Hard behaviour | What makes it correct |
|---|---|---|---|---|---|
| **Campaign dispatch** (`services/campaign_service.py`, `list_service.py`, `smtp_service.py`, `integrations/smtp/provider.py`) | `campaign_leads` (status, step, schedule), `send_logs`, attached lists and their members | sync leads with lists, select a batch, send it, log, move leads on | SMTP server; contacts written by suppression, verification and inbox sync; list handlers | overlapping cycles and syncs, crash between send and commit, lost SMTP answer, state read at the start of a batch and used at its end | daily limit, nobody blocked is mailed, a reply stops the sequence, no step twice, no step skipped, nobody stranded |
| **Campaign jobs** (`api/v1/routes/campaigns.py`, `workers/campaign_worker.py`, `celery_app.py`, `routes/ops.py`) | `campaigns.status`, `job_logs`, the broker's queue | start, retry, pause, archive, restore, delete; find, mark, complete, fail a job; panel retry and cancel | dispatch | task published before its row is committed, workers that die, stale rows | the log says what happens, no row blocks for ever, an active campaign is served |
| **Daily limit** (dispatch and `services/warmup_service.py`) | today's successes | count, then spend what is left | | nothing is reserved | each worker within the limit |
| **Warm-up** (`services/warmup_service.py`, `workers/warmup_worker.py`, `routes/warmup.py`) | settings, pairs, events, mailbox warm-up status | synchronise pairs, cycle, skip, send, pause | SMTP, mailboxes | manual pass against the beat's, pause in mid-cycle, concurrent pair syncs | sender limit, pause stops, one pair per sender and recipient |
| **Inbox sync** (`services/imap_service.py`, `workers/imap_sync_worker.py`, `integrations/imap/provider.py`, `routes/inbox.py`) | messages, threads, UID watermark, `contact.last_replied_at` | fetch, deduplicate, thread, store, mark the contact, move the watermark | IMAP; dispatch (replies, the messages and logs of mails sent) | several syncs of one mailbox, letters that are not returned or cannot be parsed, a mail answered before its log is complete | a letter once, none passed over, an answer stops the sequence |
| **OAuth** (`services/google_oauth_service.py`, `mail_provider_service.py`, `routes/mailboxes.py`) | tokens, connection status | consent, refresh, check, disconnect | Google, before every send and fetch | a refresh or check against a disconnect or a new consent | the status tells whether there is a consent; no token outlives its consent |
| **Suppression and verification** (`routes/suppression.py`, `routes/leads.py`, `services/verification_service.py`, `audience_service.py`, `workers/lead_verification_worker.py`) | suppression list, contact flags and verdicts, verification job rows | suppress, release, verify one or many, evaluate eligibility | DNS, the broker, dispatch | slow DNS checks between read and write, a task published before its row, workers that die | a listed address stays blocked, a released one is free, a verdict is one verification's, a completed job is done |
| **Lead import** (`services/import_service.py`, `routes/leads.py`) | import jobs and rows, contacts, leads | upload, map and validate, confirm | suppression, dispatch | two confirmations, a mapping against a confirmation | a completed import holds what its rows say |
| **Reports that are acted upon** (`services/deliverability_service.py`, `domain_verification_service.py`, `preflight_service.py`, dry run and start in `routes/campaigns.py`) | domain rows; else derived | verify a domain, report on domain, mailbox, campaign and all, preflight, start | DNS, mailbox diagnostics, the campaign's status | overlapping verifications, a start on an old report | status and records agree, trouble shows all the way up, a refused campaign is not active |
| Other reports (quality centre, command center, notifications, health), authentication, cache, heartbeat, MCP server, frontend, migrations | derived or none | | | none of their own | |

`PROJECT.json` has the same list with sources and status, and the hazards, each
at its line with the properties that would show it going wrong.

## 2. The modules

| Module | What it is |
|---|---|
| `DailyQuota` | abstract: several workers count and then spend a daily limit |
| `DailyQuotaProofs` | its inductive invariants and four theorems |
| `Outreach` | abstract: what a campaign promises the people it mails |
| `CampaignDispatch` | one campaign's synchronisation, dispatch cycles and concurrent handlers |
| `CampaignDispatchProofs` | nineteen theorems about it, the refinements of `DailyQuota` and `Outreach` among them |
| `MCCampaignDispatch` | instances for TLC |
| `CampaignJobs` | start handlers, broker, job rows, worker bookkeeping, job panel |
| `CampaignJobsProofs` | five theorems about it |
| `MCCampaignJobs` | instances for TLC |
| `Warmup` | pair synchronisation, warm-up cycles, the switch, participation and mailbox health |
| `WarmupProofs` | eight theorems about it, a second refinement of `DailyQuota` among them |
| `MCWarmup` | instances for TLC |
| `Suppression` | the suppression list, contacts, verdicts and eligibility |
| `LeadImport` | CSV imports; extends `Suppression` |
| `VerificationJobs` | bulk verification, its tasks and job rows; extends `Suppression` |
| `Contacts` | the three together, over one contacts table |
| `ContactsProofs` | type correctness of `Contacts`, and the lemmas on it |
| `ContactsSafetyProofs` | ten safety theorems about `Contacts` |
| `MCContacts` | instances for TLC |
| `MailboxAccess` | consent, tokens and connection status of one mailbox |
| `InboxSync` | sending from and synchronising that mailbox; extends `MailboxAccess` |
| `InboxProofs` | eight theorems about `InboxSync` |
| `MCInbox` | an instance for TLC |
| `Readiness` | domain verification, readiness reports, preflight and start |
| `ReadinessProofs` | seven theorems about it |
| `MCReadiness` | an instance for TLC |

### CampaignDispatch

The database is `status`, `sequence` (step numbers), `attached`, `members`,
`blocked`, `replied`, `leads` (a function from the primary keys in use to rows)
and `sentToday` (successful send logs of today that name the campaign). One
contact list stands for the union of the attached ones. `blocked` are the
contacts `evaluate_contact_for_campaign` refuses, whatever the reason; `due` in
a row is `scheduled_at <= now`.

A process runs one cycle or request at a time; `pc` is its place in it:

    worker   idle -> sync -> [syncing] -> select -> (skip|halt | send -> log -> finish | send -> fail) -> next ... -> idle
    handler  idle -> sync -> [syncing] -> idle
    start    idle -> sync -> [syncing] -> admit -> activate -> idle

* `SyncRead` and `SyncCommit` are the two ends of `sync_campaign_leads`: the plan
  (rows to delete, to schedule again, contacts to add) is computed from one
  snapshot and applied to another. Where two rows have one contact,
  `existing_by_contact` keeps either. A key to reset that is gone is a
  StaleDataError (`SyncStale`); a key to delete that is gone is only a warning.
* `Select` is count, query, eligibility filter and the look at the first lead.
  The query's LIMIT comes before the filter and has no ORDER BY (`Picks`).
* The other leads are looked at one by one (`Take`), each expired by the
  previous commit and therefore read afresh; only step and reply are checked
  again. A row that is gone ends the cycle (`RowGone`).
* `Deliver` is the SMTP server accepting the message, learnt of or not (a
  timeout after DATA returns failure). `LogSend` commits the log without the
  campaign, `Finish` attributes it and moves the lead on in one commit. A log
  the crash left unattributed never counts.
* `Crash` may end any cycle or request; tasks are acknowledged early, so nobody
  takes it over.

History variables do not influence the program: `mail` counts deliveries,
`sentBy` splits `sentToday` by worker, `forgotten` counts deliveries of which
the rows know nothing (crash, lost answer, deleted row), `late` are contacts
blocked after the selection of a batch that has them, `unheard` workers whose
recipient replied after the look.

### CampaignJobs

`status`, the `job_logs` rows (`jobs`), the broker's `queue`, the handlers and
the workers. `_queue_campaign_pass` is `LoadCampaign`, `Check`, `Publish`,
`Record`: the task is in the queue before its row and the new status are
committed. A worker looks the row up (`Find`), adds one that does not name the
campaign when there is none, marks it, loads the campaign (`Begin`), and records
the outcome; a task has at most those two rows. `Age` is the passing of two
beat intervals, after which `_campaign_job_for_status` ignores a row. `Abort` is
the except branch raising itself: its session has a failed flush, or the row is
gone. The job panel's retry and cancel write the row and nothing else. Retry
and cancel pick any row of the task, as `first()` may. The row of a beat cycle
names no campaign and is left out. What a pass does to the leads is one
step here (`EndPass`).

The two modules meet in `status` and in the cycle: `CampaignDispatch` keeps the
start handler to its synchronisation, admission and commit, and lets a cycle
begin whenever the campaign is active; `CampaignJobs` says when that is. Both
have the handler's stale copy of the status (`seen`): the ORM does not write a
column whose value did not change, and reloads the campaign only after a commit
of the synchronisation.

### Warmup

`enabled` is `warmup_settings.is_enabled`. What
`_refresh_mailbox_warmup_state` calls ready is `Ready`: the mailbox is active and
its provider resolves (`usable`), takes part (`willing`), and its last SMTP check
succeeded (`healthy`). A row of `warmup_pairs` is its key and the process that
inserted it, since two concurrent syncs insert the same key twice; `active` are the
rows with `is_active`.

    worker   idle -> commit -> load -> next (skip | send -> record | send -> fail) -> next ... -> idle
    handler  idle -> [enable|disable] -> read -> commit -> [read -> commit] -> idle

* `Survey` is the reads of `sync_pairs` and `SyncCommit` its commit. What is
  written is the difference to the rows as they were read (`PlanFor`), because
  the ORM leaves an unchanged column alone: a plan can neither undo nor confirm
  what another process committed meanwhile. Of two rows with one key
  `existing_pairs` keeps one.
* The start handler syncs once in `set_global_enabled` and once for the status
  it commits with the job row (`again`). `RunNow` syncs when nothing blocks it; a status request
  rolls its sync back.
* `BeginCycle` and `Load` read the switch and the active pairs once for the whole
  cycle. `Attempt` counts today's successes of the sender and commits the queued
  event, dated now; `Deliver` and `SendFails` are `send_email`, which looks at the
  mailbox again and writes its health; `Record` makes the event a success.
* A cycle may start at any time when warm-up is on, which stands for the beat and
  for every queued pass; the job row of a pass is not modelled again.

History: `late` are the keys that stopped being wanted since a process planned,
`stray` the rows a commit activated though they were not wanted any more,
`sentBy` splits one mailbox's successes by worker. Left out: the texts in
`state`, `last_result` and `last_error`, the deletion of mailboxes, and the first creation of
the settings row.

### Suppression, LeadImport, VerificationJobs, Contacts

`contact` is the contacts table by address (addresses are unique and stored in
lower case), with the columns that decide who is mailed; `listed` are the
addresses with a row in `suppression_list`. A request reads rows, computes, and
commits:

    suppress  idle -> suppress -> idle            release  idle -> release -> idle
    bulk      idle -> bulk -> suppress -> idle    verify   idle -> load -> dns -> idle
    map       idle -> map -> idle                 confirm  idle -> confirm -> idle

* `sess[p]` is what the session loaded: the contacts, and those of their
  addresses for which it found a row in the list. `Column`, `Written` and
  `Store` are the ORM's way of writing: a column is written only if the session
  changed the value it loaded, so that a commit of an old row mixes with what
  others wrote meanwhile. `email` is unique in the list, so the second of two
  suppressions is rolled back (`SuppressConflict`); a row is deleted by its
  key, so that a second release leaves a row that was made anew (`rowGone`).
* `FlagsOf`, `Score`, `Integrity` and `DetermineStatus` are the checks of
  `services/verification_service.py` and what it makes of them; `Evaluate` is
  `evaluate_contact_for_campaign`.
* `LeadImport`: a job and its rows. `Map` reads job, rows and the contacts that
  exist in one step (the code asks for them one after the other; a job whose request
  was overtaken in between is `crossed`), `MapCommit` writes what differs; `Confirm` reads the rows judged valid
  and its commit adds a contact for each, or fails on an address that exists by
  now. Nothing asks the suppression list, so that a listed address gets a fresh
  contact; `ListedIsBlocked` holds because a contact nobody verified is not
  eligible and verification looks at the list.
* `VerificationJobs`: `QueueBulk` commits a row, `Publish` sends the task,
  `Record` writes the task's id to the row; a worker that is faster finds no
  row and adds one (`Find`). It verifies lead by lead, each in the steps of
  `Suppression`, and counts (`Mark`, `VerifyNext`, `CountLead`, `Complete`,
  `Fail`). `RunInline` is the mode without workers. `Crash` loses the task,
  which was acknowledged early.

History: `overtaken` are the sessions one of whose addresses another session
changed since they read it; `raced` and `torn` the addresses whose flags or
verdict such a session wrote last; `behind` and `crossed` the same for
imports; `unserved` the tasks that a crash, the broker or an exception cut off.

### MailboxAccess, InboxSync

One Google Workspace mailbox. `mailbox` is its row: the consents its refresh and
access tokens come from, whether the latter has expired, the connection status
it shows, and the watermark. A request or task loads the row (`seen`), asks
Google for a token where the one it holds has expired, and goes on:

    consent  idle -> exchange -> idle
    check    idle -> smtp -> imap -> diagnosed -> idle
    send     idle -> send -> post -> idle
    sync     idle -> sync -> fetch -> filing -> idle

* `Refreshed` writes the access token of the refresh token the session
  loaded, whatever became of the consent meanwhile; `CheckDone` writes
  "connected". `RefreshFails` writes "error" for each failure, because no
  category a failed refresh has is one the check knows. `CheckBreaks` is any other
  exception of a check, which leaves the status as it is.
* Out of a send come the log (`Log`), the message in a thread
  (`Persist`), and, for a campaign's mail, contact and campaign in the log
  (`Attribute`): three commits, with syncs between them. A mail by hand (POST
  /send-email) may refer to mails and letters (`Refs`) and name a contact (`For`):
  its message goes to the thread of a message it refers to (`OutboundThreads`), else
  to its addressee's, takes over the thread's address, and leaves it its contact if
  it has one. A campaign's mail refers to nothing and names its addressee's contact.
* `Fetch` takes the letters after the watermark, or the newest `Limit`;
  a letter the server does not return or returns empty is skipped. `Examine` is
  one letter: is it stored, whose answer is it (`Resolve`: the message it refers
  to, else the log, else the sender's address), the thread's contact, the
  message, the contact's mark. All of a sync is one transaction: `mine`,
  `put`, `draft` and `noticed` are not visible to others before `SyncCommit`.
* `SyncAborts` rolls back; but the task goes on to the next mailbox without a
  rollback, and what it had flushed before a letter it could not parse is
  committed along with the task's log (`workers/imap_sync_worker.py`).

History: `statusStale` and `accessStale` say that an overtaken session wrote the
status or the token last; `missed` are letters a fetch did not return,
`overlapped` letters in two open transactions at once, `early` letters filed by
a log that did not name its contact yet, `mixed` threads of a contact that had someone
else's address, because a letter came from there or a mail went there, `crossed` the
letters filed in them.

### Readiness

One domain, one mailbox, one campaign. A report is a function from the codes of
its checks to their outcomes (`DomainChecks`, `MailboxChecks`,
`CampaignChecks`), `StatusOf` and `ScoreOf` are what
`deliverability_service.py` makes of them, `Overview` is the worst section.
`Diagnose` is everything that writes the rows a report reads: the SMTP and
provider checks, syncs, sends, warm-up, forms and switches.

    verification  idle -> resolving -> idle
    preflight     idle -> preflight -> [pausing] -> idle
    start         idle -> dry run -> starting -> idle

A verification asks DNS between its read and its commit. A preflight computes
its checks, commits them, reads the campaign again and pauses it if it is active.
A start synchronises the leads, reports, and makes the campaign active.
History: `torn` (the domain was last written by an overtaken verification),
`outdated` (preflights and starts whose report would be another by now),
`refused` (a preflight found the campaign blocked and nothing changed since),
`blockedAt`. `campaign` and the leads are those of `CampaignJobs` and
`CampaignDispatch`, kept to what reports tell apart.

### How the modules meet

`CampaignDispatch.blocked` is what `Suppression.Evaluate` refuses;
`CampaignDispatch` lets it change at any time, which covers every behaviour of
`Contacts`. Likewise `replied` there is what `InboxSync` notices, `status` what
`CampaignJobs` and `Readiness` write, and the health and status of a mailbox in
`Warmup` what sends and checks write. The composition is by these
shared columns: each module allows its environment every change the other
modules make.

## 3. What is checked

Every run finishes in a few minutes on two cores. Deadlock is not
checked: a campaign that is paused or done, a mailbox that is read, or a contact that
is verified, with the bounds used up, has nothing left to do.

| Run | Instance | Properties |
|---|---|---|
| `dispatch_sole` | 1 worker, 2 contacts, steps 1 and 3, limit 2, 3 actions, 1 crash; 1.39 M states | `SoleWorkerWithinLimit`, `DuplicatesAreExplained`, `NoStepSkipped`, `ImplementsOutreach` |
| `dispatch_pair` | 2 workers, 1 handler, 1 contact, 4 rows, an editable sequence, limit 1, 1 action; 766 k | `TypeOK`, `WorkerWithinLimit`, `OnlyLateBlocksAreMailed`, `RepliesStopTheSequence`, `ImplementsQuota`, `LeadsNeverGoBack` |
| `dispatch_live` | 1 worker, 2 contacts, limit 1, 1 action, 1 crash, fair; 204 k | `NoMemberIsStranded` |
| `jobs` | 2 workers, 2 handlers, 2 tasks, 2 actions, 1 crash, fair; 573 k | `TypeOK`, `JobLogIsHonest`, `NoRowBlocksForever`, `ActiveCampaignIsServed`, `JobsAreDoneOnce` |
| `warmup` | 1 worker, 1 handler, 2 mailboxes, limit 1, 1 action, 1 crash, fair; 684 k | `TypeOK`, `OnlyWantedPairsRun`, `ImplementsQuota`, `ReadyMailboxWarmsUp` |
| `verification` | 2 request threads, 1 worker, 2 contacts (one role-based), 1 bulk task, 3 requests, 1 crash, fair; 1.09 M | `TypeOK`, `ListedIsBlocked`, `FreeIsUnflagged`, `VerdictIsWhole`, `ValidMeansFullScore`, `VerificationRowsAreHonest`, `CompletedJobsVerifiedTheirLeads`, `PublishedTasksEnd` |
| `imports` | 2 request threads, 2 addresses, 1 import of 2 lines, 2 mappings, 4 requests; 1.44 M | `CompletedImportsAreWhole` |
| `inbox` | 1 request thread, 1 task, 2 people, 3 mails (1 by hand, which refers to a mail and to a letter), 3 letters (2 answers, 1 that cannot be parsed), 2 consents, 2 threads, 5 requests or expiries, 1 fault; 3.33 M | `TypeOK`, `StatusTellsTheGrant`, `AccessComesFromTheGrant`, `NothingPassedOver`, `StoredOnce`, `RepliesAreNoticed` |
| `reports` | 2 request threads, 2 leads, 4 DNS answers, 3 requests or diagnoses; 1.33 M | `TypeOK`, `StatusMatchesRecords`, `RefusedIsNotActive`, `TroubleShows`, `ScoreTellsReady` |
| `dispatch_duplicates`, `jobs_archived`, `jobs_halted` | small | one claim of the documentation each, violated |

What they say:

* **Limit.** Count-then-send keeps the daily limit with one worker process, also
  across midnight, crashes and logs that are attributed late. With several it
  keeps it per worker (`WorkerWithinLimit`), so *n* workers may send *n* times
  the limit.
* **Suppression in a cycle.** No sync and no selection lets a blocked contact through
  (`OnlyLateBlocksAreMailed`), but a block after the selection does not stop the
  mail.
* **Replies.** A stop_on_reply step goes to someone who replied only in the window
  between the look at the lead and the send.
* **Duplicates.** With one worker a contact gets a step twice only if the rows
  lost a delivery: a crash between send and commit, an answer that never came,
  a row deleted by a sync. This is at-least-once delivery, with its causes
  named. Concurrent syncs make duplicate rows (`AudienceIsDeduplicated` is
  violated).
* **What recipients see.** With one worker a delivery is one `Outreach` allows: neither
  that step nor a later one is on the record as delivered, and each earlier one
  was delivered, unless the operator can replace the sequence
  (`ImplementsOutreach`). `lost` there is `forgotten` here, so that the promise
  speaks of mails and not of rows.
* **Leads.** However cycles, syncs and edits overlap, a lead keeps its contact and
  never returns to an earlier step (`LeadsNeverGoBack`): two cycles may mail
  a step twice or skip one, but not take a lead back.
* **Progress.** The sync at the start of every cycle indeed strands nobody on an
  attached list, as the comment at `services/campaign_service.py:39-40` says.
* **Job log.** A row says queued or running only while its task is in the broker or
  in a worker's hands, except after a listed exception; stale rows do not block
  new passes for ever; an active campaign is passed over again and again, the
  beat making up for starts that were lost. A row that says completed or failed
  is rewritten by the panel only (`JobsAreDoneOnce`).
* **Archive, cancel.** A start that races an archive makes the archived campaign
  active (`ArchivedNeedsRestore` is violated). A cancelled task runs all the
  same (`HaltedJobsDoNotRun` is violated).
* **Warm-up.** After its own sync a worker mails only over pairs both of whose
  mailboxes are ready, with three excuses, each of which really occurs: the pair
  stopped being wanted since, an outdated commit activated it, or a second row
  of the key hides it from every later sync (`OnlyWantedPairsRun`). The first
  excuse means that a pause does not stop the cycle under way. Failures do not
  turn warm-up off for good: while a mailbox is ready again with a partner, it
  sends again and again (`ReadyMailboxWarmsUp`). Its limit is that of
  `DailyQuota`, with a queued event as a claim of one.
* **Suppression list.** A listed address is not eligible for any campaign, and an
  unlisted contact carries no flag nobody would clear, whatever mix of
  suppressions, releases, verifications and imports led there, unless the last
  to write was a session overtaken between its read and its commit
  (`ListedIsBlocked`, `FreeIsUnflagged`). The exception occurs: a verification
  that read the list before a suppression and commits after it leaves a listed
  contact eligible.
* **Verdicts.** Status, score and integrity come from one verification
  (`VerdictIsWhole`); valid means full marks, and nobody is ever judged risky
  (`ValidMeansFullScore`), so the rules for risky contacts have no subject
  but contacts a script made so.
* **Bulk verification.** Its rows are honest but for tasks cut off and a worker that
  outran its handler's commit (then one of two rows is left alone); a
  completed row has verified all its leads; a task in the broker comes to an
  end.
* **Imports.** In a completed import no line is left to import, its counter is
  the number of imported lines, and each of these has its contact, unless a
  mapping and a confirmation crossed.
* **Mailbox access.** The page shows "not connected" exactly when there is no
  refresh token, and the access token on file comes from the consent on file,
  unless a session that was overtaken wrote last. So a refresh under way during a
  disconnect brings the token back.
* **Inbox.** The watermark goes back but never past a letter that is not stored
  (`NothingPassedOver`), a letter has two rows only if two open syncs had it at
  once (`StoredOnce`), and an answer stops the sequence unless the mail was
  logged and no more when it was filed, or the thread had passed from its contact to
  someone else's address before, by a letter or by a mail that referred to it
  (`RepliesAreNoticed`). So an operator who writes to a colleague in answer to a
  contact's thread (`services/smtp_service.py:240`) makes the thread the colleague's,
  and what the colleague then answers to a campaign counts as the contact's answer.
* **Reports.** A domain's status and records agree but for overlapping
  verifications; what is wrong with domain, mailbox or provider makes the
  overview blocked and stops preflights and starts made since; a campaign
  refused by a preflight is not active while nothing changes; a full score is
  the same as ready.

The three violations are disagreements between the code and its documents;
`PROJECT.json` quotes each line.

### Bounds

`MaxOps` actions of operators and recipients (or requests), `MaxCrashes` crashes,
history counters that saturate at `MaxMail`. Two workers are enough for every overlap of two
cycles, one handler beside them for an overlap of a sync with a cycle. Two
contacts and limit 2 give a batch of two, so that something happens between its
sends; limit 1 makes the limit bite. Two steps give an introduction and a
follow-up with stop_on_reply; their numbers 1 and 3 leave a gap, as a deleted step does. `DuplicatesAreExplained` compares two counters
that saturate at 2: it tells apart no, one and more deliveries. With two workers
`MaxMail` is 1, as none of that run's properties reads a counter's value. Four keys let every
process insert rows while others still hold deleted ones. Sets of contacts,
keys and workers are symmetric in the safety runs; the liveness runs have no symmetry.

In `Warmup` two mailboxes make two pairs, one for each direction; the initial
states include a pair that exists and is inactive. One worker and one
handler suffice for a sync of the one to overlap a sync or a cycle of the other; two workers
that spend the limit together are left to the proof, which covers any number.
In `CampaignJobs` two tasks are the pass under way and the one that must not
start, or two that were both queued.

In `Contacts` a race needs two sessions on one address, and three requests beside
the worker let a suppression, a release and a verification overlap the worker's. Two leads in a
task let it fail or die half-way; one is role-based, so that verdicts differ.
Four requests upload, map and confirm an import and leave one for a rival; two mappings, one of
which finds no address in a line, make its rows change under a confirmation.
In `InboxSync` `MaxUid` letters, `MaxGrants` consents, `MaxThreads` threads and `MaxFaults`
letters lost or transactions failed: two consents tell an old token from a new
one, `Limit` 2 with three letters passes one over when there is no watermark,
two of the letters come from one person and answer mails to two, the third is
poison. The mail by hand goes to that person and refers to the mail to the other one and
to the first letter, so that it opens a thread of its own, follows either, or takes over
the other's thread before the campaign's mail is filed. In `Readiness` `MaxSends` is the number of sends of a week, which
only matters as none, some, and more than three failures in ten; the four answers have each
of the four statuses a verification gives.
The proofs of section 4 have none of these bounds.

### Fairness

Dispatch: a worker's own steps are weakly fair, because Celery runs a task to
its end; `BeginCycle` is, because beat issues a cycle every 300 s; delays and
days pass; a delivery that is possible again and again succeeds at some time
(strong fairness of `Deliver(w, TRUE)`: SMTP failures are transient, which is
the assumption of the comment quoted above). Jobs: a worker's steps are weakly
fair, and so is taking what beat or the broker has; rows age. Warm-up: the steps of a cycle are weakly fair, and so are the beat and midnight.
`Attempt(w, m)` is strongly fair, because a pair that gets its turn again and again is not
always skipped by `random.random() > 0.3`; `Deliver(w, m)` is, because SMTP
failures are transient. Verification: the worker's steps, those of its session
(a DNS query ends, with an answer or a timeout) and the taking of a task are weakly
fair. Nothing is assumed of
operators, recipients, requests and crashes, and a worker may starve the queue with
beat cycles.

## 4. What is proved

TLAPS checks these for every value of the constants, from the assumptions the
modules name: `DispatchAssumption`, `JobsAssumption` (of `CampaignJobs`, and of
`VerificationJobs`), `WarmupAssumption`,
`SuppressionAssumption`, `ImportAssumption`, `AccessAssumption`,
`InboxAssumption`, `ReadinessAssumption` and, for the limit, `DailyLimit \in Nat`.

| Theorem | Says |
|---|---|
| `QuotaPerWorker`, `QuotaOfSoleWorker`, `QuotaOfFleet`, `QuotaInTurn` (`DailyQuotaProofs`) | the limits of the abstract quota: of a worker, of a sole one, of *n*, of workers that take turns |
| `TypeCorrect` | `TypeOK` of dispatch |
| `DispatchImplementsQuota` | dispatch implements `DailyQuota`, with a batch as a claim |
| `WorkersKeepTheLimit`, `SoleWorkerKeepsTheLimit`, `FleetKeepsTheLimit` (finitely many workers) | the limits of dispatch, by the refinement |
| `OnlyLateBlocks`, `RepliesStop` | suppression and replies |
| `NoLeadGoesBack` | `LeadsNeverGoBack` |
| `CyclesInTurnKeepTheLimit` (one batch at a time) | the limit itself, for any number of workers |
| `NoStepIsSkippedApart` (no lead in two batches, one sequence) | `NoStepSkipped` |
| `DuplicatesExplainedApart` (syncs take turns, no two workers about one contact) | `DuplicatesAreExplained` |
| `AudienceDeduplicatedInTurn` (syncs take turns) | `AudienceIsDeduplicated`, which the finding refutes without the hypothesis |
| `DispatchImplementsOutreachApart` (syncs take turns, no two workers about one contact, counters that count) | `ImplementsOutreach` |
| `FinishedLeadsStayFinishedApart` (syncs take turns, no two workers about one contact, no sync drops a lead of a batch) | a lead that is sent or replied keeps row and status (`FinishedStaysFinished`) |
| `NoStepIsSkipped`, `DuplicatesExplained`, `AudienceDeduplicatedAlone`, `DispatchImplementsOutreach`, `FinishedLeadsStayFinished` | the five before for a sole worker, which has its leads to itself; all but the first with no request beside it |
| `JobsTypeCorrect`, `JobLogHonesty`, `JobsDoneOnce` | `TypeOK`, `JobLogIsHonest` and `JobsAreDoneOnce` of jobs |
| `OnePassAtATime` (starts take turns, rows keep up) | at most one pass is in the broker or with a worker |
| `ArchivedIsRevivedByOvertakenStarts` | an archived campaign becomes active unrestored only by a start that loaded it as draft or paused |
| `TypeCorrect` (`WarmupProofs`) | `TypeOK` of warm-up |
| `WarmupImplementsQuota`, `SoleWorkerKeepsTheLimit`, `FleetKeepsTheLimit` (`WarmupProofs`) | a mailbox's warm-up implements `DailyQuota`; one worker keeps its limit, *n* keep *n* times it |
| `OnlyWantedPairs` (`WarmupProofs`) | `OnlyWantedPairsRun` |
| `SendersInTurnKeepTheLimit` (`WarmupProofs`; one event in flight from a mailbox) | the limit itself, for any number of workers |
| `PairsStayUnique`, `OnlyWantedPairsInTurn` (`WarmupProofs`; syncs take turns, and for the second their surveys stay current) | one row for each pair; only pairs that are ready, or were at the survey, run |
| `ContactsTypeCorrect` | `TypeOK` of contacts |
| `SuppressedStaySuppressed`, `ReleasedAreFree` | `ListedIsBlocked`, `FreeIsUnflagged` |
| `VerdictsAreWhole`, `ValidContactsScoreFull` | `VerdictIsWhole`, `ValidMeansFullScore` |
| `ImportsAreWhole` | `CompletedImportsAreWhole` |
| `VerificationRowsHonest`, `CompletedJobsAreDone` | `VerificationRowsAreHonest`, `CompletedJobsVerifiedTheirLeads` |
| `FinishedVerificationsStay` | the row of a finished bulk verification keeps its status |
| `ApartSessionsAgree`, `ApartImportsAreWhole` | contacts and imports without exceptions, where requests do not overlap |
| `InboxTypeCorrect` | `TypeOK` of inbox and access |
| `StatusIsTrue`, `AccessOfTheGrant` | `StatusTellsTheGrant`, `AccessComesFromTheGrant` |
| `CurrentWritersTellTheAccess` (no session writes from an old row) | both without exceptions |
| `NothingIsPassedOver`, `LettersAreStoredOnce`, `StoredRepliesAreNoticed` | `NothingPassedOver`, `StoredOnce`, `RepliesAreNoticed` |
| `OneSyncStoresOnce` | each letter once and a watermark that only moves forward, where synchronisations take turns |
| `ReadinessTypeCorrect` | `TypeOK` of readiness |
| `DomainStatusMatches`, `RefusedStaysInactive`, `TroubleIsShown`, `ScoresTellReady` | `StatusMatchesRecords`, `RefusedIsNotActive`, `TroubleShows`, `ScoreTellsReady` |
| `StartsInTimeAreUnblocked` (nothing changes between dry run and commit) | no step makes a blocked campaign active |
| `VerificationsInTurnMatch` | status and records agree without exception, where verifications take turns |

**Quota.** The invariant adds to the limit that `claim[w] \in 0 .. DailyLimit` and that
a worker's share is part of the total, and all of it when the worker is alone
(`SharesInTotal`): without the latter a claim, which is checked against
`spent`, would say nothing about `spentBy[w]`. For *n* workers the library has no
sum to reason with. `QuotaOfFleet` counts places instead: each worker has `DailyLimit`
of them, `Filled` are the first `spentBy[w]` of each, and `PlacesInv` says that there
are as many as were `spent`; a `Spend` fills one, midnight empties all.

**Refinement.** Each step of dispatch leaves `Cardinality(batch[w])` alone, sets it
from nothing (`Select`: at most what is left), lowers it by one with a success
(`Finish`) or without, or drops it to zero (`CloseSession`). `BatchOK`, part of
`TypeOK`, is what it needs: a batch is empty exactly outside the loop, and the lead in hand
is in it, so that removing it lowers the cardinality by exactly one.

**Late blocks.** Inductive only together with what ties `Holds(w)` to the rows:
rows keep their contact, and a key a session refers to is not given to a new
row (`FreshKeys` excludes it), so what a worker holds changes by leads leaving
the batch only.

**Steps.** `NoStepSkipped` needs that the lead in hand stands at the step in hand, and
that its contact has that step once the server took the mail (`InStep`). Two workers with
one lead or an edit of the sequence break both, so `NoStepIsSkippedApart` assumes `OneSequence`, as
the run does by its constants, and `LeadsApart`: no lead is in two batches at
once, which a claim on the rows would give and the code, which only reads them, does not. Workers,
requests and their syncs are free otherwise. All but a `Finish`
keeps every row where it is or brings a new one at step 1 (`RowsKept`); `Finish` goes
to the least step above, so that every step below it is at most the one just sent.

**Duplicates.** `LedgerInv` says what the rows and the hands show: a delivery of a
step that the contact's row does not show (the row is not past it, not finished and
not in flight) is among the forgotten ones, and so is every delivery to a contact
without a row unless it is in flight (`RowsInv`). It holds because a contact has one row, which
needs that a plan under way adds nobody who has one (`PlanInv`), and because the batch is
still to be mailed and a lead in hand whose row is gone has its deliveries forgotten
(`HandInv`). A second sync inserts a second row (the finding of
`dispatch_duplicates`) and a second worker mails a lead again, so
`DuplicatesExplainedApart` assumes `SyncsTakeTurns` (one plan at a time) and `ContactsApart` (no
contact with two workers). The latter is more than `LeadsApart`: a row that is dropped and made anew
has another key. Requests come and go beside the workers; edits of the
sequence, blocks, pauses, replies, crashes and lost acknowledgements are all there.
Before it was proved TLC searched `LedgerInv` with two workers and one request under
the hypotheses.

`SyncsTakeTurns` alone makes `AudienceIsDeduplicated` true, so that overlapping syncs are the
only cause of that finding. With `PlanInv`, a row a plan drops is scheduled as
long as no worker has it (`DropInv`). A sync planned
before a send may drop a lead in a batch and with it the row that is finished meanwhile, so
`FinishedLeadsStayFinishedApart` also assumes `DropsApart`. `NoStepIsSkippedApart` and the
refinement of `Outreach` assume `MaxMail > 0`, as counters that
never count show nothing; the others do not need it.

**Outreach.** A `Deliver` of a worker is a delivery that gets on the record or,
when its answer is lost, one that does not; a crash, a failed
commit and the rows a `SyncCommit` drops are a `Lose`. A delivery is `Due` because `LedgerInv` puts
every delivery that the row does not show among the forgotten ones, and the row in hand
shows neither its step nor a later one. A lost record is of a contact who was
mailed, which for the mail in hand is `FlightInv`. `Prepared` is only claimed with one sequence, where
`StepInv` gives it. `NoLeadGoesBack` needs nothing of this: rows keep their
contact, and the only write of a step is to a greater one.

**Job log.** `JobLogIsHonest` is not inductive: a handler's row appears as queued after
its task was published, and must then have a task. `Custody` adds that a task published and
not yet recorded is in the queue, or a worker outran the commit (`unheld`), that it has no
row of the handler yet and is in no other handler's hands, and that a worker writes a
row of its own only when it outran the commit.

`JobsDoneOnce` rests on `Exclusive`: a task is in the queue or in one worker's hands,
and a row that is done has its task in neither. It is the broker handing out a
task once that the row depends on; one that delivered it again would break
it (the mutant of `JobsAreDoneOnce`).

**Wanted pairs.** `OnlyWantedPairsRun` speaks of workers past their sync, and the
commit that brings a worker there must already know that every active row is
explained. `WantedInv` therefore extends the claim to a worker that has planned and not
yet committed: an active row it does not mean to stop is wanted or excused. A
survey establishes that (`SurveyExplains`), whatever becomes unwanted is
recorded in `late` (`LossIsRecorded`), what another commit activates is wanted
or stray (`PairStep`), and an excuse lasts as long as the worker needs it
(`ExplanationLasts`).

**Contacts.** `TypeInv` adds to `TypeOK` where a process may be
(`PlacesOK`: a worker is only in a verification), that no contact is ever
removed (`RowsLast`) and that a worker's hand and its place agree (`HandsOK`).
The claims on the suppression list follow from `KnowsInv`: a session that
nobody overtook holds the contacts as they are and knows which of its addresses
are listed. `AgreeInv` is then inductive: list and flags agree on addresses that
are not raced, whose last writer had not been overtaken and therefore wrote
columns that fit the rest. `VerdictIsWhole` needs `KnowsInv` as well: the ORM writes
only the columns that change, and the others are the loaded ones.
`ImportsAreWhole` rests on `ImportInv`: a request whose job nobody else wrote
holds the job as it is, and in a validated job a line judged valid has an address.
`CompletedJobsAreDone` rests on `WorkInv`: a task is with its handler, in the
broker or in one worker's hands (`OwnInv`), and the leads counted have verdicts
(`ProgressInv`).

`FinishedVerificationsStay` rests on `SpentInv`: when a row is finished, its handler
is past its last write and the task is nowhere to be run.

**Access.** `AccessInv` adds `SeenIsCurrent` (a session nobody overtook holds the
status and consent on file) and `CheckHasGrant` (a check past its first token has seen a
consent).

**Inbox.** `MarkInv`: everything up to a session's last letter is stored, among
its own uncommitted letters, or missed, and so is everything between the letters it
still has. `StoreInv`: a letter is stored or among a session's own, once, unless
overlapped; a session can store a letter another has open only by putting it into
`overlapped`. `ReplyInv`: a thread that is not mixed is linked to its address's
contact or to none (`ThreadsAreOwn`), the thread of a stored mail that names its
addressee's contact is linked to that contact unless it is mixed
(`MailsAreLinked`), and the answers a session has filed are among those it marks or
excused (`AnswersAreNoticed`).

**Reports.** `DomainInv` (a verification nobody overtook holds the row as it is),
`ReportInv` (a preflight or start that is not outdated has the report of now), and
for the scores lemmas on tallies: outcomes add up to the number of checks, and
a quotient is 100 exactly when every check that counts passes.

**Without overlaps.** The theorems of the table with a condition in brackets, and
`OneSyncStoresOnce`, `ApartSessionsAgree`, `ApartImportsAreWhole` and
`VerificationsInTurnMatch`, say that the exceptions the invariants name, or the violations the
findings show, come from overlaps and from nothing else, neither
failures nor crashes nor bad input. Their hypothesis is a state predicate assumed throughout the
behaviour, which is what a lock or a claim would give:

| Hypothesis | What would give it |
|---|---|
| `ClaimsTakeTurns`, `BatchesTakeTurns`, `SendersTakeTurns` | a lock from the count of today's mails to the last recorded success |
| `LeadsApart`, `ContactsApart` | a claim on a lead, on its recipient, by the cycle that selects it |
| `SyncsTakeTurns` (dispatch, warm-up) | a lock around `sync_campaign_leads`, around `sync_pairs` |
| `DropsApart` | a sync that leaves alone what a cycle claims |
| `PlansStayCurrent` | what a pair sync read kept from changing until its commit |
| `StartsTakeTurns`, `RowsKeepUp` | a lock on the campaign from the check of the job rows to the commit; rows of live tasks that nobody cancels or deletes and that do not grow stale |
| `OneSyncAtATime`, `WritersAreCurrent` | a lock on the mailbox |
| `OneSessionPerAddress`, `OneRequestPerImport` | a lock on the contact, on the import |
| `OneVerificationAtATime`, `StartsAreCurrent` | a lock on the domain, on what a report reads |

The code has none of these, so the theorems are no claims about the
code as deployed, where two may overlap, but about every behaviour in which they happen not to.
Most hypotheses hold, for instance, of each behaviour with one session at a
time. The invariants say that nothing the overlap would cause is there:
`PassInv` (a start that found no pass under way publishes into an empty broker), `RowsInv` and
`CurrentInv` of warm-up (a plan adds only pairs that have no row, and that are
wanted or stopped being so), `NeverStale`, `SoleInv` and the two `Undisturbed`. The three limits follow from
`QuotaInTurn` by the refinement of `DailyQuota`. `OnePassAtATime` shows what `RowsKeepUp` costs: a
row that is cancelled or stale while its task lives lets a second pass start, even if starts take
turns.

Only model-checked: the liveness properties (out of TLAPS's reach). Every safety
property of the passing runs is the statement of a theorem.

## 5. What is not modelled

* Editing `daily_limit`, campaign type or stop_on_reply during a
  cycle (compliance mode is edited in `Readiness`), and the deletion of contacts, mailboxes and domains.
* Bodies, subjects, templates, the pages of threads, the wording of diagnostics.
* `campaign.status = "completed"`, which the models column names and no code sets.
* The quality centre, the command center, the notifications and the health page
  derive what they show from rows the core writes. The cache, authentication,
  the heartbeat, the MCP server, the frontend and the migrations keep no state
  that the core reads. `services/event_processor.py` has no caller.
* In the inbox: a change of UIDVALIDITY (`integrations/imap/provider.py:97` reads
  uids without it); that a letter which cannot be parsed is met again by each
  later sync (`services/imap_service.py:387`; `NothingPassedOver` says that it is not
  skipped, and nothing says that it is ever passed); mailboxes without Google
  consent, which need an IMAP password; messages of other mailboxes, which
  `_thread_for_existing_message` does not leave out (they would do to a thread what this
  mailbox's own do); letters that refer to several messages; an answer of Google that
  has no token in it, which is taken for a failure.

### Met on the way

Places where the code does less than it seems to, found while translating it. The
models have them as they are; where a document says otherwise, it is a finding.

* `routes/domains.py:132,150` record a success only for status `verified`, which no
  verification gives.
* The overview is never ready: the provider section has no checks and counts as
  unknown, and an unknown section is worse than a ready one (`ProviderSection`, `Order`).
* `routes/campaigns.py:1053` looks for the status `blocked`, and a preflight says
  pass, warning or fail: each preflight is recorded as a success. Nothing keeps a start from
  going ahead after "Launch blocked." but its own dry run (`RefusedIsNotActive`
  is about the two agreeing).
* One failed send blocks every start until an SMTP check or a send succeeds; the
  provider check does not count as one (`ProviderChecked`).
* A sync writes `failing`; the report looks for `failed` or `blocked` (`ImapCheck`).
* The IMAP diagnosis does not look at what the server answers to the selection of the
  inbox (`ImapDiagnosis`).
* When the last list of a campaign is deleted or detached, the sync returns early
  and its scheduled leads stay, to be mailed.
* An exception in the readiness report of a dry run is a warning: the start goes on.

## 6. Plan

In order of what matters most.

1. Done: `CampaignDispatch`, `DailyQuota` and the refinement; `CampaignJobs`;
   `Warmup`, with the second refinement of `DailyQuota`.
2. Done: `Suppression`, `LeadImport`, `VerificationJobs` and their composition.
3. Done: `MailboxAccess` and `InboxSync`.
4. Done: `Readiness`.
5. Done: proofs of every safety property of the runs.
6. Done: the refinement of `Outreach`, the limits of *n* workers, what finished leads
   and jobs keep, and the theorems without overlaps of every component.
7. Left: that a
   suppressed address stays off a campaign's mail across `Contacts` and dispatch, which needs an
   instance that composes `Contacts` with dispatch, so that
   the eligibility of a lead is computed and not chosen; the quality centre.

## 7. Running

    tlc -config DispatchSole.cfg MCCampaignDispatch.tla
    tlc -config Verification.cfg MCContacts.tla
    tlapm CampaignDispatchProofs.tla
