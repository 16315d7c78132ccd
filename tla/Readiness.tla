----------------------------- MODULE Readiness -----------------------------
(***************************************************************************)
(* The readiness reports of a sending domain, its mailbox and a campaign,  *)
(* computed from what diagnostics have left in the database, and the two   *)
(* handlers that act upon them: the start of a campaign, which a blocked   *)
(* report refuses, and the preflight, which pauses the campaign.           *)
(*                                                                         *)
(* One domain, one mailbox, one campaign.  A report is computed at one     *)
(* instant.  Abstracted: texts, priorities and the numbers that only       *)
(* inform; Google's client is configured; a score is computed in integers. *)
(***************************************************************************)
EXTENDS Integers, FiniteSets

CONSTANTS
  Clients,     \* threads that serve HTTP requests
  Leads,       \* contacts of the lists attached to the campaign
  Answers,     \* what a domain's DNS lookups may find: record -> status
  MaxSends,    \* bound: sends of the last seven days, of each outcome
  MaxOps       \* bound: requests, and diagnoses by others

Records == {"mx", "spf", "dkim", "dmarc"}
DomainRow == [record : [Records -> {"pending", "configured", "missing", "failed"}],
              status : {"pending", "ready", "dns_partial", "local_only", "failed"}]
MailboxRow == [active : BOOLEAN, provider : {"none", "healthy", "failed"}, oauth : BOOLEAN,
               smtp : {"none", "healthy", "failed"},
               sync : {"off", "none", "healthy", "failing"},
               warmup : {"off", "ready", "blocked"},
               sent : 0 .. MaxSends, failed : 0 .. MaxSends]

\* What Evaluate (module Suppression) says of a lead; its contact may be risky.
Eligibility == {"eligible", "risky", "suppressed", "unsubscribed", "blocked"}
LeadRow == [audience : Eligibility, status : {"listed", "scheduled", "sent"}]

ASSUME ReadinessAssumption ==
  /\ IsFiniteSet(Leads)
  /\ Answers \subseteq [Records -> {"configured", "missing", "failed"}]
  /\ MaxSends \in Nat /\ MaxOps \in Nat

VARIABLES
  domain, mailbox, lead,  \* the rows
  provider,               \* enabled, disabled, or left to existing mailboxes
  pool,                   \* warm-up is on and two mailboxes are ready for it
  campaign,               \* campaigns.status
  strict,                 \* campaigns.compliance_mode = "strict_b2c"
  pc, seen, loaded,       \* the requests, and the domain row and campaign status each loaded
  found,                  \* preflights with a check that failed
  \* history
  torn,                   \* the domain row was last written by an overtaken request
  overtaken,              \* verifications another one overtook
  outdated,               \* preflights and starts whose report would be another by now
  refused,                \* a preflight found the campaign blocked, and nothing changed since
  blockedAt,              \* preflights whose report was blocked
  ops

vars == <<domain, mailbox, lead, provider, pool, strict, campaign, pc, seen, loaded, found,
          torn, overtaken, outdated, refused, blockedAt, ops>>

-----------------------------------------------------------------------------
(* Reports.  A check passes, is noted, warns, or fails; a report is a       *)
(* function from the codes of its checks to their outcomes.                *)

\* Warnings that are but noted aside, only passed checks are left to be ready.
StatusOf(checks) ==
  IF \E c \in DOMAIN checks : checks[c] = "fail" THEN "blocked"
  ELSE IF \E c \in DOMAIN checks : checks[c] = "warning" THEN "degraded"
  ELSE "ready"

Tally(checks, outcome) == Cardinality({c \in DOMAIN checks : checks[c] = outcome})

\* Mutant: what is but noted counts.
ScoreOfAll(checks) ==
  (100 * (10 * Tally(checks, "pass") + 6 * (Tally(checks, "warning") + Tally(checks, "note"))))
    \div (10 * Cardinality(DOMAIN checks))

\* Checks that are but noted do not count.  Every report has one that does.
ScoreOf(checks) ==
  (100 * (10 * Tally(checks, "pass") + 6 * Tally(checks, "warning")))
    \div (10 * (Cardinality(DOMAIN checks) - Tally(checks, "note")))

\* How the report on one thing enters the report on what depends on it.
LinkCheck(status) ==
  CASE status = "ready" -> "pass" [] status = "blocked" -> "fail" [] OTHER -> "warning"

RecordCheck(r) ==
  CASE domain.record[r] = "configured" -> "pass"
    [] domain.record[r] \in {"missing", "failed"} /\ r = "mx" -> "fail"
    [] OTHER -> "warning"

VisibilityCheck ==
  CASE domain.status \in {"ready", "dns_partial"} -> "pass"
    [] domain.status = "pending" -> "warning"
    [] OTHER -> "fail"

\* No lookup finds a BIMI record: none is made.
DomainChecks == [c \in Records \cup {"bimi", "visibility"} |->
  CASE c \in Records -> RecordCheck(c) [] c = "bimi" -> "note" [] OTHER -> VisibilityCheck]

DomainReport == StatusOf(DomainChecks)

ProviderCheck == IF provider = "disabled" \/ mailbox.provider = "failed" THEN "fail" ELSE "pass"

SmtpCheck ==
  CASE mailbox.smtp = "healthy" -> "pass" [] mailbox.smtp = "failed" -> "fail" [] OTHER -> "warning"

\* The status a failing synchronisation writes is not one the check knows.
ImapCheck ==
  CASE mailbox.sync = "off" -> "warning" [] mailbox.sync = "healthy" -> "pass" [] OTHER -> "note"

WarmupCheck ==
  CASE mailbox.warmup = "off" -> "note" [] mailbox.warmup = "ready" -> "pass" [] OTHER -> "warning"

\* More than three failures in ten.
SendCheck ==
  CASE mailbox.sent + mailbox.failed = 0 -> "note"
    [] mailbox.sent = 0 /\ mailbox.failed > 0 -> "fail"
    [] mailbox.sent > 0 /\ 10 * mailbox.failed > 3 * (mailbox.sent + mailbox.failed) -> "warning"
    [] OTHER -> "pass"

\* Mutant: a blocked domain only warns.
MailboxChecksLenient ==
  [c \in {"active", "provider", "oauth", "smtp", "imap", "warmup", "sends", "domain"} |->
     CASE c = "active" -> IF mailbox.active THEN "pass" ELSE "fail"
       [] c = "provider" -> ProviderCheck
       [] c = "oauth" -> IF mailbox.oauth THEN "pass" ELSE "fail"
       [] c = "smtp" -> SmtpCheck
       [] c = "imap" -> ImapCheck
       [] c = "warmup" -> WarmupCheck
       [] c = "sends" -> SendCheck
       [] OTHER -> IF DomainReport = "ready" THEN "pass" ELSE "warning"]

MailboxChecks ==
  [c \in {"active", "provider", "oauth", "smtp", "imap", "warmup", "sends", "domain"} |->
     CASE c = "active" -> IF mailbox.active THEN "pass" ELSE "fail"
       [] c = "provider" -> ProviderCheck
       [] c = "oauth" -> IF mailbox.oauth THEN "pass" ELSE "fail"
       [] c = "smtp" -> SmtpCheck
       [] c = "imap" -> ImapCheck
       [] c = "warmup" -> WarmupCheck
       [] c = "sends" -> SendCheck
       [] OTHER -> LinkCheck(DomainReport)]

MailboxReport == StatusOf(MailboxChecks)

\* No contact has given consent: none may be mailed where it is asked for.
Mailable(l) == lead[l].audience \in {"eligible", "risky"} /\ ~strict
Scheduled == {l \in Leads : lead[l].status = "scheduled"}
With(audience) == {l \in Leads : lead[l].audience = audience /\ lead[l].status # "listed"}

\* The campaign's leads are brought up to its lists: who may be mailed joins, and
\* who may not be and was not yet is dropped.
SyncedLeads ==
  [l \in Leads |-> [lead[l] EXCEPT !.status =
     CASE @ = "listed" /\ Mailable(l) -> "scheduled"
       [] @ = "scheduled" /\ ~Mailable(l) -> "listed"
       [] OTHER -> @]]

\* The last two checks are made when there is something to warn of.
CampaignChecks ==
  [c \in {"mailbox", "eligible"}
           \cup (IF \E l \in With("risky") : Mailable(l) THEN {"risky"} ELSE {})
           \cup (IF With("suppressed") \cup With("unsubscribed") # {} THEN {"hygiene"} ELSE {}) |->
     CASE c = "mailbox" -> LinkCheck(MailboxReport)
       [] c = "eligible" -> IF \E l \in Scheduled : Mailable(l) THEN "pass" ELSE "fail"
       [] OTHER -> "warning"]

CampaignReport == StatusOf(CampaignChecks)

-----------------------------------------------------------------------------
(* The overview of the whole.                                              *)

\* The section has issues but no checks: without an issue it is unknown.
ProviderSection == IF provider = "enabled" THEN "unknown" ELSE "blocked"
WarmupSection == IF pool THEN "ready" ELSE "warning"
AudienceSection ==
  IF Leads # {} /\ \A l \in Leads : lead[l].audience \in {"eligible", "risky"}
  THEN "ready" ELSE "warning"

\* Campaigns that are neither active nor paused are not asked.
CampaignSection == IF campaign \in {"active", "paused"} THEN CampaignReport ELSE "ready"

Sections == <<DomainReport, MailboxReport, AudienceSection, WarmupSection, ProviderSection,
              CampaignSection>>

Order(status) ==
  CASE status = "ready" -> 0 [] status = "degraded" -> 2 [] status = "blocked" -> 3 [] OTHER -> 1

\* The first of the worst.
Overview ==
  LET worst(i) == \A j \in DOMAIN Sections : Order(Sections[j]) <= Order(Sections[i])
      first(i) == worst(i) /\ \A j \in 1 .. i - 1 : ~worst(j)
  IN Sections[CHOOSE i \in DOMAIN Sections : first(i)]

-----------------------------------------------------------------------------
(* Diagnoses.                                                              *)

Request(p) == pc[p] = "idle" /\ ops > 0 /\ ops' = ops - 1
Reporting(p) == pc[p] \in {"preflight", "pausing", "starting"}

\* Something a report reads has changed.
Changed ==
  /\ outdated' = {p \in Clients : Reporting(p)}
  /\ refused' = FALSE

\* A verification loads the domain and asks DNS, which takes seconds.
Verify(p) ==
  /\ Request(p)
  /\ pc' = [pc EXCEPT ![p] = "resolving"]
  /\ seen' = [seen EXCEPT ![p] = domain]
  /\ overtaken' = overtaken \ {p}
  /\ UNCHANGED <<domain, mailbox, lead, provider, pool, strict, campaign, loaded, found, torn, outdated,
                 refused, blockedAt>>

Count(answer, status) == Cardinality({r \in Records : answer[r] = status})

\* Mutant: records that are there are looked for first.
LifecycleByCount(answer) ==
  IF Count(answer, "configured") = Cardinality(Records) THEN "ready"
  ELSE IF Count(answer, "configured") > 0 THEN "dns_partial"
  ELSE IF Count(answer, "failed") > 0 THEN "failed"
  ELSE "local_only"

\* Mutant: the status the handlers look for.
LifecycleVerified(answer) ==
  IF Count(answer, "configured") = Cardinality(Records) THEN "verified" ELSE "dns_partial"

Lifecycle(answer) ==
  IF Count(answer, "failed") > 0 THEN "failed"
  ELSE IF Count(answer, "configured") = Cardinality(Records) THEN "ready"
  ELSE IF Count(answer, "configured") > 0 THEN "dns_partial"
  ELSE "local_only"

\* The ORM writes a column when its value differs from the one it loaded.
Column(old, value, now) == IF value = old THEN now ELSE value

VerifyCommit(p, answer) ==
  /\ pc[p] = "resolving"
  /\ domain' = [record |-> [r \in Records |-> Column(seen[p].record[r], answer[r], domain.record[r])],
                status |-> Column(seen[p].status, Lifecycle(answer), domain.status)]
  /\ torn' = (p \in overtaken)
  /\ overtaken' = overtaken \cup {q \in Clients \ {p} : pc[q] = "resolving"}
  /\ Changed
  /\ pc' = [pc EXCEPT ![p] = "idle"]
  /\ UNCHANGED <<mailbox, lead, provider, pool, strict, campaign, seen, loaded, found, blockedAt, ops>>

\* What others write into the rows a report reads.
Diagnosed ==
  /\ ops > 0 /\ ops' = ops - 1
  /\ Changed
  /\ UNCHANGED <<domain, campaign, pc, seen, loaded, found, torn, overtaken, blockedAt>>

Mailbox(row) == mailbox' = row /\ UNCHANGED <<lead, provider, pool, strict>>

\* The mailbox may send.
Available == mailbox.active /\ provider # "disabled"
WarmupStatus == IF Available /\ mailbox.smtp = "healthy" THEN "ready" ELSE "blocked"

\* The mailbox form, the consent pages, and the switches.  A switch leaves the last
\* status of a synchronisation as it is.
SetActive == Mailbox([mailbox EXCEPT !.active = ~@])
SetOauth == Mailbox([mailbox EXCEPT !.oauth = ~@])
SetSync(last) == Mailbox([mailbox EXCEPT !.sync = IF @ = "off" THEN last ELSE "off"])
SetWarmup == Mailbox([mailbox EXCEPT !.warmup = IF @ = "off" THEN WarmupStatus ELSE "off"])

\* A diagnosis talks to a server until something breaks off, if anything does: the
\* name, the connection, TLS, the token.
SmtpStages == {"resolve", "connect", "secure", "authenticate", "done"}
SmtpDiagnosis(reached) == IF reached = "done" THEN "healthy" ELSE "failed"

\* The IMAP server is asked for the inbox too, but what it says is not looked at.
ImapStages == {"resolve", "connect", "authenticate", "select", "done"}
ImapDiagnosis(reached) == IF reached \in {"select", "done"} THEN "healthy" ELSE "failed"

SmtpDiagnoses == {SmtpDiagnosis(reached) : reached \in SmtpStages}
ImapDiagnoses == {ImapDiagnosis(reached) : reached \in ImapStages}

\* The provider check refreshes a token and asks both servers; the SMTP status
\* is left as it is.
ProviderChecked(smtp, imap, token) ==
  /\ provider # "disabled"
  /\ Mailbox([mailbox EXCEPT
       !.provider = IF token /\ smtp = "healthy" /\ imap = "healthy" THEN "healthy" ELSE "failed",
       !.oauth = token])

SmtpChecked(result) == provider # "disabled" /\ Mailbox([mailbox EXCEPT !.smtp = result])
Synced(result) ==
  /\ mailbox.sync # "off"
  /\ result = "none" <=> ~Available
  /\ Mailbox([mailbox EXCEPT !.sync = result])
WarmupJudged == mailbox.warmup # "off" /\ Mailbox([mailbox EXCEPT !.warmup = WarmupStatus])

\* A mail is sent or refused; that counts as an SMTP check.
SendSucceeded ==
  /\ Available /\ mailbox.sent < MaxSends
  /\ Mailbox([mailbox EXCEPT !.sent = @ + 1, !.smtp = "healthy"])
SendFailed ==
  /\ Available /\ mailbox.failed < MaxSends
  /\ Mailbox([mailbox EXCEPT !.failed = @ + 1, !.smtp = "failed"])

SetProvider(setting) == provider' = setting /\ UNCHANGED <<mailbox, lead, pool, strict>>
SetPool == pool' = ~pool /\ UNCHANGED <<mailbox, lead, provider, strict>>

\* The campaign is edited.
SetStrict == strict' = ~strict /\ UNCHANGED <<mailbox, lead, provider, pool>>

\* A verification or a suppression changes who may be mailed; a cycle of the
\* active campaign mails a lead.
Judged(l, audience) ==
  lead' = [lead EXCEPT ![l].audience = audience] /\ UNCHANGED <<mailbox, provider, pool, strict>>
Mailed(l) ==
  /\ campaign = "active" /\ lead[l].status = "scheduled" /\ Mailable(l)
  /\ lead' = [lead EXCEPT ![l].status = "sent"]
  /\ UNCHANGED <<mailbox, provider, pool, strict>>

Diagnose ==
  /\ Diagnosed
  /\ \/ SetActive \/ SetOauth \/ SetWarmup \/ SetPool \/ SetStrict
     \/ \E smtp \in SmtpDiagnoses :
          \/ SmtpChecked(smtp)
          \/ \E imap \in ImapDiagnoses, token \in BOOLEAN : ProviderChecked(smtp, imap, token)
     \/ \E result \in {"none", "healthy", "failing"} : Synced(result) \/ SetSync(result)
     \/ WarmupJudged
     \/ SendSucceeded \/ SendFailed
     \/ \E setting \in {"enabled", "legacy", "disabled"} : SetProvider(setting)
     \/ \E l \in Leads : Mailed(l) \/ \E audience \in Eligibility : Judged(l, audience)

-----------------------------------------------------------------------------
(* Preflight and start.                                                    *)

\* Leads that may not be mailed may make up a fifth, suppressed ones nothing.
LeadQualityFails ==
  \/ With("suppressed") \cap Scheduled # {}
  \/ 5 * Cardinality({l \in Scheduled : ~Mailable(l)}) > Cardinality(Scheduled)

ComplianceFails == strict /\ Scheduled # {}

\* The checks are made; SPF and DMARC, asked of DNS, only warn.
Preflight(p) ==
  /\ Request(p)
  /\ pc' = [pc EXCEPT ![p] = "preflight"]
  /\ found' = IF CampaignReport = "blocked" \/ LeadQualityFails \/ ComplianceFails
              THEN found \cup {p} ELSE found \ {p}
  /\ blockedAt' = IF CampaignReport = "blocked" THEN blockedAt \cup {p} ELSE blockedAt \ {p}
  /\ outdated' = outdated \ {p}
  /\ UNCHANGED <<domain, mailbox, lead, provider, pool, strict, campaign, seen, loaded, torn, overtaken,
                 refused>>

\* The report of p was blocked, and still is.
Refuses(p) == p \in blockedAt \ outdated

\* The checks are committed, and the campaign's status is read again.
Recorded(p) ==
  /\ pc[p] = "preflight"
  /\ IF p \in found /\ campaign = "active"
     THEN pc' = [pc EXCEPT ![p] = "pausing"] /\ UNCHANGED refused
     ELSE pc' = [pc EXCEPT ![p] = "idle"] /\ refused' = (refused \/ Refuses(p))
  /\ UNCHANGED <<domain, mailbox, lead, provider, pool, strict, campaign, seen, loaded, found, torn,
                 overtaken, outdated, blockedAt, ops>>

Enforced(p) ==
  /\ pc[p] = "pausing"
  /\ campaign' = "paused"
  /\ refused' = (refused \/ Refuses(p))
  /\ pc' = [pc EXCEPT ![p] = "idle"]
  /\ UNCHANGED <<domain, mailbox, lead, provider, pool, strict, seen, loaded, found, torn, overtaken,
                 outdated, blockedAt, ops>>

\* The dry run first synchronises the leads.
Start(p) ==
  /\ Request(p)
  /\ campaign # "archived"
  /\ lead' = SyncedLeads
  /\ IF lead' = lead THEN UNCHANGED <<outdated, refused>> ELSE Changed
  /\ pc' = [pc EXCEPT ![p] = "dry run"]
  /\ UNCHANGED <<domain, mailbox, provider, pool, strict, campaign, seen, loaded, found, torn, overtaken,
                 blockedAt>>

\* Mutant: the dry run only looks for a lead.
DryRunUnseen(p) ==
  /\ pc[p] = "dry run"
  /\ pc' = [pc EXCEPT ![p] = IF campaign = "archived" \/ ~(\E l \in Scheduled : Mailable(l))
                             THEN "idle" ELSE "starting"]
  /\ loaded' = [loaded EXCEPT ![p] = campaign]
  /\ outdated' = outdated \ {p}
  /\ UNCHANGED <<domain, mailbox, lead, provider, pool, strict, campaign, seen, found, torn, overtaken,
                 refused, blockedAt, ops>>

\* The campaign is read again after the commit of the leads.
DryRun(p) ==
  /\ pc[p] = "dry run"
  /\ pc' = [pc EXCEPT ![p] = IF campaign = "archived" \/ CampaignReport = "blocked"
                             THEN "idle" ELSE "starting"]
  /\ loaded' = [loaded EXCEPT ![p] = campaign]
  /\ outdated' = outdated \ {p}
  /\ UNCHANGED <<domain, mailbox, lead, provider, pool, strict, campaign, seen, found, torn, overtaken,
                 refused, blockedAt, ops>>

\* The campaign is made active, whatever became of it since.
StartCommit(p) ==
  /\ pc[p] = "starting"
  /\ campaign' = Column(loaded[p], "active", campaign)
  /\ refused' = (refused /\ p \notin outdated)
  /\ pc' = [pc EXCEPT ![p] = "idle"]
  /\ UNCHANGED <<domain, mailbox, lead, provider, pool, strict, seen, loaded, found, torn, overtaken,
                 outdated, blockedAt, ops>>

\* A job is under way, the limit is reached, or there is no worker.
StartGivesUp(p) ==
  /\ pc[p] = "starting"
  /\ pc' = [pc EXCEPT ![p] = "idle"]
  /\ UNCHANGED <<domain, mailbox, lead, provider, pool, strict, campaign, seen, loaded, found, torn,
                 overtaken, outdated, refused, blockedAt, ops>>

\* Module CampaignJobs has these in full.
SetStatus(p) ==
  /\ Request(p)
  /\ campaign' \in IF campaign = "archived" THEN {"paused"} ELSE {"paused", "archived"}
  /\ UNCHANGED <<domain, mailbox, lead, provider, pool, strict, pc, seen, loaded, found, torn, overtaken,
                 outdated, refused, blockedAt>>

-----------------------------------------------------------------------------
(* A domain just created, or verified some time ago; a mailbox never used,  *)
(* or one in good order.                                                   *)

Created == [record |-> [r \in Records |-> "pending"], status |-> "pending"]
Verified(answer) == [record |-> answer, status |-> Lifecycle(answer)]
Unused == [active |-> TRUE, provider |-> "none", oauth |-> FALSE, smtp |-> "none", sync |-> "none",
           warmup |-> "off", sent |-> 0, failed |-> 0]
InUse == [active |-> TRUE, provider |-> "healthy", oauth |-> TRUE, smtp |-> "healthy",
          sync |-> "healthy", warmup |-> "ready", sent |-> MaxSends, failed |-> 0]

Init ==
  /\ domain \in {Created} \cup {Verified(answer) : answer \in Answers}
  /\ mailbox \in {Unused, InUse}
  /\ lead \in [Leads -> [audience : {"eligible"}, status : {"listed", "scheduled"}]]
  /\ provider = "enabled"
  /\ pool = FALSE
  /\ campaign \in {"draft", "active"}
  /\ strict \in BOOLEAN
  /\ pc = [p \in Clients |-> "idle"]
  /\ seen = [p \in Clients |-> domain] /\ loaded = [p \in Clients |-> campaign]
  /\ found = {} /\ torn = FALSE /\ overtaken = {} /\ outdated = {} /\ refused = FALSE
  /\ blockedAt = {}
  /\ ops = MaxOps

Next ==
  \/ Diagnose
  \/ \E p \in Clients :
       \/ Verify(p) \/ \E answer \in Answers : VerifyCommit(p, answer)
       \/ Preflight(p) \/ Recorded(p) \/ Enforced(p)
       \/ Start(p) \/ DryRun(p) \/ StartCommit(p) \/ StartGivesUp(p) \/ SetStatus(p)

Spec == Init /\ [][Next]_vars

-----------------------------------------------------------------------------
(* Properties.                                                             *)

TypeOK ==
  /\ domain \in DomainRow
  /\ mailbox \in MailboxRow
  /\ lead \in [Leads -> LeadRow]
  /\ provider \in {"enabled", "legacy", "disabled"} /\ pool \in BOOLEAN /\ strict \in BOOLEAN
  /\ campaign \in {"draft", "active", "paused", "archived"}
  /\ pc \in [Clients -> {"idle", "resolving", "preflight", "pausing", "dry run",
                       "starting"}]
  /\ seen \in [Clients -> DomainRow]
  /\ loaded \in [Clients -> {"draft", "active", "paused", "archived"}]
  /\ found \subseteq Clients /\ overtaken \subseteq Clients /\ outdated \subseteq Clients
  /\ blockedAt \subseteq found
  /\ torn \in BOOLEAN /\ refused \in BOOLEAN
  /\ ops \in 0 .. MaxOps

\* A domain's status and its four records are columns written one by one; they
\* tell one story, unless two verifications overlapped: ready means that nothing
\* is missing, and a lookup that failed shows.
StatusMatchesRecords ==
  ~torn =>
    /\ domain.status = "ready" <=> \A r \in Records : domain.record[r] = "configured"
    /\ domain.status = "failed" <=> \E r \in Records : domain.record[r] = "failed"
    /\ domain.status = "dns_partial" => \E r \in Records : domain.record[r] = "configured"

\* "Launch blocked": once a preflight has found the campaign's report blocked, the
\* campaign is not active while nothing the report reads changes, whatever
\* starts, pauses and restorations are made; a start that had its report from
\* before the change is the one exception.
RefusedIsNotActive == refused => campaign # "active"

\* Trouble with the domain's MX record, the mailbox or its provider shows all the
\* way up.  While it stands, a preflight finds fault, no start gets past its dry
\* run, and the overview says blocked.
TroubleShows ==
  (\/ domain.record["mx"] \in {"missing", "failed"} \/ domain.status = "failed"
   \/ ~mailbox.active \/ ~mailbox.oauth \/ mailbox.smtp = "failed" \/ provider = "disabled")
    => /\ Overview = "blocked"
       /\ \A p \in Clients \ outdated :
            pc[p] # "starting" /\ (pc[p] = "preflight" => p \in found)

\* A score is full exactly when the report says ready, at each of the levels, and
\* a report that is not blocked never scores less than what a warning is worth.
ScoreTellsReady ==
  \A checks \in {DomainChecks, MailboxChecks, CampaignChecks} :
    /\ ScoreOf(checks) = 100 <=> StatusOf(checks) = "ready"
    /\ StatusOf(checks) # "blocked" => ScoreOf(checks) >= 60
=============================================================================
