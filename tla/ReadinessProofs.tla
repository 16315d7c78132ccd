--------------------------- MODULE ReadinessProofs ---------------------------
(***************************************************************************)
(* Theorems of Readiness, for every set of clients and leads, and whatever *)
(* the lookups answer.                                                     *)
(***************************************************************************)
EXTENDS Readiness, FiniteSetTheorems, TLAPS

-----------------------------------------------------------------------------
(* Type correctness.                                                       *)

LEMMA LifecycleType ==
  ASSUME NEW answer \in [Records -> {"configured", "missing", "failed"}]
  PROVE  Verified(answer) \in DomainRow
BY DEF Verified, Lifecycle, DomainRow, Records

LEMMA ColumnsType ==
  ASSUME NEW old \in DomainRow, NEW new \in DomainRow, NEW now \in DomainRow
  PROVE  [record |-> [r \in Records |-> Column(old.record[r], new.record[r], now.record[r])],
          status |-> Column(old.status, new.status, now.status)] \in DomainRow
BY DEF DomainRow, Column

LEMMA OpsType ==
  ASSUME TypeOK, ops > 0, ops' = ops - 1
  PROVE  ops' \in 0 .. MaxOps
<1>1. ops \in 0 .. MaxOps /\ MaxOps \in Nat
  BY ReadinessAssumption DEF TypeOK
<1>2. QED
  BY <1>1

\* The parts of a report's inputs stay rows.
LEMMA DiagnoseTyped ==
  ASSUME TypeOK, Diagnose
  PROVE  /\ mailbox' \in MailboxRow /\ lead' \in [Leads -> LeadRow]
         /\ provider' \in {"enabled", "legacy", "disabled"} /\ pool' \in BOOLEAN
         /\ strict' \in BOOLEAN
<1> USE ReadinessAssumption
<1> DEFINE Inputs == /\ mailbox' \in MailboxRow /\ lead' \in [Leads -> LeadRow]
                     /\ provider' \in {"enabled", "legacy", "disabled"} /\ pool' \in BOOLEAN
                     /\ strict' \in BOOLEAN
<1>1. ASSUME NEW row \in MailboxRow, Mailbox(row) PROVE Inputs
  BY <1>1 DEF Mailbox, TypeOK
<1>2. mailbox \in MailboxRow /\ WarmupStatus \in {"ready", "blocked"}
  BY DEF TypeOK, WarmupStatus
<1>3. CASE SetActive \/ SetOauth
  BY <1>1, <1>2, <1>3 DEF SetActive, SetOauth, MailboxRow
<1>4. CASE SetWarmup \/ WarmupJudged
  <2>1. [mailbox EXCEPT !.warmup = IF @ = "off" THEN WarmupStatus ELSE "off"] \in MailboxRow
    BY <1>2 DEF MailboxRow
  <2>2. [mailbox EXCEPT !.warmup = WarmupStatus] \in MailboxRow
    BY <1>2 DEF MailboxRow
  <2>3. QED
    BY <1>1, <1>4, <2>1, <2>2 DEF SetWarmup, WarmupJudged
<1>5. ASSUME NEW smtp \in SmtpDiagnoses,
             \/ SmtpChecked(smtp)
             \/ \E imap \in ImapDiagnoses, token \in BOOLEAN : ProviderChecked(smtp, imap, token)
      PROVE  Inputs
  <2>1. CASE SmtpChecked(smtp)
    <3>1. smtp \in {"healthy", "failed"}
      BY DEF SmtpDiagnoses, SmtpDiagnosis
    <3>2. [mailbox EXCEPT !.smtp = smtp] \in MailboxRow
      BY <1>2, <3>1 DEF MailboxRow
    <3>3. QED
      BY <1>1, <2>1, <3>2 DEF SmtpChecked
  <2>2. ASSUME NEW imap \in ImapDiagnoses, NEW token \in BOOLEAN, ProviderChecked(smtp, imap, token)
        PROVE  Inputs
    <3> DEFINE status == IF token /\ smtp = "healthy" /\ imap = "healthy" THEN "healthy" ELSE "failed"
    <3>1. [mailbox EXCEPT !.provider = status, !.oauth = token] \in MailboxRow
      BY <1>2 DEF MailboxRow
    <3>2. QED
      BY <1>1, <2>2, <3>1 DEF ProviderChecked
  <2>3. QED
    BY <1>5, <2>1, <2>2
<1>6. ASSUME NEW result \in {"none", "healthy", "failing"}, Synced(result) \/ SetSync(result)
      PROVE  Inputs
  <2>1. /\ [mailbox EXCEPT !.sync = result] \in MailboxRow
        /\ [mailbox EXCEPT !.sync = IF @ = "off" THEN result ELSE "off"] \in MailboxRow
    BY <1>2 DEF MailboxRow
  <2>2. QED
    BY <1>1, <1>6, <2>1 DEF Synced, SetSync
<1>7. CASE SendSucceeded
  <2>1. mailbox.sent \in 0 .. MaxSends /\ mailbox.sent < MaxSends
    BY <1>2, <1>7 DEF SendSucceeded, MailboxRow
  <2>2. mailbox.sent + 1 \in 0 .. MaxSends
    BY <2>1
  <2>3. [mailbox EXCEPT !.sent = @ + 1, !.smtp = "healthy"] \in MailboxRow
    BY <1>2, <2>2 DEF MailboxRow
  <2>4. QED
    BY <1>1, <1>7, <2>3 DEF SendSucceeded
<1>8. CASE SendFailed
  <2>1. mailbox.failed \in 0 .. MaxSends /\ mailbox.failed < MaxSends
    BY <1>2, <1>8 DEF SendFailed, MailboxRow
  <2>2. mailbox.failed + 1 \in 0 .. MaxSends
    BY <2>1
  <2>3. [mailbox EXCEPT !.failed = @ + 1, !.smtp = "failed"] \in MailboxRow
    BY <1>2, <2>2 DEF MailboxRow
  <2>4. QED
    BY <1>1, <1>8, <2>3 DEF SendFailed
<1>9. CASE SetPool \/ SetStrict \/ \E setting \in {"enabled", "legacy", "disabled"} : SetProvider(setting)
  BY <1>9 DEF SetPool, SetStrict, SetProvider, TypeOK
<1>10. ASSUME NEW l \in Leads, Mailed(l) \/ \E audience \in Eligibility : Judged(l, audience)
       PROVE  Inputs
  <2>1. lead' \in [Leads -> LeadRow]
    <3>1. lead \in [Leads -> LeadRow]
      BY DEF TypeOK
    <3>2. CASE Mailed(l)
      BY <3>1, <3>2 DEF Mailed, LeadRow
    <3>3. ASSUME NEW audience \in Eligibility, Judged(l, audience) PROVE lead' \in [Leads -> LeadRow]
      BY <3>1, <3>3 DEF Judged, LeadRow
    <3>4. QED
      BY <1>10, <3>2, <3>3
  <2>2. UNCHANGED <<mailbox, provider, pool, strict>>
    BY <1>10 DEF Mailed, Judged
  <2>3. QED
    BY <2>1, <2>2 DEF TypeOK
<1>11. QED
  BY <1>3, <1>4, <1>5, <1>6, <1>7, <1>8, <1>9, <1>10 DEF Diagnose

LEMMA DiagnoseTypeOK == TypeOK /\ Diagnose => TypeOK'
<1> SUFFICES ASSUME TypeOK, Diagnose PROVE TypeOK'
  OBVIOUS
<1>1. ops' \in 0 .. MaxOps
  BY OpsType DEF Diagnose, Diagnosed
<1>2. outdated' \subseteq Clients /\ refused' \in BOOLEAN
  BY DEF Diagnose, Diagnosed, Changed
<1>3. UNCHANGED <<domain, campaign, pc, seen, loaded, found, torn, overtaken, blockedAt>>
  BY DEF Diagnose, Diagnosed
<1>4. QED
  BY <1>1, <1>2, <1>3, DiagnoseTyped DEF TypeOK

\* What a request's steps do to the rest of the state.
LEMMA VerifyTypeOK ==
  ASSUME TypeOK, NEW p \in Clients, Verify(p)
  PROVE  TypeOK'
<1>1. ops' \in 0 .. MaxOps
  BY OpsType DEF Verify, Request
<1>2. QED
  BY <1>1 DEF Verify, TypeOK

LEMMA VerifyCommitTypeOK ==
  ASSUME TypeOK, NEW p \in Clients, NEW answer \in Answers, VerifyCommit(p, answer)
  PROVE  TypeOK'
<1>1. Verified(answer) \in DomainRow
  BY LifecycleType, ReadinessAssumption
<1>2. seen[p] \in DomainRow /\ domain \in DomainRow
  BY DEF TypeOK
<1>3. domain' = [record |-> [r \in Records |-> Column(seen[p].record[r], Verified(answer).record[r],
                                                       domain.record[r])],
                 status |-> Column(seen[p].status, Verified(answer).status, domain.status)]
  BY DEF VerifyCommit, Verified
<1>4. domain' \in DomainRow
  BY <1>1, <1>2, <1>3, ColumnsType
<1>5. (p \in overtaken) \in BOOLEAN
  OBVIOUS
<1>6. torn' = (p \in overtaken)
  BY DEF VerifyCommit
<1>7. torn' \in BOOLEAN
  BY <1>5, <1>6
<1>8. outdated' \subseteq Clients /\ refused' \in BOOLEAN /\ overtaken' \subseteq Clients
  BY DEF VerifyCommit, Changed, TypeOK
<1>9. QED
  BY <1>4, <1>7, <1>8 DEF VerifyCommit, TypeOK

LEMMA PreflightTypeOK ==
  ASSUME TypeOK, NEW p \in Clients, Preflight(p)
  PROVE  TypeOK'
<1>1. ops' \in 0 .. MaxOps
  BY OpsType DEF Preflight, Request
<1>2. found' \subseteq Clients /\ blockedAt' \subseteq found' /\ outdated' \subseteq Clients
  BY DEF Preflight, TypeOK
<1>3. QED
  BY <1>1, <1>2 DEF Preflight, TypeOK

LEMMA RecordedTypeOK ==
  ASSUME TypeOK, NEW p \in Clients, Recorded(p) \/ Enforced(p)
  PROVE  TypeOK'
<1>1. (refused \/ Refuses(p)) \in BOOLEAN
  BY Zenon
<1>2. refused' \in BOOLEAN
  BY <1>1 DEF Recorded, Enforced, TypeOK
<1>3. QED
  BY <1>2 DEF Recorded, Enforced, TypeOK

LEMMA SyncedType == TypeOK => SyncedLeads \in [Leads -> LeadRow]
BY DEF TypeOK, SyncedLeads, LeadRow

LEMMA StartTypeOK ==
  ASSUME TypeOK, NEW p \in Clients, Start(p)
  PROVE  TypeOK'
<1>1. ops' \in 0 .. MaxOps
  BY OpsType DEF Start, Request
<1>2. outdated' \subseteq Clients /\ refused' \in BOOLEAN
  BY DEF Start, Changed, TypeOK
<1>3. QED
  BY <1>1, <1>2, SyncedType DEF Start, TypeOK

LEMMA StartedTypeOK ==
  ASSUME TypeOK, NEW p \in Clients, DryRun(p) \/ StartCommit(p) \/ StartGivesUp(p)
  PROVE  TypeOK'
<1>1. (refused /\ p \notin outdated) \in BOOLEAN
  BY Zenon
<1>2. refused' \in BOOLEAN
  BY <1>1 DEF DryRun, StartCommit, StartGivesUp, TypeOK
<1>3. campaign' \in {"draft", "active", "paused", "archived"}
  BY DEF DryRun, StartCommit, StartGivesUp, Column, TypeOK
<1>4. QED
  BY <1>2, <1>3 DEF DryRun, StartCommit, StartGivesUp, TypeOK

LEMMA SetStatusTypeOK ==
  ASSUME TypeOK, NEW p \in Clients, SetStatus(p)
  PROVE  TypeOK'
<1>1. ops' \in 0 .. MaxOps
  BY OpsType DEF SetStatus, Request
<1>2. campaign' \in {"draft", "active", "paused", "archived"}
  BY DEF SetStatus
<1>3. QED
  BY <1>1, <1>2 DEF SetStatus, TypeOK

LEMMA StepTypeOK == TypeOK /\ [Next]_vars => TypeOK'
<1> SUFFICES ASSUME TypeOK, [Next]_vars PROVE TypeOK'
  OBVIOUS
<1>1. CASE UNCHANGED vars
  BY <1>1 DEF vars, TypeOK
<1>2. CASE Next
  BY <1>2, DiagnoseTypeOK, VerifyTypeOK, VerifyCommitTypeOK, PreflightTypeOK, RecordedTypeOK,
     StartTypeOK, StartedTypeOK, SetStatusTypeOK DEF Next
<1>3. QED
  BY <1>1, <1>2

LEMMA InitTypeOK == Init => TypeOK
<1> SUFFICES ASSUME Init PROVE TypeOK
  OBVIOUS
<1>1. domain \in DomainRow
  <2>1. Created \in DomainRow
    BY DEF Created, DomainRow
  <2>2. \A answer \in Answers : Verified(answer) \in DomainRow
    BY LifecycleType, ReadinessAssumption
  <2>3. QED
    BY <2>1, <2>2 DEF Init
<1>2. mailbox \in MailboxRow
  <2>1. 0 \in 0 .. MaxSends /\ MaxSends \in 0 .. MaxSends
    BY ReadinessAssumption
  <2>2. Unused \in MailboxRow /\ InUse \in MailboxRow
    BY <2>1 DEF Unused, InUse, MailboxRow
  <2>3. QED
    BY <2>2 DEF Init
<1>3. lead \in [Leads -> LeadRow]
  BY DEF Init, LeadRow, Eligibility
<1>4. ops \in 0 .. MaxOps
  BY ReadinessAssumption DEF Init
<1>5. QED
  BY <1>1, <1>2, <1>3, <1>4 DEF Init, TypeOK

\* The types of the rows a report reads and of the requests that act upon it.
THEOREM ReadinessTypeCorrect == Spec => []TypeOK
BY InitTypeOK, StepTypeOK, PTL DEF Spec

-----------------------------------------------------------------------------
(* A domain's status matches its records.                                  *)

\* What verifications that do not overlap leave: the row as it was created, or
\* what one of them found.
DomainInv ==
  /\ ~torn => domain = Created \/ \E answer \in Answers : domain = Verified(answer)
  /\ \A p \in Clients \ overtaken : pc[p] = "resolving" => seen[p] = domain

LEMMA DomainStays ==
  ASSUME DomainInv, UNCHANGED <<domain, torn, seen, overtaken>>,
         \A p \in Clients : pc'[p] = "resolving" => pc[p] = "resolving"
  PROVE  DomainInv'
BY DEF DomainInv

\* A column gets the new value when the session loaded the row that is there.
LEMMA CurrentColumn ==
  ASSUME NEW new, NEW now
  PROVE  Column(now, new, now) = new
BY DEF Column

LEMMA VerifyCommitDomain ==
  ASSUME TypeOK, DomainInv, NEW p \in Clients, NEW answer \in Answers, VerifyCommit(p, answer)
  PROVE  DomainInv'
<1>1. CASE p \in overtaken
  BY <1>1 DEF VerifyCommit, DomainInv, TypeOK
<1>2. CASE p \notin overtaken
  <2>1. seen[p] = domain
    BY <1>2 DEF DomainInv, VerifyCommit
  <2>2. /\ domain'.status = Lifecycle(answer)
        /\ domain'.record = [r \in Records |-> answer[r]]
    BY <2>1, CurrentColumn DEF VerifyCommit
  <2>3. answer = [r \in Records |-> answer[r]]
    BY ReadinessAssumption
  <2>4. domain' = Verified(answer)
    BY <2>1, <2>2, <2>3 DEF VerifyCommit, Verified
  <2>5. \A q \in Clients \ overtaken' : pc'[q] # "resolving"
    BY DEF VerifyCommit, TypeOK
  <2>6. QED
    BY <2>4, <2>5 DEF DomainInv
<1>3. QED
  BY <1>1, <1>2

LEMMA StepDomain == TypeOK /\ DomainInv /\ [Next]_vars => DomainInv'
<1> SUFFICES ASSUME TypeOK, DomainInv, [Next]_vars PROVE DomainInv'
  OBVIOUS
<1>1. CASE UNCHANGED vars
  BY <1>1, DomainStays DEF vars
<1>2. CASE Diagnose
  BY <1>2, DomainStays DEF Diagnose, Diagnosed
<1>3. ASSUME NEW p \in Clients, Verify(p) PROVE DomainInv'
  BY <1>3 DEF Verify, DomainInv, TypeOK
<1>4. ASSUME NEW p \in Clients, Preflight(p) \/ Recorded(p) \/ Enforced(p) PROVE DomainInv'
  BY <1>4, DomainStays DEF Preflight, Recorded, Enforced, TypeOK
<1>5. ASSUME NEW p \in Clients, Start(p) \/ SetStatus(p) PROVE DomainInv'
  BY <1>5, DomainStays DEF Start, SetStatus, TypeOK
<1>6. ASSUME NEW p \in Clients, DryRun(p) \/ StartCommit(p) \/ StartGivesUp(p) PROVE DomainInv'
  BY <1>6, DomainStays DEF DryRun, StartCommit, StartGivesUp, TypeOK
<1>7. QED
  BY <1>1, <1>2, <1>3, <1>4, <1>5, <1>6, VerifyCommitDomain DEF Next

\* How many records a verification finds in a state tells whether one is.
LEMMA CountTells ==
  ASSUME NEW answer, NEW status
  PROVE  /\ Count(answer, status) > 0 <=> \E r \in Records : answer[r] = status
         /\ Count(answer, status) = Cardinality(Records) <=> \A r \in Records : answer[r] = status
<1> DEFINE S == {r \in Records : answer[r] = status}
<1>1. IsFiniteSet(Records) /\ S \subseteq Records
  <2>1. IsFiniteSet({"mx"}) /\ IsFiniteSet({"spf"}) /\ IsFiniteSet({"dkim"}) /\ IsFiniteSet({"dmarc"})
    BY FS_Singleton
  <2>2. Records = (({"mx"} \cup {"spf"}) \cup {"dkim"}) \cup {"dmarc"}
    BY DEF Records
  <2>3. QED
    BY <2>1, <2>2, FS_Union
<1>2. IsFiniteSet(S) /\ Cardinality(S) <= Cardinality(Records)
      /\ (Cardinality(S) = Cardinality(Records) => S = Records)
  BY <1>1, FS_Subset
<1>3. Cardinality(S) \in Nat /\ (Cardinality(S) = 0 <=> S = {})
  BY <1>2, FS_CardinalityType, FS_EmptySet
<1>4. Count(answer, status) = Cardinality(S)
  BY DEF Count
<1>5. QED
  BY <1>2, <1>3, <1>4

\* What a verification finds tells one story.
LEMMA VerifiedMatches ==
  ASSUME NEW answer \in Answers, domain = Verified(answer)
  PROVE  /\ domain.status = "ready" <=> \A r \in Records : domain.record[r] = "configured"
         /\ domain.status = "failed" <=> \E r \in Records : domain.record[r] = "failed"
         /\ domain.status = "dns_partial" => \E r \in Records : domain.record[r] = "configured"
<1>1. domain.record = answer /\ domain.status = Lifecycle(answer)
  BY DEF Verified
<1>2. "mx" \in Records
  BY DEF Records
<1>3. Lifecycle(answer) =
        IF \E r \in Records : answer[r] = "failed" THEN "failed"
        ELSE IF \A r \in Records : answer[r] = "configured" THEN "ready"
        ELSE IF \E r \in Records : answer[r] = "configured" THEN "dns_partial"
        ELSE "local_only"
  BY CountTells DEF Lifecycle
<1>4. QED
  BY <1>1, <1>2, <1>3

\* Status and records of a domain tell one story unless two verifications
\* overlapped.
THEOREM DomainStatusMatches == Spec => []StatusMatchesRecords
<1>1. Init => DomainInv
  BY DEF Init, DomainInv
<1>2. TypeOK /\ DomainInv => StatusMatchesRecords
  <2> SUFFICES ASSUME DomainInv, ~torn PROVE StatusMatchesRecords
    BY DEF StatusMatchesRecords
  <2>1. CASE domain = Created
    <3>1. domain.status = "pending" /\ \A r \in Records : domain.record[r] = "pending"
      BY <2>1 DEF Created
    <3>2. "mx" \in Records
      BY DEF Records
    <3>3. QED
      BY <3>1, <3>2 DEF StatusMatchesRecords
  <2>2. ASSUME NEW answer \in Answers, domain = Verified(answer) PROVE StatusMatchesRecords
    BY <2>2, VerifiedMatches DEF StatusMatchesRecords
  <2>3. QED
    BY <2>1, <2>2 DEF DomainInv
<1>3. QED
  BY InitTypeOK, StepTypeOK, StepDomain, <1>1, <1>2, PTL DEF Spec

\* What taking turns would give: no two verifications of the domain at once.
OneVerificationAtATime ==
  \A p, q \in Clients : pc[p] = "resolving" /\ pc[q] = "resolving" => p = q

StatusMatchesAlways ==
  /\ domain.status = "ready" <=> \A r \in Records : domain.record[r] = "configured"
  /\ domain.status = "failed" <=> \E r \in Records : domain.record[r] = "failed"
  /\ domain.status = "dns_partial" => \E r \in Records : domain.record[r] = "configured"

Undisturbed == ~torn /\ overtaken = {}

LEMMA StepUndisturbed ==
  ASSUME Undisturbed, OneVerificationAtATime, [Next]_vars
  PROVE  Undisturbed'
<1> USE DEF Undisturbed
<1>1. ASSUME NEW p \in Clients, NEW answer \in Answers, VerifyCommit(p, answer)
      PROVE  Undisturbed'
  <2>1. pc[p] = "resolving" /\ torn' = (p \in overtaken)
        /\ overtaken' = overtaken \cup {q \in Clients \ {p} : pc[q] = "resolving"}
    BY <1>1 DEF VerifyCommit
  <2>2. {q \in Clients \ {p} : pc[q] = "resolving"} = {}
    BY <2>1 DEF OneVerificationAtATime
  <2>3. overtaken' = {}
    BY <2>1, <2>2
  <2>4. ~(p \in overtaken)
    OBVIOUS
  <2>5. ~torn'
    BY <2>1, <2>4, Zenon
  <2>6. QED
    BY <2>3, <2>5
<1>2. CASE Diagnose
  BY <1>2 DEF Diagnose, Diagnosed
<1>3. ASSUME UNCHANGED <<torn, overtaken>> PROVE Undisturbed'
  BY <1>3
<1>4. ASSUME NEW p \in Clients, Verify(p) PROVE Undisturbed'
  <2>1. torn' = torn /\ overtaken' = overtaken \ {p}
    BY <1>4 DEF Verify
  <2>2. QED
    BY <2>1
<1>5. ASSUME NEW p \in Clients, \/ Preflight(p) \/ Recorded(p) \/ Enforced(p) \/ Start(p)
                                \/ SetStatus(p) \/ DryRun(p) \/ StartCommit(p) \/ StartGivesUp(p)
      PROVE  UNCHANGED <<torn, overtaken>>
  BY <1>5, Zenon DEF Preflight, Recorded, Enforced, Start, SetStatus, DryRun, StartCommit, StartGivesUp
<1>6. CASE UNCHANGED vars
  BY <1>3, <1>6 DEF vars
<1>7. QED
  BY <1>1, <1>2, <1>3, <1>4, <1>5, <1>6 DEF Next

\* Where a domain is verified once at a time, status and records tell one story
\* without exception.
THEOREM VerificationsInTurnMatch == Spec /\ []OneVerificationAtATime => []StatusMatchesAlways
<1>1. Init => Undisturbed
  BY DEF Init, Undisturbed
<1>2. Undisturbed /\ OneVerificationAtATime /\ [Next]_vars => Undisturbed'
  BY StepUndisturbed
<1>3. Undisturbed /\ StatusMatchesRecords => StatusMatchesAlways
  BY DEF Undisturbed, StatusMatchesRecords, StatusMatchesAlways
<1>4. QED
  BY <1>1, <1>2, <1>3, DomainStatusMatches, PTL DEF Spec

-----------------------------------------------------------------------------
(* A refused campaign is not active.                                       *)

\* A report is computed from these rows and nothing else.
LEMMA ReportIsOfItsInputs ==
  ASSUME UNCHANGED <<domain, mailbox, lead, provider, strict>>
  PROVE  CampaignReport' = CampaignReport
BY DEF CampaignReport, CampaignChecks, MailboxReport, MailboxChecks, DomainReport, DomainChecks,
   VisibilityCheck, RecordCheck, ProviderCheck, SmtpCheck, ImapCheck, WarmupCheck, SendCheck,
   With, Mailable, Scheduled

\* Where the report stands whose request has not been outdated.
ReportInv ==
  /\ refused => campaign # "active" /\ CampaignReport = "blocked"
  /\ \A p \in Clients \ outdated :
       /\ p \in blockedAt /\ pc[p] \in {"preflight", "pausing"} => CampaignReport = "blocked"
       /\ pc[p] = "preflight" /\ CampaignReport = "blocked" => p \in found
       /\ pc[p] = "starting" => CampaignReport # "blocked"

\* Whatever a report reads changes: no report under way stands any longer.
LEMMA ChangedReport ==
  ASSUME ReportInv, Changed, UNCHANGED <<blockedAt, found>>,
         \A p \in Clients : pc'[p] \in {"preflight", "pausing", "starting"} => pc'[p] = pc[p]
  PROVE  ReportInv'
BY DEF Changed, Reporting, ReportInv

LEMMA StepReport == TypeOK /\ ReportInv /\ [Next]_vars => ReportInv'
<1> SUFFICES ASSUME TypeOK, ReportInv, [Next]_vars PROVE ReportInv'
  OBVIOUS
<1>1. CASE UNCHANGED vars
  BY <1>1, ReportIsOfItsInputs DEF vars, ReportInv
<1>2. CASE Diagnose
  BY <1>2, ChangedReport DEF Diagnose, Diagnosed
<1>3. ASSUME NEW p \in Clients, Verify(p) PROVE ReportInv'
  BY <1>3, ReportIsOfItsInputs DEF Verify, ReportInv, TypeOK
<1>4. ASSUME NEW p \in Clients, NEW answer \in Answers, VerifyCommit(p, answer) PROVE ReportInv'
  BY <1>4, ChangedReport DEF VerifyCommit, TypeOK
<1>5. ASSUME NEW p \in Clients, Preflight(p) PROVE ReportInv'
  <2>1. CampaignReport' = CampaignReport
    BY <1>5, ReportIsOfItsInputs DEF Preflight
  <2>2. /\ pc'[p] = "preflight" /\ \A q \in Clients \ {p} : pc'[q] = pc[q]
        /\ p \in blockedAt' => CampaignReport = "blocked"
        /\ CampaignReport = "blocked" => p \in found'
        /\ \A q \in Clients \ {p} : (q \in blockedAt' <=> q \in blockedAt)
                                    /\ (q \in found' <=> q \in found)
        /\ outdated' = outdated \ {p} /\ campaign' = campaign /\ refused' = refused
    BY <1>5 DEF Preflight, TypeOK
  <2>3. QED
    BY <2>1, <2>2 DEF ReportInv
<1>6. ASSUME NEW p \in Clients, Recorded(p) PROVE ReportInv'
  <2>1. CampaignReport' = CampaignReport
    BY <1>6, ReportIsOfItsInputs DEF Recorded
  <2>2. CASE p \in found /\ campaign = "active"
    BY <1>6, <2>1, <2>2 DEF Recorded, ReportInv, TypeOK
  <2>3. CASE ~(p \in found /\ campaign = "active")
    <3>1. Refuses(p) => CampaignReport = "blocked" /\ campaign # "active"
      BY <1>6, <2>3 DEF Refuses, ReportInv, Recorded, TypeOK
    <3>2. QED
      BY <1>6, <2>1, <2>3, <3>1 DEF Recorded, ReportInv, TypeOK
  <2>4. QED
    BY <2>2, <2>3
<1>7. ASSUME NEW p \in Clients, Enforced(p) PROVE ReportInv'
  <2>1. CampaignReport' = CampaignReport
    BY <1>7, ReportIsOfItsInputs DEF Enforced
  <2>2. Refuses(p) => CampaignReport = "blocked"
    BY <1>7 DEF Refuses, ReportInv, Enforced
  <2>3. QED
    BY <1>7, <2>1, <2>2 DEF Enforced, ReportInv, TypeOK
<1>8. ASSUME NEW p \in Clients, Start(p) PROVE ReportInv'
  <2>1. CASE lead' = lead
    BY <1>8, <2>1, ReportIsOfItsInputs DEF Start, ReportInv, TypeOK
  <2>2. CASE lead' # lead
    BY <1>8, <2>2, ChangedReport DEF Start, TypeOK
  <2>3. QED
    BY <2>1, <2>2
<1>9. ASSUME NEW p \in Clients, DryRun(p) PROVE ReportInv'
  <2>1. CampaignReport' = CampaignReport
    BY <1>9, ReportIsOfItsInputs DEF DryRun
  <2>2. QED
    BY <1>9, <2>1 DEF DryRun, ReportInv, TypeOK
<1>10. ASSUME NEW p \in Clients, StartCommit(p) PROVE ReportInv'
  <2>1. CampaignReport' = CampaignReport
    BY <1>10, ReportIsOfItsInputs DEF StartCommit
  <2>2. ~refused'
    BY <1>10 DEF StartCommit, ReportInv
  <2>3. QED
    BY <1>10, <2>1, <2>2 DEF StartCommit, ReportInv, TypeOK
<1>11. ASSUME NEW p \in Clients, StartGivesUp(p) PROVE ReportInv'
  BY <1>11, ReportIsOfItsInputs DEF StartGivesUp, ReportInv, TypeOK
<1>12. ASSUME NEW p \in Clients, SetStatus(p) PROVE ReportInv'
  <2>1. CampaignReport' = CampaignReport
    BY <1>12, ReportIsOfItsInputs DEF SetStatus
  <2>2. campaign' # "active"
    BY <1>12 DEF SetStatus
  <2>3. QED
    BY <1>12, <2>1, <2>2 DEF SetStatus, ReportInv
<1>13. QED
  BY <1>1, <1>2, <1>3, <1>4, <1>5, <1>6, <1>7, <1>8, <1>9, <1>10, <1>11, <1>12 DEF Next

\* "Launch blocked": a campaign whose report a preflight found blocked is not active
\* while nothing the report reads changes, but for a start whose own report was
\* older than the change.
THEOREM RefusedStaysInactive == Spec => []RefusedIsNotActive
<1>1. Init => ReportInv
  BY DEF Init, ReportInv
<1>2. ReportInv => RefusedIsNotActive
  BY DEF ReportInv, RefusedIsNotActive
<1>3. QED
  BY InitTypeOK, StepTypeOK, StepReport, <1>1, <1>2, PTL DEF Spec

\* What holding the rows of a report until the start commits would give.
StartsAreCurrent == \A p \in Clients \cap outdated : pc[p] # "starting"

\* No step makes a campaign active whose report is blocked by then.
OnlyUnblockedBecomeActive ==
  campaign # "active" /\ campaign' = "active" => CampaignReport # "blocked"

LEMMA StepActivates ==
  ReportInv /\ StartsAreCurrent /\ [Next]_vars => OnlyUnblockedBecomeActive
<1> SUFFICES ASSUME ReportInv, StartsAreCurrent, [Next]_vars, campaign # "active",
                    campaign' = "active"
             PROVE  CampaignReport # "blocked"
  BY DEF OnlyUnblockedBecomeActive
<1>1. ASSUME NEW p \in Clients, StartCommit(p) PROVE CampaignReport # "blocked"
  BY <1>1 DEF StartCommit, StartsAreCurrent, ReportInv
<1>2. ASSUME NEW p \in Clients, Enforced(p) \/ SetStatus(p) PROVE FALSE
  BY <1>2 DEF Enforced, SetStatus
<1>3. ASSUME campaign' = campaign PROVE FALSE
  BY <1>3
<1>4. ASSUME NEW p \in Clients, Verify(p) \/ (\E answer \in Answers : VerifyCommit(p, answer))
      PROVE  campaign' = campaign
  BY <1>4 DEF Verify, VerifyCommit, Changed
<1>5. ASSUME NEW p \in Clients, \/ Preflight(p) \/ Recorded(p) \/ Start(p) \/ DryRun(p)
                                \/ StartGivesUp(p)
      PROVE  campaign' = campaign
  <2>1. CASE Preflight(p)
    BY <2>1, Zenon DEF Preflight
  <2>2. CASE Recorded(p)
    BY <2>2, Zenon DEF Recorded
  <2>3. CASE Start(p)
    BY <2>3, Zenon DEF Start
  <2>4. CASE DryRun(p)
    BY <2>4, Zenon DEF DryRun
  <2>5. CASE StartGivesUp(p)
    BY <2>5, Zenon DEF StartGivesUp
  <2>6. QED
    BY <1>5, <2>1, <2>2, <2>3, <2>4, <2>5
<1>6. CASE Diagnose
  BY <1>3, <1>6 DEF Diagnose, Diagnosed
<1>7. CASE UNCHANGED vars
  BY <1>3, <1>7 DEF vars
<1>8. QED
  BY <1>1, <1>2, <1>3, <1>4, <1>5, <1>6, <1>7 DEF Next

\* Where nothing a report reads changes between a start's dry run and its commit,
\* a campaign only ever becomes active with a report that is not blocked, whatever
\* else is started, paused, restored, verified or edited meanwhile.
THEOREM StartsInTimeAreUnblocked ==
  Spec /\ []StartsAreCurrent => [][OnlyUnblockedBecomeActive]_vars
<1>1. Init => ReportInv
  BY DEF Init, ReportInv
<1>2. ReportInv /\ StartsAreCurrent /\ [Next]_vars => [OnlyUnblockedBecomeActive]_vars
  BY StepActivates
<1>3. QED
  BY InitTypeOK, StepTypeOK, StepReport, <1>1, <1>2, PTL DEF Spec

-----------------------------------------------------------------------------
(* Trouble shows all the way up.                                           *)

Trouble ==
  \/ domain.record["mx"] \in {"missing", "failed"} \/ domain.status = "failed"
  \/ ~mailbox.active \/ ~mailbox.oauth \/ mailbox.smtp = "failed" \/ provider = "disabled"

LEMMA OneFailureBlocks ==
  ASSUME NEW checks, NEW c \in DOMAIN checks, checks[c] = "fail"
  PROVE  StatusOf(checks) = "blocked"
BY DEF StatusOf

LEMMA DomainTroubleBlocks ==
  ASSUME StatusOf(DomainChecks) = "blocked"
  PROVE  MailboxReport = "blocked"
<1>1. "domain" \in DOMAIN MailboxChecks /\ MailboxChecks["domain"] = "fail"
  BY DEF MailboxChecks, DomainReport, LinkCheck
<1>2. QED
  BY <1>1, OneFailureBlocks DEF MailboxReport

LEMMA TroubleBlocksMailbox == Trouble => MailboxReport = "blocked"
<1> SUFFICES ASSUME Trouble PROVE MailboxReport = "blocked"
  OBVIOUS
<1> DEFINE codes == {"active", "provider", "oauth", "smtp", "imap", "warmup", "sends", "domain"}
<1>1. DOMAIN MailboxChecks = codes
  BY DEF MailboxChecks
<1>2. CASE domain.record["mx"] \in {"missing", "failed"} \/ domain.status = "failed"
  <2>1. DOMAIN DomainChecks = Records \cup {"bimi", "visibility"}
    BY DEF DomainChecks
  <2>2. CASE domain.record["mx"] \in {"missing", "failed"}
    <3>1. "mx" \in Records /\ DomainChecks["mx"] = "fail"
      BY <2>2 DEF DomainChecks, RecordCheck, Records
    <3>2. QED
      BY <2>1, <3>1, OneFailureBlocks, DomainTroubleBlocks
  <2>3. CASE domain.status = "failed"
    <3>1. DomainChecks["visibility"] = "fail"
      BY <2>3 DEF DomainChecks, VisibilityCheck, Records
    <3>2. QED
      BY <2>1, <3>1, OneFailureBlocks, DomainTroubleBlocks
  <2>4. QED
    BY <1>2, <2>2, <2>3
<1>3. CASE ~mailbox.active
  <2>1. MailboxChecks["active"] = "fail"
    BY <1>3 DEF MailboxChecks
  <2>2. QED
    BY <1>1, <2>1, OneFailureBlocks DEF MailboxReport
<1>4. CASE ~mailbox.oauth
  <2>1. MailboxChecks["oauth"] = "fail"
    BY <1>4 DEF MailboxChecks
  <2>2. QED
    BY <1>1, <2>1, OneFailureBlocks DEF MailboxReport
<1>5. CASE mailbox.smtp = "failed"
  <2>1. MailboxChecks["smtp"] = "fail"
    BY <1>5 DEF MailboxChecks, SmtpCheck
  <2>2. QED
    BY <1>1, <2>1, OneFailureBlocks DEF MailboxReport
<1>6. CASE provider = "disabled"
  <2>1. MailboxChecks["provider"] = "fail"
    BY <1>6 DEF MailboxChecks, ProviderCheck
  <2>2. QED
    BY <1>1, <2>1, OneFailureBlocks DEF MailboxReport
<1>7. QED
  BY <1>2, <1>3, <1>4, <1>5, <1>6 DEF Trouble

LEMMA BlockedMailboxBlocks == MailboxReport = "blocked" => CampaignReport = "blocked"
<1>1. "mailbox" \in DOMAIN CampaignChecks
  BY DEF CampaignChecks
<1>2. MailboxReport = "blocked" => CampaignChecks["mailbox"] = "fail"
  BY DEF CampaignChecks, LinkCheck
<1>3. QED
  BY <1>1, <1>2, OneFailureBlocks DEF CampaignReport

\* The overview is the worst of its sections.
LEMMA OneSectionBlocks ==
  ASSUME NEW k \in 1 .. 6, Sections[k] = "blocked"
  PROVE  Overview = "blocked"
<1> DEFINE worst(i) == \A j \in DOMAIN Sections : Order(Sections[j]) <= Order(Sections[i])
           first(i) == worst(i) /\ \A j \in 1 .. i - 1 : ~worst(j)
           i0 == CHOOSE i \in DOMAIN Sections : first(i)
<1>1. DOMAIN Sections = 1 .. 6
  BY DEF Sections
<1>2. \A status : Order(status) \in 0 .. 3 /\ (Order(status) = 3 <=> status = "blocked")
  BY DEF Order
<1>3. worst(k)
  BY <1>1, <1>2
<1>4. \E i \in 1 .. 6 : first(i)
  <2> HIDE DEF worst
  <2>1. CASE worst(1)
    BY <2>1
  <2>2. CASE ~worst(1) /\ worst(2)
    BY <2>2
  <2>3. CASE ~worst(1) /\ ~worst(2) /\ worst(3)
    BY <2>3
  <2>4. CASE ~worst(1) /\ ~worst(2) /\ ~worst(3) /\ worst(4)
    BY <2>4
  <2>5. CASE ~worst(1) /\ ~worst(2) /\ ~worst(3) /\ ~worst(4) /\ worst(5)
    BY <2>5
  <2>6. CASE ~worst(1) /\ ~worst(2) /\ ~worst(3) /\ ~worst(4) /\ ~worst(5)
    BY <1>3, <2>6
  <2>7. QED
    BY <2>1, <2>2, <2>3, <2>4, <2>5, <2>6
<1>5. i0 \in 1 .. 6 /\ worst(i0)
  <2> HIDE DEF worst
  <2>1. QED
    BY <1>1, <1>4
<1>6. Order(Sections[k]) <= Order(Sections[i0])
  BY <1>1, <1>5
<1>7. Sections[i0] = "blocked"
  BY <1>2, <1>6
<1>8. QED
  BY <1>7 DEF Overview

\* Trouble with the domain's MX record, the mailbox or its provider blocks the
\* overview; a preflight finds fault while it stands and no start gets past its dry
\* run.
THEOREM TroubleIsShown == Spec => []TroubleShows
<1>1. Init => ReportInv
  BY DEF Init, ReportInv
<1>2. ReportInv => TroubleShows
  <2> SUFFICES ASSUME ReportInv, Trouble
               PROVE  /\ Overview = "blocked"
                      /\ \A p \in Clients \ outdated :
                           pc[p] # "starting" /\ (pc[p] = "preflight" => p \in found)
    BY DEF TroubleShows, Trouble
  <2>1. MailboxReport = "blocked" /\ CampaignReport = "blocked"
    BY TroubleBlocksMailbox, BlockedMailboxBlocks
  <2>2. Sections[2] = "blocked"
    BY <2>1 DEF Sections
  <2>3. Overview = "blocked"
    BY <2>2, OneSectionBlocks
  <2>4. QED
    BY <2>1, <2>3 DEF ReportInv
<1>3. QED
  BY InitTypeOK, StepTypeOK, StepReport, <1>1, <1>2, PTL DEF Spec

-----------------------------------------------------------------------------
(* A full score means ready.                                               *)

LEMMA QuotientOf ==
  ASSUME NEW a \in Nat, NEW b \in Nat \ {0}
  PROVE  LET q == a \div b IN q \in Nat /\ b * q <= a /\ a < b * q + b
OBVIOUS

LEMMA ProductGrows ==
  ASSUME NEW b \in Nat \ {0}, NEW q \in Nat, NEW k \in Nat, k <= q
  PROVE  b * k <= b * q
OBVIOUS

LEMMA QuotientReaches ==
  ASSUME NEW a \in Nat, NEW b \in Nat \ {0}, NEW k \in Nat
  PROVE  a \div b \in Nat /\ (a \div b >= k <=> a >= b * k)
<1> DEFINE q == a \div b
<1>1. q \in Nat /\ b * q <= a /\ a < b * q + b
  BY QuotientOf
<1> HIDE DEF q
<1>2. q >= k => b * k <= b * q
  BY <1>1, ProductGrows
<1>3. ~(q >= k) => b * (q + 1) <= b * k
  <2>1. q + 1 \in Nat /\ (~(q >= k) => q + 1 <= k)
    BY <1>1
  <2>2. QED
    BY <2>1, ProductGrows
<1>4. b * (q + 1) = b * q + b
  BY <1>1
<1>5. b * k \in Nat /\ b * q \in Nat
  BY <1>1
<1>6. q >= k <=> a >= b * k
  BY <1>1, <1>2, <1>3, <1>4, <1>5
<1>7. QED
  BY <1>1, <1>6 DEF q

LEMMA FourAreFinite == ASSUME NEW a, NEW b, NEW c, NEW d PROVE IsFiniteSet({a, b, c, d})
<1>1. IsFiniteSet({a}) /\ IsFiniteSet({b}) /\ IsFiniteSet({c}) /\ IsFiniteSet({d})
  BY FS_Singleton
<1>2. IsFiniteSet({a} \cup {b}) /\ IsFiniteSet({c} \cup {d})
  BY <1>1, FS_Union
<1>3. IsFiniteSet(({a} \cup {b}) \cup ({c} \cup {d}))
  BY <1>2, FS_Union
<1>4. {a, b, c, d} = ({a} \cup {b}) \cup ({c} \cup {d})
  OBVIOUS
<1>5. QED
  BY <1>3, <1>4

LEMMA UnionIsFinite ==
  ASSUME NEW A, IsFiniteSet(A), NEW B, IsFiniteSet(B)
  PROVE  IsFiniteSet(A \cup B)
BY FS_Union

LEMMA DisjointSizes ==
  ASSUME NEW A, IsFiniteSet(A), NEW B, IsFiniteSet(B), A \cap B = {}
  PROVE  IsFiniteSet(A \cup B) /\ Cardinality(A \cup B) = Cardinality(A) + Cardinality(B)
<1>1. IsFiniteSet(A \cup B)
      /\ Cardinality(A \cup B) = Cardinality(A) + Cardinality(B) - Cardinality(A \cap B)
  BY FS_Union
<1>2. Cardinality(A \cap B) = 0
  BY FS_EmptySet
<1>3. Cardinality(A) \in Nat /\ Cardinality(B) \in Nat
  BY FS_CardinalityType
<1>4. QED
  BY <1>1, <1>2, <1>3

Outcomes == {"pass", "note", "warning", "fail"}

\* Each check of a report has one outcome.
LEMMA TalliesAddUp ==
  ASSUME NEW checks, IsFiniteSet(DOMAIN checks), \A c \in DOMAIN checks : checks[c] \in Outcomes
  PROVE  /\ \A o \in Outcomes : /\ Tally(checks, o) \in Nat
                                /\ Tally(checks, o) = 0 <=> ~\E c \in DOMAIN checks : checks[c] = o
         /\ Cardinality(DOMAIN checks) = Tally(checks, "pass") + Tally(checks, "note")
                                         + Tally(checks, "warning") + Tally(checks, "fail")
<1> DEFINE S(o) == {c \in DOMAIN checks : checks[c] = o}
<1>1. ASSUME NEW o PROVE /\ IsFiniteSet(S(o)) /\ Tally(checks, o) = Cardinality(S(o))
                         /\ Tally(checks, o) \in Nat
                         /\ Tally(checks, o) = 0 <=> S(o) = {}
  <2>1. IsFiniteSet(S(o))
    BY FS_Subset
  <2>2. QED
    BY <2>1, FS_CardinalityType, FS_EmptySet DEF Tally
<1> DEFINE light == S("pass") \cup S("note")
           heavy == S("warning") \cup S("fail")
<1>2. S("pass") \cap S("note") = {} /\ S("warning") \cap S("fail") = {} /\ light \cap heavy = {}
  OBVIOUS
<1>3. DOMAIN checks = light \cup heavy
  BY DEF Outcomes
<1>4. IsFiniteSet(S("pass")) /\ IsFiniteSet(S("note")) /\ IsFiniteSet(S("warning")) /\ IsFiniteSet(S("fail"))
  BY <1>1
<1>5. /\ Cardinality(S("pass")) = Tally(checks, "pass") /\ Cardinality(S("note")) = Tally(checks, "note")
      /\ Cardinality(S("warning")) = Tally(checks, "warning")
      /\ Cardinality(S("fail")) = Tally(checks, "fail")
  BY <1>1
<1> HIDE DEF S
<1>6. IsFiniteSet(light) /\ Cardinality(light) = Tally(checks, "pass") + Tally(checks, "note")
  BY <1>2, <1>4, <1>5, DisjointSizes
<1>7. IsFiniteSet(heavy) /\ Cardinality(heavy) = Tally(checks, "warning") + Tally(checks, "fail")
  BY <1>2, <1>4, <1>5, DisjointSizes
<1> HIDE DEF light, heavy
<1>8. Cardinality(light \cup heavy) = Cardinality(light) + Cardinality(heavy)
  BY <1>2, <1>6, <1>7, DisjointSizes
<1>9. Cardinality(DOMAIN checks) = Tally(checks, "pass") + Tally(checks, "note")
                                   + Tally(checks, "warning") + Tally(checks, "fail")
  BY <1>1, <1>3, <1>6, <1>7, <1>8
<1>10. QED
  BY <1>1, <1>9 DEF S, Outcomes

\* What a score says of any report of which a check counts.
LEMMA ScoreSays ==
  ASSUME NEW checks, IsFiniteSet(DOMAIN checks), \A c \in DOMAIN checks : checks[c] \in Outcomes,
         \E c \in DOMAIN checks : checks[c] # "note"
  PROVE  /\ ScoreOf(checks) = 100 <=> StatusOf(checks) = "ready"
         /\ StatusOf(checks) # "blocked" => ScoreOf(checks) >= 60
<1> DEFINE good == Tally(checks, "pass")
           bad == Tally(checks, "warning")
           worse == Tally(checks, "fail")
           a == 100 * (10 * good + 6 * bad)
           b == 10 * (good + bad + worse)
<1>1. good \in Nat /\ bad \in Nat /\ worse \in Nat /\ Tally(checks, "note") \in Nat
  BY TalliesAddUp DEF Outcomes
<1>2. good + bad + worse # 0
  <2>1. PICK c \in DOMAIN checks : checks[c] \in Outcomes \ {"note"}
    OBVIOUS
  <2>2. Tally(checks, checks[c]) # 0
    BY <2>1, TalliesAddUp
  <2>3. QED
    BY <1>1, <2>1, <2>2 DEF Outcomes
<1>3. Cardinality(DOMAIN checks) - Tally(checks, "note") = good + bad + worse
  BY <1>1, TalliesAddUp
<1>4. ScoreOf(checks) = a \div b
  BY <1>3 DEF ScoreOf
<1>5. (StatusOf(checks) = "ready" <=> bad = 0 /\ worse = 0)
      /\ (StatusOf(checks) # "blocked" => worse = 0)
  BY TalliesAddUp DEF StatusOf, Outcomes
<1> HIDE DEF good, bad, worse
<1>6. a \in Nat /\ b \in Nat \ {0}
  BY <1>1, <1>2
<1> DEFINE q == a \div b
<1>7. /\ q \in Nat /\ (q >= 100 <=> a >= b * 100)
      /\ (q >= 101 <=> a >= b * 101) /\ (q >= 60 <=> a >= b * 60)
  <2> HIDE DEF a, b
  <2>1. QED
    BY <1>6, QuotientReaches
<1>8. a < b * 101
  BY <1>1, <1>2
<1>9. (a >= b * 100) <=> (bad = 0 /\ worse = 0)
  BY <1>1, <1>2
<1>10. worse = 0 => a >= b * 60
  BY <1>1, <1>2
<1> HIDE DEF a, b
<1>11. a \in Nat /\ b * 101 \in Nat
  BY <1>6
<1>12. (q = 100 <=> q >= 100) /\ (worse = 0 => q >= 60)
  BY <1>7, <1>8, <1>10, <1>11
<1>13. QED
  BY <1>4, <1>5, <1>7, <1>9, <1>12

\* At each of the levels a score is full exactly when the report is ready, and one
\* that is not blocked scores at least what a warning is worth.
THEOREM ScoresTellReady == Spec => []ScoreTellsReady
<1>1. /\ IsFiniteSet(DOMAIN DomainChecks) /\ \A c \in DOMAIN DomainChecks : DomainChecks[c] \in Outcomes
      /\ \E c \in DOMAIN DomainChecks : DomainChecks[c] # "note"
  <2>1. DOMAIN DomainChecks = {"mx", "spf", "dkim", "dmarc"} \cup {"bimi", "visibility", "bimi", "bimi"}
    BY DEF DomainChecks, Records
  <2>2. IsFiniteSet(DOMAIN DomainChecks)
    <3>1. IsFiniteSet({"mx", "spf", "dkim", "dmarc"}) /\ IsFiniteSet({"bimi", "visibility", "bimi", "bimi"})
      BY FourAreFinite
    <3>2. QED
      BY <2>1, <3>1, UnionIsFinite
  <2>3. \A c \in DOMAIN DomainChecks : DomainChecks[c] \in Outcomes
    BY DEF DomainChecks, RecordCheck, VisibilityCheck, Outcomes
  <2>4. "mx" \in DOMAIN DomainChecks /\ DomainChecks["mx"] # "note"
    BY DEF DomainChecks, RecordCheck, Records
  <2>5. QED
    BY <2>2, <2>3, <2>4
<1>2. /\ IsFiniteSet(DOMAIN MailboxChecks) /\ \A c \in DOMAIN MailboxChecks : MailboxChecks[c] \in Outcomes
      /\ \E c \in DOMAIN MailboxChecks : MailboxChecks[c] # "note"
  <2>1. DOMAIN MailboxChecks = {"active", "provider", "oauth", "smtp"}
                               \cup {"imap", "warmup", "sends", "domain"}
    BY DEF MailboxChecks
  <2>2. IsFiniteSet(DOMAIN MailboxChecks)
    <3>1. IsFiniteSet({"active", "provider", "oauth", "smtp"})
          /\ IsFiniteSet({"imap", "warmup", "sends", "domain"})
      BY FourAreFinite
    <3>2. QED
      BY <2>1, <3>1, UnionIsFinite
  <2>3. \A c \in DOMAIN MailboxChecks : MailboxChecks[c] \in Outcomes
    BY DEF MailboxChecks, ProviderCheck, SmtpCheck, ImapCheck, WarmupCheck, SendCheck, LinkCheck, Outcomes
  <2>4. "active" \in DOMAIN MailboxChecks /\ MailboxChecks["active"] # "note"
    BY DEF MailboxChecks
  <2>5. QED
    BY <2>2, <2>3, <2>4
<1>3. /\ IsFiniteSet(DOMAIN CampaignChecks) /\ \A c \in DOMAIN CampaignChecks : CampaignChecks[c] \in Outcomes
      /\ \E c \in DOMAIN CampaignChecks : CampaignChecks[c] # "note"
  <2>1. DOMAIN CampaignChecks \subseteq {"mailbox", "eligible", "risky", "hygiene"}
    BY DEF CampaignChecks
  <2>2. IsFiniteSet(DOMAIN CampaignChecks)
    BY <2>1, FourAreFinite, FS_Subset
  <2>3. \A c \in DOMAIN CampaignChecks : CampaignChecks[c] \in Outcomes
    BY DEF CampaignChecks, LinkCheck, Outcomes
  <2>4. "mailbox" \in DOMAIN CampaignChecks /\ CampaignChecks["mailbox"] # "note"
    BY DEF CampaignChecks, LinkCheck
  <2>5. QED
    BY <2>2, <2>3, <2>4
<1>4. ScoreTellsReady
  BY <1>1, <1>2, <1>3, ScoreSays DEF ScoreTellsReady
<1>5. QED
  BY <1>4, PTL

=============================================================================
