---------------------------- MODULE Suppression ----------------------------
(***************************************************************************)
(* The suppression list and the contacts it must keep out of every         *)
(* campaign: the handlers that suppress and release addresses, and the     *)
(* verification whose verdict decides who is eligible.                     *)
(*                                                                         *)
(* A request reads rows, computes, and commits.  The isolation is READ     *)
(* COMMITTED and nothing is locked; the ORM writes only the columns whose  *)
(* value differs from the one it loaded.                                   *)
(***************************************************************************)
EXTENDS Integers, FiniteSets

CONSTANTS
  Emails,      \* normalised addresses; a contact is identified by its address
  Clients,     \* threads that serve HTTP requests
  Workers,     \* threads that run bulk verifications
  BadSyntax,   \* addresses the import accepts and verification's regex does not
  Disposable,  \* addresses at a disposable domain
  RoleBased,   \* addresses such as info@
  NoContact,   \* no row in contacts
  Kinds,       \* contact types in use, "any" for none and mixed
  MaxOps       \* bound: requests

Procs == Clients \cup Workers
Scores == 0 .. 100
Verdicts == {"valid", "risky", "invalid", "no_mx", "disposable", "role_based", "duplicate",
             "suppressed"}
ContactRow == [suppressed : BOOLEAN, unsub : {"subscribed", "suppressed"},
               status : Verdicts \cup {"unverified"}, score : Scores,
               integrity : {"none", "low", "medium", "high"}]
Session == [on : SUBSET Emails, row : [Emails -> ContactRow \cup {NoContact}],
            known : SUBSET Emails]

ASSUME SuppressionAssumption ==
  /\ NoContact \notin ContactRow
  /\ Clients \cap Workers = {}
  /\ BadSyntax \cup Disposable \cup RoleBased \subseteq Emails
  /\ {"any"} \subseteq Kinds /\ Kinds \subseteq {"any", "b2b", "b2c"}
  /\ MaxOps \in Nat

VARIABLES
  \* the database
  contact,    \* contacts: address -> row or NoContact
  kind,       \* contacts.contact_type
  listed,     \* addresses with a row in suppression_list
  \* the sessions
  pc, sess,
  rowGone,    \* sessions whose suppression row was deleted since they loaded it
  \* history
  overtaken,  \* sessions one of whose addresses another session changed since they read it
  raced,      \* addresses last written by an overtaken session
  torn,       \* addresses whose verdict was last written by an overtaken session
  \* what is left of the bound
  ops

suppressionVars == <<contact, kind, listed, pc, sess, rowGone, overtaken, raced, torn, ops>>

Exists == {e \in Emails : contact[e] # NoContact}
Idle == [on |-> {}, row |-> [e \in Emails |-> NoContact], known |-> {}]

\* A request may come; ops bounds how many.
Request(p) == pc[p] = "idle" /\ ops > 0 /\ ops' = ops - 1

-----------------------------------------------------------------------------
(* Eligibility.                                                            *)

TypeAllowed(k, campaign) == k = "any" \/ k = campaign.type

\* consent_status is "unknown" in every contact: no code writes the column.
Evaluate(c, k, campaign) ==
  IF c.suppressed \/ c.status = "suppressed" THEN "suppressed"
  ELSE IF c.unsub = "suppressed" THEN "unsubscribed"
  ELSE IF ~TypeAllowed(k, campaign) THEN "type_mismatch"
  ELSE IF c.status \notin {"valid", "risky"} THEN c.status
  ELSE IF campaign.type = "b2c" /\ campaign.mode = "strict_b2c" THEN "consent_unknown"
  ELSE "eligible"

Campaigns == [type : {"b2b", "b2c"}, mode : {"standard", "strict_b2c"}]
MailableTo(e, campaign) ==
  contact[e] # NoContact /\ Evaluate(contact[e], kind[e], campaign) = "eligible"

-----------------------------------------------------------------------------
(* What verification makes of its checks.                                  *)

Flags == [syntax : BOOLEAN, domain : BOOLEAN, mx : BOOLEAN, disposable : BOOLEAN,
          roleBased : BOOLEAN, duplicate : BOOLEAN, suppressed : BOOLEAN]

If(cond, points) == IF cond THEN points ELSE 0

\* Mutant: the domain counts as much as the syntax and the exchanger together.
ScoreDomainTwice(f) == If(f.syntax, 20) + If(f.domain, 35) + If(f.mx, 20) + If(~f.disposable, 10)
            + If(~f.roleBased, 10) + If(~f.duplicate, 10) + If(~f.suppressed, 15)

Score(f) == If(f.syntax, 20) + If(f.domain, 15) + If(f.mx, 20) + If(~f.disposable, 10)
            + If(~f.roleBased, 10) + If(~f.duplicate, 10) + If(~f.suppressed, 15)

Clean(f) == ~(f.disposable \/ f.roleBased \/ f.duplicate \/ f.suppressed)

\* "medium" is never given: the clauses before it leave nothing.
Integrity(f) == IF Clean(f) /\ f.syntax /\ f.domain /\ f.mx THEN "high" ELSE "low"

\* Mutant: the score is looked at before the mail exchanger.
DetermineStatusByScore(f) ==
  CASE f.suppressed -> "suppressed"
    [] ~f.suppressed /\ f.duplicate -> "duplicate"
    [] OTHER -> IF Score(f) >= 80 THEN "valid" ELSE "risky"

DetermineStatus(f) ==
  IF f.suppressed THEN "suppressed"
  ELSE IF f.duplicate THEN "duplicate"
  ELSE IF f.disposable THEN "disposable"
  ELSE IF f.roleBased THEN "role_based"
  ELSE IF ~f.syntax THEN "invalid"
  ELSE IF ~f.mx THEN "no_mx"
  ELSE IF Score(f) >= 90 THEN "valid"
  ELSE "risky"

\* The regex demands a dot in the domain, so that an address with good syntax
\* has a good domain; the other checks are made of such an address only.
\* Addresses are unique and stored in lower case: there are no duplicates.
FlagsOf(e, mx, suppressed) ==
  LET good == e \notin BadSyntax
  IN [syntax |-> good, domain |-> good, mx |-> good /\ mx,
      disposable |-> good /\ e \in Disposable, roleBased |-> good /\ e \in RoleBased,
      duplicate |-> FALSE, suppressed |-> suppressed]

-----------------------------------------------------------------------------
(* Sessions.                                                               *)

\* p begins a request about the addresses in S, having read their contacts
\* and, but for a verification, their rows in the suppression list.
Begin(p, S, at, known) ==
  /\ pc' = [pc EXCEPT ![p] = at]
  /\ sess' = [sess EXCEPT ![p] =
                [on |-> S, row |-> [e \in Emails |-> IF e \in S THEN contact[e] ELSE NoContact],
                 known |-> known]]

\* p's commit, rollback or early return.
End(p) ==
  /\ pc' = [pc EXCEPT ![p] = "idle"]
  /\ sess' = [sess EXCEPT ![p] = Idle]

\* The sessions that read an address in S and are not p.
Others(p, S) == {q \in Procs \ {p} : sess[q].on \cap S # {}}

\* p changes something about the addresses in S and is done.
Overtakes(p, S) == overtaken' = (overtaken \cup Others(p, S)) \ {p}

\* A column keeps what others committed unless the session changed the value it loaded.
Column(loaded, new, now) == IF new # loaded THEN new ELSE now

Written(loaded, new, now) ==
  [suppressed |-> Column(loaded.suppressed, new.suppressed, now.suppressed),
   unsub |-> Column(loaded.unsub, new.unsub, now.unsub),
   status |-> Column(loaded.status, new.status, now.status),
   score |-> Column(loaded.score, new.score, now.score),
   integrity |-> Column(loaded.integrity, new.integrity, now.integrity)]

\* The table after p wrote New(row) to the contacts it loaded.
Store(p, New(_)) ==
  contact' = [e \in Emails |->
                IF sess[p].row[e] # NoContact
                THEN Written(sess[p].row[e], New(sess[p].row[e]), contact[e])
                ELSE contact[e]]

Flagged(row) == [row EXCEPT !.suppressed = TRUE, !.unsub = "suppressed"]
Released(row) == [row EXCEPT !.suppressed = FALSE, !.unsub = "subscribed"]

\* The suppression list is looked at after the contacts were loaded.
LookUp(p) ==
  /\ pc[p] \in {"bulk", "load"}
  /\ pc' = [pc EXCEPT ![p] = IF pc[p] = "bulk" THEN "suppress" ELSE "dns"]
  /\ sess' = [sess EXCEPT ![p].known = listed \cap sess[p].on]
  /\ UNCHANGED <<contact, kind, listed, rowGone, overtaken, raced, torn, ops>>

\* What an overtaken session leaves is not to be trusted; one that was not
\* overtaken puts list and flags in agreement.
Marks(p, S) == raced' = IF p \in overtaken THEN raced \cup S ELSE raced \ S

\* IntegrityError: nothing is written.
Rollback(p) ==
  /\ End(p)
  /\ rowGone' = rowGone \ {p}
  /\ overtaken' = overtaken \ {p}
  /\ UNCHANGED <<contact, kind, listed, raced, torn, ops>>

-----------------------------------------------------------------------------
(* The suppression handlers.                                               *)

\* POST /suppression: a listed address is refused with 400.
AddSuppression(p, e) ==
  /\ Request(p)
  /\ e \notin listed
  /\ Begin(p, {e}, "suppress", {})
  /\ UNCHANGED <<contact, kind, listed, rowGone, overtaken, raced, torn>>

\* POST /leads/bulk/suppress loads the contacts, then looks each of them up in
\* the list.
BulkSuppress(p, S) ==
  /\ Request(p)
  /\ S # {} /\ S \subseteq Exists
  /\ Begin(p, S, "bulk", {})
  /\ UNCHANGED <<contact, kind, listed, rowGone, overtaken, raced, torn>>

\* The addresses for which the session found no row get one.  If another
\* session was faster, email is not unique and everything is rolled back.
SuppressCommit(p) ==
  LET S == sess[p].on
      add == S \ sess[p].known
  IN /\ pc[p] = "suppress"
     /\ add \cap listed = {}
     /\ listed' = listed \cup add
     /\ Store(p, Flagged)
     /\ Marks(p, S)
     /\ Overtakes(p, S)
     /\ End(p)
     /\ UNCHANGED <<kind, rowGone, torn, ops>>

SuppressConflict(p) ==
  /\ pc[p] = "suppress"
  /\ (sess[p].on \ sess[p].known) \cap listed # {}
  /\ Rollback(p)

\* DELETE /suppression/{id}
Release(p, e) ==
  /\ Request(p)
  /\ e \in listed
  /\ Begin(p, {e}, "release", {e})
  /\ UNCHANGED <<contact, kind, listed, rowGone, overtaken, raced, torn>>

\* The row is deleted by its key: one that was deleted and made anew stays.
Deleted(p) == IF p \in rowGone THEN {} ELSE sess[p].on

\* Mutant: the contact keeps its flags.
ReleaseListOnly(p) ==
  /\ pc[p] = "release"
  /\ listed' = listed \ Deleted(p)
  /\ rowGone' = (rowGone \cup {q \in Others(p, Deleted(p)) : pc[q] = "release"}) \ {p}
  /\ Marks(p, sess[p].on)
  /\ Overtakes(p, sess[p].on)
  /\ End(p)
  /\ UNCHANGED <<contact, kind, torn, ops>>

\* email_status is left alone, so the contact stays blocked until it is
\* verified again.
ReleaseCommit(p) ==
  /\ pc[p] = "release"
  /\ listed' = listed \ Deleted(p)
  /\ Store(p, Released)
  /\ rowGone' = (rowGone \cup {q \in Others(p, Deleted(p)) : pc[q] = "release"}) \ {p}
  /\ Marks(p, sess[p].on)
  /\ Overtakes(p, sess[p].on)
  /\ End(p)
  /\ UNCHANGED <<kind, torn, ops>>

-----------------------------------------------------------------------------
(* Verification.                                                           *)

\* The contact is loaded, then the suppression list is looked at, then DNS
\* is asked, which takes seconds.
StartVerify(p, e) ==
  /\ e \in Exists
  /\ Begin(p, {e}, "load", {})
  /\ UNCHANGED <<contact, kind, listed, rowGone, overtaken, raced, torn>>

VerifiedAs(e, mx, suppressed, row) ==
  LET f == FlagsOf(e, mx, suppressed)
  IN [row EXCEPT !.suppressed = suppressed, !.status = DetermineStatus(f),
                 !.score = Score(f), !.integrity = Integrity(f)]

\* Mutant: the score stays what it was.
VerifyCommitUnscored(p, mx) ==
  LET As(row) == [VerifiedAs(CHOOSE e \in sess[p].on : TRUE, mx, sess[p].known # {}, row)
                    EXCEPT !.score = row.score]
  IN /\ pc[p] = "dns"
     /\ Store(p, As)
     /\ raced' = IF p \in overtaken THEN raced \cup sess[p].on ELSE raced
     /\ torn' = IF p \in overtaken THEN torn \cup sess[p].on ELSE torn \ sess[p].on
     /\ Overtakes(p, sess[p].on)
     /\ End(p)
     /\ UNCHANGED <<kind, listed, rowGone, ops>>

\* Mutant: the contact keeps its own suppression flag.
VerifyCommitForgetful(p, mx) ==
  LET As(row) == VerifiedAs(CHOOSE e \in sess[p].on : TRUE, mx, FALSE, row)
  IN /\ pc[p] = "dns"
     /\ Store(p, As)
     /\ raced' = IF p \in overtaken THEN raced \cup sess[p].on ELSE raced
     /\ torn' = IF p \in overtaken THEN torn \cup sess[p].on ELSE torn \ sess[p].on
     /\ Overtakes(p, sess[p].on)
     /\ End(p)
     /\ UNCHANGED <<kind, listed, rowGone, ops>>

\* mx is the answer of DNS; a timeout is taken for no.
VerifyCommit(p, mx) ==
  LET As(row) == VerifiedAs(CHOOSE e \in sess[p].on : TRUE, mx, sess[p].known # {}, row)
  IN /\ pc[p] = "dns"
     /\ Store(p, As)
     /\ raced' = IF p \in overtaken THEN raced \cup sess[p].on ELSE raced
     /\ torn' = IF p \in overtaken THEN torn \cup sess[p].on ELSE torn \ sess[p].on
     /\ Overtakes(p, sess[p].on)
     /\ End(p)
     /\ UNCHANGED <<kind, listed, rowGone, ops>>

\* POST /leads/verify
VerifyLead(p, e) == Request(p) /\ StartVerify(p, e)

\* PATCH /leads/{id} and /leads/bulk/contact-type, for each contact by itself:
\* nobody else writes the column.
SetContactType(p, e, k) ==
  /\ Request(p)
  /\ e \in Exists /\ kind[e] # k
  /\ kind' = [kind EXCEPT ![e] = k]
  /\ UNCHANGED <<contact, listed, pc, sess, rowGone, overtaken, raced, torn>>

-----------------------------------------------------------------------------
(* The import adds contacts (LeadImport); it does not look at the list.    *)

NewContact == [suppressed |-> FALSE, unsub |-> "subscribed", status |-> "unverified",
               score |-> 0, integrity |-> "none"]

AddContacts(p, S) ==
  /\ contact' = [e \in Emails |-> IF e \in S THEN NewContact ELSE contact[e]]
  /\ overtaken' = overtaken \cup Others(p, S)

\* An address may have been suppressed before its contact was imported.
SuppressionInit ==
  /\ listed \in SUBSET Emails
  /\ contact \in [Emails -> {NoContact, NewContact}]
  /\ kind = [e \in Emails |-> "any"]
  /\ pc = [p \in Procs |-> "idle"]
  /\ sess = [p \in Procs |-> Idle]
  /\ rowGone = {} /\ overtaken = {} /\ raced = {} /\ torn = {}
  /\ ops = MaxOps

SuppressionNext ==
  \/ \E p \in Clients :
       \/ \E e \in Emails : AddSuppression(p, e) \/ Release(p, e) \/ VerifyLead(p, e)
       \/ \E S \in SUBSET Emails : BulkSuppress(p, S)
       \/ SuppressCommit(p) \/ SuppressConflict(p) \/ ReleaseCommit(p)
       \/ \E e \in Emails, k \in Kinds : SetContactType(p, e, k)
  \/ \E p \in Procs : LookUp(p) \/ \E mx \in BOOLEAN : VerifyCommit(p, mx)

-----------------------------------------------------------------------------
(* Properties.                                                             *)

SuppressionTypeOK ==
  /\ contact \in [Emails -> ContactRow \cup {NoContact}]
  /\ kind \in [Emails -> Kinds]
  /\ listed \subseteq Emails
  /\ sess \in [Procs -> Session]
  /\ rowGone \subseteq Procs /\ overtaken \subseteq Procs
  /\ raced \subseteq Emails /\ torn \subseteq Emails
  /\ ops \in Nat

\* No campaign may mail an address on the suppression list, whatever mix of
\* suppressions, releases, imports and verifications led there, unless the
\* last word on it was a session's that another had overtaken between its
\* reads and its commit.
ListedIsBlocked ==
  \A e \in listed \ raced, campaign \in Campaigns : ~MailableTo(e, campaign)

\* The converse: a contact that nothing suppresses carries no suppression
\* flag, with the same exception.  Nobody else would ever clear the flags,
\* as only the deletion of a listed row does.
FreeIsUnflagged ==
  \A e \in Exists \ (listed \cup raced) :
    ~contact[e].suppressed /\ contact[e].unsub = "subscribed"

\* status, score and integrity are three columns written one by one: they
\* come from one verification, unless an overtaken one wrote some of them.
VerdictIsWhole ==
  \A e \in Exists \ torn :
    \/ contact[e].status = "unverified" /\ contact[e].score = 0
    \/ \E mx, s \in BOOLEAN :
         LET v == VerifiedAs(e, mx, s, contact[e])
         IN <<v.status, v.score, v.integrity>>
            = <<contact[e].status, contact[e].score, contact[e].integrity>>

\* A contact judged valid has passed every check: nothing else adds up to the
\* score it takes.  And nobody is ever judged risky, so the rules for risky
\* contacts (a warning, and a block in strict B2C campaigns) apply to nobody
\* verification has seen.
ValidMeansFullScore ==
  \A e \in Exists \ torn :
    /\ contact[e].status = "valid" => contact[e].score = 100 /\ contact[e].integrity = "high"
    /\ contact[e].status # "risky"
=============================================================================
