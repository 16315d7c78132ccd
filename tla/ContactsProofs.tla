--------------------------- MODULE ContactsProofs ---------------------------
(***************************************************************************)
(* Proofs about suppression, verification and import.  Everything rests on *)
(* what a session knows: a session nobody has overtaken holds the rows as  *)
(* they are, and leaves list, flags and verdict in agreement.              *)
(***************************************************************************)
EXTENDS Contacts, FiniteSetTheorems, TLAPS

-----------------------------------------------------------------------------
(* Type correctness.                                                       *)

Place == {"idle", "bulk", "suppress", "release", "load", "dns", "map", "confirm"}

\* Where the sessions are: a worker only verifies, and one contact at a time.
PlacesOK ==
  /\ pc \in [Procs -> Place]
  /\ \A p \in Procs : pc[p] \in {"idle", "map", "confirm"} => sess[p] = Idle
  /\ \A p \in Procs : pc[p] \in {"load", "dns"} => \E e \in Emails : sess[p].on = {e}
  /\ \A w \in Workers : pc[w] \in {"idle", "load", "dns"}
  /\ \A p \in Clients : importing[p] # NoImport <=> pc[p] \in {"map", "confirm"}

\* A contact somebody has loaded stays, and a verdict is never taken back.
RowsLast ==
  \A p \in Procs, e \in Emails :
    sess[p].row[e] # NoContact =>
      /\ e \in sess[p].on
      /\ contact[e] # NoContact
      /\ sess[p].row[e].status # "unverified" => contact[e].status # "unverified"

\* A worker has a task in hand from its first step to its last, and verifies
\* only between taking up a lead and counting it.
HandsOK ==
  \A w \in Workers :
    /\ IF hand[w].at = "idle" THEN hand[w] = Free ELSE hand[w].task \in Tasks
    /\ pc[w] # "idle" => hand[w].at = "count"

TypeInv == TypeOK /\ PlacesOK /\ RowsLast /\ HandsOK

LEMMA FlagsAreFlags ==
  ASSUME NEW e \in Emails, NEW mx \in BOOLEAN, NEW s \in BOOLEAN
  PROVE  FlagsOf(e, mx, s) \in Flags
BY Zenon DEF FlagsOf, Flags

LEMMA ScoreIsScore ==
  ASSUME NEW f \in Flags
  PROVE  Score(f) \in Scores
BY DEF Score, If, Flags, Scores

LEMMA VerdictIsRow ==
  ASSUME NEW e \in Emails, NEW mx \in BOOLEAN, NEW s \in BOOLEAN, NEW row \in ContactRow
  PROVE  VerifiedAs(e, mx, s, row) \in ContactRow
<1> DEFINE f == FlagsOf(e, mx, s)
<1>1. Score(f) \in Scores
  BY FlagsAreFlags, ScoreIsScore
<1>2. DetermineStatus(f) \in Verdicts /\ Integrity(f) \in {"low", "high"}
  BY DEF DetermineStatus, Integrity, Verdicts
<1> HIDE DEF f
<1>3. [row EXCEPT !.suppressed = s, !.status = DetermineStatus(f), !.score = Score(f),
                  !.integrity = Integrity(f)] \in ContactRow
  BY <1>1, <1>2 DEF ContactRow
<1>4. QED
  BY <1>3 DEF VerifiedAs, f

LEMMA WrittenIsRow ==
  ASSUME NEW a \in ContactRow, NEW b \in ContactRow, NEW c \in ContactRow
  PROVE  Written(a, b, c) \in ContactRow
BY DEF Written, Column, ContactRow

\* What the three commits do to the table.
New(p, mx, row) ==
  CASE pc[p] = "suppress" -> Flagged(row)
    [] pc[p] = "release" -> Released(row)
    [] OTHER -> VerifiedAs(CHOOSE e \in sess[p].on : TRUE, mx, sess[p].known # {}, row)

Commits(p, mx) == SuppressCommit(p) \/ ReleaseCommit(p) \/ VerifyCommit(p, mx)

LEMMA CommitStores ==
  ASSUME NEW p \in Procs, NEW mx \in BOOLEAN, Commits(p, mx)
  PROVE  contact' = [e \in Emails |->
                       IF sess[p].row[e] # NoContact
                       THEN Written(sess[p].row[e], New(p, mx, sess[p].row[e]), contact[e])
                       ELSE contact[e]]
<1>1. CASE SuppressCommit(p)
  BY <1>1 DEF SuppressCommit, Store, New
<1>2. CASE ReleaseCommit(p)
  BY <1>2 DEF ReleaseCommit, Store, New
<1>3. CASE VerifyCommit(p, mx)
  BY <1>3 DEF VerifyCommit, Store, New
<1>4. QED
  BY <1>1, <1>2, <1>3 DEF Commits

LEMMA NewIsRow ==
  ASSUME TypeInv, NEW p \in Procs, NEW mx \in BOOLEAN, Commits(p, mx), NEW row \in ContactRow
  PROVE  New(p, mx, row) \in ContactRow
<1>1. CASE pc[p] = "suppress" \/ pc[p] = "release"
  BY <1>1 DEF New, Flagged, Released, ContactRow
<1>2. CASE pc[p] = "dns"
  <2>1. PICK x \in Emails : sess[p].on = {x}
    BY <1>2 DEF TypeInv, PlacesOK
  <2>2. (CHOOSE e \in sess[p].on : TRUE) \in Emails
    BY <2>1
  <2>3. (sess[p].known # {}) \in BOOLEAN
    OBVIOUS
  <2>4. QED
    BY <1>2, <2>2, <2>3, VerdictIsRow DEF New
<1>3. QED
  BY <1>1, <1>2 DEF Commits, SuppressCommit, ReleaseCommit, VerifyCommit

\* A commit keeps the table a table of rows, and no contact disappears.
LEMMA CommitKeepsRows ==
  ASSUME TypeInv, NEW p \in Procs, NEW mx \in BOOLEAN, Commits(p, mx)
  PROVE  /\ contact' \in [Emails -> ContactRow \cup {NoContact}]
         /\ \A e \in Emails : contact'[e] = NoContact <=> contact[e] = NoContact
<1> USE SuppressionAssumption
<1>1. contact \in [Emails -> ContactRow \cup {NoContact}]
      /\ \A e \in Emails : sess[p].row[e] \in ContactRow \cup {NoContact}
  BY DEF TypeInv, TypeOK, SuppressionTypeOK, Session
<1>2. ASSUME NEW e \in Emails
      PROVE  /\ contact'[e] \in ContactRow \cup {NoContact}
             /\ contact'[e] = NoContact <=> contact[e] = NoContact
  <2>1. CASE sess[p].row[e] = NoContact
    BY <1>1, <2>1, CommitStores
  <2>2. CASE sess[p].row[e] # NoContact
    <3>1. contact[e] \in ContactRow /\ sess[p].row[e] \in ContactRow
      BY <1>1, <2>2 DEF TypeInv, RowsLast
    <3>2. Written(sess[p].row[e], New(p, mx, sess[p].row[e]), contact[e]) \in ContactRow
      BY <3>1, NewIsRow, WrittenIsRow
    <3>3. contact'[e] = Written(sess[p].row[e], New(p, mx, sess[p].row[e]), contact[e])
      BY <2>2, CommitStores
    <3>4. QED
      BY <3>1, <3>2, <3>3
  <2>3. QED
    BY <2>1, <2>2
<1>3. QED
  BY <1>2, CommitStores

\* The verdict of a contact that has one is only replaced by another.
Lasts ==
  \A e \in Emails :
    contact[e] # NoContact =>
      /\ contact'[e] # NoContact
      /\ contact[e].status # "unverified" => contact'[e].status # "unverified"

LEMMA NewIsVerdict ==
  ASSUME TypeInv, NEW p \in Procs, NEW mx \in BOOLEAN, Commits(p, mx), NEW row \in ContactRow
  PROVE  IF pc[p] \in {"suppress", "release"} THEN New(p, mx, row).status = row.status
         ELSE New(p, mx, row).status # "unverified"
<1>1. CASE pc[p] = "suppress" \/ pc[p] = "release"
  BY <1>1 DEF New, Flagged, Released, ContactRow
<1>2. CASE pc[p] = "dns"
  <2> DEFINE x == CHOOSE e \in sess[p].on : TRUE
             f == FlagsOf(x, mx, sess[p].known # {})
  <2>1. DetermineStatus(f) # "unverified"
    BY DEF DetermineStatus
  <2>2. New(p, mx, row) = VerifiedAs(x, mx, sess[p].known # {}, row)
    BY <1>2 DEF New
  <2>3. VerifiedAs(x, mx, sess[p].known # {}, row).status = DetermineStatus(f)
    BY DEF VerifiedAs, ContactRow
  <2>4. QED
    BY <1>2, <2>1, <2>2, <2>3
<1>3. QED
  BY <1>1, <1>2 DEF Commits, SuppressCommit, ReleaseCommit, VerifyCommit

LEMMA CommitLasts ==
  ASSUME TypeInv, NEW p \in Procs, NEW mx \in BOOLEAN, Commits(p, mx)
  PROVE  Lasts
<1> USE SuppressionAssumption
<1>1. SUFFICES ASSUME NEW e \in Emails, contact[e] # NoContact
               PROVE  contact[e].status # "unverified" => contact'[e].status # "unverified"
  BY CommitKeepsRows DEF Lasts
<1>2. CASE sess[p].row[e] = NoContact
  BY <1>2, CommitStores
<1>3. CASE sess[p].row[e] # NoContact
  <2>1. sess[p].row[e] \in ContactRow
    BY <1>3 DEF TypeInv, TypeOK, SuppressionTypeOK, Session
  <2>2. contact'[e] = Written(sess[p].row[e], New(p, mx, sess[p].row[e]), contact[e])
    BY <1>3, CommitStores
  <2>3. contact'[e].status
        = Column(sess[p].row[e].status, New(p, mx, sess[p].row[e]).status, contact[e].status)
    BY <2>2 DEF Written
  <2>4. QED
    BY <2>1, <2>3, NewIsVerdict DEF Column
<1>4. QED
  BY <1>2, <1>3

LEMMA BeginTypes ==
  ASSUME TypeInv, NEW p \in Procs, NEW S \in SUBSET Emails,
         NEW at \in {"bulk", "suppress", "release", "load"}, NEW known \in SUBSET Emails,
         Begin(p, S, at, known), pc[p] = "idle", UNCHANGED <<contact, importing>>,
         p \in Workers \/ at = "load" => at = "load" /\ \E e \in Emails : S = {e}
  PROVE  sess' \in [Procs -> Session] /\ PlacesOK' /\ RowsLast'
<1> USE SuppressionAssumption DEF Procs
<1> DEFINE row == [e \in Emails |-> IF e \in S THEN contact[e] ELSE NoContact]
<1>1. contact \in [Emails -> ContactRow \cup {NoContact}] /\ sess \in [Procs -> Session]
      /\ PlacesOK /\ RowsLast
  BY DEF TypeInv, TypeOK, SuppressionTypeOK
<1>2. row \in [Emails -> ContactRow \cup {NoContact}]
  BY <1>1
<1>3. [on |-> S, row |-> row, known |-> known] \in Session
  BY <1>2 DEF Session
<1>4. sess' = [sess EXCEPT ![p] = [on |-> S, row |-> row, known |-> known]]
      /\ pc' = [pc EXCEPT ![p] = at]
  BY DEF Begin
<1>5. sess' \in [Procs -> Session]
  BY <1>1, <1>3, <1>4
<1>6. PlacesOK'
  BY <1>1, <1>4 DEF PlacesOK, Place
<1>7. RowsLast'
  <2>1. SUFFICES ASSUME NEW q \in Procs, NEW e \in Emails, sess'[q].row[e] # NoContact
                 PROVE  /\ e \in sess'[q].on
                        /\ contact[e] # NoContact
                        /\ sess'[q].row[e].status # "unverified" => contact[e].status # "unverified"
    BY DEF RowsLast
  <2>2. CASE q = p
    <3>1. sess'[p].row[e] = IF e \in S THEN contact[e] ELSE NoContact
      BY <1>1, <1>4
    <3>2. sess'[p].on = S
      BY <1>1, <1>4
    <3>3. QED
      BY <2>1, <2>2, <3>1, <3>2
  <2>3. CASE q # p
    BY <1>1, <1>4, <2>1, <2>3 DEF RowsLast
  <2>4. QED
    BY <2>2, <2>3
<1>8. QED
  BY <1>5, <1>6, <1>7

\* Keeping the sessions, or ending one, while the contacts last.
LEMMA RowsLastOn ==
  ASSUME RowsLast, Lasts,
         \A q \in Procs : sess'[q] = sess[q] \/ sess'[q] = Idle
  PROVE  RowsLast'
<1>1. SUFFICES ASSUME NEW q \in Procs, NEW e \in Emails, sess'[q].row[e] # NoContact
               PROVE  /\ e \in sess'[q].on
                      /\ contact'[e] # NoContact
                      /\ sess'[q].row[e].status # "unverified" => contact'[e].status # "unverified"
  BY DEF RowsLast
<1>2. sess'[q] = sess[q]
  BY <1>1 DEF Idle
<1>3. QED
  BY <1>1, <1>2 DEF RowsLast, Lasts

LEMMA EndTypes ==
  ASSUME TypeInv, NEW p \in Procs, End(p), Lasts, pc[p] \notin {"map", "confirm"},
         UNCHANGED importing
  PROVE  sess' \in [Procs -> Session] /\ PlacesOK' /\ RowsLast'
<1> USE SuppressionAssumption DEF Procs
<1>1. sess \in [Procs -> Session] /\ PlacesOK /\ RowsLast
  BY DEF TypeInv, TypeOK, SuppressionTypeOK
<1>2. Idle \in Session
  BY DEF Idle, Session
<1>3. sess' = [sess EXCEPT ![p] = Idle] /\ pc' = [pc EXCEPT ![p] = "idle"]
  BY DEF End
<1>4. sess' \in [Procs -> Session]
  BY <1>1, <1>2, <1>3
<1>5. PlacesOK'
  BY <1>1, <1>3 DEF PlacesOK, Place
<1>6. RowsLast'
  BY <1>1, <1>3, RowsLastOn
<1>7. QED
  BY <1>4, <1>5, <1>6

LEMMA UnchangedLasts ==
  ASSUME UNCHANGED contact
  PROVE  Lasts
BY DEF Lasts

-----------------------------------------------------------------------------
(* The steps one by one.                                                   *)

\* What the suppression handlers and verification must keep.
SuppTypes == SuppressionTypeOK /\ PlacesOK /\ RowsLast

LEMMA TypeFacts ==
  ASSUME TypeInv
  PROVE  /\ contact \in [Emails -> ContactRow \cup {NoContact}] /\ kind \in [Emails -> Kinds]
         /\ listed \subseteq Emails /\ sess \in [Procs -> Session]
         /\ rowGone \subseteq Procs /\ overtaken \subseteq Procs
         /\ raced \subseteq Emails /\ torn \subseteq Emails /\ ops \in Nat
         /\ PlacesOK /\ RowsLast
         /\ \A p \in Procs : sess[p].on \subseteq Emails
BY DEF TypeInv, TypeOK, SuppressionTypeOK, Session

LEMMA OpsLeft ==
  ASSUME ops \in Nat, NEW p, Request(p)
  PROVE  pc[p] = "idle" /\ ops' \in Nat
BY DEF Request

LEMMA OthersAreProcs ==
  ASSUME NEW p, NEW S
  PROVE  Others(p, S) \subseteq Procs
BY DEF Others

LEMMA BeginSteps ==
  ASSUME TypeInv, NEW p \in Procs, UNCHANGED importing,
         \/ p \in Clients /\ \E e \in Emails : AddSuppression(p, e) \/ Release(p, e) \/ VerifyLead(p, e)
         \/ p \in Clients /\ \E S \in SUBSET Emails : BulkSuppress(p, S)
         \/ p \in Workers /\ pc[p] = "idle" /\ UNCHANGED ops /\ \E e \in Emails : StartVerify(p, e)
  PROVE  SuppTypes'
<1> USE SuppressionAssumption, TypeFacts
<1>1. CASE p \in Clients /\ \E e \in Emails : AddSuppression(p, e)
  <2>1. PICK e \in Emails : AddSuppression(p, e)
    BY <1>1
  <2>2. Begin(p, {e}, "suppress", {}) /\ pc[p] = "idle" /\ ops' \in Nat
        /\ UNCHANGED <<contact, kind, listed, rowGone, overtaken, raced, torn>>
    BY <2>1, OpsLeft DEF AddSuppression
  <2>3. sess' \in [Procs -> Session] /\ PlacesOK' /\ RowsLast'
    BY <1>1, <2>2, BeginTypes
  <2>4. QED
    BY <2>2, <2>3 DEF SuppTypes, SuppressionTypeOK
<1>2. CASE p \in Clients /\ \E e \in Emails : Release(p, e)
  <2>1. PICK e \in Emails : Release(p, e)
    BY <1>2
  <2>2. Begin(p, {e}, "release", {e}) /\ pc[p] = "idle" /\ ops' \in Nat
        /\ UNCHANGED <<contact, kind, listed, rowGone, overtaken, raced, torn>>
    BY <2>1, OpsLeft DEF Release
  <2>3. {e} \in SUBSET Emails /\ p \notin Workers
    BY <1>2
  <2>4. sess' \in [Procs -> Session] /\ PlacesOK' /\ RowsLast'
    BY <2>2, <2>3, BeginTypes
  <2>5. QED
    BY <2>2, <2>4 DEF SuppTypes, SuppressionTypeOK
<1>3. CASE p \in Clients /\ \E S \in SUBSET Emails : BulkSuppress(p, S)
  <2>1. PICK S \in SUBSET Emails : BulkSuppress(p, S)
    BY <1>3
  <2>2. Begin(p, S, "bulk", {}) /\ pc[p] = "idle" /\ ops' \in Nat
        /\ UNCHANGED <<contact, kind, listed, rowGone, overtaken, raced, torn>>
    BY <2>1, OpsLeft DEF BulkSuppress
  <2>3. sess' \in [Procs -> Session] /\ PlacesOK' /\ RowsLast'
    BY <1>3, <2>2, BeginTypes
  <2>4. QED
    BY <2>2, <2>3 DEF SuppTypes, SuppressionTypeOK
<1>4. ASSUME NEW e \in Emails, StartVerify(p, e), pc[p] = "idle", ops' \in Nat
      PROVE  SuppTypes'
  <2>1. Begin(p, {e}, "load", {})
        /\ UNCHANGED <<contact, kind, listed, rowGone, overtaken, raced, torn>>
    BY <1>4 DEF StartVerify
  <2>2. sess' \in [Procs -> Session] /\ PlacesOK' /\ RowsLast'
    BY <1>4, <2>1, BeginTypes
  <2>3. QED
    BY <1>4, <2>1, <2>2 DEF SuppTypes, SuppressionTypeOK
<1>5. CASE p \in Clients /\ \E e \in Emails : VerifyLead(p, e)
  BY <1>4, <1>5, OpsLeft DEF VerifyLead
<1>6. QED
  BY <1>1, <1>2, <1>3, <1>4, <1>5

LEMMA LookUpTypes ==
  ASSUME TypeInv, NEW p \in Procs, LookUp(p), UNCHANGED importing
  PROVE  SuppTypes'
<1> USE SuppressionAssumption, TypeFacts
<1> DEFINE at == IF pc[p] = "bulk" THEN "suppress" ELSE "dns"
<1>1. /\ pc[p] \in {"bulk", "load"} /\ pc' = [pc EXCEPT ![p] = at]
      /\ sess' = [sess EXCEPT ![p].known = listed \cap sess[p].on]
      /\ UNCHANGED <<contact, kind, listed, rowGone, overtaken, raced, torn, ops>>
  BY DEF LookUp
<1>2. sess' \in [Procs -> Session]
      /\ \A q \in Procs : sess'[q].row = sess[q].row /\ sess'[q].on = sess[q].on
                          /\ (q # p => sess'[q] = sess[q])
  BY <1>1 DEF Session
<1>3. PlacesOK'
  BY <1>1, <1>2 DEF PlacesOK, Place, Procs
<1>4. RowsLast'
  BY <1>1, <1>2 DEF RowsLast
<1>5. QED
  BY <1>1, <1>2, <1>3, <1>4 DEF SuppTypes, SuppressionTypeOK

LEMMA CommitTypes ==
  ASSUME TypeInv, NEW p \in Procs, NEW mx \in BOOLEAN, Commits(p, mx), UNCHANGED importing
  PROVE  SuppTypes'
<1> USE SuppressionAssumption, TypeFacts
<1>1. /\ End(p) /\ Overtakes(p, sess[p].on) /\ UNCHANGED <<kind, ops>>
      /\ pc[p] \in {"suppress", "release", "dns"}
  BY DEF Commits, SuppressCommit, ReleaseCommit, VerifyCommit
<1>2. listed' \subseteq Emails
  BY DEF Commits, SuppressCommit, ReleaseCommit, VerifyCommit
<1>3. rowGone' \subseteq Procs
  BY DEF Commits, SuppressCommit, ReleaseCommit, VerifyCommit, Others
<1>4. raced' \subseteq Emails /\ torn' \subseteq Emails
  BY DEF Commits, SuppressCommit, ReleaseCommit, VerifyCommit, Marks
<1>5. overtaken' \subseteq Procs
  BY <1>1, OthersAreProcs DEF Overtakes
<1>6. sess' \in [Procs -> Session] /\ PlacesOK' /\ RowsLast'
  BY <1>1, CommitLasts, EndTypes
<1>7. contact' \in [Emails -> ContactRow \cup {NoContact}]
  BY CommitKeepsRows
<1>8. QED
  BY <1>1, <1>2, <1>3, <1>4, <1>5, <1>6, <1>7 DEF SuppTypes, SuppressionTypeOK

LEMMA RollbackTypes ==
  ASSUME TypeInv, NEW p \in Procs, UNCHANGED importing,
         SuppressConflict(p)
  PROVE  SuppTypes'
<1> USE SuppressionAssumption, TypeFacts
<1>1. /\ End(p) /\ rowGone' = rowGone \ {p} /\ overtaken' = overtaken \ {p}
      /\ UNCHANGED <<contact, kind, listed, raced, torn, ops>> /\ pc[p] = "suppress"
  BY DEF SuppressConflict, Rollback
<1>2. sess' \in [Procs -> Session] /\ PlacesOK' /\ RowsLast'
  BY <1>1, UnchangedLasts, EndTypes
<1>3. QED
  BY <1>1, <1>2 DEF SuppTypes, SuppressionTypeOK

LEMMA CrashTypes ==
  ASSUME TypeInv, NEW w \in Workers, Crash(w), UNCHANGED importing
  PROVE  SuppTypes'
<1> USE SuppressionAssumption, TypeFacts
<1>1. /\ End(w) /\ overtaken' = overtaken \ {w}
      /\ UNCHANGED <<contact, kind, listed, rowGone, raced, torn, ops>>
  BY DEF Crash
<1>2. w \in Procs /\ pc[w] \notin {"map", "confirm"}
  BY DEF PlacesOK, Procs
<1>3. sess' \in [Procs -> Session] /\ PlacesOK' /\ RowsLast'
  BY <1>1, <1>2, UnchangedLasts, EndTypes
<1>4. QED
  BY <1>1, <1>3 DEF SuppTypes, SuppressionTypeOK

LEMMA KindTypes ==
  ASSUME TypeInv, NEW p \in Clients, NEW e \in Emails, NEW k \in Kinds, SetContactType(p, e, k),
         UNCHANGED importing
  PROVE  SuppTypes'
<1> USE SuppressionAssumption, TypeFacts
<1>1. kind' = [kind EXCEPT ![e] = k] /\ ops' \in Nat
      /\ UNCHANGED <<contact, listed, pc, sess, rowGone, overtaken, raced, torn>>
  BY OpsLeft DEF SetContactType
<1>2. PlacesOK' /\ RowsLast'
  BY <1>1 DEF PlacesOK, RowsLast
<1>3. QED
  BY <1>1, <1>2 DEF SuppTypes, SuppressionTypeOK

LEMMA SuppressionStepTypes ==
  ASSUME TypeInv, SuppressionNext, UNCHANGED importing
  PROVE  SuppTypes'
<1> USE DEF Procs
<1>1. ASSUME NEW p \in Clients,
             \/ \E e \in Emails : AddSuppression(p, e) \/ Release(p, e) \/ VerifyLead(p, e)
             \/ \E S \in SUBSET Emails : BulkSuppress(p, S)
      PROVE  SuppTypes'
  BY <1>1, BeginSteps
<1>2. ASSUME NEW p \in Clients, SuppressCommit(p) \/ ReleaseCommit(p)
      PROVE  SuppTypes'
  <2>1. Commits(p, TRUE)
    BY <1>2 DEF Commits
  <2>2. QED
    BY <2>1, CommitTypes
<1>3. ASSUME NEW p \in Procs, NEW mx \in BOOLEAN, VerifyCommit(p, mx)
      PROVE  SuppTypes'
  BY <1>3, CommitTypes DEF Commits
<1>4. QED
  BY <1>1, <1>2, <1>3, RollbackTypes, KindTypes, LookUpTypes DEF SuppressionNext

\* The import changes no session of the others; it adds contacts.
LEMMA ImportTypeFacts ==
  ASSUME TypeInv
  PROVE  /\ imports \in [Imports -> ImportJob]
         /\ importing \in [Clients -> ImportSession \cup {NoImport}]
         /\ behind \subseteq Clients /\ crossed \subseteq Imports
         /\ \A p \in Clients : importing[p] # NoImport => importing[p] \in ImportSession
                                                          /\ On(p) \in Imports
         /\ \A p \in Clients : pc[p] \in {"map", "confirm"} => importing[p] # NoImport
BY DEF TypeInv, TypeOK, ImportTypeOK, PlacesOK, On, ImportSession

LEMMA LoadTypes ==
  ASSUME TypeInv, NEW p \in Clients, NEW s \in ImportSession, NEW at \in {"map", "confirm"},
         pc[p] = "idle", pc' = [pc EXCEPT ![p] = at], importing' = [importing EXCEPT ![p] = s],
         ops' \in Nat,
         UNCHANGED <<contact, kind, listed, sess, rowGone, overtaken, raced, torn,
                     imports, behind, crossed>>
  PROVE  SuppTypes' /\ ImportTypeOK'
<1> USE SuppressionAssumption, TypeFacts, ImportTypeFacts
<1>1. s # NoImport
  BY ImportAssumption DEF NoImport
<1>2. PlacesOK'
  BY <1>1 DEF PlacesOK, Place, Procs
<1>3. RowsLast'
  BY DEF RowsLast
<1>4. ImportTypeOK'
  BY DEF ImportTypeOK
<1>5. QED
  BY <1>2, <1>3, <1>4 DEF SuppTypes, SuppressionTypeOK

LEMMA CloseTypes ==
  ASSUME TypeInv, NEW p \in Clients, pc[p] \in {"map", "confirm"}, Close(p),
         contact' \in [Emails -> ContactRow \cup {NoContact}], Lasts,
         overtaken' \subseteq Procs, imports' \in [Imports -> ImportJob],
         behind' \subseteq Clients, crossed' \subseteq Imports,
         UNCHANGED <<kind, listed, sess, rowGone, raced, torn, ops>>
  PROVE  SuppTypes' /\ ImportTypeOK'
<1> USE SuppressionAssumption, TypeFacts, ImportTypeFacts
<1>1. /\ pc' = [pc EXCEPT ![p] = "idle"]
      /\ importing' = [importing EXCEPT ![p] = NoImport]
  BY DEF Close
<1>2. PlacesOK'
  BY <1>1 DEF PlacesOK, Place, Procs
<1>3. RowsLast'
  BY RowsLastOn
<1>4. ImportTypeOK'
  BY <1>1 DEF ImportTypeOK
<1>5. QED
  BY <1>2, <1>3, <1>4 DEF SuppTypes, SuppressionTypeOK

LEMMA RowForTypes ==
  ASSUME NEW m \in Mappings, NEW F, NEW l \in Lines
  PROVE  RowFor(m, F, l) \in ImportRow
<1>1. m[l] \in Emails \cup {NoEmail}
  BY ImportAssumption
<1>2. QED
  BY <1>1 DEF RowFor, ImportRow, RowStatus

LEMMA MapTypes ==
  ASSUME TypeInv, NEW p \in Clients, NEW j \in Imports, NEW m \in Mappings, Map(p, j, m)
  PROVE  SuppTypes' /\ ImportTypeOK'
<1> USE TypeFacts, ImportTypeFacts
<1>1. PICK F \in FirstLines(m) :
        importing' = [importing EXCEPT ![p] =
                       [job |-> j, was |-> imports[j], rows |-> [l \in Lines |-> RowFor(m, F, l)]]]
  BY DEF Map
<1>2. [l \in Lines |-> RowFor(m, F, l)] \in [Lines -> ImportRow]
  BY RowForTypes
<1>3. [job |-> j, was |-> imports[j], rows |-> [l \in Lines |-> RowFor(m, F, l)]] \in ImportSession
  BY <1>2 DEF ImportSession
<1>4. pc[p] = "idle" /\ ops' \in Nat
  BY OpsLeft DEF Map
<1>5. /\ pc' = [pc EXCEPT ![p] = "map"]
      /\ UNCHANGED <<contact, kind, listed, sess, rowGone, overtaken, raced, torn,
                     imports, behind, crossed>>
  BY DEF Map
<1>6. QED
  BY <1>1, <1>3, <1>4, <1>5, LoadTypes

LEMMA ConfirmTypes ==
  ASSUME TypeInv, NEW p \in Clients, NEW j \in Imports, Confirm(p, j)
  PROVE  SuppTypes' /\ ImportTypeOK'
<1> USE TypeFacts, ImportTypeFacts
<1>1. [job |-> j, was |-> imports[j], rows |-> imports[j].rows] \in ImportSession
  BY DEF ImportSession, ImportJob
<1>2. pc[p] = "idle" /\ ops' \in Nat
  BY OpsLeft DEF Confirm
<1>3. QED
  BY <1>1, <1>2, LoadTypes DEF Confirm

LEMMA UploadTypes ==
  ASSUME TypeInv, NEW p \in Clients, NEW j \in Imports, Upload(p, j)
  PROVE  SuppTypes' /\ ImportTypeOK'
<1> USE TypeFacts, ImportTypeFacts
<1>1. imports' = [imports EXCEPT ![j].status = "parsed"] /\ ops' \in Nat
      /\ UNCHANGED <<contact, kind, listed, pc, sess, rowGone, overtaken, raced, torn,
                     importing, behind, crossed>>
  BY OpsLeft DEF Upload
<1>2. ImportTypeOK'
  BY <1>1 DEF ImportTypeOK, ImportJob
<1>3. PlacesOK' /\ RowsLast'
  BY <1>1 DEF PlacesOK, RowsLast
<1>4. QED
  BY <1>1, <1>2, <1>3 DEF SuppTypes, SuppressionTypeOK

LEMMA MapCommitTypes ==
  ASSUME TypeInv, NEW p \in Clients, MapCommit(p)
  PROVE  SuppTypes' /\ ImportTypeOK'
<1> USE TypeFacts, ImportTypeFacts
<1> DEFINE j == On(p)
           was == importing[p].was
           new == importing[p].rows
           now == imports[j]
           rows == [l \in Lines |->
                      [email |-> Column(was.rows[l].email, new[l].email, now.rows[l].email),
                       status |-> Column(was.rows[l].status, new[l].status, now.rows[l].status)]]
           status == Column(was.status, "validated", now.status)
<1>1. j \in Imports /\ was \in ImportJob /\ new \in [Lines -> ImportRow] /\ now \in ImportJob
  BY DEF ImportSession, MapCommit
<1>2. rows \in [Lines -> ImportRow]
  <2>1. ASSUME NEW l \in Lines
        PROVE  [email |-> Column(was.rows[l].email, new[l].email, now.rows[l].email),
                status |-> Column(was.rows[l].status, new[l].status, now.rows[l].status)]
               \in ImportRow
    <3>1. was.rows[l] \in ImportRow /\ new[l] \in ImportRow /\ now.rows[l] \in ImportRow
      BY <1>1 DEF ImportJob
    <3> HIDE DEF was, new, now
    <3>2. QED
      BY <3>1 DEF Column, ImportRow
  <2>2. QED
    BY <2>1
<1>3. status \in {"none", "parsed", "validated", "completed"}
  BY <1>1 DEF Column, ImportJob
<1>4. [status |-> status, rows |-> rows, imported |-> now.imported] \in ImportJob
  BY <1>1, <1>2, <1>3 DEF ImportJob
<1>5. imports' = [imports EXCEPT ![j] = [status |-> status, rows |-> rows, imported |-> now.imported]]
  BY DEF MapCommit
<1>6. imports' \in [Imports -> ImportJob]
  BY <1>4, <1>5
<1>7. /\ pc[p] = "map" /\ Close(p)
      /\ UNCHANGED <<contact, kind, listed, sess, rowGone, overtaken, raced, torn, ops>>
      /\ behind' \subseteq Clients /\ crossed' \subseteq Imports
  BY <1>1 DEF MapCommit, Rivals
<1>8. QED
  BY <1>6, <1>7, UnchangedLasts, CloseTypes

LEMMA ToImportIsFinite ==
  ASSUME NEW p
  PROVE  IsFiniteSet(ToImport(p)) /\ Cardinality(ToImport(p)) \in Nat
<1>1. ToImport(p) \in SUBSET Lines
  BY DEF ToImport
<1>2. QED
  BY <1>1, FS_Subset, FS_CardinalityType, ImportAssumption

LEMMA AddLasts ==
  ASSUME TypeInv, NEW p \in Clients, ConfirmCommit(p)
  PROVE  /\ Lasts /\ contact' \in [Emails -> ContactRow \cup {NoContact}]
         /\ overtaken' \subseteq Procs
<1> USE TypeFacts, ImportTypeFacts
<1>1. /\ contact' = [e \in Emails |-> IF e \in AddressesOf(p) THEN NewContact ELSE contact[e]]
      /\ overtaken' = overtaken \cup Others(p, AddressesOf(p))
      /\ AddressesOf(p) \cap Exists = {}
  BY DEF ConfirmCommit, AddContacts, Importable
<1>2. NewContact \in ContactRow
  BY DEF NewContact, ContactRow, Scores
<1>3. Lasts
  BY <1>1, <1>2 DEF Lasts, Exists
<1>4. QED
  BY <1>1, <1>2, <1>3, OthersAreProcs

LEMMA ConfirmCommitTypes ==
  ASSUME TypeInv, NEW p \in Clients, ConfirmCommit(p)
  PROVE  SuppTypes' /\ ImportTypeOK'
<1> USE TypeFacts, ImportTypeFacts
<1> DEFINE j == On(p)
           rows == [l \in Lines |-> IF l \in ToImport(p)
                                    THEN [imports[j].rows[l] EXCEPT !.status = "imported"]
                                    ELSE imports[j].rows[l]]
           imported == Column(importing[p].was.imported, Cardinality(ToImport(p)),
                              imports[j].imported)
<1>1. j \in Imports /\ imports[j] \in ImportJob /\ importing[p].was \in ImportJob
  BY DEF ConfirmCommit, ImportSession
<1>2. imports[j].rows \in [Lines -> ImportRow] /\ imports[j].imported \in Nat
  BY <1>1 DEF ImportJob
<1>3. rows \in [Lines -> ImportRow]
  BY <1>2 DEF ImportRow, RowStatus
<1>4. imported \in Nat
  BY <1>1, ToImportIsFinite DEF Column, ImportJob
<1>5. [status |-> "completed", rows |-> rows, imported |-> imported] \in ImportJob
  BY <1>3, <1>4 DEF ImportJob
<1>6. imports' = [imports EXCEPT ![j] = [status |-> "completed", rows |-> rows, imported |-> imported]]
  BY DEF ConfirmCommit
<1>7. imports' \in [Imports -> ImportJob]
  BY <1>5, <1>6
<1>8. /\ pc[p] = "confirm" /\ Close(p) /\ UNCHANGED <<kind, listed, sess, rowGone, raced, torn, ops>>
      /\ behind' \subseteq Clients /\ crossed' \subseteq Imports
  BY <1>1 DEF ConfirmCommit, Writes, Rivals
<1>9. QED
  BY <1>7, <1>8, AddLasts, CloseTypes

LEMMA ConfirmConflictTypes ==
  ASSUME TypeInv, NEW p \in Clients, ConfirmConflict(p)
  PROVE  SuppTypes' /\ ImportTypeOK'
BY TypeFacts, ImportTypeFacts, UnchangedLasts, CloseTypes DEF ConfirmConflict

LEMMA ImportStepTypes ==
  ASSUME TypeInv, ImportNext
  PROVE  SuppTypes' /\ ImportTypeOK'
BY UploadTypes, MapTypes, ConfirmTypes, MapCommitTypes, ConfirmCommitTypes, ConfirmConflictTypes
   DEF ImportNext

\* The steps of the jobs that change nothing but the jobs and what is left of
\* the bound.
LEMMA QuietTypes ==
  ASSUME TypeInv, ops' \in Nat, UNCHANGED importing,
         UNCHANGED <<contact, kind, listed, pc, sess, rowGone, overtaken, raced, torn>>
  PROVE  SuppTypes'
<1>1. PlacesOK' /\ RowsLast'
  BY TypeFacts DEF PlacesOK, RowsLast
<1>2. QED
  BY <1>1, TypeFacts DEF SuppTypes, SuppressionTypeOK

LEMMA JobFacts ==
  ASSUME TypeInv
  PROVE  /\ mode \in {"full", "lean"}
         /\ stage \in [Tasks -> {"none", "created", "published", "recorded"}]
         /\ queue \subseteq Tasks /\ unserved \subseteq Tasks
         /\ jobRow \in [Tasks \X Writers -> JobRow]
         /\ hand \in [Workers -> Hand]
         /\ crashes \in Nat
         /\ \A r \in Tasks \X Writers : jobRow[r] \in JobRow
         /\ \A w \in Workers : hand[w] \in Hand
BY DEF TypeInv, TypeOK, JobsTypeOK

LEMMA RowTypes ==
  ASSUME TypeInv, NEW r \in Tasks \X Writers,
         NEW row \in JobRow, jobRow' = [jobRow EXCEPT ![r] = row]
  PROVE  jobRow' \in [Tasks \X Writers -> JobRow]
BY JobFacts

LEMMA FreeIsHand == Free \in Hand
BY DEF Free, Hand, Writers

LEMMA QueueTypes ==
  ASSUME TypeInv, NEW t \in Tasks,
         QueueBulk(t) \/ Publish(t) \/ PublishFails(t) \/ Record(t)
  PROVE  JobsTypeOK'
<1> USE JobFacts
<1>1. <<t, "handler">> \in Tasks \X Writers
  BY DEF Writers
<1>2. stage' \in [Tasks -> {"none", "created", "published", "recorded"}]
  BY DEF QueueBulk, Publish, PublishFails, Record
<1>3. queue' \subseteq Tasks /\ unserved' \subseteq Tasks /\ UNCHANGED <<mode, hand, crashes>>
  BY DEF QueueBulk, Publish, PublishFails, Record
<1>4. CASE QueueBulk(t)
  <2>1. jobRow' = [jobRow EXCEPT ![<<t, "handler">>] =
                     [jobRow[<<t, "handler">>] EXCEPT !.status = "queued"]]
    BY <1>4 DEF QueueBulk
  <2>2. [jobRow[<<t, "handler">>] EXCEPT !.status = "queued"] \in JobRow
    BY <1>1 DEF JobRow
  <2>3. jobRow' \in [Tasks \X Writers -> JobRow]
    BY <1>1, <2>1, <2>2, RowTypes
  <2>4. QED
    BY <1>2, <1>3, <2>3 DEF JobsTypeOK
<1>5. CASE Record(t)
  <2>1. jobRow' = [jobRow EXCEPT ![<<t, "handler">>] =
                     [jobRow[<<t, "handler">>] EXCEPT !.task = t]]
    BY <1>5 DEF Record
  <2>2. [jobRow[<<t, "handler">>] EXCEPT !.task = t] \in JobRow
    BY <1>1 DEF JobRow
  <2>3. jobRow' \in [Tasks \X Writers -> JobRow]
    BY <1>1, <2>1, <2>2, RowTypes
  <2>4. QED
    BY <1>2, <1>3, <2>3 DEF JobsTypeOK
<1>6. CASE Publish(t) \/ PublishFails(t)
  BY <1>2, <1>3, <1>6 DEF JobsTypeOK, Publish, PublishFails
<1>7. QED
  BY <1>4, <1>5, <1>6

\* What a worker does with the task it has in hand.
LEMMA RowOfHand ==
  ASSUME TypeInv, NEW w \in Workers, hand[w].at # "idle"
  PROVE  hand[w].task \in Tasks /\ hand[w].row \in Writers
         /\ Row(w) \in Tasks \X Writers /\ jobRow[Row(w)] \in JobRow
BY JobFacts DEF Row, Hand, TypeInv, HandsOK

LEMMA GoesTypes ==
  ASSUME TypeInv, NEW w \in Workers, hand[w].at # "idle",
         NEW place \in {"mark", "next", "checking", "count", "done", "failing"}, Goes(w, place)
  PROVE  /\ hand' \in [Workers -> Hand]
         /\ \A v \in Workers : IF v = w THEN hand'[v] = [hand[v] EXCEPT !.at = place]
                               ELSE hand'[v] = hand[v]
BY JobFacts DEF Goes, Hand

\* Hands stay in order while no worker starts to verify.
LEMMA HandsStay ==
  ASSUME TypeInv, \A w \in Workers : pc'[w] # "idle" => pc[w] # "idle", UNCHANGED hand
  PROVE  HandsOK'
BY DEF TypeInv, HandsOK, Free

LEMMA HandMoves ==
  ASSUME TypeInv, NEW w \in Workers, pc[w] = "idle", hand[w].at # "idle",
         NEW place \in {"mark", "next", "checking", "count", "done", "failing"}, Goes(w, place),
         \/ UNCHANGED pc
         \/ place = "count" /\ \A v \in Workers \ {w} : pc'[v] = pc[v]
  PROVE  HandsOK'
<1>1. \A v \in Workers : IF v = w THEN hand'[v] = [hand[v] EXCEPT !.at = place]
                         ELSE hand'[v] = hand[v]
  BY GoesTypes
<1>2. SUFFICES ASSUME NEW v \in Workers
               PROVE  /\ IF hand'[v].at = "idle" THEN hand'[v] = Free ELSE hand'[v].task \in Tasks
                      /\ pc'[v] # "idle" => hand'[v].at = "count"
  BY DEF HandsOK, Free
<1>3. CASE v = w
  <2>1. hand'[v].at = place /\ hand'[v].task = hand[w].task
    BY <1>1, <1>3, JobFacts DEF Hand
  <2>2. QED
    BY <1>3, <2>1, RowOfHand
<1>4. CASE v # w
  BY <1>1, <1>4 DEF TypeInv, HandsOK
<1>5. QED
  BY <1>3, <1>4

LEMMA HandSet ==
  ASSUME TypeInv, NEW w \in Workers, NEW h \in Hand, hand' = [hand EXCEPT ![w] = h],
         \/ h = Free
         \/ h.at # "idle" /\ h.task \in Tasks,
         pc'[w] = "idle", \A v \in Workers \ {w} : pc'[v] = pc[v]
  PROVE  hand' \in [Workers -> Hand] /\ HandsOK'
<1>1. hand' \in [Workers -> Hand]
      /\ \A v \in Workers : hand'[v] = IF v = w THEN h ELSE hand[v]
  BY JobFacts
<1>2. HandsOK'
  BY <1>1 DEF HandsOK, TypeInv, Free
<1>3. QED
  BY <1>1, <1>2

\* Each worker's step: its row, its hand and its session.
LEMMA MarkTypes ==
  ASSUME TypeInv, NEW w \in Workers, Mark(w)
  PROVE  JobsTypeOK' /\ HandsOK'
<1> USE JobFacts
<1>1. hand[w].at = "mark" /\ pc[w] = "idle" /\ Goes(w, "next") /\ UNCHANGED pc
      /\ UNCHANGED <<mode, stage, queue, unserved, crashes>>
  BY DEF Mark, At, suppressionVars
<1>2. Row(w) \in Tasks \X Writers /\ jobRow[Row(w)] \in JobRow
  BY <1>1, RowOfHand
<1>3. jobRow' = [jobRow EXCEPT ![Row(w)] =
                   [jobRow[Row(w)] EXCEPT !.status = "running", !.processed = 0]]
  BY <1>2 DEF Mark
<1>4. [jobRow[Row(w)] EXCEPT !.status = "running", !.processed = 0] \in JobRow
  BY <1>2 DEF JobRow
<1>5. QED
  BY <1>1, <1>2, <1>3, <1>4, RowTypes, GoesTypes, HandMoves DEF JobsTypeOK

LEMMA CountTypes ==
  ASSUME TypeInv, NEW w \in Workers, CountLead(w)
  PROVE  JobsTypeOK' /\ HandsOK'
<1> USE JobFacts
<1>1. hand[w].at = "count" /\ pc[w] = "idle" /\ Goes(w, "next") /\ UNCHANGED pc
      /\ UNCHANGED <<mode, stage, queue, unserved, crashes>>
  BY DEF CountLead, At, suppressionVars
<1>2. Row(w) \in Tasks \X Writers /\ jobRow[Row(w)] \in JobRow
  BY <1>1, RowOfHand
<1>3. jobRow' = [jobRow EXCEPT ![Row(w)] =
                   [jobRow[Row(w)] EXCEPT !.processed = jobRow[Row(w)].processed + 1]]
  BY <1>2 DEF CountLead
<1>4. [jobRow[Row(w)] EXCEPT !.processed = jobRow[Row(w)].processed + 1] \in JobRow
  <2>1. \A n \in Nat : n + 1 \in Nat
    OBVIOUS
  <2>2. jobRow[Row(w)].processed + 1 \in Nat
    BY <1>2, <2>1 DEF JobRow
  <2>3. QED
    BY <1>2, <2>2 DEF JobRow
<1>5. QED
  BY <1>1, <1>2, <1>3, <1>4, RowTypes, GoesTypes, HandMoves DEF JobsTypeOK

LEMMA VerifyNextTypes ==
  ASSUME TypeInv, NEW w \in Workers, VerifyNext(w)
  PROVE  JobsTypeOK' /\ HandsOK'
<1> USE JobFacts
<1>1. hand[w].at = "next" /\ pc[w] = "idle" /\ Goes(w, "count")
      /\ UNCHANGED <<mode, stage, queue, jobRow, unserved, crashes>>
  BY DEF VerifyNext, At
<1>2. pc' = [pc EXCEPT ![w] = "load"]
  BY DEF VerifyNext, StartVerify, Begin
<1>3. \A v \in Workers \ {w} : pc'[v] = pc[v]
  BY <1>2, TypeFacts DEF PlacesOK, Procs
<1>4. QED
  BY <1>1, <1>3, GoesTypes, HandMoves DEF JobsTypeOK

LEMMA UnknownTypes ==
  ASSUME TypeInv, NEW w \in Workers, VerifyUnknown(w)
  PROVE  JobsTypeOK' /\ HandsOK'
<1> USE JobFacts
<1>1. hand[w].at = "next" /\ pc[w] = "idle" /\ Goes(w, "failing") /\ UNCHANGED pc
      /\ UNCHANGED <<mode, stage, queue, jobRow, unserved, crashes>>
  BY DEF VerifyUnknown, At, suppressionVars
<1>2. QED
  BY <1>1, GoesTypes, HandMoves DEF JobsTypeOK

LEMMA CompleteTypes ==
  ASSUME TypeInv, NEW w \in Workers, Complete(w)
  PROVE  JobsTypeOK' /\ HandsOK'
<1> USE JobFacts
<1>1. hand[w].at = "next" /\ pc[w] = "idle" /\ hand' = [hand EXCEPT ![w] = Free] /\ UNCHANGED pc
      /\ UNCHANGED <<mode, stage, queue, unserved, crashes>>
  BY DEF Complete, At, suppressionVars
<1>2. Row(w) \in Tasks \X Writers /\ jobRow[Row(w)] \in JobRow
  BY <1>1, RowOfHand
<1>3. jobRow' = [jobRow EXCEPT ![Row(w)] = [jobRow[Row(w)] EXCEPT !.status = "completed"]]
  BY <1>2 DEF Complete
<1>4. [jobRow[Row(w)] EXCEPT !.status = "completed"] \in JobRow
  BY <1>2 DEF JobRow
<1>5. QED
  BY <1>1, <1>2, <1>3, <1>4, RowTypes, HandSet, FreeIsHand DEF JobsTypeOK

LEMMA FailTypes ==
  ASSUME TypeInv, NEW w \in Workers, Fail(w)
  PROVE  JobsTypeOK' /\ HandsOK'
<1> USE JobFacts
<1>1. hand[w].at = "failing" /\ pc[w] = "idle" /\ hand' = [hand EXCEPT ![w] = Free] /\ UNCHANGED pc
      /\ UNCHANGED <<mode, stage, queue, unserved, crashes>>
  BY DEF Fail, At, suppressionVars
<1>2. PICK x \in Writers : jobRow' = [jobRow EXCEPT ![<<hand[w].task, x>>].status = "failed"]
  BY DEF Fail
<1>3. <<hand[w].task, x>> \in Tasks \X Writers
  BY <1>1, RowOfHand
<1>4. [jobRow[<<hand[w].task, x>>] EXCEPT !.status = "failed"] \in JobRow
  BY <1>3 DEF JobRow
<1>5. jobRow' = [jobRow EXCEPT ![<<hand[w].task, x>>] =
                   [jobRow[<<hand[w].task, x>>] EXCEPT !.status = "failed"]]
  BY <1>2
<1>6. QED
  BY <1>1, <1>3, <1>4, <1>5, RowTypes, HandSet, FreeIsHand DEF JobsTypeOK

LEMMA CrashHandTypes ==
  ASSUME TypeInv, NEW w \in Workers, Crash(w)
  PROVE  JobsTypeOK' /\ HandsOK'
<1> USE JobFacts
<1>1. /\ hand' = [hand EXCEPT ![w] = Free] /\ unserved' = unserved \cup {hand[w].task}
      /\ hand[w].task # NoTask /\ crashes' \in Nat /\ pc' = [pc EXCEPT ![w] = "idle"]
      /\ UNCHANGED <<mode, stage, queue, jobRow>>
  BY DEF Crash, End
<1>2. hand[w].task \in Tasks
  BY <1>1 DEF Hand
<1>3. pc'[w] = "idle" /\ \A v \in Workers \ {w} : pc'[v] = pc[v]
  BY <1>1, TypeFacts DEF PlacesOK, Procs
<1>4. QED
  BY <1>1, <1>2, <1>3, HandSet, FreeIsHand DEF JobsTypeOK

LEMMA InlineTypes ==
  ASSUME TypeInv, NEW w \in Workers, NEW t \in Tasks, RunInline(w, t)
  PROVE  JobsTypeOK' /\ HandsOK'
<1> USE JobFacts
<1> DEFINE h == [task |-> t, row |-> "handler", at |-> "next"]
<1>1. /\ pc[w] = "idle" /\ UNCHANGED pc /\ UNCHANGED <<mode, queue, crashes>>
      /\ stage' = [stage EXCEPT ![t] = "recorded"]
      /\ jobRow' = [jobRow EXCEPT ![<<t, "handler">>] =
                      [jobRow[<<t, "handler">>] EXCEPT !.status = "running"]]
      /\ \/ hand' = [hand EXCEPT ![w] = h] /\ UNCHANGED unserved
         \/ unserved' = unserved \cup {t} /\ UNCHANGED hand
  BY DEF RunInline, At, suppressionVars
<1>2. <<t, "handler">> \in Tasks \X Writers
  BY DEF Writers
<1>3. [jobRow[<<t, "handler">>] EXCEPT !.status = "running"] \in JobRow
  BY <1>2 DEF JobRow
<1>4. jobRow' \in [Tasks \X Writers -> JobRow]
  BY <1>1, <1>2, <1>3, RowTypes
<1>5. h \in Hand /\ h.at # "idle" /\ h.task \in Tasks
  BY DEF Hand, Writers
<1>6. hand' \in [Workers -> Hand] /\ HandsOK'
  BY <1>1, <1>5, HandSet, HandsStay
<1>7. unserved' \subseteq Tasks
  BY <1>1
<1>8. QED
  BY <1>1, <1>4, <1>6, <1>7 DEF JobsTypeOK

LEMMA FindTypes ==
  ASSUME TypeInv, NEW w \in Workers, NEW t \in Tasks, Find(w, t)
  PROVE  JobsTypeOK' /\ HandsOK'
<1> USE JobFacts
<1> DEFINE found == jobRow[<<t, "handler">>].task = t
           h == [task |-> t, row |-> IF found THEN "handler" ELSE "worker", at |-> "mark"]
           r == <<t, "worker">>
<1>1. /\ pc[w] = "idle" /\ UNCHANGED pc /\ UNCHANGED <<mode, stage, unserved, crashes>>
      /\ queue' = queue \ {t} /\ hand' = [hand EXCEPT ![w] = h]
      /\ \/ UNCHANGED jobRow
         \/ jobRow' = [jobRow EXCEPT ![r] = [jobRow[r] EXCEPT !.task = t, !.status = "queued"]]
  BY DEF Find, At, suppressionVars
<1>2. r \in Tasks \X Writers
  BY DEF Writers
<1>3. [jobRow[r] EXCEPT !.task = t, !.status = "queued"] \in JobRow
  BY <1>2 DEF JobRow
<1>4. jobRow' \in [Tasks \X Writers -> JobRow]
  BY <1>1, <1>2, <1>3, RowTypes
<1>5. h \in Hand /\ h.at # "idle" /\ h.task \in Tasks
  BY DEF Hand, Writers
<1> HIDE DEF h
<1>6. hand' \in [Workers -> Hand] /\ HandsOK'
  BY <1>1, <1>5, HandSet
<1>7. QED
  BY <1>1, <1>4, <1>6 DEF JobsTypeOK

\* Together.
LEMMA JobStepTypes ==
  ASSUME TypeInv, JobsNext, UNCHANGED importing
  PROVE  SuppTypes' /\ JobsTypeOK' /\ HandsOK'
<1>1. ASSUME NEW t \in Tasks, QueueBulk(t) \/ Publish(t) \/ PublishFails(t) \/ Record(t)
      PROVE  SuppTypes' /\ JobsTypeOK' /\ HandsOK'
  <2>1. JobsTypeOK'
    BY <1>1, QueueTypes
  <2>2. /\ UNCHANGED <<contact, kind, listed, pc, sess, rowGone, overtaken, raced, torn, hand>>
        /\ ops' \in Nat
    BY <1>1, TypeFacts DEF QueueBulk, Publish, PublishFails, Record, suppressionVars
  <2>3. QED
    BY <2>1, <2>2, QuietTypes, HandsStay
<1>2. ASSUME NEW w \in Workers, Mark(w) \/ VerifyUnknown(w) \/ CountLead(w) \/ Complete(w) \/ Fail(w)
      PROVE  SuppTypes' /\ JobsTypeOK' /\ HandsOK'
  <2>1. JobsTypeOK' /\ HandsOK'
    BY <1>2, MarkTypes, UnknownTypes, CountTypes, CompleteTypes, FailTypes
  <2>2. UNCHANGED suppressionVars
    BY <1>2 DEF Mark, VerifyUnknown, CountLead, Complete, Fail
  <2>3. QED
    BY <2>1, <2>2, QuietTypes, TypeFacts DEF suppressionVars
<1>3. ASSUME NEW w \in Workers, VerifyNext(w)
      PROVE  SuppTypes' /\ JobsTypeOK' /\ HandsOK'
  <2>1. Next1(w) \in Emails /\ StartVerify(w, Next1(w)) /\ pc[w] = "idle" /\ UNCHANGED ops
    BY <1>3 DEF VerifyNext, Exists, At
  <2>2. SuppTypes'
    BY <2>1, BeginSteps DEF Procs
  <2>3. QED
    BY <1>3, <2>2, VerifyNextTypes
<1>4. ASSUME NEW w \in Workers, Crash(w)
      PROVE  SuppTypes' /\ JobsTypeOK' /\ HandsOK'
  BY <1>4, CrashTypes, CrashHandTypes
<1>5. ASSUME NEW w \in Workers, NEW t \in Tasks, RunInline(w, t) \/ Find(w, t)
      PROVE  SuppTypes' /\ JobsTypeOK' /\ HandsOK'
  <2>1. JobsTypeOK' /\ HandsOK'
    BY <1>5, InlineTypes, FindTypes
  <2>2. UNCHANGED suppressionVars
    BY <1>5 DEF RunInline, Find
  <2>3. QED
    BY <2>1, <2>2, QuietTypes, TypeFacts DEF suppressionVars
<1>6. QED
  BY <1>1, <1>2, <1>3, <1>4, <1>5 DEF JobsNext, WorkerStep

\* No suppression or import step puts a worker to verify that did not.
LEMMA WorkersStayPut ==
  ASSUME TypeInv, SuppressionNext \/ ImportNext
  PROVE  \A w \in Workers : pc'[w] # "idle" => pc[w] # "idle"
<1> USE SuppressionAssumption, TypeFacts DEF Procs, PlacesOK
<1>1. ASSUME NEW p \in Clients, NEW at, pc' = [pc EXCEPT ![p] = at]
      PROVE  \A w \in Workers : pc'[w] = pc[w]
  BY <1>1
<1>2. ASSUME NEW p \in Clients, NEW e \in Emails,
             AddSuppression(p, e) \/ Release(p, e) \/ VerifyLead(p, e)
      PROVE  \A w \in Workers : pc'[w] = pc[w]
  BY <1>1, <1>2 DEF AddSuppression, Release, VerifyLead, StartVerify, Begin
<1>3. ASSUME NEW p \in Clients, NEW S \in SUBSET Emails, BulkSuppress(p, S)
      PROVE  \A w \in Workers : pc'[w] = pc[w]
  BY <1>1, <1>3 DEF BulkSuppress, Begin
<1>4. ASSUME NEW p \in Clients, SuppressCommit(p) \/ SuppressConflict(p) \/ ReleaseCommit(p)
      PROVE  \A w \in Workers : pc'[w] = pc[w]
  BY <1>1, <1>4 DEF SuppressCommit, SuppressConflict, Rollback, ReleaseCommit, End
<1>5. ASSUME NEW p \in Clients, NEW e \in Emails, NEW k \in Kinds, SetContactType(p, e, k)
      PROVE  \A w \in Workers : pc'[w] = pc[w]
  BY <1>5 DEF SetContactType
<1>6. ASSUME NEW p \in Procs, LookUp(p)
      PROVE  \A w \in Workers : pc'[w] # "idle" => pc[w] # "idle"
  BY <1>6 DEF LookUp
<1>7. ASSUME NEW p \in Procs, NEW mx \in BOOLEAN, VerifyCommit(p, mx)
      PROVE  \A w \in Workers : pc'[w] # "idle" => pc[w] # "idle"
  BY <1>7 DEF VerifyCommit, End
<1>8. ASSUME ImportNext
      PROVE  \A w \in Workers : pc'[w] = pc[w]
  <2>1. PICK q \in Clients : \/ \E j \in Imports : Upload(q, j) \/ Confirm(q, j)
                             \/ \E j \in Imports, mapping \in Mappings : Map(q, j, mapping)
                             \/ MapCommit(q) \/ ConfirmCommit(q) \/ ConfirmConflict(q)
    BY <1>8 DEF ImportNext
  <2>2. CASE \E j \in Imports : Upload(q, j) \/ Confirm(q, j)
    BY <1>1, <2>2 DEF Upload, Confirm
  <2>3. CASE \E j \in Imports, mapping \in Mappings : Map(q, j, mapping)
    BY <1>1, <2>3 DEF Map
  <2>4. CASE MapCommit(q) \/ ConfirmCommit(q) \/ ConfirmConflict(q)
    <3>1. Close(q)
      BY <2>4 DEF MapCommit, ConfirmCommit, ConfirmConflict
    <3>2. QED
      BY <1>1, <3>1 DEF Close
  <2>5. QED
    BY <2>1, <2>2, <2>3, <2>4
<1>9. QED
  BY <1>2, <1>3, <1>4, <1>5, <1>6, <1>7, <1>8 DEF SuppressionNext, ImportNext

LEMMA InitTypes ==
  ASSUME Init
  PROVE  TypeInv
<1> USE SuppressionAssumption
<1>1. NewContact \in ContactRow /\ Idle \in Session /\ Free \in Hand
  BY FreeIsHand DEF NewContact, ContactRow, Scores, Idle, Session
<1>2. SuppressionTypeOK
  BY <1>1 DEF Init, SuppressionInit, SuppressionTypeOK
<1>3. ImportTypeOK
  <2>1. ASSUME NEW j \in Imports
        PROVE  imports[j] \in ImportJob
    BY DEF Init, ImportInit, ImportJob, ImportRow, RowStatus
  <2>2. QED
    BY <2>1 DEF Init, ImportInit, ImportTypeOK
<1>4. JobsTypeOK
  <2>1. [task |-> NoTask, status |-> "none", processed |-> 0] \in JobRow
    BY DEF JobRow
  <2>2. QED
    BY <1>1, <2>1, JobsAssumption DEF Init, JobsInit, JobsTypeOK
<1>5. PlacesOK /\ RowsLast /\ HandsOK
  BY DEF Init, SuppressionInit, ImportInit, JobsInit, PlacesOK, Place, RowsLast, HandsOK, Free,
         Idle, Procs
<1>6. QED
  BY <1>2, <1>3, <1>4, <1>5 DEF TypeInv, TypeOK

LEMMA StepTypes ==
  ASSUME TypeInv, [Next]_vars
  PROVE  TypeInv'
<1>1. CASE SuppressionNext /\ UNCHANGED <<importVars, jobVars>>
  <2>1. SuppTypes' /\ HandsOK'
    BY <1>1, SuppressionStepTypes, WorkersStayPut, HandsStay DEF importVars, jobVars
  <2>2. ImportTypeOK' /\ JobsTypeOK'
    BY <1>1 DEF importVars, jobVars, TypeInv, TypeOK, ImportTypeOK, JobsTypeOK
  <2>3. QED
    BY <2>1, <2>2 DEF SuppTypes, TypeInv, TypeOK
<1>2. CASE ImportNext /\ UNCHANGED jobVars
  <2>1. SuppTypes' /\ ImportTypeOK' /\ HandsOK'
    BY <1>2, ImportStepTypes, WorkersStayPut, HandsStay DEF jobVars
  <2>2. JobsTypeOK'
    BY <1>2 DEF jobVars, TypeInv, TypeOK, JobsTypeOK
  <2>3. QED
    BY <2>1, <2>2 DEF SuppTypes, TypeInv, TypeOK
<1>3. CASE JobsNext /\ UNCHANGED importVars
  <2>1. SuppTypes' /\ JobsTypeOK' /\ HandsOK'
    BY <1>3, JobStepTypes DEF importVars
  <2>2. ImportTypeOK'
    BY <1>3 DEF importVars, TypeInv, TypeOK, ImportTypeOK
  <2>3. QED
    BY <2>1, <2>2 DEF SuppTypes, TypeInv, TypeOK
<1>4. CASE UNCHANGED vars
  BY <1>4 DEF vars, suppressionVars, importVars, jobVars, TypeInv, TypeOK, SuppressionTypeOK,
              ImportTypeOK, JobsTypeOK, PlacesOK, RowsLast, HandsOK
<1>5. QED
  BY <1>1, <1>2, <1>3, <1>4 DEF Next

LEMMA AlwaysTyped == Spec => []TypeInv
BY InitTypes, StepTypes, PTL DEF Spec

\* Type correctness: contacts, sessions, imports and verification jobs stay
\* what the columns allow, whatever requests, workers and crashes do.
THEOREM ContactsTypeCorrect == Spec => []TypeOK
<1>1. TypeInv => TypeOK
  BY DEF TypeInv
<1>2. QED
  BY <1>1, AlwaysTyped, PTL

=============================================================================
