------------------------ MODULE ContactsSafetyProofs ------------------------
(***************************************************************************)
(* Proofs about what suppression, verification and import promise.         *)
(* Everything rests on what a session knows: one that nobody has overtaken *)
(* holds the rows as they are, and leaves list, flags and verdict in       *)
(* agreement.                                                              *)
(***************************************************************************)
EXTENDS ContactsProofs

KnowsInv ==
  /\ \A p \in rowGone : p \in overtaken /\ pc[p] = "release"
  /\ \A p \in Procs \ overtaken :
       /\ \A e \in sess[p].on : sess[p].row[e] = contact[e]
       /\ pc[p] \in {"suppress", "dns"} => sess[p].known = listed \cap sess[p].on
       /\ pc[p] = "release" => sess[p].on \subseteq listed

\* List and flags say the same of a contact, or its verdict blocks it anyway.
AgreeInv ==
  \A e \in Exists \ raced :
    IF e \in listed
    THEN contact[e].suppressed \/ contact[e].status \notin {"valid", "risky"}
    ELSE ~contact[e].suppressed /\ contact[e].unsub = "subscribed"

ListInv == TypeInv /\ KnowsInv /\ AgreeInv /\ VerdictIsWhole

-----------------------------------------------------------------------------
(* What a commit leaves in a contact.                                      *)

LEMMA FreshWrite ==
  ASSUME NEW c \in ContactRow, NEW n \in ContactRow
  PROVE  /\ Written(c, n, c).suppressed = n.suppressed
         /\ Written(c, n, c).unsub = n.unsub
         /\ Written(c, n, c).status = n.status
         /\ Written(c, n, c).score = n.score
         /\ Written(c, n, c).integrity = n.integrity
BY DEF Written, Column

\* A contact of the session is written, no other is.
LEMMA CommitWrites ==
  ASSUME TypeInv, KnowsInv, NEW p \in Procs, NEW mx \in BOOLEAN, Commits(p, mx),
         NEW e \in Emails
  PROVE  /\ e \notin sess[p].on => contact'[e] = contact[e]
         /\ e \in sess[p].on /\ p \notin overtaken /\ contact[e] # NoContact =>
              /\ sess[p].row[e] = contact[e] /\ contact[e] \in ContactRow
              /\ New(p, mx, contact[e]) \in ContactRow
              /\ contact'[e] = Written(contact[e], New(p, mx, contact[e]), contact[e])
<1> USE TypeFacts
<1>1. e \notin sess[p].on => sess[p].row[e] = NoContact
  BY DEF RowsLast
<1>2. e \in sess[p].on /\ p \notin overtaken => sess[p].row[e] = contact[e]
  BY DEF KnowsInv
<1>3. contact[e] # NoContact => contact[e] \in ContactRow
  OBVIOUS
<1>4. QED
  BY <1>1, <1>2, <1>3, CommitStores, NewIsRow

LEMMA CommitList ==
  ASSUME TypeInv, KnowsInv, NEW p \in Procs, NEW mx \in BOOLEAN, Commits(p, mx),
         NEW e \in Emails
  PROVE  /\ e \notin sess[p].on => /\ e \in listed' <=> e \in listed
                                   /\ e \in raced' <=> e \in raced
                                   /\ e \in torn' <=> e \in torn
         /\ pc[p] \in {"suppress", "release", "dns"}
         /\ pc[p] = "suppress" => SuppressCommit(p)
         /\ pc[p] = "release" => ReleaseCommit(p)
         /\ pc[p] = "dns" => VerifyCommit(p, mx)
<1>1. pc[p] \in {"suppress", "release", "dns"}
         /\ (pc[p] = "suppress" => SuppressCommit(p))
         /\ (pc[p] = "release" => ReleaseCommit(p))
         /\ (pc[p] = "dns" => VerifyCommit(p, mx))
  BY DEF Commits, SuppressCommit, ReleaseCommit, VerifyCommit
<1>2. CASE SuppressCommit(p)
  BY <1>1, <1>2 DEF SuppressCommit, Marks
<1>3. CASE ReleaseCommit(p)
  BY <1>1, <1>3 DEF ReleaseCommit, Deleted, Marks
<1>4. CASE VerifyCommit(p, mx)
  BY <1>1, <1>4 DEF VerifyCommit
<1>5. QED
  BY <1>2, <1>3, <1>4 DEF Commits

LEMMA CommitKeepsKnows ==
  ASSUME TypeInv, KnowsInv, NEW p \in Procs, NEW mx \in BOOLEAN, Commits(p, mx)
  PROVE  KnowsInv'
<1> USE TypeFacts
<1>1. /\ pc' = [pc EXCEPT ![p] = "idle"] /\ sess' = [sess EXCEPT ![p] = Idle]
      /\ overtaken' = (overtaken \cup Others(p, sess[p].on)) \ {p}
  BY DEF Commits, SuppressCommit, ReleaseCommit, VerifyCommit, End, Overtakes
<1>2. rowGone' \subseteq (rowGone \cup {q \in Others(p, sess[p].on) : pc[q] = "release"}) \ {p}
  <2>1. CASE SuppressCommit(p) \/ VerifyCommit(p, mx)
    BY <2>1 DEF SuppressCommit, VerifyCommit, KnowsInv
  <2>2. CASE ReleaseCommit(p)
    <3>1. Others(p, Deleted(p)) \subseteq Others(p, sess[p].on)
      BY DEF Others, Deleted
    <3>2. QED
      BY <2>2, <3>1 DEF ReleaseCommit
  <2>3. QED
    BY <2>1, <2>2 DEF Commits
<1>3. \A q \in Others(p, sess[p].on) : q \in Procs /\ q # p
  BY DEF Others
<1>4. ASSUME NEW q \in rowGone'
      PROVE  q \in overtaken' /\ pc'[q] = "release"
  BY <1>1, <1>2, <1>3 DEF KnowsInv, PlacesOK
<1>5. ASSUME NEW q \in Procs \ overtaken'
      PROVE  /\ \A e \in sess'[q].on : sess'[q].row[e] = contact'[e]
             /\ pc'[q] \in {"suppress", "dns"} => sess'[q].known = listed' \cap sess'[q].on
             /\ pc'[q] = "release" => sess'[q].on \subseteq listed'
  <2>1. CASE q = p
    BY <1>1, <2>1 DEF Idle, PlacesOK
  <2>2. CASE q # p
    <3>1. /\ q \notin overtaken /\ sess[q].on \cap sess[p].on = {}
          /\ sess'[q] = sess[q] /\ pc'[q] = pc[q]
      BY <1>1, <2>2 DEF Others, PlacesOK
    <3>2. \A e \in sess[q].on : e \in Emails /\ e \notin sess[p].on
      BY <3>1
    <3>3. \A e \in sess[q].on : contact'[e] = contact[e] /\ (e \in listed' <=> e \in listed)
      BY <3>2, CommitWrites, CommitList
    <3>4. listed' \cap sess[q].on = listed \cap sess[q].on
      BY <3>3
    <3>5. QED
      BY <3>1, <3>3, <3>4 DEF KnowsInv
  <2>3. QED
    BY <2>1, <2>2
<1>6. QED
  BY <1>4, <1>5 DEF KnowsInv

\* A session that was not overtaken puts list, flags and verdict in order.
LEMMA CommitKeepsAgree ==
  ASSUME TypeInv, KnowsInv, AgreeInv, NEW p \in Procs, NEW mx \in BOOLEAN, Commits(p, mx)
  PROVE  AgreeInv'
<1> USE TypeFacts
<1>1. SUFFICES ASSUME NEW e \in Emails, contact'[e] # NoContact, e \notin raced'
               PROVE  IF e \in listed'
                      THEN contact'[e].suppressed \/ contact'[e].status \notin {"valid", "risky"}
                      ELSE ~contact'[e].suppressed /\ contact'[e].unsub = "subscribed"
  BY DEF AgreeInv, Exists
<1>2. contact[e] # NoContact
  BY <1>1, CommitKeepsRows
<1>3. CASE e \notin sess[p].on
  BY <1>1, <1>2, <1>3, CommitWrites, CommitList DEF AgreeInv, Exists
<1>4. CASE e \in sess[p].on /\ pc[p] = "suppress"
  <2>1. p \notin overtaken /\ listed' = listed \cup (sess[p].on \ sess[p].known)
    BY <1>1, <1>4, CommitList DEF SuppressCommit, Marks
  <2>2. e \in listed'
    BY <1>4, <2>1 DEF KnowsInv
  <2>3. New(p, mx, contact[e]).suppressed = TRUE
    BY <1>2, <1>4 DEF New, Flagged, ContactRow
  <2>4. QED
    BY <1>2, <1>4, <2>1, <2>2, <2>3, CommitWrites, FreshWrite
<1>5. CASE e \in sess[p].on /\ pc[p] = "release"
  <2>1. p \notin overtaken
    BY <1>1, <1>5, CommitList DEF ReleaseCommit, Marks
  <2>2. p \notin rowGone
    BY <2>1 DEF KnowsInv
  <2>3. e \notin listed'
    BY <1>5, <2>2, CommitList DEF ReleaseCommit, Deleted
  <2>4. New(p, mx, contact[e]).suppressed = FALSE /\ New(p, mx, contact[e]).unsub = "subscribed"
    BY <1>2, <1>5 DEF New, Released, ContactRow
  <2>5. QED
    BY <1>2, <1>5, <2>1, <2>3, <2>4, CommitWrites, FreshWrite
<1>6. CASE e \in sess[p].on /\ pc[p] = "dns"
  <2>1. p \notin overtaken /\ e \notin raced /\ listed' = listed
    BY <1>1, <1>6, CommitList DEF VerifyCommit
  <2>2. sess[p].on = {e} /\ sess[p].known = listed \cap {e}
    <3>1. sess[p].on = {e}
      BY <1>6 DEF PlacesOK
    <3>2. QED
      BY <1>6, <2>1, <3>1 DEF KnowsInv
  <2>3. (sess[p].known # {}) = (e \in listed)
    BY <2>2
  <2>4. /\ New(p, mx, contact[e]).suppressed = (e \in listed)
        /\ New(p, mx, contact[e]).unsub = contact[e].unsub
    <3>1. contact[e] \in ContactRow
      BY <1>2
    <3>2. New(p, mx, contact[e])
          = VerifiedAs(CHOOSE x \in sess[p].on : TRUE, mx, sess[p].known # {}, contact[e])
      BY <1>6 DEF New
    <3>3. QED
      BY <2>3, <3>1, <3>2 DEF VerifiedAs, ContactRow
  <2>5. contact'[e].suppressed = (e \in listed) /\ contact'[e].unsub = contact[e].unsub
    BY <1>2, <1>6, <2>1, <2>4, CommitWrites, FreshWrite
  <2>6. QED
    BY <1>2, <2>1, <2>5 DEF AgreeInv, Exists
<1>7. QED
  BY <1>3, <1>4, <1>5, <1>6, CommitList

-----------------------------------------------------------------------------
(* Verdicts.                                                               *)

Whole(e, row) ==
  \/ row.status = "unverified" /\ row.score = 0
  \/ \E mx, s \in BOOLEAN :
       LET v == VerifiedAs(e, mx, s, row)
       IN <<v.status, v.score, v.integrity>> = <<row.status, row.score, row.integrity>>

LEMMA VerdictColumns ==
  ASSUME NEW e \in Emails, NEW mx \in BOOLEAN, NEW s \in BOOLEAN, NEW row \in ContactRow
  PROVE  /\ VerifiedAs(e, mx, s, row).status = DetermineStatus(FlagsOf(e, mx, s))
         /\ VerifiedAs(e, mx, s, row).score = Score(FlagsOf(e, mx, s))
         /\ VerifiedAs(e, mx, s, row).integrity = Integrity(FlagsOf(e, mx, s))
<1> DEFINE f == FlagsOf(e, mx, s)
<1> HIDE DEF f
<1>1. VerifiedAs(e, mx, s, row)
      = [row EXCEPT !.suppressed = s, !.status = DetermineStatus(f), !.score = Score(f),
                    !.integrity = Integrity(f)]
  BY DEF VerifiedAs, f
<1>2. QED
  BY <1>1 DEF ContactRow, f

LEMMA WholeIsOfColumns ==
  ASSUME NEW e \in Emails, NEW a \in ContactRow, NEW b \in ContactRow, Whole(e, a),
         b.status = a.status, b.score = a.score, b.integrity = a.integrity
  PROVE  Whole(e, b)
<1>1. CASE a.status = "unverified" /\ a.score = 0
  BY <1>1 DEF Whole
<1>2. CASE \E mx, s \in BOOLEAN :
             LET v == VerifiedAs(e, mx, s, a)
             IN <<v.status, v.score, v.integrity>> = <<a.status, a.score, a.integrity>>
  <2>1. PICK mx \in BOOLEAN, s \in BOOLEAN :
               /\ VerifiedAs(e, mx, s, a).status = a.status
               /\ VerifiedAs(e, mx, s, a).score = a.score
               /\ VerifiedAs(e, mx, s, a).integrity = a.integrity
    BY <1>2
  <2>2. /\ VerifiedAs(e, mx, s, b).status = b.status
        /\ VerifiedAs(e, mx, s, b).score = b.score
        /\ VerifiedAs(e, mx, s, b).integrity = b.integrity
    BY <2>1, VerdictColumns
  <2>3. QED
    BY <2>2 DEF Whole
<1>3. QED
  BY <1>1, <1>2 DEF Whole

LEMMA CommitKeepsWhole ==
  ASSUME TypeInv, KnowsInv, VerdictIsWhole, NEW p \in Procs, NEW mx \in BOOLEAN, Commits(p, mx)
  PROVE  VerdictIsWhole'
<1> USE TypeFacts
<1>1. SUFFICES ASSUME NEW e \in Emails, contact'[e] # NoContact, e \notin torn'
               PROVE  Whole(e, contact'[e])
  BY DEF VerdictIsWhole, Exists, Whole
<1>2. contact[e] # NoContact /\ contact[e] \in ContactRow /\ contact'[e] \in ContactRow
  BY <1>1, CommitKeepsRows
<1>3. e \notin torn => Whole(e, contact[e])
  BY <1>2 DEF VerdictIsWhole, Exists, Whole
<1>4. CASE e \notin sess[p].on
  BY <1>1, <1>3, <1>4, CommitWrites, CommitList
<1>5. CASE e \in sess[p].on /\ pc[p] \in {"suppress", "release"}
  <2>1. torn' = torn
    BY <1>5, CommitList DEF SuppressCommit, ReleaseCommit
  <2>2. CASE sess[p].row[e] = NoContact
    <3>1. contact'[e] = contact[e]
      BY <2>2, CommitStores
    <3>2. QED
      BY <1>1, <1>3, <2>1, <3>1
  <2>3. CASE sess[p].row[e] # NoContact
    <3> DEFINE row == sess[p].row[e]
    <3>1. row \in ContactRow
      BY <2>3 DEF Session
    <3>2. contact'[e] = Written(row, New(p, mx, row), contact[e])
      BY <2>3, CommitStores
    <3>3. /\ New(p, mx, row).status = row.status /\ New(p, mx, row).score = row.score
          /\ New(p, mx, row).integrity = row.integrity
      BY <1>5, <3>1 DEF New, Flagged, Released, ContactRow
    <3> HIDE DEF row
    <3>4. /\ contact'[e].status = contact[e].status /\ contact'[e].score = contact[e].score
          /\ contact'[e].integrity = contact[e].integrity
      BY <3>2, <3>3 DEF Written, Column
    <3>5. QED
      BY <1>1, <1>2, <1>3, <2>1, <3>4, WholeIsOfColumns
  <2>4. QED
    BY <2>2, <2>3
<1>6. CASE e \in sess[p].on /\ pc[p] = "dns"
  <2>1. p \notin overtaken
    BY <1>1, <1>6, CommitList DEF VerifyCommit
  <2>2. sess[p].on = {e}
    BY <1>6 DEF PlacesOK
  <2>3. (CHOOSE x \in sess[p].on : TRUE) = e
    BY <2>2
  <2>4. New(p, mx, contact[e]) = VerifiedAs(e, mx, sess[p].known # {}, contact[e])
    BY <1>6, <2>3 DEF New
  <2>5. PICK s \in BOOLEAN : s = (sess[p].known # {})
    OBVIOUS
  <2>6. /\ contact'[e].status = DetermineStatus(FlagsOf(e, mx, s))
        /\ contact'[e].score = Score(FlagsOf(e, mx, s))
        /\ contact'[e].integrity = Integrity(FlagsOf(e, mx, s))
    <3>1. contact'[e] = Written(contact[e], New(p, mx, contact[e]), contact[e])
          /\ New(p, mx, contact[e]) \in ContactRow
      BY <1>2, <1>6, <2>1, CommitWrites
    <3>2. New(p, mx, contact[e]) = VerifiedAs(e, mx, s, contact[e])
      BY <2>4, <2>5
    <3>3. /\ contact'[e].status = New(p, mx, contact[e]).status
          /\ contact'[e].score = New(p, mx, contact[e]).score
          /\ contact'[e].integrity = New(p, mx, contact[e]).integrity
      BY <1>2, <3>1, FreshWrite
    <3>4. QED
      BY <1>2, <3>2, <3>3, VerdictColumns
  <2>7. /\ VerifiedAs(e, mx, s, contact'[e]).status = contact'[e].status
        /\ VerifiedAs(e, mx, s, contact'[e]).score = contact'[e].score
        /\ VerifiedAs(e, mx, s, contact'[e]).integrity = contact'[e].integrity
    BY <1>2, <2>6, VerdictColumns
  <2>8. QED
    BY <2>7 DEF Whole
<1>7. QED
  BY <1>4, <1>5, <1>6, CommitList

-----------------------------------------------------------------------------
(* The other steps.                                                        *)

\* A step that leaves table and list alone.
LEMMA NothingWritten ==
  ASSUME ListInv, UNCHANGED <<contact, listed, raced, torn>>
  PROVE  AgreeInv' /\ VerdictIsWhole'
BY DEF ListInv, AgreeInv, VerdictIsWhole, Exists

\* ... and every session that does anything but verify.
LEMMA SessionsKept ==
  ASSUME TypeInv, KnowsInv, UNCHANGED <<contact, listed, sess, rowGone, overtaken>>,
         \A p \in Procs : \/ pc'[p] = pc[p]
                          \/ sess[p] = Idle /\ pc'[p] # "release" /\ pc[p] # "release"
  PROVE  KnowsInv'
BY TypeFacts DEF KnowsInv, Idle

LEMMA BeginKnows ==
  ASSUME TypeInv, KnowsInv, NEW p \in Procs, NEW S \in SUBSET Emails, NEW at, NEW known,
         Begin(p, S, at, known), pc[p] = "idle",
         UNCHANGED <<contact, listed, rowGone, overtaken>>,
         at \in {"suppress", "dns"} => known = listed \cap S,
         at = "release" => S \subseteq listed
  PROVE  KnowsInv'
<1> USE TypeFacts
<1> DEFINE row == [e \in Emails |-> IF e \in S THEN contact[e] ELSE NoContact]
<1>1. /\ pc' = [pc EXCEPT ![p] = at]
      /\ sess' = [sess EXCEPT ![p] = [on |-> S, row |-> row, known |-> known]]
  BY DEF Begin
<1>2. ASSUME NEW q \in rowGone
      PROVE  q \in overtaken /\ pc'[q] = "release"
  BY <1>1 DEF KnowsInv, PlacesOK
<1>3. ASSUME NEW q \in Procs \ overtaken
      PROVE  /\ \A e \in sess'[q].on : sess'[q].row[e] = contact[e]
             /\ pc'[q] \in {"suppress", "dns"} => sess'[q].known = listed \cap sess'[q].on
             /\ pc'[q] = "release" => sess'[q].on \subseteq listed
  <2>1. CASE q = p
    <3>1. sess'[p].on = S /\ sess'[p].row = row /\ sess'[p].known = known /\ pc'[p] = at
      BY <1>1 DEF PlacesOK
    <3>2. \A e \in S : row[e] = contact[e]
      OBVIOUS
    <3>3. QED
      BY <2>1, <3>1, <3>2
  <2>2. CASE q # p
    BY <1>1, <2>2 DEF KnowsInv, PlacesOK
  <2>3. QED
    BY <2>1, <2>2
<1>4. QED
  BY <1>2, <1>3 DEF KnowsInv

LEMMA EndKnows ==
  ASSUME TypeInv, KnowsInv, NEW p \in Procs, End(p), UNCHANGED <<contact, listed>>,
         overtaken' = overtaken \ {p}, rowGone' = rowGone \ {p}
  PROVE  KnowsInv'
<1> USE TypeFacts
<1>1. pc' = [pc EXCEPT ![p] = "idle"] /\ sess' = [sess EXCEPT ![p] = Idle]
  BY DEF End
<1>2. ASSUME NEW q \in Procs
      PROVE  IF q = p THEN sess'[q] = Idle /\ pc'[q] = "idle"
             ELSE sess'[q] = sess[q] /\ pc'[q] = pc[q]
  BY <1>1 DEF PlacesOK
<1>3. QED
  BY <1>2 DEF KnowsInv, Idle

LEMMA LookUpKnows ==
  ASSUME TypeInv, KnowsInv, NEW p \in Procs, LookUp(p)
  PROVE  KnowsInv'
<1> USE TypeFacts
<1> DEFINE at == IF pc[p] = "bulk" THEN "suppress" ELSE "dns"
<1>1. /\ pc[p] \in {"bulk", "load"} /\ pc' = [pc EXCEPT ![p] = at]
      /\ sess' = [sess EXCEPT ![p].known = listed \cap sess[p].on]
      /\ UNCHANGED <<contact, listed, rowGone, overtaken>>
  BY DEF LookUp
<1>2. ASSUME NEW q \in Procs
      PROVE  /\ sess'[q].on = sess[q].on /\ sess'[q].row = sess[q].row
             /\ IF q = p THEN sess'[q].known = listed \cap sess[q].on /\ pc'[q] = at
                ELSE sess'[q] = sess[q] /\ pc'[q] = pc[q]
  BY <1>1 DEF PlacesOK, Session
<1>3. QED
  BY <1>1, <1>2 DEF KnowsInv

LEMMA AddKnows ==
  ASSUME TypeInv, KnowsInv, NEW p \in Clients, ConfirmCommit(p)
  PROVE  KnowsInv'
<1> USE TypeFacts
<1> DEFINE S == AddressesOf(p)
<1>1. /\ contact' = [e \in Emails |-> IF e \in S THEN NewContact ELSE contact[e]]
      /\ overtaken' = overtaken \cup Others(p, S)
      /\ pc' = [pc EXCEPT ![p] = "idle"] /\ pc[p] = "confirm" /\ UNCHANGED <<listed, sess, rowGone>>
  BY DEF ConfirmCommit, AddContacts, Close
<1>2. ASSUME NEW q \in Procs
      PROVE  pc'[q] = pc[q] \/ (q = p /\ pc'[q] = "idle")
  <2>1. CASE q = p
    BY <1>1, <2>1 DEF PlacesOK
  <2>2. CASE q # p
    BY <1>1, <2>2 DEF PlacesOK
  <2>3. QED
    BY <2>1, <2>2
<1>3. p \in Procs /\ sess[p] = Idle
  BY <1>1 DEF PlacesOK, Procs
<1>4. ASSUME NEW q \in rowGone
      PROVE  q \in overtaken' /\ pc'[q] = "release"
  BY <1>1, <1>2 DEF KnowsInv
<1>5. ASSUME NEW q \in Procs \ overtaken'
      PROVE  /\ \A e \in sess[q].on : sess[q].row[e] = contact'[e]
             /\ pc'[q] \in {"suppress", "dns"} => sess[q].known = listed \cap sess[q].on
             /\ pc'[q] = "release" => sess[q].on \subseteq listed
  <2>1. q \notin overtaken /\ (q = p \/ sess[q].on \cap S = {})
    BY <1>1 DEF Others
  <2>2. sess[q].on \cap S = {}
    BY <1>3, <2>1 DEF Idle
  <2>3. \A e \in sess[q].on : contact'[e] = contact[e]
    BY <1>1, <2>2
  <2>4. QED
    BY <1>2, <2>1, <2>3 DEF KnowsInv
<1>6. sess' = sess /\ listed' = listed /\ rowGone' = rowGone
  BY <1>1
<1> HIDE DEF S
<1>7. QED
  BY ONLY <1>4, <1>5, <1>6 DEF KnowsInv

LEMMA AddKeepsAgree ==
  ASSUME ListInv, NEW p \in Clients, ConfirmCommit(p)
  PROVE  AgreeInv' /\ VerdictIsWhole'
<1> USE TypeFacts DEF ListInv
<1>1. /\ contact' = [e \in Emails |-> IF e \in AddressesOf(p) THEN NewContact ELSE contact[e]]
      /\ UNCHANGED <<listed, raced, torn>>
  BY DEF ConfirmCommit, AddContacts
<1>2. /\ NewContact.status = "unverified" /\ NewContact.score = 0 /\ ~NewContact.suppressed
      /\ NewContact.unsub = "subscribed"
  BY DEF NewContact
<1> HIDE DEF NewContact
<1>3. AgreeInv'
  BY <1>1, <1>2 DEF AgreeInv, Exists
<1>4. ASSUME NEW e \in Emails, contact'[e] # NoContact, e \notin torn
      PROVE  Whole(e, contact'[e])
  <2>1. CASE e \in AddressesOf(p)
    BY <1>1, <1>2, <2>1 DEF Whole
  <2>2. CASE e \notin AddressesOf(p)
    BY <1>1, <1>4, <2>2 DEF VerdictIsWhole, Whole, Exists
  <2>3. QED
    BY <2>1, <2>2
<1>5. VerdictIsWhole'
  BY <1>1, <1>4 DEF VerdictIsWhole, Whole, Exists
<1>6. QED
  BY <1>3, <1>5

\* Every step of the composition.
LEMMA ClientBegins ==
  ASSUME ListInv, NEW p \in Procs,
         \/ \E e \in Emails : AddSuppression(p, e) \/ Release(p, e) \/ VerifyLead(p, e)
         \/ \E S \in SUBSET Emails : BulkSuppress(p, S)
  PROVE  KnowsInv' /\ UNCHANGED <<contact, listed, raced, torn>>
<1> USE DEF ListInv
<1>1. CASE \E e \in Emails : AddSuppression(p, e)
  <2>1. PICK e \in Emails : AddSuppression(p, e)
    BY <1>1
  <2>2. /\ Begin(p, {e}, "suppress", {}) /\ pc[p] = "idle" /\ {} = listed \cap {e}
        /\ UNCHANGED <<contact, listed, rowGone, overtaken, raced, torn>>
    BY <2>1 DEF AddSuppression, Request
  <2>3. KnowsInv'
    BY <2>2, BeginKnows
  <2>4. QED
    BY <2>2, <2>3
<1>2. CASE \E e \in Emails : Release(p, e)
  <2>1. PICK e \in Emails : Release(p, e)
    BY <1>2
  <2>2. /\ Begin(p, {e}, "release", {e}) /\ pc[p] = "idle" /\ {e} \subseteq listed
        /\ UNCHANGED <<contact, listed, rowGone, overtaken, raced, torn>>
    BY <2>1 DEF Release, Request
  <2>3. KnowsInv'
    BY <2>2, BeginKnows
  <2>4. QED
    BY <2>2, <2>3
<1>3. CASE \E e \in Emails : VerifyLead(p, e)
  <2>1. PICK e \in Emails : VerifyLead(p, e)
    BY <1>3
  <2>2. /\ Begin(p, {e}, "load", {}) /\ pc[p] = "idle"
        /\ UNCHANGED <<contact, listed, rowGone, overtaken, raced, torn>>
    BY <2>1 DEF VerifyLead, StartVerify, Request
  <2>3. KnowsInv'
    BY <2>2, BeginKnows
  <2>4. QED
    BY <2>2, <2>3
<1>4. CASE \E S \in SUBSET Emails : BulkSuppress(p, S)
  <2>1. PICK S \in SUBSET Emails : BulkSuppress(p, S)
    BY <1>4
  <2>2. /\ Begin(p, S, "bulk", {}) /\ pc[p] = "idle"
        /\ UNCHANGED <<contact, listed, rowGone, overtaken, raced, torn>>
    BY <2>1 DEF BulkSuppress, Request
  <2>3. KnowsInv'
    BY <2>2, BeginKnows
  <2>4. QED
    BY <2>2, <2>3
<1>5. QED
  BY <1>1, <1>2, <1>3, <1>4

LEMMA SuppressionKeepsList ==
  ASSUME ListInv, SuppressionNext
  PROVE  KnowsInv' /\ AgreeInv' /\ VerdictIsWhole'
<1> USE TypeFacts DEF ListInv, Procs
<1>1. ASSUME NEW p \in Clients,
             \/ \E e \in Emails : AddSuppression(p, e) \/ Release(p, e) \/ VerifyLead(p, e)
             \/ \E S \in SUBSET Emails : BulkSuppress(p, S)
      PROVE  KnowsInv' /\ AgreeInv' /\ VerdictIsWhole'
  BY <1>1, ClientBegins, NothingWritten
<1>2. ASSUME NEW p \in Procs, NEW mx \in BOOLEAN, Commits(p, mx)
      PROVE  KnowsInv' /\ AgreeInv' /\ VerdictIsWhole'
  BY <1>2, CommitKeepsKnows, CommitKeepsAgree, CommitKeepsWhole
<1>3. ASSUME NEW p \in Clients, SuppressConflict(p)
      PROVE  KnowsInv' /\ AgreeInv' /\ VerdictIsWhole'
  <2>1. /\ End(p) /\ overtaken' = overtaken \ {p} /\ rowGone' = rowGone \ {p}
        /\ UNCHANGED <<contact, listed, raced, torn>>
    BY <1>3 DEF SuppressConflict, Rollback
  <2>2. QED
    BY <2>1, EndKnows, NothingWritten
<1>4. ASSUME NEW p \in Clients, NEW e \in Emails, NEW k \in Kinds, SetContactType(p, e, k)
      PROVE  KnowsInv' /\ AgreeInv' /\ VerdictIsWhole'
  <2>1. UNCHANGED <<contact, listed, pc, sess, rowGone, overtaken, raced, torn>>
    BY <1>4 DEF SetContactType
  <2>2. QED
    BY <2>1, SessionsKept, NothingWritten
<1>5. ASSUME NEW p \in Procs, LookUp(p)
      PROVE  KnowsInv' /\ AgreeInv' /\ VerdictIsWhole'
  <2>1. UNCHANGED <<contact, listed, raced, torn>>
    BY <1>5 DEF LookUp
  <2>2. QED
    BY <1>5, <2>1, LookUpKnows, NothingWritten
<1>6. ASSUME NEW p \in Clients, SuppressCommit(p) \/ ReleaseCommit(p)
      PROVE  KnowsInv' /\ AgreeInv' /\ VerdictIsWhole'
  <2>1. Commits(p, TRUE)
    BY <1>6 DEF Commits
  <2>2. QED
    BY <1>2, <2>1
<1>7. ASSUME NEW p \in Procs, NEW mx \in BOOLEAN, VerifyCommit(p, mx)
      PROVE  KnowsInv' /\ AgreeInv' /\ VerdictIsWhole'
  BY <1>2, <1>7 DEF Commits
<1>8. QED
  BY <1>1, <1>3, <1>4, <1>5, <1>6, <1>7 DEF SuppressionNext

LEMMA ImportKeepsList ==
  ASSUME ListInv, ImportNext
  PROVE  KnowsInv' /\ AgreeInv' /\ VerdictIsWhole'
<1> USE TypeFacts DEF ListInv
<1>1. ASSUME NEW p \in Clients, NEW at, at # "release", pc[p] # "release", sess[p] = Idle,
             pc' = [pc EXCEPT ![p] = at] \/ UNCHANGED pc,
             UNCHANGED <<contact, listed, sess, rowGone, overtaken, raced, torn>>
      PROVE  KnowsInv' /\ AgreeInv' /\ VerdictIsWhole'
  <2>1. \A q \in Procs : \/ pc'[q] = pc[q]
                         \/ sess[q] = Idle /\ pc'[q] # "release" /\ pc[q] # "release"
    BY <1>1 DEF PlacesOK
  <2>2. QED
    BY <1>1, <2>1, SessionsKept, NothingWritten
<1>2. \A p \in Clients : pc[p] \in {"idle", "map", "confirm"} => sess[p] = Idle
  BY DEF PlacesOK, Procs
<1>3. ASSUME NEW p \in Clients, NEW j \in Imports, Upload(p, j)
      PROVE  KnowsInv' /\ AgreeInv' /\ VerdictIsWhole'
  BY <1>1, <1>2, <1>3 DEF Upload, Request
<1>4. ASSUME NEW p \in Clients, NEW j \in Imports, NEW m \in Mappings, Map(p, j, m)
      PROVE  KnowsInv' /\ AgreeInv' /\ VerdictIsWhole'
  BY <1>1, <1>2, <1>4 DEF Map, Request
<1>5. ASSUME NEW p \in Clients, NEW j \in Imports, Confirm(p, j)
      PROVE  KnowsInv' /\ AgreeInv' /\ VerdictIsWhole'
  BY <1>1, <1>2, <1>5 DEF Confirm, Request
<1>6. ASSUME NEW p \in Clients, MapCommit(p)
      PROVE  KnowsInv' /\ AgreeInv' /\ VerdictIsWhole'
  BY <1>1, <1>2, <1>6 DEF MapCommit, Close
<1>7. ASSUME NEW p \in Clients, ConfirmConflict(p)
      PROVE  KnowsInv' /\ AgreeInv' /\ VerdictIsWhole'
  BY <1>1, <1>2, <1>7 DEF ConfirmConflict, Close
<1>8. ASSUME NEW p \in Clients, ConfirmCommit(p)
      PROVE  KnowsInv' /\ AgreeInv' /\ VerdictIsWhole'
  BY <1>8, AddKnows, AddKeepsAgree
<1>9. QED
  BY <1>3, <1>4, <1>5, <1>6, <1>7, <1>8 DEF ImportNext

LEMMA JobsKeepList ==
  ASSUME ListInv, JobsNext
  PROVE  KnowsInv' /\ AgreeInv' /\ VerdictIsWhole'
<1> USE TypeFacts DEF ListInv
<1>1. ASSUME UNCHANGED <<contact, listed, pc, sess, rowGone, overtaken, raced, torn>>
      PROVE  KnowsInv' /\ AgreeInv' /\ VerdictIsWhole'
  BY <1>1, SessionsKept, NothingWritten
<1>2. ASSUME NEW t \in Tasks, QueueBulk(t) \/ Publish(t) \/ PublishFails(t) \/ Record(t)
      PROVE  KnowsInv' /\ AgreeInv' /\ VerdictIsWhole'
  BY <1>1, <1>2 DEF QueueBulk, Publish, PublishFails, Record, suppressionVars
<1>3. ASSUME NEW w \in Workers, Mark(w) \/ VerifyUnknown(w) \/ CountLead(w) \/ Complete(w) \/ Fail(w)
      PROVE  KnowsInv' /\ AgreeInv' /\ VerdictIsWhole'
  BY <1>1, <1>3 DEF Mark, VerifyUnknown, CountLead, Complete, Fail, suppressionVars
<1>4. ASSUME NEW w \in Workers, NEW t \in Tasks, RunInline(w, t) \/ Find(w, t)
      PROVE  KnowsInv' /\ AgreeInv' /\ VerdictIsWhole'
  BY <1>1, <1>4 DEF RunInline, Find, suppressionVars
<1>5. ASSUME NEW w \in Workers, VerifyNext(w)
      PROVE  KnowsInv' /\ AgreeInv' /\ VerdictIsWhole'
  <2>1. PICK e \in Emails : e = Next1(w)
    BY <1>5 DEF VerifyNext, Exists
  <2>2. /\ Begin(w, {e}, "load", {}) /\ pc[w] = "idle" /\ w \in Procs
        /\ UNCHANGED <<contact, listed, rowGone, overtaken, raced, torn>>
    BY <1>5, <2>1 DEF VerifyNext, StartVerify, At, Procs
  <2>3. QED
    BY <2>2, BeginKnows, NothingWritten
<1>6. ASSUME NEW w \in Workers, Crash(w)
      PROVE  KnowsInv' /\ AgreeInv' /\ VerdictIsWhole'
  <2>1. w \in Procs /\ w \notin rowGone
    BY DEF KnowsInv, PlacesOK, Procs
  <2>2. /\ End(w) /\ overtaken' = overtaken \ {w} /\ rowGone' = rowGone \ {w}
        /\ UNCHANGED <<contact, listed, raced, torn>>
    BY <1>6, <2>1 DEF Crash
  <2>3. QED
    BY <2>1, <2>2, EndKnows, NothingWritten
<1>7. QED
  BY <1>2, <1>3, <1>4, <1>5, <1>6 DEF JobsNext, WorkerStep

LEMMA InitList ==
  ASSUME Init
  PROVE  ListInv
<1>1. TypeInv
  BY InitTypes
<1>2. KnowsInv
  BY DEF Init, SuppressionInit, KnowsInv, Idle
<1>3. AgreeInv
  BY DEF Init, SuppressionInit, AgreeInv, NewContact, Exists
<1>4. \A e \in Exists : contact[e].status = "unverified" /\ contact[e].score = 0
  BY DEF Init, SuppressionInit, NewContact, Exists
<1>5. VerdictIsWhole
  BY <1>4 DEF VerdictIsWhole
<1>6. QED
  BY <1>1, <1>2, <1>3, <1>5 DEF ListInv

LEMMA StepList ==
  ASSUME ListInv, [Next]_vars
  PROVE  ListInv'
<1>1. TypeInv'
  BY StepTypes DEF ListInv
<1>2. CASE UNCHANGED vars
  <2>1. UNCHANGED <<contact, listed, pc, sess, rowGone, overtaken, raced, torn>>
    BY <1>2 DEF vars, suppressionVars
  <2>2. QED
    BY <1>1, <2>1, SessionsKept, NothingWritten DEF ListInv
<1>3. QED
  BY <1>1, <1>2, SuppressionKeepsList, ImportKeepsList, JobsKeepList DEF Next, ListInv

LEMMA AlwaysListed == Spec => []ListInv
BY InitList, StepList, PTL DEF Spec

\* Nobody on the suppression list can be mailed by any campaign, unless an
\* overtaken session had the last word on the contact.
THEOREM SuppressedStaySuppressed == Spec => []ListedIsBlocked
<1>1. ListInv => ListedIsBlocked
  <2>1. SUFFICES ASSUME ListInv, NEW e \in listed \ raced, NEW campaign \in Campaigns,
                        MailableTo(e, campaign)
                 PROVE  FALSE
    BY DEF ListedIsBlocked
  <2>2. e \in Exists /\ Evaluate(contact[e], kind[e], campaign) = "eligible"
    BY <2>1, TypeFacts DEF MailableTo, Exists, ListInv
  <2>3. ~contact[e].suppressed /\ contact[e].status \in {"valid", "risky"}
    <3>1. contact[e] \in ContactRow
      BY <2>1, <2>2, TypeFacts DEF Exists, ListInv
    <3>2. contact[e].suppressed \in BOOLEAN
      BY <3>1 DEF ContactRow
    <3>3. contact[e].suppressed => Evaluate(contact[e], kind[e], campaign) = "suppressed"
      BY <3>2 DEF Evaluate
    <3>4. contact[e].status \notin {"valid", "risky"}
          => Evaluate(contact[e], kind[e], campaign) # "eligible"
      <4>1. contact[e].status \in Verdicts \cup {"unverified"}
        BY <3>1 DEF ContactRow
      <4>2. contact[e].status # "eligible"
        BY <4>1 DEF Verdicts
      <4>3. QED
        BY <4>2 DEF Evaluate
    <3>5. QED
      BY <2>2, <3>3, <3>4
  <2>4. QED
    BY <2>1, <2>2, <2>3 DEF ListInv, AgreeInv
<1>2. QED
  BY <1>1, AlwaysListed, PTL

\* A contact that nothing suppresses carries no suppression flag, with the
\* same exception.
THEOREM ReleasedAreFree == Spec => []FreeIsUnflagged
<1>1. ListInv => FreeIsUnflagged
  BY DEF ListInv, AgreeInv, FreeIsUnflagged
<1>2. QED
  BY <1>1, AlwaysListed, PTL

\* Status, score and integrity of a contact come from one verification.
THEOREM VerdictsAreWhole == Spec => []VerdictIsWhole
<1>1. ListInv => VerdictIsWhole
  BY DEF ListInv
<1>2. QED
  BY <1>1, AlwaysListed, PTL

LEMMA StatusOfFlags ==
  ASSUME NEW f \in Flags, f.duplicate = FALSE, f.domain = f.syntax
  PROVE  /\ DetermineStatus(f) = "valid" => Score(f) = 100 /\ Integrity(f) = "high"
         /\ DetermineStatus(f) # "risky"
<1>1. CASE f.suppressed \/ f.disposable \/ f.roleBased \/ ~f.syntax \/ ~f.mx
  BY <1>1 DEF DetermineStatus, Flags
<1>2. CASE ~(f.suppressed \/ f.disposable \/ f.roleBased \/ ~f.syntax \/ ~f.mx)
  <2>1. f.syntax = TRUE /\ f.domain = TRUE /\ f.mx = TRUE /\ f.disposable = FALSE
        /\ f.roleBased = FALSE /\ f.suppressed = FALSE
    BY <1>2 DEF Flags
  <2>2. Score(f) = 100
    BY <2>1 DEF Score, If
  <2>3. QED
    BY <2>1, <2>2 DEF DetermineStatus, Integrity, Clean
<1>3. QED
  BY <1>1, <1>2

\* A valid contact has passed every check, and nobody is ever judged risky.
THEOREM ValidContactsScoreFull == Spec => []ValidMeansFullScore
<1>1. ListInv => ValidMeansFullScore
  <2>1. SUFFICES ASSUME ListInv, NEW e \in Exists \ torn
                 PROVE  /\ contact[e].status = "valid" =>
                             contact[e].score = 100 /\ contact[e].integrity = "high"
                        /\ contact[e].status # "risky"
    BY DEF ValidMeansFullScore
  <2>2. contact[e] \in ContactRow /\ e \in Emails
    BY <2>1, TypeFacts DEF Exists, ListInv
  <2>3. CASE contact[e].status = "unverified"
    BY <2>3
  <2>4. CASE contact[e].status # "unverified"
    <3>1. PICK mx \in BOOLEAN, s \in BOOLEAN :
                 /\ VerifiedAs(e, mx, s, contact[e]).status = contact[e].status
                 /\ VerifiedAs(e, mx, s, contact[e]).score = contact[e].score
                 /\ VerifiedAs(e, mx, s, contact[e]).integrity = contact[e].integrity
      BY <2>1, <2>4 DEF ListInv, VerdictIsWhole
    <3> DEFINE f == FlagsOf(e, mx, s)
    <3>2. f \in Flags
      BY <2>2, FlagsAreFlags
    <3>3. f.duplicate = FALSE /\ f.domain = f.syntax
      BY DEF FlagsOf
    <3>4. /\ contact[e].status = DetermineStatus(f) /\ contact[e].score = Score(f)
          /\ contact[e].integrity = Integrity(f)
      BY <2>2, <3>1, VerdictColumns
    <3> HIDE DEF f
    <3>5. QED
      BY <3>2, <3>3, <3>4, StatusOfFlags
  <2>5. QED
    BY <2>3, <2>4
<1>2. QED
  BY <1>1, AlwaysListed, PTL

-----------------------------------------------------------------------------
(* Imports.                                                                *)

\* Contacts last, whatever the step.
LEMMA StepLasts ==
  ASSUME TypeInv, [Next]_vars
  PROVE  Lasts
<1> USE DEF Procs
<1>1. CASE UNCHANGED contact
  BY <1>1, UnchangedLasts
<1>2. CASE SuppressionNext
  <2>1. ASSUME NEW p \in Procs, NEW mx \in BOOLEAN, Commits(p, mx)
        PROVE  Lasts
    BY <2>1, CommitLasts
  <2>2. ASSUME NEW p \in Clients, SuppressCommit(p) \/ ReleaseCommit(p)
        PROVE  Lasts
    <3>1. Commits(p, TRUE)
      BY <2>2 DEF Commits
    <3>2. QED
      BY <2>1, <3>1
  <2>3. ASSUME NEW p \in Procs, NEW mx \in BOOLEAN, VerifyCommit(p, mx)
        PROVE  Lasts
    BY <2>1, <2>3 DEF Commits
  <2>4. QED
    BY <1>1, <1>2, <2>2, <2>3 DEF SuppressionNext, AddSuppression, Release, VerifyLead, StartVerify,
       BulkSuppress, SuppressConflict, Rollback, SetContactType, LookUp
<1>3. CASE ImportNext
  BY <1>1, <1>3, AddLasts DEF ImportNext, Upload, Map, Confirm, MapCommit, ConfirmConflict
<1>4. CASE JobsNext
  BY <1>1, <1>4 DEF JobsNext, QueueBulk, Publish, PublishFails, Record, WorkerStep, Mark, VerifyNext,
     StartVerify, VerifyUnknown, CountLead, Complete, Fail, Crash, RunInline, Find, suppressionVars
<1>5. QED
  BY <1>1, <1>2, <1>3, <1>4 DEF Next, vars, suppressionVars

\* What a request to map or to confirm holds, and how far it can be trusted.
RequestOK(p) ==
  /\ importing[p].was.status # "none"
  /\ imports[On(p)].status # "none"
  /\ pc[p] = "map" =>
       \A l \in Lines :
         /\ importing[p].rows[l].status \notin {"imported", "pending"}
         /\ importing[p].rows[l].status = "valid" => importing[p].rows[l].email # NoEmail
  /\ pc[p] = "confirm" =>
       /\ importing[p].was.status = "validated"
       /\ importing[p].rows = importing[p].was.rows
  /\ p \notin behind => importing[p].was = imports[On(p)]

\* What the lines of a job are when it is validated, and when it is completed.
ImportedLines(job) == {l \in Lines : job.rows[l].status = "imported"}
JobOK(job) ==
  /\ job.status = "validated" =>
       \A l \in Lines :
         /\ job.rows[l].status # "imported"
         /\ job.rows[l].status = "valid" => job.rows[l].email # NoEmail
  /\ job.status = "completed" =>
       /\ \A l \in Lines : job.rows[l].status # "valid"
       /\ \A l \in ImportedLines(job) : job.rows[l].email \in Exists
       /\ job.imported = Cardinality(ImportedLines(job))

ImportInv ==
  /\ \A p \in Clients : importing[p] # NoImport => RequestOK(p)
  /\ \A j \in Imports \ crossed : JobOK(imports[j])

\* Requests and jobs nobody touches stay in order.
LEMMA ImportUntouched ==
  ASSUME TypeInv, ImportInv, Lasts, UNCHANGED <<imports, importing, behind, crossed>>,
         \A p \in Clients : importing[p] # NoImport => pc'[p] = pc[p]
  PROVE  ImportInv'
<1>1. ASSUME NEW p \in Clients, importing[p] # NoImport
      PROVE  RequestOK(p)'
  BY <1>1 DEF ImportInv, RequestOK, On
<1>2. ASSUME NEW j \in Imports \ crossed
      PROVE  JobOK(imports[j])'
  BY <1>2 DEF ImportInv, JobOK, Lasts, Exists, ImportedLines
<1>3. QED
  BY <1>1, <1>2 DEF ImportInv

\* p writes job j.
LEMMA JobWritten ==
  ASSUME TypeInv, ImportInv, Lasts, NEW p \in Clients, importing[p] # NoImport, Close(p),
         NEW job \in ImportJob, imports' = [imports EXCEPT ![On(p)] = job], job.status # "none",
         behind' = (behind \cup Rivals(p)) \ {p},
         p \in behind => On(p) \in crossed',
         crossed \ {On(p)} \subseteq crossed',
         On(p) \notin crossed' => JobOK(job)'
  PROVE  ImportInv'
<1> USE ImportTypeFacts, TypeFacts
<1>1. /\ pc' = [pc EXCEPT ![p] = "idle"]
      /\ importing' = [importing EXCEPT ![p] = NoImport]
      /\ On(p) \in Imports
  BY DEF Close
<1>2. ASSUME NEW q \in Clients, importing'[q] # NoImport
      PROVE  RequestOK(q)'
  <2>1. q # p /\ importing'[q] = importing[q]
    BY <1>1, <1>2
  <2>2. q \in Procs /\ p \in Procs
    BY DEF Procs
  <2>3. pc'[q] = pc[q]
    BY <1>1, <2>1, <2>2 DEF PlacesOK
  <2>4. RequestOK(q)
    BY <1>2, <2>1 DEF ImportInv
  <2>5. On(q)' = On(q) /\ On(q) \in Imports
    BY <1>2, <2>1 DEF On
  <2>6. CASE On(q) = On(p)
    <3>1. q \in behind'
      BY <1>2, <2>1, <2>6 DEF Rivals
    <3>2. imports'[On(q)].status # "none"
      BY <2>5, <2>6
    <3>3. QED
      BY <2>1, <2>3, <2>4, <2>5, <3>1, <3>2 DEF RequestOK
  <2>7. CASE On(q) # On(p)
    <3>1. imports'[On(q)] = imports[On(q)]
      BY <1>1, <2>5, <2>7
    <3>2. q \notin behind' => q \notin behind
      BY <2>1
    <3>3. QED
      BY <2>1, <2>3, <2>4, <2>5, <3>1, <3>2 DEF RequestOK
  <2>8. QED
    BY <2>6, <2>7
<1>3. ASSUME NEW j \in Imports \ crossed'
      PROVE  JobOK(imports[j])'
  <2>1. CASE j = On(p)
    <3>1. imports'[j] = job
      BY <1>1, <2>1
    <3>2. QED
      BY <1>3, <2>1, <3>1 DEF JobOK, ImportedLines, Exists
  <2>2. CASE j # On(p)
    <3>1. imports'[j] = imports[j] /\ j \notin crossed
      BY <1>1, <1>3, <2>2
    <3>2. JobOK(imports[j])
      BY <1>3, <3>1 DEF ImportInv
    <3>3. QED
      BY <3>1, <3>2 DEF JobOK, Lasts, Exists, ImportedLines
  <2>3. QED
    BY <2>1, <2>2
<1>4. QED
  BY <1>2, <1>3 DEF ImportInv

LEMMA MapCommitOK ==
  ASSUME TypeInv, ImportInv, NEW p \in Clients, MapCommit(p)
  PROVE  ImportInv'
<1> USE ImportTypeFacts, TypeFacts
<1> DEFINE j == On(p)
           was == importing[p].was
           new == importing[p].rows
           now == imports[j]
           rows == [l \in Lines |->
                      [email |-> Column(was.rows[l].email, new[l].email, now.rows[l].email),
                       status |-> Column(was.rows[l].status, new[l].status, now.rows[l].status)]]
           job == [status |-> Column(was.status, "validated", now.status), rows |-> rows,
                   imported |-> now.imported]
<1>1. pc[p] = "map" /\ importing[p] # NoImport /\ Close(p) /\ UNCHANGED contact
      /\ imports' = [imports EXCEPT ![j] = job]
      /\ behind' = (behind \cup Rivals(p)) \ {p}
      /\ crossed' = IF p \in behind THEN crossed \cup {j} ELSE crossed \ {j}
  BY DEF MapCommit
<1>2. /\ j \in Imports /\ now \in ImportJob /\ was \in ImportJob
      /\ RequestOK(p)
  BY <1>1 DEF ImportSession, ImportInv
<1>3. imports'[j] = job /\ imports' \in [Imports -> ImportJob]
  BY <1>1, <1>2, MapCommitTypes DEF ImportTypeOK
<1>4. job \in ImportJob
  BY <1>2, <1>3
<1>5. job.status # "none"
  BY <1>2 DEF RequestOK, Column
<1>6. PICK v \in ImportJob : v = job
  BY <1>4
<1>7. ASSUME p \notin behind
      PROVE  JobOK(v)'
  <2>1. was = now
    BY <1>2, <1>7 DEF RequestOK
  <2>2. job.status = "validated"
    BY <2>1 DEF Column
  <2>3. \A l \in Lines : rows[l].email = new[l].email /\ rows[l].status = new[l].status
    BY <2>1 DEF Column
  <2>4. \A l \in Lines : /\ rows[l].status # "imported"
                         /\ rows[l].status = "valid" => rows[l].email # NoEmail
    BY <1>1, <1>2, <2>3 DEF RequestOK
  <2>5. job.rows = rows
    OBVIOUS
  <2>6. /\ v.status = "validated"
        /\ \A l \in Lines : /\ v.rows[l].status # "imported"
                            /\ v.rows[l].status = "valid" => v.rows[l].email # NoEmail
    BY <1>6, <2>2, <2>4, <2>5
  <2>7. QED
    BY <2>6 DEF JobOK
<1>8. imports' = [imports EXCEPT ![On(p)] = v] /\ v.status # "none"
  BY <1>1, <1>5, <1>6
<1>9. /\ p \in behind => On(p) \in crossed'
      /\ crossed \ {On(p)} \subseteq crossed'
      /\ On(p) \notin crossed' => JobOK(v)'
  BY <1>1, <1>7
<1>10. QED
  BY <1>1, <1>8, <1>9, UnchangedLasts, JobWritten

LEMMA ConfirmCommitOK ==
  ASSUME TypeInv, ImportInv, NEW p \in Clients, ConfirmCommit(p)
  PROVE  ImportInv'
<1> USE ImportTypeFacts, TypeFacts
<1> DEFINE j == On(p)
           rows == [l \in Lines |-> IF l \in ToImport(p)
                                    THEN [imports[j].rows[l] EXCEPT !.status = "imported"]
                                    ELSE imports[j].rows[l]]
           job == [status |-> "completed", rows |-> rows,
                   imported |-> Column(importing[p].was.imported, Cardinality(ToImport(p)),
                                       imports[j].imported)]
<1>1. /\ pc[p] = "confirm" /\ importing[p] # NoImport /\ Close(p)
      /\ imports' = [imports EXCEPT ![j] = job]
      /\ behind' = (behind \cup Rivals(p)) \ {p}
      /\ crossed' = IF p \in behind THEN crossed \cup {j} ELSE crossed
      /\ contact' = [e \in Emails |-> IF e \in AddressesOf(p) THEN NewContact ELSE contact[e]]
  BY DEF ConfirmCommit, Writes, AddContacts
<1>2. /\ j \in Imports /\ imports[j] \in ImportJob /\ RequestOK(p)
  BY <1>1 DEF ImportSession, ImportInv
<1>3. imports'[j] = job /\ imports' \in [Imports -> ImportJob]
  BY <1>1, <1>2, ConfirmCommitTypes DEF ImportTypeOK
<1>4. PICK v \in ImportJob : v = job
  BY <1>2, <1>3
<1>5. ASSUME p \notin behind, j \notin crossed
      PROVE  JobOK(v)'
  <2>1. /\ importing[p].was = imports[j] /\ importing[p].rows = imports[j].rows
        /\ imports[j].status = "validated"
    BY <1>1, <1>2, <1>5 DEF RequestOK
  <2>2. \A l \in Lines : /\ imports[j].rows[l] \in ImportRow
                         /\ imports[j].rows[l].status # "imported"
                         /\ imports[j].rows[l].status = "valid" => imports[j].rows[l].email # NoEmail
    BY <1>2, <1>5, <2>1 DEF ImportInv, JobOK, ImportJob
  <2>3. \A l \in Lines : l \in ToImport(p) <=> imports[j].rows[l].status = "valid"
    BY <2>1 DEF ToImport
  <2>4. \A l \in Lines : /\ rows[l].email = imports[j].rows[l].email
                         /\ rows[l].status = IF l \in ToImport(p) THEN "imported"
                                             ELSE imports[j].rows[l].status
    BY <2>2 DEF ImportRow
  <2>5. v.rows = rows /\ v.status = "completed" /\ v.imported = Cardinality(ToImport(p))
    BY <1>4, <2>1 DEF Column
  <2>6. ImportedLines(v) = ToImport(p)
    BY <2>2, <2>3, <2>4, <2>5 DEF ImportedLines, ToImport
  <2>7. \A l \in Lines : v.rows[l].status # "valid"
    BY <2>3, <2>4, <2>5
  <2>8. \A l \in ImportedLines(v) : contact'[v.rows[l].email] # NoContact /\ v.rows[l].email \in Emails
    <3>1. SUFFICES ASSUME NEW l \in ToImport(p)
                   PROVE  contact'[v.rows[l].email] # NoContact /\ v.rows[l].email \in Emails
      BY <2>6
    <3>2. l \in Lines /\ v.rows[l].email = imports[j].rows[l].email
      BY <2>4, <2>5 DEF ToImport
    <3>3. v.rows[l].email \in Emails
      BY <2>2, <2>3, <3>2 DEF ImportRow
    <3>4. v.rows[l].email \in AddressesOf(p)
      BY <2>1, <3>2 DEF AddressesOf
    <3>5. NewContact # NoContact
      <4>1. NewContact \in ContactRow
        BY DEF NewContact, ContactRow, Scores
      <4>2. QED
        BY <4>1, SuppressionAssumption
    <3>6. QED
      BY <1>1, <3>3, <3>4, <3>5
  <2>9. QED
    BY <2>5, <2>6, <2>7, <2>8 DEF JobOK, ImportedLines, Exists
<1>6. imports' = [imports EXCEPT ![On(p)] = v] /\ v.status # "none"
  BY <1>1, <1>4
<1>7. /\ p \in behind => On(p) \in crossed'
      /\ crossed \ {On(p)} \subseteq crossed'
      /\ On(p) \notin crossed' => JobOK(v)'
  BY <1>1, <1>5
<1>8. QED
  BY <1>1, <1>6, <1>7, AddLasts, JobWritten

LEMMA LoadOK ==
  ASSUME TypeInv, ImportInv, NEW p \in Clients, NEW s \in ImportSession, NEW at,
         pc' = [pc EXCEPT ![p] = at], importing' = [importing EXCEPT ![p] = s],
         UNCHANGED <<contact, imports, behind, crossed>>,
         s.was = imports[s.job], imports[s.job].status # "none",
         at = "map" => \A l \in Lines : /\ s.rows[l].status \notin {"imported", "pending"}
                                        /\ s.rows[l].status = "valid" => s.rows[l].email # NoEmail,
         at = "confirm" => s.was.status = "validated" /\ s.rows = s.was.rows
  PROVE  ImportInv'
<1> USE ImportTypeFacts, TypeFacts
<1>1. p \in Procs /\ \A q \in Clients : q \in Procs
  BY DEF Procs
<1>2. importing'[p] = s /\ pc'[p] = at
      /\ \A q \in Clients \ {p} : importing'[q] = importing[q] /\ pc'[q] = pc[q]
  BY <1>1 DEF PlacesOK
<1>3. RequestOK(p)'
  BY <1>2 DEF RequestOK, On
<1>4. ASSUME NEW q \in Clients \ {p}, importing'[q] # NoImport
      PROVE  RequestOK(q)'
  BY <1>2, <1>4 DEF RequestOK, On, ImportInv
<1>5. ASSUME NEW j \in Imports \ crossed
      PROVE  JobOK(imports[j])'
  BY <1>5 DEF ImportInv, JobOK, Exists, ImportedLines
<1>6. QED
  BY <1>3, <1>4, <1>5 DEF ImportInv

LEMMA MapOK ==
  ASSUME TypeInv, ImportInv, NEW p \in Clients, NEW j \in Imports, NEW m \in Mappings, Map(p, j, m)
  PROVE  ImportInv'
<1> USE TypeFacts, ImportTypeFacts
<1>1. PICK F \in FirstLines(m) :
        importing' = [importing EXCEPT ![p] =
                       [job |-> j, was |-> imports[j], rows |-> [l \in Lines |-> RowFor(m, F, l)]]]
  BY DEF Map
<1>2. PICK s : s = [job |-> j, was |-> imports[j], rows |-> [l \in Lines |-> RowFor(m, F, l)]]
  OBVIOUS
<1>3. \A l \in Lines : RowFor(m, F, l) \in ImportRow
  BY RowForTypes
<1>4. s \in ImportSession
  BY <1>2, <1>3 DEF ImportSession
<1>5. \A l \in Lines : /\ s.rows[l].status \notin {"imported", "pending"}
                       /\ s.rows[l].status = "valid" => s.rows[l].email # NoEmail
  BY <1>2 DEF RowFor
<1>6. /\ pc' = [pc EXCEPT ![p] = "map"] /\ imports[j].status # "none"
      /\ UNCHANGED <<contact, imports, behind, crossed>>
  BY DEF Map
<1>7. s.was = imports[s.job] /\ s.job = j
  BY <1>2
<1>8. QED
  BY <1>1, <1>2, <1>4, <1>5, <1>6, <1>7, LoadOK

LEMMA ConfirmOK ==
  ASSUME TypeInv, ImportInv, NEW p \in Clients, NEW j \in Imports, Confirm(p, j)
  PROVE  ImportInv'
<1> USE TypeFacts, ImportTypeFacts
<1>1. PICK s : s = [job |-> j, was |-> imports[j], rows |-> imports[j].rows]
  OBVIOUS
<1>2. s \in ImportSession
  BY <1>1 DEF ImportSession, ImportJob
<1>3. /\ pc' = [pc EXCEPT ![p] = "confirm"] /\ importing' = [importing EXCEPT ![p] = s]
      /\ imports[j].status = "validated" /\ UNCHANGED <<contact, imports, behind, crossed>>
  BY <1>1 DEF Confirm
<1>4. s.was = imports[s.job] /\ s.job = j /\ s.rows = s.was.rows
  BY <1>1
<1>5. QED
  BY <1>2, <1>3, <1>4, LoadOK

LEMMA UploadOK ==
  ASSUME TypeInv, ImportInv, NEW p \in Clients, NEW j \in Imports, Upload(p, j)
  PROVE  ImportInv'
<1> USE TypeFacts, ImportTypeFacts
<1>1. /\ imports' = [imports EXCEPT ![j].status = "parsed"] /\ imports[j].status = "none"
      /\ UNCHANGED <<contact, pc, importing, behind, crossed>>
  BY DEF Upload
<1>2. imports'[j].status = "parsed" /\ \A k \in Imports \ {j} : imports'[k] = imports[k]
  BY <1>1 DEF ImportJob
<1>3. ASSUME NEW q \in Clients, importing[q] # NoImport
      PROVE  RequestOK(q)'
  <2>1. RequestOK(q) /\ On(q) \in Imports /\ On(q) # j
    BY <1>1, <1>3 DEF ImportInv, RequestOK
  <2>2. imports'[On(q)] = imports[On(q)] /\ On(q)' = On(q)
    BY <1>1, <1>2, <2>1 DEF On
  <2>3. QED
    BY <1>1, <2>1, <2>2 DEF RequestOK
<1>4. ASSUME NEW k \in Imports \ crossed
      PROVE  JobOK(imports[k])'
  <2>1. CASE k = j
    BY <1>2, <2>1 DEF JobOK
  <2>2. CASE k # j
    <3>1. JobOK(imports[k]) /\ imports'[k] = imports[k]
      BY <1>2, <1>4, <2>2, <1>1 DEF ImportInv
    <3>2. QED
      BY <1>1, <3>1 DEF JobOK, Exists, ImportedLines
  <2>3. QED
    BY <2>1, <2>2
<1>5. QED
  BY <1>1, <1>3, <1>4 DEF ImportInv

LEMMA ConflictOK ==
  ASSUME TypeInv, ImportInv, NEW p \in Clients, ConfirmConflict(p)
  PROVE  ImportInv'
<1> USE TypeFacts, ImportTypeFacts
<1>1. /\ pc' = [pc EXCEPT ![p] = "idle"] /\ importing' = [importing EXCEPT ![p] = NoImport]
      /\ behind' = behind \ {p} /\ UNCHANGED <<contact, imports, crossed>>
  BY DEF ConfirmConflict, Close
<1>2. p \in Procs /\ \A q \in Clients : q \in Procs
  BY DEF Procs
<1>3. importing'[p] = NoImport
      /\ \A q \in Clients \ {p} : importing'[q] = importing[q] /\ pc'[q] = pc[q]
  BY <1>1, <1>2 DEF PlacesOK
<1>4. ASSUME NEW q \in Clients, importing'[q] # NoImport
      PROVE  RequestOK(q)'
  BY <1>1, <1>3, <1>4 DEF RequestOK, On, ImportInv
<1>5. ASSUME NEW j \in Imports \ crossed
      PROVE  JobOK(imports[j])'
  BY <1>1, <1>5 DEF ImportInv, JobOK, Exists, ImportedLines
<1>6. QED
  BY <1>1, <1>4, <1>5 DEF ImportInv

\* No other request and no worker touches the place of one that imports.
LEMMA OthersKeepPlaces ==
  ASSUME TypeInv, SuppressionNext \/ JobsNext
  PROVE  \A p \in Clients : importing[p] # NoImport => pc'[p] = pc[p]
<1> USE SuppressionAssumption, TypeFacts, ImportTypeFacts DEF Procs
<1>1. SUFFICES ASSUME NEW p \in Clients, pc[p] \in {"map", "confirm"}
               PROVE  pc'[p] = pc[p]
  BY DEF PlacesOK
<1>2. ASSUME NEW q \in Procs, NEW at, pc[q] \notin {"map", "confirm"}, pc' = [pc EXCEPT ![q] = at]
      PROVE  pc'[p] = pc[p]
  BY <1>1, <1>2 DEF PlacesOK
<1>3. ASSUME NEW q \in Clients, NEW e \in Emails,
             AddSuppression(q, e) \/ Release(q, e) \/ VerifyLead(q, e)
      PROVE  pc'[p] = pc[p]
  BY <1>2, <1>3 DEF AddSuppression, Release, VerifyLead, StartVerify, Begin, Request
<1>4. ASSUME NEW q \in Clients, NEW S \in SUBSET Emails, BulkSuppress(q, S)
      PROVE  pc'[p] = pc[p]
  BY <1>2, <1>4 DEF BulkSuppress, Begin, Request
<1>5. ASSUME NEW q \in Clients, SuppressCommit(q) \/ SuppressConflict(q) \/ ReleaseCommit(q)
      PROVE  pc'[p] = pc[p]
  BY <1>2, <1>5 DEF SuppressCommit, SuppressConflict, Rollback, ReleaseCommit, End
<1>6. ASSUME NEW q \in Clients, NEW e \in Emails, NEW k \in Kinds, SetContactType(q, e, k)
      PROVE  pc'[p] = pc[p]
  BY <1>6 DEF SetContactType
<1>7. ASSUME NEW q \in Procs, LookUp(q)
      PROVE  pc'[p] = pc[p]
  BY <1>2, <1>7 DEF LookUp
<1>8. ASSUME NEW q \in Procs, NEW mx \in BOOLEAN, VerifyCommit(q, mx)
      PROVE  pc'[p] = pc[p]
  BY <1>2, <1>8 DEF VerifyCommit, End
<1>9. CASE SuppressionNext
  BY <1>3, <1>4, <1>5, <1>6, <1>7, <1>8, <1>9 DEF SuppressionNext
<1>10. ASSUME NEW w \in Workers, NEW at, pc' = [pc EXCEPT ![w] = at]
       PROVE  pc'[p] = pc[p]
  BY <1>2, <1>10 DEF PlacesOK
<1>11. CASE JobsNext
  BY <1>10, <1>11 DEF JobsNext, QueueBulk, Publish, PublishFails, Record, WorkerStep, Mark, VerifyNext,
     StartVerify, Begin, VerifyUnknown, CountLead, Complete, Fail, Crash, End, RunInline, Find,
     suppressionVars
<1>12. QED
  BY <1>9, <1>11

LEMMA StepImports ==
  ASSUME TypeInv, ImportInv, [Next]_vars
  PROVE  ImportInv'
<1>1. CASE ImportNext
  BY <1>1, MapOK, ConfirmOK, UploadOK, MapCommitOK, ConfirmCommitOK, ConflictOK DEF ImportNext
<1>2. CASE (SuppressionNext \/ JobsNext) /\ UNCHANGED importVars
  BY <1>2, StepLasts, OthersKeepPlaces, ImportUntouched DEF importVars
<1>3. CASE UNCHANGED vars
  BY <1>3, StepLasts, ImportUntouched DEF vars, importVars, suppressionVars
<1>4. QED
  BY <1>1, <1>2, <1>3 DEF Next

\* A completed import has imported each of its valid lines, counts them, and
\* the contact of each is there, unless a mapping and a confirmation crossed.
THEOREM ImportsAreWhole == Spec => []CompletedImportsAreWhole
<1>1. Init => ImportInv
  <2>1. SUFFICES ASSUME Init
                 PROVE  ImportInv
    OBVIOUS
  <2>2. \A j \in Imports : imports[j].status \in {"none", "parsed"}
    BY <2>1 DEF Init, ImportInit
  <2>3. \A p \in Clients : importing[p] = NoImport
    BY <2>1 DEF Init, ImportInit
  <2>4. QED
    BY <2>2, <2>3 DEF ImportInv, JobOK
<1>2. TypeInv /\ ImportInv /\ [Next]_vars => ImportInv'
  BY StepImports
<1>3. ImportInv => CompletedImportsAreWhole
  BY DEF ImportInv, JobOK, ImportedLines, CompletedImportsAreWhole
<1>4. QED
  BY <1>1, <1>2, <1>3, AlwaysTyped, PTL DEF Spec

-----------------------------------------------------------------------------
(* Verification jobs: no row is left behind.                               *)

RowHonest(t, x) ==
  jobRow[<<t, x>>].status \in {"queued", "running"} =>
    \/ stage[t] = "created" \/ t \in queue \/ InHand(t)
    \/ t \in unserved
    \/ \A y \in Writers : jobRow[<<t, y>>].status # "none"

\* What a step must not do to stay honest about task t.
LEMMA HonestKept ==
  ASSUME NEW t \in Tasks, NEW x \in Writers, RowHonest(t, x),
         \A y \in Writers : jobRow'[<<t, y>>].status = jobRow[<<t, y>>].status,
         stage[t] = "created" => stage'[t] = "created" \/ t \in queue' \/ InHand(t)' \/ t \in unserved',
         t \in queue => t \in queue' \/ InHand(t)',
         InHand(t) => InHand(t)' \/ t \in unserved',
         unserved \subseteq unserved'
  PROVE  RowHonest(t, x)'
BY DEF RowHonest

LEMMA RowsOfTwo ==
  ASSUME NEW t \in Tasks, NEW x \in Writers, NEW y \in Writers
  PROVE  /\ <<t, x>> \in Tasks \X Writers
         /\ \A u \in Tasks, z \in Writers : <<t, x>> = <<u, z>> <=> t = u /\ x = z
         /\ x # y => Writers = {x, y}
BY DEF Writers

LEMMA StepHonest ==
  ASSUME TypeInv, VerificationRowsAreHonest, [Next]_vars
  PROVE  VerificationRowsAreHonest'
<1> USE JobFacts
<1>1. SUFFICES ASSUME NEW t \in Tasks, NEW x \in Writers
               PROVE  RowHonest(t, x)'
  BY DEF VerificationRowsAreHonest, RowHonest
<1>2. RowHonest(t, x)
  BY DEF VerificationRowsAreHonest, RowHonest
<1>3. <<t, x>> \in Tasks \X Writers /\ \A y \in Writers : <<t, y>> \in Tasks \X Writers
  OBVIOUS
<1>4. CASE UNCHANGED jobVars
  BY <1>2, <1>4 DEF jobVars, RowHonest, InHand
<1>5. ASSUME NEW u \in Tasks, QueueBulk(u)
      PROVE  RowHonest(t, x)'
  <2>1. CASE u = t
    BY <1>5, <2>1 DEF QueueBulk, RowHonest
  <2>2. CASE u # t
    <3>1. \A y \in Writers : jobRow'[<<t, y>>] = jobRow[<<t, y>>]
      BY <1>3, <1>5, <2>2 DEF QueueBulk
    <3>2. QED
      BY <1>2, <1>5, <2>2, <3>1, HonestKept DEF QueueBulk, InHand
  <2>3. QED
    BY <2>1, <2>2
<1>6. ASSUME NEW u \in Tasks, Publish(u) \/ PublishFails(u)
      PROVE  RowHonest(t, x)'
  BY <1>2, <1>6, HonestKept DEF Publish, PublishFails, InHand
<1>7. ASSUME NEW u \in Tasks, Record(u)
      PROVE  RowHonest(t, x)'
  <2>1. \A y \in Writers : jobRow'[<<t, y>>].status = jobRow[<<t, y>>].status
    <3>1. ASSUME NEW y \in Writers
          PROVE  jobRow'[<<t, y>>].status = jobRow[<<t, y>>].status
      BY <1>3, <1>7 DEF Record, JobRow
    <3>2. QED
      BY <3>1
  <2>2. stage'[t] = stage[t] \/ stage[t] = "published"
    BY <1>7 DEF Record
  <2>3. QED
    BY <1>2, <1>7, <2>1, <2>2, HonestKept DEF Record, InHand
<1>8. ASSUME NEW w \in Workers, NEW u \in Tasks, RunInline(w, u)
      PROVE  RowHonest(t, x)'
  <2>1. /\ hand[w].at = "idle" /\ stage' = [stage EXCEPT ![u] = "recorded"] /\ queue' = queue
        /\ jobRow' = [jobRow EXCEPT ![<<u, "handler">>].status = "running"]
        /\ \/ hand' = [hand EXCEPT ![w] = [task |-> u, row |-> "handler", at |-> "next"]]
              /\ unserved' = unserved
           \/ hand' = hand /\ unserved' = unserved \cup {u}
    BY <1>8 DEF RunInline, At
  <2>2. hand[w].task = NoTask /\ NoTask \notin Tasks
    BY <2>1, JobsAssumption DEF TypeInv, HandsOK, Free
  <2>3. CASE u = t
    <3>1. InHand(t)' \/ t \in unserved'
      BY <2>1, <2>3 DEF InHand
    <3>2. QED
      BY <3>1 DEF RowHonest
  <2>4. CASE u # t
    <3>1. \A y \in Writers : jobRow'[<<t, y>>] = jobRow[<<t, y>>]
      BY <1>3, <2>1, <2>4
    <3>2. InHand(t) => InHand(t)'
      BY <2>1, <2>2 DEF InHand
    <3>3. QED
      BY <1>2, <2>1, <2>4, <3>1, <3>2, HonestKept
  <2>5. QED
    BY <2>3, <2>4
<1>9. ASSUME NEW w \in Workers, NEW u \in Tasks, Find(w, u)
      PROVE  RowHonest(t, x)'
  <2> DEFINE h == [task |-> u, row |-> IF jobRow[<<u, "handler">>].task = u THEN "handler" ELSE "worker",
                   at |-> "mark"]
  <2>1. /\ hand[w].at = "idle" /\ stage' = stage /\ queue' = queue \ {u} /\ unserved' = unserved
        /\ hand' = [hand EXCEPT ![w] = h]
        /\ \/ jobRow' = jobRow
           \/ jobRow' = [jobRow EXCEPT ![<<u, "worker">>].task = u, ![<<u, "worker">>].status = "queued"]
    BY <1>9 DEF Find, At
  <2>2. hand[w].task = NoTask /\ NoTask \notin Tasks
    BY <2>1, JobsAssumption DEF TypeInv, HandsOK, Free
  <2>3. hand'[w].task = u
    BY <2>1
  <2>4. CASE u = t
    <3>1. InHand(t)'
      BY <2>3, <2>4 DEF InHand
    <3>2. QED
      BY <3>1 DEF RowHonest
  <2>5. CASE u # t
    <3>1. \A y \in Writers : jobRow'[<<t, y>>] = jobRow[<<t, y>>]
      BY <1>3, <2>1, <2>5
    <3>2. InHand(t) => InHand(t)'
      BY <2>1, <2>2 DEF InHand
    <3>3. QED
      BY <1>2, <2>1, <2>5, <3>1, <3>2, HonestKept
  <2>6. QED
    BY <2>4, <2>5
<1>10. ASSUME NEW w \in Workers, NEW place, Goes(w, place), hand[w].at # "idle",
              UNCHANGED <<stage, queue, unserved>>,
              \A r \in Tasks \X Writers : r # Row(w) => jobRow'[r] = jobRow[r]
       PROVE  RowHonest(t, x)'
  <2>1. \A v \in Workers : hand'[v].task = hand[v].task
    BY <1>10 DEF Goes, Hand
  <2>2. \A u : InHand(u) <=> InHand(u)'
    BY <2>1 DEF InHand
  <2>3. CASE hand[w].task = t
    BY <2>1, <2>3 DEF RowHonest, InHand
  <2>4. CASE hand[w].task # t
    <3>1. \A y \in Writers : jobRow'[<<t, y>>] = jobRow[<<t, y>>]
      BY <1>3, <1>10, <2>4 DEF Row
    <3>2. QED
      BY <1>2, <1>10, <2>2, <3>1, HonestKept
  <2>5. QED
    BY <2>3, <2>4
<1>11. ASSUME NEW w \in Workers, Mark(w) \/ VerifyNext(w) \/ VerifyUnknown(w) \/ CountLead(w)
       PROVE  RowHonest(t, x)'
  <2>1. hand[w].at # "idle" /\ UNCHANGED <<stage, queue, unserved>>
        /\ (Goes(w, "next") \/ Goes(w, "count") \/ Goes(w, "failing"))
    BY <1>11 DEF Mark, VerifyNext, VerifyUnknown, CountLead, At
  <2>2. \A r \in Tasks \X Writers : r # Row(w) => jobRow'[r] = jobRow[r]
    BY <1>11 DEF Mark, VerifyNext, VerifyUnknown, CountLead
  <2>3. QED
    BY <1>10, <2>1, <2>2
<1>12. ASSUME NEW w \in Workers, NEW y \in Writers, NEW end \in {"completed", "failed"},
              hand[w].at # "idle", hand' = [hand EXCEPT ![w] = Free],
              UNCHANGED <<stage, queue, unserved>>,
              jobRow' = [jobRow EXCEPT ![<<hand[w].task, y>>].status = end]
       PROVE  RowHonest(t, x)'
  <2>1. hand[w].task \in Tasks
    BY <1>12, RowOfHand
  <2>2. CASE hand[w].task = t
    <3>1. jobRow'[<<t, y>>].status = end
      BY <1>3, <1>12, <2>2 DEF JobRow
    <3>2. CASE x = y
      BY <3>1, <3>2 DEF RowHonest
    <3>3. CASE x # y
      <4>1. ASSUME jobRow'[<<t, x>>].status \in {"queued", "running"}
            PROVE  \A z \in Writers : jobRow'[<<t, z>>].status # "none"
        BY <3>1, <3>3, <4>1, RowsOfTwo
      <4>2. QED
        BY <4>1 DEF RowHonest
    <3>4. QED
      BY <3>2, <3>3
  <2>3. CASE hand[w].task # t
    <3>1. \A z \in Writers : jobRow'[<<t, z>>] = jobRow[<<t, z>>]
      BY <1>3, <1>12, <2>3
    <3>2. InHand(t) => InHand(t)'
      BY <1>12, <2>3 DEF InHand
    <3>3. QED
      BY <1>2, <1>12, <3>1, <3>2, HonestKept
  <2>4. QED
    BY <2>2, <2>3
<1>13. ASSUME NEW w \in Workers, Complete(w) \/ Fail(w)
       PROVE  RowHonest(t, x)'
  <2>1. hand[w].at # "idle"
    BY <1>13 DEF Complete, Fail, At
  <2>2. CASE Complete(w)
    BY <1>12, <2>1, <2>2, RowOfHand DEF Complete, Row
  <2>3. CASE Fail(w)
    BY <1>12, <2>1, <2>3 DEF Fail
  <2>4. QED
    BY <1>13, <2>2, <2>3
<1>14. ASSUME NEW w \in Workers, Crash(w)
       PROVE  RowHonest(t, x)'
  <2>1. /\ unserved' = unserved \cup {hand[w].task} /\ hand' = [hand EXCEPT ![w] = Free]
        /\ UNCHANGED <<stage, queue, jobRow>>
    BY <1>14 DEF Crash
  <2>2. InHand(t) => InHand(t)' \/ t \in unserved'
    BY <2>1 DEF InHand
  <2>3. QED
    BY <1>2, <2>1, <2>2, HonestKept
<1>15. QED
  BY <1>4, <1>5, <1>6, <1>7, <1>8, <1>9, <1>11, <1>13, <1>14
     DEF Next, JobsNext, WorkerStep, vars

\* A job row says queued or running only while somebody has its task, unless
\* the task was cut off or one of two rows was left alone.
THEOREM VerificationRowsHonest == Spec => []VerificationRowsAreHonest
<1>1. Init => VerificationRowsAreHonest
  BY DEF Init, JobsInit, VerificationRowsAreHonest, Writers
<1>2. QED
  BY <1>1, StepHonest, AlwaysTyped, PTL DEF Spec

-----------------------------------------------------------------------------
(* Verification jobs: what completed means.                                *)

\* A task is in one pair of hands, the broker's or a worker's, and only after
\* its handler has let go of it.
OwnInv ==
  /\ \A w, v \in Workers : hand[w].task = hand[v].task /\ hand[w].task \in Tasks => w = v
  /\ \A w \in Workers : hand[w].task \in Tasks =>
       hand[w].task \notin queue /\ stage[hand[w].task] \notin {"none", "created"}
  /\ \A t \in queue : stage[t] \notin {"none", "created"}
  /\ \A t \in Tasks : stage[t] \in {"none", "created"} => jobRow[<<t, "handler">>].processed = 0

Verified(e) == e \in Exists /\ contact[e].status # "unverified"
Upto(t, n) == \A i \in DOMAIN Leads[t] : i <= n => Verified(Leads[t][i])

\* The leads counted are verified, and the one under way is loaded.
Progress(w) ==
  LET t == hand[w].task
      n == jobRow[Row(w)].processed
  IN /\ Upto(t, n)
     /\ hand[w].at = "count" =>
          IF pc[w] = "idle" THEN Upto(t, n + 1)
          ELSE /\ sess[w].on = {Leads[t][n + 1]}
               /\ sess[w].row[Leads[t][n + 1]] # NoContact

ProgressInv == \A w \in Workers : hand[w].at \in {"next", "count"} => Progress(w)

WorkInv == OwnInv /\ ProgressInv /\ CompletedJobsVerifiedTheirLeads

LEMMA OwnKept ==
  ASSUME TypeInv, OwnInv, queue' \subseteq queue,
         \A t \in Tasks : stage'[t] \in {"none", "created"} => stage[t] \in {"none", "created"},
         \A w \in Workers : hand'[w].task = hand[w].task \/ hand'[w].task = NoTask,
         \A t \in Tasks : stage[t] \in {"none", "created"} =>
           jobRow'[<<t, "handler">>].processed = jobRow[<<t, "handler">>].processed
  PROVE  OwnInv'
<1> USE JobFacts, JobsAssumption
<1>1. \A w, v \in Workers : hand'[w].task = hand'[v].task /\ hand'[w].task \in Tasks => w = v
  BY DEF OwnInv
<1>2. \A w \in Workers : hand'[w].task \in Tasks =>
        hand'[w].task \notin queue' /\ stage'[hand'[w].task] \notin {"none", "created"}
  BY DEF OwnInv
<1>3. \A t \in queue' : stage'[t] \notin {"none", "created"}
  BY DEF OwnInv
<1>4. \A t \in Tasks : stage'[t] \in {"none", "created"} => jobRow'[<<t, "handler">>].processed = 0
  BY DEF OwnInv
<1>5. QED
  BY <1>1, <1>2, <1>3, <1>4 DEF OwnInv

\* A task goes from its handler to the broker or to a worker.
LEMMA TaskTaken ==
  ASSUME TypeInv, OwnInv, NEW w \in Workers, NEW t \in Tasks, NEW h \in Hand,
         hand[w].at = "idle", hand' = [hand EXCEPT ![w] = h], h.task = t,
         \/ t \in queue /\ queue' = queue \ {t} /\ UNCHANGED stage
         \/ stage[t] = "created" /\ stage' = [stage EXCEPT ![t] = "recorded"] /\ UNCHANGED queue,
         \A u \in Tasks : jobRow'[<<u, "handler">>].processed = jobRow[<<u, "handler">>].processed
  PROVE  OwnInv'
<1> USE JobFacts, JobsAssumption
<1>1. /\ t \notin queue' /\ stage'[t] \notin {"none", "created"}
      /\ \A u \in Tasks : stage'[u] \in {"none", "created"} => stage[u] \in {"none", "created"}
      /\ queue' \subseteq queue
  BY DEF OwnInv
<1>2. \A v \in Workers : hand[v].task # t
  BY DEF OwnInv
<1>3. \A v \in Workers : hand'[v] = IF v = w THEN h ELSE hand[v]
  OBVIOUS
<1>4. \A v, u \in Workers : hand'[v].task = hand'[u].task /\ hand'[v].task \in Tasks => v = u
  BY <1>2, <1>3 DEF OwnInv
<1>5. \A v \in Workers : hand'[v].task \in Tasks =>
        hand'[v].task \notin queue' /\ stage'[hand'[v].task] \notin {"none", "created"}
  BY <1>1, <1>3 DEF OwnInv
<1>6. \A u \in queue' : stage'[u] \notin {"none", "created"}
  BY <1>1 DEF OwnInv
<1>7. \A u \in Tasks : stage'[u] \in {"none", "created"} => jobRow'[<<u, "handler">>].processed = 0
  BY <1>1 DEF OwnInv
<1>8. QED
  BY <1>4, <1>5, <1>6, <1>7 DEF OwnInv

LEMMA StatusWrites ==
  ASSUME TypeInv, NEW r \in Tasks \X Writers, NEW q \in Tasks \X Writers, NEW t, NEW v,
         \/ jobRow' = [jobRow EXCEPT ![q].status = v]
         \/ jobRow' = [jobRow EXCEPT ![q].task = t]
         \/ jobRow' = jobRow
  PROVE  jobRow'[r].processed = jobRow[r].processed
<1>1. jobRow[r] \in JobRow /\ jobRow \in [Tasks \X Writers -> JobRow]
  BY JobFacts
<1>2. CASE r = q
  BY <1>1, <1>2 DEF JobRow
<1>3. CASE r # q
  BY <1>1, <1>3
<1>4. QED
  BY <1>2, <1>3

\* Rows change their count only in the hand that counts.
LEMMA CountsStill ==
  ASSUME TypeInv,
         \/ \E t \in Tasks : QueueBulk(t) \/ Publish(t) \/ PublishFails(t) \/ Record(t)
         \/ \E w \in Workers : \/ VerifyNext(w) \/ VerifyUnknown(w) \/ Complete(w) \/ Fail(w) \/ Crash(w)
                               \/ \E t \in Tasks : RunInline(w, t) \/ Find(w, t),
         NEW r \in Tasks \X Writers
  PROVE  jobRow'[r].processed = jobRow[r].processed
<1> USE JobFacts
<1>1. ASSUME NEW t \in Tasks, QueueBulk(t) \/ Publish(t) \/ PublishFails(t) \/ Record(t)
      PROVE  jobRow'[r].processed = jobRow[r].processed
  <2>1. <<t, "handler">> \in Tasks \X Writers
    BY DEF Writers
  <2>2. CASE QueueBulk(t)
    BY <2>1, <2>2, StatusWrites DEF QueueBulk
  <2>3. CASE Record(t)
    BY <2>1, <2>3, StatusWrites DEF Record
  <2>4. QED
    BY <1>1, <2>2, <2>3 DEF Publish, PublishFails
<1>2. ASSUME NEW w \in Workers, VerifyNext(w) \/ VerifyUnknown(w) \/ Crash(w)
      PROVE  jobRow'[r].processed = jobRow[r].processed
  BY <1>2 DEF VerifyNext, VerifyUnknown, Crash
<1>3. ASSUME NEW w \in Workers, Complete(w) \/ Fail(w)
      PROVE  jobRow'[r].processed = jobRow[r].processed
  <2>1. hand[w].task \in Tasks /\ Row(w) \in Tasks \X Writers
    BY <1>3, RowOfHand DEF Complete, Fail, At
  <2>2. \E q \in Tasks \X Writers : \E v : jobRow' = [jobRow EXCEPT ![q].status = v]
    BY <1>3, <2>1 DEF Complete, Fail
  <2>3. QED
    BY <2>2, StatusWrites
<1>4. ASSUME NEW w \in Workers, NEW t \in Tasks, RunInline(w, t) \/ Find(w, t)
      PROVE  jobRow'[r].processed = jobRow[r].processed
  <2>1. <<t, "handler">> \in Tasks \X Writers /\ <<t, "worker">> \in Tasks \X Writers
    BY DEF Writers
  <2>2. CASE RunInline(w, t)
    BY <2>1, <2>2, StatusWrites DEF RunInline
  <2>3. CASE Find(w, t)
    <3>1. \/ jobRow' = jobRow
          \/ jobRow' = [jobRow EXCEPT ![<<t, "worker">>].task = t, ![<<t, "worker">>].status = "queued"]
      BY <2>3 DEF Find
    <3>2. jobRow \in [Tasks \X Writers -> JobRow] /\ jobRow[r] \in JobRow
      OBVIOUS
    <3>3. CASE r = <<t, "worker">>
      <4>1. \/ jobRow'[r] = jobRow[r]
            \/ jobRow'[r] = [jobRow[r] EXCEPT !.task = t, !.status = "queued"]
        BY <3>1, <3>2, <3>3
      <4>2. QED
        BY <3>2, <4>1 DEF JobRow
    <3>4. CASE r # <<t, "worker">>
      BY <3>1, <3>2, <3>4
    <3>5. QED
      BY <3>3, <3>4
  <2>4. QED
    BY <1>4, <2>2, <2>3
<1>5. QED
  BY <1>1, <1>2, <1>3, <1>4

LEMMA CountsKept ==
  ASSUME TypeInv, JobsNext, NEW r \in Tasks \X Writers
  PROVE  \/ jobRow'[r].processed = jobRow[r].processed
         \/ \E w \in Workers : hand[w].at # "idle" /\ r = Row(w)
<1>1. ASSUME NEW w \in Workers, Mark(w) \/ CountLead(w)
      PROVE  jobRow'[r] = jobRow[r] \/ (hand[w].at # "idle" /\ r = Row(w))
  BY <1>1, JobFacts DEF Mark, CountLead, At
<1>2. QED
  BY <1>1, CountsStill DEF JobsNext, WorkerStep

\* What a verification in progress needs to stay in order.
LEMMA ProgressKept ==
  ASSUME TypeInv, Lasts, NEW w \in Workers, Progress(w),
         hand'[w] = hand[w], pc'[w] = pc[w], sess'[w] = sess[w],
         jobRow'[Row(w)].processed = jobRow[Row(w)].processed
  PROVE  Progress(w)'
<1>1. \A e : Verified(e) => Verified(e)'
  BY DEF Verified, Exists, Lasts
<1>2. \A t, n : Upto(t, n) => Upto(t, n)'
  BY <1>1 DEF Upto
<1>3. Row(w)' = Row(w)
  BY DEF Row
<1>4. QED
  BY <1>2, <1>3 DEF Progress

\* The worker's own steps on contacts.
LEMMA LookUpProgress ==
  ASSUME TypeInv, NEW w \in Workers, Progress(w), LookUp(w), UNCHANGED jobVars
  PROVE  Progress(w)'
<1> USE TypeFacts DEF Procs
<1>1. w \in Procs
  OBVIOUS
<1>2. /\ pc[w] # "idle" /\ pc'[w] # "idle"
      /\ sess'[w].on = sess[w].on /\ sess'[w].row = sess[w].row
  BY <1>1 DEF LookUp, PlacesOK, Session
<1>3. UNCHANGED <<contact, hand, jobRow>>
  BY DEF LookUp, jobVars
<1>4. QED
  BY <1>2, <1>3 DEF Progress, Upto, Verified, Exists, Row

LEMMA VerifyProgress ==
  ASSUME TypeInv, NEW w \in Workers, hand[w].at \in {"next", "count"}, Progress(w),
         NEW mx \in BOOLEAN, VerifyCommit(w, mx), UNCHANGED jobVars
  PROVE  Progress(w)'
<1> USE TypeFacts
<1> DEFINE t == hand[w].task
           n == jobRow[Row(w)].processed
           e == Leads[t][n + 1]
<1>1. w \in Procs /\ Commits(w, mx) /\ pc[w] = "dns"
  BY DEF Procs, Commits, VerifyCommit
<1>2. hand[w].at = "count" /\ t \in Tasks /\ n \in Nat
  BY <1>1, RowOfHand, JobFacts DEF TypeInv, HandsOK, JobRow
<1>3. sess[w].on = {e} /\ sess[w].row[e] # NoContact
  BY <1>1, <1>2 DEF Progress
<1>4. PICK d \in Emails : d = e
  BY <1>1, <1>3
<1>5. Verified(d)'
  <2>1. sess[w].on = {d} /\ sess[w].row[d] # NoContact
    BY <1>3, <1>4
  <2>2. contact[d] \in ContactRow /\ sess[w].row[d] \in ContactRow
    BY <1>1, <2>1 DEF RowsLast, Session
  <2>3. contact'[d] = Written(sess[w].row[d], New(w, mx, sess[w].row[d]), contact[d])
    BY <1>1, <2>1, CommitStores
  <2>4. contact'[d].status = Column(sess[w].row[d].status, New(w, mx, sess[w].row[d]).status,
                                    contact[d].status)
    BY <2>3 DEF Written
  <2>5. New(w, mx, sess[w].row[d]).status # "unverified"
    BY <1>1, <2>2, NewIsVerdict
  <2>6. sess[w].row[d].status # "unverified" => contact[d].status # "unverified"
    BY <1>1, <2>1 DEF RowsLast
  <2>7. contact'[d].status # "unverified"
    BY <2>4, <2>5, <2>6 DEF Column
  <2>8. contact'[d] # NoContact
    BY <1>1, <2>2, CommitKeepsRows, SuppressionAssumption
  <2>9. QED
    BY <2>7, <2>8 DEF Verified, Exists
<1>6. Upto(t, n)'
  <2>1. \A x : Verified(x) => Verified(x)'
    BY <1>1, CommitLasts DEF Verified, Exists, Lasts
  <2>2. UNCHANGED <<hand, jobRow>>
    BY DEF jobVars
  <2>3. QED
    BY <2>1, <2>2 DEF Progress, Upto, Row
<1>7. Upto(t, n + 1)'
  <2>1. UNCHANGED <<hand, jobRow>> /\ t' = t /\ n' = n
    BY DEF jobVars, Row
  <2>2. \A i \in DOMAIN Leads[t] : i \in Nat
    BY <1>2, JobsAssumption
  <2>3. \A i \in Nat : i <= n + 1 => i <= n \/ i = n + 1
    BY <1>2
  <2>4. QED
    BY <1>4, <1>5, <1>6, <2>1, <2>2, <2>3 DEF Upto
<1>8. pc'[w] = "idle"
  BY <1>1 DEF VerifyCommit, End, PlacesOK
<1>9. UNCHANGED <<hand, jobRow>>
  BY DEF jobVars
<1>10. QED
  BY <1>6, <1>7, <1>8, <1>9 DEF Progress, Row

LEMMA JobsKeepOwn ==
  ASSUME TypeInv, OwnInv, JobsNext
  PROVE  OwnInv'
<1> USE JobFacts
<1>1. ASSUME NEW t \in Tasks, stage[t] \in {"none", "created"}
      PROVE  jobRow'[<<t, "handler">>].processed = jobRow[<<t, "handler">>].processed
  <2>1. <<t, "handler">> \in Tasks \X Writers
    BY DEF Writers
  <2>2. ASSUME NEW w \in Workers, hand[w].at # "idle"
        PROVE  <<t, "handler">> # Row(w)
    BY <1>1, <2>2, RowOfHand DEF OwnInv, Row
  <2>3. QED
    BY <2>1, <2>2, CountsKept
<1>2. ASSUME NEW t \in Tasks, QueueBulk(t) \/ PublishFails(t) \/ Record(t)
      PROVE  OwnInv'
  <2>1. queue' = queue /\ hand' = hand
        /\ \A u \in Tasks : stage'[u] \in {"none", "created"} => stage[u] \in {"none", "created"}
    BY <1>2 DEF QueueBulk, PublishFails, Record
  <2>2. QED
    BY <1>1, <2>1, OwnKept
<1>3. ASSUME NEW t \in Tasks, Publish(t)
      PROVE  OwnInv'
  <2>1. /\ queue' = queue \cup {t} /\ stage[t] = "created"
        /\ stage' = [stage EXCEPT ![t] = "published"] /\ UNCHANGED <<jobRow, hand>>
    BY <1>3 DEF Publish
  <2>2. \A u \in Tasks : stage'[u] = IF u = t THEN "published" ELSE stage[u]
    BY <2>1
  <2>3. \A w \in Workers : hand[w].task # t
    BY <2>1 DEF OwnInv
  <2>4. QED
    BY <2>1, <2>2, <2>3 DEF OwnInv
<1>4. ASSUME NEW w \in Workers, WorkerStep(w) \/ Crash(w)
      PROVE  OwnInv'
  <2>1. queue' = queue /\ stage' = stage
    BY <1>4 DEF WorkerStep, Mark, VerifyNext, VerifyUnknown, CountLead, Complete, Fail, Crash
  <2>2. \/ \E place : Goes(w, place)
        \/ hand' = [hand EXCEPT ![w] = Free]
    BY <1>4 DEF WorkerStep, Mark, VerifyNext, VerifyUnknown, CountLead, Complete, Fail, Crash
  <2>3. \A v \in Workers : hand'[v].task = hand[v].task \/ hand'[v].task = NoTask
    BY <2>2 DEF Goes, Free, Hand
  <2>4. QED
    BY <1>1, <2>1, <2>3, OwnKept
<1>5. ASSUME NEW w \in Workers, NEW t \in Tasks, Find(w, t)
      PROVE  OwnInv'
  <2> DEFINE h == [task |-> t, row |-> IF jobRow[<<t, "handler">>].task = t THEN "handler" ELSE "worker",
                   at |-> "mark"]
  <2>1. /\ hand[w].at = "idle" /\ hand' = [hand EXCEPT ![w] = h]
        /\ t \in queue /\ queue' = queue \ {t} /\ UNCHANGED stage
    BY <1>5 DEF Find, At
  <2>2. h \in Hand /\ h.task = t
    BY DEF Hand, Writers
  <2>3. \A u \in Tasks : jobRow'[<<u, "handler">>].processed = jobRow[<<u, "handler">>].processed
    <3>1. ASSUME NEW u \in Tasks
          PROVE  jobRow'[<<u, "handler">>] = jobRow[<<u, "handler">>]
      BY <1>5 DEF Find, Writers
    <3>2. QED
      BY <3>1
  <2> HIDE DEF h
  <2>4. QED
    BY <2>1, <2>2, <2>3, TaskTaken
<1>6. ASSUME NEW w \in Workers, NEW t \in Tasks, RunInline(w, t)
      PROVE  OwnInv'
  <2> DEFINE h == [task |-> t, row |-> "handler", at |-> "next"]
  <2>1. /\ hand[w].at = "idle" /\ stage[t] = "created" /\ stage' = [stage EXCEPT ![t] = "recorded"]
        /\ UNCHANGED queue /\ (hand' = [hand EXCEPT ![w] = h] \/ hand' = hand)
        /\ jobRow' = [jobRow EXCEPT ![<<t, "handler">>].status = "running"]
    BY <1>6 DEF RunInline, At
  <2>2. h \in Hand /\ h.task = t
    BY DEF Hand, Writers
  <2>3. \A u \in Tasks : jobRow'[<<u, "handler">>].processed = jobRow[<<u, "handler">>].processed
    <3>1. ASSUME NEW u \in Tasks
          PROVE  jobRow'[<<u, "handler">>].processed = jobRow[<<u, "handler">>].processed
      <4>1. <<u, "handler">> \in Tasks \X Writers /\ <<t, "handler">> \in Tasks \X Writers
        BY DEF Writers
      <4>2. QED
        BY <2>1, <4>1, StatusWrites
    <3>2. QED
      BY <3>1
  <2>4. \A u \in Tasks : stage'[u] \in {"none", "created"} => stage[u] \in {"none", "created"}
    BY <2>1
  <2> HIDE DEF h
  <2>5. CASE hand' = [hand EXCEPT ![w] = h]
    BY <2>1, <2>2, <2>3, <2>5, TaskTaken
  <2>6. CASE hand' = hand
    BY <2>1, <2>3, <2>4, <2>6, OwnKept
  <2>7. QED
    BY <2>1, <2>5, <2>6
<1>7. QED
  BY <1>2, <1>3, <1>4, <1>5, <1>6 DEF JobsNext

\* A worker other than the one that acts keeps its progress.
LEMMA OthersProgress ==
  ASSUME TypeInv, WorkInv, Lasts, JobsNext, NEW w \in Workers, hand[w].at \in {"next", "count"},
         hand'[w] = hand[w], pc'[w] = pc[w], sess'[w] = sess[w],
         \A r \in Tasks \X Writers :
           jobRow'[r].processed = jobRow[r].processed
           \/ \E v \in Workers \ {w} : hand[v].at # "idle" /\ r = Row(v)
  PROVE  Progress(w)'
<1>1. hand[w].task \in Tasks /\ Row(w) \in Tasks \X Writers
  BY RowOfHand
<1>2. ASSUME NEW v \in Workers \ {w}, hand[v].at # "idle"
      PROVE  Row(w) # Row(v)
  BY <1>1, <1>2, RowOfHand DEF WorkInv, OwnInv, Row
<1>3. jobRow'[Row(w)].processed = jobRow[Row(w)].processed
  BY <1>1, <1>2
<1>4. QED
  BY <1>3, ProgressKept DEF WorkInv, ProgressInv

LEMMA HandAfter ==
  ASSUME TypeInv, NEW w \in Workers, NEW place, Goes(w, place)
  PROVE  hand'[w].at = place /\ hand'[w].task = hand[w].task /\ hand'[w].row = hand[w].row
<1>1. hand[w] \in Hand /\ hand' = [hand EXCEPT ![w].at = place] /\ hand \in [Workers -> Hand]
  BY JobFacts DEF Goes
<1>2. hand'[w] = [hand[w] EXCEPT !.at = place]
  BY <1>1
<1>3. QED
  BY <1>1, <1>2 DEF Hand

LEMMA NoneUpto ==
  ASSUME NEW t \in Tasks
  PROVE  Upto(t, 0)'
<1>1. \A i \in DOMAIN Leads[t] : i \in Nat /\ i >= 1
  BY JobsAssumption
<1>2. QED
  BY <1>1 DEF Upto

LEMMA JobsKeepProgress ==
  ASSUME TypeInv, WorkInv, JobsNext, Lasts, NEW v \in Workers, hand'[v].at \in {"next", "count"}
  PROVE  Progress(v)'
<1> USE JobFacts, TypeFacts
<1>1. v \in Procs
  BY DEF Procs
<1>2. ASSUME NEW t \in Tasks, QueueBulk(t) \/ Publish(t) \/ PublishFails(t) \/ Record(t)
      PROVE  Progress(v)'
  <2>1. UNCHANGED <<hand, pc, sess>>
    BY <1>2 DEF QueueBulk, Publish, PublishFails, Record, suppressionVars
  <2>2. \A r \in Tasks \X Writers : jobRow'[r].processed = jobRow[r].processed
    BY <1>2, CountsStill
  <2>3. QED
    BY <2>1, <2>2, OthersProgress
<1>3. ASSUME NEW w \in Workers, v # w, WorkerStep(w) \/ Crash(w) \/ \E t \in Tasks : RunInline(w, t) \/ Find(w, t)
      PROVE  Progress(v)'
  <2>1. \E h : hand' = [hand EXCEPT ![w] = h] \/ hand' = hand
    BY <1>3 DEF WorkerStep, Mark, VerifyNext, VerifyUnknown, CountLead, Complete, Fail, Crash, Goes,
                RunInline, Find
  <2>2. hand'[v] = hand[v]
    BY <1>3, <2>1
  <2>3. \/ UNCHANGED <<pc, sess>>
        \/ \E at, x : pc' = [pc EXCEPT ![w] = at] /\ sess' = [sess EXCEPT ![w] = x]
    BY <1>3 DEF WorkerStep, Mark, VerifyNext, StartVerify, Begin, VerifyUnknown, CountLead, Complete,
                Fail, Crash, End, RunInline, Find, suppressionVars
  <2>4. pc'[v] = pc[v] /\ sess'[v] = sess[v]
    BY <1>1, <1>3, <2>3 DEF PlacesOK
  <2>5. ASSUME NEW r \in Tasks \X Writers
        PROVE  \/ jobRow'[r].processed = jobRow[r].processed
               \/ \E u \in Workers \ {v} : hand[u].at # "idle" /\ r = Row(u)
    <3>1. CASE Mark(w) \/ CountLead(w)
      <4>1. jobRow'[r] = jobRow[r] \/ (hand[w].at # "idle" /\ r = Row(w))
        BY <3>1 DEF Mark, CountLead, At
      <4>2. QED
        BY <1>3, <4>1
    <3>2. CASE ~(Mark(w) \/ CountLead(w))
      BY <1>3, <3>2, CountsStill DEF WorkerStep
    <3>3. QED
      BY <3>1, <3>2
  <2>6. QED
    BY <2>2, <2>4, <2>5, OthersProgress
<1>4. ASSUME Mark(v)
      PROVE  Progress(v)'
  <2>1. /\ hand[v].at = "mark" /\ Goes(v, "next")
        /\ jobRow' = [jobRow EXCEPT ![Row(v)].status = "running", ![Row(v)].processed = 0]
    BY <1>4 DEF Mark, At
  <2>2. hand[v].task \in Tasks /\ Row(v) \in Tasks \X Writers /\ jobRow[Row(v)] \in JobRow
    BY <2>1, RowOfHand
  <2>3. jobRow'[Row(v)] = [jobRow[Row(v)] EXCEPT !.status = "running", !.processed = 0]
    BY <2>1, <2>2
  <2>4. jobRow'[Row(v)].processed = 0
    BY <2>2, <2>3 DEF JobRow
  <2>5. hand'[v].at = "next" /\ hand'[v].task = hand[v].task /\ hand'[v].row = hand[v].row
    BY <2>1, HandAfter
  <2>6. PICK t \in Tasks : t = hand[v].task
    BY <2>2
  <2>7. Row(v)' = Row(v)
    BY <2>5 DEF Row
  <2>8. QED
    BY <2>4, <2>5, <2>6, <2>7, NoneUpto DEF Progress
<1>5. ASSUME VerifyNext(v)
      PROVE  Progress(v)'
  <2>1. PICK e \in Emails : e = Next1(v)
    BY <1>5 DEF VerifyNext, Exists
  <2>2. /\ hand[v].at = "next" /\ Goes(v, "count") /\ Begin(v, {e}, "load", {})
        /\ contact[e] # NoContact /\ UNCHANGED <<contact, jobRow>>
    BY <1>5, <2>1 DEF VerifyNext, At, StartVerify, Exists
  <2>3. hand'[v].at = "count" /\ hand'[v].task = hand[v].task /\ hand'[v].row = hand[v].row
    BY <2>2, HandAfter
  <2>4. pc'[v] = "load" /\ sess'[v].on = {e} /\ sess'[v].row[e] = contact[e]
    BY <1>1, <2>2 DEF Begin, PlacesOK
  <2>5. Progress(v)
    BY <2>2 DEF WorkInv, ProgressInv
  <2>6. PICK t, n : t = hand[v].task /\ n = jobRow[Row(v)].processed
    OBVIOUS
  <2>7. Upto(t, n)'
    BY <2>2, <2>5, <2>6 DEF Progress, Upto, Verified, Exists
  <2>8. e = Leads[t][n + 1]
    BY <2>1, <2>6 DEF Next1
  <2>9. Row(v)' = Row(v) /\ hand'[v].task = t /\ jobRow'[Row(v)].processed = n
    BY <2>2, <2>3, <2>6 DEF Row
  <2>10. QED
    BY <2>2, <2>3, <2>4, <2>7, <2>8, <2>9 DEF Progress
<1>6. ASSUME CountLead(v)
      PROVE  Progress(v)'
  <2>1. /\ hand[v].at = "count" /\ pc[v] = "idle" /\ Goes(v, "next") /\ UNCHANGED <<contact, pc>>
        /\ jobRow' = [jobRow EXCEPT ![Row(v)].processed = @ + 1]
    BY <1>6 DEF CountLead, At, suppressionVars
  <2>2. hand[v].task \in Tasks /\ Row(v) \in Tasks \X Writers /\ jobRow[Row(v)] \in JobRow
    BY <2>1, RowOfHand
  <2>3. hand'[v].at = "next" /\ hand'[v].task = hand[v].task /\ hand'[v].row = hand[v].row
    BY <2>1, HandAfter
  <2>4. PICK t, n : t = hand[v].task /\ n = jobRow[Row(v)].processed
    OBVIOUS
  <2>5. Upto(t, n + 1)
    BY <2>1, <2>4 DEF WorkInv, ProgressInv, Progress
  <2>6. Upto(t, n + 1)'
    BY <2>1, <2>5 DEF Upto, Verified, Exists
  <2>7. Row(v)' = Row(v) /\ hand'[v].task = t
    BY <2>3, <2>4 DEF Row
  <2>8. jobRow'[Row(v)].processed = n + 1
    BY <2>1, <2>2, <2>4 DEF JobRow
  <2>9. QED
    BY <2>3, <2>6, <2>7, <2>8 DEF Progress
<1>7. ASSUME VerifyUnknown(v) \/ Complete(v) \/ Fail(v) \/ Crash(v)
      PROVE  FALSE
  <2>1. CASE VerifyUnknown(v)
    BY <2>1, GoesTypes DEF VerifyUnknown, At, Goes, Hand
  <2>2. CASE Complete(v) \/ Fail(v) \/ Crash(v)
    BY <2>2 DEF Complete, Fail, Crash, Free
  <2>3. QED
    BY <1>7, <2>1, <2>2
<1>8. ASSUME NEW t \in Tasks, Find(v, t)
      PROVE  FALSE
  BY <1>8 DEF Find
<1>9. ASSUME NEW t \in Tasks, RunInline(v, t)
      PROVE  Progress(v)'
  <2>1. /\ stage[t] = "created" /\ hand[v].at = "idle"
        /\ jobRow' = [jobRow EXCEPT ![<<t, "handler">>].status = "running"]
        /\ \/ hand' = [hand EXCEPT ![v] = [task |-> t, row |-> "handler", at |-> "next"]]
           \/ hand' = hand
    BY <1>9 DEF RunInline, At
  <2>2. hand'[v] = [task |-> t, row |-> "handler", at |-> "next"]
    BY <2>1
  <2>3. <<t, "handler">> \in Tasks \X Writers
    BY DEF Writers
  <2>4. jobRow'[<<t, "handler">>].processed = 0
    BY <1>9, <2>1, <2>3, CountsStill DEF WorkInv, OwnInv
  <2>5. Row(v)' = <<t, "handler">>
    BY <2>2 DEF Row
  <2>6. QED
    BY <2>2, <2>4, <2>5, NoneUpto DEF Progress
<1>10. QED
  BY <1>2, <1>3, <1>4, <1>5, <1>6, <1>7, <1>8, <1>9 DEF JobsNext, WorkerStep

\* Only a worker that has counted every lead completes a row.
LEMMA CompletedBy ==
  ASSUME TypeInv, JobsNext, NEW t \in Tasks, NEW x \in Writers,
         jobRow'[<<t, x>>].status = "completed"
  PROVE  \/ jobRow[<<t, x>>].status = "completed"
         \/ \E w \in Workers : Complete(w) /\ Row(w) = <<t, x>>
<1> USE JobFacts
<1> DEFINE r == <<t, x>>
<1>1. r \in Tasks \X Writers /\ jobRow[r] \in JobRow
  OBVIOUS
<1>2. ASSUME NEW q \in Tasks \X Writers, NEW v, v # "completed", jobRow' = [jobRow EXCEPT ![q].status = v]
      PROVE  jobRow[r].status = "completed"
  <2>1. CASE r = q
    BY <1>1, <1>2, <2>1 DEF JobRow
  <2>2. CASE r # q
    BY <1>1, <1>2, <2>2
  <2>3. QED
    BY <2>1, <2>2
<1>3. ASSUME NEW u \in Tasks, QueueBulk(u)
      PROVE  jobRow[r].status = "completed"
  BY <1>2, <1>3 DEF QueueBulk, Writers
<1>4. ASSUME NEW u \in Tasks, Record(u)
      PROVE  jobRow[r].status = "completed"
  BY <1>1, <1>4 DEF Record, JobRow
<1>5. ASSUME NEW w \in Workers, NEW u \in Tasks, RunInline(w, u)
      PROVE  jobRow[r].status = "completed"
  BY <1>2, <1>5 DEF RunInline, Writers
<1>6. ASSUME NEW w \in Workers, NEW u \in Tasks, Find(w, u)
      PROVE  jobRow[r].status = "completed"
  <2>1. \/ jobRow' = jobRow
        \/ jobRow' = [jobRow EXCEPT ![<<u, "worker">>].task = u, ![<<u, "worker">>].status = "queued"]
    BY <1>6 DEF Find
  <2>2. CASE r = <<u, "worker">>
    <3>1. \/ jobRow'[r] = jobRow[r]
          \/ jobRow'[r] = [jobRow[r] EXCEPT !.task = u, !.status = "queued"]
      BY <1>1, <2>1, <2>2
    <3>2. QED
      BY <1>1, <3>1 DEF JobRow
  <2>3. CASE r # <<u, "worker">>
    BY <1>1, <2>1, <2>3
  <2>4. QED
    BY <2>2, <2>3
<1>7. ASSUME NEW w \in Workers, Mark(w)
      PROVE  jobRow[r].status = "completed"
  <2>1. Row(w) \in Tasks \X Writers
    BY <1>7, RowOfHand DEF Mark, At
  <2>2. CASE r = Row(w)
    <3>1. jobRow'[r] = [jobRow[r] EXCEPT !.status = "running", !.processed = 0]
      BY <1>1, <1>7, <2>2 DEF Mark
    <3>2. QED
      BY <1>1, <3>1 DEF JobRow
  <2>3. CASE r # Row(w)
    BY <1>1, <1>7, <2>3 DEF Mark
  <2>4. QED
    BY <2>2, <2>3
<1>8. ASSUME NEW w \in Workers, CountLead(w)
      PROVE  jobRow[r].status = "completed"
  <2>1. CASE r = Row(w)
    <3>1. jobRow'[r] = [jobRow[r] EXCEPT !.processed = jobRow[r].processed + 1]
      BY <1>1, <1>8, <2>1 DEF CountLead
    <3>2. QED
      BY <1>1, <3>1 DEF JobRow
  <2>2. CASE r # Row(w)
    BY <1>1, <1>8, <2>2 DEF CountLead
  <2>3. QED
    BY <2>1, <2>2
<1>9. ASSUME NEW w \in Workers, Fail(w)
      PROVE  jobRow[r].status = "completed"
  <2>1. hand[w].task \in Tasks
    BY <1>9, RowOfHand DEF Fail, At
  <2>2. PICK y \in Writers : jobRow' = [jobRow EXCEPT ![<<hand[w].task, y>>].status = "failed"]
    BY <1>9 DEF Fail
  <2>3. QED
    BY <1>2, <2>1, <2>2
<1>10. ASSUME NEW w \in Workers, Complete(w), r # Row(w)
       PROVE  jobRow[r].status = "completed"
  BY <1>1, <1>10 DEF Complete
<1>11. QED
  BY <1>3, <1>4, <1>5, <1>6, <1>7, <1>8, <1>9, <1>10
     DEF JobsNext, WorkerStep, Publish, PublishFails, VerifyNext, VerifyUnknown, Crash

LEMMA CompletedKept ==
  ASSUME TypeInv, WorkInv, [Next]_vars
  PROVE  CompletedJobsVerifiedTheirLeads'
<1> USE JobFacts
<1>1. SUFFICES ASSUME NEW t \in Tasks, NEW x \in Writers, jobRow'[<<t, x>>].status = "completed",
                      NEW i \in DOMAIN Leads[t]
               PROVE  Verified(Leads[t][i])'
  BY DEF CompletedJobsVerifiedTheirLeads, Verified
<1>2. \A e : Verified(e) => Verified(e)'
  BY StepLasts DEF Verified, Exists, Lasts
<1>3. CASE jobRow[<<t, x>>].status = "completed"
  BY <1>2, <1>3 DEF WorkInv, CompletedJobsVerifiedTheirLeads, Verified
<1>4. ASSUME NEW w \in Workers, Complete(w), Row(w) = <<t, x>>
      PROVE  Verified(Leads[t][i])'
  <2>1. /\ hand[w].at = "next" /\ hand[w].task = t
        /\ jobRow[Row(w)].processed = Len(Leads[t])
    BY <1>4 DEF Complete, At, Row
  <2>2. Upto(t, Len(Leads[t]))
    BY <2>1 DEF WorkInv, ProgressInv, Progress
  <2>3. i <= Len(Leads[t])
    BY JobsAssumption
  <2>4. QED
    BY <1>2, <2>2, <2>3 DEF Upto
<1>5. CASE UNCHANGED jobVars
  BY <1>1, <1>3, <1>5 DEF jobVars
<1>6. CASE JobsNext
  BY <1>1, <1>3, <1>4, <1>6, CompletedBy
<1>7. QED
  BY <1>5, <1>6 DEF Next, vars

\* While only contacts change.
LEMMA ContactsKeepProgress ==
  ASSUME TypeInv, WorkInv, Lasts, SuppressionNext \/ ImportNext \/ UNCHANGED suppressionVars,
         UNCHANGED jobVars, NEW w \in Workers, hand[w].at \in {"next", "count"}
  PROVE  Progress(w)'
<1> USE TypeFacts, SuppressionAssumption
<1>1. Progress(w) /\ UNCHANGED <<hand, jobRow>>
  BY DEF WorkInv, ProgressInv, jobVars
<1>2. ASSUME pc'[w] = pc[w], sess'[w] = sess[w]
      PROVE  Progress(w)'
  BY <1>1, <1>2, ProgressKept
<1>3. w \in Procs /\ w \notin Clients
  BY DEF Procs
<1>4. ASSUME NEW p \in Procs, p # w, NEW at, NEW x,
             pc' = [pc EXCEPT ![p] = at] \/ pc' = pc, sess' = [sess EXCEPT ![p] = x] \/ sess' = sess
      PROVE  Progress(w)'
  <2>1. pc'[w] = pc[w] /\ sess'[w] = sess[w]
    BY <1>3, <1>4 DEF PlacesOK
  <2>2. QED
    BY <1>2, <2>1
<1>5. ASSUME NEW p \in Clients, NEW e \in Emails,
             AddSuppression(p, e) \/ Release(p, e) \/ VerifyLead(p, e)
      PROVE  Progress(w)'
  BY <1>3, <1>4, <1>5 DEF AddSuppression, Release, VerifyLead, StartVerify, Begin, Procs
<1>6. ASSUME NEW p \in Clients, NEW S \in SUBSET Emails, BulkSuppress(p, S)
      PROVE  Progress(w)'
  BY <1>3, <1>4, <1>6 DEF BulkSuppress, Begin, Procs
<1>7. ASSUME NEW p \in Clients, SuppressCommit(p) \/ SuppressConflict(p) \/ ReleaseCommit(p)
      PROVE  Progress(w)'
  BY <1>3, <1>4, <1>7 DEF SuppressCommit, SuppressConflict, Rollback, ReleaseCommit, End, Procs
<1>8. ASSUME NEW p \in Clients, NEW e \in Emails, NEW k \in Kinds, SetContactType(p, e, k)
      PROVE  Progress(w)'
  BY <1>2, <1>8 DEF SetContactType
<1>9. ASSUME NEW p \in Procs, LookUp(p)
      PROVE  Progress(w)'
  <2>1. CASE p = w
    BY <1>1, <1>9, <2>1, LookUpProgress
  <2>2. CASE p # w
    <3>1. pc'[w] = pc[w] /\ sess'[w] = sess[w]
      BY <1>3, <1>9, <2>2 DEF LookUp, PlacesOK
    <3>2. QED
      BY <1>2, <3>1
  <2>3. QED
    BY <2>1, <2>2
<1>10. ASSUME NEW p \in Procs, NEW mx \in BOOLEAN, VerifyCommit(p, mx)
       PROVE  Progress(w)'
  <2>1. CASE p = w
    BY <1>1, <1>10, <2>1, VerifyProgress
  <2>2. CASE p # w
    BY <1>4, <1>10, <2>2 DEF VerifyCommit, End
  <2>3. QED
    BY <2>1, <2>2
<1>11. CASE SuppressionNext
  BY <1>5, <1>6, <1>7, <1>8, <1>9, <1>10, <1>11 DEF SuppressionNext
<1>12. CASE ImportNext
  <2>1. \E p \in Clients : \E at : UNCHANGED sess /\ (pc' = [pc EXCEPT ![p] = at] \/ pc' = pc)
    BY <1>12 DEF ImportNext, Upload, Map, Confirm, MapCommit, ConfirmCommit, ConfirmConflict, Close
  <2>2. QED
    BY <1>3, <1>4, <2>1 DEF Procs
<1>13. CASE UNCHANGED suppressionVars
  BY <1>2, <1>13 DEF suppressionVars
<1>14. QED
  BY <1>11, <1>12, <1>13

LEMMA StepWork ==
  ASSUME TypeInv, WorkInv, [Next]_vars
  PROVE  WorkInv'
<1>1. Lasts
  BY StepLasts
<1>2. CASE JobsNext
  BY <1>1, <1>2, JobsKeepOwn, JobsKeepProgress, CompletedKept DEF WorkInv, ProgressInv
<1>3. CASE (SuppressionNext \/ ImportNext \/ UNCHANGED suppressionVars) /\ UNCHANGED jobVars
  <2>1. OwnInv'
    BY <1>3 DEF WorkInv, OwnInv, jobVars
  <2>2. ASSUME NEW w \in Workers, hand'[w].at \in {"next", "count"}
        PROVE  Progress(w)'
    BY <1>1, <1>3, <2>2, ContactsKeepProgress DEF jobVars
  <2>3. QED
    BY <2>1, <2>2, CompletedKept DEF WorkInv, ProgressInv
<1>4. QED
  BY <1>2, <1>3 DEF Next, vars

\* A completed row means that each lead of its task has got a verdict.
THEOREM CompletedJobsAreDone == Spec => []CompletedJobsVerifiedTheirLeads
<1>1. ASSUME Init
      PROVE  WorkInv
  <2>1. OwnInv
    BY <1>1, JobsAssumption DEF Init, JobsInit, OwnInv, Free, Writers
  <2>2. ProgressInv
    BY <1>1 DEF Init, JobsInit, ProgressInv, Free
  <2>3. CompletedJobsVerifiedTheirLeads
    BY <1>1 DEF Init, JobsInit, CompletedJobsVerifiedTheirLeads, Writers
  <2>4. QED
    BY <2>1, <2>2, <2>3 DEF WorkInv
<1>2. TypeInv /\ WorkInv /\ [Next]_vars => WorkInv'
  BY StepWork
<1>3. WorkInv => CompletedJobsVerifiedTheirLeads
  BY DEF WorkInv
<1>4. QED
  BY <1>1, <1>2, <1>3, AlwaysTyped, PTL DEF Spec

-----------------------------------------------------------------------------
(* Verification jobs: what is finished.                                    *)

Finished(r) == jobRow[r].status \in {"completed", "failed"}

\* A row that says completed or failed says so for good.
FinishedRowsStay == \A r \in Tasks \X Writers : Finished(r) => jobRow'[r].status = jobRow[r].status

\* Nobody has the task of a finished row any more.
SpentInv ==
  \A t \in Tasks, x \in Writers : Finished(<<t, x>>) =>
    /\ stage[t] \notin {"none", "created"} /\ t \notin queue
    /\ \A w \in Workers : hand[w].task # t

LEMMA SpentKept ==
  ASSUME TypeInv, SpentInv, queue' \subseteq queue,
         \A t \in Tasks : stage'[t] \in {"none", "created"} => stage[t] \in {"none", "created"},
         \A w \in Workers : hand'[w].task \in {hand[w].task, NoTask},
         \A r \in Tasks \X Writers :
           jobRow'[r].status = jobRow[r].status \/ (~Finished(r) /\ ~Finished(r)')
  PROVE  SpentInv' /\ FinishedRowsStay
<1> USE JobFacts, JobsAssumption
<1>1. \A r \in Tasks \X Writers : Finished(r)' => Finished(r)
  BY DEF Finished
<1>2. SpentInv'
  BY <1>1 DEF SpentInv
<1>3. QED
  BY <1>2 DEF FinishedRowsStay

\* The last thing a worker does with a task is to finish a row of it.
LEMMA FinishSpends ==
  ASSUME TypeInv, OwnInv, SpentInv, NEW w \in Workers, Complete(w) \/ Fail(w)
  PROVE  SpentInv' /\ FinishedRowsStay
<1> USE JobFacts, JobsAssumption
<1>1. hand[w].at # "idle" /\ hand' = [hand EXCEPT ![w] = Free] /\ UNCHANGED <<queue, stage>>
  BY DEF Complete, Fail, At
<1>2. hand[w].task \in Tasks /\ Row(w) \in Tasks \X Writers
  BY <1>1, RowOfHand
<1>3. PICK x \in Writers, v \in {"completed", "failed"} :
        jobRow' = [jobRow EXCEPT ![<<hand[w].task, x>>].status = v]
  BY <1>1, RowOfHand DEF Complete, Fail, Row
<1>4. \A r \in Tasks \X Writers : r # <<hand[w].task, x>> => jobRow'[r] = jobRow[r]
  BY <1>3
<1>5. /\ stage[hand[w].task] \notin {"none", "created"} /\ hand[w].task \notin queue
      /\ \A u \in Workers \ {w} : hand[u].task # hand[w].task
  BY <1>2 DEF OwnInv
<1>6. hand'[w].task = NoTask /\ \A u \in Workers \ {w} : hand'[u] = hand[u]
  BY <1>1 DEF Free
<1>7. ASSUME NEW t \in Tasks, NEW y \in Writers, Finished(<<t, y>>)'
      PROVE  /\ stage'[t] \notin {"none", "created"} /\ t \notin queue'
             /\ \A u \in Workers : hand'[u].task # t
  <2>1. CASE t = hand[w].task
    BY <1>1, <1>2, <1>5, <1>6, <2>1
  <2>2. CASE t # hand[w].task
    <3>1. <<t, y>> \in Tasks \X Writers /\ <<t, y>> # <<hand[w].task, x>>
      BY <2>2
    <3>2. Finished(<<t, y>>)
      BY <1>4, <1>7, <3>1 DEF Finished
    <3>3. QED
      BY <1>1, <1>6, <3>2 DEF SpentInv
  <2>3. QED
    BY <2>1, <2>2
<1>8. ~Finished(<<hand[w].task, x>>)
  BY <1>2 DEF SpentInv
<1>9. FinishedRowsStay
  BY <1>4, <1>8 DEF FinishedRowsStay
<1>10. QED
  BY <1>7, <1>9 DEF SpentInv

LEMMA JobsKeepSpent ==
  ASSUME TypeInv, OwnInv, SpentInv, JobsNext
  PROVE  SpentInv' /\ FinishedRowsStay
<1> USE JobFacts, JobsAssumption
<1>1. ASSUME NEW t \in Tasks, NEW x \in Writers, \/ stage[t] \in {"none", "created"} \/ t \in queue
                                                 \/ \E w \in Workers : hand[w].task = t
      PROVE  ~Finished(<<t, x>>)
  BY <1>1 DEF SpentInv
<1>2. "handler" \in Writers /\ "worker" \in Writers
  BY DEF Writers
<1>3. ASSUME NEW t \in Tasks, QueueBulk(t) PROVE SpentInv' /\ FinishedRowsStay
  <2>1. ~Finished(<<t, "handler">>)
    BY <1>1, <1>2, <1>3 DEF QueueBulk
  <2>2. \A r \in Tasks \X Writers : IF r = <<t, "handler">> THEN jobRow'[r].status = "queued"
                                    ELSE jobRow'[r] = jobRow[r]
    BY <1>3 DEF QueueBulk, JobRow
  <2>3. \A r \in Tasks \X Writers :
          jobRow'[r].status = jobRow[r].status \/ (~Finished(r) /\ ~Finished(r)')
    BY <2>1, <2>2 DEF Finished
  <2>4. /\ UNCHANGED <<queue, hand>>
        /\ \A u \in Tasks : stage'[u] \in {"none", "created"} => stage[u] \in {"none", "created"}
    BY <1>3 DEF QueueBulk
  <2>5. QED
    BY <2>3, <2>4, SpentKept
<1>4. ASSUME NEW t \in Tasks, Publish(t) PROVE SpentInv' /\ FinishedRowsStay
  <2>1. /\ stage[t] = "created" /\ stage' = [stage EXCEPT ![t] = "published"]
        /\ queue' = queue \cup {t} /\ UNCHANGED <<jobRow, hand>>
    BY <1>4 DEF Publish
  <2>2. \A x \in Writers : ~Finished(<<t, x>>)
    BY <1>1, <2>1
  <2>3. QED
    BY <2>1, <2>2 DEF SpentInv, FinishedRowsStay, Finished
<1>5. ASSUME NEW t \in Tasks, PublishFails(t) \/ Record(t) PROVE SpentInv' /\ FinishedRowsStay
  <2>1. /\ UNCHANGED <<queue, hand>>
        /\ \A u \in Tasks : stage'[u] \in {"none", "created"} => stage[u] \in {"none", "created"}
    BY <1>5 DEF PublishFails, Record
  <2>2. jobRow' = jobRow \/ jobRow' = [jobRow EXCEPT ![<<t, "handler">>].task = t]
    BY <1>5 DEF PublishFails, Record
  <2>3. \A r \in Tasks \X Writers : jobRow'[r].status = jobRow[r].status
    <3>1. <<t, "handler">> \in Tasks \X Writers
      BY <1>2
    <3>2. [jobRow[<<t, "handler">>] EXCEPT !.task = t].status = jobRow[<<t, "handler">>].status
      BY <3>1 DEF JobRow
    <3>3. QED
      BY <2>2, <3>1, <3>2
  <2>4. QED
    BY <2>1, <2>3, SpentKept
<1>6. ASSUME NEW w \in Workers, Mark(w) \/ CountLead(w) PROVE SpentInv' /\ FinishedRowsStay
  <2>1. Row(w) = <<hand[w].task, hand[w].row>> /\ hand[w].task \in Tasks /\ hand[w].row \in Writers
    BY <1>6, RowOfHand DEF Mark, CountLead, At, Row
  <2>2. ~Finished(Row(w))
    BY <1>1, <2>1
  <2>3. \A r \in Tasks \X Writers : IF r = Row(w) THEN jobRow'[r].status \in {"running", jobRow[r].status}
                                    ELSE jobRow'[r] = jobRow[r]
    BY <1>6 DEF Mark, CountLead, JobRow
  <2>4. \A r \in Tasks \X Writers :
          jobRow'[r].status = jobRow[r].status \/ (~Finished(r) /\ ~Finished(r)')
    BY <2>2, <2>3 DEF Finished
  <2>5. PICK place : Goes(w, place)
    BY <1>6 DEF Mark, CountLead
  <2>6. UNCHANGED <<queue, stage>>
    BY <1>6 DEF Mark, CountLead
  <2>7. \A v \in Workers : hand'[v].task = hand[v].task
    BY <2>5, HandAfter DEF Goes
  <2>8. QED
    BY <2>4, <2>6, <2>7, SpentKept
<1>7. ASSUME NEW w \in Workers, VerifyNext(w) \/ VerifyUnknown(w) \/ Crash(w)
      PROVE  SpentInv' /\ FinishedRowsStay
  <2>1. UNCHANGED <<queue, stage, jobRow>>
    BY <1>7 DEF VerifyNext, VerifyUnknown, Crash
  <2>2. hand' = [hand EXCEPT ![w] = Free] \/ \E place : Goes(w, place)
    BY <1>7 DEF VerifyNext, VerifyUnknown, Crash
  <2>3. \A v \in Workers : hand'[v].task \in {hand[v].task, NoTask}
    <3>1. CASE hand' = [hand EXCEPT ![w] = Free]
      BY <3>1 DEF Free
    <3>2. ASSUME NEW place, Goes(w, place)
          PROVE  \A v \in Workers : hand'[v].task = hand[v].task
      BY <3>2, HandAfter DEF Goes
    <3>3. QED
      BY <2>2, <3>1, <3>2
  <2>4. \A r \in Tasks \X Writers : jobRow'[r].status = jobRow[r].status
    BY <2>1
  <2>5. QED
    BY <2>1, <2>3, <2>4, SpentKept
<1>8. ASSUME NEW w \in Workers, NEW t \in Tasks, RunInline(w, t) \/ Find(w, t)
      PROVE  SpentInv' /\ FinishedRowsStay
  <2>1. \A x \in Writers : ~Finished(<<t, x>>)
    BY <1>1, <1>8 DEF RunInline, Find
  <2>2. \A r \in Tasks \X Writers :
          jobRow'[r] = jobRow[r] \/ (r[1] = t /\ jobRow'[r].status \in {"running", "queued"})
    <3>1. <<t, "handler">> \in Tasks \X Writers /\ <<t, "worker">> \in Tasks \X Writers
      BY <1>2
    <3>2. CASE RunInline(w, t)
      <4>1. jobRow' = [jobRow EXCEPT ![<<t, "handler">>].status = "running"]
        BY <3>2 DEF RunInline
      <4>2. QED
        BY <3>1, <4>1 DEF JobRow
    <3>3. CASE Find(w, t)
      <4>1. jobRow' = jobRow
            \/ jobRow' = [jobRow EXCEPT ![<<t, "worker">>].task = t, ![<<t, "worker">>].status = "queued"]
        BY <3>3 DEF Find
      <4>2. \A r \in Tasks \X Writers : r # <<t, "worker">> => jobRow'[r] = jobRow[r]
        BY <4>1
      <4>3. jobRow' = jobRow \/ jobRow'[<<t, "worker">>].status = "queued"
        <5>1. jobRow[<<t, "worker">>] \in JobRow
          BY <3>1
        <5>2. [[jobRow[<<t, "worker">>] EXCEPT !.task = t] EXCEPT !.status = "queued"].status = "queued"
          BY <5>1 DEF JobRow
        <5>3. jobRow' = jobRow
              \/ jobRow'[<<t, "worker">>] = [[jobRow[<<t, "worker">>] EXCEPT !.task = t]
                                              EXCEPT !.status = "queued"]
          BY <3>1, <4>1
        <5>4. QED
          BY <5>2, <5>3
      <4>4. QED
        BY <4>2, <4>3
    <3>4. QED
      BY <1>8, <3>2, <3>3
  <2>3. \A v \in Workers : hand'[v].task \in {hand[v].task, t}
    BY <1>8 DEF RunInline, Find
  <2>4. queue' \subseteq queue
        /\ \A u \in Tasks : stage'[u] \in {"none", "created"} => stage[u] \in {"none", "created"}
    BY <1>8 DEF RunInline, Find
  <2>5. ASSUME NEW u \in Tasks, NEW x \in Writers, Finished(<<u, x>>) \/ Finished(<<u, x>>)'
        PROVE  u # t /\ jobRow'[<<u, x>>] = jobRow[<<u, x>>]
    BY <2>1, <2>2, <2>5 DEF Finished
  <2>6. SpentInv'
    BY <2>3, <2>4, <2>5 DEF SpentInv, Finished
  <2>7. FinishedRowsStay
    BY <2>5 DEF FinishedRowsStay
  <2>8. QED
    BY <2>6, <2>7
<1>9. QED
  BY <1>3, <1>4, <1>5, <1>6, <1>7, <1>8, FinishSpends DEF JobsNext, WorkerStep

\* A verification's row that says completed or failed never changes its status
\* again: no late commit of the handler and no second worker reopens it.
THEOREM FinishedVerificationsStay == Spec => [][FinishedRowsStay]_vars
<1>1. Init => OwnInv /\ SpentInv
  BY JobsAssumption DEF Init, JobsInit, OwnInv, SpentInv, Finished, Free, Writers
<1>2. TypeInv /\ OwnInv /\ SpentInv /\ [Next]_vars => OwnInv' /\ SpentInv' /\ [FinishedRowsStay]_vars
  <2> SUFFICES ASSUME TypeInv, OwnInv, SpentInv, [Next]_vars
               PROVE  OwnInv' /\ SpentInv' /\ FinishedRowsStay
    OBVIOUS
  <2>1. CASE JobsNext
    BY <2>1, JobsKeepOwn, JobsKeepSpent
  <2>2. CASE UNCHANGED jobVars
    BY <2>2 DEF jobVars, OwnInv, SpentInv, Finished, FinishedRowsStay
  <2>3. QED
    BY <2>1, <2>2 DEF Next, vars
<1>3. QED
  BY <1>1, <1>2, AlwaysTyped, PTL DEF Spec

-----------------------------------------------------------------------------
(* Requests that keep out of each other's way.                             *)

\* What a lock on the contact would give: no two sessions have one address in
\* hand, be it to suppress, to release, to verify or to import it.
OneSessionPerAddress ==
  /\ \A p, q \in Procs : p # q => sess[p].on \cap sess[q].on = {}
  /\ \A p \in Clients, q \in Procs : pc[p] = "confirm" => AddressesOf(p) \cap sess[q].on = {}

ListedIsBlockedAlways == \A e \in listed, campaign \in Campaigns : ~MailableTo(e, campaign)

FreeIsUnflaggedAlways ==
  \A e \in Exists \ listed : ~contact[e].suppressed /\ contact[e].unsub = "subscribed"

VerdictIsWholeAlways == \A e \in Exists : Whole(e, contact[e])

Undisturbed == overtaken = {} /\ raced = {} /\ torn = {}

LEMMA StepUndisturbed ==
  ASSUME TypeInv, Undisturbed, OneSessionPerAddress, [Next]_vars
  PROVE  Undisturbed'
<1> USE TypeFacts DEF Undisturbed
<1>1. ASSUME NEW p \in Procs PROVE Others(p, sess[p].on) = {}
  BY DEF OneSessionPerAddress, Others
<1>2. ASSUME NEW p \in Procs, NEW mx \in BOOLEAN, Commits(p, mx) PROVE Undisturbed'
  BY <1>1, <1>2 DEF Commits, SuppressCommit, ReleaseCommit, VerifyCommit, Marks, Overtakes
<1>3. CASE SuppressionNext
  <2>1. ASSUME NEW p \in Clients, SuppressCommit(p) \/ ReleaseCommit(p) PROVE Undisturbed'
    <3>1. p \in Procs /\ Commits(p, TRUE)
      BY <2>1 DEF Commits, Procs
    <3>2. QED
      BY <1>2, <3>1
  <2>2. ASSUME NEW p \in Procs, NEW mx \in BOOLEAN, VerifyCommit(p, mx) PROVE Undisturbed'
    BY <1>2, <2>2 DEF Commits
  <2>3. QED
    BY <1>3, <2>1, <2>2 DEF SuppressionNext, AddSuppression, Release, VerifyLead, StartVerify,
       BulkSuppress, SuppressConflict, Rollback, SetContactType, LookUp
<1>4. CASE ImportNext
  <2>1. ASSUME NEW p \in Clients, ConfirmCommit(p) PROVE Undisturbed'
    <3>1. Others(p, AddressesOf(p)) = {}
      BY <2>1 DEF ConfirmCommit, OneSessionPerAddress, Others
    <3>2. QED
      BY <2>1, <3>1 DEF ConfirmCommit, AddContacts
  <2>2. QED
    BY <1>4, <2>1 DEF ImportNext, Upload, Map, Confirm, MapCommit, ConfirmConflict
<1>5. CASE JobsNext
  BY <1>5 DEF JobsNext, QueueBulk, Publish, PublishFails, Record, WorkerStep, Mark, VerifyNext,
     VerifyUnknown, CountLead, Complete, Fail, Crash, RunInline, Find, StartVerify, suppressionVars
<1>6. CASE UNCHANGED vars
  BY <1>6 DEF vars, suppressionVars
<1>7. QED
  BY <1>3, <1>4, <1>5, <1>6 DEF Next

\* Where no two sessions have one address in hand, list, flags and verdict agree
\* without exception: whoever is on the list is mailed by no campaign, who is not
\* carries no flag, and each verdict is of one verification.
THEOREM ApartSessionsAgree ==
  Spec /\ []OneSessionPerAddress
    => [](ListedIsBlockedAlways /\ FreeIsUnflaggedAlways /\ VerdictIsWholeAlways)
<1>1. Init => Undisturbed
  BY DEF Init, SuppressionInit, Undisturbed
<1>2. TypeInv /\ Undisturbed /\ OneSessionPerAddress /\ [Next]_vars => Undisturbed'
  BY StepUndisturbed
<1>3. Undisturbed /\ ListedIsBlocked /\ FreeIsUnflagged /\ VerdictIsWhole
        => ListedIsBlockedAlways /\ FreeIsUnflaggedAlways /\ VerdictIsWholeAlways
  BY DEF Undisturbed, ListedIsBlocked, ListedIsBlockedAlways, FreeIsUnflagged, FreeIsUnflaggedAlways,
         VerdictIsWhole, VerdictIsWholeAlways, Whole
<1>4. QED
  BY <1>1, <1>2, <1>3, SuppressedStaySuppressed, ReleasedAreFree, VerdictsAreWhole, AlwaysTyped, PTL
     DEF Spec

\* No two requests map or confirm one import at once.
OneRequestPerImport ==
  \A p, q \in Clients :
    importing[p] # NoImport /\ importing[q] # NoImport /\ On(p) = On(q) => p = q

CompletedIsWholeAlways ==
  \A j \in Imports :
    imports[j].status = "completed" =>
      LET done == {l \in Lines : imports[j].rows[l].status = "imported"}
      IN /\ \A l \in Lines : imports[j].rows[l].status # "valid"
         /\ imports[j].imported = Cardinality(done)
         /\ \A l \in done : imports[j].rows[l].email \in Exists

Uncrossed == behind = {} /\ crossed = {}

LEMMA StepUncrossed ==
  ASSUME TypeInv, Uncrossed, OneRequestPerImport, [Next]_vars
  PROVE  Uncrossed'
<1> USE DEF Uncrossed
<1>1. ASSUME NEW p \in Clients, pc[p] \in {"map", "confirm"} PROVE Rivals(p) = {}
  <2>1. importing[p] # NoImport
    BY <1>1, TypeFacts DEF PlacesOK
  <2>2. QED
    BY <2>1 DEF OneRequestPerImport, Rivals
<1>2. ASSUME NEW p \in Clients, MapCommit(p) PROVE Uncrossed'
  BY <1>1, <1>2 DEF MapCommit
<1>3. ASSUME NEW p \in Clients, ConfirmCommit(p) PROVE Uncrossed'
  BY <1>1, <1>3 DEF ConfirmCommit, Writes
<1>4. ASSUME NEW p \in Clients, \/ ConfirmConflict(p)
                                \/ \E j \in Imports : \/ Upload(p, j) \/ Confirm(p, j)
                                                      \/ \E m \in Mappings : Map(p, j, m)
      PROVE  Uncrossed'
  BY <1>4 DEF ConfirmConflict, Upload, Confirm, Map
<1>5. CASE UNCHANGED importVars
  BY <1>5 DEF importVars
<1>6. QED
  BY <1>2, <1>3, <1>4, <1>5 DEF Next, ImportNext, vars

\* Where no two requests work on one import, a completed one has imported each of
\* its valid lines, however often it was mapped and confirmed.
THEOREM ApartImportsAreWhole == Spec /\ []OneRequestPerImport => []CompletedIsWholeAlways
<1>1. Init => Uncrossed
  BY DEF Init, ImportInit, Uncrossed
<1>2. TypeInv /\ Uncrossed /\ OneRequestPerImport /\ [Next]_vars => Uncrossed'
  BY StepUncrossed
<1>3. Uncrossed /\ CompletedImportsAreWhole => CompletedIsWholeAlways
  BY DEF Uncrossed, CompletedImportsAreWhole, CompletedIsWholeAlways
<1>4. QED
  BY <1>1, <1>2, <1>3, ImportsAreWhole, AlwaysTyped, PTL DEF Spec

=============================================================================
