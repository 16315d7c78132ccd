----------------------------- MODULE InboxProofs -----------------------------
(***************************************************************************)
(* Theorems of InboxSync, for every set of sessions, letters, mails and    *)
(* addresses, and every bound.                                             *)
(***************************************************************************)
EXTENDS InboxSync, FiniteSetTheorems, WellFoundedInduction, TLAPS

-----------------------------------------------------------------------------
(* Helpers.                                                                *)

\* Of a set of uids that is not empty one is the least.
LEMMA MinOfUids ==
  ASSUME NEW S \in SUBSET Nat, S # {}
  PROVE  Min(S) \in S /\ \A t \in S : Min(S) <= t
<1>1. PICK x \in S : \A y \in S : ~(<<y, x>> \in OpToRel(<, Nat))
  BY NatLessThanWellFounded, WFMin, Zenon
<1>2. \A y \in S : ~(y < x)
  BY <1>1, Zenon DEF OpToRel
<1>3. \A y \in S : x <= y
  BY <1>2
<1>4. QED
  BY <1>3 DEF Min

LEMMA SameIsSymmetric ==
  ASSUME NEW u, NEW v
  PROVE  Same(u, u) /\ (Same(u, v) => Same(v, u))
BY DEF Same

-----------------------------------------------------------------------------
(* Type correctness.                                                       *)

LEMMA ColumnType ==
  ASSUME NEW loaded, NEW value, NEW now, NEW S, value \in S, now \in S
  PROVE  Column(loaded, value, now) \in S
BY DEF Column

\* What a session writes into the mailbox is a row again.
LEMMA RowsOfAccess ==
  ASSUME AccessTypeOK, NEW p \in Procs
  PROVE  /\ \A grant \in Grants : Tokens(p, grant) \in MailboxRow
         /\ \A status \in {"not_connected", "connected", "error"} :
              [mailbox EXCEPT !.oauth = Column(seen[p].oauth, status, @)] \in MailboxRow
         /\ Forgotten(mailbox) \in MailboxRow
         /\ seen[p].grant \in Grants /\ mailbox.grant \in Grants
<1>1. mailbox \in MailboxRow /\ seen[p] \in MailboxRow /\ 0 \in Grants
  BY AccessAssumption DEF AccessTypeOK, Grants
<1>2. \A grant \in Grants : Tokens(p, grant) \in MailboxRow
  BY <1>1 DEF MailboxRow, Tokens, Column
<1>3. \A status \in {"not_connected", "connected", "error"} :
        [mailbox EXCEPT !.oauth = Column(seen[p].oauth, status, @)] \in MailboxRow
  BY <1>1 DEF MailboxRow, Column
<1>4. Forgotten(mailbox) \in MailboxRow
  BY <1>1 DEF MailboxRow, Forgotten
<1>5. QED
  BY <1>1, <1>2, <1>3, <1>4 DEF MailboxRow

\* Who is overtaken stays overtaken.
LEMMA OvertakenGrow ==
  ASSUME NEW p, NEW row, overtaken \subseteq Procs, Overtakes(p, row)
  PROVE  overtaken' \subseteq Procs /\ overtaken \subseteq overtaken'
BY DEF Overtakes

LEMMA MarkedType ==
  ASSUME AccessTypeOK, NEW p \in Procs, NEW status \in {"not_connected", "connected", "error"},
         Marks(p, status)
  PROVE  mailbox' \in MailboxRow /\ overtaken' \subseteq Procs /\ statusStale' \in BOOLEAN
<1>1. mailbox' \in MailboxRow
  BY RowsOfAccess DEF Marks
<1>2. overtaken' \subseteq Procs
  BY OvertakenGrow DEF Marks, AccessTypeOK
<1>3. QED
  BY <1>1, <1>2 DEF Marks

LEMMA InitAccessTypeOK == AccessInit => AccessTypeOK
<1> SUFFICES ASSUME AccessInit PROVE AccessTypeOK
  OBVIOUS
<1>1. NewMailbox \in MailboxRow
  BY AccessAssumption DEF MailboxRow, NewMailbox, Grants
<1>2. mailbox \in MailboxRow /\ granted \in Grants
  <2>1. CASE granted = 0
    BY <1>1, <2>1 DEF AccessInit
  <2>2. CASE granted = 1 /\ 1 \in Grants
    BY <1>1, <2>2 DEF AccessInit, MailboxRow
  <2>3. QED
    BY <2>1, <2>2 DEF AccessInit
<1>3. ops \in 0 .. MaxOps
  BY AccessAssumption DEF AccessInit
<1>4. QED
  BY <1>2, <1>3 DEF AccessInit, AccessTypeOK

LEMMA StepAccessTypeOK == AccessTypeOK /\ AccessNext => AccessTypeOK'
<1> SUFFICES ASSUME AccessTypeOK, AccessNext PROVE AccessTypeOK'
  OBVIOUS
<1> USE AccessAssumption
<1>1. CASE TokenExpires
  <2>1. mailbox' \in MailboxRow
    BY <1>1 DEF TokenExpires, AccessTypeOK, MailboxRow
  <2>2. ops' \in 0 .. MaxOps
    BY <1>1 DEF TokenExpires, AccessTypeOK
  <2>3. QED
    BY <1>1, <2>1, <2>2 DEF TokenExpires, AccessTypeOK
<1>2. ASSUME NEW p \in Procs, Callback(p) PROVE AccessTypeOK'
  BY <1>2 DEF Callback, Request, AccessTypeOK
<1>3. ASSUME NEW p \in Procs, Exchanged(p) PROVE AccessTypeOK'
  <2>1. granted + 1 \in Grants
    BY <1>3 DEF Exchanged, AccessTypeOK, Grants
  <2>2. mailbox' \in MailboxRow
    BY <1>3, <2>1, RowsOfAccess DEF Exchanged, MailboxRow
  <2>3. overtaken' \subseteq Procs
    BY <1>3, OvertakenGrow DEF Exchanged, AccessTypeOK
  <2>4. statusStale' \in BOOLEAN /\ accessStale' \in BOOLEAN
    <3>1. statusStale' = (p \in overtaken) /\ accessStale' = FALSE
      BY <1>3 DEF Exchanged
    <3>2. (p \in overtaken) \in BOOLEAN
      OBVIOUS
    <3>3. QED
      BY <3>1, <3>2
  <2>5. pc' \in [Procs -> {"idle", "exchange", "sync", "send", "smtp", "imap", "diagnosed",
                           "fetch", "filing", "post"}]
    BY <1>3 DEF Exchanged, AccessTypeOK
  <2>6. QED
    BY <1>3, <2>1, <2>2, <2>3, <2>4, <2>5, Zenon DEF Exchanged, AccessTypeOK
<1>4. ASSUME NEW p \in Procs, ExchangeFails(p) PROVE AccessTypeOK'
  BY <1>4 DEF ExchangeFails, AccessTypeOK
<1>5. ASSUME NEW p \in Procs, Disconnect(p) PROVE AccessTypeOK'
  <2>1. mailbox' \in MailboxRow
    BY <1>5, RowsOfAccess DEF Disconnect
  <2>2. overtaken' \subseteq Procs
    BY <1>5, OvertakenGrow DEF Disconnect, AccessTypeOK
  <2>3. ops' \in 0 .. MaxOps
    BY <1>5 DEF Disconnect, Request, AccessTypeOK
  <2>4. QED
    BY <1>5, <2>1, <2>2, <2>3, Zenon DEF Disconnect, AccessTypeOK
<1>6. ASSUME NEW p \in Procs, NEW use \in Uses, Load(p, use) PROVE AccessTypeOK'
  BY <1>6 DEF Load, Uses, Request, AccessTypeOK
<1>7. ASSUME NEW p \in Procs, NEW status \in {"not_connected", "error", "connected"},
             IF Checking(p) THEN Marks(p, status) ELSE UNCHANGED <<mailbox, overtaken, statusStale>>
      PROVE  mailbox' \in MailboxRow /\ overtaken' \subseteq Procs /\ statusStale' \in BOOLEAN
  <2>1. CASE Checking(p)
    BY <1>7, <2>1, MarkedType
  <2>2. CASE ~Checking(p)
    BY <1>7, <2>2 DEF AccessTypeOK
  <2>3. QED
    BY <2>1, <2>2
<1>8. ASSUME NEW p \in Procs, NeedsReauth(p) PROVE AccessTypeOK'
  BY <1>8, <1>7 DEF NeedsReauth, AccessTypeOK
<1>9. ASSUME NEW p \in Procs, UseToken(p) PROVE AccessTypeOK'
  BY <1>9 DEF UseToken, Asking, NextStage, AccessTypeOK
<1>10. ASSUME NEW p \in Procs, Refreshed(p) PROVE AccessTypeOK'
  <2>1. mailbox' \in MailboxRow /\ seen' \in [Procs -> MailboxRow]
    BY <1>10, RowsOfAccess DEF Refreshed, AccessTypeOK
  <2>2. overtaken' \subseteq Procs
    BY <1>10 DEF Refreshed, Overtakes, AccessTypeOK
  <2>3. pc' \in [Procs -> {"idle", "exchange", "sync", "send", "smtp", "imap", "diagnosed",
                           "fetch", "filing", "post"}]
    BY <1>10 DEF Refreshed, Asking, NextStage, AccessTypeOK
  <2>4. QED
    BY <1>10, <2>1, <2>2, <2>3 DEF Refreshed, AccessTypeOK
<1>11. ASSUME NEW p \in Procs, RefreshFails(p) PROVE AccessTypeOK'
  BY <1>11, <1>7 DEF RefreshFails, FailureStatus, AccessTypeOK
<1>12. ASSUME NEW p \in Procs, CheckDone(p) PROVE AccessTypeOK'
  <2>1. mailbox' \in MailboxRow /\ overtaken' \subseteq Procs /\ statusStale' \in BOOLEAN
    BY <1>12, MarkedType DEF CheckDone
  <2>2. QED
    BY <1>12, <2>1 DEF CheckDone, AccessTypeOK
<1>13. ASSUME NEW p \in Procs, SetStatus(p) PROVE AccessTypeOK'
  BY <1>13 DEF SetStatus, Request, AccessTypeOK
<1>14. ASSUME NEW p \in Procs, SetProvider(p) PROVE AccessTypeOK'
  BY <1>14 DEF SetProvider, Request, AccessTypeOK
<1>15. ASSUME NEW p \in Procs, CheckBreaks(p) PROVE AccessTypeOK'
  BY <1>15 DEF CheckBreaks, AccessTypeOK
<1>16. QED
  BY <1>1, <1>2, <1>3, <1>4, <1>5, <1>6, <1>8, <1>9, <1>10, <1>11, <1>12, <1>13, <1>14, <1>15
     DEF AccessNext

-----------------------------------------------------------------------------
(* The row of the mailbox tells what access there is.                      *)

\* A session that nobody overtook holds the grant and the status of the row.
SeenIsCurrent ==
  \A p \in Procs \ overtaken :
    pc[p] # "idle" => seen[p].grant = mailbox.grant /\ seen[p].oauth = mailbox.oauth

\* A check that has had its first token has a grant to ask for the second.
CheckHasGrant ==
  \A p \in Procs \ overtaken : pc[p] \in {"imap", "diagnosed"} => seen[p].grant # 0

AccessInv == StatusTellsTheGrant /\ AccessComesFromTheGrant /\ SeenIsCurrent /\ CheckHasGrant

\* A step that leaves the row's grant, access token and status alone, and moves
\* a session no further than its second token.
LEMMA QuietAccess ==
  ASSUME AccessTypeOK, AccessInv, NEW p \in Procs,
         mailbox'.grant = mailbox.grant, mailbox'.oauth = mailbox.oauth,
         mailbox'.access = mailbox.access,
         UNCHANGED <<statusStale, accessStale, overtaken, seen>>,
         \A q \in Procs \ {p} : pc'[q] = pc[q],
         pc'[p] = "idle" \/ pc[p] # "idle",
         pc'[p] \in {"imap", "diagnosed"} => seen[p].grant # 0
  PROVE  AccessInv'
<1>1. StatusTellsTheGrant' /\ AccessComesFromTheGrant'
  BY DEF AccessInv, StatusTellsTheGrant, AccessComesFromTheGrant
<1>2. SeenIsCurrent' /\ CheckHasGrant'
  BY DEF AccessInv, SeenIsCurrent, CheckHasGrant
<1>3. QED
  BY <1>1, <1>2 DEF AccessInv

\* A session loads the row.
LEMMA LoadAccess ==
  ASSUME AccessTypeOK, AccessInv, NEW p \in Procs,
         UNCHANGED <<mailbox, statusStale, accessStale>>,
         overtaken' = overtaken \ {p},
         seen' = [seen EXCEPT ![p] = mailbox],
         \A q \in Procs \ {p} : pc'[q] = pc[q],
         pc'[p] \notin {"imap", "diagnosed"}
  PROVE  AccessInv'
<1>1. StatusTellsTheGrant' /\ AccessComesFromTheGrant'
  BY DEF AccessInv, StatusTellsTheGrant, AccessComesFromTheGrant
<1>2. SeenIsCurrent' /\ CheckHasGrant'
  BY DEF AccessInv, SeenIsCurrent, CheckHasGrant, AccessTypeOK
<1>3. QED
  BY <1>1, <1>2 DEF AccessInv

\* A session writes the row and is done, or holds what it wrote.
LEMMA WriteAccess ==
  ASSUME AccessTypeOK, AccessInv, NEW p \in Procs,
         Overtakes(p, mailbox'),
         \A q \in Procs \ {p} : pc'[q] = pc[q] /\ seen'[q] = seen[q],
         \/ pc'[p] = "idle"
         \/ seen'[p] = mailbox' /\ mailbox'.grant = mailbox.grant
            /\ (p \notin overtaken => mailbox'.grant # 0)
  PROVE  SeenIsCurrent' /\ CheckHasGrant'
<1>1. overtaken \subseteq overtaken'
  BY DEF Overtakes
<1>2. ASSUME NEW q \in Procs, q \notin overtaken', pc'[q] # "idle", q # p
      PROVE  seen'[q].grant = mailbox'.grant /\ seen'[q].oauth = mailbox'.oauth
  BY <1>1, <1>2 DEF AccessInv, SeenIsCurrent, Overtakes
<1>3. SeenIsCurrent'
  BY <1>2 DEF SeenIsCurrent
<1>4. CheckHasGrant'
  BY <1>1 DEF AccessInv, CheckHasGrant
<1>5. QED
  BY <1>3, <1>4

\* A session shows another status.
LEMMA MarkAccess ==
  ASSUME AccessTypeOK, AccessInv, NEW p \in Procs,
         NEW status \in {"not_connected", "connected", "error"},
         Marks(p, status),
         pc[p] # "idle",
         p \notin overtaken => (status = "not_connected" <=> seen[p].grant = 0),
         UNCHANGED <<accessStale, seen>>,
         pc' = [pc EXCEPT ![p] = "idle"]
  PROVE  AccessInv'
<1>1. mailbox'.grant = mailbox.grant /\ mailbox'.access = mailbox.access
  BY DEF Marks, AccessTypeOK, MailboxRow
<1>2. mailbox'.oauth = Column(seen[p].oauth, status, mailbox.oauth)
  BY DEF Marks, AccessTypeOK, MailboxRow
<1>3. p \notin overtaken => mailbox'.oauth = status /\ seen[p].grant = mailbox.grant
  BY <1>2 DEF Column, AccessInv, SeenIsCurrent
<1>4. StatusTellsTheGrant'
  BY <1>1, <1>3 DEF StatusTellsTheGrant, Marks
<1>5. AccessComesFromTheGrant'
  BY <1>1 DEF AccessInv, AccessComesFromTheGrant
<1>6. Overtakes(p, mailbox')
  BY DEF Marks
<1>7. SeenIsCurrent' /\ CheckHasGrant'
  BY <1>6, WriteAccess DEF AccessTypeOK
<1>8. QED
  BY <1>4, <1>5, <1>7 DEF AccessInv

LEMMA StepAccess == AccessTypeOK /\ AccessInv /\ AccessNext => AccessInv'
<1> SUFFICES ASSUME AccessTypeOK, AccessInv, AccessNext PROVE AccessInv'
  OBVIOUS
<1>1. CASE TokenExpires
  <2>1. /\ mailbox'.grant = mailbox.grant /\ mailbox'.oauth = mailbox.oauth
        /\ mailbox'.access = mailbox.access
    BY <1>1 DEF TokenExpires, AccessTypeOK, MailboxRow
  <2>2. QED
    BY <1>1, <2>1 DEF TokenExpires, AccessInv, StatusTellsTheGrant, AccessComesFromTheGrant,
       SeenIsCurrent, CheckHasGrant
<1>2. ASSUME NEW p \in Procs, Callback(p) PROVE AccessInv'
  BY <1>2, LoadAccess DEF Callback, AccessTypeOK
<1>3. ASSUME NEW p \in Procs, Exchanged(p) PROVE AccessInv'
  <2>1. Overtakes(p, mailbox')
    BY <1>3 DEF Exchanged
  <2>2. SeenIsCurrent' /\ CheckHasGrant'
    BY <1>3, <2>1, WriteAccess DEF Exchanged, AccessTypeOK
  <2>3. /\ mailbox'.grant = granted + 1 /\ mailbox'.access = granted + 1
        /\ mailbox'.oauth = Column(seen[p].oauth, "connected", mailbox.oauth)
    BY <1>3 DEF Exchanged, Tokens, AccessTypeOK, MailboxRow
  <2>4. mailbox'.grant # 0
    BY <1>3, <2>3 DEF AccessTypeOK, Grants
  <2>5. p \notin overtaken => mailbox'.oauth = "connected"
    BY <1>3, <2>3 DEF Column, AccessInv, SeenIsCurrent, Exchanged
  <2>6. StatusTellsTheGrant' /\ AccessComesFromTheGrant'
    BY <1>3, <2>3, <2>4, <2>5 DEF Exchanged, StatusTellsTheGrant, AccessComesFromTheGrant
  <2>7. QED
    BY <2>2, <2>6 DEF AccessInv
<1>4. ASSUME NEW p \in Procs, ExchangeFails(p) PROVE AccessInv'
  BY <1>4, QuietAccess DEF ExchangeFails, AccessTypeOK
<1>5. ASSUME NEW p \in Procs, Disconnect(p) PROVE AccessInv'
  <2>1. Overtakes(p, mailbox') /\ pc'[p] = "idle"
    BY <1>5 DEF Disconnect, Request
  <2>2. SeenIsCurrent' /\ CheckHasGrant'
    BY <1>5, <2>1, WriteAccess DEF Disconnect
  <2>3. mailbox'.grant = 0 /\ mailbox'.access = 0 /\ mailbox'.oauth = "not_connected"
    BY <1>5 DEF Disconnect, Forgotten, AccessTypeOK, MailboxRow
  <2>4. QED
    BY <2>2, <2>3 DEF AccessInv, StatusTellsTheGrant, AccessComesFromTheGrant
<1>6. ASSUME NEW p \in Procs, NEW use \in Uses, Load(p, use) PROVE AccessInv'
  BY <1>6, LoadAccess DEF Load, Uses, AccessTypeOK
<1>7. ASSUME NEW p \in Procs, NeedsReauth(p) PROVE AccessInv'
  <2>1. CASE Checking(p)
    BY <1>7, <2>1, MarkAccess DEF NeedsReauth, Checking
  <2>2. CASE ~Checking(p)
    BY <1>7, <2>2, QuietAccess DEF NeedsReauth, AccessTypeOK
  <2>3. QED
    BY <2>1, <2>2
<1>8. ASSUME NEW p \in Procs, UseToken(p) PROVE AccessInv'
  <2>1. pc[p] # "idle"
    BY <1>8 DEF UseToken, Asking, NextStage
  <2>2. QED
    BY <1>8, <2>1, QuietAccess DEF UseToken, AccessTypeOK
<1>9. ASSUME NEW p \in Procs, Refreshed(p) PROVE AccessInv'
  <2>1. Overtakes(p, mailbox') /\ pc[p] # "idle"
    BY <1>9 DEF Refreshed, Asking, NextStage
  <2>2. /\ mailbox'.grant = mailbox.grant /\ mailbox'.access = seen[p].grant
        /\ mailbox'.oauth = Column(seen[p].oauth, "connected", mailbox.oauth)
    BY <1>9 DEF Refreshed, Tokens, AccessTypeOK, MailboxRow
  <2>3. p \notin overtaken => /\ mailbox'.oauth = "connected"
                              /\ mailbox.grant = seen[p].grant /\ mailbox.grant # 0
    BY <1>9, <2>1, <2>2 DEF Refreshed, Column, AccessInv, SeenIsCurrent
  <2>4. seen'[p] = mailbox' /\ \A q \in Procs \ {p} : pc'[q] = pc[q] /\ seen'[q] = seen[q]
    BY <1>9 DEF Refreshed, AccessTypeOK
  <2>5. SeenIsCurrent' /\ CheckHasGrant'
    BY <2>1, <2>2, <2>3, <2>4, WriteAccess
  <2>6. statusStale' = (p \in overtaken) /\ accessStale' = (p \in overtaken)
    BY <1>9 DEF Refreshed
  <2>7. StatusTellsTheGrant' /\ AccessComesFromTheGrant'
    BY <2>2, <2>3, <2>6 DEF StatusTellsTheGrant, AccessComesFromTheGrant
  <2>8. QED
    BY <2>5, <2>7 DEF AccessInv
<1>10. ASSUME NEW p \in Procs, RefreshFails(p) PROVE AccessInv'
  <2>1. CASE Checking(p)
    BY <1>10, <2>1, MarkAccess DEF RefreshFails, FailureStatus, Checking
  <2>2. CASE ~Checking(p)
    BY <1>10, <2>2, QuietAccess DEF RefreshFails, AccessTypeOK
  <2>3. QED
    BY <2>1, <2>2
<1>11. ASSUME NEW p \in Procs, CheckDone(p) PROVE AccessInv'
  <2>1. p \notin overtaken => seen[p].grant # 0
    BY <1>11 DEF CheckDone, AccessInv, CheckHasGrant
  <2>2. QED
    BY <1>11, <2>1, MarkAccess DEF CheckDone
<1>12. ASSUME NEW p \in Procs, SetStatus(p) \/ SetProvider(p) PROVE AccessInv'
  BY <1>12 DEF SetStatus, SetProvider, AccessInv, StatusTellsTheGrant, AccessComesFromTheGrant,
     SeenIsCurrent, CheckHasGrant
<1>13. ASSUME NEW p \in Procs, CheckBreaks(p) PROVE AccessInv'
  BY <1>13, QuietAccess DEF CheckBreaks, AccessTypeOK
<1>14. QED
  BY <1>1, <1>2, <1>3, <1>4, <1>5, <1>6, <1>7, <1>8, <1>9, <1>10, <1>11, <1>12, <1>13
     DEF AccessNext

-----------------------------------------------------------------------------
(* Types of the synchronisation.                                           *)

LEMMA IdsAreTyped ==
  /\ Uids \subseteq Nat /\ 0 .. MaxUid \subseteq Nat /\ Uids \subseteq 0 .. MaxUid
  /\ ThreadIds \subseteq Nat
BY AccessAssumption, InboxAssumption DEF Uids, ThreadIds

\* The threads a query returns are threads.
LEMMA OrNewType ==
  ASSUME NEW found, found \subseteq ThreadIds
  PROVE  OrNew(found) \subseteq ThreadIds
<1>1. CASE found # {} \/ Unused = {}
  BY <1>1 DEF OrNew
<1>2. CASE found = {} /\ Unused # {}
  <2>1. Unused \in SUBSET Nat /\ Unused \subseteq ThreadIds
    BY IdsAreTyped DEF Unused
  <2>2. Min(Unused) \in ThreadIds
    BY <1>2, <2>1, MinOfUids
  <2>3. QED
    BY <1>2, <2>2 DEF OrNew
<1>3. QED
  BY <1>1, <1>2

LEMMA ThreadsWithType ==
  ASSUME TypeOK, NEW m
  PROVE  ThreadsWith(m) \subseteq ThreadIds
<1>1. CASE m \in Mails
  BY <1>1 DEF ThreadsWith, TypeOK
<1>2. CASE m \notin Mails
  <2>1. \A v \in Uids : inThreads[v] \subseteq ThreadIds
    BY DEF TypeOK
  <2>2. QED
    BY <1>2, <2>1 DEF ThreadsWith
<1>3. QED
  BY <1>1, <1>2

LEMMA OutboundThreadsType ==
  ASSUME TypeOK, NEW o \in Mails
  PROVE  OutboundThreads(o) \subseteq ThreadIds
<1> DEFINE referred == UNION {ThreadsWith(m) : m \in Refs[o]}
<1>1. referred \subseteq ThreadIds
  BY ThreadsWithType
<1>2. ForAddress(threads, To[o]) \subseteq ThreadIds
  BY DEF ForAddress
<1>3. OrNew(ForAddress(threads, To[o])) \subseteq ThreadIds
  BY <1>2, OrNewType
<1>4. QED
  BY <1>1, <1>3 DEF OutboundThreads

LEMMA ReferredType ==
  ASSUME TypeOK, NEW p \in Procs, NEW u
  PROVE  Referred(p, u) \subseteq ThreadIds
<1> DEFINE own == {put[p][v] : v \in {w \in Uids : Same(Letters[u].re, w)}} \ {0}
<1>1. own \subseteq ThreadIds
  BY DEF TypeOK
<1>2. ThreadsWith(Letters[u].re) \subseteq ThreadIds
  BY ThreadsWithType
<1>3. QED
  BY <1>1, <1>2 DEF Referred

LEMMA ResolveType ==
  ASSUME TypeOK, NEW p \in Procs, NEW u \in Uids
  PROVE  Resolve(p, u) \subseteq ThreadIds
<1>1. OrNew({}) \subseteq ThreadIds
  BY OrNewType
<1>2. OrNew(ForAddress(View(p), Letters[u].from)) \subseteq ThreadIds
  BY OrNewType DEF ForAddress
<1>3. QED
  BY <1>1, <1>2, ReferredType DEF Resolve

\* Who a thread is mixed by.
LEMMA MixedByAdds ==
  ASSUME NEW t, NEW contact, NEW a
  PROVE  /\ mixed \subseteq MixedBy(t, contact, a) /\ MixedBy(t, contact, a) \subseteq mixed \cup {t}
         /\ contact \notin {Nobody, a} => t \in MixedBy(t, contact, a)
BY DEF MixedBy

\* The message of a mail is in a thread, and nothing else is.
MessagesAreFiled ==
  \A o \in Mails :
    /\ out[o] \in {"stored", "attributed"} =>
         outThread[o] \in ThreadIds /\ threads[outThread[o]] # NoThread
    /\ outThread[o] # 0 => out[o] \in {"stored", "attributed"}

\* An open transaction is one of a synchronisation under way.
OpenWhileFiling ==
  \A p \in Procs : pc[p] # "filing" => todo[p] = {} /\ mine[p] = {} /\ draft[p] = Untouched
                                       /\ noticed[p] = {}

Typed == TypeOK /\ MessagesAreFiled /\ OpenWhileFiling

LEMMA InitTyped == Init => Typed
<1> SUFFICES ASSUME Init PROVE Typed
  OBVIOUS
<1> USE AccessAssumption, InboxAssumption
<1>1. AccessTypeOK
  BY InitAccessTypeOK DEF Init
<1>2. Untouched \in [ThreadIds -> ThreadRow \cup {NoThread}]
  BY DEF Untouched
<1>3. faults \in 0 .. MaxFaults /\ arrived \in 0 .. MaxUid
  BY DEF Init, InboxInit
<1>4. TypeOK
  <2>1. rows \in [Uids -> Nat] /\ threads \in [ThreadIds -> ThreadRow \cup {NoThread}]
        /\ outThread \in [Mails -> ThreadIds \cup {0}] /\ last \in [Procs -> 0 .. MaxUid]
        /\ inThreads \in [Uids -> SUBSET ThreadIds]
        /\ put \in [Procs -> [Uids -> ThreadIds \cup {0}]]
    BY <1>2 DEF Init, InboxInit, Nowhere
  <2>2. draft \in [Procs -> [ThreadIds -> ThreadRow \cup {NoThread}]]
    BY <1>2 DEF Init, InboxInit
  <2>3. QED
    BY <1>1, <1>3, <2>1, <2>2 DEF Init, InboxInit, TypeOK
<1>5. MessagesAreFiled /\ OpenWhileFiling
  BY DEF Init, InboxInit, MessagesAreFiled, OpenWhileFiling
<1>6. QED
  BY <1>4, <1>5 DEF Typed

\* No step of the access side begins or ends a synchronisation's transaction.
LEMMA AccessKeepsFiling ==
  ASSUME AccessTypeOK, AccessNext
  PROVE  /\ \A p \in Procs : pc'[p] = "filing" <=> pc[p] = "filing"
         /\ mailbox'.mark = mailbox.mark
         /\ \A p \in Procs : seen'[p].mark \in {seen[p].mark, mailbox.mark}
<1> DEFINE Kept == /\ \A p \in Procs : pc'[p] = "filing" <=> pc[p] = "filing"
                   /\ mailbox'.mark = mailbox.mark
                   /\ \A p \in Procs : seen'[p].mark \in {seen[p].mark, mailbox.mark}
<1>1. CASE TokenExpires
  BY <1>1 DEF TokenExpires, AccessTypeOK, MailboxRow
<1>2. ASSUME NEW p \in Procs, Callback(p) PROVE Kept
  BY <1>2 DEF Callback, Request, AccessTypeOK
<1>3. ASSUME NEW p \in Procs, Exchanged(p) PROVE Kept
  BY <1>3 DEF Exchanged, Tokens, AccessTypeOK, MailboxRow
<1>4. ASSUME NEW p \in Procs, ExchangeFails(p) PROVE Kept
  BY <1>4 DEF ExchangeFails, AccessTypeOK
<1>5. ASSUME NEW p \in Procs, Disconnect(p) PROVE Kept
  BY <1>5 DEF Disconnect, Forgotten, AccessTypeOK, MailboxRow
<1>6. ASSUME NEW p \in Procs, NEW use \in Uses, Load(p, use) PROVE Kept
  BY <1>6 DEF Load, Request, Uses, AccessTypeOK
<1>7. ASSUME NEW p \in Procs, NEW status,
             IF Checking(p) THEN Marks(p, status) ELSE UNCHANGED <<mailbox, overtaken, statusStale>>
      PROVE  mailbox'.mark = mailbox.mark
  BY <1>7 DEF Marks, AccessTypeOK, MailboxRow
<1>8. ASSUME NEW p \in Procs, NeedsReauth(p) PROVE Kept
  BY <1>7, <1>8 DEF NeedsReauth, Asking, NextStage, AccessTypeOK
<1>9. ASSUME NEW p \in Procs, UseToken(p) PROVE Kept
  BY <1>9 DEF UseToken, Asking, NextStage, AccessTypeOK
<1>10. ASSUME NEW p \in Procs, Refreshed(p) PROVE Kept
  <2>1. mailbox'.mark = mailbox.mark
    BY <1>10 DEF Refreshed, Tokens, AccessTypeOK, MailboxRow
  <2>2. \A q \in Procs : seen'[q] \in {seen[q], mailbox'}
    BY <1>10 DEF Refreshed, AccessTypeOK
  <2>3. \A q \in Procs : pc'[q] = "filing" <=> pc[q] = "filing"
    BY <1>10 DEF Refreshed, Asking, NextStage, AccessTypeOK
  <2>4. QED
    BY <2>1, <2>2, <2>3
<1>11. ASSUME NEW p \in Procs, RefreshFails(p) PROVE Kept
  BY <1>7, <1>11 DEF RefreshFails, Asking, NextStage, AccessTypeOK
<1>12. ASSUME NEW p \in Procs, CheckDone(p) PROVE Kept
  BY <1>12 DEF CheckDone, Marks, AccessTypeOK, MailboxRow
<1>13. ASSUME NEW p \in Procs, SetStatus(p) \/ SetProvider(p) PROVE Kept
  BY <1>13 DEF SetStatus, SetProvider
<1>14. ASSUME NEW p \in Procs, CheckBreaks(p) PROVE Kept
  BY <1>14 DEF CheckBreaks, Checking, AccessTypeOK
<1>15. QED
  BY <1>1, <1>2, <1>3, <1>4, <1>5, <1>6, <1>8, <1>9, <1>10, <1>11, <1>12, <1>13, <1>14
     DEF AccessNext

\* A letter examined goes to a thread, and is the session's own until it commits.
LEMMA FileInTyped ==
  ASSUME Typed, NEW p \in Procs, NEW u \in Uids, NEW t \in ThreadIds, FileIn(p, u, t)
  PROVE  /\ draft' \in [Procs -> [ThreadIds -> ThreadRow \cup {NoThread}]]
         /\ mine' \in [Procs -> SUBSET Uids] /\ noticed' \in [Procs -> SUBSET Known]
         /\ put' \in [Procs -> [Uids -> ThreadIds \cup {0}]]
         /\ overlapped' \subseteq Uids /\ early' \subseteq Uids /\ crossed' \subseteq Uids
         /\ mixed' \subseteq ThreadIds
         /\ ContactOfThread(p, u, t) \in Known \cup {Nobody}
<1> DEFINE contact == ContactOfThread(p, u, t)
<1>1. View(p)[t] \in ThreadRow \cup {NoThread}
  BY DEF Typed, TypeOK, View
<1>2. contact \in Known \cup {Nobody}
  BY <1>1 DEF ContactOfThread, ThreadRow
<1>3. [email |-> Letters[u].from, contact |-> contact] \in ThreadRow
  BY <1>2, InboxAssumption DEF ThreadRow
<1>4. draft' \in [Procs -> [ThreadIds -> ThreadRow \cup {NoThread}]]
  BY <1>3 DEF FileIn, Typed, TypeOK
<1>5. mine' \in [Procs -> SUBSET Uids] /\ put' \in [Procs -> [Uids -> ThreadIds \cup {0}]]
  BY DEF FileIn, Typed, TypeOK
<1>6. noticed' \in [Procs -> SUBSET Known]
  BY <1>2 DEF FileIn, Typed, TypeOK
<1>7. overlapped' \subseteq Uids
  BY DEF FileIn, Typed, TypeOK
<1>8. early' \subseteq Uids /\ crossed' \subseteq Uids /\ mixed' \subseteq ThreadIds
  BY MixedByAdds DEF FileIn, Typed, TypeOK
<1>9. QED
  BY <1>2, <1>4, <1>5, <1>6, <1>7, <1>8

LEMMA ViewType ==
  ASSUME TypeOK, NEW p \in Procs
  PROVE  View(p) \in [ThreadIds -> ThreadRow \cup {NoThread}]
BY DEF TypeOK, View

\* What a committed or an aborted synchronisation leaves.
LEMMA EndSyncTyped ==
  ASSUME Typed, NEW p \in Procs, EndSync(p),
         mailbox' \in MailboxRow, faults' \in 0 .. MaxFaults,
         UNCHANGED <<rows, threads, replied, inThreads>> \/ Publish(p)
  PROVE  Typed'
<1>1. rows' \in [Uids -> Nat]
  <2>1. rows \in [Uids -> Nat]
    BY DEF Typed, TypeOK
  <2>2. QED
    BY <2>1 DEF Publish
<1>2. threads' \in [ThreadIds -> ThreadRow \cup {NoThread}]
  BY ViewType DEF Typed, TypeOK, Publish
<1>3. replied' \subseteq Known
  BY DEF Typed, TypeOK, Publish
<1>4. AccessTypeOK'
  BY DEF EndSync, Typed, TypeOK, AccessTypeOK
<1>5. /\ Untouched \in [ThreadIds -> ThreadRow \cup {NoThread}]
      /\ Nowhere \in [Uids -> ThreadIds \cup {0}]
  BY DEF Untouched, Nowhere
<1>6. /\ todo' \in [Procs -> SUBSET Uids] /\ last' \in [Procs -> 0 .. MaxUid]
      /\ mine' \in [Procs -> SUBSET Uids] /\ noticed' \in [Procs -> SUBSET Known]
      /\ draft' \in [Procs -> [ThreadIds -> ThreadRow \cup {NoThread}]]
      /\ put' \in [Procs -> [Uids -> ThreadIds \cup {0}]]
  BY <1>5, AccessAssumption DEF EndSync, Typed, TypeOK
<1>7. TypeOK'
  <2>1. inThreads' \in [Uids -> SUBSET ThreadIds]
    BY DEF Typed, TypeOK, Publish
  <2>2. QED
    BY <1>1, <1>2, <1>3, <1>4, <1>6, <2>1 DEF EndSync, Typed, TypeOK
<1>8. \A t \in ThreadIds : threads[t] # NoThread => threads'[t] # NoThread
  BY DEF Publish, View, Typed, TypeOK
<1>9. MessagesAreFiled'
  BY <1>8 DEF EndSync, Typed, MessagesAreFiled
<1>10. OpenWhileFiling'
  BY DEF EndSync, Typed, TypeOK, AccessTypeOK, OpenWhileFiling
<1>11. QED
  BY <1>7, <1>9, <1>10 DEF Typed

\* A session that holds no open transaction is done.
LEMMA DoneTyped ==
  ASSUME Typed, NEW p \in Procs, pc[p] # "filing", pc' = [pc EXCEPT ![p] = "idle"],
         UNCHANGED <<active, allowed, mailbox, granted, seen, overtaken, statusStale, accessStale, ops>>
  PROVE  AccessTypeOK' /\ \A q \in Procs : pc'[q] = "filing" <=> pc[q] = "filing"
BY DEF Typed, TypeOK, AccessTypeOK

LEMMA SendTyped ==
  ASSUME Typed, NEW p \in Procs, NEW o \in Mails, Send(p, o)
  PROVE  Typed'
<1>1. AccessTypeOK' /\ \A q \in Procs : pc'[q] = "filing" <=> pc[q] = "filing"
  BY DoneTyped DEF Send
<1>2. out' \in [Mails -> {"none", "sent", "logged", "stored", "attributed"}]
  BY DEF Send, Typed, TypeOK
<1>3. TypeOK'
  BY <1>1, <1>2 DEF Send, Typed, TypeOK
<1>4. MessagesAreFiled'
  <2>1. out[o] = "none" /\ out \in [Mails -> {"none", "sent", "logged", "stored", "attributed"}]
    BY DEF Send, Sent, Typed, TypeOK
  <2>2. out' = [out EXCEPT ![o] = "sent"] /\ UNCHANGED <<outThread, threads>>
    BY DEF Send
  <2>3. QED
    BY <2>1, <2>2 DEF Typed, MessagesAreFiled
<1>5. OpenWhileFiling'
  BY <1>1 DEF Send, Typed, OpenWhileFiling
<1>6. QED
  BY <1>3, <1>4, <1>5 DEF Typed

LEMMA LogTyped ==
  ASSUME Typed, NEW o \in Mails, Log(o) \/ Attribute(o)
  PROVE  Typed'
<1>1. AccessTypeOK'
  BY DEF Log, Attribute, accessVars, Typed, TypeOK, AccessTypeOK
<1>2. out' \in [Mails -> {"none", "sent", "logged", "stored", "attributed"}]
  BY DEF Log, Attribute, Typed, TypeOK
<1>3. TypeOK'
  BY <1>1, <1>2 DEF Log, Attribute, Typed, TypeOK
<1>4. MessagesAreFiled' /\ OpenWhileFiling'
  BY DEF Log, Attribute, accessVars, Typed, TypeOK, MessagesAreFiled, OpenWhileFiling
<1>5. QED
  BY <1>3, <1>4 DEF Typed

\* What a stored mail leaves: the row of its thread.
LEMMA PersistFacts ==
  ASSUME Typed, NEW o \in Mails, Persist(o)
  PROVE  \E t \in OutboundThreads(o), linked \in Known \cup {Nobody} :
           /\ t \in ThreadIds
           /\ linked = IF threads[t] # NoThread /\ threads[t].contact # Nobody
                       THEN threads[t].contact ELSE For[o]
           /\ \A q \in Procs : draft[q][t] = NoThread
           /\ out[o] = "logged"
           /\ threads' = [threads EXCEPT ![t] = [email |-> To[o], contact |-> linked]]
           /\ out' = [out EXCEPT ![o] = "stored"]
           /\ outThread' = [outThread EXCEPT ![o] = t]
           /\ mixed' = MixedBy(t, linked, To[o])
<1> DEFINE Linked(t) == IF threads[t] # NoThread /\ threads[t].contact # Nobody
                        THEN threads[t].contact ELSE For[o]
<1>1. PICK t \in OutboundThreads(o) :
        /\ out[o] = "logged"
        /\ \A q \in Procs : draft[q][t] = NoThread
        /\ threads' = [threads EXCEPT ![t] = [email |-> To[o], contact |-> Linked(t)]]
        /\ out' = [out EXCEPT ![o] = "stored"]
        /\ outThread' = [outThread EXCEPT ![o] = t]
        /\ mixed' = MixedBy(t, Linked(t), To[o])
  BY Zenon DEF Persist
<1>2. t \in ThreadIds
  BY OutboundThreadsType DEF Typed
<1>3. threads[t] \in ThreadRow \cup {NoThread}
  BY <1>2 DEF Typed, TypeOK
<1>4. Linked(t) \in Known \cup {Nobody}
  BY <1>3, InboxAssumption DEF ThreadRow
<1> HIDE DEF Linked
<1>5. Linked(t) = IF threads[t] # NoThread /\ threads[t].contact # Nobody
                  THEN threads[t].contact ELSE For[o]
  BY DEF Linked
<1>6. QED
  BY <1>1, <1>2, <1>4, <1>5

LEMMA PersistTyped ==
  ASSUME Typed, NEW o \in Mails, Persist(o)
  PROVE  Typed'
<1>1. PICK t \in OutboundThreads(o), linked \in Known \cup {Nobody} :
        /\ t \in ThreadIds
        /\ threads' = [threads EXCEPT ![t] = [email |-> To[o], contact |-> linked]]
        /\ out' = [out EXCEPT ![o] = "stored"]
        /\ outThread' = [outThread EXCEPT ![o] = t]
        /\ mixed' = MixedBy(t, linked, To[o])
  BY PersistFacts
<1>2. /\ UNCHANGED accessVars
      /\ UNCHANGED <<arrived, rows, replied, inThreads, todo, last, mine, put, draft, noticed,
                     missed, overlapped, early, crossed, faults>>
  BY DEF Persist
<1>3. PICK row \in ThreadRow : threads' = [threads EXCEPT ![t] = row]
  BY <1>1, InboxAssumption DEF ThreadRow
<1>4. threads' \in [ThreadIds -> ThreadRow \cup {NoThread}]
  BY <1>3 DEF Typed, TypeOK
<1>5. /\ out' \in [Mails -> {"none", "sent", "logged", "stored", "attributed"}]
      /\ outThread' \in [Mails -> ThreadIds \cup {0}]
  BY <1>1 DEF Typed, TypeOK
<1>6. AccessTypeOK'
  BY <1>2 DEF accessVars, Typed, TypeOK, AccessTypeOK
<1>7. mixed' \subseteq ThreadIds
  BY <1>1, MixedByAdds DEF Typed, TypeOK
<1>8. TypeOK'
  BY <1>2, <1>4, <1>5, <1>6, <1>7 DEF Typed, TypeOK
<1>9. row # NoThread
  BY InboxAssumption
<1>10. MessagesAreFiled'
  BY <1>1, <1>3, <1>9 DEF Typed, TypeOK, MessagesAreFiled
<1>11. OpenWhileFiling'
  BY <1>2 DEF accessVars, Typed, OpenWhileFiling
<1>12. QED
  BY <1>8, <1>10, <1>11 DEF Typed

LEMMA ArriveTyped ==
  ASSUME Typed, Arrive
  PROVE  Typed'
<1>1. AccessTypeOK'
  BY DEF Arrive, accessVars, Typed, TypeOK, AccessTypeOK
<1>2. arrived' \in 0 .. MaxUid
  BY AccessAssumption DEF Arrive, Typed, TypeOK
<1>3. TypeOK'
  BY <1>1, <1>2 DEF Arrive, Typed, TypeOK
<1>4. MessagesAreFiled' /\ OpenWhileFiling'
  BY DEF Arrive, accessVars, Typed, MessagesAreFiled, OpenWhileFiling
<1>5. QED
  BY <1>3, <1>4 DEF Typed

LEMMA GiveUpTyped ==
  ASSUME Typed, NEW p \in Procs, SendFails(p) \/ FetchFails(p)
  PROVE  Typed'
<1>1. AccessTypeOK' /\ \A q \in Procs : pc'[q] = "filing" <=> pc[q] = "filing"
  BY DoneTyped DEF SendFails, FetchFails
<1>2. TypeOK'
  BY <1>1 DEF SendFails, FetchFails, inboxVars, Typed, TypeOK
<1>3. MessagesAreFiled' /\ OpenWhileFiling'
  BY <1>1 DEF SendFails, FetchFails, inboxVars, Typed, MessagesAreFiled, OpenWhileFiling
<1>4. QED
  BY <1>2, <1>3 DEF Typed

\* What a fetch may return are letters of the inbox after the watermark.
LEMMA WindowType ==
  ASSUME TypeOK, NEW p \in Procs
  PROVE  /\ seen[p].mark \in 0 .. MaxUid /\ arrived \in 0 .. MaxUid
         /\ Window(seen[p].mark) \subseteq seen[p].mark + 1 .. arrived
         /\ seen[p].mark + 1 .. arrived \subseteq Uids
         /\ Window(seen[p].mark) \subseteq Uids /\ IsFiniteSet(Window(seen[p].mark))
<1>1. seen[p].mark \in 0 .. MaxUid /\ arrived \in 0 .. MaxUid
  BY DEF TypeOK, AccessTypeOK, MailboxRow
<1>2. Window(seen[p].mark) \subseteq seen[p].mark + 1 .. arrived
  BY <1>1 DEF Window
<1>3. seen[p].mark + 1 .. arrived \subseteq Uids
  BY <1>1, AccessAssumption DEF Uids
<1>4. IsFiniteSet(seen[p].mark + 1 .. arrived)
  BY <1>1, FS_Interval
<1>5. IsFiniteSet(Window(seen[p].mark))
  BY <1>2, <1>4, FS_Subset
<1>6. QED
  BY <1>1, <1>2, <1>3, <1>5

LEMMA FetchTyped ==
  ASSUME Typed, NEW p \in Procs, Fetch(p)
  PROVE  Typed'
<1> DEFINE since == seen[p].mark
<1>1. PICK got \in SUBSET Window(since) :
        /\ faults' = faults - Cardinality(Window(since) \ got) /\ faults' >= 0
        /\ todo' = [todo EXCEPT ![p] = got]
        /\ missed' = missed \cup ((since + 1 .. arrived) \ got)
  BY DEF Fetch
<1>2. Cardinality(Window(since) \ got) \in Nat
  BY WindowType, FS_Subset, FS_CardinalityType DEF Typed
<1>3. faults' \in 0 .. MaxFaults
  BY <1>1, <1>2, InboxAssumption DEF Typed, TypeOK
<1>4. got \subseteq Uids /\ missed' \subseteq Uids
  BY <1>1, WindowType DEF Typed, TypeOK
<1>5. todo' \in [Procs -> SUBSET Uids] /\ last' \in [Procs -> 0 .. MaxUid]
  BY <1>1, <1>4, WindowType DEF Fetch, Typed, TypeOK
<1>6. AccessTypeOK'
  BY DEF Fetch, Typed, TypeOK, AccessTypeOK
<1>7. TypeOK'
  BY <1>3, <1>4, <1>5, <1>6 DEF Fetch, Typed, TypeOK
<1>8. MessagesAreFiled'
  BY DEF Fetch, Typed, MessagesAreFiled
<1>9. OpenWhileFiling'
  BY <1>1 DEF Fetch, Typed, TypeOK, AccessTypeOK, OpenWhileFiling
<1>10. QED
  BY <1>7, <1>8, <1>9 DEF Typed

\* The letter in hand.
LEMMA NextLetter ==
  ASSUME TypeOK, NEW p \in Procs, todo[p] # {}
  PROVE  Min(todo[p]) \in todo[p] /\ Min(todo[p]) \in Uids /\ \A t \in todo[p] : Min(todo[p]) <= t
<1>1. todo[p] \in SUBSET Nat /\ todo[p] \subseteq Uids
  BY IdsAreTyped DEF TypeOK
<1>2. QED
  BY <1>1, MinOfUids

LEMMA ExamineTyped ==
  ASSUME Typed, NEW p \in Procs, Examine(p)
  PROVE  Typed'
<1> DEFINE u == Min(todo[p])
<1>1. u \in Uids
  BY NextLetter DEF Examine, Typed
<1>2. /\ draft' \in [Procs -> [ThreadIds -> ThreadRow \cup {NoThread}]]
      /\ mine' \in [Procs -> SUBSET Uids] /\ noticed' \in [Procs -> SUBSET Known]
      /\ put' \in [Procs -> [Uids -> ThreadIds \cup {0}]]
      /\ overlapped' \subseteq Uids /\ early' \subseteq Uids /\ crossed' \subseteq Uids
      /\ mixed' \subseteq ThreadIds
  <2>1. CASE Stored(p, u)
    BY <2>1 DEF Examine, Typed, TypeOK
  <2>2. CASE ~Stored(p, u)
    <3>1. PICK t \in Resolve(p, u) : FileIn(p, u, t)
      BY <2>2 DEF Examine
    <3>2. t \in ThreadIds
      BY <1>1, ResolveType DEF Typed
    <3>3. QED
      BY <1>1, <3>1, <3>2, FileInTyped
  <2>3. QED
    BY <2>1, <2>2
<1>3. todo' \in [Procs -> SUBSET Uids] /\ last' \in [Procs -> 0 .. MaxUid]
  BY <1>1, IdsAreTyped DEF Examine, Typed, TypeOK
<1>4. AccessTypeOK'
  BY DEF Examine, accessVars, Typed, TypeOK, AccessTypeOK
<1>5. TypeOK'
  BY <1>2, <1>3, <1>4 DEF Examine, Typed, TypeOK
<1>6. MessagesAreFiled'
  BY DEF Examine, Typed, MessagesAreFiled
<1>7. OpenWhileFiling'
  <2>1. ASSUME NEW q \in Procs \ {p}
        PROVE  todo'[q] = todo[q] /\ mine'[q] = mine[q] /\ draft'[q] = draft[q]
               /\ noticed'[q] = noticed[q]
    BY DEF Examine, FileIn, Typed, TypeOK
  <2>2. pc[p] = "filing" /\ pc' = pc
    BY DEF Examine, accessVars
  <2>3. QED
    BY <2>1, <2>2 DEF Typed, OpenWhileFiling
<1>8. QED
  BY <1>5, <1>6, <1>7 DEF Typed

LEMMA MarkType ==
  ASSUME TypeOK, NEW p \in Procs
  PROVE  [mailbox EXCEPT !.mark = Mark(p)] \in MailboxRow
<1>1. Mark(p) \in 0 .. MaxUid
  BY DEF Mark, Column, TypeOK, AccessTypeOK, MailboxRow
<1>2. QED
  BY <1>1 DEF TypeOK, AccessTypeOK, MailboxRow

LEMMA SyncCommitTyped ==
  ASSUME Typed, NEW p \in Procs, SyncCommit(p)
  PROVE  Typed'
<1>1. mailbox' \in MailboxRow
  BY MarkType DEF SyncCommit, Typed
<1>2. faults' \in 0 .. MaxFaults
  BY DEF SyncCommit, Typed, TypeOK
<1>3. QED
  BY <1>1, <1>2, EndSyncTyped DEF SyncCommit

LEMMA SyncAbortsTyped ==
  ASSUME Typed, NEW p \in Procs, SyncAborts(p)
  PROVE  Typed'
<1>1. mailbox' \in MailboxRow
  BY DEF SyncAborts, Typed, TypeOK, AccessTypeOK
<1>2. faults' \in 0 .. MaxFaults
  BY InboxAssumption DEF SyncAborts, Typed, TypeOK
<1>3. QED
  BY <1>1, <1>2, EndSyncTyped DEF SyncAborts

LEMMA AccessStepTyped ==
  ASSUME Typed, AccessNext, UNCHANGED inboxVars
  PROVE  Typed'
<1>1. AccessTypeOK /\ AccessTypeOK'
  BY StepAccessTypeOK DEF Typed, TypeOK
<1>2. \A p \in Procs : pc'[p] = "filing" <=> pc[p] = "filing"
  BY <1>1, AccessKeepsFiling
<1>3. TypeOK'
  BY <1>1 DEF inboxVars, Typed, TypeOK
<1>4. MessagesAreFiled' /\ OpenWhileFiling'
  BY <1>2 DEF inboxVars, Typed, MessagesAreFiled, OpenWhileFiling
<1>5. QED
  BY <1>3, <1>4 DEF Typed

LEMMA StepTyped == Typed /\ [Next]_vars => Typed'
<1> SUFFICES ASSUME Typed, [Next]_vars PROVE Typed'
  OBVIOUS
<1>1. CASE UNCHANGED vars
  BY <1>1 DEF vars, accessVars, inboxVars, Typed, TypeOK, AccessTypeOK, MessagesAreFiled,
     OpenWhileFiling
<1>2. CASE AccessNext /\ UNCHANGED inboxVars
  BY <1>2, AccessStepTyped
<1>3. CASE InboxNext
  BY <1>3, ArriveTyped, LogTyped, PersistTyped, SendTyped, GiveUpTyped, FetchTyped, ExamineTyped,
     SyncCommitTyped, SyncAbortsTyped DEF InboxNext
<1>4. QED
  BY <1>1, <1>2, <1>3 DEF Next

\* The types of the mailbox, of its inbox's rows and of the sessions that work on
\* them.
THEOREM InboxTypeCorrect == Spec => []TypeOK
<1>1. Spec => []Typed
  BY InitTyped, StepTyped, PTL DEF Spec
<1>2. Typed => TypeOK
  BY DEF Typed
<1>3. QED
  BY <1>1, <1>2, PTL

-----------------------------------------------------------------------------
(* The access properties hold of the whole.                                *)

LEMMA InboxStepAccess == Typed /\ AccessInv /\ InboxNext => AccessInv'
<1> SUFFICES ASSUME Typed, AccessInv, InboxNext PROVE AccessInv'
  OBVIOUS
<1> USE DEF Typed, TypeOK
<1>1. ASSUME UNCHANGED accessVars PROVE AccessInv'
  BY <1>1 DEF accessVars, AccessInv, StatusTellsTheGrant, AccessComesFromTheGrant, SeenIsCurrent,
     CheckHasGrant
<1>2. ASSUME NEW p \in Procs, NEW at \in {"idle", "filing"},
             pc[p] # "idle", pc' = [pc EXCEPT ![p] = at],
             UNCHANGED <<mailbox, statusStale, accessStale, overtaken, seen>>
      PROVE  AccessInv'
  BY <1>2, QuietAccess DEF AccessTypeOK
<1>3. CASE Arrive \/ \E o \in Mails : Log(o) \/ Persist(o) \/ Attribute(o)
  BY <1>1, <1>3 DEF Arrive, Log, Persist, Attribute
<1>4. ASSUME NEW p \in Procs, NEW o \in Mails, Send(p, o) PROVE AccessInv'
  BY <1>2, <1>4 DEF Send
<1>5. ASSUME NEW p \in Procs, SendFails(p) \/ FetchFails(p) PROVE AccessInv'
  BY <1>2, <1>5 DEF SendFails, FetchFails
<1>6. ASSUME NEW p \in Procs, Fetch(p) PROVE AccessInv'
  BY <1>2, <1>6 DEF Fetch
<1>7. ASSUME NEW p \in Procs, Examine(p) PROVE AccessInv'
  BY <1>1, <1>7 DEF Examine
<1>8. ASSUME NEW p \in Procs, SyncCommit(p) PROVE AccessInv'
  <2>1. /\ mailbox'.grant = mailbox.grant /\ mailbox'.oauth = mailbox.oauth
        /\ mailbox'.access = mailbox.access
    BY <1>8 DEF SyncCommit, AccessTypeOK, MailboxRow
  <2>2. QED
    BY <1>8, <2>1, QuietAccess DEF SyncCommit, EndSync, AccessTypeOK
<1>9. ASSUME NEW p \in Procs, SyncAborts(p) PROVE AccessInv'
  BY <1>2, <1>9 DEF SyncAborts, EndSync
<1>10. QED
  BY <1>3, <1>4, <1>5, <1>6, <1>7, <1>8, <1>9 DEF InboxNext

LEMMA InitAccess == Init => AccessInv
<1> SUFFICES ASSUME Init PROVE AccessInv
  OBVIOUS
<1>1. mailbox.oauth = "not_connected" <=> mailbox.grant = 0
  BY DEF Init, AccessInit, NewMailbox
<1>2. mailbox.access \in {0, mailbox.grant}
  BY DEF Init, AccessInit, NewMailbox
<1>3. \A p \in Procs : pc[p] = "idle"
  BY DEF Init, AccessInit
<1>4. QED
  BY <1>1, <1>2, <1>3 DEF AccessInv, StatusTellsTheGrant, AccessComesFromTheGrant, SeenIsCurrent,
     CheckHasGrant

LEMMA StepAccessInv == Typed /\ AccessInv /\ [Next]_vars => AccessInv'
<1> SUFFICES ASSUME Typed, AccessInv, [Next]_vars PROVE AccessInv'
  OBVIOUS
<1>1. CASE UNCHANGED vars
  BY <1>1 DEF vars, accessVars, AccessInv, StatusTellsTheGrant, AccessComesFromTheGrant,
     SeenIsCurrent, CheckHasGrant
<1>2. CASE AccessNext
  BY <1>2, StepAccess DEF Typed, TypeOK
<1>3. CASE InboxNext
  BY <1>3, InboxStepAccess
<1>4. QED
  BY <1>1, <1>2, <1>3 DEF Next

LEMMA AccessHolds == Spec => [](Typed /\ AccessInv)
<1>1. Init => Typed /\ AccessInv
  BY InitTyped, InitAccess
<1>2. Typed /\ AccessInv /\ [Next]_vars => Typed' /\ AccessInv'
  BY StepTyped, StepAccessInv
<1>3. QED
  BY <1>1, <1>2, PTL DEF Spec

\* Whatever checks, refreshes, consents and disconnections overlap, the page shows
\* a mailbox as never connected exactly when there is no refresh token, unless a
\* session wrote the status from a row another had changed.
THEOREM StatusIsTrue == Spec => []StatusTellsTheGrant
<1>1. AccessInv => StatusTellsTheGrant
  BY DEF AccessInv
<1>2. QED
  BY AccessHolds, <1>1, PTL

\* The access token on file is one of the consent on file, unless a refresh was on
\* its way when the consent changed.
THEOREM AccessOfTheGrant == Spec => []AccessComesFromTheGrant
<1>1. AccessInv => AccessComesFromTheGrant
  BY DEF AccessInv
<1>2. QED
  BY AccessHolds, <1>1, PTL

\* A session that may still write the status or an access token.
MayWrite(p) == pc[p] \in {"exchange", "diagnosed"} \cup DOMAIN NextStage

\* What a lock on the mailbox's row from its load to the last write would give.
WritersAreCurrent == \A p \in overtaken : ~MayWrite(p)

\* The two properties without their exceptions.
MailboxTellsItsAccess ==
  /\ mailbox.oauth = "not_connected" <=> mailbox.grant = 0
  /\ mailbox.access \in {0, mailbox.grant}

NeverStale == statusStale = FALSE /\ accessStale = FALSE

LEMMA StepNeverStale == Typed /\ NeverStale /\ WritersAreCurrent /\ [Next]_vars => NeverStale'
<1> SUFFICES ASSUME Typed, NeverStale, WritersAreCurrent, [Next]_vars PROVE NeverStale'
  OBVIOUS
<1> USE DEF NeverStale
<1>1. ASSUME UNCHANGED <<statusStale, accessStale>> PROVE NeverStale'
  BY <1>1
<1>2. ASSUME NEW p, MayWrite(p) PROVE (p \in overtaken) = FALSE
  BY <1>2 DEF WritersAreCurrent
<1>3. ASSUME NEW p, NEW status, Marks(p, status), MayWrite(p), accessStale' = accessStale
      PROVE  NeverStale'
  BY <1>2, <1>3 DEF Marks
<1>4. ASSUME NEW p \in Procs, Exchanged(p) PROVE NeverStale'
  <2>1. MayWrite(p)
    BY <1>4 DEF Exchanged, MayWrite
  <2>2. QED
    BY <1>2, <1>4, <2>1 DEF Exchanged
<1>5. ASSUME NEW p \in Procs, Refreshed(p) PROVE NeverStale'
  <2>1. MayWrite(p)
    BY <1>5 DEF Refreshed, Asking, MayWrite
  <2>2. QED
    BY <1>2, <1>5, <2>1 DEF Refreshed
<1>6. ASSUME NEW p \in Procs, NeedsReauth(p) \/ RefreshFails(p) PROVE NeverStale'
  <2>1. MayWrite(p) /\ accessStale' = accessStale
    BY <1>6 DEF NeedsReauth, RefreshFails, Asking, MayWrite
  <2>2. UNCHANGED statusStale \/ \E status : Marks(p, status)
    BY <1>6 DEF NeedsReauth, RefreshFails
  <2>3. QED
    BY <1>1, <1>3, <2>1, <2>2
<1>7. ASSUME NEW p \in Procs, CheckDone(p) PROVE NeverStale'
  BY <1>3, <1>7 DEF CheckDone, MayWrite
<1>8. ASSUME NEW p \in Procs, Disconnect(p) PROVE NeverStale'
  BY <1>8 DEF Disconnect
<1>9. CASE AccessNext /\ ~\E p \in Procs : \/ Exchanged(p) \/ Refreshed(p) \/ NeedsReauth(p)
                                            \/ RefreshFails(p) \/ CheckDone(p) \/ Disconnect(p)
  BY <1>1, <1>9 DEF AccessNext, TokenExpires, Callback, ExchangeFails, Load, UseToken, SetStatus,
     SetProvider, CheckBreaks
<1>10. CASE InboxNext
  BY <1>1, <1>10 DEF InboxNext, Arrive, Log, Persist, Attribute, Send, SendFails, Fetch, FetchFails,
     Examine, SyncCommit, SyncAborts, EndSync, accessVars
<1>11. CASE UNCHANGED vars
  BY <1>1, <1>11 DEF vars, accessVars
<1>12. QED
  BY <1>4, <1>5, <1>6, <1>7, <1>8, <1>9, <1>10, <1>11 DEF Next

\* Where nobody writes from an old row, whatever checks, refreshes, consents and
\* disconnections there are, the page tells a mailbox that was never connected
\* from one that was, and the access token on file is the present consent's.
THEOREM CurrentWritersTellTheAccess == Spec /\ []WritersAreCurrent => []MailboxTellsItsAccess
<1>1. Init => NeverStale
  BY DEF Init, AccessInit, NeverStale
<1>2. AccessInv /\ NeverStale => MailboxTellsItsAccess
  BY DEF AccessInv, NeverStale, StatusTellsTheGrant, AccessComesFromTheGrant, MailboxTellsItsAccess
<1>3. QED
  BY <1>1, <1>2, AccessHolds, StepNeverStale, PTL DEF Spec

-----------------------------------------------------------------------------
(* No letter at or below the watermark is passed over.                     *)

\* The letter is in the database, or a fetch did not return it; or else the
\* session has it in its transaction.
Covered(u) == u \in missed \/ \E v \in Uids : Same(u, v) /\ rows[v] > 0
CoveredBy(p, u) == u \in missed \/ Stored(p, u)

\* What a session has gone past is covered, and what it skips on its way to the
\* letters it still has was not returned.
Progress(p) ==
  pc[p] = "filing" =>
    /\ \A u \in 1 .. last[p] : CoveredBy(p, u)
    /\ \A t \in todo[p] : /\ last[p] < t
                          /\ \A u \in last[p] + 1 .. t - 1 : u \in todo[p] \cup missed

MarkInv ==
  /\ \A u \in 1 .. mailbox.mark : Covered(u)
  /\ \A p \in Procs : \A u \in 1 .. seen[p].mark : Covered(u)
  /\ \A p \in Procs : Progress(p)

\* Rows are added, never removed.
LEMMA CoverageGrows ==
  ASSUME Typed, missed \subseteq missed', \A v \in Uids : rows[v] > 0 => rows'[v] > 0
  PROVE  /\ \A u : Covered(u) => Covered(u)'
         /\ \A p \in Procs : mine[p] \subseteq mine'[p] => \A u : CoveredBy(p, u) => CoveredBy(p, u)'
BY DEF Covered, CoveredBy, Stored

\* A step that leaves a session's transaction alone leaves its progress.
LEMMA ProgressStays ==
  ASSUME Typed, missed \subseteq missed', \A v \in Uids : rows[v] > 0 => rows'[v] > 0,
         NEW p \in Procs, Progress(p), pc'[p] = "filing" => pc[p] = "filing",
         todo'[p] = todo[p], last'[p] = last[p], mine'[p] = mine[p]
  PROVE  Progress(p)'
<1>1. \A u : CoveredBy(p, u) => CoveredBy(p, u)'
  BY CoverageGrows
<1>2. QED
  BY <1>1 DEF Progress

\* A step that touches neither rows nor transactions, and loads at most the row.
LEMMA MarkStays ==
  ASSUME Typed, MarkInv, UNCHANGED <<missed, rows, todo, last, mine>>,
         \A p \in Procs : pc'[p] = "filing" => pc[p] = "filing",
         mailbox'.mark = mailbox.mark,
         \A p \in Procs : seen'[p].mark \in {seen[p].mark, mailbox.mark}
  PROVE  MarkInv'
<1>1. \A u : Covered(u) => Covered(u)'
  BY CoverageGrows
<1>2. ASSUME NEW p \in Procs PROVE Progress(p)'
  BY <1>2, ProgressStays DEF MarkInv
<1>3. /\ \A u \in 1 .. mailbox'.mark : Covered(u)'
      /\ \A p \in Procs : \A u \in 1 .. seen'[p].mark : Covered(u)'
  BY <1>1 DEF MarkInv
<1>4. QED
  BY <1>2, <1>3 DEF MarkInv

LEMMA FetchMark ==
  ASSUME Typed, MarkInv, NEW p \in Procs, Fetch(p)
  PROVE  MarkInv'
<1> DEFINE since == seen[p].mark
<1>1. PICK got \in SUBSET Window(since) :
        /\ todo' = [todo EXCEPT ![p] = got]
        /\ missed' = missed \cup ((since + 1 .. arrived) \ got)
  BY DEF Fetch
<1>2. missed \subseteq missed' /\ UNCHANGED <<rows, mine, mailbox, seen>>
  BY <1>1 DEF Fetch
<1>3. \A u : Covered(u) => Covered(u)'
  BY <1>2, CoverageGrows
<1>4. ASSUME NEW q \in Procs \ {p} PROVE Progress(q)'
  BY <1>1, <1>2, ProgressStays DEF MarkInv, Fetch, Typed, TypeOK, AccessTypeOK
<1>5. Progress(p)'
  <2>1. todo'[p] = got /\ last'[p] = since
    BY <1>1 DEF Fetch, Typed, TypeOK
  <2>2. since \in 0 .. MaxUid /\ got \subseteq since + 1 .. arrived /\ arrived \in 0 .. MaxUid
    BY <1>1, WindowType DEF Typed
  <2>3. ASSUME NEW u \in 1 .. since PROVE CoveredBy(p, u)'
    BY <1>3 DEF MarkInv, Covered, CoveredBy, Stored
  <2>4. ASSUME NEW t \in got, NEW u \in since + 1 .. t - 1 PROVE u \in got \cup missed'
    BY <1>1, <2>2
  <2>5. \A x \in 1 .. last'[p] : CoveredBy(p, x)'
    BY <2>1, <2>3
  <2>6. \A t \in todo'[p] : /\ last'[p] < t
                            /\ \A x \in last'[p] + 1 .. t - 1 : x \in todo'[p] \cup missed'
    BY <2>1, <2>2, <2>4
  <2>7. QED
    BY <2>5, <2>6 DEF Progress
<1>6. QED
  BY <1>2, <1>3, <1>4, <1>5 DEF MarkInv

LEMMA ExamineMark ==
  ASSUME Typed, MarkInv, NEW p \in Procs, Examine(p)
  PROVE  MarkInv'
<1> PICK u : u = Min(todo[p])
  OBVIOUS
<1>1. u \in todo[p] /\ u \in Uids /\ \A t \in todo[p] : u <= t
  BY NextLetter DEF Examine, Typed
<1>2. UNCHANGED <<missed, rows, mailbox, seen, pc>>
  BY DEF Examine, accessVars
<1>3. \A q \in Procs : mine[q] \subseteq mine'[q]
  <2>1. mine \in [Procs -> SUBSET Uids]
    BY DEF Typed, TypeOK
  <2>2. mine' = mine \/ mine' = [mine EXCEPT ![p] = @ \cup {u}]
    BY DEF Examine, FileIn
  <2>3. QED
    BY <2>1, <2>2
<1>4. \A x : Covered(x) => Covered(x)'
  BY <1>2, CoverageGrows
<1>5. \A q \in Procs : \A x : CoveredBy(q, x) => CoveredBy(q, x)'
  BY <1>2, <1>3, CoverageGrows
<1>6. ASSUME NEW q \in Procs \ {p} PROVE Progress(q)'
  <2>1. todo'[q] = todo[q] /\ last'[q] = last[q]
    BY DEF Examine, Typed, TypeOK
  <2>2. QED
    BY <1>2, <1>5, <2>1 DEF MarkInv, Progress
<1>7. Stored(p, u)'
  <2>1. CASE Stored(p, u)
    BY <1>2, <1>3, <2>1 DEF Stored
  <2>2. CASE ~Stored(p, u)
    <3>1. u \in mine'[p]
      BY <2>2 DEF Examine, FileIn, Typed, TypeOK
    <3>2. QED
      BY <1>1, <3>1, SameIsSymmetric DEF Stored
  <2>3. QED
    BY <2>1, <2>2
<1>8. Progress(p)'
  <2>1. todo'[p] = todo[p] \ {u} /\ last'[p] = u
    BY DEF Examine, Typed, TypeOK
  <2>2. Progress(p) /\ pc[p] = "filing" /\ last[p] \in 0 .. MaxUid /\ todo[p] \subseteq Uids
    BY DEF MarkInv, Examine, Typed, TypeOK
  <2>3. ASSUME NEW x \in 1 .. u PROVE CoveredBy(p, x)'
    <3>1. CASE x \in 1 .. last[p]
      BY <1>5, <2>2, <3>1 DEF Progress
    <3>2. CASE x \in last[p] + 1 .. u - 1
      <4>1. x \notin todo[p]
        BY <1>1, <3>2, IdsAreTyped
      <4>2. x \in missed
        BY <1>1, <2>2, <3>2, <4>1 DEF Progress
      <4>3. QED
        BY <1>2, <4>2 DEF CoveredBy
    <3>3. CASE x = u
      BY <1>7, <3>3 DEF CoveredBy
    <3>4. QED
      BY <1>1, <2>2, <3>1, <3>2, <3>3, IdsAreTyped
  <2>4. ASSUME NEW t \in todo[p] \ {u}
        PROVE  u < t /\ \A x \in u + 1 .. t - 1 : x \in (todo[p] \ {u}) \cup missed
    <3>1. u \in Nat /\ t \in Nat /\ u <= t /\ u # t
      BY <1>1, <2>2, IdsAreTyped
    <3>2. last[p] < u
      BY <1>1, <2>2 DEF Progress
    <3>3. QED
      BY <1>1, <2>2, <3>1, <3>2 DEF Progress
  <2>5. QED
    BY <1>2, <2>1, <2>3, <2>4 DEF Progress
<1>9. QED
  BY <1>2, <1>4, <1>6, <1>8 DEF MarkInv

\* What a synchronisation that ends leaves to the others.
LEMMA EndSyncMark ==
  ASSUME Typed, MarkInv, NEW p \in Procs, EndSync(p),
         UNCHANGED <<rows, threads, replied, inThreads>> \/ Publish(p),
         \A u \in 1 .. mailbox'.mark : Covered(u)'
  PROVE  MarkInv'
<1>1. missed' = missed /\ \A v \in Uids : rows[v] > 0 => rows'[v] > 0
  <2>1. missed' = missed /\ rows \in [Uids -> Nat]
    BY DEF EndSync, Typed, TypeOK
  <2>2. QED
    BY <2>1 DEF Publish
<1>2. \A u : Covered(u) => Covered(u)'
  BY <1>1, CoverageGrows
<1>3. ASSUME NEW q \in Procs PROVE Progress(q)'
  <2>1. CASE q = p
    BY <2>1 DEF EndSync, Progress, Typed, TypeOK, AccessTypeOK
  <2>2. CASE q # p
    BY <1>1, <2>2, ProgressStays DEF MarkInv, EndSync, Typed, TypeOK, AccessTypeOK
  <2>3. QED
    BY <2>1, <2>2
<1>4. QED
  BY <1>2, <1>3 DEF MarkInv, EndSync

LEMMA SyncCommitMark ==
  ASSUME Typed, MarkInv, NEW p \in Procs, SyncCommit(p)
  PROVE  MarkInv'
<1>1. missed' = missed /\ \A v \in Uids : rows'[v] > 0 <=> (rows[v] > 0 \/ v \in mine[p])
  BY DEF SyncCommit, EndSync, Publish, Typed, TypeOK
<1>2. \A u : Covered(u) => Covered(u)'
  BY <1>1 DEF Covered
<1>3. \A u \in 1 .. last[p] : Covered(u)'
  BY <1>1 DEF MarkInv, Progress, CoveredBy, Stored, Covered, SyncCommit
<1>4. mailbox'.mark \in {mailbox.mark, last[p]}
  BY DEF SyncCommit, Mark, Column, Typed, TypeOK, AccessTypeOK, MailboxRow
<1>5. \A u \in 1 .. mailbox'.mark : Covered(u)'
  BY <1>2, <1>3, <1>4 DEF MarkInv
<1>6. QED
  BY <1>5, EndSyncMark DEF SyncCommit

LEMMA SyncAbortsMark ==
  ASSUME Typed, MarkInv, NEW p \in Procs, SyncAborts(p)
  PROVE  MarkInv'
<1>1. missed' = missed /\ \A v \in Uids : rows[v] > 0 => rows'[v] > 0
  <2>1. CASE UNCHANGED <<rows, threads, replied, inThreads>>
    BY <2>1 DEF SyncAborts, EndSync
  <2>2. CASE Publish(p)
    BY <2>2 DEF SyncAborts, EndSync, Publish, Typed, TypeOK
  <2>3. QED
    BY <2>1, <2>2 DEF SyncAborts
<1>2. \A u \in 1 .. mailbox'.mark : Covered(u)'
  BY <1>1, CoverageGrows DEF MarkInv, SyncAborts
<1>3. QED
  BY <1>2, EndSyncMark DEF SyncAborts

LEMMA StepMark == Typed /\ MarkInv /\ [Next]_vars => MarkInv'
<1> SUFFICES ASSUME Typed, MarkInv, [Next]_vars PROVE MarkInv'
  OBVIOUS
<1>1. CASE UNCHANGED vars
  BY <1>1, MarkStays DEF vars, accessVars, inboxVars
<1>2. CASE AccessNext /\ UNCHANGED inboxVars
  BY <1>2, MarkStays, AccessKeepsFiling DEF inboxVars, Typed, TypeOK
<1>3. CASE Arrive \/ \E o \in Mails : Log(o) \/ Persist(o) \/ Attribute(o)
  BY <1>3, MarkStays DEF Arrive, Log, Persist, Attribute, accessVars
<1>4. ASSUME NEW p \in Procs, NEW o \in Mails, Send(p, o) PROVE MarkInv'
  BY <1>4, MarkStays DEF Send, Typed, TypeOK, AccessTypeOK
<1>5. ASSUME NEW p \in Procs, SendFails(p) \/ FetchFails(p) PROVE MarkInv'
  BY <1>5, MarkStays DEF SendFails, FetchFails, inboxVars, Typed, TypeOK, AccessTypeOK
<1>6. CASE InboxNext
  BY <1>3, <1>4, <1>5, <1>6, FetchMark, ExamineMark, SyncCommitMark, SyncAbortsMark DEF InboxNext
<1>7. QED
  BY <1>1, <1>2, <1>6 DEF Next

LEMMA InitMark == Init => MarkInv
<1> SUFFICES ASSUME Init PROVE MarkInv
  OBVIOUS
<1>1. mailbox.mark = 0 /\ \A p \in Procs : seen[p].mark = 0 /\ pc[p] # "filing"
  BY DEF Init, AccessInit, NewMailbox
<1>2. QED
  BY <1>1 DEF MarkInv, Progress

\* Each letter at or below the watermark is stored, or a fetch did not return it,
\* whatever synchronisations overlap, fail and overtake one another.
THEOREM NothingIsPassedOver == Spec => []NothingPassedOver
<1>1. Init => Typed /\ MarkInv
  BY InitTyped, InitMark
<1>2. Typed /\ MarkInv /\ [Next]_vars => Typed' /\ MarkInv'
  BY StepTyped, StepMark
<1>3. MarkInv => NothingPassedOver
  BY DEF MarkInv, Covered, NothingPassedOver
<1>4. QED
  BY <1>1, <1>2, <1>3, PTL DEF Spec

-----------------------------------------------------------------------------
(* Only overlapping synchronisations store a letter twice.                 *)

\* Two transactions that hold one letter, or one that holds a letter another has
\* stored meanwhile, overlapped; one transaction holds a letter once.
StoreInv ==
  /\ StoredOnce
  /\ \A p \in Procs : \A u \in mine[p], v \in Uids :
       Same(u, v) /\ rows[v] > 0 => u \in overlapped /\ v \in overlapped
  /\ \A p, q \in Procs : p # q =>
       \A u \in mine[p], v \in mine[q] : Same(u, v) => u \in overlapped /\ v \in overlapped
  /\ \A p \in Procs : \A u, v \in mine[p] : Same(u, v) => u = v

LEMMA StoreStays ==
  ASSUME StoreInv, UNCHANGED <<rows, mine, overlapped>>
  PROVE  StoreInv'
BY DEF StoreInv, StoredOnce

LEMMA FileInStore ==
  ASSUME Typed, StoreInv, NEW p \in Procs, NEW u \in Uids, NEW t, FileIn(p, u, t),
         ~Stored(p, u), rows' = rows
  PROVE  StoreInv'
<1> DEFINE others == {w \in Uids : Same(u, w) /\ \E q \in Procs \ {p} : w \in mine[q]}
<1>1. /\ mine'[p] = mine[p] \cup {u}
      /\ \A q \in Procs \ {p} : mine'[q] = mine[q]
      /\ \A q \in Procs : mine[q] \subseteq Uids
  BY DEF FileIn, Typed, TypeOK
<1>2. overlapped \subseteq overlapped'
  BY DEF FileIn
<1>3. \A v \in others : u \in overlapped' /\ v \in overlapped'
  BY DEF FileIn
<1>4. \A v \in Uids : Same(u, v) => ~(rows[v] > 0) /\ v \notin mine[p]
  BY DEF Stored
<1>5. StoredOnce'
  BY <1>2 DEF StoreInv, StoredOnce
<1>6. ASSUME NEW q \in Procs, NEW x \in mine'[q], NEW v \in Uids, Same(x, v), rows[v] > 0
      PROVE  x \in overlapped' /\ v \in overlapped'
  <2>1. x \in mine[q]
    BY <1>1, <1>4, <1>6
  <2>2. QED
    BY <1>2, <1>6, <2>1 DEF StoreInv
<1>7. ASSUME NEW q \in Procs, NEW r \in Procs, q # r, NEW x \in mine'[q], NEW y \in mine'[r], Same(x, y)
      PROVE  x \in overlapped' /\ y \in overlapped'
  <2>1. CASE x \in mine[q] /\ y \in mine[r]
    BY <1>2, <1>7, <2>1 DEF StoreInv
  <2>2. CASE q = p /\ x = u /\ y \in mine[r]
    BY <1>1, <1>3, <1>7, <2>2
  <2>3. CASE r = p /\ y = u /\ x \in mine[q]
    <3>1. Same(u, x)
      BY <1>7, <2>3, SameIsSymmetric
    <3>2. QED
      BY <1>1, <1>3, <1>7, <2>3, <3>1
  <2>4. QED
    BY <1>1, <1>7, <2>1, <2>2, <2>3
<1>8. ASSUME NEW q \in Procs, NEW x \in mine'[q], NEW y \in mine'[q], Same(x, y)
      PROVE  x = y
  <2>1. CASE x \in mine[q] /\ y \in mine[q]
    BY <1>8, <2>1 DEF StoreInv
  <2>2. CASE q = p /\ x = u
    BY <1>1, <1>4, <1>8, <2>2
  <2>3. CASE q = p /\ y = u
    <3>1. Same(u, x)
      BY <1>8, <2>3, SameIsSymmetric
    <3>2. QED
      BY <1>1, <1>4, <2>3, <3>1
  <2>4. QED
    BY <1>1, <2>1, <2>2, <2>3
<1>9. QED
  BY <1>5, <1>6, <1>7, <1>8 DEF StoreInv

LEMMA ExamineStore ==
  ASSUME Typed, StoreInv, NEW p \in Procs, Examine(p)
  PROVE  StoreInv'
<1> PICK u : u = Min(todo[p])
  OBVIOUS
<1>1. u \in Uids
  BY NextLetter DEF Examine, Typed
<1>2. CASE Stored(p, u)
  BY <1>2, StoreStays DEF Examine
<1>3. CASE ~Stored(p, u)
  <2>1. PICK t \in Resolve(p, u) : FileIn(p, u, t)
    BY <1>3 DEF Examine
  <2>2. rows' = rows
    BY DEF Examine
  <2>3. QED
    BY <1>1, <1>3, <2>1, <2>2, FileInStore
<1>4. QED
  BY <1>2, <1>3

LEMMA EndSyncStore ==
  ASSUME Typed, StoreInv, NEW p \in Procs, EndSync(p), rows' = rows \/ Publish(p)
  PROVE  StoreInv'
<1>1. /\ mine'[p] = {} /\ \A q \in Procs \ {p} : mine'[q] = mine[q]
      /\ overlapped' = overlapped
  BY DEF EndSync, Typed, TypeOK
<1>2. \A v \in Uids : /\ rows[v] \in Nat
                      /\ rows'[v] > 0 => rows[v] > 0 \/ v \in mine[p]
                      /\ v \notin mine[p] => rows'[v] = rows[v]
                      /\ rows'[v] \in {rows[v], rows[v] + 1}
  BY DEF Publish, Typed, TypeOK
<1>3. ASSUME NEW u \in Uids \ overlapped, NEW v \in Uids \ overlapped,
             Same(u, v), rows'[u] > 0, rows'[v] > 0
      PROVE  u = v /\ rows'[u] = 1
  <2>1. Same(v, u) /\ Same(u, u) /\ Same(v, v)
    BY <1>3, SameIsSymmetric
  <2>2. CASE rows[u] > 0
    <3>1. u \notin mine[p] /\ v \notin mine[p]
      BY <2>1, <2>2, <1>3 DEF StoreInv
    <3>2. rows[v] > 0 /\ rows'[u] = rows[u]
      BY <1>2, <1>3, <3>1
    <3>3. QED
      BY <1>3, <2>2, <3>2 DEF StoreInv, StoredOnce
  <2>3. CASE ~(rows[u] > 0)
    <3>1. u \in mine[p] /\ rows'[u] = 1
      BY <1>2, <1>3, <2>3
    <3>2. ~(rows[v] > 0)
      BY <1>3, <3>1 DEF StoreInv
    <3>3. v \in mine[p]
      BY <1>2, <1>3, <3>2
    <3>4. QED
      BY <1>3, <3>1, <3>3 DEF StoreInv
  <2>4. QED
    BY <2>2, <2>3
<1>4. StoredOnce'
  BY <1>1, <1>3 DEF StoredOnce
<1>5. ASSUME NEW q \in Procs, NEW u \in mine'[q], NEW v \in Uids, Same(u, v), rows'[v] > 0
      PROVE  u \in overlapped' /\ v \in overlapped'
  <2>1. q # p /\ u \in mine[q]
    BY <1>1, <1>5
  <2>2. CASE rows[v] > 0
    BY <1>1, <1>5, <2>1, <2>2 DEF StoreInv
  <2>3. CASE v \in mine[p]
    BY <1>1, <1>5, <2>1, <2>3 DEF StoreInv
  <2>4. QED
    BY <1>2, <1>5, <2>2, <2>3
<1>6. \A q \in Procs : mine'[q] \subseteq mine[q]
  BY <1>1
<1>7. QED
  BY <1>1, <1>4, <1>5, <1>6 DEF StoreInv

LEMMA StepStore == Typed /\ StoreInv /\ [Next]_vars => StoreInv'
<1> SUFFICES ASSUME Typed, StoreInv, [Next]_vars PROVE StoreInv'
  OBVIOUS
<1>1. CASE UNCHANGED inboxVars
  BY <1>1, StoreStays DEF inboxVars
<1>2. CASE \/ Arrive \/ \E o \in Mails : Log(o) \/ Persist(o) \/ Attribute(o)
           \/ \E p \in Procs : \/ SendFails(p) \/ FetchFails(p) \/ Fetch(p)
                               \/ \E o \in Mails : Send(p, o)
  BY <1>2, StoreStays DEF Arrive, Log, Persist, Attribute, SendFails, FetchFails, Fetch, Send, inboxVars
<1>3. ASSUME NEW p \in Procs, SyncCommit(p) PROVE StoreInv'
  BY <1>3, EndSyncStore DEF SyncCommit
<1>4. ASSUME NEW p \in Procs, SyncAborts(p) PROVE StoreInv'
  BY <1>4, EndSyncStore DEF SyncAborts
<1>5. CASE InboxNext
  BY <1>2, <1>3, <1>4, <1>5, ExamineStore DEF InboxNext
<1>6. QED
  BY <1>1, <1>5 DEF Next, vars

\* A letter has two rows only if two synchronisations had it in open transactions
\* at once: syncs one after the other never store it again.
THEOREM LettersAreStoredOnce == Spec => []StoredOnce
<1>1. Init => Typed /\ StoreInv
  <2>1. Init => StoreInv
    BY DEF Init, InboxInit, StoreInv, StoredOnce
  <2>2. QED
    BY <2>1, InitTyped
<1>2. Typed /\ StoreInv /\ [Next]_vars => Typed' /\ StoreInv'
  BY StepTyped, StepStore
<1>3. StoreInv => StoredOnce
  BY DEF StoreInv
<1>4. QED
  BY <1>1, <1>2, <1>3, PTL DEF Spec

-----------------------------------------------------------------------------
(* A reply that is stored marks its contact.                               *)

\* A thread that nobody else has had is linked to the contact of its address, if
\* to any.
OwnThread(row) == row # NoThread => row.contact \in {Nobody, row.email}
ThreadsAreOwn ==
  \A t \in ThreadIds \ mixed :
    OwnThread(threads[t]) /\ \A q \in Procs : OwnThread(draft[q][t])

\* Mails that name the contact they are addressed to, as every campaign's does.
Addressed == {o \in Mails : For[o] = To[o]}

\* The thread of such a mail is linked to that contact.
ThreadOf(row, o) == row # NoThread => row.contact = To[o]
MailsAreLinked ==
  \A o \in Addressed : out[o] \in {"stored", "attributed"} /\ outThread[o] \notin mixed =>
    /\ ThreadOf(threads[outThread[o]], o)
    /\ \A q \in Procs : ThreadOf(draft[q][outThread[o]], o)

\* Before its commit a session has noticed the answers among its letters.
AnswersAreNoticed ==
  \A p \in Procs : \A u \in mine[p] :
    Awaited(u) => Letters[u].from \in noticed[p] \/ u \in early \cup crossed

ReplyInv == RepliesAreNoticed /\ ThreadsAreOwn /\ MailsAreLinked /\ AnswersAreNoticed

LEMMA RepliesStay ==
  ASSUME ReplyInv, UNCHANGED <<rows, threads, replied, outThread, mine, draft, noticed, early, mixed,
                               crossed>>,
         \A o \in Mails : out'[o] \in {"stored", "attributed"} => out[o] \in {"stored", "attributed"}
  PROVE  ReplyInv'
<1>1. RepliesAreNoticed' /\ ThreadsAreOwn' /\ AnswersAreNoticed'
  BY DEF ReplyInv, RepliesAreNoticed, ThreadsAreOwn, AnswersAreNoticed, OwnThread
<1>2. MailsAreLinked'
  BY DEF ReplyInv, MailsAreLinked, ThreadOf, Addressed
<1>3. QED
  BY <1>1, <1>2 DEF ReplyInv

\* A query finds threads that are there, or the one that is new is used by no one.
LEMMA OrNewFinds ==
  ASSUME NEW found, NEW t \in OrNew(found), t \notin found
  PROVE  t \in Unused
<1>1. Unused # {} /\ t = Min(Unused)
  BY DEF OrNew
<1>2. Unused \in SUBSET Nat
  BY IdsAreTyped DEF Unused
<1>3. QED
  BY <1>1, <1>2, MinOfUids

LEMMA AddressedMails ==
  /\ Addressed \subseteq Mails /\ Mails \ Manual \subseteq Addressed
  /\ \A o \in Addressed : For[o] = To[o] /\ To[o] \in People /\ To[o] # Nobody
  /\ \A u : Awaited(u) <=> Answers(u) /\ Letters[u].re \in Addressed /\ Letters[u].from = To[Letters[u].re]
BY InboxAssumption DEF Addressed, Awaited, Answers

\* The thread a mail's message goes to is linked to whom the mail is for, or else
\* someone else has it from now on.
LEMMA PersistReplies ==
  ASSUME Typed, ReplyInv, NEW o \in Mails, Persist(o)
  PROVE  ReplyInv'
<1>1. PICK t \in OutboundThreads(o), linked \in Known \cup {Nobody} :
        /\ t \in ThreadIds
        /\ linked = IF threads[t] # NoThread /\ threads[t].contact # Nobody
                    THEN threads[t].contact ELSE For[o]
        /\ \A q \in Procs : draft[q][t] = NoThread
        /\ threads' = [threads EXCEPT ![t] = [email |-> To[o], contact |-> linked]]
        /\ out' = [out EXCEPT ![o] = "stored"]
        /\ outThread' = [outThread EXCEPT ![o] = t]
        /\ mixed' = MixedBy(t, linked, To[o])
  BY PersistFacts
<1>2. UNCHANGED <<rows, replied, mine, draft, noticed, early, crossed>>
  BY DEF Persist
<1>3. mixed \subseteq mixed' /\ (t \notin mixed' => linked \in {Nobody, To[o]})
  BY <1>1, MixedByAdds
<1>4. threads'[t] = [email |-> To[o], contact |-> linked]
      /\ \A x \in ThreadIds \ {t} : threads'[x] = threads[x]
  BY <1>1 DEF Typed, TypeOK
<1>5. ThreadsAreOwn'
  <2>1. ASSUME NEW x \in ThreadIds \ mixed' PROVE OwnThread(threads'[x])
    BY <1>3, <1>4 DEF ReplyInv, ThreadsAreOwn, OwnThread
  <2>2. QED
    BY <1>2, <1>3, <2>1 DEF ReplyInv, ThreadsAreOwn, OwnThread
<1>6. ASSUME NEW b \in Addressed, out'[b] \in {"stored", "attributed"}, outThread'[b] \notin mixed'
      PROVE  /\ ThreadOf(threads'[outThread'[b]], b)
             /\ \A q \in Procs : ThreadOf(draft'[q][outThread'[b]], b)
  <2> b \in Mails /\ For[b] = To[b] /\ To[b] # Nobody
    BY AddressedMails
  <2>1. CASE b = o
    <3>1. outThread'[b] = t
      BY <1>1, <2>1 DEF Typed, TypeOK
    <3>2. linked # Nobody
      BY <1>1, <2>1
    <3>3. ThreadOf(threads'[t], b)
      BY <1>3, <1>4, <1>6, <2>1, <3>1, <3>2 DEF ThreadOf
    <3>4. \A q \in Procs : ThreadOf(draft'[q][t], b)
      BY <1>1, <1>2 DEF ThreadOf
    <3>5. QED
      BY <3>1, <3>3, <3>4
  <2>2. CASE b # o
    <3>1. outThread'[b] = outThread[b] /\ out'[b] = out[b]
      BY <1>1, <2>2 DEF Typed, TypeOK
    <3>2. /\ outThread[b] \in ThreadIds /\ threads[outThread[b]] # NoThread
      BY <1>6, <3>1 DEF Typed, MessagesAreFiled
    <3>3. ThreadOf(threads[outThread[b]], b) /\ \A q \in Procs : ThreadOf(draft[q][outThread[b]], b)
      BY <1>3, <1>6, <3>1 DEF ReplyInv, MailsAreLinked
    <3>4. CASE outThread[b] = t
      <4>1. threads[t].contact = To[b]
        BY <3>2, <3>3, <3>4 DEF ThreadOf
      <4>2. linked = To[b]
        BY <1>1, <3>2, <3>4, <4>1
      <4>3. QED
        BY <1>2, <1>4, <3>1, <3>3, <3>4, <4>2 DEF ThreadOf
    <3>5. CASE outThread[b] # t
      BY <1>2, <1>4, <3>1, <3>2, <3>3, <3>5
    <3>6. QED
      BY <3>4, <3>5
  <2>3. QED
    BY <2>1, <2>2
<1>7. MailsAreLinked'
  BY <1>2, <1>6 DEF MailsAreLinked
<1>8. RepliesAreNoticed' /\ AnswersAreNoticed'
  BY <1>2 DEF ReplyInv, RepliesAreNoticed, AnswersAreNoticed
<1>9. QED
  BY <1>5, <1>7, <1>8 DEF ReplyInv

LEMMA FileInReplies ==
  ASSUME Typed, ReplyInv, NEW p \in Procs, NEW u \in Uids, NEW t \in Resolve(p, u), t \in ThreadIds,
         FileIn(p, u, t), UNCHANGED <<rows, threads, replied, out, outThread>>
  PROVE  ReplyInv'
<1> DEFINE from == Letters[u].from
           contact == ContactOfThread(p, u, t)
           old == View(p)[t]
<1>1. /\ mixed \subseteq mixed' /\ early \subseteq early' /\ crossed \subseteq crossed'
      /\ contact \notin {Nobody, from} => t \in mixed'
      /\ t \in mixed => u \in crossed'
      /\ ByLog(p, u) => u \in early'
  BY MixedByAdds DEF FileIn
<1>2. /\ draft'[p][t] = [email |-> from, contact |-> contact]
      /\ \A x \in ThreadIds \ {t} : draft'[p][x] = draft[p][x]
      /\ \A q \in Procs \ {p} : draft'[q] = draft[q]
  BY DEF FileIn, Typed, TypeOK
<1>3. /\ mine'[p] = mine[p] \cup {u}
      /\ noticed'[p] = noticed[p] \cup ({contact} \ {Nobody})
      /\ \A q \in Procs \ {p} : mine'[q] = mine[q] /\ noticed'[q] = noticed[q]
  BY DEF FileIn, Typed, TypeOK
<1>4. RepliesAreNoticed'
  BY <1>1 DEF ReplyInv, RepliesAreNoticed
<1>5. ThreadsAreOwn'
  <2>1. ASSUME NEW x \in ThreadIds \ mixed', NEW q \in Procs PROVE OwnThread(draft'[q][x])
    <3>1. CASE q = p /\ x = t
      BY <1>1, <1>2, <3>1 DEF OwnThread
    <3>2. CASE ~(q = p /\ x = t)
      <4>1. draft'[q][x] = draft[q][x] /\ x \notin mixed
        BY <1>1, <1>2, <3>2
      <4>2. QED
        BY <4>1 DEF ReplyInv, ThreadsAreOwn
    <3>3. QED
      BY <3>1, <3>2
  <2>2. \A x \in ThreadIds \ mixed' : OwnThread(threads'[x])
    BY <1>1 DEF ReplyInv, ThreadsAreOwn, OwnThread
  <2>3. QED
    BY <2>1, <2>2 DEF ThreadsAreOwn, OwnThread
<1>6. ASSUME NEW o \in Addressed, out[o] \in {"stored", "attributed"}, outThread[o] = t, t \notin mixed
      PROVE  old # NoThread /\ old.contact = To[o] /\ contact = To[o]
  <2>1. ThreadOf(threads[t], o) /\ ThreadOf(draft[p][t], o) /\ threads[t] # NoThread
    BY <1>6 DEF ReplyInv, MailsAreLinked, Typed, MessagesAreFiled, Addressed
  <2>2. old # NoThread /\ old.contact = To[o]
    BY <2>1 DEF View, ThreadOf
  <2>3. To[o] # Nobody
    BY AddressedMails
  <2>4. QED
    BY <2>2, <2>3 DEF ContactOfThread
<1>7. MailsAreLinked'
  <2>1. ASSUME NEW o \in Addressed, out[o] \in {"stored", "attributed"}, outThread[o] \notin mixed'
        PROVE  /\ ThreadOf(threads[outThread[o]], o)
               /\ \A q \in Procs : ThreadOf(draft'[q][outThread[o]], o)
    <3>1. ThreadOf(threads[outThread[o]], o) /\ \A q \in Procs : ThreadOf(draft[q][outThread[o]], o)
      BY <1>1, <2>1 DEF ReplyInv, MailsAreLinked
    <3>2. outThread[o] \in ThreadIds
      BY <2>1 DEF Typed, MessagesAreFiled, Addressed
    <3>3. CASE outThread[o] = t
      BY <1>1, <1>2, <1>6, <2>1, <3>1, <3>3 DEF ThreadOf
    <3>4. CASE outThread[o] # t
      BY <1>2, <3>1, <3>2, <3>4
    <3>5. QED
      BY <3>3, <3>4
  <2>2. QED
    BY <2>1 DEF MailsAreLinked, ThreadOf
<1>8. Awaited(u) => from \in noticed'[p] \/ u \in early' \cup crossed'
  <2> SUFFICES ASSUME Awaited(u), t \notin mixed, ~ByLog(p, u) PROVE from \in noticed'[p]
    BY <1>1
  <2> DEFINE o == Letters[u].re
  <2>1. /\ o \in Addressed /\ o \in Mails /\ Answers(u) /\ from = To[o]
        /\ from \in Known /\ from # Nobody
    BY AddressedMails, InboxAssumption DEF Awaited, Answers
  <2>2. contact = from
    <3>1. CASE ByMessage(p, u)
      <4>1. Referred(p, u) = {outThread[o]} \ {0}
        BY <2>1, InboxAssumption DEF Referred, ThreadsWith
      <4>2. t = outThread[o] /\ outThread[o] # 0
        BY <3>1, <4>1 DEF Resolve
      <4>3. out[o] \in {"stored", "attributed"}
        BY <2>1, <4>2 DEF Typed, MessagesAreFiled
      <4>4. QED
        BY <1>6, <2>1, <4>2, <4>3
    <3>2. CASE ~ByMessage(p, u)
      <4>1. t \in OrNew(ForAddress(View(p), from))
        BY <3>2 DEF Resolve
      <4>2. CASE t \in ForAddress(View(p), from)
        <5>1. old # NoThread /\ old.email = from
          BY <4>2 DEF ForAddress
        <5>2. OwnThread(old)
          BY DEF ReplyInv, ThreadsAreOwn, View
        <5>3. old.contact \in {Nobody, from}
          BY <5>1, <5>2 DEF OwnThread
        <5>4. QED
          BY <2>1, <3>2, <5>1, <5>3 DEF ContactOfThread
      <4>3. CASE t \notin ForAddress(View(p), from)
        <5>1. t \in Unused
          BY <4>1, <4>3, OrNewFinds
        <5>2. old = NoThread
          BY <5>1 DEF Unused, View
        <5>3. QED
          BY <2>1, <3>2, <5>2 DEF ContactOfThread
      <4>4. QED
        BY <4>2, <4>3
    <3>3. QED
      BY <3>1, <3>2
  <2>3. QED
    BY <1>3, <2>1, <2>2
<1>9. AnswersAreNoticed'
  <2>1. ASSUME NEW q \in Procs, NEW v \in mine'[q], Awaited(v)
        PROVE  Letters[v].from \in noticed'[q] \/ v \in early' \cup crossed'
    <3>1. CASE q = p /\ v = u
      BY <1>8, <2>1, <3>1
    <3>2. CASE ~(q = p /\ v = u)
      <4>1. v \in mine[q] /\ noticed[q] \subseteq noticed'[q]
        BY <1>3, <2>1, <3>2
      <4>2. QED
        BY <1>1, <2>1, <4>1 DEF ReplyInv, AnswersAreNoticed
    <3>3. QED
      BY <3>1, <3>2
  <2>2. QED
    BY <2>1 DEF AnswersAreNoticed, Awaited, Answers
<1>10. QED
  BY <1>4, <1>5, <1>7, <1>9 DEF ReplyInv

LEMMA ExamineReplies ==
  ASSUME Typed, ReplyInv, NEW p \in Procs, Examine(p)
  PROVE  ReplyInv'
<1> PICK u : u = Min(todo[p])
  OBVIOUS
<1>1. u \in Uids
  BY NextLetter DEF Examine, Typed
<1>2. CASE Stored(p, u)
  BY <1>2, RepliesStay DEF Examine
<1>3. CASE ~Stored(p, u)
  <2>1. PICK t \in Resolve(p, u) : FileIn(p, u, t)
    BY <1>3 DEF Examine
  <2>2. t \in ThreadIds
    BY <1>1, ResolveType DEF Typed
  <2>3. UNCHANGED <<rows, threads, replied, out, outThread>>
    BY DEF Examine
  <2>4. QED
    BY <1>1, <2>1, <2>2, <2>3, FileInReplies
<1>4. QED
  BY <1>2, <1>3

LEMMA EndSyncReplies ==
  ASSUME Typed, ReplyInv, NEW p \in Procs, EndSync(p),
         UNCHANGED <<rows, threads, replied, inThreads>> \/ Publish(p)
  PROVE  ReplyInv'
<1>1. UNCHANGED <<out, outThread, early, mixed, crossed>>
  BY DEF EndSync
<1>2. /\ \A q \in Procs \ {p} : mine'[q] = mine[q] /\ noticed'[q] = noticed[q] /\ draft'[q] = draft[q]
      /\ mine'[p] = {} /\ draft'[p] = Untouched
  BY DEF EndSync, Typed, TypeOK
<1>3. \A t \in ThreadIds : threads'[t] \in {threads[t], draft[p][t]}
  BY DEF Publish, View
<1>4. \A q \in Procs, t \in ThreadIds : draft'[q][t] \in {draft[q][t], NoThread}
  BY <1>2 DEF Untouched
<1>5. ThreadsAreOwn'
  <2>1. ASSUME NEW t \in ThreadIds \ mixed
        PROVE  OwnThread(threads'[t]) /\ \A q \in Procs : OwnThread(draft'[q][t])
    BY <1>3, <1>4 DEF ReplyInv, ThreadsAreOwn, OwnThread
  <2>2. QED
    BY <1>1, <2>1 DEF ThreadsAreOwn, OwnThread
<1>6. MailsAreLinked'
  <2>1. ASSUME NEW o \in Addressed, out[o] \in {"stored", "attributed"}, outThread[o] \notin mixed
        PROVE  /\ ThreadOf(threads'[outThread[o]], o)
               /\ \A q \in Procs : ThreadOf(draft'[q][outThread[o]], o)
    <3>1. outThread[o] \in ThreadIds
      BY <2>1 DEF Typed, MessagesAreFiled, Addressed
    <3>2. QED
      BY <1>3, <1>4, <2>1, <3>1 DEF ReplyInv, MailsAreLinked, ThreadOf
  <2>2. QED
    BY <1>1, <2>1 DEF MailsAreLinked, ThreadOf
<1>7. AnswersAreNoticed'
  BY <1>1, <1>2 DEF ReplyInv, AnswersAreNoticed
<1>8. RepliesAreNoticed'
  <2>1. ASSUME NEW u \in Uids, rows'[u] > 0, Awaited(u)
        PROVE  Letters[u].from \in replied' \/ u \in early \cup crossed
    <3>1. replied \subseteq replied'
      BY DEF Publish
    <3>2. CASE rows[u] > 0
      BY <2>1, <3>1, <3>2 DEF ReplyInv, RepliesAreNoticed, Awaited
    <3>3. CASE ~(rows[u] > 0)
      <4>1. Publish(p) /\ u \in mine[p]
        BY <2>1, <3>3 DEF Publish
      <4>2. QED
        BY <2>1, <4>1 DEF Publish, ReplyInv, AnswersAreNoticed
    <3>4. QED
      BY <3>2, <3>3
  <2>2. QED
    BY <1>1, <2>1 DEF RepliesAreNoticed, Awaited, Answers
<1>9. QED
  BY <1>5, <1>6, <1>7, <1>8 DEF ReplyInv

LEMMA StepReplies == Typed /\ ReplyInv /\ [Next]_vars => ReplyInv'
<1> SUFFICES ASSUME Typed, ReplyInv, [Next]_vars PROVE ReplyInv'
  OBVIOUS
<1>1. CASE UNCHANGED inboxVars
  BY <1>1, RepliesStay DEF inboxVars
<1>2. CASE Arrive \/ \E p \in Procs : SendFails(p) \/ FetchFails(p) \/ Fetch(p)
  BY <1>2, RepliesStay DEF Arrive, SendFails, FetchFails, Fetch, inboxVars
<1>3. ASSUME NEW o \in Mails, Log(o) \/ Attribute(o) \/ \E p \in Procs : Send(p, o) PROVE ReplyInv'
  <2>1. \A b \in Mails : out'[b] \in {"stored", "attributed"} => out[b] \in {"stored", "attributed"}
    BY <1>3 DEF Log, Attribute, Send, Sent, Typed, TypeOK
  <2>2. QED
    BY <1>3, <2>1, RepliesStay DEF Log, Attribute, Send
<1>4. ASSUME NEW p \in Procs, SyncCommit(p) PROVE ReplyInv'
  BY <1>4, EndSyncReplies DEF SyncCommit
<1>5. ASSUME NEW p \in Procs, SyncAborts(p) PROVE ReplyInv'
  BY <1>5, EndSyncReplies DEF SyncAborts
<1>6. CASE InboxNext
  BY <1>2, <1>3, <1>4, <1>5, <1>6, PersistReplies, ExamineReplies DEF InboxNext
<1>7. QED
  BY <1>1, <1>6 DEF Next, vars

LEMMA InitReplies == Init => ReplyInv
<1> SUFFICES ASSUME Init PROVE ReplyInv
  OBVIOUS
<1>1. /\ \A u \in Uids : rows[u] = 0
      /\ \A t \in ThreadIds : threads[t] = NoThread /\ \A q \in Procs : draft[q][t] = NoThread
      /\ \A o \in Mails : out[o] = "none"
      /\ \A p \in Procs : mine[p] = {}
  BY DEF Init, InboxInit, Untouched
<1>2. QED
  BY <1>1 DEF ReplyInv, RepliesAreNoticed, ThreadsAreOwn, MailsAreLinked, AnswersAreNoticed, OwnThread,
     Addressed

\* The answer of the contact a mail was sent to, once stored, marks the contact,
\* unless the mail was only logged when the answer came, or the thread had passed
\* from its contact to another address, by a letter of someone else or by a mail to
\* someone else that referred to one of its messages.
THEOREM StoredRepliesAreNoticed == Spec => []RepliesAreNoticed
<1>1. Init => Typed /\ ReplyInv
  BY InitTyped, InitReplies
<1>2. Typed /\ ReplyInv /\ [Next]_vars => Typed' /\ ReplyInv'
  BY StepTyped, StepReplies
<1>3. ReplyInv => RepliesAreNoticed
  BY DEF ReplyInv
<1>4. QED
  BY <1>1, <1>2, <1>3, PTL DEF Spec

-----------------------------------------------------------------------------
(* Synchronisations one after the other.                                   *)

Syncing(p) == pc[p] \in {"sync", "fetch", "filing"}

\* What the deployment would have to see to: the task and the page take turns.
OneSyncAtATime == \A p, q \in Procs : Syncing(p) /\ Syncing(q) => p = q

EachLetterOnce ==
  \A u, v \in Uids : Same(u, v) /\ rows[u] > 0 /\ rows[v] > 0 => u = v /\ rows[u] = 1

MarkMovesForward == mailbox.mark <= mailbox'.mark

\* The one synchronisation there is works from the watermark on file.
SoleInv ==
  /\ overlapped = {}
  /\ \A p \in Procs : Syncing(p) => seen[p].mark = mailbox.mark
  /\ \A p \in Procs : pc[p] = "filing" => seen[p].mark <= last[p]

\* A session that synchronises after a step of the access side did so before, or
\* has just loaded the mailbox.
LEMMA AccessKeepsSyncing ==
  ASSUME AccessTypeOK, AccessNext, NEW r \in Procs, Syncing(r)'
  PROVE  Syncing(r) \/ seen'[r].mark = mailbox'.mark
<1> DEFINE Kept == Syncing(r) \/ seen'[r].mark = mailbox'.mark
<1> USE DEF Syncing
<1>1. CASE TokenExpires
  BY <1>1 DEF TokenExpires
<1>2. ASSUME NEW p \in Procs, Callback(p) PROVE Kept
  BY <1>2 DEF Callback, Request, AccessTypeOK
<1>3. ASSUME NEW p \in Procs, Exchanged(p) PROVE Kept
  BY <1>3 DEF Exchanged, AccessTypeOK
<1>4. ASSUME NEW p \in Procs, ExchangeFails(p) PROVE Kept
  BY <1>4 DEF ExchangeFails, AccessTypeOK
<1>5. ASSUME NEW p \in Procs, Disconnect(p) PROVE Kept
  BY <1>5 DEF Disconnect
<1>6. ASSUME NEW p \in Procs, NEW use \in Uses, Load(p, use) PROVE Kept
  BY <1>6 DEF Load, Uses, Request, AccessTypeOK
<1>7. ASSUME NEW p \in Procs, NeedsReauth(p) PROVE Kept
  BY <1>7 DEF NeedsReauth, AccessTypeOK
<1>8. ASSUME NEW p \in Procs, UseToken(p) PROVE Kept
  BY <1>8 DEF UseToken, Asking, NextStage, AccessTypeOK
<1>9. ASSUME NEW p \in Procs, Refreshed(p) PROVE Kept
  BY <1>9 DEF Refreshed, Asking, NextStage, AccessTypeOK
<1>10. ASSUME NEW p \in Procs, RefreshFails(p) PROVE Kept
  BY <1>10 DEF RefreshFails, AccessTypeOK
<1>11. ASSUME NEW p \in Procs, CheckDone(p) PROVE Kept
  BY <1>11 DEF CheckDone, AccessTypeOK
<1>12. ASSUME NEW p \in Procs, SetStatus(p) \/ SetProvider(p) PROVE Kept
  BY <1>12 DEF SetStatus, SetProvider
<1>13. ASSUME NEW p \in Procs, CheckBreaks(p) PROVE Kept
  BY <1>13 DEF CheckBreaks, AccessTypeOK
<1>14. QED
  BY <1>1, <1>2, <1>3, <1>4, <1>5, <1>6, <1>7, <1>8, <1>9, <1>10, <1>11, <1>12, <1>13
     DEF AccessNext

LEMMA AccessSole ==
  ASSUME Typed, SoleInv, AccessNext, UNCHANGED inboxVars
  PROVE  SoleInv' /\ MarkMovesForward
<1>1. AccessTypeOK /\ overlapped' = overlapped /\ last' = last
  BY DEF Typed, TypeOK, inboxVars
<1>2. /\ mailbox'.mark = mailbox.mark /\ mailbox.mark \in 0 .. MaxUid
      /\ \A p \in Procs : seen'[p].mark \in {seen[p].mark, mailbox.mark}
      /\ \A p \in Procs : pc'[p] = "filing" => pc[p] = "filing"
  BY <1>1, AccessKeepsFiling DEF AccessTypeOK, MailboxRow
<1>3. ASSUME NEW p \in Procs, Syncing(p)' PROVE seen'[p].mark = mailbox'.mark
  BY <1>1, <1>2, <1>3, AccessKeepsSyncing DEF SoleInv
<1>4. ASSUME NEW p \in Procs, pc'[p] = "filing" PROVE seen'[p].mark <= last'[p]
  BY <1>1, <1>2, <1>4 DEF SoleInv, Syncing
<1>5. MarkMovesForward
  BY <1>2, AccessAssumption DEF MarkMovesForward
<1>6. QED
  BY <1>1, <1>3, <1>4, <1>5 DEF SoleInv

\* The letters of a session that is filing are in no other transaction.
LEMMA ExamineSole ==
  ASSUME Typed, MarkInv, SoleInv, OneSyncAtATime, NEW p \in Procs, Examine(p)
  PROVE  SoleInv' /\ MarkMovesForward
<1>1. UNCHANGED <<pc, seen, mailbox>> /\ pc[p] = "filing"
  BY DEF Examine, accessVars
<1>2. \A q \in Procs \ {p} : mine[q] = {}
  BY <1>1 DEF OneSyncAtATime, Syncing, Typed, OpenWhileFiling
<1>3. overlapped' = {}
  <2>1. CASE overlapped' = overlapped
    BY <2>1 DEF SoleInv
  <2>2. ASSUME NEW t, FileIn(p, Min(todo[p]), t) PROVE overlapped' = {}
    BY <1>2, <2>2 DEF FileIn, SoleInv
  <2>3. QED
    BY <2>1, <2>2 DEF Examine
<1>4. last[p] <= last'[p] /\ \A q \in Procs \ {p} : last'[q] = last[q]
  <2>1. Min(todo[p]) \in todo[p] /\ Min(todo[p]) \in Uids
    BY NextLetter DEF Examine, Typed
  <2>2. last[p] < Min(todo[p]) /\ last[p] \in 0 .. MaxUid
    BY <1>1, <2>1 DEF MarkInv, Progress, Typed, TypeOK
  <2>3. last'[p] = Min(todo[p]) /\ \A q \in Procs \ {p} : last'[q] = last[q]
    BY DEF Examine, Typed, TypeOK
  <2>4. last[p] \in Nat /\ Min(todo[p]) \in Nat
    BY <2>1, <2>2, IdsAreTyped
  <2>5. QED
    BY <2>2, <2>3, <2>4
<1>5. ASSUME NEW q \in Procs, pc'[q] = "filing" PROVE seen'[q].mark <= last'[q]
  <2>1. seen[q].mark <= last[q] /\ seen[q].mark \in Nat /\ last[q] \in Nat
    BY <1>1, <1>5, IdsAreTyped DEF SoleInv, Typed, TypeOK, AccessTypeOK, MailboxRow
  <2>2. CASE q # p
    BY <1>1, <1>4, <2>1, <2>2
  <2>3. CASE q = p
    <3>1. last'[q] \in Nat
      BY <2>3, NextLetter, IdsAreTyped DEF Examine, Typed, TypeOK
    <3>2. QED
      BY <1>1, <1>4, <2>1, <2>3, <3>1
  <2>4. QED
    BY <2>2, <2>3
<1>6. MarkMovesForward
  BY <1>1, IdsAreTyped DEF MarkMovesForward, Typed, TypeOK, AccessTypeOK, MailboxRow
<1>7. QED
  BY <1>1, <1>3, <1>5, <1>6 DEF SoleInv, Syncing

\* The watermark a synchronisation leaves is its own last letter, or the one there is.
LEMMA EndSyncSole ==
  ASSUME Typed, SoleInv, OneSyncAtATime, NEW p \in Procs, pc[p] = "filing", EndSync(p),
         mailbox' \in {mailbox, [mailbox EXCEPT !.mark = Mark(p)]}
  PROVE  SoleInv' /\ MarkMovesForward
<1>1. /\ seen' = seen /\ overlapped' = overlapped
      /\ pc' = [pc EXCEPT ![p] = "idle"] /\ last' = [last EXCEPT ![p] = 0]
  BY DEF EndSync
<1>2. \A q \in Procs : ~Syncing(q)'
  BY <1>1 DEF OneSyncAtATime, Syncing, Typed, TypeOK, AccessTypeOK
<1>3. SoleInv'
  BY <1>1, <1>2 DEF SoleInv, Syncing
<1>4. seen[p].mark = mailbox.mark /\ mailbox.mark <= last[p] /\ mailbox.mark \in Nat /\ mailbox \in MailboxRow
  BY IdsAreTyped DEF SoleInv, Syncing, Typed, TypeOK, AccessTypeOK, MailboxRow
<1>5. Mark(p) \in {last[p], mailbox.mark}
  BY <1>4 DEF Mark, Column
<1>6. MarkMovesForward
  BY <1>4, <1>5 DEF MarkMovesForward, MailboxRow
<1>7. QED
  BY <1>3, <1>6

LEMMA StepSole ==
  Typed /\ MarkInv /\ SoleInv /\ OneSyncAtATime /\ [Next]_vars => SoleInv' /\ MarkMovesForward
<1> SUFFICES ASSUME Typed, MarkInv, SoleInv, OneSyncAtATime, [Next]_vars
             PROVE  SoleInv' /\ MarkMovesForward
  OBVIOUS
<1>1. mailbox.mark \in Nat /\ MarkInv
  BY IdsAreTyped DEF Typed, TypeOK, AccessTypeOK, MailboxRow
<1>2. CASE UNCHANGED vars
  BY <1>1, <1>2 DEF vars, accessVars, inboxVars, SoleInv, Syncing, MarkMovesForward
<1>3. CASE AccessNext /\ UNCHANGED inboxVars
  BY <1>3, AccessSole
<1>4. CASE \/ Arrive \/ \E o \in Mails : Log(o) \/ Persist(o) \/ Attribute(o)
  BY <1>1, <1>4 DEF Arrive, Log, Persist, Attribute, accessVars, SoleInv, Syncing, MarkMovesForward
<1>5. ASSUME NEW p \in Procs, NEW o \in Mails, Send(p, o) PROVE SoleInv' /\ MarkMovesForward
  BY <1>1, <1>5 DEF Send, SoleInv, Syncing, MarkMovesForward, Typed, TypeOK, AccessTypeOK
<1>6. ASSUME NEW p \in Procs, SendFails(p) \/ FetchFails(p) PROVE SoleInv' /\ MarkMovesForward
  <2>1. pc' = [pc EXCEPT ![p] = "idle"] /\ UNCHANGED <<mailbox, seen, overlapped, last>>
    BY <1>6 DEF SendFails, FetchFails, inboxVars
  <2>2. \A q \in Procs : (Syncing(q)' => Syncing(q)) /\ (pc'[q] = "filing" => pc[q] = "filing")
    BY <2>1 DEF Syncing, Typed, TypeOK, AccessTypeOK
  <2>3. QED
    BY <1>1, <2>1, <2>2 DEF SoleInv, MarkMovesForward
<1>7. ASSUME NEW p \in Procs, Fetch(p) PROVE SoleInv' /\ MarkMovesForward
  <2>1. seen[p].mark \in Nat
    BY IdsAreTyped DEF Typed, TypeOK, AccessTypeOK, MailboxRow
  <2>2. /\ pc[p] = "fetch" /\ pc' = [pc EXCEPT ![p] = "filing"]
        /\ last' = [last EXCEPT ![p] = seen[p].mark]
        /\ UNCHANGED <<mailbox, seen, overlapped>>
    BY <1>7 DEF Fetch
  <2>3. \A q \in Procs : Syncing(q)' => Syncing(q)
    BY <2>2 DEF Syncing, Typed, TypeOK, AccessTypeOK
  <2>4. ASSUME NEW q \in Procs, pc'[q] = "filing" PROVE seen'[q].mark <= last'[q]
    BY <2>1, <2>2, <2>4 DEF SoleInv, Typed, TypeOK, AccessTypeOK
  <2>5. QED
    BY <1>1, <2>2, <2>3, <2>4 DEF SoleInv, MarkMovesForward
<1>8. ASSUME NEW p \in Procs, Examine(p) PROVE SoleInv' /\ MarkMovesForward
  BY <1>8, ExamineSole
<1>9. ASSUME NEW p \in Procs, SyncCommit(p) \/ SyncAborts(p) PROVE SoleInv' /\ MarkMovesForward
  BY <1>9, EndSyncSole DEF SyncCommit, SyncAborts
<1>10. QED
  BY <1>2, <1>3, <1>4, <1>5, <1>6, <1>7, <1>8, <1>9 DEF Next, InboxNext

\* Where synchronisations take turns, each letter is stored once, whatever is lost,
\* fails or is poison, and the watermark never goes back: an overlap is what
\* sync_mailbox_inbox has to fear, and nothing else.
THEOREM OneSyncStoresOnce ==
  Spec /\ []OneSyncAtATime => []EachLetterOnce /\ [][MarkMovesForward]_vars
<1>1. Init => Typed /\ MarkInv /\ StoreInv /\ SoleInv
  <2>1. Init => StoreInv
    BY DEF Init, InboxInit, StoreInv, StoredOnce
  <2>2. Init => SoleInv
    BY DEF Init, AccessInit, InboxInit, SoleInv, Syncing
  <2>3. QED
    BY <2>1, <2>2, InitTyped, InitMark
<1>2. Typed /\ MarkInv /\ StoreInv /\ SoleInv /\ OneSyncAtATime /\ [Next]_vars
        => Typed' /\ MarkInv' /\ StoreInv' /\ SoleInv' /\ [MarkMovesForward]_vars
  BY StepTyped, StepMark, StepStore, StepSole
<1>3. StoreInv /\ SoleInv => EachLetterOnce
  BY DEF StoreInv, SoleInv, StoredOnce, EachLetterOnce
<1>4. QED
  BY <1>1, <1>2, <1>3, PTL DEF Spec

=============================================================================
