----------------------------- MODULE InboxSync -----------------------------
(***************************************************************************)
(* Synchronisation of a mailbox's inbox with the database: which letters   *)
(* it fetches and stores, the thread each is filed in, the contact it      *)
(* counts as an answer of, and the mails whose answers they are.           *)
(*                                                                         *)
(* Several synchronisations of a mailbox may run at once, from the task    *)
(* that runs every minute and from the page.  Each keeps one transaction   *)
(* open from its first letter to its last.                                 *)
(*                                                                         *)
(* Abstracted: a letter refers to one message at most; of a thread only    *)
(* the address and the contact are kept; which of several threads or       *)
(* messages a query returns, and whether an unlinked thread names a        *)
(* campaign, is left open.  A statement that would wait for a row another  *)
(* session holds is taken to read it after the wait.  The messages of      *)
(* other mailboxes, which a reference may also find, are left out: their   *)
(* mails and letters do to a thread what those of this mailbox do.         *)
(***************************************************************************)
EXTENDS MailboxAccess, FiniteSetsExt

CONSTANTS
  People,      \* addresses that write, or are written to
  Known,       \* those with a row in contacts
  Mails,       \* mails the program sends from this mailbox
  Manual,      \* those that are no campaign's: POST /send-email, warm-up
  To,          \* mail -> whom it is for
  For,         \* mail -> the contact the request names, or Nobody
  Refs,        \* mail -> mails and letters it refers to
  Letters,     \* uid -> [id, from, re]: Message-ID, sender, message referred to
  NoId,        \* a letter without Message-ID
  NoMail,      \* a letter that refers to nothing
  Nobody,      \* no contact: threads.contact_id is NULL
  NoThread,
  Poison,      \* uids of letters that cannot be parsed or stored
  Limit,       \* letters fetched when there is no watermark
  MaxThreads,  \* bound: threads
  MaxFaults    \* bound: fetches and transactions that fail

Uids == 1 .. MaxUid
ThreadIds == 1 .. MaxThreads
ThreadRow == [email : People, contact : Known \cup {Nobody}]
Messages == Mails \cup {u \in Uids : Letters[u].id # NoId}

ASSUME InboxAssumption ==
  /\ Known \subseteq People /\ Nobody \notin People
  /\ Manual \subseteq Mails /\ Mails \cap Uids = {} /\ NoMail \notin Mails \cup Uids
  /\ To \in [Mails -> People] /\ For \in [Mails -> Known \cup {Nobody}]
  /\ Refs \in [Mails -> SUBSET Messages]
  /\ \A o \in Mails \ Manual : For[o] = To[o] /\ Refs[o] = {}
  /\ DOMAIN Letters = Uids
  /\ \A u \in Uids : Letters[u].from \in People /\ Letters[u].re \in Messages \cup {NoMail}
  /\ Poison \subseteq Uids
  /\ NoThread \notin ThreadRow
  /\ Limit \in Nat \ {0} /\ MaxThreads \in Nat /\ MaxFaults \in Nat

VARIABLES
  \* the mailbox at Google
  arrived,     \* letters in the inbox
  \* the database
  rows,        \* inbound messages: uid -> number of rows
  threads,     \* threads: id -> row or NoThread
  replied,     \* contacts with last_replied_at
  out,         \* how far each mail is: sent, logged, its message stored, its log attributed
  outThread,   \* the thread of its message
  inThreads,   \* the threads of a letter's rows
  \* the sessions
  todo,        \* letters fetched and still to be examined
  last,        \* uid of the last one examined
  mine,        \* letters stored and not yet committed
  put,         \* the thread of each of them
  draft,       \* threads written and not yet committed: these rows are locked
  noticed,     \* contacts marked and not yet committed
  \* history
  missed,      \* letters a fetch did not return
  overlapped,  \* letters two open transactions stored
  early,       \* letters filed while the log of their mail named no contact
  mixed,       \* threads of a contact with someone else's address: whom a
               \* letter came from or a mail went to
  crossed,     \* letters filed in such a thread
  faults

inboxVars == <<arrived, rows, threads, replied, out, outThread, inThreads,
               todo, last, mine, put, draft, noticed,
               missed, overlapped, early, mixed, crossed, faults>>
vars == <<accessVars, inboxVars>>

Untouched == [t \in ThreadIds |-> NoThread]
Nowhere == [u \in Uids |-> 0]
Answers(u) == Letters[u].re \in Mails

-----------------------------------------------------------------------------
(* Sending.                                                                *)

Sent(o) == out[o] # "none"

\* The server took the mail; one that refers to another comes after it.
Send(p, o) ==
  /\ pc[p] = "post"
  /\ ~Sent(o)
  /\ \A m \in Refs[o] \cap Mails : Sent(m)
  /\ out' = [out EXCEPT ![o] = "sent"]
  /\ pc' = [pc EXCEPT ![p] = "idle"]
  /\ UNCHANGED <<active, allowed, mailbox, granted, seen, overtaken, statusStale, accessStale, ops>>
  /\ UNCHANGED <<arrived, rows, threads, replied, outThread, inThreads,
                 todo, last, mine, put, draft, noticed, missed, overlapped, early, mixed, crossed,
                 faults>>

SendFails(p) ==
  /\ pc[p] = "post"
  /\ pc' = [pc EXCEPT ![p] = "idle"]
  /\ UNCHANGED <<active, allowed, mailbox, granted, seen, overtaken, statusStale, accessStale, ops>>
  /\ UNCHANGED inboxVars

\* The send log is committed; contact and campaign are not in it yet.
Log(o) ==
  /\ out[o] = "sent"
  /\ out' = [out EXCEPT ![o] = "logged"]
  /\ UNCHANGED accessVars
  /\ UNCHANGED <<arrived, rows, threads, replied, outThread, inThreads,
                 todo, last, mine, put, draft, noticed, missed, overlapped, early, mixed, crossed,
                 faults>>

Unused == {t \in ThreadIds : threads[t] = NoThread /\ \A q \in Procs : draft[q][t] = NoThread}
ForAddress(view, a) == {t \in ThreadIds : view[t] # NoThread /\ view[t].email = a}

\* The threads a query may return: those it finds, or the one then created.
OrNew(found) == IF found # {} \/ Unused = {} THEN found ELSE {Min(Unused)}

Locked(p, t) == \E q \in Procs \ {p} : draft[q][t] # NoThread

\* The same letter by Message-ID, or by uid when it has none.
Same(u, v) == IF Letters[u].id = NoId THEN u = v ELSE Letters[u].id = Letters[v].id

\* The threads the committed rows of a message are in.
ThreadsWith(m) == IF m \in Mails THEN {outThread[m]} \ {0}
                  ELSE UNION {inThreads[v] : v \in {u \in Uids : Same(m, u)}}

\* A mail goes where a message it refers to is, or else to its addressee's thread.
OutboundThreads(o) ==
  LET referred == UNION {ThreadsWith(m) : m \in Refs[o]} IN
  IF referred # {} THEN referred ELSE OrNew(ForAddress(threads, To[o]))

\* Who has t from now on: its contact, if it has one, and the address a.
MixedBy(t, contact, a) == IF contact \in {Nobody, a} THEN mixed ELSE mixed \cup {t}

\* The mail's message is stored; the thread is for its addressee from now on, and
\* linked to the contact the request names if it was linked to none.
Persist(o) ==
  \E t \in OutboundThreads(o) :
    LET linked == IF threads[t] # NoThread /\ threads[t].contact # Nobody
                  THEN threads[t].contact ELSE For[o] IN
    /\ out[o] = "logged"
    /\ \A q \in Procs : draft[q][t] = NoThread
    /\ threads' = [threads EXCEPT ![t] = [email |-> To[o], contact |-> linked]]
    /\ out' = [out EXCEPT ![o] = "stored"]
    /\ outThread' = [outThread EXCEPT ![o] = t]
    /\ mixed' = MixedBy(t, linked, To[o])
    /\ UNCHANGED accessVars
    /\ UNCHANGED <<arrived, rows, replied, inThreads, todo, last, mine, put, draft, noticed,
                   missed, overlapped, early, crossed, faults>>

\* The campaign cycle puts contact and campaign into the log.
Attribute(o) ==
  /\ out[o] = "stored"
  /\ o \notin Manual
  /\ out' = [out EXCEPT ![o] = "attributed"]
  /\ UNCHANGED accessVars
  /\ UNCHANGED <<arrived, rows, threads, replied, outThread, inThreads,
                 todo, last, mine, put, draft, noticed, missed, overlapped, early, mixed, crossed,
                 faults>>

-----------------------------------------------------------------------------
(* Fetching.                                                               *)

\* The next letter comes; an answer comes after the mail, while other people's
\* letters may come in any order.
Arrive ==
  /\ arrived < MaxUid
  /\ Answers(arrived + 1) => Sent(Letters[arrived + 1].re)
  /\ arrived' = arrived + 1
  /\ UNCHANGED accessVars
  /\ UNCHANGED <<rows, threads, replied, out, outThread, inThreads,
                 todo, last, mine, put, draft, noticed, missed, overlapped, early, mixed, crossed,
                 faults>>

\* Everything after the watermark, or the newest letters if there is none.
Window(since) == IF since = 0 THEN {u \in 1 .. arrived : u > arrived - Limit}
                 ELSE {u \in 1 .. arrived : u > since}

\* A letter the server does not return, or returns empty, is skipped.
Fetch(p) ==
  LET since == seen[p].mark IN
  /\ pc[p] = "fetch"
  /\ \E got \in SUBSET Window(since) :
       /\ faults' = faults - Cardinality(Window(since) \ got)
       /\ faults' >= 0
       /\ todo' = [todo EXCEPT ![p] = got]
       /\ missed' = missed \cup ((since + 1 .. arrived) \ got)
  /\ last' = [last EXCEPT ![p] = since]
  /\ pc' = [pc EXCEPT ![p] = "filing"]
  /\ UNCHANGED <<active, allowed, mailbox, granted, seen, overtaken, statusStale, accessStale, ops>>
  /\ UNCHANGED <<arrived, rows, threads, replied, out, outThread, inThreads,
                 mine, put, draft, noticed, overlapped, early, mixed, crossed>>

\* The mailbox shows "failing"; nothing else is written.
FetchFails(p) ==
  /\ pc[p] = "fetch"
  /\ pc' = [pc EXCEPT ![p] = "idle"]
  /\ UNCHANGED <<active, allowed, mailbox, granted, seen, overtaken, statusStale, accessStale, ops>>
  /\ UNCHANGED inboxVars

-----------------------------------------------------------------------------
(* Filing.                                                                 *)

\* Mutant: a letter without Message-ID is not looked for.
StoredById(p, u) ==
  Letters[u].id # NoId /\ \E v \in Uids : Same(u, v) /\ (rows[v] > 0 \/ v \in mine[p])

\* What a session sees: the committed rows and its own.
Stored(p, u) == \E v \in Uids : Same(u, v) /\ (rows[v] > 0 \/ v \in mine[p])
View(p) == [t \in ThreadIds |-> IF draft[p][t] # NoThread THEN draft[p][t] ELSE threads[t]]

\* The message a letter refers to is known by its row, a mail also by its log; a
\* log is looked up before it names a contact or a campaign, and matches the
\* threads that name neither.
Referred(p, u) ==
  IF Letters[u].re = NoMail THEN {}
  ELSE ThreadsWith(Letters[u].re) \cup
       (IF Answers(u) THEN {} ELSE {put[p][v] : v \in {w \in Uids : Same(Letters[u].re, w)}} \ {0})
ByMessage(p, u) == Referred(p, u) # {}
ByLog(p, u) == ~ByMessage(p, u) /\ Answers(u) /\ out[Letters[u].re] = "logged"

Resolve(p, u) ==
  LET view == View(p)
      unlinked == {t \in ThreadIds : view[t] # NoThread /\ view[t].contact = Nobody} IN
  IF ByMessage(p, u) THEN Referred(p, u)
  ELSE IF ByLog(p, u) THEN unlinked \cup OrNew({})
  ELSE OrNew(ForAddress(view, Letters[u].from))

\* Mutant: a thread found by its mail is not asked for its contact.
ContactByAddress(p, u, t) ==
  IF View(p)[t] # NoThread /\ View(p)[t].contact # Nobody THEN Nobody
  ELSE IF ~ByMessage(p, u) /\ ~ByLog(p, u) /\ Letters[u].from \in Known THEN Letters[u].from
  ELSE Nobody

\* The thread's contact; a thread found by the sender's address, or made for it,
\* is linked to the sender.
ContactOfThread(p, u, t) ==
  IF View(p)[t] # NoThread /\ View(p)[t].contact # Nobody THEN View(p)[t].contact
  ELSE IF ~ByMessage(p, u) /\ ~ByLog(p, u) /\ Letters[u].from \in Known THEN Letters[u].from
  ELSE Nobody

\* The thread is for the sender's address from now on; its contact has answered.
FileIn(p, u, t) ==
  LET from == Letters[u].from
      contact == ContactOfThread(p, u, t) IN
  /\ ~Locked(p, t)
  /\ draft' = [draft EXCEPT ![p][t] = [email |-> from, contact |-> contact]]
  /\ mine' = [mine EXCEPT ![p] = @ \cup {u}]
  /\ put' = [put EXCEPT ![p][u] = t]
  /\ noticed' = [noticed EXCEPT ![p] = @ \cup ({contact} \ {Nobody})]
  /\ overlapped' = overlapped \cup
       UNION {{u, v} : v \in {w \in Uids : Same(u, w) /\ \E q \in Procs \ {p} : w \in mine[q]}}
  /\ early' = IF ByLog(p, u) THEN early \cup {u} ELSE early
  /\ mixed' = MixedBy(t, contact, from)
  /\ crossed' = IF t \in mixed THEN crossed \cup {u} ELSE crossed

\* A session takes its letters in the order of their uids.
Examine(p) ==
  LET u == Min(todo[p]) IN
  /\ pc[p] = "filing"
  /\ todo[p] # {}
  /\ u \notin Poison
  /\ IF Stored(p, u) THEN UNCHANGED <<draft, mine, put, noticed, overlapped, early, mixed, crossed>>
     ELSE \E t \in Resolve(p, u) : FileIn(p, u, t)
  /\ todo' = [todo EXCEPT ![p] = @ \ {u}]
  /\ last' = [last EXCEPT ![p] = u]
  /\ UNCHANGED accessVars
  /\ UNCHANGED <<arrived, rows, threads, replied, out, outThread, inThreads, missed, faults>>

\* The rows of p become visible.
Publish(p) ==
  /\ rows' = [u \in Uids |-> IF u \in mine[p] THEN rows[u] + 1 ELSE rows[u]]
  /\ threads' = View(p)
  /\ replied' = replied \cup noticed[p]
  /\ inThreads' = [u \in Uids |-> inThreads[u] \cup ({put[p][u]} \ {0})]

EndSync(p) ==
  /\ todo' = [todo EXCEPT ![p] = {}]
  /\ mine' = [mine EXCEPT ![p] = {}]
  /\ put' = [put EXCEPT ![p] = Nowhere]
  /\ draft' = [draft EXCEPT ![p] = Untouched]
  /\ noticed' = [noticed EXCEPT ![p] = {}]
  /\ last' = [last EXCEPT ![p] = 0]
  /\ pc' = [pc EXCEPT ![p] = "idle"]
  /\ UNCHANGED <<active, allowed, granted, seen, overtaken, statusStale, accessStale, ops>>
  /\ UNCHANGED <<arrived, out, outThread, missed, overlapped, early, mixed, crossed>>

\* Mutant: the watermark goes to the newest letter there is.
MarkNewest(p) == arrived

Mark(p) == Column(seen[p].mark, last[p], mailbox.mark)

SyncCommit(p) ==
  /\ pc[p] = "filing"
  /\ todo[p] = {}
  /\ Publish(p)
  /\ mailbox' = [mailbox EXCEPT !.mark = Mark(p)]
  /\ EndSync(p)
  /\ UNCHANGED faults

\* A letter cannot be parsed or stored, the database fails, or two sessions wait
\* for each other.  A request is rolled back.  The task goes on with the next
\* mailbox without a rollback: what it had flushed when a letter could not be
\* parsed is committed along with the task's log, and the watermark stays.
SyncAborts(p) ==
  /\ pc[p] = "filing"
  /\ IF todo[p] # {} /\ Min(todo[p]) \in Poison THEN UNCHANGED faults
     ELSE faults > 0 /\ faults' = faults - 1
  /\ \/ UNCHANGED <<rows, threads, replied, inThreads>>
     \/ p \in Workers /\ todo[p] # {} /\ Min(todo[p]) \in Poison /\ Publish(p)
  /\ UNCHANGED mailbox
  /\ EndSync(p)

-----------------------------------------------------------------------------
InboxInit ==
  /\ arrived = 0
  /\ rows = [u \in Uids |-> 0]
  /\ threads = Untouched
  /\ replied = {}
  /\ out = [o \in Mails |-> "none"]
  /\ outThread = [o \in Mails |-> 0]
  /\ inThreads = [u \in Uids |-> {}]
  /\ todo = [p \in Procs |-> {}] /\ last = [p \in Procs |-> 0]
  /\ mine = [p \in Procs |-> {}] /\ noticed = [p \in Procs |-> {}]
  /\ put = [p \in Procs |-> Nowhere]
  /\ draft = [p \in Procs |-> Untouched]
  /\ missed = {} /\ overlapped = {} /\ early = {} /\ mixed = {} /\ crossed = {}
  /\ faults = MaxFaults

InboxNext ==
  \/ Arrive
  \/ \E o \in Mails : Log(o) \/ Persist(o) \/ Attribute(o) \/ \E p \in Procs : Send(p, o)
  \/ \E p \in Procs :
       \/ SendFails(p) \/ Fetch(p) \/ FetchFails(p)
       \/ Examine(p) \/ SyncCommit(p) \/ SyncAborts(p)

Init == AccessInit /\ InboxInit
Next == (AccessNext /\ UNCHANGED inboxVars) \/ InboxNext
Spec == Init /\ [][Next]_vars

-----------------------------------------------------------------------------
(* Properties.                                                             *)

TypeOK ==
  /\ AccessTypeOK
  /\ arrived \in 0 .. MaxUid
  /\ rows \in [Uids -> Nat]
  /\ threads \in [ThreadIds -> ThreadRow \cup {NoThread}]
  /\ replied \subseteq Known
  /\ out \in [Mails -> {"none", "sent", "logged", "stored", "attributed"}]
  /\ outThread \in [Mails -> ThreadIds \cup {0}]
  /\ inThreads \in [Uids -> SUBSET ThreadIds]
  /\ todo \in [Procs -> SUBSET Uids] /\ last \in [Procs -> 0 .. MaxUid]
  /\ mine \in [Procs -> SUBSET Uids] /\ noticed \in [Procs -> SUBSET Known]
  /\ put \in [Procs -> [Uids -> ThreadIds \cup {0}]]
  /\ draft \in [Procs -> [ThreadIds -> ThreadRow \cup {NoThread}]]
  /\ missed \subseteq Uids /\ overlapped \subseteq Uids
  /\ early \subseteq Uids /\ crossed \subseteq Uids /\ mixed \subseteq ThreadIds
  /\ faults \in 0 .. MaxFaults

\* The watermark never passes over a letter: each one at or below it is stored,
\* or a fetch did not return it.  The synchronisation that commits last may take
\* the watermark back, never too far forward.
NothingPassedOver ==
  \A u \in 1 .. mailbox.mark :
    u \in missed \/ \E v \in Uids : Same(u, v) /\ rows[v] > 0

\* Testing guide: duplicate syncs create no duplicate messages.  A letter has two
\* rows only when two synchronisations had it in open transactions at once.
StoredOnce ==
  \A u, v \in Uids \ overlapped :
    Same(u, v) /\ rows[u] > 0 /\ rows[v] > 0 => u = v /\ rows[u] = 1

\* A letter of the addressee that answers a mail sent to them as a contact, as
\* every campaign's mail is.
Awaited(u) ==
  Answers(u) /\ LET o == Letters[u].re IN For[o] = To[o] /\ Letters[u].from = To[o]

\* Such an answer, once stored, marks the contact, so that the sequence stops:
\* unless the program had logged the mail and no more when the answer came in, or
\* the thread it is filed in had passed from its contact to another address, by
\* someone else's letter or by a mail to someone else that referred to it.
RepliesAreNoticed ==
  \A u \in Uids :
    rows[u] > 0 /\ Awaited(u) => Letters[u].from \in replied \/ u \in early \cup crossed

=============================================================================
