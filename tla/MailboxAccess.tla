--------------------------- MODULE MailboxAccess ---------------------------
(***************************************************************************)
(* How the program gets at a Google Workspace mailbox: the consent that    *)
(* gives it a refresh token, the access tokens it refreshes before each    *)
(* use, the provider check, and what the mailbox's row says of them.       *)
(*                                                                         *)
(* A session reads the row once and writes back the columns it changed;    *)
(* between the two it talks to Google.  Google itself is external: it      *)
(* answers, with an access token, or it does not.                          *)
(***************************************************************************)
EXTENDS Integers, FiniteSets

CONSTANTS
  Clients,     \* threads that serve HTTP requests
  Workers,     \* threads that run Celery tasks
  MaxUid,      \* bound: letters of the inbox
  MaxGrants,   \* bound: consents given
  MaxOps       \* bound: requests, task runs and token expiries

Procs == Clients \cup Workers
Grants == 0 .. MaxGrants

\* A mailbox and its token: the consents its refresh and access tokens come
\* from (0: none), whether the access token has not expired, the connection
\* status it shows, and the last uid its inbox synchronisation has seen.
MailboxRow == [grant : Grants, access : Grants, fresh : BOOLEAN,
               oauth : {"not_connected", "connected", "error"}, mark : 0 .. MaxUid]

\* What a session wants a token for; a check asks twice, for SMTP and for IMAP.
Uses == {"sync", "send", "smtp"}

ASSUME AccessAssumption ==
  Clients \cap Workers = {} /\ MaxUid \in Nat /\ MaxGrants \in Nat /\ MaxOps \in Nat

VARIABLES
  active,       \* mailboxes.status = "active"
  allowed,      \* the provider is enabled, or left to existing mailboxes
  mailbox,      \* the row
  granted,      \* consents Google has given
  pc, seen,     \* the sessions and the row each loaded
  overtaken,    \* sessions whose row another changed since they loaded it
  statusStale,  \* an overtaken session wrote the connection status last
  accessStale,  \* an overtaken session wrote the access token last
  ops

accessVars == <<active, allowed, mailbox, granted, pc, seen, overtaken, statusStale, accessStale, ops>>

Request(p) == pc[p] = "idle" /\ ops > 0 /\ ops' = ops - 1

\* The ORM writes a column when its value differs from the one it loaded.
Column(loaded, value, now) == IF value = loaded THEN now ELSE value

\* p commits the row: who loaded it before now holds an old one.
Overtakes(p, row) ==
  overtaken' = IF row.grant = mailbox.grant /\ row.oauth = mailbox.oauth THEN overtaken
               ELSE overtaken \cup {q \in Procs \ {p} : pc[q] # "idle"}

\* A session shows another connection status.
Marks(p, status) ==
  LET row == [mailbox EXCEPT !.oauth = Column(seen[p].oauth, status, @)] IN
  /\ mailbox' = row
  /\ Overtakes(p, row)
  /\ statusStale' = (p \in overtaken)

-----------------------------------------------------------------------------
(* Consent.                                                                *)

\* The callback of Google's consent page loads the mailbox and trades the code
\* for tokens.
Callback(p) ==
  /\ p \in Clients
  /\ Request(p)
  /\ granted < MaxGrants
  /\ pc' = [pc EXCEPT ![p] = "exchange"]
  /\ seen' = [seen EXCEPT ![p] = mailbox]
  /\ overtaken' = overtaken \ {p}
  /\ UNCHANGED <<active, allowed, mailbox, granted, statusStale, accessStale>>

\* The row once p has an access token of a consent.
Tokens(p, grant) ==
  [mailbox EXCEPT !.access = grant, !.fresh = TRUE, !.oauth = Column(seen[p].oauth, "connected", @)]

\* The consent prompt is forced, so that Google sends a refresh token too.
Exchanged(p) ==
  LET row == [Tokens(p, granted + 1) EXCEPT !.grant = granted + 1] IN
  /\ pc[p] = "exchange"
  /\ granted < MaxGrants
  /\ granted' = granted + 1
  /\ mailbox' = row
  /\ Overtakes(p, row)
  /\ statusStale' = (p \in overtaken)
  /\ accessStale' = FALSE
  /\ pc' = [pc EXCEPT ![p] = "idle"]
  /\ UNCHANGED <<active, allowed, seen, ops>>

\* The code or the state is refused; the browser is sent back with the error.
ExchangeFails(p) ==
  /\ pc[p] = "exchange"
  /\ pc' = [pc EXCEPT ![p] = "idle"]
  /\ UNCHANGED <<active, allowed, mailbox, granted, seen, overtaken, statusStale, accessStale, ops>>

\* Mutant: the access token stays behind.
ForgottenGrant(row) == [row EXCEPT !.grant = 0, !.oauth = "not_connected"]

\* Mutant: the tokens go, the status they gave stays.
ForgottenTokens(row) == [row EXCEPT !.grant = 0, !.access = 0, !.fresh = FALSE]

Forgotten(row) == [row EXCEPT !.grant = 0, !.access = 0, !.fresh = FALSE, !.oauth = "not_connected"]

Disconnect(p) ==
  /\ p \in Clients
  /\ Request(p)
  /\ mailbox' = Forgotten(mailbox)
  /\ Overtakes(p, mailbox')
  /\ statusStale' = FALSE
  /\ accessStale' = FALSE
  /\ UNCHANGED <<active, allowed, granted, pc, seen>>

-----------------------------------------------------------------------------
(* Use.                                                                    *)

\* Synchronisation and sending need an active mailbox, the check does not.
Load(p, use) ==
  /\ Request(p)
  /\ use = "smtp" => p \in Clients
  /\ use # "smtp" => active
  /\ allowed
  /\ pc' = [pc EXCEPT ![p] = use]
  /\ seen' = [seen EXCEPT ![p] = mailbox]
  /\ overtaken' = overtaken \ {p}
  /\ UNCHANGED <<active, allowed, mailbox, granted, statusStale, accessStale>>

\* Where a session goes with its token.
NextStage == [sync |-> "fetch", send |-> "post", smtp |-> "imap", imap |-> "diagnosed"]
Asking(p) == pc[p] \in DOMAIN NextStage
Checking(p) == pc[p] \in {"smtp", "imap"}
Holding(p) == seen[p].fresh /\ seen[p].access # 0

\* Without a refresh token there is nothing to refresh: a check notes it, the
\* others fail.
NeedsReauth(p) ==
  /\ Asking(p)
  /\ seen[p].grant = 0
  /\ IF Checking(p) THEN Marks(p, "not_connected") ELSE UNCHANGED <<mailbox, overtaken, statusStale>>
  /\ pc' = [pc EXCEPT ![p] = "idle"]
  /\ UNCHANGED <<active, allowed, granted, seen, accessStale, ops>>

UseToken(p) ==
  /\ Asking(p)
  /\ seen[p].grant # 0
  /\ Holding(p)
  /\ pc' = [pc EXCEPT ![p] = NextStage[@]]
  /\ UNCHANGED <<active, allowed, mailbox, granted, seen, overtaken, statusStale, accessStale, ops>>

\* Google refreshes the access token of the refresh token it is shown.  The
\* refresh token is left as it is, and the session loads the row again.
Refreshed(p) ==
  LET row == Tokens(p, seen[p].grant) IN
  /\ Asking(p)
  /\ seen[p].grant # 0
  /\ ~Holding(p)
  /\ mailbox' = row
  /\ Overtakes(p, row)
  /\ statusStale' = (p \in overtaken)
  /\ accessStale' = (p \in overtaken)
  /\ seen' = [seen EXCEPT ![p] = row]
  /\ pc' = [pc EXCEPT ![p] = NextStage[@]]
  /\ UNCHANGED <<active, allowed, granted, ops>>

\* Mutant: the check knows a failed refresh by the category it was meant to have.
ExpiredStatus == "expired"

\* The check knows one category of a failed refresh, oauth_refresh_failed, and it
\* is that of an answer without an access token only.
FailureStatus == "error"

\* No answer, or a refusal.
RefreshFails(p) ==
  /\ Asking(p)
  /\ seen[p].grant # 0
  /\ ~Holding(p)
  /\ IF Checking(p) THEN Marks(p, FailureStatus) ELSE UNCHANGED <<mailbox, overtaken, statusStale>>
  /\ pc' = [pc EXCEPT ![p] = "idle"]
  /\ UNCHANGED <<active, allowed, granted, seen, accessStale, ops>>

\* The check got both tokens: connected, whatever the two servers said.
CheckDone(p) ==
  /\ pc[p] = "diagnosed"
  /\ Marks(p, "connected")
  /\ pc' = [pc EXCEPT ![p] = "idle"]
  /\ UNCHANGED <<active, allowed, granted, seen, accessStale, ops>>

\* Anything else that goes wrong in a check is reported; no status is written.
CheckBreaks(p) ==
  /\ Checking(p) \/ pc[p] = "diagnosed"
  /\ pc' = [pc EXCEPT ![p] = "idle"]
  /\ UNCHANGED <<active, allowed, mailbox, granted, seen, overtaken, statusStale, accessStale, ops>>

-----------------------------------------------------------------------------
(* What else touches the mailbox.                                          *)

TokenExpires ==
  /\ mailbox.fresh
  /\ ops > 0 /\ ops' = ops - 1
  /\ mailbox' = [mailbox EXCEPT !.fresh = FALSE]
  /\ UNCHANGED <<active, allowed, granted, pc, seen, overtaken, statusStale, accessStale>>

\* The mailbox form sets the status.
SetStatus(p) ==
  /\ p \in Clients
  /\ Request(p)
  /\ active' = ~active
  /\ UNCHANGED <<allowed, mailbox, granted, pc, seen, overtaken, statusStale, accessStale>>

\* The settings page enables and disables the provider.
SetProvider(p) ==
  /\ p \in Clients
  /\ Request(p)
  /\ allowed' = ~allowed
  /\ UNCHANGED <<active, mailbox, granted, pc, seen, overtaken, statusStale, accessStale>>

-----------------------------------------------------------------------------
NewMailbox == [grant |-> 0, access |-> 0, fresh |-> FALSE, oauth |-> "not_connected", mark |-> 0]

\* A mailbox just created, or one with consent that was never synchronised.
AccessInit ==
  /\ active = TRUE
  /\ allowed = TRUE
  /\ granted \in {0, 1} \cap Grants
  /\ mailbox = IF granted = 0 THEN NewMailbox
               ELSE [NewMailbox EXCEPT !.grant = 1, !.access = 1, !.fresh = TRUE, !.oauth = "connected"]
  /\ pc = [p \in Procs |-> "idle"]
  /\ seen = [p \in Procs |-> mailbox]
  /\ overtaken = {}
  /\ statusStale = FALSE
  /\ accessStale = FALSE
  /\ ops = MaxOps

AccessNext ==
  \/ TokenExpires
  \/ \E p \in Procs :
       \/ Callback(p) \/ Exchanged(p) \/ ExchangeFails(p) \/ Disconnect(p)
       \/ \E use \in Uses : Load(p, use)
       \/ NeedsReauth(p) \/ UseToken(p) \/ Refreshed(p) \/ RefreshFails(p)
       \/ CheckDone(p) \/ CheckBreaks(p) \/ SetStatus(p) \/ SetProvider(p)

-----------------------------------------------------------------------------
(* Properties.                                                             *)

AccessTypeOK ==
  /\ active \in BOOLEAN /\ allowed \in BOOLEAN
  /\ mailbox \in MailboxRow
  /\ granted \in Grants
  /\ pc \in [Procs -> {"idle", "exchange", "sync", "send", "smtp", "imap", "diagnosed",
                       "fetch", "filing", "post"}]
  /\ seen \in [Procs -> MailboxRow]
  /\ overtaken \subseteq Procs
  /\ statusStale \in BOOLEAN /\ accessStale \in BOOLEAN
  /\ ops \in 0 .. MaxOps

\* The page shows a mailbox as never connected exactly when the program holds no
\* refresh token for it, unless the status was written from an old row.
StatusTellsTheGrant ==
  ~statusStale => (mailbox.oauth = "not_connected" <=> mailbox.grant = 0)

\* An access token on file comes from the consent on file: a disconnected mailbox
\* keeps none, and one that was connected again never uses the account it had
\* before, unless a refresh was on its way when the consent changed.
AccessComesFromTheGrant ==
  ~accessStale => mailbox.access \in {0, mailbox.grant}

=============================================================================
