----------------------------- MODULE LeadImport -----------------------------
(***************************************************************************)
(* CSV imports: upload, map and validate, confirm.  The three steps are    *)
(* requests of their own, and only the last looks at the status of the     *)
(* job; mapping a job again is possible at any time.                       *)
(*                                                                         *)
(* Abstracted: a request reads the job and its rows in one step, while the *)
(* code asks for the one and then for the other.  A request that another   *)
(* one overtakes between the two is as outdated as one overtaken after     *)
(* them, and `crossed' tells the job either leaves from the rest.          *)
(***************************************************************************)
EXTENDS Suppression

CONSTANTS
  Imports,   \* lead_import_jobs
  Lines,     \* the lines of the uploaded file
  NoEmail,   \* no address, or a malformed one: never imported, even if it is repeated
  Mappings   \* what address each choice of columns finds in each line

RowStatus == {"pending", "valid", "invalid", "duplicate_in_file", "duplicate_in_database",
              "imported"}
ImportRow == [email : Emails \cup {NoEmail}, status : RowStatus]
ImportJob == [status : {"none", "parsed", "validated", "completed"}, rows : [Lines -> ImportRow],
              imported : Nat]
ImportSession == [job : Imports, was : ImportJob, rows : [Lines -> ImportRow]]

ASSUME ImportAssumption ==
  /\ NoEmail \notin Emails
  /\ Mappings \subseteq [Lines -> Emails \cup {NoEmail}]
  /\ IsFiniteSet(Lines)
  /\ <<>> \notin ImportSession

VARIABLES
  imports,    \* lead_import_jobs with their rows
  importing,  \* what each request has loaded and what it will write
  behind,     \* history: sessions whose job another one wrote since they read it
  crossed     \* history: jobs last written by such a session

importVars == <<imports, importing, behind, crossed>>

NoImport == <<>>
On(p) == importing[p].job
Rivals(p) == {q \in Clients \ {p} : importing[q] # NoImport /\ On(q) = On(p)}

\* POST /leads/import/csv.  Nobody knows the job before the answer, so the
\* commit of the job and that of its rows are one step.
Upload(p, j) ==
  /\ Request(p)
  /\ imports[j].status = "none"
  /\ imports' = [imports EXCEPT ![j].status = "parsed"]
  /\ UNCHANGED <<contact, kind, listed, pc, sess, rowGone, overtaken, raced, torn,
                 importing, behind, crossed>>

\* Each address goes to one line of those that have it, whichever the query
\* returns first.
FirstLines(m) ==
  {F \in SUBSET {l \in Lines : m[l] # NoEmail} :
     \A l \in Lines : m[l] # NoEmail => \E f \in F : m[f] = m[l]
                                        /\ \A g \in F : m[g] = m[l] => g = f}

RowFor(m, F, l) ==
  [email |-> m[l],
   status |-> IF m[l] = NoEmail THEN "invalid"
              ELSE IF l \notin F THEN "duplicate_in_file"
              ELSE IF m[l] \in Exists THEN "duplicate_in_database"
              ELSE "valid"]

\* POST /leads/import/{id}/map reads the job, its rows and the contacts ...
Map(p, j, m) ==
  /\ Request(p)
  /\ imports[j].status # "none"
  /\ \E F \in FirstLines(m) :
       importing' = [importing EXCEPT ![p] =
                       [job |-> j, was |-> imports[j], rows |-> [l \in Lines |-> RowFor(m, F, l)]]]
  /\ pc' = [pc EXCEPT ![p] = "map"]
  /\ UNCHANGED <<contact, kind, listed, sess, rowGone, overtaken, raced, torn,
                 imports, behind, crossed>>

\* What p leaves behind is outdated where another request was faster.
Writes(p) ==
  /\ crossed' = IF p \in behind THEN crossed \cup {On(p)} ELSE crossed
  /\ behind' = (behind \cup Rivals(p)) \ {p}

Close(p) ==
  /\ importing' = [importing EXCEPT ![p] = NoImport]
  /\ pc' = [pc EXCEPT ![p] = "idle"]

\* ... and writes what differs, the status "validated" included.
MapCommit(p) ==
  LET j == On(p)
      was == importing[p].was
      new == importing[p].rows
      now == imports[j]
  IN /\ pc[p] = "map"
     /\ imports' = [imports EXCEPT ![j] =
          [status |-> Column(was.status, "validated", now.status),
           rows |-> [l \in Lines |->
                       [email |-> Column(was.rows[l].email, new[l].email, now.rows[l].email),
                        status |-> Column(was.rows[l].status, new[l].status, now.rows[l].status)]],
           imported |-> now.imported]]
     /\ crossed' = IF p \in behind THEN crossed \cup {j} ELSE crossed \ {j}
     /\ behind' = (behind \cup Rivals(p)) \ {p}
     /\ Close(p)
     /\ UNCHANGED <<contact, kind, listed, sess, rowGone, overtaken, raced, torn, ops>>

\* POST /leads/import/{id}/confirm does nothing unless the job is validated.
Confirm(p, j) ==
  /\ Request(p)
  /\ imports[j].status = "validated"
  /\ importing' = [importing EXCEPT ![p] =
                     [job |-> j, was |-> imports[j], rows |-> imports[j].rows]]
  /\ pc' = [pc EXCEPT ![p] = "confirm"]
  /\ UNCHANGED <<contact, kind, listed, sess, rowGone, overtaken, raced, torn,
                 imports, behind, crossed>>

ToImport(p) == {l \in Lines : importing[p].rows[l].status = "valid"}
AddressesOf(p) == {importing[p].rows[l].email : l \in ToImport(p)}

\* Every address is new, in the table and among these lines.
Importable(p) ==
  /\ AddressesOf(p) \cap Exists = {}
  /\ \A l, k \in ToImport(p) : importing[p].rows[l].email = importing[p].rows[k].email => l = k

\* Mutant: the lines keep their status.
ConfirmCommitUnmarked(p) ==
  LET j == On(p)
  IN /\ pc[p] = "confirm"
     /\ Importable(p)
     /\ AddContacts(p, AddressesOf(p))
     /\ imports' = [imports EXCEPT ![j].status = "completed",
                                   ![j].imported = Cardinality(ToImport(p))]
     /\ Writes(p)
     /\ Close(p)
     /\ UNCHANGED <<kind, listed, sess, rowGone, raced, torn, ops>>

ConfirmCommit(p) ==
  LET j == On(p)
  IN /\ pc[p] = "confirm"
     /\ Importable(p)
     /\ AddContacts(p, AddressesOf(p))
     /\ imports' = [imports EXCEPT ![j] =
          [status |-> "completed",
           rows |-> [l \in Lines |-> IF l \in ToImport(p)
                                     THEN [imports[j].rows[l] EXCEPT !.status = "imported"]
                                     ELSE imports[j].rows[l]],
           imported |-> Column(importing[p].was.imported, Cardinality(ToImport(p)),
                               imports[j].imported)]]
     /\ Writes(p)
     /\ Close(p)
     /\ UNCHANGED <<kind, listed, sess, rowGone, raced, torn, ops>>

\* An address is taken: IntegrityError, and no line of the file is imported.
ConfirmConflict(p) ==
  /\ pc[p] = "confirm"
  /\ ~Importable(p)
  /\ behind' = behind \ {p}
  /\ Close(p)
  /\ UNCHANGED <<contact, kind, listed, sess, rowGone, overtaken, raced, torn, ops,
                 imports, crossed>>

ImportInit ==
  /\ imports \in [Imports ->
                  [status : {"none", "parsed"}, imported : {0},
                   rows : {[l \in Lines |-> [email |-> NoEmail, status |-> "pending"]]}]]
  /\ importing = [p \in Clients |-> NoImport]
  /\ behind = {} /\ crossed = {}

ImportNext ==
  \E p \in Clients :
    \/ \E j \in Imports : Upload(p, j) \/ Confirm(p, j) \/ \E m \in Mappings : Map(p, j, m)
    \/ MapCommit(p) \/ ConfirmCommit(p) \/ ConfirmConflict(p)

-----------------------------------------------------------------------------
(* Properties.                                                             *)

ImportTypeOK ==
  /\ imports \in [Imports -> ImportJob]
  /\ importing \in [Clients -> ImportSession \cup {NoImport}]
  /\ behind \subseteq Clients /\ crossed \subseteq Imports

\* A completed import has imported each of its valid lines, counts them, and
\* the contact of each is there, whatever was mapped, confirmed and mapped
\* again before, unless a mapping and a confirmation crossed.
CompletedImportsAreWhole ==
  \A j \in Imports \ crossed :
    imports[j].status = "completed" =>
      LET done == {l \in Lines : imports[j].rows[l].status = "imported"}
      IN /\ \A l \in Lines : imports[j].rows[l].status # "valid"
         /\ imports[j].imported = Cardinality(done)
         /\ \A l \in done : imports[j].rows[l].email \in Exists
=============================================================================
