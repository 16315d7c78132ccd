------------------------------ MODULE Outreach ------------------------------
(***************************************************************************)
(* What a campaign promises the people it mails.                           *)
(*                                                                         *)
(* A contact gets the steps of the sequence one after the other.  The      *)
(* campaign keeps a record of what it delivered; when it loses a part of   *)
(* that record, and only then, it may deliver the same or an earlier step  *)
(* again.  The operator may replace the sequence at any time; as long as   *)
(* there is nothing to replace it with, no step is left out.               *)
(***************************************************************************)
EXTENDS Integers

CONSTANTS Contacts,
          Steps,      \* step numbers
          Sequences,  \* the sets of step numbers the operator may save
          MaxMail     \* bound: where the counters saturate

VARIABLES sequence,  \* the step numbers as they are now
          mail,      \* deliveries of each step to each contact
          lost       \* deliveries to a contact that went off the record

outreachVars == <<sequence, mail, lost>>

Count(n) == IF n < MaxMail THEN n + 1 ELSE n

Losing(C) == lost' = [c \in Contacts |-> IF c \in C THEN Count(lost[c]) ELSE lost[c]]

Init == /\ sequence \in Sequences
        /\ mail = [c \in Contacts |-> [s \in Steps |-> 0]]
        /\ lost = [c \in Contacts |-> 0]

\* Neither this step nor a later one is on the record as delivered.
Due(c, s) == \A t \in Steps : t >= s => mail[c][t] <= lost[c]

\* Each earlier step was delivered.
Prepared(c, s) == \A t \in sequence : t < s => mail[c][t] > 0

\* A step is delivered; whether that gets on the record is another matter.
Deliver(c, s) == /\ Due(c, s)
                 /\ (\A q \in Sequences : q = sequence) => Prepared(c, s)
                 /\ mail' = [mail EXCEPT ![c][s] = Count(@)]
                 /\ \E C \in {{}, {c}} : Losing(C)
                 /\ UNCHANGED sequence

\* The records of people who were mailed get lost.
Lose(C) == /\ \A c \in C : \E s \in Steps : mail[c][s] > 0
           /\ Losing(C)
           /\ UNCHANGED <<sequence, mail>>

Replace == /\ sequence' \in Sequences
           /\ UNCHANGED <<mail, lost>>

Next == \/ \E c \in Contacts, s \in Steps : Deliver(c, s)
        \/ \E C \in SUBSET Contacts : Lose(C)
        \/ Replace

Spec == Init /\ [][Next]_outreachVars
=============================================================================
