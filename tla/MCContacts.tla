----------------------------- MODULE MCContacts -----------------------------
(***************************************************************************)
(* Small instances of Contacts for TLC.                                    *)
(***************************************************************************)
EXTENDS Contacts, TLC

CONSTANTS k1, k2, w1, e1, e2, t1, j1

\* The columns may be chosen well, or so that a line has no address.
TwoMappings == {<<e1, e2>>, <<NoEmail, e2>>}

\* One bulk verification of both contacts, or none at all.
BothLeads == (t1 :> <<e1, e2>>)
NoLeads == <<>>
=============================================================================
