------------------------------ MODULE MCInbox ------------------------------
(***************************************************************************)
(* A small instance of InboxSync for TLC.                                  *)
(***************************************************************************)
EXTENDS InboxSync, TLC

CONSTANTS k1, w1, x, y, o1, o2, o3, i1

Addressees == (o1 :> x @@ o2 :> y @@ o3 :> y)

\* The campaign writes to x, whose colleague y answers; somebody writes to y by
\* hand, referring to the mail to x and to the letter.  The campaign writes to y
\* as well, and y answers that; the third letter is poison.
Named == (o1 :> x @@ o2 :> Nobody @@ o3 :> y)
References == (o1 :> {} @@ o2 :> {o1, 1} @@ o3 :> {})
TwoAnswers == <<[id |-> i1, from |-> y, re |-> o1], [id |-> NoId, from |-> y, re |-> o3],
                [id |-> NoId, from |-> x, re |-> NoMail]>>
=============================================================================
