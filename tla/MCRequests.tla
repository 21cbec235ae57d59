------------------------------ MODULE MCRequests ------------------------------
(***************************************************************************)
(* Two questions and a long poll over data that changes twice, for TLC.    *)
(* The payloads are one that is right, one that names a member of another  *)
(* cube, one that Query.parse refuses, and ones whose shape the route does *)
(* not expect.                                                             *)
(***************************************************************************)
EXTENDS Requests

CONSTANTS v1, nothing,              \* results
          visible, hidden           \* members

Results    == {v1, nothing}
AllMembers == {visible, hidden}
Visible    == {visible}

Written(named, stops) == [named |-> named, stops |-> stops]

Payloads ==
    {Written({visible}, "never"), Written({hidden}, "never"), Written({visible}, "parse"),
     Written({visible}, "collect"), Written({visible}, "normalise"),
     Written({hidden}, "normalise")}

=============================================================================
