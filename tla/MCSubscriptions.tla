--------------------------- MODULE MCSubscriptions ---------------------------
(***************************************************************************)
(* Small instances of Subscriptions for TLC.                               *)
(***************************************************************************)
EXTENDS Subscriptions

CONSTANTS m1, t1, t2, revenue, r0, r1

=============================================================================
