-------------------------- MODULE MCPreAggScheduler --------------------------
(***************************************************************************)
(* Small instances of PreAggScheduler for TLC.                             *)
(***************************************************************************)
EXTENDS PreAggScheduler

CONSTANTS p1, p2, daily, hourly, orders

OneCube == [r \in Rollups |-> orders]

=============================================================================
