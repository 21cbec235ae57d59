------------------------ MODULE MCQueryOrchestrator ------------------------
(***************************************************************************)
(* Small instances of QueryOrchestrator for TLC.                           *)
(***************************************************************************)
EXTENDS QueryOrchestrator, TLC

CONSTANTS l1, l2, l3, orders, visits, revenue, byCity, w1

\* One query on one cube.
OneKey == [k \in {revenue} |-> orders]
\* Two queries on two cubes.
TwoKeys == [k \in {revenue, byCity} |-> IF k = revenue THEN orders ELSE visits]

AllInOneWorker == [l \in Loads |-> w1]

\* Call slots of one worker are interchangeable (safety runs only).
SlotSymmetry == Permutations(Loads)

=============================================================================
