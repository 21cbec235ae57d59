--------------------- MODULE MCQueryOrchestratorHistory ---------------------
(***************************************************************************)
(* Small instances of QueryOrchestratorHistory for TLC.                    *)
(***************************************************************************)
EXTENDS QueryOrchestratorHistory, TLC

CONSTANTS l1, l2, l3, orders, revenue, w1

OneKey         == [k \in {revenue} |-> orders]
AllInOneWorker == [l \in Loads |-> w1]
SlotSymmetry   == Permutations(Loads)

=============================================================================
