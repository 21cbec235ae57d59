------------------------ MODULE PreAggSchedulerProofs ------------------------
(***************************************************************************)
(* Theorems about PreAggScheduler, for any number of processes, rollups    *)
(* and cubes.  The invariant says that the data a CREATE in progress has   *)
(* selected is at least as new as any the table has had, which is so       *)
(* because only one CREATE of a table is in progress at a time.            *)
(***************************************************************************)
EXTENDS PreAggScheduler, TLAPS

\* A table has had no data newer than the cube's.
PublishedBehindSource ==
    \A r \in Rollups : published[r] <= source[CubeOfRollup[r]]

\* At most one process has a CREATE of a table in progress.
OneCreator ==
    \A p, q \in Processes, r \in Rollups :
        task[p][r] = "commit" /\ task[q][r] = "commit" => p = q

\* What it has selected is no older than what the table has had.
SelectedNotBehind ==
    \A p \in Processes, r \in Rollups :
        task[p][r] = "commit"
          => /\ published[r] <= seen[p][r]
             /\ seen[p][r] <= source[CubeOfRollup[r]]

IInv == TypeOK /\ PublishedBehindSource /\ OneCreator /\ SelectedNotBehind

\* No table has been built when nothing has started.
LEMMA InitIInv == Init => IInv
BY SchedulerAssumption
   DEF Init, IInv, TypeOK, PublishedBehindSource, OneCreator,
       SelectedNotBehind, Versions, Tasks, Building

\* Every action leaves each task where the phase of its process allows.
LEMMA TypeOKStep == TypeOK /\ [Next]_vars => TypeOK'
PROOF
<1> USE SchedulerAssumption
<1> SUFFICES ASSUME TypeOK, [Next]_vars PROVE TypeOK'
  OBVIOUS
<1> USE DEF TypeOK, Versions, Tasks, Building
<1>1. ASSUME NEW p \in Processes, Start(p) PROVE TypeOK'
  BY <1>1 DEF Start
<1>2. ASSUME NEW p \in Processes, Serve(p) PROVE TypeOK'
  BY <1>2 DEF Serve
<1>3. ASSUME NEW p \in Processes, Shutdown(p) PROVE TypeOK'
  BY <1>3 DEF Shutdown, Stop
<1>4. ASSUME NEW p \in Processes, Crash(p) PROVE TypeOK'
  BY <1>4 DEF Crash, Stop
<1>5. ASSUME NEW p \in Processes, NEW r \in Rollups, BuildNext(p, r)
      PROVE  TypeOK'
  BY <1>5 DEF BuildNext, GoTo
<1>6. ASSUME NEW p \in Processes, NEW r \in Rollups, Wake(p, r)
      PROVE  TypeOK'
  BY <1>6 DEF Wake, GoTo
<1>7. ASSUME NEW p \in Processes, NEW r \in Rollups, Drop(p, r)
      PROVE  TypeOK'
  BY <1>7 DEF Drop, GoTo
<1>8. ASSUME NEW p \in Processes, NEW r \in Rollups, Read(p, r)
      PROVE  TypeOK'
  BY <1>8 DEF Read, GoTo
<1>9. ASSUME NEW p \in Processes, NEW r \in Rollups, Refused(p, r)
      PROVE  TypeOK'
  BY <1>9 DEF Refused, GoTo, Done
<1>10. ASSUME NEW p \in Processes, NEW r \in Rollups, Commit(p, r)
       PROVE  TypeOK'
  BY <1>10 DEF Commit, GoTo, Done
<1>11. ASSUME NEW p \in Processes, NEW r \in Rollups, Breaks(p, r)
       PROVE  TypeOK'
  BY <1>11 DEF Breaks, GoTo, Done
<1>12. ASSUME NEW p \in Processes, NEW r \in Rollups, BuildFails(p, r)
       PROVE  TypeOK'
  BY <1>12 DEF BuildFails, GoTo, Done
<1>13. ASSUME NEW c \in Cubes, ChangeSource(c) PROVE TypeOK'
  BY <1>13 DEF ChangeSource, rollups, builders
<1>14. ASSUME UNCHANGED vars PROVE TypeOK'
  BY <1>14 DEF vars, rollups, builders
<1> QED
  BY <1>1, <1>2, <1>3, <1>4, <1>5, <1>6, <1>7, <1>8, <1>9, <1>10, <1>11,
     <1>12, <1>13, <1>14 DEF Next, Step, Create

\* The rest of the invariant, given the types before and after.
LEMMA OrderStep ==
    IInv /\ TypeOK' /\ [Next]_vars
      => (PublishedBehindSource /\ OneCreator /\ SelectedNotBehind)'
PROOF
<1> USE SchedulerAssumption
<1> DEFINE Order == PublishedBehindSource /\ OneCreator /\ SelectedNotBehind
<1> SUFFICES ASSUME TypeOK, Order, TypeOK', [Next]_vars PROVE Order'
  BY DEF IInv
<1> USE DEF TypeOK, Versions, PublishedBehindSource, OneCreator,
            SelectedNotBehind
<1>1. ASSUME NEW p \in Processes, Start(p) PROVE Order'
  BY <1>1 DEF Start
<1>2. ASSUME NEW p \in Processes, Serve(p) PROVE Order'
  BY <1>2 DEF Serve
<1>3. ASSUME NEW p \in Processes, Stop(p) PROVE Order'
  BY <1>3 DEF Stop
<1>4. ASSUME NEW p \in Processes, NEW r \in Rollups,
             BuildNext(p, r) \/ Wake(p, r) \/ Drop(p, r)
      PROVE  Order'
  BY <1>4 DEF BuildNext, Wake, Drop, GoTo
<1>5. ASSUME NEW p \in Processes, NEW r \in Rollups, Read(p, r)
      PROVE  Order'
  BY <1>5 DEF Read, GoTo
<1>6. ASSUME NEW p \in Processes, NEW r \in Rollups, Refused(p, r)
      PROVE  Order'
  BY <1>6 DEF Refused, GoTo, Done
<1>7. ASSUME NEW p \in Processes, NEW r \in Rollups, Commit(p, r)
      PROVE  Order'
  BY <1>7 DEF Commit, GoTo, Done
<1>8. ASSUME NEW p \in Processes, NEW r \in Rollups, Breaks(p, r)
      PROVE  Order'
  BY <1>8 DEF Breaks, GoTo, Done
<1>9. ASSUME NEW p \in Processes, NEW r \in Rollups, BuildFails(p, r)
      PROVE  Order'
  BY <1>9 DEF BuildFails, GoTo, Done
<1>10. ASSUME NEW c \in Cubes, ChangeSource(c) PROVE Order'
  BY <1>10 DEF ChangeSource, rollups, builders
<1>11. ASSUME UNCHANGED vars PROVE Order'
  BY <1>11 DEF vars, rollups, builders
<1> QED
  BY <1>1, <1>2, <1>3, <1>4, <1>5, <1>6, <1>7, <1>8, <1>9, <1>10, <1>11
     DEF Next, Step, Create, Shutdown, Crash

\* The invariant holds in every behaviour.
LEMMA Invariance == Spec => []IInv
<1>1. IInv /\ [Next]_vars => IInv'
  BY TypeOKStep, OrderStep DEF IInv
<1> QED
  BY InitIInv, <1>1, PTL DEF Spec

\* Every process is where its phase allows: build_all works only before the
\* application serves, loops exist only while it does, and a selected version
\* is held exactly as long as its CREATE is open.
THEOREM TypeCorrect == Spec => []TypeOK
<1>1. IInv => TypeOK
  BY DEF IInv
<1> QED
  BY Invariance, <1>1, PTL

\* Whatever processes drop, create, fail, stop and die, a rollup table is
\* never replaced by one of older data.
THEOREM RollupsAdvance == Spec => RollupsOnlyAdvance
PROOF
<1> DEFINE Advances ==
      \A r \in Rollups : table'[r] \notin {None, table[r]}
                           => published[r] <= table'[r]
<1>1. IInv /\ [Next]_vars => [Advances]_vars
  <2> SUFFICES ASSUME IInv, Next PROVE Advances
    OBVIOUS
  <2> USE DEF IInv, TypeOK
  <2>1. ASSUME NEW p \in Processes, NEW r \in Rollups, Commit(p, r)
        PROVE  Advances
    BY <2>1 DEF Commit, SelectedNotBehind
  <2>2. ASSUME NEW p \in Processes, NEW r \in Rollups, Drop(p, r)
        PROVE  Advances
    BY <2>2 DEF Drop
  <2>3. CASE UNCHANGED table
    BY <2>3
  <2> QED
    BY <2>1, <2>2, <2>3
       DEF Next, Start, Serve, Shutdown, Crash, Stop, Step, BuildNext, Wake,
           Create, Read, Refused, Breaks, BuildFails, ChangeSource, rollups
<1> QED
  BY Invariance, <1>1, PTL DEF Spec, RollupsOnlyAdvance

=============================================================================
