--------------------------- MODULE PreAggScheduler ---------------------------
(***************************************************************************)
(* The scheduled refresh of rollup tables (scheduler.py, rollup_builder.py *)
(* and the lifespan of api/app.py): processes that build every rollup when *)
(* they start, then serve and refresh each rollup in a loop of its own.    *)
(*                                                                         *)
(* The tables belong to the database and outlive the processes.  A table   *)
(* is the version of the data it was selected from.  DROP and CREATE are   *)
(* transactions of their own (execute_with_session commits).  Of the       *)
(* database it is assumed that a CREATE TABLE AS reserves the name, then   *)
(* selects, and shows the table when it commits; another CREATE of the     *)
(* name waits for it and then fails.  A statement whose task is cancelled  *)
(* is rolled back, as AsyncEngineExecutor has it.                          *)
(***************************************************************************)
EXTENDS Naturals

CONSTANTS
    Processes,    \* application processes, e.g. of overlapping deployments
    Rollups,      \* declared (cube, pre-aggregation) pairs
    Cubes,        \* the cubes of the schema
    CubeOfRollup, \* the cube a rollup belongs to
    Broken,       \* rollups whose CREATE always fails
    MaxVersion,   \* bound: number of changes of a cube's data
    MaxFailures,  \* bound: number of other failures of builds
    None

Versions == 0 .. MaxVersion

ASSUME SchedulerAssumption ==
    /\ CubeOfRollup \in [Rollups -> Cubes]
    /\ Broken \subseteq Rollups
    /\ MaxVersion \in Nat
    /\ MaxFailures \in Nat
    /\ None \notin Versions

VARIABLES
    source,    \* source[c]: version of the data behind cube c
    table,     \* table[r]: version that the table of r was selected from
    published, \* history: the newest version table[r] has had
    phase,     \* phase[p]: down, starting (in start()) or serving
    task,      \* task[p][r]: where p is with r, in build_all or in the loop
    seen,      \* seen[p][r]: version selected by the CREATE p has in progress
    failures   \* failures so far that MaxFailures bounds

builders == <<phase, task, seen, failures>>
rollups  == <<table, published, builders>>
vars     == <<source, rollups>>

Building == {"drop", "create", "commit"}
Tasks    == Building \cup {"none", "queued", "sleep"}

Init ==
    /\ source = [c \in Cubes |-> 0]
    /\ table = [r \in Rollups |-> None]
    /\ published = [r \in Rollups |-> 0]
    /\ phase = [p \in Processes |-> "down"]
    /\ task = [p \in Processes |-> [r \in Rollups |-> "none"]]
    /\ seen = [p \in Processes |-> [r \in Rollups |-> None]]
    /\ failures = 0

GoTo(p, r, point) == task' = [task EXCEPT ![p][r] = point]

\* Mutant of Done: a failed or finished build of start() already sleeps.
DoneAsleep(p) == "sleep"

\* After a build, failed or not: build_all goes on to the next rollup, a loop
\* goes to sleep.
Done(p) == IF phase[p] = "starting" THEN "none" ELSE "sleep"

-----------------------------------------------------------------------------
\* Lifespan, up to scheduler.start(): build_all has all rollups before it.
Start(p) ==
    /\ phase[p] = "down"
    /\ phase' = [phase EXCEPT ![p] = "starting"]
    /\ task' = [task EXCEPT ![p] = [r \in Rollups |-> "queued"]]
    /\ UNCHANGED <<source, table, published, seen, failures>>

\* build_all takes the next rollup when it is done with the last.
BuildNext(p, r) ==
    /\ task[p][r] = "queued"
    /\ \A q \in Rollups : task[p][q] \notin Building
    /\ GoTo(p, r, "drop")
    /\ UNCHANGED <<source, table, published, phase, seen, failures>>

\* build_all has returned: a loop per rollup, then requests are served.
Serve(p) ==
    /\ phase[p] = "starting"
    /\ \A r \in Rollups : task[p][r] = "none"
    /\ phase' = [phase EXCEPT ![p] = "serving"]
    /\ task' = [task EXCEPT ![p] = [r \in Rollups |-> "sleep"]]
    /\ UNCHANGED <<source, table, published, seen, failures>>

Wake(p, r) ==
    /\ task[p][r] = "sleep"
    /\ GoTo(p, r, "drop")
    /\ UNCHANGED <<source, table, published, phase, seen, failures>>

\* DROP TABLE IF EXISTS; a table that another process is creating is not seen.
Drop(p, r) ==
    /\ task[p][r] = "drop"
    /\ table' = [table EXCEPT ![r] = None]
    /\ GoTo(p, r, "create")
    /\ UNCHANGED <<source, published, phase, seen, failures>>

\* Mutant of Read: a CREATE OR REPLACE, which waits for nobody.
ReadUnreserved(p, r) ==
    /\ task[p][r] = "create"
    /\ seen' = [seen EXCEPT ![p][r] = source[CubeOfRollup[r]]]
    /\ GoTo(p, r, "commit")
    /\ UNCHANGED <<source, table, published, phase, failures>>

\* CREATE TABLE AS begins: it reserves the name and selects.
Read(p, r) ==
    /\ task[p][r] = "create"
    /\ table[r] = None
    /\ \A q \in Processes : task[q][r] # "commit"
    /\ seen' = [seen EXCEPT ![p][r] = source[CubeOfRollup[r]]]
    /\ GoTo(p, r, "commit")
    /\ UNCHANGED <<source, table, published, phase, failures>>

\* The table exists again, created by another process since the DROP.
Refused(p, r) ==
    /\ task[p][r] = "create"
    /\ table[r] # None
    /\ GoTo(p, r, Done(p))
    /\ UNCHANGED <<source, table, published, phase, seen, failures>>

Commit(p, r) ==
    /\ task[p][r] = "commit"
    /\ r \notin Broken
    /\ table' = [table EXCEPT ![r] = seen[p][r]]
    /\ published' = [published EXCEPT ![r] =
                       IF seen[p][r] > @ THEN seen[p][r] ELSE @]
    /\ seen' = [seen EXCEPT ![p][r] = None]
    /\ GoTo(p, r, Done(p))
    /\ UNCHANGED <<source, phase, failures>>

\* Mutant of Breaks: start() tries a rollup again until it is built.
BreaksRetried(p, r) ==
    /\ task[p][r] = "commit"
    /\ r \in Broken
    /\ seen' = [seen EXCEPT ![p][r] = None]
    /\ GoTo(p, r, IF phase[p] = "starting" THEN "queued" ELSE "sleep")
    /\ UNCHANGED <<source, table, published, phase, failures>>

\* The CREATE of a broken rollup raises; the exception is logged.
Breaks(p, r) ==
    /\ task[p][r] = "commit"
    /\ r \in Broken
    /\ seen' = [seen EXCEPT ![p][r] = None]
    /\ GoTo(p, r, Done(p))
    /\ UNCHANGED <<source, table, published, phase, failures>>

\* Mutant of BuildFails: the exception ends the task of the loop.
BuildFailsForGood(p, r) ==
    /\ task[p][r] \in Building
    /\ failures < MaxFailures
    /\ failures' = failures + 1
    /\ seen' = [seen EXCEPT ![p][r] = None]
    /\ GoTo(p, r, "none")
    /\ UNCHANGED <<source, table, published, phase>>

\* A statement of a build raises without effect; the exception is logged.
BuildFails(p, r) ==
    /\ task[p][r] \in Building
    /\ failures < MaxFailures
    /\ failures' = failures + 1
    /\ seen' = [seen EXCEPT ![p][r] = None]
    /\ GoTo(p, r, Done(p))
    /\ UNCHANGED <<source, table, published, phase>>

\* The process's tasks are gone, and the transaction each had open with them.
Stop(p) ==
    /\ phase' = [phase EXCEPT ![p] = "down"]
    /\ task' = [task EXCEPT ![p] = [r \in Rollups |-> "none"]]
    /\ seen' = [seen EXCEPT ![p] = [r \in Rollups |-> None]]
    /\ UNCHANGED <<source, table, published, failures>>

\* The lifespan ends: shutdown() cancels the loops wherever they are.
Shutdown(p) == phase[p] = "serving" /\ Stop(p)

\* The process dies, while starting or serving.
Crash(p) == phase[p] # "down" /\ Stop(p)

ChangeSource(c) ==
    /\ source[c] < MaxVersion
    /\ source' = [source EXCEPT ![c] = @ + 1]
    /\ UNCHANGED rollups

-----------------------------------------------------------------------------
Create(p, r) == Read(p, r) \/ Refused(p, r)

Step(p, r) ==
    \/ BuildNext(p, r) \/ Wake(p, r)
    \/ Drop(p, r) \/ Create(p, r) \/ Commit(p, r) \/ Breaks(p, r)

Next ==
    \/ \E p \in Processes : Start(p) \/ Serve(p) \/ Shutdown(p) \/ Crash(p)
    \/ \E p \in Processes, r \in Rollups : Step(p, r) \/ BuildFails(p, r)
    \/ \E c \in Cubes : ChangeSource(c)

Spec == Init /\ [][Next]_vars

(***************************************************************************)
(* Fairness: sleeps end, the database answers every statement, and one that *)
(* waits for another's reservation of a name gets its turn (strong         *)
(* fairness).  Nothing forces a process to start, to stop or to crash.     *)
(***************************************************************************)
Fairness ==
    /\ \A p \in Processes : WF_vars(Serve(p))
    /\ \A p \in Processes, r \in Rollups :
          WF_vars(Step(p, r)) /\ SF_vars(Create(p, r))

FairSpec == Spec /\ Fairness

-----------------------------------------------------------------------------
\* Types, and what a task can be at in each phase of its process: loops exist
\* only while serving, start() works on the rollups that are still queued, and
\* the selected version is kept exactly as long as the CREATE is open.
TypeOK ==
    /\ source \in [Cubes -> Versions]
    /\ table \in [Rollups -> Versions \cup {None}]
    /\ published \in [Rollups -> Versions]
    /\ phase \in [Processes -> {"down", "starting", "serving"}]
    /\ task \in [Processes -> [Rollups -> Tasks]]
    /\ seen \in [Processes -> [Rollups -> Versions \cup {None}]]
    /\ failures \in 0 .. MaxFailures
    /\ \A p \in Processes, r \in Rollups :
          /\ phase[p] = "down" => task[p][r] = "none"
          /\ phase[p] = "starting" => task[p][r] # "sleep"
          /\ phase[p] = "serving" => task[p][r] \notin {"none", "queued"}
          /\ task[p][r] = "commit" <=> seen[p][r] # None

\* A rollup is never replaced by one of older data, although several processes
\* drop and create it at once and any of them may die in between.
RollupsOnlyAdvance ==
    [][\A r \in Rollups : table'[r] \notin {None, table[r]}
          => published[r] <= table'[r]]_vars

\* start() comes to an end, with whatever rollups could be built: one broken
\* rollup does not keep the application from serving.
StartupEnds ==
    \A p \in Processes : phase[p] = "starting" ~> phase[p] # "starting"

\* While some process serves and the data is at rest, every rollup that can be
\* built is built from that data again and again, and never from older data,
\* whatever builds failed and whatever other processes do.
RefreshedWhileServing ==
    \A p \in Processes, r \in Rollups \ Broken :
        <>[](phase[p] = "serving" /\ source[CubeOfRollup[r]] = MaxVersion)
          => /\ []<>(table[r] = MaxVersion)
             /\ <>[](table[r] \in {None, MaxVersion})

=============================================================================
