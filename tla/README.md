# CubePy: a verification project

CubePy is a semantic layer: it turns cube.js queries into SQL, runs them, and
serves the results from a Redis cache over REST, WebSocket and GraphQL. This
directory holds TLA+ models of it, the TLC configurations that check them on
small instances, and proofs, checked by TLAPS, of what holds for every
instance. Paths below are relative to `cubepy/` in the repository.

## 1. The system

| Component | State | Operations | What makes it correct |
|---|---|---|---|
| query orchestrator, `orchestrator/orchestrator.py` | `_inflight` per process; under Redis: envelopes, their signatures, cached probe results | `load` (cached or not), `_execute`, `_probe_signature` | an answer is for the caller's own query and identity; identical concurrent queries share one execution; waiters always end; a cached answer does not outlive a change of the data that the probe has seen; answers do not go back in time |
| result cache, `cache/redis_cache.py` | Redis | `get`, `setex`, `delete` | single commands; values survive JSON |
| executors, `orchestrator/executor.py` | a connection pool | `execute`, `execute_with_session` | a statement runs in one session and DDL is committed |
| pre-aggregation router, `orchestrator/preagg.py`, `sqlgen/rollup.py` | none | `match`, `RollupBuilder.build` | a routed answer equals the base cube's answer |
| rollup builder and scheduler, `orchestrator/rollup_builder.py`, `scheduler.py` | rollup tables; one task per rollup | `build_all`, `start`, `_loop`, `shutdown`, `build` | one broken rollup stops neither the others nor the queries; a table is replaced as a whole |
| envelope, `orchestrator/envelope.py` | none | `build_envelope` | presentation keeps rows and keys |
| SQL generation, `sqlgen/builder.py`, `operators.py`, `query.py` | none | `SQLBuilder.build` | row-level predicates are always injected; measure filters go to HAVING |
| date ranges, `sqlgen/date_range.py` | none | `resolve_date_range` | bounds are ordered, adjacent ranges do not overlap |
| schema, `schema/*.py` | the registry, filled at import | decorators, validators | joins and rollups refer to what exists |
| security, `security/*.py` | none | token to context, visibility, masking, row-level rules | a member that is hidden is neither listed nor answered |
| REST, `api/routes_rest.py` | none between requests | load, multi, compareDateRange, long-poll subscribe, sql, meta | the long poll returns at a change or when its time is up |
| WebSocket, `api/routes_ws.py` | `subs` and `send_lock` per connection | subscribe, unsubscribe, `_poll` | one poll per message id; a change is pushed once; everything stops with the connection |
| GraphQL, `api/graphql.py` | none | load, operations cancelled by the client | as REST |
| ask, `api/routes_ask.py`, `llm.py`, `ai.py` | an audit file | `ask`, `chat` with a retry, repair round | only visible members are queried; every ask leaves an audit line (neither holds altogether: section 3) |
| platform routes, `api/routes_platform.py`, `catalog.py`, `diff.py` | none | catalog, schema diff | a diff classifies every change; impact analysis finds what breaks (neither holds altogether: section 3) |
| application, `api/app.py`, `config.py` | `app.state` | `lifespan`, `readyz` | the scheduler starts before requests and stops after them |

Interactions. Every interface calls `QueryOrchestrator.load`: REST, GraphQL and
ask with the cache, the two subscribe endpoints with `use_cache=False`. The
orchestrator asks the router for a rollup, falls back to the base cube when the
rollup query raises, and shares Redis and the database with the other processes
of the deployment. The scheduler replaces rollup tables under the
orchestrator's queries.

What is hard here is concurrency inside one event loop: `load` has up to eight
awaits, between any two of which other calls of the same key run, entries
expire, the data changes and the task may be cancelled. The second hard part is
meaning: a query passes through filters, joins, row-level rules, grouping, window
functions, masks and perhaps a rollup, and each of these must leave alone what
the others established. `PROJECT.json` lists the hazards at their lines, with the
properties that cover each of them or the reason why none does.

## 2. Modules

| Module | What it is |
|---|---|
| `QueryOrchestrator` | `load()` by any number of concurrent calls in one or several workers |
| `QueryService` | what a caller is promised: no cache, no probe, no sharing |
| `QueryOrchestratorHistory` | the orchestrator with two history variables, and the mapping by which it implements `QueryService` |
| `QueryOrchestratorProofs` | the theorems about `QueryOrchestrator` |
| `QueryOrchestratorHistoryProofs` | the proof that it implements `QueryService` |
| `MCQueryOrchestrator`, `MCQueryOrchestratorHistory` | the small instances TLC checks |
| `PreAggScheduler` | rollup tables, built at start-up and refreshed by the loops of several processes |
| `PreAggSchedulerProofs` | the theorems about `PreAggScheduler` |
| `MCPreAggScheduler` | its small instances |
| `Subscriptions` | one WebSocket connection: the handler and its poll tasks |
| `SubscriptionsProofs` | the theorems about `Subscriptions` |
| `MCSubscriptions` | its small instances |
| `DateRange` | `resolve_date_range` over a civil calendar, and a clock |
| `DateRangeProofs` | the theorems about `DateRange` |
| `CubeSchema` | cubes and members, their resolution and visibility, row-level rules, `validate_cube` |
| `SqlBuilder` | what the statement of a query answers, for any contents of the database |
| `Envelope` | masks and presentation of an answer |
| `Rollup` | the router, the tables of rollups, the statement over them, the fallback |
| `Queries` | queries over data that grows and rollups that are built at any moment: composes the five above |
| `QueriesProofs` | the theorems about `Queries` |
| `MCDateRange`, `MCQueries` | their small instances |
| `SchemaChanges` | schema versions: diff, CI gate, merge, registration, clients |
| `SchemaChangesProofs`, `MCSchemaChanges` | its theorems and its small instance |
| `Requests` | `POST /v1/ask` and the long poll `POST /v1/subscribe` |
| `RequestsProofs`, `MCRequests` | its theorems and its small instance |

### QueryOrchestrator

*State.* `cached[k]`, `storedSig[k]`, `probeCache[c]` are the Redis entries
`key`, `key:probe` and `cubepy:probe:<cube>`; `inflight[w]` is `_inflight` of
worker `w`, its values being the calls whose futures it holds;
`futureCancelled[l]` says that the future of leader `l` is cancelled;
`source[c]` is the version of the data behind a cube; `call[l]` holds the
control point and the locals of the `load()` running in slot `l`, and is reset
when the caller takes the result, so that a slot stands for any number of calls
one after the other.

*Data.* What an answer depends on is the version of the data it was computed
from; what a probe returns is the version it saw. An envelope also carries the
key it was computed for. A key stands for the query together with the
tenant, the user and the role: `make_cache_key` hashes exactly these. A
signature is taken to identify its version: the probe's SQL returns something
else after each change, and never an earlier value again.

*Actions.* A coroutine yields at each await, so a step is the effect of one
awaited call together with the local computation that led to it. What a
coroutine does to `_inflight` between two awaits (`Join`, `Lead`, and the end of
a call) is an action of its own: between the effect of a Redis command and the
resumption of its caller others may run, which is how a key may come to be
executed twice. Lines of the code against actions:

| `load` | Action |
|---|---|
| 171-175, 262-274 | `Begin` / `FirstPoint`; `BeginUncached` |
| 274-283 | `ReadProbeCache`, `RunProbe`, `StoreProbe` |
| 176-186 | `Miss`, `Hit`, `Validate`, `Delete` |
| 189-198 | `Join`, `Lead` |
| 201, 250-252 | `Execute` (through `ComputedFrom`) |
| 203-206 | `SetEx`, `SetExSig` |
| 208-217 | `End`, used by `Settle`, `Fail`, `CancelRunning` |
| 192 | `CancelWaiting` |

*Failures.* `Fail` may strike at every await: the command may have taken effect
just before (the failure follows its step) or not. `CancelRunning` and
`CancelWaiting` cancel the task of a call: nothing in the repository does so by
itself, but the server does when it shuts down and the GraphQL WebSocket handler
when a client stops an operation. asyncio passes the cancellation of a task on to
the future it awaits, which is the one all waiters share: `CancelWaiting` ends
them all. `End` is one step because lines 208-217 contain no await; waiters
resume later, but nothing they read can change in between.

*Environment.* Data changes up to `MaxVersion`; each Redis entry may expire at
any moment. Which TTL was asked for (lines 285-302) is abstracted: every length
is covered by an expiry that may come at once, late or never.

*Not covered.* Answers from rollup tables (lines 222-249): `Execute` is the
fallback to the base cube, with `preagg_enabled` left at its default (what a
rollup answers is in `Rollup`). Queries
over several cubes: only the primary cube is probed, and an envelope has one
version. `refresh_key.every = 0`, which makes Redis refuse every `SETEX`.

### PreAggScheduler

*State.* `phase[p]` is where the lifespan of process `p` is (`api/app.py`
49-55); `task[p][r]` is where `p` is with rollup `r`, in `build_all` while
starting and in the rollup's `_loop` while serving; `seen[p][r]` is the version
that the CREATE it has open has selected. `table[r]` is the version the table of
`r` holds, `None` when there is no table; it belongs to the database and
survives the processes. `published[r]` is a history variable.

| Code | Action |
|---|---|
| `start` 53-55, `build_all` 35-46 | `Start`, `BuildNext` |
| `start` 56-60 | `Serve` |
| `_loop` 66-69 | `Wake` |
| `build` (`rollup_builder.py` 78-84) | `Drop`; `Read`, then `Commit`, `Breaks` or `Refused` |
| the two `except Exception` | `Done`, in `Refused`, `Breaks` and `BuildFails` |
| `shutdown` 75-80, process death | `Shutdown`, `Crash`, both by `Stop` |

*The database.* `execute_with_session` commits each statement, so DROP and
CREATE are two transactions, and others run between them. The model assumes that
a CREATE TABLE AS reserves the name before it selects, that a second CREATE of
the name waits and then fails, that a DROP does not see a table that is not
committed, and that the transaction of a cancelled task is rolled back. The last
holds for the async executor; under DuckDB the statement runs in a thread, goes
on after the cancellation and may commit.

*Data.* A table is the version it was selected from; what the SELECT computes is
not modelled. `Broken` are rollups whose SQL the database refuses at each build;
any other statement may fail `MaxFailures` times. `build_all` takes the rollups in
any order. Two processes are a deployment in which the new process starts while
the old one still runs.

### Subscriptions

*State.* `handler` is where `subscribe()` is; `subs` is its local of that name;
`poll[p]` holds the locals of the `_poll` in slot `p`: where it is, its message
id and query, the result in its hand, the one it last pushed, and whether it is
cancelled. A slot whose task is done and no longer in `subs` serves the next
subscription. `send_lock` has no variable: whoever is at a send holds it
(`LockFree`). `alive` is the client's end of the connection, `data[q]` what a
query returns; `got` is a history variable of what the client was pushed.

| `routes_ws.py` | Action |
|---|---|
| 79-96 | `Authenticate`, `RefuseClient` |
| 102-123 | `Subscribe`; `RefuseQuery`, `HandlerLocks`, `HandlerTells` |
| 124-128 | `Unsubscribe` |
| 129-138 | `HandlerEnds`, `HandlerRaises`, both by `Leave`; `Close` |
| 52-56 | `Load`, `LoadRefused`, `LoadRaises` |
| 57-61 | `Lock`, `Tell` |
| 63-73 | `Lock`, `Push`, `Pushed`; `SendRaises` |
| 74 | `Wake` |
| `task.cancel()` | `Cancelled`, then `Unwind` of each task |

*Cancellation.* A task that was cancelled gets `CancelledError` at the await it is
at and runs no line of `_poll` after it, whether or not what it awaited was
ready. So a cancelled poll only unwinds; until it does it may still hold the
send lock. A send is two steps, since the frame is written before `send_json`
returns, and the cancellation may come in between.

*Data.* A hash is the result it is the hash of. The interval is abstracted: a
sleep ends. A message the client sent before it went away is not read; a client
that does not read is one whose sends return late.

### DateRange

Instants are integers, `TicksPerDay` to a day of the wall clock of the query's
time zone; the last tick of a day stands for 23:59:59.999999, so that the code's
`timedelta(microseconds=1)` is one tick. Months are numbered from January 2000,
and the calendar (leap years, the lengths of months, weekdays) is Python's, an
external definition. `UnitStart` is `_week_start`, `_month_start`,
`_quarter_start`, `_year_start`; `Plus` is `timedelta` or `_add_months`, whose
`replace` fails where the month has no such day (`InvalidDate`);
`ResolveDateRange` is `resolve_date_range`, one case per keyword. The variable
`now` is the moment of the call, `Tick` the time between two calls.

### CubeSchema, SqlBuilder, Envelope, Rollup, Queries

*Data.* A cube is a record of functions from member names; a database gives each
cube a set of rows; a member's SQL is a column; values are numbers or `None`
(NULL), times are instants of `DateRange`. A query has the fields of
`sqlgen/query.py`; `IsQuery` is the shape that `Query.parse` gives it, with one
restriction of the model's own: no measure is grouped by as well (the answer would
have two columns of one name). The columns of an answer are named by paths; two
buckets of one path have one name in the SQL and are told apart here by their
granularity (`Bucket`, `ColumnOf` for what a name stands for, `SelectsOnce` and
`NamesOne` for when the database finds it ambiguous). A row-level rule and the SQL
of a segment are conditions, each a list of alternatives. `UniverseAssumption` says that there are finitely
many cubes and that a row has the columns of its cube; `JoinsAssumption` is what
`belongsTo` and `hasOne` declare, that the join compares a key of the joined cube;
`ConditionsAssumption`, that a rule names columns its cube has.

*The statement.* `SqlBuilder` does not produce text but what the text means:
`JoinedRows` (FROM and LEFT JOIN), `WhereTexts` and `SelectedRows` (WHERE),
`Groups`, `Aggregate`, `Having`, `GroupedRows`, `WindowValue` and `Outer` (the
outer query of window functions), `Pages` (ORDER BY, LIMIT, OFFSET: every choice
the database has among ties). `Renders` is when `SQLBuilder` does not raise,
`Runs` when the database does not: every column is one that its cube has, and
every name that an ORDER BY uses is one that its query has, once; an aggregate that
window functions have made the inner query select is one too, listed or not. There is one place where the text itself
matters: a condition is a sequence of OR-operands, each a sequence of
AND-operands, and joining two conditions with AND joins the ends of their texts,
since AND binds closer than OR, unless there are parentheses (`And`, `Parens`).
Rules and segments stand in WHERE without any (`AlternativesText`), as the code has it.
What adds no condition stands as a TRUE among them, which leaves the text the same.
A filter is compiled by a recursive function over its `Nodes`, the filters it is
composed of up to `MaxNesting` levels down (the code has no such bound).
The rules are collected where the code collects them, before the filters are
rendered (`RuledCubes`), the joins after (`JoinedCubes`).

*Rollups.* `Candidates` are the rollups that `PreAggRouter.match` would take and
`Route` the first of them, which it does take; `Table` is the rows that
`RollupBuilderService.build` selects, `RollupRows` the statement of
`RollupBuilder`, which lists a dimension beside the buckets of the same path
(`RollupKeys`), `Execute` lines 222-252 of `orchestrator.py`: a rollup that has
no table or whose statement raises leaves the query to the base cube.
`RegistryAssumption` says that the registry's cubes passed `validate_cube` and that
their rollups are by days or longer units, which are those that `DateRange` knows.

*Envelope.* `SentRow` is `build_envelope` for one row: the row as the executor has
it, a dict in which of two columns with one name the last stands (`Fetched`), masks
under member paths, then presentation, a bucket under two keys, the second with the
last granularity of its path (`LastOf`).

*Actions* of `Queries`: `Insert`, by the owners of the data, and `BuildAll`, as if
no query came meanwhile (`PreAggScheduler` has what happens then). A query is no
action: it changes nothing, and the invariants ask every query of `Queried` for
every caller in each state.

### SchemaChanges

*State.* `main` is the schema on the main branch, `proposed` the version CI is to
judge, `loaded` the server's registry and `unread` what it has still to register;
`client` holds a path and, as a history variable, what it meant when it was taken
up.

| Code | Action or operator |
|---|---|
| `diff.py` `diff_cubes`, `_members` | `DiffCubes`, `CubeChanges`, `MemberChanges`, `Twin` |
| `diff.py` `main --check` | `Check`, in `Merge` and `Reject` |
| `schema/loader.py` `_cube_from_dict`, `validate_cube` | `Register`, `CubeSchema!Valid` |

`Propose` is the authors' action: any version of `Versions`. A cube may declare a
name again, or as members of several kinds, and no check of the code refuses it:
`FirstOf` has the first declaration of each name, which the registry finds, `later`
the last of those declared again, which the diff compares (`MemberOf`), and the two
look at the kinds in opposite orders (`KindOf`, `CubeSchema!KindIn`). A member may
change its kind. `Followed` is a client that moves to the new name of a rename it is
told of; whether the cube it looks at declared every name once in all versions since,
and whether its member was a segment in one, is remembered beside the path as
history. `Restart` is a server that dies and starts again, while it loads as well.
The SQL of a member is the set of the columns in it, that of a join the set of its
qualified columns. `catalog.py`, which searches the text of one schema, is not
modelled.

### Requests

*State.* `ask` is the question being answered: its phase, the number of the
planning attempt and of the post, the query that is loaded, the rows, the status.
`audit` is the sequence of calls of `_audit`. `poll` is a long poll: its phase, the
time that is left, the result of its first load and the latest one; `has` is what
the client was last answered.

| Code | Action |
|---|---|
| `routes_ask.py` refusals before the first call | `Ask` |
| `routes_ask.py` planning call, `llm.py` retry | `Ask`; `PostFails`, `NoChoices`, `Unparsable` |
| `routes_ask.py` checks and repair round | `Planned`, `Repair`, `ReplyRaises`, `NotAnswerable` |
| `routes_ask.py` load | `AskReads`, `AskRaises` |
| `routes_ask.py` interpretation, answer | `AskLoaded`, `Interpreted` |
| `routes_rest.py` `subscribe` | `Subscribe`, `PollReads`, `PollRaises`, `Sleep`, `Compare`, `Answer` |

A reply of the model is a payload by what the route makes of it: the members it names
where `_collect_members` looks, and the function that cannot take it, if one cannot:
`_collect_members` or `_normalize_filter_numbers`, whose AttributeErrors and
TypeErrors nobody catches, or `Query.parse`. A load reads the data at one moment or raises, which is
what `QueryService` promises.

## 3. Runs

| Run | Instance | Checks |
|---|---|---|
| `orchestrator_safety` | 3 calls, 1 key, cached probe, 1 change, all cancellable | `TypeOK`, `NoStrandedWaiter`, `InflightExact`, `SignatureBehindData`, `CacheNeverGoesBack` |
| `orchestrator_liveness` | 2 calls, 2 keys of a probed and an unprobed cube, 1 change, one call cancellable, fairness | `EveryLoadReturns`, `FreshOnceSourceRests`, `AnswersOwnKey` |
| `orchestrator_refinement` | 2 calls, 2 changes, probe on each call | `ImplementsService` |
| `scheduler` | 2 processes, a sound and a broken rollup of one cube, 1 change, 1 failure, fairness | `TypeOK`, `RollupsOnlyAdvance`, `StartupEnds`, `RefreshedWhileServing` |
| `subscriptions` | 1 message id, 1 query, 2 tasks, 2 results, fairness | `TypeOK`, `OnlySubscribedPoll`, `HashIsWhatClientHas`, `NothingOutlivesClient`, `ClientCatchesUp` |
| `dates` | every day from December 2023 to March 2025, 3 moments a day | `ResolvesToWholeDays`, `UnitsFollowEachOther`, `RangesTileTime` |
| `queries` | 2 cubes, 3 roles, 3 rollups, some 70 queries, every subset of 6 rows | `TotalsSurviveGrouping`, `FiltersSelectGroups`, `HiddenRowsDoNotMatter`, `WindowsRunOverTheAnswer`, `SentAsAnswered`, `FittingRouteIsExact` |
| `schema` | 2 cubes; 192 choices of what is declared under 3 names, and 10 other changes | `EveryMemberAccountedOnce`, `SilenceMeansSame`, `FollowedPathsKeepMeaning`, `MergedSchemasLoad` |
| `requests` | 2 questions, 6 payloads, a long poll of 3 ticks, 2 changes, 1 failing load, fairness | `AuditTellsTheOutcome`, `RequestsReturn`, `PollerCatchesUp` |

Three more runs end in counterexamples; they are listed at the end of this section.

What they show. `NoStrandedWaiter` and `InflightExact` say that sharing an
execution is safe: whichever way a leader ends, its entry is gone and everybody
who waited has ended with it. `SignatureBehindData` is what makes the probe
sound: a stored signature never claims more than the data beside it, so the
comparison of line 182 errs towards executing again. `CacheNeverGoesBack` and
`ImplementsService` are about order: although hits, joins, executions and
deletes overlap, no later caller gets older data than an earlier one of the same
key already got. `FreshOnceSourceRests` is the purpose of the probe: a change is
seen in the end, without any envelope expiring.

Bounds. Three calls are a leader, a waiter and a late comer: each action
concerns at most a leader and one other call besides the waiters of its future,
and the waiters are treated alike. One change (two versions) is enough for a
stale and a fresh value; the refinement has two, for an answer between them. Two
keys on two cubes show that keys do not mix. All runs have one worker, as the
repository deploys it; the theorems of section 4 that have no hypothesis are for
any number. A slot runs calls again and again, so the length of histories is not
bounded. Deadlock checking is on: a slot can always begin another call.
Symmetry (the slots of one worker) is used in safety runs only, the refinement
included.

Fairness. `FairSpec` assumes weak fairness of each call's own steps: the event
loop resumes a coroutine whose await completed, and Redis and the database
answer or fail every request. It assumes that a cached probe result runs out,
since it is stored with a TTL of `updateWindow` seconds. It does not assume that
callers call, that data changes, that anything fails or that an envelope expires.

The scheduler's run. `RollupsOnlyAdvance` says that overlapping builders of one
table do it no harm: a slow CREATE of older data cannot replace a newer table.
`RefreshedWhileServing` says that one serving process is enough to recover from
whatever was left behind, a table dropped by a build that died included.
`StartupEnds` is the promise of `build_all`: a broken rollup does not keep the
application from serving. Two processes are two builders at every point of a
build; the broken rollup shows that `build_all` goes on after it; one failure at any
statement stands for several, since a build that failed starts again from its
DROP. Fairness: sleeps end, the database answers, and a CREATE that is blocked
again and again gets its turn (strong fairness, as the database queues those who
wait for a lock). No process is made to start, stop or die.

The run of a connection. `OnlySubscribedPoll` and `HashIsWhatClientHas` say that
subscribing again under the same id, unsubscribing and leaving are safe at
every await of the old task, the ones between a frame and its bookkeeping
included. `ClientCatchesUp` is the purpose of a subscription,
`NothingOutlivesClient` that of the `finally` clause, which awaits only the tasks
still in `subs`. Two tasks are one in force and one replaced that has not unwound
and may hold the lock; the theorems of section 4 have the safety properties for
any number of message ids and tasks. Two results are the one pushed and another,
and data may return to what it was. Fairness: the event loop resumes whoever can
go on, loads and sends end, and the send lock is first in, first out. The client
owes nothing.

The runs of pure code. `dates` moves a clock over every month end of a leap year
and of one that is not: `UnitsFollowEachOther` relates the keywords to each other
("last N" is the current unit after N whole ones), `RangesTileTime` relates two
successive moments, so that reports made unit after unit leave no gap. Windows go
up to 13 units, past a year of months. `queries` asks its properties of every
content of the tables, and the interesting rows are in them: no city, no amount, a
user without partner, a tenant that the viewer must not see, two sides of a month
end inside one week. Its properties compare two statements of one query (with and
without groups, filters, hidden rows) or a statement and its rollup, so that none
restates a definition. Four conditions restrict them to what the code keeps:
`JoinsAddNothing` (a hasMany join multiplies rows, and the rules of a joined cube
filter those of the primary one), `NoneBare` (no filter, segment or rule is an OR
without parentheses: the finding of `queries_where`), `Fits` (that of
`queries_rollups_on`), and that a routed query with a limit or an offset has an
order and one without groups is left out. All conditions are met
in the run, by queries of each kind, two buckets of one path that a rollup by days
serves among them. The run's filters nest twice, as deep as `MaxNesting` allows; the
theorems have any depth. Data and rollups are small because each row differs
in what matters to some query, and a property that fails does so for at most two
rows.

The run of schemas. `Proposals` has every choice of what is declared under three
names of a cube: a measure, a dimension, a segment, two of these with one name, one
declared again, or nothing. So renames, swaps, and changes of kind, type and column
happen in one version, and versions follow each other without bound.
`FollowedPathsKeepMeaning` is what a client relies on when CI gates with `--check`, as
far as the code keeps it: that a path resolves and reads the same table is
unconditional, that it reads the same SQL is for cubes that declared every name once,
that it has its kind and type for members that were never a segment. `SilenceMeansSame`
has the same two conditions. What goes beyond them does happen, as the end of this section says.
`MergedSchemasLoad` is what a server does. No fairness: all are safety.

The run of requests. `AuditTellsTheOutcome` is about the lines that are written, for
failures of each kind in each phase: none is written twice, early or of another
outcome, and an answer with data has one. `RequestsReturn` and `PollerCatchesUp`
are about retries, timeouts and a change between two long polls. Two questions
show that the second does not see the first's leftovers; three ticks at two a
sleep, that the time runs out between two sleeps. Fairness: loads end (that is
`EveryLoadReturns`), posts and sleeps end by their timeouts, the client polls
again, and `MaxFailures` bounds the loads that raise. Nobody has to ask, and the
data need not change.

### Where the code and its documentation differ

Each of these runs is expected to end in a counterexample.

| Run | Property | Disagrees with |
|---|---|---|
| `orchestrator_torn_read` | `HitNotOlderThanProbe` | `tests/test_orchestrator.py:145` "probe changed -> invalidate -> re-exec" |
| `queries_where` | `SelectedRowsSatisfyAll` | `security/permissions.py:57` "WHERE fragments to AND-join into the base query" |
| `queries_rollups_on` | `RoutedAnswerIsBase` | `config.py:28` "flipping this on never yields wrong results" |

- *Torn read.* Call A reads the envelope of version 0. Call B, whose probe saw
  version 1, deletes it, executes, stores the envelope and the signature of
  version 1. A, whose probe saw version 1 too, reads the new signature, finds
  that it matches, and returns the old envelope. `ImplementsService` still
  holds: the answer is staler than A's own probe, but not than anything served
  before the call was made.
- *An OR in WHERE.* `notInDateRange` renders `col < :a OR col > :b` without
  parentheses, beside fragments joined by AND. A row after the range is counted,
  whatever the row-level rules and the other filters say of it. The same happens to a
  row-level fragment that is itself an OR, beside another fragment, and to the SQL of
  a segment (`builder.py:308-312`; `RulesText` and `AlternativesText` have them bare).
- *Rollups on.* The router looks at no filter but those on measures, at no date
  range and at the first time dimension only. A query that asks for a part of a
  bucket, for months of a rollup by weeks, or for weeks first and days second of
  such a rollup, gets another answer than the base cube's. `Fits` says what a query
  must keep to: its dimensions, its filters and the caller's rules name columns that
  the rollup keeps as they are; a time dimension is such a column or the rollup's
  own, by a unit that the buckets divide and with a range of whole buckets, and of
  several buckets of it each must fit. Within it, `FittingRouteIsExact` has the two
  answers equal, and the theorem `Fitting` proves it. Beyond it, a routed query
  with a limit and no order answers other rows (the base cube's statement adds an
  order), a sum of counts over no rows is NULL and not 0, a path that is a dimension
  and a time dimension is grouped by itself and by its bucket, and a bare OR in WHERE
  meets its neighbours in another sequence.

Four more differences were met while the code was read. No run is about them, and
the properties beside them are stated so as not to promise what they break.

- *Asks without a line.* `config.py:43` has an "audit trail for every ask". A question
  whose model is down or writes no JSON (503), whose reply has an unexpected shape,
  whose response has no choices, or whose load raises (500) leaves no line, nor does
  one that is refused before the model is asked, the empty one (400) among them.
  `AuditTellsTheOutcome` is about the lines that there are.
- *Members under `or_`.* `routes_ask.py:8` has "member whitelist + `Query.parse`
  fail-closed validation before anything reaches the executor". The whitelist opens
  the keys `or` and `and` of a filter, `Query.parse` takes `or_` and `and_` as well
  (`populate_by_name`): what a reply names under these, the whitelist does not see.
  `Runnable` is what the route decides by what it sees, and no property says more.
- *Silent and failing diffs.* `diff.py:3` "classifies every change". A segment has no
  type: a dimension that becomes a segment of its name and SQL is no change, and a
  segment that comes or goes ends the comparison in an AttributeError (`DiffRaises`).
  Nor is a change of a declaration seen that is not the last of its name.
- *Joins that impact analysis misses.* `catalog.py:171` asks "which members/joins
  break". `impact` skips the cubes over other tables before it looks at their joins.
  That of `posts` with `users` names `users.id` (`tests/test_catalog.py:46`) and
  breaks with it.

Other behaviour that the models have and no property forbids: a call may join an
execution that began before its own probe saw a change; a call that missed before
a leader stored its result, and resumes after it, executes the query again;
cancelling one waiter cancels the future that all share; the poll task of a
subscription whose load raises anything but three exceptions ends without a word;
a reply of the language model that is no JSON is answered 503 without repair; of two
members with one name, or of two kinds of it, the diff compares one and a query gets
the other.

## 4. Proofs

`QueryOrchestratorProofs` proves, from the assumptions on the constants alone:

| Theorem | Property | Hypothesis |
|---|---|---|
| `TypeCorrect` | `TypeOK` | |
| `InflightIsExact` | `InflightExact` | |
| `WaitersHaveLeaders` | `NoStrandedWaiter` | |
| `AnswersAreOwn` | `AnswersOwnKey` | |
| `SignaturesTrail` | `SignatureBehindData` | one worker |
| `CacheMovesForward` | `CacheNeverGoesBack` | one worker |

`PreAggSchedulerProofs` proves of the scheduler:

| Theorem | Property | Hypothesis |
|---|---|---|
| `TypeCorrect` | `TypeOK` | |
| `RollupsAdvance` | `RollupsOnlyAdvance` | |

`SubscriptionsProofs` proves of a connection:

| Theorem | Property | Hypothesis |
|---|---|---|
| `TypeCorrect` | `TypeOK` | |
| `OnlySubscribed` | `OnlySubscribedPoll` | |
| `HashIsSound` | `HashIsWhatClientHas` | |

`QueryOrchestratorHistoryProofs` proves of the orchestrator with its history:

| Theorem | Property | Hypothesis |
|---|---|---|
| `AnswersKeepOrder` | (`HIInv`) | one worker |
| `OrchestratorImplementsService` | `ImplementsService` | one worker |

`DateRangeProofs` proves of the keywords:

| Theorem | Property | Hypothesis |
|---|---|---|
| `UnitsFollow` | `UnitsFollowEachOther` | |
| `RangesTile` | `RangesTileTime` | |
| `WholeDays` | `ResolvesToWholeDays` | |

`QueriesProofs` proves of the answers of base cubes and rollups:

| Theorem | Property | Hypothesis |
|---|---|---|
| `Sent` | `SentAsAnswered` | |
| `Hidden` | `HiddenRowsDoNotMatter` | |
| `Filters` | `FiltersSelectGroups` | |
| `Totals` | `TotalsSurviveGrouping` | |
| `Windowed` | `WindowsRunOverTheAnswer` | |
| `Fitting` | `FittingRouteIsExact` | |

`SchemaChangesProofs` and `RequestsProofs`:

| Theorem | Property | Hypothesis |
|---|---|---|
| `MergedLoads` | `MergedSchemasLoad` | |
| `AccountedOnce` | `EveryMemberAccountedOnce` | |
| `Silence` | `SilenceMeansSame` | |
| `PathsKeepMeaning` | `FollowedPathsKeepMeaning` | |
| `AuditIsTrue` | `AuditTellsTheOutcome` | |

The argument of the orchestrator's. `Sharing` is `TypeOK`, `InflightExact` and `NoStrandedWaiter`
together: an ending call answers all its waiters because it is the leader of
each of them, and a joiner finds a leader because no entry is stale, so neither
is inductive without the other. `Snapshots` adds that everything stored or held
under a key was computed for that key from data that has existed; `AnswersOwnKey`
needs it because a hit returns what some earlier call stored. `Refreshes` adds
what a leader still has to store: between its execution and its `SETEX`es, its
envelope is no older than what is cached, its signature no newer than its
envelope, and between the two `SETEX`es the cached envelope is its own or gone.
`IInv` is the conjunction of the three. A step either lowers (entries stay or
go, nobody begins to store: lemma `NextLowers`) or is one of the three steps of a
refresh, each with a lemma of its own.

The hypothesis of one worker is needed: `_inflight` belongs to a process, so two
processes that share Redis may refresh one key at the same time, store their
envelopes and signatures in an interleaved order, and leave an old envelope
beside a newer signature; that is a reachable state of the model with two
workers. The repository starts the application with a single uvicorn process.

The refinement needs one invariant more, of the history variables: nothing that
has been answered under a key is newer than what is cached there, than the
envelope of a leader that has still to store it, or than the data; and what was
answered before a call began is no newer than the envelope it has read
(`Histories`). So the answer with which a call ends is one that the service may
give: of its own key, of a version that existed, and no older than any answer
given before it began. A call that begins, a hit, a leader that settles (one
step for it and all its waiters), a failure and a caller that takes its result
are steps of the service; all others are none.
Of the orchestrator, `EveryLoadReturns` and `FreshOnceSourceRests` (liveness) stay
with TLC.

The scheduler's invariant: at most one CREATE of a table is open (`OneCreator`),
so while it is, no other commits, and what it has selected stays at least as new
as anything the table has had (`SelectedNotBehind`); a table never has had data
newer than the cube's (`PublishedBehindSource`), which is what a CREATE that
begins needs. Liveness of the scheduler stays with TLC.

The connection's invariant: a running task is registered under its message id
(`OnlySubscribedPoll`), hence no two have the same id, hence what one pushes
disturbs no other's idea of what the client has; `PushesAreRemembered` extends
that idea over the points between two sleeps, the interval between the frame
and the return of the send included. Liveness stays with TLC.

The argument of the keywords'. The units of a kind lie on a grid of days, `Edge`.
The calendar enters in two facts only: a month begins later than the one before
it, and within a month of the average pace of 146097 days in 4800 months
(`Months`). From these the search of `MonthOf` finds the month of any day, and
only that one; hence `UnitStart` is the edge before an instant (`UnitStartIsEdge`),
and `Plus` moves along the grid without meeting a date that does not exist
(`EdgesMove`). The theorems are for every instant from 2000 on and any number of
instants to a day; the run has three to a day.

The answers'. These hold of every content of the tables, so the only invariant of
the steps that is needed is that the rows are of the universe (`SourceIsOfUniverse`);
they assume that queries have the shape that `Query.parse` gives
them (`QueriedAssumption`) and that rules and segments are lists of alternatives, the
rules' of columns that their cube has (`ConditionsAssumption`; otherwise every
statement fails). What carries them is
`SelectedWhen`: a row is selected exactly when its rules, segments, ranges and
filters all hold. That is a theorem about texts joined by AND (`AndJoinOfSingles`,
by induction on their number), and it holds because each has a single alternative
(`Single`): a comparison is one, a composite filter of any nesting is one by its
parentheses, and only a bare `notInDateRange`, a rule or a segment with two
alternatives is none. For `Hidden`, a hidden row
that would be joined fails its own rules; and where all partners of a row are
hidden, the row without them is joined beside NULLs, which meet no rule either
(`SameJoins`). For `Filters`, the rows of a group agree in what filters of
dimensions look at, so they pass together or not at all (`FiltersOfKey`), and the
groups that are left are groups as they were (`GroupsOfFiltered`). The proof showed
what the property had not said: a measure may be listed as a dimension, and a
filter of it is a filter of its aggregate, not of the column that the query groups
by; the property is now about grouped members that are no measures.

`Totals` and `Windowed` rest on a theory of sums over finite sets, which the library
does not have: that there is such a function as `SumFunction` chooses, that it adds
over disjoint unions (`SumUnion`), over the parts of a partition (`SumParts`) and
along an injection (`SumImage`). All are by induction over the subsets of a finite
set (`FiniteInduction`), stated of sets of sets, which needs no operator. For
`Totals`, every aggregate of an additive measure is a sum of weights of joined rows
(`ValueOfGroup`); a row of the primary cube is joined in exactly one way if the joins
add nothing (`AloneAreJoined`, which is where `JoinsAssumption` is used); the groups
are a partition; so both totals are one sum over the selected rows of the primary
cube (`TotalIs`). For `Windowed`, the keys order the rows of the inner query totally
(`PrecedesIsAnOrder`, by the first key in which two rows differ; NULL is the largest;
`WindowOrderIs` has that the columns ordered by are all the keys),
ranks in a finite total order are 1 to its size (`RanksOf`), and the last row's running
total is over all rows (`RunningTotal`). The proof showed that a running total over
an average has no meaning in the model, where an average is a pair: `RunsOver` now
says so.

`Fitting` compares two statements, over a cube and over its rollup. Its invariant is
that the tables are made of the rows they were built from, and these of the
universe (`BuiltFromUniverse`); a filter of a measure may read the clock, so that
this is preserved rests on the clock standing still (`BuiltStays`). A query that is
routed joins nothing (`OneCube`), and each row of its cube is counted in one line of
the table (`Line`). The statement over the table selects a line when the cube's
selects any row that the line counts (`LineSelectsRow`): kept columns have the row's
own values, and a range of whole buckets holds an instant exactly when it holds the
start of its bucket (`WholeUnits`). A line falls into the group of its rows
(`LineGroupIs`), since the start of a month, say, is found from the start of a day
in it (`UnitsNest`). So the lines of a group count the rows of a group of the base
cube, all of them and each once, and the sum of the lines' sums is the sum over
these rows, or NULL for both when nothing was summed (`LinesTotal`). Last, the pages
are of the same order (`SamePages`). The proof showed four things that the property
had not said: the rollup in question is the first that serves the query, not any;
a second time dimension that is not kept must be the first one again, and its own
buckets must be made of the rollup's; an `or_`
without operands is refused by both statements, and `SqlBuilder` had compiled it to
an empty text; and an offset without an order is as free as a limit.

The schemas'. `MergedLoads` is for any schemas, given that the initial ones parse
(`SchemasAssumption`): what is registered and what is not are two parts of the
schema on main, which parses, and a merge brings in only what `Check` has parsed.
The others are about `DiffCubes`, and need of a schema that it is what the
loader makes of files (`CubesAssumption`: finitely many members, measures and
dimensions of types of their own, segments without one). That each member is
accounted for once rests on `Twin` being injective: of several added members alike,
the last is the twin of the first removed one, and of no other. `PathsKeepMeaning`
carries along that what the client holds means on `main` what it meant when it was
taken up (`ClientKept`): a diff that is not breaking removes no member but by a rename
to a twin of its type and SQL, and the client follows; one that stays keeps its SQL,
and its type and kind if it is a segment in neither version (`CommonMember`,
`SameKind`: a type tells the kind). That every name is declared once, and that a
member is no segment, are conditions in the properties and not assumptions on the
schemas: versions that break them are proposed, merged and in the invariant.

`AuditIsTrue` is for any payloads, any number of questions and any failures: the
pending question has no line in the audit yet, all lines are of questions asked
before, no two of one (`RequestsProofs!IInv`).

What is only model-checked. All liveness, as above: fairness and `ENABLED` are out
of the prover's reach. Every invariant and every action property of a passing run is
the property of a theorem. Induction is used where it can be stated of a set (a set
of numbers that holds 0 and with each number the next one holds all: the lemma
`Induction`), for the largest name that `Twin` chooses, for the conditions of a
statement, for the levels of a filter and for sums; the library's induction theorems
take an operator, which no prover here can instantiate.

## 5. Not modelled, and the plan

The remaining steps, in this order:

1. `QueryOrchestrator` with the answers from rollup tables (lines 222-249) over the
   tables of `PreAggScheduler`: what a stale rollup does to the probe's promise,
   since its answer is stored beside the newer signature. The choice itself and
   its answers are in `Rollup`.
2. Envelopes with a version per cube, for queries that join cubes of which only
   the primary one is probed.

Left out, with the reason:

- the four LIKE operators, operators with missing values, and time zones other
  than UTC in `SqlBuilder` and `Rollup`: values are numbers, and the offset of a
  zone is a function of the calendar that Python and the database provide;
- the text of statements, bind parameters, number and time formats, YAML syntax,
  prompts, error bodies, the GraphQL schema: text rendering, which the
  repository's tests compare with expected strings;
- token decoding, LLM, Redis and database clients: libraries, taken by what they
  promise;
- multi and compareDateRange requests, which gather loads of `QueryOrchestrator`
  and promise nothing about them together; `/v1/meta` and `/v1/sql`, which only
  read;
- `client`, a thin wrapper; samples and testing helpers, which do not run in
  production; the scripts in the root of the repository, which are experiments.
