------------------------------ MODULE MCQueries ------------------------------
(***************************************************************************)
(* A small shop for TLC.  Orders fall on both sides of the end of January  *)
(* 2024, which is in the middle of a week; one has no city and no amount,  *)
(* one a user that is not in the users cube.                               *)
(***************************************************************************)
EXTENDS Queries

CONSTANT Null    \* the same as None, for the definitions below

Halves      == 2
Instant(i, day, half) == (FirstOfMonth(i) + day - 1) * Halves + half
Jan31       == Instant(288, 31, 1)
Feb1        == Instant(289, 1, 0)
Feb3        == Instant(289, 3, 1)
Today       == Instant(289, 2, 1)

-----------------------------------------------------------------------------
Roles    == {"admin", "viewer", "manager"}
Admin    == [role |-> "admin",   tenant |-> 1, user |-> 7, department |-> 1]
Viewer   == [role |-> "viewer",  tenant |-> 1, user |-> 1, department |-> 1]
Manager  == [role |-> "manager", tenant |-> 1, user |-> 8, department |-> 1]
Callers  == {Admin, Viewer, Manager}

Clear    == [r \in Roles |-> Null]
Fixed    == [r \in Roles |-> IF r = "admin" THEN Null ELSE "fixed"]

Column(sql, type) ==
    [sql |-> sql, type |-> type, shown |-> Roles, mask |-> Clear, filters |-> <<>>,
     formula |-> <<>>]

FilterOn(cube, name, value) ==
    [member |-> <<cube, name>>, operator |-> "equals", values |-> <<value>>]

Orders ==
    [columns  |-> {"id", "created", "city", "user", "tenant", "department", "amount"},
     measures |->
        [count   |-> Column(Null, "count"),
         revenue |-> [Column("amount", "sum") EXCEPT !.mask = Fixed],
         inOne   |-> [Column("amount", "sum") EXCEPT !.filters = <<FilterOn("orders", "city", 1)>>],
         users   |-> Column("user", "countDistinct"),
         most    |-> Column("amount", "max"),
         mean    |-> Column("amount", "avg"),
         share   |-> [Column(Null, "calculated") EXCEPT !.formula = <<"revenue", "count">>],
         running |-> Column("revenue", "runningTotal"),
         place   |-> Column("count", "rank")],
     dimensions |->
        [city    |-> Column("city", "number"),
         user    |-> [Column("user", "number") EXCEPT !.shown = {"admin", "manager"}],
         created |-> [Column("created", "time") EXCEPT !.mask =
                         [r \in Roles |-> IF r = "viewer" THEN "hash" ELSE Null]]],
     segments |-> [cityOne |-> [alternatives |-> <<<<"city", 1>>>>, shown |-> Roles],
                   inTown  |-> [alternatives |-> <<<<"city", 1>>, <<"city", 2>>>>, shown |-> Roles]],
     joins    |-> [users |-> [left |-> "user", right |-> "id", relationship |-> "belongsTo"]],
     shown    |-> Roles,
     hasRules |-> TRUE,
     rules    |-> [ctx \in Callers |->
                      IF ctx.role = "admin" THEN <<>> ELSE <<<<<<"tenant", ctx.tenant>>>>>>],
     securityColumns |-> {"tenant", "user", "department"},
     preAggregations |->
        <<[name |-> "byWeek", measures |-> {"count"}, dimensions |-> {}, timeDimension |-> "created",
           granularity |-> "week", securityColumns |-> {"tenant", "user", "department"}],
          [name |-> "byDay", measures |-> {"count", "revenue", "inOne"}, dimensions |-> {"city"},
           timeDimension |-> "created", granularity |-> "day",
           securityColumns |-> {"tenant", "user", "department"}],
          [name |-> "open", measures |-> {"revenue"}, dimensions |-> {"city", "user"},
           timeDimension |-> "created", granularity |-> "day", securityColumns |-> {}]>>]

Users ==
    [columns    |-> {"id", "plan"},
     measures   |-> [people |-> Column(Null, "count")],
     dimensions |-> [plan |-> Column("plan", "number")],
     segments   |-> <<>>,
     joins      |-> [orders |-> [left |-> "id", right |-> "user", relationship |-> "hasMany"]],
     shown      |-> Roles,
     hasRules   |-> TRUE,
     rules      |-> [ctx \in Callers |-> IF ctx.role = "manager" THEN <<<<<<"plan", 1>>>>>> ELSE <<>>],
     securityColumns |-> {"plan"},
     preAggregations |-> <<>>]

Cubes == [orders |-> Orders, users |-> Users]

Order(id, created, city, user, tenant, amount) ==
    [id |-> id, created |-> created, city |-> city, user |-> user, tenant |-> tenant,
     department |-> 1, amount |-> amount]

Data ==
    [orders |-> {Order(1, Jan31, 1, 1, 1, 5), Order(2, Feb1, 1, 2, 1, 7),
                 Order(3, Feb3, Null, 1, 2, Null), Order(4, Jan31, 2, 9, 1, 5)},
     users  |-> {[id |-> 1, plan |-> 1], [id |-> 2, plan |-> 2]}]

-----------------------------------------------------------------------------
O(name)  == <<"orders", name>>
Os(names) == [i \in DOMAIN names |-> O(names[i])]

Filter(path, operator, values) == [member |-> path, operator |-> operator, values |-> values]

Blank ==
    [measures |-> <<>>, dimensions |-> <<>>, timeDimensions |-> <<>>, segments |-> <<>>,
     filters |-> <<>>, order |-> <<>>, limit |-> Null, offset |-> 0]

By(granularity, range) ==
    [path |-> O("created"), granularity |-> granularity, dateRange |-> range]

Twice(unit, other) == <<By(unit, Null), By(other, Null)>>

January == Between(OnDate(Jan31 - 60), OnDate(Jan31))

MeasureLists == {Os(<<"revenue", "count">>), Os(<<"inOne", "users">>), Os(<<"share", "mean">>),
                 Os(<<"revenue", "running", "place">>), Os(<<"running">>)}

Groupings ==
    {[Blank EXCEPT !.dimensions = <<O("city")>>],
     [Blank EXCEPT !.dimensions = <<<<"users", "plan">>, O("city")>>],
     [Blank EXCEPT !.timeDimensions = <<By("day", Null)>>],
     [Blank EXCEPT !.timeDimensions = <<By("week", Null)>>],
     [Blank EXCEPT !.timeDimensions = <<By("month", LastUnits(1, "month"))>>, !.dimensions = <<O("city")>>],
     [Blank EXCEPT !.timeDimensions = <<By(Null, January)>>, !.dimensions = <<O("city")>>]}

Filters ==
    {<<Filter(O("city"), "notEquals", <<2>>)>>,
     <<Filter(O("city"), "set", <<>>), Filter(O("revenue"), "gte", <<7>>)>>,
     <<[anyOf |-> <<Filter(O("city"), "equals", <<2>>), Filter(O("city"), "notSet", <<>>)>>]>>,
     <<[allOf |-> <<Filter(O("city"), "in", <<1, 2>>),
                    [anyOf |-> <<Filter(O("city"), "gt", <<1>>),
                                 Filter(O("created"), "inDateRange", <<January>>)>>]>>]>>,
     <<[anyOf |-> <<Filter(O("revenue"), "lt", <<6>>), Filter(O("count"), "gt", <<1>>)>>]>>,
     <<[anyOf |-> <<Filter(O("revenue"), "lt", <<6>>), Filter(O("city"), "equals", <<1>>)>>]>>,
     <<Filter(O("created"), "afterDate", <<On(Jan31)>>),
       Filter(O("created"), "beforeDate", <<On(Feb3)>>)>>,
     <<Filter(<<"users", "plan">>, "equals", <<1>>)>>,
     <<Filter(O("created"), "notInDateRange", <<On(Feb1)>>)>>}

Sums == [Blank EXCEPT !.measures = Os(<<"revenue", "count">>)]

Questions ==
    {[g EXCEPT !.measures = m] : g \in Groupings, m \in MeasureLists}
    \cup {[g EXCEPT !.measures = Os(<<"revenue", "count">>), !.filters = f] :
             f \in Filters, g \in {h \in Groupings : h.dimensions = <<O("city")>>}}
    \cup {[g EXCEPT !.measures = Os(<<"count">>)] : g \in Groupings}
    \cup {[Sums EXCEPT !.dimensions = <<O("city")>>, !.order = o, !.limit = n, !.offset = k] :
             o \in {<<>>, <<<<O("revenue"), "asc">>, <<O("city"), "desc">>>>},
             n \in {1, 2}, k \in {0, 1}}
    \cup {[Sums EXCEPT !.dimensions = <<O("city"), O("user")>>],
          [Sums EXCEPT !.segments = <<O("cityOne")>>, !.measures = Os(<<"most">>)],
          [Sums EXCEPT !.segments = <<O("inTown")>>, !.measures = Os(<<"most">>)],
          [Sums EXCEPT !.timeDimensions = Twice("day", "month")],
          [Sums EXCEPT !.timeDimensions = Twice("month", "day")],
          [Sums EXCEPT !.timeDimensions = Twice("day", "month"), !.measures = Os(<<"count">>)],
          [Sums EXCEPT !.timeDimensions = Twice("month", "day"), !.measures = Os(<<"running">>)],
          [Sums EXCEPT !.timeDimensions = <<By("week", Null)>>, !.dimensions = <<O("created")>>],
          [Sums EXCEPT !.timeDimensions = <<By("day", Null)>>, !.dimensions = <<O("city")>>,
                       !.measures = Os(<<"running">>), !.order = <<<<O("revenue"), "asc">>>>,
                       !.limit = 1],
          [Sums EXCEPT !.timeDimensions = <<By("day", On(Feb1))>>],
          [Sums EXCEPT !.timeDimensions = <<By("month", On(Feb1))>>],
          [Blank EXCEPT !.measures = <<<<"users", "people">>>>, !.dimensions = <<O("city")>>],
          [Blank EXCEPT !.measures = Os(<<"nothing">>)]}

\* What the two runs that are expected to fail ask: a filter outside a range, ...
OutsideRange ==
    {[Sums EXCEPT !.filters = <<Filter(O("created"), "notInDateRange", <<On(Feb1)>>)>>]}
\* ... and one that divides a day.
AfterInstant ==
    {[Sums EXCEPT !.dimensions = <<O("city")>>,
                  !.filters = <<Filter(O("created"), "afterDate", <<On(Jan31)>>)>>]}

=============================================================================
