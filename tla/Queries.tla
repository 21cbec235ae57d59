------------------------------- MODULE Queries -------------------------------
(***************************************************************************)
(* Queries over a growing database, with the rollups of all cubes built at *)
(* any moment (build_all; PreAggScheduler has what happens meanwhile), and *)
(* what their answers must be, whatever the database holds.                *)
(***************************************************************************)
EXTENDS Rollup, Envelope

CONSTANTS
    Queried,    \* the queries that are asked
    Contexts,   \* the callers
    Universe    \* the rows that each cube may come to have

ASSUME UniverseAssumption ==
    /\ DOMAIN Universe = DOMAIN registry /\ IsFiniteSet(DOMAIN registry)
    /\ None \notin Int
    /\ \A c \in DOMAIN registry :
          /\ None \notin registry[c].columns
          /\ \A row \in Universe[c] : row \in [registry[c].columns -> Int \cup {None}]

\* What a belongsTo or hasOne declares: the column that its join compares is a
\* key of the cube that is joined.
ASSUME JoinsAssumption ==
    \A from \in DOMAIN registry : \A to \in DOMAIN registry \cap DOMAIN registry[from].joins :
        LET on == registry[from].joins[to]
        IN  on.relationship # "hasMany" =>
                \A a, b \in Universe[to] :
                    a[on.right] # None /\ a[on.right] = b[on.right] => a = b

ASSUME QueriedAssumption == \A q \in Queried : IsQuery(q)

\* Conditions are lists, those of rules of columns that the cube has: otherwise
\* each of its statements fails.
ASSUME ConditionsAssumption ==
    \A c \in DOMAIN registry :
        /\ \A name \in DOMAIN registry[c].segments : IsList(registry[c].segments[name].alternatives)
        /\ \A ctx \in Contexts :
              /\ IsList(RowLevel(registry[c], ctx))
              /\ \A rule \in ToSet(RowLevel(registry[c], ctx)) : IsList(rule)
              /\ RuleColumns(registry[c], ctx) \subseteq registry[c].columns

VARIABLES
    source,     \* the rows of each cube
    tables,     \* the rollup tables of each cube that exist, by name
    builtFrom   \* the source as it was when they were built, None before

vars == <<source, tables, builtFrom, now>>

Init ==
    /\ now = FirstInstant
    /\ source = [c \in DOMAIN registry |-> {}]
    /\ tables = [c \in DOMAIN registry |-> <<>>]
    /\ builtFrom = None

\* The owners of the data insert a row.
Insert(c, row) ==
    /\ row \notin source[c]
    /\ source' = [source EXCEPT ![c] = @ \cup {row}]
    /\ UNCHANGED <<tables, builtFrom, now>>

\* The tables of a cube with these rows.
Built(c, rows) ==
    LET pas == {pa \in ToSet(registry[c].preAggregations) : Creates(c, pa)}
    IN  [name \in {pa.name : pa \in pas} |->
            Table(c, CHOOSE pa \in pas : pa.name = name, rows)]

BuildAll ==
    /\ tables' = [c \in DOMAIN registry |-> Built(c, source[c])]
    /\ builtFrom' = source
    /\ UNCHANGED <<source, now>>

Next == BuildAll \/ \E c \in DOMAIN registry : \E row \in Universe[c] : Insert(c, row)

Spec == Init /\ [][Next]_vars

-----------------------------------------------------------------------------
\* A filter that stands in WHERE without parentheses around its OR.
Bare(f) == ~Composite(f) /\ f.operator = "notInDateRange"

\* No filter, no segment and no rule of the query does.
NoneBare(q, ctx) ==
    /\ \A f \in ToSet(q.filters) : ~Bare(f)
    /\ \A p \in ToSet(q.segments) : Len(Member(p).alternatives) = 1
    /\ \A c \in RuledCubes(q) : \A rule \in ToSet(RowLevel(registry[c], ctx)) : Len(rule) = 1

Plain(q) == WindowsOf(q) = {} /\ q.limit = None

Asked(q, ctx) == Renders(q, ctx) /\ Runs(q)

\* An answer of the base cubes depends on source only, and the source grows in
\* the same ways while there are no rollups.
AskedOfBase(q, ctx) == builtFrom = None /\ Asked(q, ctx)

Total(rows, path) == SumFunction([row \in rows |-> IF row[path] = None THEN 0 ELSE row[path]])

\* The same query without its dimensions and buckets.
Ungrouped(q) ==
    [q EXCEPT !.dimensions = <<>>, !.order = <<>>,
              !.timeDimensions = [i \in DOMAIN q.timeDimensions |->
                                     [q.timeDimensions[i] EXCEPT !.granularity = None]]]

\* The joins of a query add no rows: every row of the primary cube meets at
\* most one of each other cube, none of which has rules of its own.
JoinsAddNothing(q, ctx) ==
    \A c \in JoinedCubes(q) \ {Primary(q)} :
        /\ registry[Primary(q)].joins[c].relationship # "hasMany"
        /\ RowLevel(registry[c], ctx) = <<>>

\* Grouping divides a total and neither adds to it nor loses any of it: rows
\* without a partner in a joined cube, with NULL in a dimension or at either
\* end of a bucket are counted once, whatever a query is grouped by.
TotalsSurviveGrouping ==
    \A q \in Queried, ctx \in Contexts :
        /\ AskedOfBase(q, ctx) /\ Plain(q) /\ JoinsAddNothing(q, ctx)
        /\ \A f \in ToSet(q.filters) : ~IsMeasureFilter(f)
        => \A m \in ToSet(q.measures) : Member(m).type \in AdditiveTypes =>
              Total(Rows(q, ctx, source), m) = Total(Rows(Ungrouped(q), ctx, source), m)

\* The same query without its filters.
Unfiltered(q) == [q EXCEPT !.filters = <<>>]

\* What a filter says of a row of an answer.
Holds(f, row) ==
    True(CompileFilter(f, [leaf \in Leaves(f) |->
        OperatorText(leaf.operator, row[leaf.member], leaf.values)]))

\* Filters of selected measures and of grouped dimensions only choose among
\* the rows that the query has without them: they change no aggregate.  (A
\* measure may be listed as a dimension; a filter of it is one of its aggregate.)
FiltersSelectGroups ==
    \A q \in Queried, ctx \in Contexts :
        LET selectable == ToSet(q.measures) \cup {p \in Grouped(q) : Kind(p) # "measure"}
        IN  /\ AskedOfBase(q, ctx) /\ Plain(q) /\ NoneBare(q, ctx)
            /\ Outputs(q) \ ToSet(q.measures) # {}
            /\ FilterPaths(q.filters) \subseteq selectable
            => Rows(q, ctx, source) =
                  {row \in Rows(Unfiltered(q), ctx, source) :
                      \A f \in ToSet(q.filters) : Holds(f, row)}

\* The source without the rows that the rules of a query keep from its caller.
Allowed(q, ctx) ==
    [c \in DOMAIN registry |->
        {row \in source[c] : c \in RuledCubes(q) =>
            \A rule \in ToSet(RowLevel(registry[c], ctx)) : Meets(row, rule)}]

\* A row that the rules keep from a caller has no influence on an answer: it
\* is the same from a database without it.
HiddenRowsDoNotMatter ==
    \A q \in Queried, ctx \in Contexts :
        AskedOfBase(q, ctx) /\ NoneBare(q, ctx) =>
            Answers(q, ctx, source) = Answers(q, ctx, Allowed(q, ctx))

\* The values of a window function over the rows of an inner query.  (An
\* average is a pair to the model and has no running total.)
RunsOver(w, inner, values) ==
    IF Member(w).type \in {"rank", "rowNumber"}
    THEN values = 1 .. Cardinality(inner)
    ELSE inner # {} /\ Member(Referenced(w)).type # "avg" =>
            values = {None} \/ Total(inner, Referenced(w)) \in values

\* Window functions run over the rows of the answer, HAVING applied, in the
\* order of its keys: running totals end at the total, ranks count the rows.
WindowsRunOverTheAnswer ==
    \A q \in Queried, ctx \in Contexts :
      AskedOfBase(q, ctx) => \A w \in WindowsOf(q) :
        RunsOver(w, GroupedRows(q, ctx, source), {row[w] : row \in Rows(q, ctx, source)})

\* What is sent is the answer, each value masked if its member is masked for
\* the caller: under a path the value of a column that the path names, under a
\* path and a granularity that very bucket.  And every member of the annotation
\* is a key, but for a time dimension that only filters.
SentAsAnswered ==
    \A q \in Queried, ctx \in Contexts :
      AskedOfBase(q, ctx) => \A row \in Rows(q, ctx, source) :
        LET sent == SentRow(q, ctx, row)
        IN  /\ \A key \in DOMAIN sent :
                  \E column \in Outputs(q) :
                      /\ NameOf(column) = NameOf(key) /\ (Len(key) = 3 => column = key)
                      /\ sent[key] = ApplyMask(row[column], MaskFor(NameOf(key), ctx))
            /\ Annotated(q) \ {p \in TimePaths(q) : ColumnOf(q, p) = p} \subseteq DOMAIN sent

-----------------------------------------------------------------------------
(* Answers from rollups. *)

\* What a query groups and filters by, and what its rules compare, are columns
\* that the rollup keeps as they are; its buckets fit into every bucket of them
\* that the query has and into every range.
Fits(q, ctx, pa) ==
    LET cube == TheCube(q)
        kept == KeyColumns(cube, pa) \ TimeColumns(cube, pa)
        Keeps(p) == PathColumn(cube, p) \in kept
        Nests(granularity) ==
            /\ RollsUp(pa.granularity, granularity)
            /\ pa.granularity = "week" => granularity \notin {"month", "quarter", "year"}
        WholeBuckets(range) ==
            /\ range \in Int \X Int
            /\ range[1] = UnitStart(range[1], pa.granularity)
            /\ range[2] + 1 = UnitStart(range[2] + 1, pa.granularity)
    IN  /\ \A p \in ToSet(q.dimensions) \cup TimePaths(q) \cup FilterPaths(q.filters) :
              p[1] = cube /\ Kind(p) = "dimension"
        /\ \A p \in ToSet(q.dimensions) \cup FilterPaths(q.filters) : Keeps(p)
        /\ ToSet(q.dimensions) \cap TimePaths(q) = {}
        /\ RuleColumns(registry[cube], ctx) \subseteq kept
        /\ \A i \in DOMAIN q.timeDimensions :
              LET td == q.timeDimensions[i]
              IN  /\ td.granularity # None
                  /\ \/ Keeps(td.path)
                     \/ /\ td.path = q.timeDimensions[1].path /\ Nests(td.granularity)
                        /\ td.dateRange # None =>
                              WholeBuckets(ResolveDateRange(td.dateRange, now))

\* A routed answer is one that the base cube could have given from the data
\* the rollup was built from, for every query whose ranges and months the
\* buckets divide: for every caller's rules, whatever is filtered.
FittingRouteIsExact ==
    \A q \in Queried, ctx \in Contexts :
        /\ builtFrom # None /\ Asked(q, ctx) /\ NoneBare(q, ctx)
        /\ Routed(q, ctx, tables) /\ Fits(q, ctx, Route(q))
        /\ q.order # <<>> \/ (q.limit = None /\ q.offset = 0)
        /\ Outputs(q) \ ToSet(q.measures) # {}
        => Execute(q, ctx, tables, source) \subseteq Answers(q, ctx, builtFrom)

-----------------------------------------------------------------------------
(* What the repository says of queries and the code does not keep. *)

\* The conditions of a query are AND-joined: a row that is counted satisfies
\* the row-level rules and every filter.
SelectedRowsSatisfyAll ==
    \A q \in Queried, ctx \in Contexts :
      AskedOfBase(q, ctx) => \A row \in SelectedRows(q, ctx, source) :
        /\ \A c \in RuledCubes(q) : \A rule \in ToSet(RowLevel(registry[c], ctx)) :
              Meets(row[c], rule)
        /\ \A p \in ToSet(q.segments) : Meets(row[p[1]], Member(p).alternatives)
        /\ \A f \in ToSet(q.filters) : ~IsMeasureFilter(f) => True(RowText(f, row))

\* Switching rollups on never yields wrong results.
RoutedAnswerIsBase ==
    \A q \in Queried, ctx \in Contexts : builtFrom # None /\ Asked(q, ctx) =>
        Execute(q, ctx, tables, source) \subseteq
            Answers(q, ctx, IF Routed(q, ctx, tables) THEN builtFrom ELSE source)

=============================================================================
