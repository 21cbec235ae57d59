-------------------------------- MODULE Rollup --------------------------------
(***************************************************************************)
(* Pre-aggregations: the table a rollup is built as, the router that picks *)
(* one for a query, the statement RollupBuilder renders over the table,    *)
(* and the fallback to the base cube.  A table is a set of rows, functions *)
(* from column names; a measure's column bears its name.                   *)
(***************************************************************************)
EXTENDS SqlBuilder

\* Rollups by hours or less, which a registry may have, DateRange does not know.
ASSUME RegistryAssumption ==
    \A c \in DOMAIN registry :
        /\ Valid(registry[c]) /\ IsList(registry[c].preAggregations)
        /\ \A i \in DOMAIN registry[c].preAggregations :
              registry[c].preAggregations[i].granularity \in Units \cup {None}

Ranks == [second |-> 0, minute |-> 1, hour |-> 2, day |-> 3,
          week |-> 4, month |-> 5, quarter |-> 6, year |-> 7]

\* Mutant of RollsUp: the ranks are compared the wrong way round.
RollsUpDown(bucket, granularity) ==
    /\ {bucket, granularity} \subseteq DOMAIN Ranks
    /\ Ranks[bucket] >= Ranks[granularity]

RollsUp(bucket, granularity) ==
    /\ {bucket, granularity} \subseteq DOMAIN Ranks
    /\ Ranks[bucket] <= Ranks[granularity]

ContainsMeasure(filters) == \E p \in FilterPaths(filters) : Kind(p) = "measure"

ReferencedCubes(q) ==
    {p[1] : p \in ToSet(q.measures) \cup ToSet(q.dimensions) \cup TimePaths(q)}

\* _try_rollup
Serves(name, pa, q) ==
    LET cube == registry[name]
        MemberNames(paths) == {p[2] : p \in ToSet(paths)}
    IN  /\ pa.timeDimension # None /\ pa.granularity # None
        /\ q.timeDimensions # <<>> =>
              /\ q.timeDimensions[1].path = <<name, pa.timeDimension>>
              /\ q.timeDimensions[1].granularity # None
              /\ RollsUp(pa.granularity, q.timeDimensions[1].granularity)
        /\ MemberNames(q.measures) \subseteq pa.measures
        /\ MemberNames(q.dimensions) \subseteq pa.dimensions
        /\ \A p \in ToSet(q.measures) : Member(p).type \in AdditiveTypes
        /\ cube.hasRules => cube.securityColumns \subseteq pa.securityColumns

\* The cube of a query, when there is only one.
TheCube(q) == CHOOSE c \in ReferencedCubes(q) : TRUE

\* PreAggRouter.match: the rollups of the query's cube that serve it ...
Candidates(q) ==
    LET rollups == registry[TheCube(q)].preAggregations
    IN  IF \/ q.segments # <<>> \/ ContainsMeasure(q.filters)
           \/ ReferencedCubes(q) # {TheCube(q)}
        THEN {} ELSE {i \in DOMAIN rollups : Serves(TheCube(q), rollups[i], q)}

\* ... of which the first is taken.
Route(q) == registry[TheCube(q)].preAggregations[Min(Candidates(q))]

-----------------------------------------------------------------------------
(* RollupBuilderService.build *)

DimensionColumn(cube, name) == registry[cube].dimensions[name].sql

TimeColumns(cube, pa) ==
    IF pa.timeDimension # None /\ pa.granularity # None
    THEN {DimensionColumn(cube, pa.timeDimension)} ELSE {}

KeyColumns(cube, pa) ==
    {DimensionColumn(cube, d) : d \in pa.dimensions} \cup pa.securityColumns
        \cup TimeColumns(cube, pa)

\* The database takes the CREATE only if it groups by something and names no
\* column twice, and if the measures' filters are of the cube itself.
Creates(cube, pa) ==
    LET lists == <<{DimensionColumn(cube, d) : d \in pa.dimensions}, pa.securityColumns,
                   TimeColumns(cube, pa), pa.measures>>
    IN  /\ KeyColumns(cube, pa) # {}
        /\ \A i, j \in DOMAIN lists : i # j => lists[i] \cap lists[j] = {}
        /\ \A d, e \in pa.dimensions :
              DimensionColumn(cube, d) = DimensionColumn(cube, e) => d = e
        /\ \A m \in pa.measures : \A p \in FilterPaths(Member(<<cube, m>>).filters) : p[1] = cube

Bucketed(cube, pa, row, column) ==
    IF column \in TimeColumns(cube, pa) /\ row[column] # None
    THEN UnitStart(row[column], pa.granularity) ELSE row[column]

Table(cube, pa, rows) ==
    LET Key(row) == [column \in KeyColumns(cube, pa) |-> Bucketed(cube, pa, row, column)]
        Joined(group) == {[c \in {cube} |-> row] : row \in group}
    IN  { [column \in KeyColumns(cube, pa) \cup pa.measures |->
              IF column \in pa.measures
              THEN Concrete(<<cube, column>>, Joined({row \in rows : Key(row) = key}))
              ELSE key[column]] :
          key \in {Key(row) : row \in rows} }

-----------------------------------------------------------------------------
(* RollupBuilder *)

\* A path loses its cube: the column is looked up by the member's name.
PathColumn(cube, path) == DimensionColumn(cube, path[2])

RollupRenders(cube, q, ctx) ==
    LET names == {p[2] : p \in ToSet(q.dimensions) \cup TimePaths(q) \cup FilterPaths(q.filters)}
    IN  /\ names \subseteq DOMAIN registry[cube].dimensions
        /\ \A name \in names : Visible(registry[cube].dimensions[name], ctx)
        /\ \A p \in ToSet(q.measures) : Visible(Member(p), ctx)
        /\ \A f \in ToSet(q.filters) :
              Composes(f) /\ \A leaf \in Leaves(f) : leaf.operator \in Operators
        /\ Visible(registry[cube], ctx)

\* The select list.  A dimension is there beside the buckets of its times.
RollupKeys(q) ==
    ToSet(q.dimensions) \cup
        {IF td.granularity = None THEN td.path ELSE Bucket(td) : td \in ToSet(q.timeDimensions)}

RollupOutputs(q) == ToSet(q.measures) \cup RollupKeys(q)

\* Every column named is one that the table has, and every name in the order is
\* that of one column: otherwise the database raises.
RollupRuns(cube, pa, q, ctx) ==
    LET paths == ToSet(q.dimensions) \cup TimePaths(q) \cup FilterPaths(q.filters)
        Named(path) == {column \in RollupOutputs(q) : NameOf(column) = path}
    IN  /\ RollupOutputs(q) # {}
        /\ {PathColumn(cube, p) : p \in paths} \cup RuleColumns(registry[cube], ctx)
              \subseteq KeyColumns(cube, pa) \cup pa.measures
        /\ \A i \in DOMAIN q.order : Cardinality(Named(q.order[i][1])) = 1

RollupSelected(cube, q, ctx, table) ==
    LET InRange(td, row) ==
            IF td.dateRange = None THEN Atom(TRUE)
            ELSE OperatorText("inDateRange", row[PathColumn(cube, td.path)], <<td.dateRange>>)
        Text(f, row) == CompileFilter(f, [leaf \in Leaves(f) |->
            OperatorText(leaf.operator, row[PathColumn(cube, leaf.member)], leaf.values)])
        Where(row) ==
            <<RulesText(registry[cube], ctx, row)>>
            \o [i \in DOMAIN q.filters |-> Text(q.filters[i], row)]
            \o [i \in DOMAIN q.timeDimensions |-> InRange(q.timeDimensions[i], row)]
    IN  {row \in table : True(AndJoin(Where(row)))}

\* sum over the column of a measure, grouped by the columns of the others.
RollupRows(cube, q, ctx, table) ==
    LET keys == RollupKeys(q)
        Part(column, row) ==
            LET v == row[PathColumn(cube, column)]
            IN  IF Len(column) = 2 \/ v = None THEN v ELSE UnitStart(v, column[3])
        rows == RollupSelected(cube, q, ctx, table)
        Key(row) == [column \in keys |-> Part(column, row)]
        Sum(name, group) ==
            LET known == {row \in group : row[name] # None}
            IN  IF known = {} THEN None ELSE SumFunction([row \in known |-> row[name]])
    IN  { [column \in RollupOutputs(q) |->
              IF column \in keys THEN key[column]
              ELSE Sum(column[2], {row \in rows : Key(row) = key})] :
          key \in IF keys = {} THEN {<<>>} ELSE {Key(row) : row \in rows} }

\* _tail: no order is added to the query's own.
RollupPages(q, rows) == Pages(InColumns(q, q.order), q, rows)

\* _execute: the answers from the rollup's table, from the base cube when there
\* is none that serves the query or its statement raises.  tables[c] has the
\* tables that exist, by the names of their rollups.
Routed(q, ctx, tables) ==
    /\ Candidates(q) # {}
    /\ Route(q).name \in DOMAIN tables[TheCube(q)]
    /\ RollupRenders(TheCube(q), q, ctx) /\ RollupRuns(TheCube(q), Route(q), q, ctx)

Execute(q, ctx, tables, db) ==
    IF Routed(q, ctx, tables)
    THEN RollupPages(q, RollupRows(TheCube(q), q, ctx, tables[TheCube(q)][Route(q).name]))
    ELSE Answers(q, ctx, db)

=============================================================================
