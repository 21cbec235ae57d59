----------------------------- MODULE SqlBuilder -----------------------------
(***************************************************************************)
(* The statement SQLBuilder renders for a query, by what it answers: the   *)
(* rows that its FROM, JOIN and WHERE select, their groups, the aggregates *)
(* and window functions over them, HAVING, ORDER BY and LIMIT.  A query is *)
(* a record of sequences of paths (measures, dimensions, segments), of     *)
(* timeDimensions [path, granularity, dateRange] and of filters, with      *)
(* order (pairs of a path and "asc" or "desc"), limit and offset.  A       *)
(* filter is [member, operator, values], [anyOf] or [allOf].  Times are    *)
(* instants of DateRange, all other values numbers; the four LIKE          *)
(* operators are left out.                                                 *)
(***************************************************************************)
EXTENDS CubeSchema, DateRange, SequencesExt

CONSTANT MaxNesting     \* composite filters are nested no deeper

ASSUME NestingAssumption == MaxNesting \in Nat

-----------------------------------------------------------------------------
(* Queries and their filters. *)

Composite(f) == "anyOf" \in DOMAIN f \/ "allOf" \in DOMAIN f
Children(f)  == IF "anyOf" \in DOMAIN f THEN f.anyOf ELSE f.allOf

\* A filter and all that it is composed of.
Nodes(f) ==
    LET below[n \in 0 .. MaxNesting] ==
            IF n = 0 THEN {f}
            ELSE UNION {ToSet(Children(g)) : g \in {h \in below[n - 1] : Composite(h)}}
    IN  UNION {below[n] : n \in 0 .. MaxNesting}

Leaves(f) == {g \in Nodes(f) : ~Composite(g)}

\* What Query.parse takes: lists, of pairs where they are of paths.  That no
\* measure is grouped by as well, under the same name, is the model's own, as
\* is that MaxNesting levels down there is a filter that is not composed.
IsList(s) == s \in Seq(ToSet(s))

TimePaths(q) == {q.timeDimensions[i].path : i \in DOMAIN q.timeDimensions}

IsQuery(q) ==
    /\ q = [measures |-> q.measures, dimensions |-> q.dimensions, segments |-> q.segments,
            timeDimensions |-> q.timeDimensions, filters |-> q.filters,
            order |-> q.order, limit |-> q.limit, offset |-> q.offset]
    /\ IsList(q.measures) /\ IsList(q.dimensions) /\ IsList(q.segments)
    /\ IsList(q.timeDimensions) /\ IsList(q.filters)
    /\ \A td \in ToSet(q.timeDimensions) :
          /\ td = [path |-> td.path, granularity |-> td.granularity, dateRange |-> td.dateRange]
          /\ td.granularity \in Units \cup {None}
    /\ \A p \in ToSet(q.measures) \cup ToSet(q.dimensions) \cup TimePaths(q) : p = <<p[1], p[2]>>
    /\ ToSet(q.measures) \cap (ToSet(q.dimensions) \cup TimePaths(q)) = {}
    /\ \A f \in ToSet(q.filters) : Leaves(f) # {}

IsMeasureFilter(f) == \A leaf \in Leaves(f) : Kind(leaf.member) = "measure"

MeasureFilterOps == {"equals", "notEquals", "gt", "gte", "lt", "lte"}
DateOperators    == {"inDateRange", "notInDateRange", "beforeDate", "afterDate"}
Operators == MeasureFilterOps \cup DateOperators \cup {"in", "notIn", "set", "notSet"}

(***************************************************************************)
(* A condition is text: a sequence of alternatives, the operands of its    *)
(* OR, each a sequence of the operands of an AND, here by their truth for  *)
(* a given row.  Joined by AND, texts stick together at their ends, as AND *)
(* binds closer than OR, unless there are parentheses around them.         *)
(***************************************************************************)
True(text)     == \E i \in DOMAIN text : \A j \in DOMAIN text[i] : text[i][j]
Atom(b)        == <<<<b>>>>
Parens(text)   == Atom(True(text))
And(s, t)      == Front(s) \o <<Last(s) \o Head(t)>> \o Tail(t)
OrJoin(texts)  == FlattenSeq(texts)
AndJoin(texts) ==
    LET joined[n \in 0 .. Len(texts)] ==
            IF n = 0 THEN Atom(TRUE) ELSE And(joined[n - 1], texts[n])
    IN  joined[Len(texts)]

\* The operators that compare with a resolved date range.  A comparison with
\* NULL is not true.
DateText(operator, known, v, range) ==
    CASE operator = "inDateRange"    -> <<<<known /\ v >= range[1], known /\ v <= range[2]>>>>
      [] operator = "notInDateRange" -> <<<<known /\ v < range[1]>>, <<known /\ v > range[2]>>>>
      [] operator = "beforeDate"     -> Atom(known /\ v < range[1])
      [] operator = "afterDate"      -> Atom(known /\ v > range[1])

\* OPERATORS
OperatorText(operator, v, values) ==
    LET known == v # None
    IN  CASE operator = "set"       -> Atom(known)
          [] operator = "notSet"    -> Atom(~known)
          [] operator = "equals"    -> Atom(known /\ v = values[1])
          [] operator = "notEquals" -> Atom(known /\ v # values[1])
          [] operator = "in"        -> Atom(known /\ v \in ToSet(values))
          [] operator = "notIn"     -> Atom(known /\ v \notin ToSet(values))
          [] operator = "gt"        -> Atom(known /\ v > values[1])
          [] operator = "gte"       -> Atom(known /\ v >= values[1])
          [] operator = "lt"        -> Atom(known /\ v < values[1])
          [] operator = "lte"       -> Atom(known /\ v <= values[1])
          [] operator \in DateOperators ->
                DateText(operator, known, v, ResolveDateRange(values[1], now))

\* Mutant of Composed: a composite is rendered without its parentheses.
ComposedBare(f, texts) ==
    LET children == [i \in DOMAIN Children(f) |-> texts[Children(f)[i]]]
    IN  IF "anyOf" \in DOMAIN f THEN OrJoin(children) ELSE AndJoin(children)

\* The text of a composite, given those of its children.
Composed(f, texts) ==
    LET children == [i \in DOMAIN Children(f) |-> texts[Children(f)[i]]]
    IN  Parens(IF "anyOf" \in DOMAIN f THEN OrJoin(children) ELSE AndJoin(children))

\* _compile_filter, given the text of each leaf.
CompileFilter(f, textOf) ==
    LET texts[g \in Nodes(f)] == IF Composite(g) THEN Composed(g, texts) ELSE textOf[g]
    IN  IF Composite(f) THEN Composed(f, texts) ELSE textOf[f]

-----------------------------------------------------------------------------
(* Measures, over a group: a set of joined rows, functions from cubes.     *)

ValueIn(row, path) == row[path[1]][Member(path).sql]

\* A filter of dimensions, on a joined row.
RowText(f, row) ==
    CompileFilter(f, [leaf \in Leaves(f) |->
        OperatorText(leaf.operator, ValueIn(row, leaf.member), leaf.values)])

\* The aggregate of a type over rows whose values are not NULL.
OfType(type, path, inputs, values) ==
    LET Sum == SumFunction([row \in inputs |-> ValueIn(row, path)])
    IN  CASE type = "count" -> Cardinality(inputs)
          [] type \in {"countDistinct", "countDistinctApprox"} -> Cardinality(values)
          [] OTHER ->
                IF inputs = {} THEN None
                ELSE CASE type = "sum" -> Sum
                       [] type = "avg" -> [sum |-> Sum, of |-> Cardinality(inputs)]
                       [] type = "min" -> CHOOSE v \in values : \A w \in values : v <= w
                       [] type = "max" -> CHOOSE v \in values : \A w \in values : v >= w

\* _measure_sql: what the filters of a measure do not match is NULL to it.
Counted(path, group) ==
    LET filters == Member(path).filters
        matched == {row \in group :
                       True(AndJoin([i \in DOMAIN filters |-> RowText(filters[i], row)]))}
    IN  {row \in matched : Member(path).sql # None => ValueIn(row, path) # None}

OverCounted(path, inputs) ==
    OfType(Member(path).type, path, inputs, {ValueIn(row, path) : row \in inputs})

Concrete(path, group) == OverCounted(path, Counted(path, group))

\* _measure_expr: a calculated measure is a formula of its siblings' values.
Aggregate(path, group) ==
    IF Member(path).type = "calculated"
    THEN [i \in DOMAIN Member(path).formula |->
             Concrete(<<path[1], Member(path).formula[i]>>, group)]
    ELSE Concrete(path, group)

GroupText(f, group) ==
    CompileFilter(f, [leaf \in Leaves(f) |->
        OperatorText(leaf.operator, Aggregate(leaf.member, group), leaf.values)])

-----------------------------------------------------------------------------
(* What a query names. *)

Buckets(q)    == {i \in DOMAIN q.timeDimensions : q.timeDimensions[i].granularity # None}
Grouped(q)    == {p \in ToSet(q.dimensions) : p \notin TimePaths(q)}
WindowsOf(q)  == {p \in ToSet(q.measures) : Member(p).type \in WindowTypes}
Referenced(p) == <<p[1], Member(p).sql>>

\* The aggregates of the (inner) select list.
Selected(q) == (ToSet(q.measures) \ WindowsOf(q)) \cup {Referenced(p) : p \in WindowsOf(q)}

FilterPaths(filters) ==
    {leaf.member : leaf \in UNION {Leaves(f) : f \in ToSet(filters)}}

\* The aggregates that a measure is rendered as; a window measure is none.
Parts(p) ==
    CASE Member(p).type = "calculated"  -> {<<p[1], name>> : name \in ToSet(Member(p).formula)}
      [] Member(p).type \in ConcreteTypes -> {p}
      [] OTHER -> {}

\* A member and, when it is a measure, what the filters of its parts name.
Resolved(p) ==
    IF Kind(p) = "measure"
    THEN {p} \cup UNION {FilterPaths(Member(part).filters) : part \in Parts(p)} ELSE {p}

\* The cubes known to the builder when it collects the row-level rules ...
RuledCubes(q) ==
    {p[1] : p \in Grouped(q) \cup TimePaths(q)
                    \cup UNION {Resolved(m) : m \in ToSet(q.measures) \cup Selected(q)}}

\* ... and when it joins, after the segments and filters have been rendered.
JoinedCubes(q) ==
    RuledCubes(q) \cup
        {p[1] : p \in ToSet(q.segments) \cup UNION {Resolved(f) : f \in FilterPaths(q.filters)}}

Primary(q) ==
    LET first == CHOOSE i \in DOMAIN q.dimensions :
                    /\ q.dimensions[i] \in Grouped(q)
                    /\ \A j \in 1 .. (i - 1) : q.dimensions[j] \notin Grouped(q)
    IN  CASE q.measures # <<>> -> q.measures[1][1]
          [] q.measures = <<>> /\ Grouped(q) # {} -> q.dimensions[first][1]
          [] OTHER -> q.timeDimensions[1].path[1]

\* An explicit order, or the first measure, largest first.
OrderItems(q) ==
    CASE q.order # <<>> -> q.order
      [] q.order = <<>> /\ q.measures # <<>> -> <<<<q.measures[1], "desc">>>>
      [] OTHER -> <<>>

\* A column of the select list is named by the path of its member.  That of a
\* bucket is told apart here by the granularity: <<cube, member, granularity>>.
Bucket(td) == <<td.path[1], td.path[2], td.granularity>>

NameOf(column) == <<column[1], column[2]>>

\* What is listed twice counts once.
Outputs(q) ==
    ToSet(q.measures) \cup Grouped(q) \cup {Bucket(q.timeDimensions[i]) : i \in Buckets(q)}

\* Of the columns that a path names, the last.
ColumnOf(q, path) ==
    LET buckets == {i \in Buckets(q) : q.timeDimensions[i].path = path}
    IN  IF buckets = {} THEN path ELSE Bucket(q.timeDimensions[Max(buckets)])

\* The names in the ORDER BY of a window, for dimensions.
OrderedDimensions(q) == [i \in DOMAIN q.dimensions |-> ColumnOf(q, q.dimensions[i])]

\* Mutant of WindowOrder: the buckets are left out.
WindowOrderOfDimensions(q) == OrderedDimensions(q)

WindowOrder(q) ==
    FlattenSeq([i \in DOMAIN q.timeDimensions |->
                   IF i \in Buckets(q) THEN <<Bucket(q.timeDimensions[i])>> ELSE <<>>])
        \o OrderedDimensions(q)

(***************************************************************************)
(* What _render requires of a query; anything else is a ValueError or a    *)
(* KeyError, which the interfaces answer with status 400.                  *)
(***************************************************************************)
\* An or_ or and_ that is empty counts as absent, and there is no member then.
Composes(f) == \A g \in Nodes(f) : Composite(g) => Children(g) # <<>>

FilterRenders(f) ==
    /\ Composes(f)
    /\ IF IsMeasureFilter(f)
       THEN \A leaf \in Leaves(f) : /\ Member(leaf.member).type \notin WindowTypes
                                    /\ leaf.operator \in MeasureFilterOps
       ELSE \A leaf \in Leaves(f) : /\ Kind(leaf.member) # "measure"
                                    /\ leaf.operator \in Operators

WindowRenders(p) ==
    /\ Member(p).sql \in DOMAIN Cube(p).measures
    /\ Member(Referenced(p)).type \in ConcreteTypes

FormulaRenders(p) ==
    \A i \in DOMAIN Member(p).formula :
        /\ Member(p).formula[i] \in DOMAIN Cube(p).measures
        /\ Cube(p).measures[Member(p).formula[i]].type \in ConcreteTypes

Renders(q, ctx) ==
    LET named == ToSet(q.measures) \cup Grouped(q) \cup TimePaths(q) \cup FilterPaths(q.filters)
    IN  /\ \A p \in named \cup ToSet(q.segments) : Resolves(p)
        /\ \A p \in ToSet(q.measures) : Kind(p) = "measure"
        /\ \A p \in WindowsOf(q) : WindowRenders(p)
        /\ \A p \in named : Kind(p) = "measure" /\ Member(p).type = "calculated" => FormulaRenders(p)
        /\ \A p \in UNION {Resolved(m) : m \in named \cup Selected(q)} :
              /\ Resolves(p) /\ Visible(Member(p), ctx)
              /\ p \notin named \cup Selected(q) => Kind(p) # "measure"
        /\ \A c \in RuledCubes(q) : Visible(registry[c], ctx)
        /\ \A f \in ToSet(q.filters) : FilterRenders(f)
        /\ JoinedCubes(q) \ {Primary(q)} \subseteq DOMAIN registry[Primary(q)].joins
        /\ WindowsOf(q) # {} => WindowOrder(q) # <<>>

\* What is aggregated is a column; only rows can be counted without one.
OfColumns(p) ==
    \A part \in Parts(p) :
        \/ Member(part).sql \in Cube(part).columns
        \/ Member(part).type = "count" /\ Member(part).sql = None

\* A name is ambiguous if it is that of two buckets.
NamesOne(q, path) == Cardinality({column \in Outputs(q) : NameOf(column) = path}) = 1

\* The inner query of window functions has no name twice.
SelectsOnce(q) ==
    /\ \A i, j \in DOMAIN q.measures :
          i # j /\ q.measures[i] = q.measures[j] => q.measures[i] \in WindowsOf(q)
    /\ \A i, j \in DOMAIN q.dimensions :
          i # j /\ q.dimensions[i] = q.dimensions[j] => q.dimensions[i] \in TimePaths(q)
    /\ \A i, j \in Buckets(q) :
          i # j => q.timeDimensions[i].path # q.timeDimensions[j].path

\* What the database requires of the statement: a select list, columns that the
\* cubes have, and names that the list or the inner query of the window
\* functions has, once.
Runs(q) ==
    /\ Outputs(q) # {}
    /\ \A p \in Grouped(q) \cup TimePaths(q) : Member(p).sql \in Cube(p).columns
    /\ \A p \in ToSet(q.segments) :
          /\ Kind(p) = "segment"
          /\ \A alternative \in ToSet(Member(p).alternatives) : alternative[1] \in Cube(p).columns
    /\ \A p \in UNION {Resolved(m) : m \in ToSet(q.measures) \cup Selected(q)
                                              \cup FilterPaths(q.filters)} :
          IF Kind(p) = "measure" THEN OfColumns(p) ELSE Member(p).sql \in Cube(p).columns
    /\ \A i \in DOMAIN OrderItems(q) :
          OrderItems(q)[i][1] \in Selected(q) \/ NamesOne(q, OrderItems(q)[i][1])
    /\ WindowsOf(q) # {} =>
          SelectsOnce(q) /\ ToSet(WindowOrder(q)) \subseteq Outputs(q) \ Selected(q)

-----------------------------------------------------------------------------
(* What the statement answers.  db has the rows of each cube. *)

NullRow(cube) == [column \in registry[cube].columns |-> None]

\* Mutant of Matches: an inner join.
MatchesInner(row, from, to, db) ==
    LET on == registry[from].joins[to]
    IN  {other \in db[to] : row[on.left] # None /\ other[on.right] = row[on.left]}

\* LEFT JOIN: a row that matches none is kept, beside NULLs.
Matches(row, from, to, db) ==
    LET on    == registry[from].joins[to]
        found == {other \in db[to] : row[on.left] # None /\ other[on.right] = row[on.left]}
    IN  IF found = {} THEN {NullRow(to)} ELSE found

JoinedRows(q, db) ==
    LET primary == Primary(q)
        Beside(row, c) == IF c = primary THEN {row} ELSE Matches(row, primary, c, db)
    IN  UNION { {joined \in [JoinedCubes(q) -> UNION {Beside(row, c) : c \in JoinedCubes(q)}] :
                    \A c \in JoinedCubes(q) : joined[c] \in Beside(row, c)} : row \in db[primary] }

\* The text of a list of <<column, value>>, for a row of their cube.
AlternativesText(alternatives, row) ==
    [i \in DOMAIN alternatives |-> <<Equals(row, alternatives[i])>>]

\* What apply_row_level adds for a cube, on a row of it.
RulesText(cube, ctx, row) ==
    AndJoin([i \in DOMAIN RowLevel(cube, ctx) |-> AlternativesText(RowLevel(cube, ctx)[i], row)])

\* Of all the cubes of a query, one after the other.
AllRulesText(q, ctx, row) ==
    LET ruled == SetToSeq({c \in RuledCubes(q) : RowLevel(registry[c], ctx) # <<>>})
    IN  AndJoin([i \in DOMAIN ruled |-> RulesText(registry[ruled[i]], ctx, row[ruled[i]])])

\* The conditions AND-joined to WHERE, in their order; what adds none stands as
\* a TRUE, which leaves the text the same.  Rules and segments have no
\* parentheses of their own.
WhereTexts(q, ctx, row) ==
    LET InRange(td) ==
            IF td.dateRange = None THEN Atom(TRUE)
            ELSE OperatorText("inDateRange", ValueIn(row, td.path), <<td.dateRange>>)
        Condition(f) == IF IsMeasureFilter(f) THEN Atom(TRUE) ELSE RowText(f, row)
    IN  <<AllRulesText(q, ctx, row)>>
        \o [i \in DOMAIN q.segments |->
               AlternativesText(Member(q.segments[i]).alternatives, row[q.segments[i][1]])]
        \o [i \in DOMAIN q.timeDimensions |-> InRange(q.timeDimensions[i])]
        \o [i \in DOMAIN q.filters |-> Condition(q.filters[i])]

SelectedRows(q, ctx, db) ==
    {row \in JoinedRows(q, db) : True(AndJoin(WhereTexts(q, ctx, row)))}

\* A part of a group key: a dimension as it is, or the bucket of a time.
KeyPart(column, row) ==
    LET v == ValueIn(row, column)
    IN  IF Len(column) = 2 \/ v = None THEN v ELSE UnitStart(v, column[3])

Groups(q, rows) ==
    LET keys == Outputs(q) \ ToSet(q.measures)
        Key(row) == [column \in keys |-> KeyPart(column, row)]
    IN  IF keys = {} THEN {rows}
        ELSE {{row \in rows : Key(row) = Key(first)} : first \in rows}

Having(q, group) ==
    \A i \in DOMAIN q.filters :
        IsMeasureFilter(q.filters[i]) => True(GroupText(q.filters[i], group))

\* The rows of the grouped query, inner when there are window functions.
GroupedRows(q, ctx, db) ==
    LET keys == Outputs(q) \ ToSet(q.measures)
    IN  { [column \in keys \cup Selected(q) |->
              IF column \in keys THEN KeyPart(column, CHOOSE row \in group : TRUE)
              ELSE Aggregate(column, group)] :
          group \in {g \in Groups(q, SelectedRows(q, ctx, db)) : Having(q, g)} }

\* NULL sorts as the largest value, in either direction.
Less(v, w) == v # None /\ (w = None \/ v < w)

\* a comes before b by the items of an order, pairs of a column and a direction.
Precedes(items, a, b) ==
    \E i \in DOMAIN items :
        /\ \A j \in 1 .. (i - 1) : a[items[j][1]] = b[items[j][1]]
        /\ IF items[i][2] = "asc" THEN Less(a[items[i][1]], b[items[i][1]])
           ELSE Less(b[items[i][1]], a[items[i][1]])

\* _window_fn, over the rows of the inner query in the order of their keys.
WindowValue(q, path, row, rows) ==
    LET order  == [i \in DOMAIN WindowOrder(q) |-> <<WindowOrder(q)[i], "asc">>]
        ref    == Referenced(path)
        before == {other \in rows : Precedes(order, other, row)}
        known  == {other \in before \cup {row} : other[ref] # None}
    IN  CASE Member(path).type \in {"rank", "rowNumber"} -> Cardinality(before) + 1
          [] OTHER -> IF known = {} THEN None
                      ELSE SumFunction([other \in known |-> other[ref]])

\* The select list over the rows of the inner query, and beside it what else
\* the inner query selects, which an order may name.
Outer(q, inner) ==
    {[column \in Outputs(q) \cup Selected(q) |->
         IF column \in WindowsOf(q) THEN WindowValue(q, column, row, inner)
         ELSE row[column]] : row \in inner}

Rows(q, ctx, db) == Outer(q, GroupedRows(q, ctx, db))

\* ORDER BY, LIMIT and OFFSET: rows that tie may come in any order.
Pages(items, q, rows) ==
    LET Prefix(part, n) ==
            /\ Cardinality(part) = IF n < Cardinality(rows) THEN n ELSE Cardinality(rows)
            /\ \A a \in part, b \in rows \ part : ~Precedes(items, b, a)
        limit == IF q.limit = None THEN Cardinality(rows) ELSE q.limit
    IN  IF q.limit = None /\ q.offset = 0 THEN {rows}
        ELSE {part \in SUBSET rows : \E skipped \in SUBSET (rows \ part) :
                /\ Prefix(skipped, q.offset) /\ Prefix(skipped \cup part, q.offset + limit)}

\* The items of an order with the columns that their paths name.
InColumns(q, items) == [i \in DOMAIN items |-> <<ColumnOf(q, items[i][1]), items[i][2]>>]

\* The select list alone.
Listed(q, rows) == {[column \in Outputs(q) |-> row[column]] : row \in rows}

\* The answers the database may give, none if there is no statement to run.
Answers(q, ctx, db) ==
    IF Renders(q, ctx) /\ Runs(q)
    THEN {Listed(q, page) : page \in Pages(InColumns(q, OrderItems(q)), q, Rows(q, ctx, db))}
    ELSE {}

=============================================================================
