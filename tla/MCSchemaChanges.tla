--------------------------- MODULE MCSchemaChanges ---------------------------
(***************************************************************************)
(* Versions of a small schema for TLC: choices of what a cube declares     *)
(* under three names, and some changes of the rest of it.                  *)
(***************************************************************************)
EXTENDS SchemaChanges

CONSTANT Null   \* the same as None, for the definitions below

Names == 1 .. 3

Defined(type, column) == [type |-> type, sql |-> {column}, status |-> "active"]

SumX  == Defined("sum", "x")
SumY  == Defined("sum", "y")
TextX == Defined("string", "x")
RowsX == Defined(Null, "x")     \* a segment

\* What a cube may declare under a name: by kind, one after the other.  The
\* last three are names of two kinds and a name that is declared again.
Options ==
    {<<>>, [measure |-> <<SumX>>], [measure |-> <<SumY>>], [dimension |-> <<TextX>>],
     [segment |-> <<RowsX>>], [measure |-> <<SumY>>, segment |-> <<RowsX>>],
     [measure |-> <<SumX>>, dimension |-> <<TextX>>], [measure |-> <<SumX, SumY>>]}

FewOptions == {<<>>, [measure |-> <<SumX>>], [segment |-> <<RowsX>>]}

Posts(options) ==
    LET Named(kind)   == {n \in Names : kind \in DOMAIN options[n]}
        First(kind)   == [n \in Named(kind) |-> options[n][kind][1]]
        Again(kind)   == {n \in Named(kind) : Len(options[n][kind]) > 1}
        LastOnes(kind) == [n \in Again(kind) |-> Last(options[n][kind])]
    IN  [table |-> <<"public", "posts">>, status |-> "active",
         measures |-> First("measure"), dimensions |-> First("dimension"),
         segments |-> First("segment"), later |-> [kind \in Kinds |-> LastOnes(kind)],
         joins |-> [authors |-> [relationship |-> "belongsTo",
                                 sql |-> {<<"posts", "x">>, <<"authors", "id">>}]],
         hasRules |-> FALSE, securityColumns |-> {}, preAggregations |-> <<>>]

Authors ==
    [table |-> <<"authors">>, status |-> "active",
     measures |-> [m \in {1} |-> [type |-> "count", sql |-> {}, status |-> "active"]],
     dimensions |-> [m \in {2} |-> Defined("number", "id")], segments |-> <<>>,
     later |-> [kind \in Kinds |-> <<>>], joins |-> <<>>,
     hasRules |-> FALSE, securityColumns |-> {}, preAggregations |-> <<>>]

Both(posts) == [posts |-> posts, authors |-> Authors]

Some == Posts(<<[measure |-> <<SumX>>], [dimension |-> <<TextX>>], <<>>>>)

Rollup(measures, dimensions, time) ==
    [name |-> "daily", measures |-> measures, dimensions |-> dimensions, timeDimension |-> time]

Others ==
    {[Some EXCEPT !.table = <<"posts_v2">>], [Some EXCEPT !.status = "deprecated"],
     [Some EXCEPT !.dimensions[2].status = "deprecated"],
     [Some EXCEPT !.joins.authors.relationship = "hasMany"], [Some EXCEPT !.joins = <<>>],
     [Some EXCEPT !.preAggregations = <<Rollup({1}, {2}, Null)>>],
     [Some EXCEPT !.preAggregations = <<Rollup({2}, {}, Null)>>],
     [Some EXCEPT !.preAggregations = <<Rollup({1}, {}, 2)>>],
     [Some EXCEPT !.preAggregations = <<Rollup({1}, {}, Null), Rollup({1}, {2}, Null)>>]}

WithSegment == Posts(<<[measure |-> <<SumX>>], [dimension |-> <<TextX>>], [segment |-> <<RowsX>>]>>)

\* Two members that one new name could stand for.
Alike == Posts(<<[measure |-> <<SumX>>], [measure |-> <<SumX>>], <<>>>>)

Starts == {Both(Some), Both(WithSegment), Both(Alike)}

Proposals ==
    {Both(Posts(<<first, second, third>>)) :
        first \in Options, second \in Options, third \in FewOptions}
        \cup {Both(posts) : posts \in Others}
        \cup {[posts |-> Some]}

=============================================================================
