----------------------------- MODULE CubeSchema -----------------------------
(***************************************************************************)
(* What a compiled cube is, how a member path is resolved, what a caller   *)
(* may see of a cube, and what validate_cube refuses.  A cube is a record  *)
(*   table            the rows its sql selects                             *)
(*   measures, dimensions, segments    functions from member names: of two *)
(*                    members of one kind and name the first is found       *)
(*   joins            function from joined cubes to the columns compared   *)
(*   shown            the roles that its shown callback lets in            *)
(*   hasRules, rules  check_permission: whether there is one, and what it  *)
(*                    asks of each context: a sequence of conditions, each *)
(*                    a sequence of alternatives <<column, value>>         *)
(*   securityColumns  the columns rules may name                           *)
(*   preAggregations  a sequence of rollups                                *)
(* and a member has shown and mask, by role, and its sql: a column, None   *)
(* to count all rows, or the sibling that a window measure runs over.  The *)
(* sql of a segment is a condition: it has alternatives, as a rule has.    *)
(***************************************************************************)
EXTENDS Integers, Sequences, FiniteSets, SequencesExt

CONSTANTS
    registry,   \* the compiled cubes, by name
    None        \* SQL's NULL, and whatever a declaration leaves out

AdditiveTypes == {"sum", "count"}
WindowTypes   == {"runningTotal", "runningSum", "rank", "rowNumber"}
ConcreteTypes == AdditiveTypes \cup {"countDistinct", "countDistinctApprox", "avg", "min", "max"}
MeasureTypes  == ConcreteTypes \cup WindowTypes \cup {"calculated"}

\* A measure hides a dimension of its name, and a dimension a segment.
KindIn(cube, name) ==
    CASE name \in DOMAIN cube.measures -> "measure"
      [] name \notin DOMAIN cube.measures /\ name \in DOMAIN cube.dimensions -> "dimension"
      [] OTHER -> "segment"

NamesIn(cube) == DOMAIN cube.measures \cup DOMAIN cube.dimensions \cup DOMAIN cube.segments

MemberIn(cube, name) ==
    CASE KindIn(cube, name) = "measure"   -> cube.measures[name]
      [] KindIn(cube, name) = "dimension" -> cube.dimensions[name]
      [] OTHER                            -> cube.segments[name]

\* A path is a pair <<cube, member>>; resolve_member raises KeyError unless:
Resolves(path) ==
    path[1] \in DOMAIN registry /\ path[2] \in NamesIn(registry[path[1]])

Cube(path)   == registry[path[1]]
Kind(path)   == KindIn(Cube(path), path[2])
Member(path) == MemberIn(Cube(path), path[2])

Visible(thing, ctx) == ctx.role \in thing.shown

\* The role defaults apply only to columns the cube declares.
DefaultRules(cube, ctx) ==
    LET Default(role, column, value) ==
            IF ctx.role = role /\ column \in cube.securityColumns
            THEN <<<<<<column, value>>>>>> ELSE <<>>
    IN  Default("viewer", "user", ctx.user)
            \o Default("manager", "department", ctx.department)

\* apply_row_level: the conditions AND-joined into every query of the cube.
RowLevel(cube, ctx) ==
    (IF cube.hasRules THEN cube.rules[ctx] ELSE <<>>) \o DefaultRules(cube, ctx)

RuleColumns(cube, ctx) ==
    UNION {{alternative[1] : alternative \in ToSet(rule)} : rule \in ToSet(RowLevel(cube, ctx))}

\* NULL equals nothing.
Equals(row, alternative) ==
    row[alternative[1]] # None /\ row[alternative[1]] = alternative[2]

\* What a condition asks of a row.
Meets(row, rule) == \E i \in DOMAIN rule : Equals(row, rule[i])

-----------------------------------------------------------------------------
\* validate_cube: what each rollup of a cube may declare.
ValidRollup(cube, pa) ==
    /\ \A m \in pa.measures :
          m \in DOMAIN cube.measures /\ cube.measures[m].type \in AdditiveTypes
    /\ pa.dimensions \subseteq DOMAIN cube.dimensions
    /\ pa.timeDimension # None =>
          /\ pa.timeDimension \in DOMAIN cube.dimensions
          /\ cube.dimensions[pa.timeDimension].type = "time"

Valid(cube) ==
    /\ cube.hasRules /\ cube.preAggregations # <<>> => cube.securityColumns # {}
    /\ \A i, j \in DOMAIN cube.preAggregations :
          i # j => cube.preAggregations[i].name # cube.preAggregations[j].name
    /\ \A i \in DOMAIN cube.preAggregations : ValidRollup(cube, cube.preAggregations[i])

=============================================================================
