---------------------------- MODULE SchemaChanges ----------------------------
(***************************************************************************)
(* A cube schema kept in YAML: its authors propose a new version, CI       *)
(* parses and diffs it (cubepy-diff --check), and a server that starts     *)
(* registers its cubes one by one.  Clients hold member paths, and move to *)
(* the new name when the diff tells them of a rename.  A schema is a       *)
(* function from cube names to cubes: of two cubes with one name both the  *)
(* registry and the diff keep the last.  Of two members of one kind and    *)
(* name, which no one refuses, the registry finds the first and the diff   *)
(* the last.  Beyond CubeSchema a cube has                                 *)
(*   table   the source its sql reads                                      *)
(*   status  active or deprecated, as its members have                     *)
(*   later   by kind, the last declaration of each name declared again     *)
(* and a join its relationship and sql: pairs of a cube and a column of    *)
(* it.  The sql of a member is the set of the columns in it, empty for     *)
(* NULL.                                                                   *)
(***************************************************************************)
EXTENDS Integers, Sequences, FiniteSets, FiniteSetsExt, SequencesExt

CONSTANTS
    None,
    Initial,    \* the schemas to begin with
    Versions    \* the versions that authors may propose

VARIABLES
    main,       \* the schema on the main branch
    proposed,   \* the version that CI is to judge, or None
    loaded,     \* the server's registry
    unread,     \* the cubes of the server's files that are not registered yet
    client      \* the path a client holds, and what it meant when first held

vars == <<main, proposed, loaded, unread, client>>

Registry == INSTANCE CubeSchema WITH registry <- loaded
Old      == INSTANCE CubeSchema WITH registry <- main
New      == INSTANCE CubeSchema WITH registry <- proposed

Put(schema, name, cube) == [c \in DOMAIN schema \cup {name} |->
                               IF c = name THEN cube ELSE schema[c]]

\* parse_cube_file raises if any of the cubes is not valid.
Parses(schema) == \A c \in DOMAIN schema : Old!Valid(schema[c])

\* The schemas are functions, and the ones to begin with have been accepted.
ASSUME SchemasAssumption ==
    /\ \A schema \in Initial \cup Versions : schema = [c \in DOMAIN schema |-> schema[c]]
    /\ \A schema \in Initial : Parses(schema)

DimensionTypes == {"time", "string", "number", "boolean", "geo", "array", "primaryKey"}

Kinds == {"measure", "dimension", "segment"}

\* What is declared first of each name of a kind.
FirstOf(cube, kind) == CASE kind = "measure"   -> cube.measures
                         [] kind = "dimension" -> cube.dimensions
                         [] OTHER              -> cube.segments

\* What a cube file is parsed to: finitely many members, which the diff can
\* sort by name, measures and dimensions of a type of their kind, segments
\* without type and status (as getattr has it), and joins by target.
Parsed(cube) ==
    /\ Old!NamesIn(cube) \subseteq Int /\ IsFiniteSet(Old!NamesIn(cube))
    /\ \A kind \in Kinds : DOMAIN cube.later[kind] \subseteq DOMAIN FirstOf(cube, kind)
    /\ \A kind \in Kinds : \A members \in {FirstOf(cube, kind), cube.later[kind]} :
          \A m \in DOMAIN members :
             CASE kind = "measure"   -> members[m].type \in Old!MeasureTypes
               [] kind = "dimension" -> members[m].type \in DimensionTypes
               [] OTHER              -> members[m].type = None /\ members[m].status = "active"
    /\ cube.joins = [t \in DOMAIN cube.joins |->
                      [relationship |-> cube.joins[t].relationship,
                       sql |-> cube.joins[t].sql]]

ASSUME CubesAssumption ==
    /\ None \notin Int \cup Old!MeasureTypes \cup DimensionTypes
    /\ \A schema \in Initial \cup Versions : \A c \in DOMAIN schema : Parsed(schema[c])

-----------------------------------------------------------------------------
(* diff_cubes, for one cube that both versions have. *)

Change(severity, kind, cube, member, to) ==
    [severity |-> severity, kind |-> kind, cube |-> cube, member |-> member, to |-> to]

\* _members: unlike in resolve_member, a segment comes before a dimension of
\* its name and a dimension before a measure, and the last of a name first.
NamesOf(cube)   == Old!NamesIn(cube)
KindOf(cube, m) == CASE m \in DOMAIN cube.segments -> "segment"
                     [] m \notin DOMAIN cube.segments /\ m \in DOMAIN cube.dimensions -> "dimension"
                     [] OTHER -> "measure"
MemberOf(cube, m) == IF m \in DOMAIN cube.later[KindOf(cube, m)]
                     THEN cube.later[KindOf(cube, m)][m]
                     ELSE FirstOf(cube, KindOf(cube, m))[m]

Removed(old, new) == NamesOf(old) \ NamesOf(new)
Added(old, new)   == NamesOf(new) \ NamesOf(old)
Common(old, new)  == NamesOf(old) \cap NamesOf(new)

\* Mutant of Signature: any two members of a type are alike.
SignatureOfType(cube, m) == MemberOf(cube, m).type

Signature(cube, m) == <<MemberOf(cube, m).type, MemberOf(cube, m).sql>>

\* Mutant of Twin: a name is given to every removed member it could stand for.
TwinShared(old, new, r) ==
    LET alike == {a \in Added(old, new) : Signature(new, a) = Signature(old, r)}
    IN  IF alike = {} THEN None ELSE Max(alike)

\* Of the added members with a signature the last can be a rename, and of the
\* removed ones with that signature the first takes it.
Twin(old, new, r) ==
    LET alike == {a \in Added(old, new) : Signature(new, a) = Signature(old, r)}
    IN  IF \/ alike = {}
           \/ \E s \in Removed(old, new) : s < r /\ Signature(old, s) = Signature(old, r)
        THEN None ELSE Max(alike)

StatusChange(name, member, old, new) ==
    IF old.status = new.status THEN {}
    ELSE {Change(IF new.status = "deprecated" THEN "warning" ELSE "info",
                 "status-changed", name, member, None)}

\* Mutant of CommonChanges: the two are compared by name and type only.
CommonChangesOfType(name, old, new, m) ==
    IF MemberOf(old, m).type # MemberOf(new, m).type
    THEN {Change("breaking", "type-changed", name, m, None)} ELSE {}

\* A segment has neither a type nor a status.
CommonChanges(name, old, new, m) ==
    LET o == MemberOf(old, m)
        n == MemberOf(new, m)
        typed == {"measure", "dimension"}
    IN  (IF {KindOf(old, m), KindOf(new, m)} \subseteq typed /\ o.type # n.type
         THEN {Change("breaking", "type-changed", name, m, None)} ELSE {})
        \cup (IF o.sql # n.sql
              THEN {Change("breaking", "sql-changed", name, m, None)} ELSE {})
        \cup StatusChange(name, m, o, n)

MemberChanges(name, old, new) ==
    LET RenamedTo(r) == Twin(old, new, r)
        renames == {RenamedTo(r) : r \in Removed(old, new)} \ {None}
    IN  {IF RenamedTo(r) # None
         THEN Change("warning", "member-renamed", name, r, RenamedTo(r))
         ELSE Change("breaking", "member-removed", name, r, None) : r \in Removed(old, new)}
        \cup {Change("info", "member-added", name, a, None) : a \in Added(old, new) \ renames}
        \cup UNION {CommonChanges(name, old, new, m) : m \in Common(old, new)}

\* A change of a join names no member; its target is in the text.
JoinChanges(name, old, new) ==
    {Change("breaking", "join-removed", name, None, t) : t \in DOMAIN old.joins \ DOMAIN new.joins}
    \cup {Change("info", "join-added", name, None, t) : t \in DOMAIN new.joins \ DOMAIN old.joins}
    \cup {Change("breaking", "join-changed", name, None, t) :
             t \in {u \in DOMAIN old.joins \cap DOMAIN new.joins : old.joins[u] # new.joins[u]}}

CubeChanges(name, old, new) ==
    (IF old.table # new.table THEN {Change("breaking", "cube-sql-changed", name, None, None)} ELSE {})
    \cup StatusChange(name, None, old, new)
    \cup MemberChanges(name, old, new)
    \cup JoinChanges(name, old, new)

DiffCubes(old, new) ==
    {Change("breaking", "cube-removed", c, None, None) : c \in DOMAIN old \ DOMAIN new}
    \cup {Change("info", "cube-added", c, None, None) : c \in DOMAIN new \ DOMAIN old}
    \cup UNION {CubeChanges(c, old[c], new[c]) : c \in DOMAIN old \cap DOMAIN new}

\* The signature of a segment that comes or goes cannot be taken, nor its
\* status be written: the diff ends in an AttributeError.
DiffRaises(old, new) ==
    \E c \in DOMAIN old \cap DOMAIN new :
        \/ \E r \in Removed(old[c], new[c]) : KindOf(old[c], r) = "segment"
        \/ \E a \in Added(old[c], new[c]) : KindOf(new[c], a) = "segment"
        \/ \E m \in Common(old[c], new[c]) :
              /\ "segment" \in {KindOf(old[c], m), KindOf(new[c], m)}
              /\ MemberOf(old[c], m).status # MemberOf(new[c], m).status

\* Mutant of Check: CI compares without validating what is proposed.
CheckUnparsed(old, new) ==
    /\ ~DiffRaises(old, new)
    /\ \A change \in DiffCubes(old, new) : change.severity # "breaking"

\* main --check: the exit code, 0 for a version that may be merged.
Check(old, new) ==
    /\ Parses(old) /\ Parses(new) /\ ~DiffRaises(old, new)
    /\ \A change \in DiffCubes(old, new) : change.severity # "breaking"

-----------------------------------------------------------------------------
Init ==
    /\ main \in Initial /\ proposed = None
    /\ loaded = <<>> /\ unread = main
    /\ client = None

Propose(version) ==
    /\ proposed = None /\ unread = <<>>
    /\ proposed' = version
    /\ UNCHANGED <<main, loaded, unread, client>>

Followed(path) ==
    LET renames == {change \in DiffCubes(main, proposed) :
                       change.kind = "member-renamed" /\ <<change.cube, change.member>> = path}
    IN  IF renames = {} THEN path ELSE <<path[1], (CHOOSE r \in renames : TRUE).to>>

\* Every name of a cube is declared once: by one kind and not again.
DeclaredOnce(cube) ==
    /\ \A kind \in Kinds : DOMAIN cube.later[kind] = {}
    /\ \A k, l \in Kinds : k # l => DOMAIN FirstOf(cube, k) \cap DOMAIN FirstOf(cube, l) = {}

\* CI lets a version through: it is merged and deployed, clients read the diff.
Merge ==
    /\ proposed # None /\ Check(main, proposed)
    /\ main' = proposed /\ proposed' = None
    /\ loaded' = <<>> /\ unread' = proposed
    /\ client' = IF client = None THEN None
                 ELSE LET path == Followed(client.path)
                      IN  [client EXCEPT !.path = path,
                                         !.once = @ /\ DeclaredOnce(proposed[path[1]]),
                                         !.segment = @ \/ New!Kind(path) = "segment"]

Reject ==
    /\ proposed # None /\ ~Check(main, proposed)
    /\ proposed' = None
    /\ UNCHANGED <<main, loaded, unread, client>>

\* _cube_from_dict: a cube is parsed, validated and registered before the next.
\* One that does not validate ends the load, and what was registered stays.
Register(c) ==
    /\ c \in DOMAIN unread /\ Old!Valid(unread[c])
    /\ loaded' = Put(loaded, c, unread[c])
    /\ unread' = [d \in DOMAIN unread \ {c} |-> unread[d]]
    /\ UNCHANGED <<main, proposed, client>>

\* The server dies and is started again.
Restart ==
    /\ proposed = None
    /\ loaded' = <<>> /\ unread' = main
    /\ UNCHANGED <<main, proposed, client>>

Meaning(path) ==
    [table |-> Registry!Cube(path).table, type |-> Registry!Member(path).type,
     sql |-> Registry!Member(path).sql, kind |-> Registry!Kind(path)]

\* A client takes up a path of the schema that is served.  Beside its meaning,
\* whether its cube has declared every name once in each version since, and
\* whether it has been a segment in one.
Hold(path) ==
    /\ client = None /\ unread = <<>> /\ proposed = None
    /\ Registry!Resolves(path)
    /\ client' = [path |-> path, meaning |-> Meaning(path),
                  once |-> DeclaredOnce(Registry!Cube(path)),
                  segment |-> Registry!Kind(path) = "segment"]
    /\ UNCHANGED <<main, proposed, loaded, unread>>

Next ==
    \/ \E version \in Versions : Propose(version)
    \/ Merge
    \/ Reject
    \/ \E c \in DOMAIN unread : Register(c)
    \/ Restart
    \/ \E c \in DOMAIN loaded : \E m \in NamesOf(loaded[c]) : Hold(<<c, m>>)

Spec == Init /\ [][Next]_vars

-----------------------------------------------------------------------------
Judged == proposed # None /\ Parses(proposed) /\ ~DiffRaises(main, proposed)

\* The diff tells of every member that goes and every one that comes exactly
\* once, as removed, as added, or as the two sides of one rename, and of none
\* that stays.
EveryMemberAccountedOnce ==
    Judged => \A c \in DOMAIN main \cap DOMAIN proposed :
        LET changes == {ch \in DiffCubes(main, proposed) : ch.cube = c}
            Leaves(m) == {ch \in changes : ch.kind \in {"member-removed", "member-renamed"}
                                            /\ ch.member = m}
            Comes(m)  == {ch \in changes : \/ ch.kind = "member-added" /\ ch.member = m
                                           \/ ch.kind = "member-renamed" /\ ch.to = m}
            Once(set, holds) == Cardinality(set) = IF holds THEN 1 ELSE 0
        IN  \A m \in NamesOf(main[c]) \cup NamesOf(proposed[c]) :
                /\ Once(Leaves(m), m \in Removed(main[c], proposed[c]))
                /\ Once(Comes(m), m \in Added(main[c], proposed[c]))

\* A diff that is empty means that the two versions have the same cubes, tables
\* and joins, and in a cube that declares every name once in both, every path
\* resolves to the same SQL and the same aggregate: unless it has become a
\* segment, or has ceased to be one, which the diff passes in silence.
SilenceMeansSame ==
    Judged /\ DiffCubes(main, proposed) = {} =>
        /\ DOMAIN main = DOMAIN proposed
        /\ \A c \in DOMAIN main :
              /\ NamesOf(main[c]) = NamesOf(proposed[c])
              /\ main[c].table = proposed[c].table /\ main[c].joins = proposed[c].joins
              /\ DeclaredOnce(main[c]) /\ DeclaredOnce(proposed[c]) =>
                    \A m \in NamesOf(main[c]) :
                        LET o == Old!Member(<<c, m>>)  n == New!Member(<<c, m>>)
                            kinds == {Old!Kind(<<c, m>>), New!Kind(<<c, m>>)}
                        IN  /\ o.sql = n.sql
                            /\ \/ o.type = n.type /\ Cardinality(kinds) = 1
                               \/ "segment" \in kinds

\* However many versions were merged since a client took up a path, each with
\* nothing breaking in its diff, and whenever the server was started: the path
\* it followed through the reported renames resolves, and if the versions
\* declare the names of its cube once, it reads the same SQL of the same table,
\* as a member of the same kind and type unless one made a segment of it.
FollowedPathsKeepMeaning ==
    client # None /\ unread = <<>> =>
        /\ Registry!Resolves(client.path)
        /\ Meaning(client.path).table = client.meaning.table
        /\ client.once =>
              /\ Meaning(client.path).sql = client.meaning.sql
              /\ client.segment \/ Meaning(client.path) = client.meaning

\* A server that is started on what CI let through registers all of it: no
\* load stops at a cube that does not validate, with half a schema registered.
MergedSchemasLoad ==
    /\ \A c \in DOMAIN unread : Old!Valid(unread[c])
    /\ unread = <<>> => loaded = main

=============================================================================
