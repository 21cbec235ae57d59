-------------------------- MODULE SchemaChangesProofs --------------------------
(***************************************************************************)
(* Proofs about SchemaChanges, for any schemas: CI lets none through that  *)
(* a server cannot load to the end, the diff accounts for each member once,*)
(* what may have changed when it is silent, and what a client keeps that   *)
(* follows the renames it reports.                                         *)
(***************************************************************************)
EXTENDS SchemaChanges, TLAPS, WellFoundedInduction, FiniteSetTheorems

IsFcn(f) == f = [x \in DOMAIN f |-> f[x]]

\* What is registered and what is not are parts of the schema on main, which
\* parses: the strengthening that a restart and a merge keep too.
IInv ==
    /\ IsFcn(main) /\ IsFcn(loaded) /\ IsFcn(unread)
    /\ proposed # None => IsFcn(proposed)
    /\ \A c \in DOMAIN main : Old!Valid(main[c])
    /\ DOMAIN main = DOMAIN loaded \cup DOMAIN unread
    /\ \A c \in DOMAIN loaded : loaded[c] = main[c]
    /\ \A c \in DOMAIN unread : unread[c] = main[c]

LEMMA EmptyFcn == IsFcn(<<>>) /\ DOMAIN <<>> = {}
  BY DEF IsFcn

LEMMA InitIInv == Init => IInv
  BY SchemasAssumption, EmptyFcn DEF Init, IInv, Parses, IsFcn

\* A step that leaves alone what is on main and what the server has of it.
LEMMA SchemasKept ==
    ASSUME IInv, UNCHANGED <<main, loaded, unread>>, proposed' # None => IsFcn(proposed')
    PROVE  IInv'
  <1>1. \A c \in DOMAIN main' : Old!Valid(main'[c])
    BY Zenon DEF IInv
  <1>2. IsFcn(main') /\ IsFcn(loaded') /\ IsFcn(unread')
    BY Zenon DEF IInv
  <1>3. /\ DOMAIN main' = DOMAIN loaded' \cup DOMAIN unread'
        /\ \A c \in DOMAIN loaded' : loaded'[c] = main'[c]
        /\ \A c \in DOMAIN unread' : unread'[c] = main'[c]
    BY DEF IInv
  <1> QED
    BY <1>1, <1>2, <1>3 DEF IInv, IsFcn, Old!Valid, Old!ValidRollup, Old!AdditiveTypes

LEMMA NextIInv == IInv /\ [Next]_vars => IInv'
  <1> SUFFICES ASSUME IInv, [Next]_vars PROVE IInv'
    OBVIOUS
  <1>1. CASE UNCHANGED vars
    <2>1. UNCHANGED <<main, loaded, unread, proposed>>
      BY <1>1 DEF vars
    <2>2. proposed # None => IsFcn(proposed)
      BY DEF IInv
    <2>3. proposed' # None => IsFcn(proposed')
      BY <2>1, <2>2, Zenon
    <2> QED
      BY <2>1, <2>3, SchemasKept
  <1>2. ASSUME NEW version \in Versions, Propose(version) PROVE IInv'
    <2>1. proposed' = version /\ main' = main /\ loaded' = loaded /\ unread' = unread
      BY <1>2 DEF Propose
    <2>2. IsFcn(proposed')
      BY <2>1, SchemasAssumption DEF IsFcn
    <2> QED
      BY <2>1, <2>2, SchemasKept
  <1>3. CASE Merge
    <2>1. /\ main' = proposed /\ unread' = proposed /\ loaded' = <<>> /\ proposed' = None
          /\ proposed # None /\ Parses(proposed)
      BY <1>3 DEF Merge, Check
    <2>2. IsFcn(proposed)
      BY <2>1 DEF IInv
    <2>3. \A c \in DOMAIN main' : Old!Valid(main'[c])
      BY <2>1 DEF Parses
    <2>4. IsFcn(main') /\ IsFcn(loaded') /\ IsFcn(unread') /\ (proposed' # None => IsFcn(proposed'))
      BY <2>1, <2>2, EmptyFcn DEF IsFcn
    <2>5. /\ DOMAIN main' = DOMAIN loaded' \cup DOMAIN unread'
          /\ \A c \in DOMAIN loaded' : loaded'[c] = main'[c]
          /\ \A c \in DOMAIN unread' : unread'[c] = main'[c]
      BY <2>1, EmptyFcn
    <2> QED
      BY <2>3, <2>4, <2>5 DEF IInv, IsFcn, Old!Valid, Old!ValidRollup, Old!AdditiveTypes
  <1>4. CASE Reject
    BY <1>4, SchemasKept DEF Reject
  <1>5. ASSUME NEW c \in DOMAIN unread, Register(c) PROVE IInv'
    <2>1. /\ IsFcn(loaded') /\ DOMAIN loaded' = DOMAIN loaded \cup {c}
          /\ \A d \in DOMAIN loaded' : loaded'[d] = IF d = c THEN unread[c] ELSE loaded[d]
      BY <1>5 DEF Register, Put, IsFcn
    <2>2. /\ IsFcn(unread') /\ DOMAIN unread' = DOMAIN unread \ {c}
          /\ \A d \in DOMAIN unread' : unread'[d] = unread[d]
      BY <1>5 DEF Register, IsFcn
    <2>3. main' = main /\ proposed' = proposed
      BY <1>5 DEF Register
    <2>4. /\ DOMAIN main' = DOMAIN loaded' \cup DOMAIN unread'
          /\ \A d \in DOMAIN loaded' : loaded'[d] = main'[d]
          /\ \A d \in DOMAIN unread' : unread'[d] = main'[d]
      BY <2>1, <2>2, <2>3 DEF IInv
    <2>5. /\ IsFcn(main') /\ (proposed' # None => IsFcn(proposed'))
          /\ \A d \in DOMAIN main' : Old!Valid(main'[d])
      BY <2>3, Zenon DEF IInv
    <2> QED
      BY <2>1, <2>2, <2>4, <2>5 DEF IInv, IsFcn, Old!Valid, Old!ValidRollup, Old!AdditiveTypes
  <1>6. CASE Restart
    <2>1. /\ main' = main /\ unread' = main /\ loaded' = <<>> /\ proposed' = None
      BY <1>6 DEF Restart
    <2>2. \A c \in DOMAIN main' : Old!Valid(main'[c])
      BY <2>1, Zenon DEF IInv
    <2>3. IsFcn(main') /\ IsFcn(loaded') /\ IsFcn(unread') /\ (proposed' # None => IsFcn(proposed'))
      BY <2>1, EmptyFcn DEF IInv, IsFcn
    <2>4. /\ DOMAIN main' = DOMAIN loaded' \cup DOMAIN unread'
          /\ \A c \in DOMAIN loaded' : loaded'[c] = main'[c]
          /\ \A c \in DOMAIN unread' : unread'[c] = main'[c]
      BY <2>1, EmptyFcn
    <2> QED
      BY <2>2, <2>3, <2>4 DEF IInv, IsFcn, Old!Valid, Old!ValidRollup, Old!AdditiveTypes
  <1>7. ASSUME NEW c \in DOMAIN loaded, NEW m \in NamesOf(loaded[c]), Hold(<<c, m>>) PROVE IInv'
    <2>1. UNCHANGED <<main, loaded, unread, proposed>>
      BY <1>7 DEF Hold
    <2>2. proposed # None => IsFcn(proposed)
      BY DEF IInv
    <2>3. proposed' # None => IsFcn(proposed')
      BY <2>1, <2>2, Zenon
    <2> QED
      BY <2>1, <2>3, SchemasKept
  <1> QED
    BY <1>1, <1>2, <1>3, <1>4, <1>5, <1>6, <1>7 DEF Next

\* No server that starts on what CI let through stops half way through its
\* schema: of any versions, merged in any order, with restarts at any time.
THEOREM MergedLoads == Spec => []MergedSchemasLoad
  <1>1. IInv => MergedSchemasLoad
    <2> SUFFICES ASSUME IInv PROVE MergedSchemasLoad
      OBVIOUS
    <2>1. unread = <<>> => loaded = main
      BY EmptyFcn DEF IInv, IsFcn
    <2> QED
      BY <2>1 DEF IInv, MergedSchemasLoad
  <1> QED
    BY <1>1, InitIInv, NextIInv, PTL DEF Spec

-----------------------------------------------------------------------------
(* What the diff says of one cube that both versions have. *)

\* Of names that a cube declares once the diff and the registry find the same
\* member.
LEMMA SameMember ==
    ASSUME NEW cube, DeclaredOnce(cube), NEW m \in NamesOf(cube)
    PROVE  /\ KindOf(cube, m) = Old!KindIn(cube, m)
           /\ MemberOf(cube, m) = Old!MemberIn(cube, m)
  <1>1. m \in DOMAIN cube.measures \/ m \in DOMAIN cube.dimensions \/ m \in DOMAIN cube.segments
    BY DEF NamesOf, Old!NamesIn
  <1>2. /\ DOMAIN cube.measures \cap DOMAIN cube.dimensions = {}
        /\ DOMAIN cube.measures \cap DOMAIN cube.segments = {}
        /\ DOMAIN cube.dimensions \cap DOMAIN cube.segments = {}
    BY DEF DeclaredOnce, Kinds, FirstOf
  <1>3. KindOf(cube, m) = Old!KindIn(cube, m) /\ KindOf(cube, m) \in Kinds
    BY <1>1, <1>2 DEF KindOf, Old!KindIn, Kinds
  <1>4. MemberOf(cube, m) = FirstOf(cube, KindOf(cube, m))[m]
    BY <1>3 DEF MemberOf, DeclaredOnce
  <1> QED
    BY <1>3, <1>4 DEF FirstOf, Old!MemberIn, Kinds

\* Measures, dimensions and segments have different types.
LEMMA TypeOfKind ==
    ASSUME NEW cube, Parsed(cube), NEW m \in NamesOf(cube)
    PROVE  \/ KindOf(cube, m) = "measure" /\ MemberOf(cube, m).type \in Old!MeasureTypes
           \/ KindOf(cube, m) = "dimension" /\ MemberOf(cube, m).type \in DimensionTypes
           \/ KindOf(cube, m) = "segment" /\ MemberOf(cube, m).type = None
  <1> DEFINE kind == KindOf(cube, m)
  <1>1. m \in DOMAIN cube.measures \/ m \in DOMAIN cube.dimensions \/ m \in DOMAIN cube.segments
    BY DEF NamesOf, Old!NamesIn
  <1>2. kind \in Kinds /\ m \in DOMAIN FirstOf(cube, kind)
    BY <1>1 DEF KindOf, Kinds, FirstOf
  <1> HIDE DEF kind
  <1>3. PICK members \in {FirstOf(cube, kind), cube.later[kind]} :
           m \in DOMAIN members /\ MemberOf(cube, m) = members[m]
    BY <1>2 DEF MemberOf, kind
  <1> QED
    BY <1>2, <1>3 DEF Parsed, kind, Kinds

LEMMA SameKind ==
    ASSUME NEW old, Parsed(old), NEW m \in NamesOf(old),
           NEW new, Parsed(new), NEW n \in NamesOf(new),
           MemberOf(old, m).type = MemberOf(new, n).type
    PROVE  KindOf(old, m) = KindOf(new, n)
  <1>1. /\ Old!MeasureTypes \cap DimensionTypes = {}
        /\ None \notin Old!MeasureTypes \cup DimensionTypes
    BY CubesAssumption DEF Old!MeasureTypes, Old!ConcreteTypes, Old!AdditiveTypes,
       Old!WindowTypes, DimensionTypes
  <1> QED
    BY <1>1, TypeOfKind

Silent(changes) == \A ch \in changes : ch.severity # "breaking"

\* A member that stays and is not said to break has the SQL it had, and if it
\* neither is nor was a segment, its kind and type.
LEMMA CommonMember ==
    ASSUME NEW name, NEW old, Parsed(old),
           NEW new, Parsed(new), NEW m \in Common(old, new),
           Silent(CommonChanges(name, old, new, m))
    PROVE  /\ MemberOf(old, m).sql = MemberOf(new, m).sql
           /\ "segment" \notin {KindOf(old, m), KindOf(new, m)} =>
                 /\ MemberOf(old, m).type = MemberOf(new, m).type
                 /\ KindOf(old, m) = KindOf(new, m)
  <1> DEFINE o == MemberOf(old, m)
             n == MemberOf(new, m)
             typed == {"measure", "dimension"}
  <1>1. m \in NamesOf(old) /\ m \in NamesOf(new)
    BY DEF Common
  <1>2. o.sql = n.sql
    <2>1. o.sql # n.sql =>
            Change("breaking", "sql-changed", name, m, None) \in CommonChanges(name, old, new, m)
      BY DEF CommonChanges
    <2> QED
      BY <2>1 DEF Silent, Change
  <1>3. ~({KindOf(old, m), KindOf(new, m)} \subseteq typed /\ o.type # n.type)
    <2>1. {KindOf(old, m), KindOf(new, m)} \subseteq typed /\ o.type # n.type =>
            Change("breaking", "type-changed", name, m, None) \in CommonChanges(name, old, new, m)
      BY DEF CommonChanges
    <2> QED
      BY <2>1 DEF Silent, Change
  <1>4. ASSUME "segment" \notin {KindOf(old, m), KindOf(new, m)} PROVE o.type = n.type
    BY <1>1, <1>3, <1>4, TypeOfKind
  <1>5. o.type = n.type => KindOf(old, m) = KindOf(new, m)
    BY <1>1, SameKind
  <1> QED
    BY <1>2, <1>4, <1>5

\* What the diff tells of a member that goes, and of the members that come.
Departure(name, old, new, r) ==
    IF Twin(old, new, r) # None
    THEN Change("warning", "member-renamed", name, r, Twin(old, new, r))
    ELSE Change("breaking", "member-removed", name, r, None)

Renames(old, new) == {Twin(old, new, r) : r \in Removed(old, new)} \ {None}

LEMMA MembersTold ==
    ASSUME NEW name, NEW old, NEW new
    PROVE  MemberChanges(name, old, new) =
             {Departure(name, old, new, r) : r \in Removed(old, new)}
             \cup {Change("info", "member-added", name, a, None) :
                      a \in Added(old, new) \ Renames(old, new)}
             \cup UNION {CommonChanges(name, old, new, m) : m \in Common(old, new)}
  BY DEF MemberChanges, Departure, Renames

LEMMA MemberTold ==
    ASSUME NEW name, NEW old, NEW new
    PROVE  /\ \A r \in Removed(old, new) :
                Departure(name, old, new, r) \in MemberChanges(name, old, new)
           /\ \A a \in Added(old, new) \ Renames(old, new) :
                Change("info", "member-added", name, a, None) \in MemberChanges(name, old, new)
  BY MembersTold

\* A cube that goes or comes is told of.
LEMMA CubesTold ==
    ASSUME NEW old, NEW new
    PROVE  /\ \A c \in DOMAIN old \ DOMAIN new :
                Change("breaking", "cube-removed", c, None, None) \in DiffCubes(old, new)
           /\ \A c \in DOMAIN new \ DOMAIN old :
                Change("info", "cube-added", c, None, None) \in DiffCubes(old, new)
  <1> DEFINE gone == {Change("breaking", "cube-removed", c, None, None) : c \in DOMAIN old \ DOMAIN new}
             come == {Change("info", "cube-added", c, None, None) : c \in DOMAIN new \ DOMAIN old}
  <1>1. gone \subseteq DiffCubes(old, new) /\ come \subseteq DiffCubes(old, new)
    BY DEF DiffCubes
  <1> QED
    BY <1>1

\* The changes of a cube that both versions have are among those of the diff.
LEMMA ChangesOfCube ==
    ASSUME NEW old, NEW new, NEW c \in DOMAIN old \cap DOMAIN new
    PROVE  /\ CubeChanges(c, old[c], new[c]) \subseteq DiffCubes(old, new)
           /\ MemberChanges(c, old[c], new[c]) \subseteq DiffCubes(old, new)
           /\ JoinChanges(c, old[c], new[c]) \subseteq DiffCubes(old, new)
           /\ \A m \in Common(old[c], new[c]) :
                 CommonChanges(c, old[c], new[c], m) \subseteq DiffCubes(old, new)
  <1>1. CubeChanges(c, old[c], new[c]) \subseteq DiffCubes(old, new)
    BY DEF DiffCubes
  <1>2. /\ MemberChanges(c, old[c], new[c]) \subseteq CubeChanges(c, old[c], new[c])
        /\ JoinChanges(c, old[c], new[c]) \subseteq CubeChanges(c, old[c], new[c])
    BY DEF CubeChanges
  <1>3. \A m \in Common(old[c], new[c]) :
           CommonChanges(c, old[c], new[c], m) \subseteq MemberChanges(c, old[c], new[c])
    BY DEF MemberChanges
  <1> QED
    BY <1>1, <1>2, <1>3

-----------------------------------------------------------------------------
\* The schemas are among those that were given.
Proposed ==
    /\ main \in Initial \cup Versions
    /\ proposed # None => proposed \in Versions

LEMMA NextProposed == Proposed /\ [Next]_vars => Proposed'
  BY DEF Proposed, Next, vars, Propose, Merge, Reject, Register, Restart, Hold

LEMMA InitProposed == Init => Proposed
  BY DEF Init, Proposed

\* What Old and New resolve a path to.
LEMMA Resolved ==
    ASSUME NEW c, NEW m
    PROVE  /\ Old!Member(<<c, m>>) = Old!MemberIn(main[c], m)
           /\ Old!Kind(<<c, m>>) = Old!KindIn(main[c], m)
           /\ New!Member(<<c, m>>) = Old!MemberIn(proposed[c], m)
           /\ New!Kind(<<c, m>>) = Old!KindIn(proposed[c], m)
  BY DEF Old!Member, Old!Kind, Old!Cube, New!Member, New!Kind, New!Cube,
     New!MemberIn, New!KindIn, Old!MemberIn, Old!KindIn

\* SilenceMeansSame, whatever the versions: they may declare names twice.
THEOREM Silence == Spec => []SilenceMeansSame
  <1>1. Proposed => SilenceMeansSame
    <2> SUFFICES ASSUME Proposed, Judged, DiffCubes(main, proposed) = {}
                 PROVE  SilenceMeansSame
      BY DEF SilenceMeansSame
    <2>1. DOMAIN main = DOMAIN proposed
      BY CubesTold
    <2>2. ASSUME NEW c \in DOMAIN main
          PROVE  /\ NamesOf(main[c]) = NamesOf(proposed[c])
                 /\ main[c].table = proposed[c].table
                 /\ main[c].joins = proposed[c].joins
      <3> DEFINE old == main[c]
                 new == proposed[c]
      <3>1. c \in DOMAIN main \cap DOMAIN proposed
        BY <2>1
      <3>2. /\ CubeChanges(c, old, new) = {} /\ MemberChanges(c, old, new) = {}
            /\ JoinChanges(c, old, new) = {}
        BY <3>1, ChangesOfCube
      <3>3. old.table = new.table
        BY <3>2 DEF CubeChanges
      <3>4. Parsed(old) /\ Parsed(new)
        BY <3>1, CubesAssumption DEF Proposed, Judged
      <3>5. old.joins = new.joins
        <4>1. /\ DOMAIN old.joins = DOMAIN new.joins
              /\ \A u \in DOMAIN old.joins : old.joins[u] = new.joins[u]
          BY <3>2 DEF JoinChanges
        <4> QED
          BY <3>4, <4>1 DEF Parsed
      <3>6. Removed(old, new) = {}
        BY <3>2, MemberTold
      <3>7. Added(old, new) = {}
        BY <3>2, <3>6, MemberTold DEF Renames
      <3>8. NamesOf(old) = NamesOf(new)
        BY <3>6, <3>7 DEF Removed, Added
      <3> QED
        BY <3>3, <3>5, <3>8
    <2>3. ASSUME NEW c \in DOMAIN main, DeclaredOnce(main[c]), DeclaredOnce(proposed[c]),
                 NEW m \in NamesOf(main[c])
          PROVE  LET o == Old!Member(<<c, m>>)  n == New!Member(<<c, m>>)
                     kinds == {Old!Kind(<<c, m>>), New!Kind(<<c, m>>)}
                 IN  /\ o.sql = n.sql
                     /\ \/ o.type = n.type /\ Cardinality(kinds) = 1
                        \/ "segment" \in kinds
      <3> DEFINE old == main[c]
                 new == proposed[c]
      <3>1. c \in DOMAIN main \cap DOMAIN proposed
        BY <2>1
      <3>2. Parsed(old) /\ Parsed(new)
        BY <3>1, CubesAssumption DEF Proposed, Judged
      <3>3. m \in Common(old, new) /\ m \in NamesOf(new)
        BY <2>2 DEF Common
      <3>4. Silent(CommonChanges(c, old, new, m))
        BY <3>1, <3>3, ChangesOfCube DEF Silent
      <3>5. /\ KindOf(old, m) = Old!Kind(<<c, m>>) /\ MemberOf(old, m) = Old!Member(<<c, m>>)
            /\ KindOf(new, m) = New!Kind(<<c, m>>) /\ MemberOf(new, m) = New!Member(<<c, m>>)
        BY <2>3, <3>3, SameMember, Resolved
      <3>6. /\ MemberOf(old, m).sql = MemberOf(new, m).sql
            /\ "segment" \notin {KindOf(old, m), KindOf(new, m)} =>
                  /\ MemberOf(old, m).type = MemberOf(new, m).type
                  /\ KindOf(old, m) = KindOf(new, m)
        BY <3>2, <3>3, <3>4, CommonMember
      <3>7. Cardinality({Old!Kind(<<c, m>>)}) = 1
        BY FS_Singleton
      <3> QED
        BY <3>5, <3>6, <3>7
    <2> QED
      BY <2>1, <2>2, <2>3 DEF SilenceMeansSame
  <1> QED
    BY <1>1, InitProposed, NextProposed, PTL DEF Spec

-----------------------------------------------------------------------------
(* The member that a name of the diff was given for. *)

\* A set of natural numbers that is not empty has a least element.
LEMMA Least == ASSUME NEW T \in SUBSET Nat, T # {} PROVE \E x \in T : \A y \in T : x <= y
  <1>1. IsWellFoundedOn(OpToRel(<, Nat), Nat)
    BY NatLessThanWellFounded
  <1>2. PICK x \in T : \A y \in T : ~ (<<y, x>> \in OpToRel(<, Nat))
    BY <1>1, WFMin
  <1>3. \A y \in T : ~ (y < x)
    BY <1>2 DEF OpToRel
  <1> QED
    BY <1>3

\* A set that has 0, and n + 1 if it has n, has all natural numbers.
LEMMA Induction == ASSUME NEW T, 0 \in T, \A n \in Nat : n \in T => n + 1 \in T PROVE Nat \subseteq T
  <1> SUFFICES ASSUME NEW m \in Nat, m \notin T PROVE FALSE
    OBVIOUS
  <1>1. PICK x \in Nat \ T : \A y \in Nat \ T : x <= y
    BY Least
  <1>2. x # 0
    BY <1>1
  <1>3. x - 1 \in Nat /\ x - 1 \in T
    BY <1>1, <1>2
  <1> QED
    BY <1>1, <1>3

\* Max is of the set, for a set that is finite.
LEMMA Greatest == ASSUME NEW T \in SUBSET Int, IsFiniteSet(T), T # {} PROVE \E x \in T : \A y \in T : y <= x
  <1> DEFINE Bounded == {n \in Nat : \A S \in SUBSET Int : IsFiniteSet(S) /\ Cardinality(S) = n /\ S # {} => \E x \in S : \A y \in S : y <= x}
  <1>1. 0 \in Bounded
    BY FS_EmptySet
  <1>2. ASSUME NEW n \in Nat, n \in Bounded PROVE n + 1 \in Bounded
    <2> SUFFICES ASSUME NEW S \in SUBSET Int, IsFiniteSet(S), Cardinality(S) = n + 1, S # {}
                 PROVE \E x \in S : \A y \in S : y <= x
      OBVIOUS
    <2>1. PICK e \in S : TRUE
      OBVIOUS
    <2>2. IsFiniteSet(S \ {e}) /\ Cardinality(S \ {e}) = n
      <3>1. IsFiniteSet(S \ {e}) /\ Cardinality(S \ {e}) = Cardinality(S) - 1
        BY FS_RemoveElement, Zenon
      <3> QED
        BY <3>1
    <2>3. CASE S \ {e} = {}
      <3>1. S = {e}
        BY <2>1, <2>3, Zenon
      <3>2. e <= e
        OBVIOUS
      <3> QED
        BY <3>1, <3>2
    <2>4. CASE S \ {e} # {}
      <3>1. PICK x \in S \ {e} : \A y \in S \ {e} : y <= x
        BY <1>2, <2>2, <2>4
      <3>2. CASE e <= x
        BY <3>1, <3>2
      <3>3. CASE x <= e
        <4>1. \A y \in S : y <= e
          BY <3>1, <3>3
        <4> QED
          BY <4>1
      <3> QED
        BY <3>2, <3>3
    <2> QED
      BY <2>3, <2>4
  <1>3. Nat \subseteq Bounded
    <2> HIDE DEF Bounded
    <2> QED BY <1>1, <1>2, Induction
  <1>4. Cardinality(T) \in Nat
    BY FS_CardinalityType
  <1> QED
    BY <1>3, <1>4

LEMMA MaxIn == ASSUME NEW T \in SUBSET Int, IsFiniteSet(T), T # {} PROVE Max(T) \in T
  <1>1. PICK x \in T : \A y \in T : y <= x
    BY Greatest
  <1>2. \A y \in T : x >= y
    BY <1>1
  <1> QED
    BY <1>2 DEF Max

\* A rename leads to a member that is new and defined as the one that goes.
LEMMA TwinAlike ==
    ASSUME NEW old, NEW new, Parsed(new), NEW r, Twin(old, new, r) # None
    PROVE  /\ Twin(old, new, r) \in Added(old, new)
           /\ Signature(new, Twin(old, new, r)) = Signature(old, r)
           /\ ~ \E s \in Removed(old, new) : s < r /\ Signature(old, s) = Signature(old, r)
  <1> DEFINE alike == {a \in Added(old, new) : Signature(new, a) = Signature(old, r)}
  <1>1. /\ alike # {} /\ Twin(old, new, r) = Max(alike)
        /\ ~ \E s \in Removed(old, new) : s < r /\ Signature(old, s) = Signature(old, r)
    BY DEF Twin
  <1>2. alike \subseteq Old!NamesIn(new)
    BY DEF Added, NamesOf
  <1>3. alike \in SUBSET Int /\ IsFiniteSet(alike)
    BY <1>2, FS_Subset DEF Parsed
  <1>4. Max(alike) \in alike
    BY <1>1, <1>3, MaxIn
  <1> QED
    BY <1>1, <1>4

\* Only the departures and arrivals of members are told of as such.
LEMMA MemberKinds ==
    ASSUME NEW old, NEW new, NEW ch \in DiffCubes(old, new),
           ch.kind \in {"member-removed", "member-renamed", "member-added"}
    PROVE  \E c \in DOMAIN old \cap DOMAIN new :
             \/ \E r \in Removed(old[c], new[c]) : ch = Departure(c, old[c], new[c], r)
             \/ \E a \in Added(old[c], new[c]) \ Renames(old[c], new[c]) :
                   ch = Change("info", "member-added", c, a, None)
  <1>1. ASSUME NEW c \in DOMAIN old \cap DOMAIN new, ch \in CubeChanges(c, old[c], new[c])
        PROVE  ch \in MemberChanges(c, old[c], new[c])
    <2>1. ch \notin StatusChange(c, None, old[c], new[c])
      BY DEF StatusChange, Change
    <2>2. ch \notin JoinChanges(c, old[c], new[c])
      BY DEF JoinChanges, Change
    <2>3. ch # Change("breaking", "cube-sql-changed", c, None, None)
      BY DEF Change
    <2> QED
      BY <1>1, <2>1, <2>2, <2>3 DEF CubeChanges
  <1>2. PICK c \in DOMAIN old \cap DOMAIN new : ch \in CubeChanges(c, old[c], new[c])
    <2>1. ch \notin {Change("breaking", "cube-removed", c, None, None) : c \in DOMAIN old \ DOMAIN new}
      BY DEF Change
    <2>2. ch \notin {Change("info", "cube-added", c, None, None) : c \in DOMAIN new \ DOMAIN old}
      BY DEF Change
    <2> QED
      BY <2>1, <2>2 DEF DiffCubes
  <1>3. \A m : ch \notin CommonChanges(c, old[c], new[c], m)
    BY DEF CommonChanges, StatusChange, Change
  <1> QED
    BY <1>1, <1>2, <1>3, MembersTold

-----------------------------------------------------------------------------
(* What a path means. *)

MeaningIn(cube, m) ==
    [table |-> cube.table, type |-> Old!MemberIn(cube, m).type,
     sql |-> Old!MemberIn(cube, m).sql, kind |-> Old!KindIn(cube, m)]

\* What the client keeps, in terms of the schema on main.
ClientKept ==
    client # None =>
        LET cube == main[client.path[1]]
            m    == client.path[2]
        IN  /\ client = [path |-> client.path, meaning |-> client.meaning,
                         once |-> client.once, segment |-> client.segment]
            /\ client.path = <<client.path[1], m>>
            /\ client.path[1] \in DOMAIN main /\ m \in NamesOf(cube)
            /\ client.meaning.table = cube.table
            /\ client.once =>
                  /\ DeclaredOnce(cube)
                  /\ client.meaning.sql = Old!MemberIn(cube, m).sql
                  /\ client.segment \/ client.meaning = MeaningIn(cube, m)
            /\ client.segment \/ Old!KindIn(cube, m) # "segment"

LEMMA RegistryMeaning ==
    ASSUME NEW c, NEW m, c \in DOMAIN loaded
    PROVE  /\ Meaning(<<c, m>>) = MeaningIn(loaded[c], m)
           /\ Registry!Resolves(<<c, m>>) <=> m \in NamesOf(loaded[c])
  <1>1. /\ Registry!KindIn(loaded[c], m) = Old!KindIn(loaded[c], m)
        /\ Registry!MemberIn(loaded[c], m) = Old!MemberIn(loaded[c], m)
    BY DEF Registry!MemberIn, Registry!KindIn, Old!MemberIn, Old!KindIn
  <1> QED
    BY <1>1 DEF Meaning, MeaningIn, Registry!Cube, Registry!Member, Registry!Kind,
       Registry!Resolves, Registry!NamesIn, NamesOf, Old!NamesIn

\* A version that CI lets through keeps a path, along the rename that the diff
\* reports for it: its table, and if both versions declare the names of the
\* cube once, its SQL, and all it means unless it is a segment in one of them.
LEMMA MergeKeepsMeaning ==
    ASSUME Proposed, proposed # None, Check(main, proposed),
           NEW c \in DOMAIN main, NEW m \in NamesOf(main[c])
    PROVE  \E n : /\ Followed(<<c, m>>) = <<c, n>>
                  /\ c \in DOMAIN proposed /\ n \in NamesOf(proposed[c])
                  /\ proposed[c].table = main[c].table
                  /\ DeclaredOnce(main[c]) /\ DeclaredOnce(proposed[c]) =>
                        /\ Old!MemberIn(proposed[c], n).sql = Old!MemberIn(main[c], m).sql
                        /\ "segment" \notin {Old!KindIn(main[c], m), Old!KindIn(proposed[c], n)} =>
                              MeaningIn(proposed[c], n) = MeaningIn(main[c], m)
  <1> DEFINE old == main[c]
             new == proposed[c]
             told == {ch \in DiffCubes(main, proposed) :
                        ch.kind = "member-renamed" /\ <<ch.cube, ch.member>> = <<c, m>>}
  <1>1. \A ch \in DiffCubes(main, proposed) : ch.severity # "breaking"
    BY DEF Check
  <1>2. c \in DOMAIN proposed
    <2>1. c \notin DOMAIN proposed =>
            Change("breaking", "cube-removed", c, None, None) \in DiffCubes(main, proposed)
      BY CubesTold
    <2> QED
      BY <1>1, <2>1 DEF Change
  <1>3. Parsed(old) /\ Parsed(new)
    BY <1>2, CubesAssumption DEF Proposed
  <1>4. c \in DOMAIN main \cap DOMAIN proposed
    BY <1>2
  <1>5. old.table = new.table
    <2>1. old.table # new.table =>
            Change("breaking", "cube-sql-changed", c, None, None) \in DiffCubes(main, proposed)
      BY <1>4, ChangesOfCube DEF CubeChanges
    <2> QED
      BY <1>1, <2>1 DEF Change
  <1>6. ASSUME NEW ch \in told
        PROVE  m \in Removed(old, new) /\ ch = Departure(c, old, new, m)
    <2>1. PICK d \in DOMAIN main \cap DOMAIN proposed :
             \/ \E r \in Removed(main[d], proposed[d]) :
                   ch = Departure(d, main[d], proposed[d], r)
             \/ \E a \in Added(main[d], proposed[d]) \ Renames(main[d], proposed[d]) :
                   ch = Change("info", "member-added", d, a, None)
      BY <1>6, MemberKinds
    <2>2. PICK r \in Removed(main[d], proposed[d]) : ch = Departure(d, main[d], proposed[d], r)
      BY <1>6, <2>1 DEF Change
    <2>3. ch.cube = d /\ ch.member = r
      BY <2>2 DEF Departure, Change
    <2> QED
      BY <1>6, <2>2, <2>3
  <1>7. CASE m \in Common(old, new)
    <2>1. m \in NamesOf(new)
      BY <1>7 DEF Common
    <2>3. Silent(CommonChanges(c, old, new, m))
      BY <1>1, <1>4, <1>7, ChangesOfCube DEF Silent
    <2>4. /\ MemberOf(old, m).sql = MemberOf(new, m).sql
          /\ "segment" \notin {KindOf(old, m), KindOf(new, m)} =>
                /\ MemberOf(old, m).type = MemberOf(new, m).type
                /\ KindOf(old, m) = KindOf(new, m)
      BY <1>3, <1>7, <2>3, CommonMember
    <2>5. DeclaredOnce(old) /\ DeclaredOnce(new) =>
            /\ Old!MemberIn(new, m).sql = Old!MemberIn(old, m).sql
            /\ "segment" \notin {Old!KindIn(old, m), Old!KindIn(new, m)} =>
                  MeaningIn(new, m) = MeaningIn(old, m)
      BY <1>5, <2>1, <2>4, SameMember DEF MeaningIn
    <2>6. told = {}
      BY <1>6, <1>7 DEF Common, Removed
    <2>7. Followed(<<c, m>>) = <<c, m>>
      BY <2>6 DEF Followed
    <2> QED
      BY <1>2, <1>5, <2>1, <2>5, <2>7
  <1>8. CASE m \in Removed(old, new)
    <2> DEFINE n == Twin(old, new, m)
    <2>1. Departure(c, old, new, m) \in DiffCubes(main, proposed)
      BY <1>4, <1>8, ChangesOfCube, MemberTold
    <2>2. n # None
      BY <1>1, <2>1 DEF Departure, Change
    <2>3. Departure(c, old, new, m) \in told
      BY <2>1, <2>2 DEF Departure, Change
    <2>4. told = {Departure(c, old, new, m)}
      BY <1>6, <2>3
    <2>5. Followed(<<c, m>>) = <<c, n>>
      <3>1. (CHOOSE r \in told : TRUE) = Departure(c, old, new, m)
        BY <2>4
      <3>2. Departure(c, old, new, m).to = n
        BY <2>2 DEF Departure, Change
      <3>3. Followed(<<c, m>>) = <<c, (CHOOSE r \in told : TRUE).to>>
        BY <2>3 DEF Followed
      <3> QED
        BY <3>1, <3>2, <3>3
    <2>6. n \in NamesOf(new) /\ Signature(new, n) = Signature(old, m)
      <3>1. n \in Added(old, new) /\ Signature(new, n) = Signature(old, m)
        BY <1>3, <2>2, TwinAlike, Zenon
      <3> QED
        BY <3>1 DEF Added
    <2>7. /\ MemberOf(old, m).type = MemberOf(new, n).type
          /\ MemberOf(old, m).sql = MemberOf(new, n).sql
      BY <2>6 DEF Signature
    <2>8. KindOf(old, m) = KindOf(new, n)
      BY <1>3, <2>6, <2>7, SameKind
    <2>9. DeclaredOnce(old) /\ DeclaredOnce(new) => MeaningIn(new, n) = MeaningIn(old, m)
      BY <1>5, <2>6, <2>7, <2>8, SameMember DEF MeaningIn
    <2>10. MeaningIn(new, n) = MeaningIn(old, m)
             => Old!MemberIn(new, n).sql = Old!MemberIn(old, m).sql
      BY DEF MeaningIn
    <2> QED
      BY <1>2, <1>5, <2>5, <2>6, <2>9, <2>10
  <1> QED
    BY <1>7, <1>8 DEF Common, Removed

\* A client that has moved along with a merge.
LEMMA MergedClient ==
    ASSUME Proposed, ClientKept, Merge, client # None
    PROVE  ClientKept'
  <1> DEFINE c == client.path[1]
             m == client.path[2]
             once == client.once /\ DeclaredOnce(proposed[c])
  <1>1. proposed # None /\ Check(main, proposed) /\ main' = proposed
    BY DEF Merge
  <1>2. /\ client.path = <<c, m>> /\ c \in DOMAIN main /\ m \in NamesOf(main[c])
        /\ client = [path |-> client.path, meaning |-> client.meaning,
                     once |-> client.once, segment |-> client.segment]
    BY DEF ClientKept
  <1>3. PICK n : /\ Followed(<<c, m>>) = <<c, n>>
                 /\ c \in DOMAIN proposed /\ n \in NamesOf(proposed[c])
                 /\ proposed[c].table = main[c].table
                 /\ DeclaredOnce(main[c]) /\ DeclaredOnce(proposed[c]) =>
                        /\ Old!MemberIn(proposed[c], n).sql = Old!MemberIn(main[c], m).sql
                        /\ "segment" \notin {Old!KindIn(main[c], m), Old!KindIn(proposed[c], n)} =>
                              MeaningIn(proposed[c], n) = MeaningIn(main[c], m)
    BY <1>1, <1>2, MergeKeepsMeaning
  <1> DEFINE segment == client.segment \/ Old!KindIn(proposed[c], n) = "segment"
  <1>4. client' = [path |-> <<c, n>>, meaning |-> client.meaning, once |-> once, segment |-> segment]
    <2>1. client' = [client EXCEPT !.path = <<c, n>>,
                                   !.once = @ /\ DeclaredOnce(proposed[<<c, n>>[1]]),
                                   !.segment = @ \/ New!Kind(<<c, n>>) = "segment"]
      BY <1>2, <1>3, Zenon DEF Merge
    <2>2. <<c, n>>[1] = c /\ New!Kind(<<c, n>>) = Old!KindIn(proposed[c], n)
      BY Resolved
    <2>3. client' = [client EXCEPT !.path = <<c, n>>, !.once = once, !.segment = segment]
      BY <2>1, <2>2, Zenon
    <2> HIDE DEF c, m, once, segment
    <2> QED
      BY <1>2, <2>3
  <1> HIDE DEF c, m, once, segment
  <1>5. /\ client'.path = <<c, n>> /\ client'.path[1] = c /\ client'.path[2] = n
        /\ client'.meaning = client.meaning /\ client'.once = once /\ client'.segment = segment
    BY <1>4
  <1>6. client.meaning.table = proposed[c].table
    BY <1>3 DEF ClientKept, c
  <1>7. ASSUME once PROVE /\ DeclaredOnce(proposed[c])
                          /\ client.meaning.sql = Old!MemberIn(proposed[c], n).sql
                          /\ segment \/ client.meaning = MeaningIn(proposed[c], n)
    <2>1. /\ DeclaredOnce(proposed[c]) /\ DeclaredOnce(main[c])
          /\ client.meaning.sql = Old!MemberIn(main[c], m).sql
          /\ client.segment \/ client.meaning = MeaningIn(main[c], m)
      BY <1>7, Zenon DEF ClientKept, once, c, m
    <2>2. client.segment \/ Old!KindIn(main[c], m) # "segment"
      BY Zenon DEF ClientKept, c, m
    <2> QED
      BY <1>3, <2>1, <2>2 DEF segment
  <1>8. segment \/ Old!KindIn(proposed[c], n) # "segment"
    BY DEF segment
  <1> QED
    BY <1>1, <1>3, <1>4, <1>5, <1>6, <1>7, <1>8 DEF ClientKept, NamesOf, Old!NamesIn,
       MeaningIn, Old!MemberIn, Old!KindIn

LEMMA NextClientKept == IInv /\ Proposed /\ ClientKept /\ [Next]_vars => ClientKept'
  <1> SUFFICES ASSUME IInv, Proposed, ClientKept, [Next]_vars, client' # None
               PROVE  ClientKept'
    BY DEF ClientKept
  <1>1. CASE Merge
    <2>1. client # None
      BY <1>1 DEF Merge
    <2> QED
      BY <1>1, <2>1, MergedClient
  <1>2. ASSUME NEW c \in DOMAIN loaded, NEW m \in NamesOf(loaded[c]), Hold(<<c, m>>)
        PROVE  ClientKept'
    <2>1. c \in DOMAIN main /\ loaded[c] = main[c] /\ UNCHANGED main
      BY <1>2 DEF IInv, Hold
    <2>2. Registry!Cube(<<c, m>>) = main[c] /\ Registry!Kind(<<c, m>>) = Old!KindIn(main[c], m)
      BY <2>1 DEF Registry!Cube, Registry!Kind, Registry!KindIn, Old!KindIn
    <2>3. client' = [path |-> <<c, m>>, meaning |-> MeaningIn(main[c], m),
                     once |-> DeclaredOnce(main[c]),
                     segment |-> Old!KindIn(main[c], m) = "segment"]
      BY <1>2, <2>1, <2>2, RegistryMeaning DEF Hold
    <2>4. /\ client'.path = <<c, m>> /\ client'.path[1] = c /\ client'.path[2] = m
          /\ client'.meaning = MeaningIn(main[c], m) /\ client'.once = DeclaredOnce(main[c])
          /\ client'.segment = (Old!KindIn(main[c], m) = "segment")
      BY <2>3
    <2>5. /\ MeaningIn(main[c], m).table = main[c].table
          /\ MeaningIn(main[c], m).sql = Old!MemberIn(main[c], m).sql
      BY DEF MeaningIn
    <2> QED
      BY <1>2, <2>1, <2>3, <2>4, <2>5 DEF ClientKept, NamesOf, Old!NamesIn, MeaningIn,
         Old!MemberIn, Old!KindIn
  <1>3. CASE UNCHANGED <<main, client>>
    BY <1>3 DEF ClientKept, NamesOf, Old!NamesIn, MeaningIn, Old!MemberIn, Old!KindIn
  <1>4. ASSUME NEW version \in Versions, Propose(version) PROVE UNCHANGED <<main, client>>
    BY <1>4 DEF Propose
  <1> QED
    BY <1>1, <1>2, <1>3, <1>4 DEF Next, vars, Reject, Register, Restart

\* FollowedPathsKeepMeaning, whatever the versions: what a client is not told
\* of is a name declared again, and a member that becomes a segment.
THEOREM PathsKeepMeaning == Spec => []FollowedPathsKeepMeaning
  <1>1. Init => ClientKept
    BY DEF Init, ClientKept
  <1>2. IInv /\ ClientKept => FollowedPathsKeepMeaning
    <2> SUFFICES ASSUME IInv, ClientKept, client # None, unread = <<>>
                 PROVE  FollowedPathsKeepMeaning
      BY DEF FollowedPathsKeepMeaning
    <2> DEFINE c == client.path[1]
               m == client.path[2]
    <2>1. client.path = <<c, m>> /\ c \in DOMAIN main /\ m \in NamesOf(main[c])
      BY DEF ClientKept
    <2>2. /\ client.meaning.table = main[c].table
          /\ client.once =>
                /\ client.meaning.sql = Old!MemberIn(main[c], m).sql
                /\ client.segment \/ client.meaning = MeaningIn(main[c], m)
      BY Zenon DEF ClientKept
    <2>3. c \in DOMAIN loaded /\ loaded[c] = main[c]
      BY <2>1, EmptyFcn DEF IInv
    <2> HIDE DEF c, m
    <2>4. Registry!Resolves(client.path) /\ Meaning(client.path) = MeaningIn(main[c], m)
      BY <2>1, <2>3, RegistryMeaning
    <2>5. /\ MeaningIn(main[c], m).table = main[c].table
          /\ MeaningIn(main[c], m).sql = Old!MemberIn(main[c], m).sql
      BY DEF MeaningIn
    <2> QED
      BY <2>2, <2>4, <2>5 DEF FollowedPathsKeepMeaning
  <1> QED
    BY <1>1, <1>2, InitIInv, NextIInv, InitProposed, NextProposed, NextClientKept, PTL DEF Spec

-----------------------------------------------------------------------------
(* Every member is told of once. *)

LEMMA DepartureFields ==
    ASSUME NEW c, NEW old, NEW new, NEW r
    PROVE  LET d == Departure(c, old, new, r)
           IN  /\ d.cube = c /\ d.member = r /\ d.kind \in {"member-removed", "member-renamed"}
               /\ d.kind = "member-renamed" <=> Twin(old, new, r) # None
               /\ d.kind = "member-renamed" => d.to = Twin(old, new, r)
  BY DEF Departure, Change

\* What the diff tells of the members of one cube.
LEMMA ToldOfCube ==
    ASSUME NEW old, NEW new, NEW c \in DOMAIN old \cap DOMAIN new,
           NEW ch \in DiffCubes(old, new), ch.cube = c,
           ch.kind \in {"member-removed", "member-renamed", "member-added"}
    PROVE  \/ \E r \in Removed(old[c], new[c]) : ch = Departure(c, old[c], new[c], r)
           \/ \E a \in Added(old[c], new[c]) \ Renames(old[c], new[c]) :
                 ch = Change("info", "member-added", c, a, None)
  <1>1. PICK d \in DOMAIN old \cap DOMAIN new :
             \/ \E r \in Removed(old[d], new[d]) : ch = Departure(d, old[d], new[d], r)
             \/ \E a \in Added(old[d], new[d]) \ Renames(old[d], new[d]) :
                   ch = Change("info", "member-added", d, a, None)
    BY MemberKinds
  <1>2. ch.cube = d
    BY <1>1 DEF Departure, Change
  <1> QED
    BY <1>1, <1>2

\* One new name stands for one member that goes.
LEMMA OneTwin ==
    ASSUME NEW old, Parsed(old), NEW new, Parsed(new),
           NEW r \in Removed(old, new), NEW s \in Removed(old, new),
           Twin(old, new, r) # None, Twin(old, new, s) = Twin(old, new, r)
    PROVE  s = r
  <1>1. r \in Int /\ s \in Int
    BY DEF Parsed, Removed, NamesOf
  <1>2. ~(s < r) /\ ~(r < s)
    BY TwinAlike
  <1> QED
    BY <1>1, <1>2

LEMMA LeavesOnce ==
    ASSUME NEW old, NEW new, NEW c \in DOMAIN old \cap DOMAIN new, NEW m
    PROVE  {ch \in DiffCubes(old, new) : /\ ch.cube = c /\ ch.member = m
                                        /\ ch.kind \in {"member-removed", "member-renamed"}}
             = IF m \in Removed(old[c], new[c]) THEN {Departure(c, old[c], new[c], m)} ELSE {}
  <1> DEFINE leaves == {ch \in DiffCubes(old, new) :
                           /\ ch.cube = c /\ ch.member = m
                           /\ ch.kind \in {"member-removed", "member-renamed"}}
  <1>1. ASSUME NEW ch \in leaves
        PROVE  m \in Removed(old[c], new[c]) /\ ch = Departure(c, old[c], new[c], m)
    <2>1. ch.kind # "member-added"
      OBVIOUS
    <2>2. PICK r \in Removed(old[c], new[c]) : ch = Departure(c, old[c], new[c], r)
      BY <2>1, ToldOfCube DEF Change
    <2> QED
      BY <2>2, DepartureFields
  <1>2. m \in Removed(old[c], new[c]) => Departure(c, old[c], new[c], m) \in leaves
    <2> SUFFICES ASSUME m \in Removed(old[c], new[c])
                 PROVE  Departure(c, old[c], new[c], m) \in leaves
      OBVIOUS
    <2>1. Departure(c, old[c], new[c], m) \in DiffCubes(old, new)
      BY ChangesOfCube, MemberTold
    <2> QED
      BY <2>1, DepartureFields
  <1> HIDE DEF leaves
  <1>3. leaves = IF m \in Removed(old[c], new[c]) THEN {Departure(c, old[c], new[c], m)} ELSE {}
    BY <1>1, <1>2
  <1> QED
    BY <1>3 DEF leaves

\* What the diff tells of a member m that comes to cube c.
Arrivals(old, new, c, m) ==
    {ch \in DiffCubes(old, new) :
       /\ ch.cube = c
       /\ \/ ch.kind = "member-added" /\ ch.member = m
          \/ ch.kind = "member-renamed" /\ ch.to = m}

LEMMA ComesOnce ==
    ASSUME NEW old, NEW new, NEW c \in DOMAIN old \cap DOMAIN new,
           Parsed(old[c]), Parsed(new[c]), NEW m, m # None
    PROVE  IF m \in Added(old[c], new[c])
           THEN \E ch : Arrivals(old, new, c, m) = {ch} ELSE Arrivals(old, new, c, m) = {}
  <1> DEFINE comes == Arrivals(old, new, c, m)
             added == Change("info", "member-added", c, m, None)
  <1>1. ASSUME NEW ch \in comes
        PROVE  \/ \E r \in Removed(old[c], new[c]) : /\ ch = Departure(c, old[c], new[c], r)
                                                     /\ Twin(old[c], new[c], r) = m
               \/ m \in Added(old[c], new[c]) \ Renames(old[c], new[c]) /\ ch = added
    <2>1. CASE \E r \in Removed(old[c], new[c]) : ch = Departure(c, old[c], new[c], r)
      <3>1. PICK r \in Removed(old[c], new[c]) : ch = Departure(c, old[c], new[c], r)
        BY <2>1
      <3>2. Twin(old[c], new[c], r) = m
        BY <1>1, <3>1, DepartureFields DEF Arrivals
      <3> QED
        BY <3>1, <3>2
    <2>2. CASE \E a \in Added(old[c], new[c]) \ Renames(old[c], new[c]) :
                 ch = Change("info", "member-added", c, a, None)
      BY <1>1, <2>2 DEF Change, Arrivals
    <2> QED
      BY <1>1, <2>1, <2>2, ToldOfCube DEF Arrivals
  <1>2. ASSUME NEW r \in Removed(old[c], new[c]), Twin(old[c], new[c], r) = m
        PROVE  Departure(c, old[c], new[c], r) \in comes
    <2>1. Departure(c, old[c], new[c], r) \in DiffCubes(old, new)
      BY ChangesOfCube, MemberTold
    <2> QED
      BY <1>2, <2>1, DepartureFields DEF Arrivals
  <1>3. m \in Added(old[c], new[c]) \ Renames(old[c], new[c]) => added \in comes
    <2>1. m \in Added(old[c], new[c]) \ Renames(old[c], new[c]) => added \in DiffCubes(old, new)
      BY ChangesOfCube, MemberTold
    <2> QED
      BY <2>1 DEF Change, Arrivals
  <1> HIDE DEF comes, added
  <1>4. CASE m \in Added(old[c], new[c]) \ Renames(old[c], new[c])
    <2>1. \A r \in Removed(old[c], new[c]) : Twin(old[c], new[c], r) # m
      BY <1>4 DEF Renames
    <2>2. comes = {added}
      BY <1>1, <1>3, <1>4, <2>1
    <2> QED
      BY <1>4, <2>2 DEF comes
  <1>5. CASE m \in Renames(old[c], new[c])
    <2>1. PICK r \in Removed(old[c], new[c]) : Twin(old[c], new[c], r) = m
      BY <1>5 DEF Renames
    <2>2. \A s \in Removed(old[c], new[c]) : Twin(old[c], new[c], s) = m => s = r
      BY <2>1, OneTwin
    <2>3. comes = {Departure(c, old[c], new[c], r)}
      BY <1>1, <1>2, <1>5, <2>1, <2>2
    <2>4. m \in Added(old[c], new[c])
      BY <2>1, TwinAlike
    <2> QED
      BY <2>3, <2>4 DEF comes
  <1>6. CASE m \notin Added(old[c], new[c])
    <2>1. \A r \in Removed(old[c], new[c]) : Twin(old[c], new[c], r) # m
      BY <1>6, TwinAlike
    <2>2. comes = {}
      BY <1>1, <1>6, <2>1
    <2> QED
      BY <1>6, <2>2 DEF comes
  <1> QED
    BY <1>4, <1>5, <1>6

\* EveryMemberAccountedOnce, whatever the versions: no departure or arrival is
\* lost, told twice, or made one side of two renames.
THEOREM AccountedOnce == Spec => []EveryMemberAccountedOnce
  <1>1. Proposed => EveryMemberAccountedOnce
    <2> SUFFICES ASSUME Proposed, Judged, NEW c \in DOMAIN main \cap DOMAIN proposed,
                        NEW m \in NamesOf(main[c]) \cup NamesOf(proposed[c])
                 PROVE  LET changes == {ch \in DiffCubes(main, proposed) : ch.cube = c}
                            leaves == {ch \in changes :
                                         /\ ch.kind \in {"member-removed", "member-renamed"}
                                         /\ ch.member = m}
                            comes == {ch \in changes :
                                         \/ ch.kind = "member-added" /\ ch.member = m
                                         \/ ch.kind = "member-renamed" /\ ch.to = m}
                        IN  /\ Cardinality(leaves) =
                                  IF m \in Removed(main[c], proposed[c]) THEN 1 ELSE 0
                            /\ Cardinality(comes) =
                                  IF m \in Added(main[c], proposed[c]) THEN 1 ELSE 0
      BY DEF EveryMemberAccountedOnce
    <2> DEFINE changes == {ch \in DiffCubes(main, proposed) : ch.cube = c}
               leaves == {ch \in changes : /\ ch.kind \in {"member-removed", "member-renamed"}
                                           /\ ch.member = m}
               comes == {ch \in changes : \/ ch.kind = "member-added" /\ ch.member = m
                                          \/ ch.kind = "member-renamed" /\ ch.to = m}
    <2>1. Parsed(main[c]) /\ Parsed(proposed[c])
      BY CubesAssumption DEF Proposed, Judged
    <2>2. m # None
      BY <2>1, CubesAssumption DEF Parsed, NamesOf
    <2>3. leaves = {ch \in DiffCubes(main, proposed) :
                      /\ ch.cube = c /\ ch.member = m
                      /\ ch.kind \in {"member-removed", "member-renamed"}}
      OBVIOUS
    <2>4. comes = Arrivals(main, proposed, c, m)
      BY DEF Arrivals
    <2> HIDE DEF leaves, comes
    <2>5. leaves = IF m \in Removed(main[c], proposed[c])
                   THEN {Departure(c, main[c], proposed[c], m)} ELSE {}
      BY <2>3, LeavesOnce
    <2>6. IF m \in Added(main[c], proposed[c]) THEN \E ch : comes = {ch} ELSE comes = {}
      BY <2>1, <2>2, <2>4, ComesOnce
    <2>7. Cardinality(leaves) = IF m \in Removed(main[c], proposed[c]) THEN 1 ELSE 0
      BY <2>5, FS_Singleton, FS_EmptySet
    <2>8. Cardinality(comes) = IF m \in Added(main[c], proposed[c]) THEN 1 ELSE 0
      BY <2>6, FS_Singleton, FS_EmptySet
    <2> QED
      BY <2>7, <2>8 DEF leaves, comes
  <1> QED
    BY <1>1, InitProposed, NextProposed, PTL DEF Spec

=============================================================================
